------------------------------ MODULE MCRunDag ------------------------------
(* A bounded instance of RunDag for TLC.                                   *)
EXTENDS RunDag

CONSTANTS a, b, c, d, e, old

(* A diamond, one side of which needs a task of the plan before, and a     *)
(* task on its own.                                                        *)
Diamond == [t \in {a, b, c, d, e} |->
              CASE t = b -> {a} [] t = c -> {a, old} [] t = d -> {b, c} [] OTHER -> {}]
=============================================================================
