CONSTANTS
  Ids = {"asset_1", "code_1", "godot_1"}
  MaxVisits = 50
SPECIFICATION FairSpec
INVARIANTS TypeOK SuccessIsEarned
PROPERTIES GraphEnds
