CONSTANTS
  Handles = {ana}
  Taken = {}
  BoardHandle = board
  NoHandle = none
  Nothing = nothing
  Gates = {"complete", "action-needed"}
  Policies = {"token"}
  Boards = {"eligible"}
  Slots = {1, 2}
  MaxUnheard = 1
  Overlapping = {"join", "publish"}
SPECIFICATION Spec
INVARIANTS AdmittedIsComplete ShownIsCurrent
PROPERTIES AdmissionEndsByJoining
CHECK_DEADLOCK FALSE
