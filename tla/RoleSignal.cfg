CONSTANTS
  Keys = {3, 6}
  Roles = {2, 3, 6}
  MaxCount = 2
  Room = 1
  MaxOther = 0
  MaxChange = 3
  MaxFrames = 1
SPECIFICATION RoleSpec
INVARIANTS RoleInv FirstRoleKnown
