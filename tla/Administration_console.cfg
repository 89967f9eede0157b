\* Six plays of one to three members with three rows of a kind.
SPECIFICATION Spec
CONSTANTS
  Users = {"u", "v", "w"}
  Units = {"x", "y", "z"}
  Positions = {"q"}
  None = "null"
  Roles = {"r", "s", "t"}
  SuperAdmin = "super-admin"
  Menus = {"m", "n", "o"}
  CoreMenus = {"core1", "core2"}
  CoreParent <- MCCoreParent
  Plays <- MCPlays
INVARIANTS
  StructureSound
PROPERTIES
  AdminLostByRolesOnly
CHECK_DEADLOCK FALSE
