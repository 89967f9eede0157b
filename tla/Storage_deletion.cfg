\* Two users with the same avatar, of whom one takes another.
SPECIFICATION Spec
CONSTANTS
  Uploads = {"one", "two", "three"}
  Users = {"a", "b"}
  Calls = {1}
  Keys = {1}
  Plans <- AvatarPlans
  MaxFaults = 0
  MaxAttempts = 1
  NoFile = "none"
INVARIANTS
  DeletionGoesThrough
CHECK_DEADLOCK FALSE
