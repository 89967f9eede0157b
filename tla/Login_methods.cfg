\* One or two users with what they sign in by, two requests in flight.
SPECIFICATION Spec
CONSTANTS
  Users = {"u", "v"}
  Values = {"a@x", "b@x", "+1"}
  Subjects = {"apple1", "github1"}
  Bindings = {"x", "y"}
  Providers = {"apple", "github"}
  TypeOf <- MCTypeOf
  ProviderOf <- MCProviderOf
  EmailOf <- MCEmailOf
  Calls = {1, 2}
  Codes = {1, 2}
  Tickets = {1, 2, 3}
  Flows = {1, 2}
  Plays <- MCPlays
  MaxAttempts = 2
  None = "null"
INVARIANTS
  TypeOK
  AuthorisesOnce
PROPERTIES
  LastMethodKept
  AppleGoesRevoked
\* every code, ticket and flow may be used up
CHECK_DEADLOCK FALSE
