---------------------------- MODULE Organisation ----------------------------
(***************************************************************************)
(* The units and positions of one tenant and the members placed in them    *)
(* (modules/org, and ReplaceAssignments of modules/useradmin).  An         *)
(* operation is one SERIALIZABLE transaction: it happens at once, or is    *)
(* refused or fails and changes nothing.  Rows are deleted softly and      *)
(* their identities are never used again.                                  *)
(***************************************************************************)
EXTENDS Trees

CONSTANTS Users, Units, Positions, None

ASSUME OrganisationAssumption == None \notin Units

VARIABLES
  unitParent, unitStatus, positionStatus,
  userUnits, userPositions,   \* org.user_units, org.user_positions
  positionUnit                \* the unit_id in the positions of a user

orgVars == <<unitParent, unitStatus, positionStatus, userUnits, userPositions, positionUnit>>

Settings == {"active", "disabled"}
Statuses == {"absent", "deleted"} \cup Settings

LiveUnits == {x \in Units : unitStatus[x] \in Settings}
LivePositions == {q \in Positions : positionStatus[q] \in Settings}

OrgInit ==
  /\ unitParent = [x \in Units |-> None]
  /\ unitStatus = [x \in Units |-> "absent"]
  /\ positionStatus = [q \in Positions |-> "absent"]
  /\ userUnits = [u \in Users |-> {}]
  /\ userPositions = [u \in Users |-> {}]
  /\ positionUnit = [u \in Users |-> None]

CreateUnit(x, parent, status) ==
  /\ unitStatus[x] = "absent"
  /\ parent \in LiveUnits \cup {None}
  /\ unitParent' = [unitParent EXCEPT ![x] = parent]
  /\ unitStatus' = [unitStatus EXCEPT ![x] = status]
  /\ UNCHANGED <<positionStatus, userUnits, userPositions, positionUnit>>

UpdateUnit(x, status) ==
  /\ x \in LiveUnits
  /\ unitStatus' = [unitStatus EXCEPT ![x] = status]
  /\ UNCHANGED <<unitParent, positionStatus, userUnits, userPositions, positionUnit>>

\* Mutant: the parent is looked up and the cycle is not.
MayMoveAnywhere(x, parent) == parent # None => parent \in LiveUnits

\* The new parent must be there and must not lie in what is moved.
MayMove(x, parent) ==
  parent # None => parent \in LiveUnits /\ parent \notin Below(unitParent, LiveUnits, x)

MoveUnit(x, parent) ==
  /\ x \in LiveUnits
  /\ MayMove(x, parent)
  /\ unitParent' = [unitParent EXCEPT ![x] = parent]
  /\ UNCHANGED <<unitStatus, positionStatus, userUnits, userPositions, positionUnit>>

UnitOccupied(x) ==
  (\E y \in LiveUnits : unitParent[y] = x) \/ (\E u \in Users : x \in userUnits[u])

DeleteUnit(x) ==
  /\ x \in LiveUnits
  /\ ~UnitOccupied(x)
  /\ unitStatus' = [unitStatus EXCEPT ![x] = "deleted"]
  /\ UNCHANGED <<unitParent, positionStatus, userUnits, userPositions, positionUnit>>

SetPosition(q, status) ==
  /\ positionStatus' = [positionStatus EXCEPT ![q] = status]
  /\ UNCHANGED <<unitParent, unitStatus, userUnits, userPositions, positionUnit>>

CreatePosition(q, status) == positionStatus[q] = "absent" /\ SetPosition(q, status)
UpdatePosition(q, status) == q \in LivePositions /\ SetPosition(q, status)
DeletePosition(q) ==
  /\ q \in LivePositions
  /\ \A u \in Users : q \notin userPositions[u]
  /\ SetPosition(q, "deleted")

\* The positions of the user are held in the primary unit, which is one of the
\* units of the same request.
Assignable(units, positions, primary) ==
  /\ \A x \in units : unitStatus[x] = "active"
  /\ \A q \in positions : positionStatus[q] = "active"
  /\ primary \in units \cup {None}

ReplaceAssignments(u, units, positions, primary) ==
  /\ Assignable(units, positions, primary)
  /\ userUnits' = [userUnits EXCEPT ![u] = units]
  /\ userPositions' = [userPositions EXCEPT ![u] = positions]
  /\ positionUnit' = [positionUnit EXCEPT ![u] = IF positions = {} THEN None ELSE primary]
  /\ UNCHANGED <<unitParent, unitStatus, positionStatus>>

-----------------------------------------------------------------------------
OrgTypeOK ==
  /\ unitParent \in [Units -> Units \cup {None}]
  /\ unitStatus \in [Units -> Statuses]
  /\ positionStatus \in [Positions -> Statuses]
  /\ userUnits \in [Users -> SUBSET Units]
  /\ userPositions \in [Users -> SUBSET Positions]
  /\ positionUnit \in [Users -> Units \cup {None}]

\* The units are a forest, and whoever is placed is placed in units and
\* positions that are there, its positions in one of its own units.
OrganisationSound ==
  /\ Acyclic(unitParent, LiveUnits)
  /\ \A x \in LiveUnits : unitParent[x] \in LiveUnits \cup {None}
  /\ \A u \in Users :
       /\ userUnits[u] \subseteq LiveUnits
       /\ userPositions[u] \subseteq LivePositions
       /\ positionUnit[u] \in userUnits[u] \cup {None}
=============================================================================
