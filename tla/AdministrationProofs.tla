------------------------ MODULE AdministrationProofs ------------------------
(***************************************************************************)
(* Proofs about Administration for any members, units, positions, roles    *)
(* and menus: that the trees stay trees, that nothing in use is deleted,   *)
(* and that a tenant keeps a super administrator.                          *)
(***************************************************************************)
EXTENDS Administration, FiniteSetTheorems, TLAPS

(* Trees: walks *)

\* What a walk finds are rows, the row it began at among them; it is closed,
\* and a part of every closed set with that row.
LEMMA AboveIsClosed ==
  ASSUME NEW parent, NEW N, NEW n \in N
  PROVE  /\ Above(parent, N, n) \subseteq N
         /\ n \in Above(parent, N, n)
         /\ UpClosed(parent, N, Above(parent, N, n))
  BY DEF Above, UpClosed

LEMMA AboveIsLeast ==
  ASSUME NEW parent, NEW N, NEW n, NEW S \in SUBSET N, n \in S, UpClosed(parent, N, S)
  PROVE  Above(parent, N, n) \subseteq S
  BY DEF Above

LEMMA BelowIsClosed ==
  ASSUME NEW parent, NEW N, NEW n \in N
  PROVE  /\ Below(parent, N, n) \subseteq N
         /\ n \in Below(parent, N, n)
         /\ DownClosed(parent, N, Below(parent, N, n))
  BY DEF Below, DownClosed

\* What lies below a row, and is not the row, has its parent there too.
LEMMA BelowHasParent ==
  ASSUME NEW parent, NEW N, NEW n \in N, NEW x \in Below(parent, N, n), x # n
  PROVE  parent[x] \in Below(parent, N, n)
<1> DEFINE B == Below(parent, N, n)
<1> SUFFICES ASSUME parent[x] \notin B PROVE FALSE
  OBVIOUS
<1>1. B \subseteq N /\ n \in B /\ DownClosed(parent, N, B)
  BY BelowIsClosed
<1>2. DownClosed(parent, N, B \ {x})
  BY <1>1 DEF DownClosed
<1>3. n \in B \ {x} /\ B \ {x} \in SUBSET N
  BY <1>1
<1>4. x \in B \ {x}
  BY <1>2, <1>3 DEF Below
<1> QED
  BY <1>4

\* Two tables whose rows agree and whose parents are rows of the smaller one
\* have the same rows above.
LEMMA AboveStays ==
  ASSUME NEW parent, NEW other, NEW N, NEW M, N \subseteq M, NEW n \in N,
         \A x \in N : other[x] = parent[x] /\ (parent[x] \in M => parent[x] \in N)
  PROVE  Above(other, M, n) = Above(parent, N, n)
<1> DEFINE A == Above(parent, N, n)
           B == Above(other, M, n)
<1>1. A \subseteq N /\ n \in A /\ UpClosed(parent, N, A)
  BY AboveIsClosed
<1>2. n \in M /\ A \in SUBSET M /\ UpClosed(other, M, A)
  BY <1>1 DEF UpClosed
<1>3. B \subseteq A
  BY <1>1, <1>2, AboveIsLeast
<1>4. B \subseteq M /\ n \in B /\ UpClosed(other, M, B)
  BY <1>2, AboveIsClosed
<1>5. B \in SUBSET N /\ UpClosed(parent, N, B)
  BY <1>1, <1>3, <1>4 DEF UpClosed
<1>6. A \subseteq B
  BY <1>4, <1>5, AboveIsLeast
<1> QED
  BY <1>3, <1>6

-----------------------------------------------------------------------------
(* Trees: cycles *)

LEMMA FewerRows ==
  ASSUME NEW parent, NEW N, NEW M \in SUBSET N, Acyclic(parent, N)
  PROVE  Acyclic(parent, M)
  BY DEF Acyclic

LEMMA SameParents ==
  ASSUME NEW parent, NEW other, NEW N, Acyclic(parent, N), \A x \in N : other[x] = parent[x]
  PROVE  Acyclic(other, N)
  BY DEF Acyclic

\* A row that nobody names as parent joins the others.
LEMMA AddRow ==
  ASSUME NEW parent, NEW other, NEW N, NEW x, x \notin N, Acyclic(parent, N), other[x] # x,
         \A y \in N : other[y] = parent[y] /\ parent[y] # x
  PROVE  Acyclic(other, N \cup {x})
<1> SUFFICES ASSUME NEW S \in SUBSET (N \cup {x}), S # {}
             PROVE  \E y \in S : other[y] \notin S
  BY DEF Acyclic
<1>1. CASE S \ {x} = {}
  BY <1>1
<1>2. CASE S \ {x} # {}
  <2>1. PICK y \in S \ {x} : parent[y] \notin S \ {x}
    BY <1>2 DEF Acyclic
  <2> QED
    BY <2>1
<1> QED
  BY <1>1, <1>2

\* A row goes below one that it does not lie above: were there a cycle, the
\* rows of the cycle outside of a closed set that keeps the two apart would
\* have been one before.
LEMMA MoveBelowOther ==
  ASSUME NEW parent, NEW other, NEW N, NEW x \in N, Acyclic(parent, N),
         \A y \in N \ {x} : other[y] = parent[y],
         other[x] \in N => x \notin Above(parent, N, other[x])
  PROVE  Acyclic(other, N)
<1> SUFFICES ASSUME NEW S \in SUBSET N, S # {}, \A y \in S : other[y] \in S
             PROVE  FALSE
  BY DEF Acyclic
<1>1. CASE x \notin S
  BY <1>1 DEF Acyclic
<1>2. CASE x \in S
  <2> DEFINE A == Above(parent, N, other[x])
             T == S \cap A
  <2>1. other[x] \in S /\ x \notin A
    BY <1>2
  <2>2. other[x] \in A /\ UpClosed(parent, N, A)
    BY <2>1, AboveIsClosed
  <2>3. T # {} /\ T \in SUBSET N
    BY <2>1, <2>2
  <2>4. ASSUME NEW y \in T PROVE parent[y] \in T
    BY <2>1, <2>2, <2>4 DEF UpClosed
  <2> QED
    BY <2>3, <2>4 DEF Acyclic
<1> QED
  BY <1>1, <1>2

LEMMA MoveNotIntoItself ==
  ASSUME NEW parent, NEW other, NEW N, NEW x \in N, Acyclic(parent, N),
         \A y \in N \ {x} : other[y] = parent[y],
         other[x] \in N => other[x] \notin Below(parent, N, x)
  PROVE  Acyclic(other, N)
<1> SUFFICES ASSUME NEW S \in SUBSET N, S # {}, \A y \in S : other[y] \in S
             PROVE  FALSE
  BY DEF Acyclic
<1>1. CASE x \notin S
  BY <1>1 DEF Acyclic
<1>2. CASE x \in S
  <2> DEFINE B == Below(parent, N, x)
             T == S \ B
  <2>1. other[x] \in S /\ other[x] \notin B
    BY <1>2
  <2>2. x \in B /\ DownClosed(parent, N, B)
    BY BelowIsClosed
  <2>3. T # {} /\ T \in SUBSET N
    BY <2>1
  <2>4. ASSUME NEW y \in T PROVE parent[y] \in T
    BY <2>2, <2>4 DEF DownClosed
  <2> QED
    BY <2>3, <2>4 DEF Acyclic
<1> QED
  BY <1>1, <1>2

-----------------------------------------------------------------------------
(* Types *)

LEMMA InitTyped == Init => TypeOK
  BY AccessAssumption DEF Init, OrgInit, AccessInit, TypeOK, OrgTypeOK, AccessTypeOK, Settings,
     Statuses

LEMMA OrganisationTyped ==
  ASSUME TypeOK, OrganisationOperation
  PROVE  OrgTypeOK'
<1> USE DEF TypeOK, OrgTypeOK, Settings, Statuses, LiveUnits, LivePositions
<1> play.units \subseteq Units /\ play.positions \subseteq Positions
  BY AdministrationAssumption
<1>1. ASSUME NEW x \in play.units, NEW parent \in Units \cup {None}, NEW status \in Settings,
             CreateUnit(x, parent, status)
      PROVE  OrgTypeOK'
  BY <1>1 DEF CreateUnit
<1>2. ASSUME NEW x \in play.units, NEW parent \in Units \cup {None}, MoveUnit(x, parent)
      PROVE  OrgTypeOK'
  BY <1>2 DEF MoveUnit
<1>3. ASSUME NEW x \in play.units, DeleteUnit(x)
      PROVE  OrgTypeOK'
  BY <1>3 DEF DeleteUnit
<1>4. ASSUME NEW x \in play.units, NEW status \in Settings, UpdateUnit(x, status)
      PROVE  OrgTypeOK'
  BY <1>4 DEF UpdateUnit
<1>5. ASSUME NEW q \in play.positions, NEW status \in Statuses, SetPosition(q, status)
      PROVE  OrgTypeOK'
  BY <1>5 DEF SetPosition
<1>6. ASSUME NEW u \in Members, NEW units \in SUBSET play.units,
             NEW positions \in SUBSET play.positions, NEW primary \in play.units \cup {None},
             ReplaceAssignments(u, units, positions, primary)
      PROVE  OrgTypeOK'
  <2>1. primary \in Units \cup {None}
    OBVIOUS
  <2>2. positionUnit' \in [Users -> Units \cup {None}]
    BY <1>6, <2>1 DEF ReplaceAssignments
  <2>3. /\ userUnits' \in [Users -> SUBSET Units]
        /\ userPositions' \in [Users -> SUBSET Positions]
    BY <1>6 DEF ReplaceAssignments
  <2> QED
    BY <1>6, <2>2, <2>3 DEF ReplaceAssignments
<1> QED
  BY <1>1, <1>2, <1>3, <1>4, <1>5, <1>6
     DEF OrganisationOperation, CreatePosition, UpdatePosition, DeletePosition

LEMMA AccessTyped ==
  ASSUME TypeOK, AccessOperation
  PROVE  AccessTypeOK'
<1> USE DEF TypeOK, AccessTypeOK, Settings, Statuses, LiveRoles, OwnMenus, LiveMenus, menuVars
<1> /\ play.roles \subseteq Roles
    /\ play.menus \subseteq Menus \cup CoreMenus
    /\ play.units \subseteq Units
  BY AdministrationAssumption
<1>1. ASSUME NEW r \in play.roles, NEW parent \in Roles \cup {SuperAdmin, None},
             NEW status \in Settings, SetRole(r, parent, status)
      PROVE  AccessTypeOK'
  BY <1>1 DEF SetRole
<1>2. ASSUME NEW r \in play.roles, DeleteRole(r)
      PROVE  AccessTypeOK'
  BY <1>2 DEF DeleteRole
<1>3. ASSUME NEW r \in play.roles, NEW g \in BOOLEAN, ReplaceRolePermissions(r, g)
      PROVE  AccessTypeOK'
  BY <1>3 DEF ReplaceRolePermissions
<1>4. ASSUME NEW r \in play.roles, NEW menus \in SUBSET play.menus, ReplaceRoleMenus(r, menus)
      PROVE  AccessTypeOK'
  BY <1>4 DEF ReplaceRoleMenus
<1>5. ASSUME NEW r \in play.roles, NEW units \in SUBSET play.units,
             ReplaceRoleDataScope(r, units)
      PROVE  AccessTypeOK'
  BY <1>5 DEF ReplaceRoleDataScope
<1>6. ASSUME NEW m \in play.menus \cap Menus, NEW parent \in Menus \cup CoreMenus \cup {None},
             NEW status \in Settings, CreateMenu(m, parent, status)
      PROVE  AccessTypeOK'
  BY <1>6 DEF CreateMenu
<1>7. ASSUME NEW m \in play.menus \cap Menus, NEW parent \in Menus \cup CoreMenus \cup {None},
             MoveMenu(m, parent)
      PROVE  AccessTypeOK'
  BY <1>7 DEF MoveMenu
<1>8. ASSUME NEW m \in play.menus \cap Menus, DeleteMenu(m)
      PROVE  AccessTypeOK'
  BY <1>8 DEF DeleteMenu
<1>9. ASSUME NEW m \in play.menus \cap Menus, NEW status \in Settings, UpdateMenu(m, status)
      PROVE  AccessTypeOK'
  BY <1>9 DEF UpdateMenu
<1>10. ASSUME NEW u \in Members, NEW roles \in SUBSET (play.roles \cup {SuperAdmin}),
              ReplaceRoles(u, roles)
       PROVE  AccessTypeOK'
  BY <1>10 DEF ReplaceRoles
<1> QED
  BY <1>1, <1>2, <1>3, <1>4, <1>5, <1>6, <1>7, <1>8, <1>9, <1>10
     DEF AccessOperation, CreateRole, UpdateRole

LEMMA StaffTyped ==
  ASSUME TypeOK, NEW a \in Users, StaffOperation(a)
  PROVE  /\ member' \in [Users -> {"none", "active", "suspended", "left"}]
         /\ tenant' \in Settings
         /\ UNCHANGED <<play, orgVars, accessVars>>
<1>1. ASSUME NEW u \in Users, NEW status \in {"active", "suspended", "left"},
             SetMember(u, status)
      PROVE  /\ member' \in [Users -> {"none", "active", "suspended", "left"}]
             /\ tenant' = tenant
             /\ UNCHANGED <<play, orgVars, accessVars>>
  BY <1>1 DEF SetMember, TypeOK
<1>2. ASSUME NEW status \in Settings, UpdateTenant(status)
      PROVE  /\ member' = member
             /\ tenant' \in Settings
             /\ UNCHANGED <<play, orgVars, accessVars>>
  BY <1>2 DEF UpdateTenant
<1>3. CASE \E status \in Settings : UpdateTenant(status)
  BY <1>2, <1>3 DEF TypeOK
<1>4. CASE \E u \in Users, status \in {"active", "suspended", "left"} : SetMember(u, status)
  BY <1>1, <1>4 DEF TypeOK
<1> QED
  BY <1>3, <1>4
     DEF StaffOperation, CreateUser, AddMember, EnableUser, DisableUser, SetMemberStatus

LEMMA NextTyped ==
  ASSUME TypeOK, [Next]_vars
  PROVE  TypeOK'
<1>1. CASE UNCHANGED vars
  BY <1>1 DEF vars, people, orgVars, accessVars, TypeOK, OrgTypeOK, AccessTypeOK, Statuses
<1>2. ASSUME NEW a \in Users, Authenticate(a)
      PROVE  TypeOK'
  BY <1>2 DEF Authenticate, orgVars, accessVars, TypeOK, OrgTypeOK, AccessTypeOK
<1>3. ASSUME NEW a \in Users, StaffOperation(a), pending' \in [Users -> BOOLEAN]
      PROVE  TypeOK'
  <2>1. OrgTypeOK'
    BY <1>3, StaffTyped DEF orgVars, OrgTypeOK, TypeOK
  <2>2. AccessTypeOK'
    BY <1>3, StaffTyped DEF accessVars, AccessTypeOK, TypeOK
  <2> QED
    BY <1>3, <2>1, <2>2, StaffTyped DEF TypeOK
<1>4. ASSUME OrganisationOperation, pending' \in [Users -> BOOLEAN]
      PROVE  TypeOK'
  <2>1. AccessTypeOK' /\ UNCHANGED <<play, member, tenant>>
    BY <1>4 DEF OrganisationOperation, accessVars, AccessTypeOK, TypeOK
  <2> QED
    BY <1>4, <2>1, OrganisationTyped DEF TypeOK
<1>5. ASSUME AccessOperation, pending' \in [Users -> BOOLEAN]
      PROVE  TypeOK'
  <2>1. OrgTypeOK' /\ UNCHANGED <<play, member, tenant>>
    BY <1>5 DEF AccessOperation, orgVars, OrgTypeOK, TypeOK
  <2> QED
    BY <1>5, <2>1, AccessTyped DEF TypeOK
<1>6. ASSUME NEW a \in Users, Execute(a)
      PROVE  TypeOK'
  <2>1. pending' \in [Users -> BOOLEAN]
    BY <1>6 DEF Execute, TypeOK
  <2>2. CASE UNCHANGED <<play, member, tenant, orgVars, accessVars>>
    BY <2>1, <2>2 DEF orgVars, accessVars, TypeOK, OrgTypeOK, AccessTypeOK
  <2> QED
    BY <1>3, <1>4, <1>5, <1>6, <2>1, <2>2 DEF Execute
<1>7. ASSUME NEW a \in Users, Import(a)
      PROVE  TypeOK'
  <2>1. StaffOperation(a) /\ UNCHANGED pending
    BY <1>7 DEF Import, StaffOperation
  <2> QED
    BY <1>3, <2>1 DEF TypeOK
<1> QED
  BY <1>1, <1>2, <1>6, <1>7 DEF Next

\* Type correctness of the console, for any members and any rows.
THEOREM TypeCorrect == Spec => []TypeOK
<1>1. Init => TypeOK
  BY InitTyped
<1>2. TypeOK /\ [Next]_vars => TypeOK'
  BY NextTyped
<1> QED
  BY <1>1, <1>2, PTL DEF Spec

-----------------------------------------------------------------------------
(* The organisation *)

LEMMA CreateUnitSound ==
  ASSUME TypeOK, OrganisationSound, NEW x \in Units, NEW parent \in Units \cup {None},
         NEW status \in Settings, CreateUnit(x, parent, status)
  PROVE  OrganisationSound'
<1>1. LiveUnits' = LiveUnits \cup {x} /\ x \notin LiveUnits /\ LivePositions' = LivePositions
  BY DEF CreateUnit, LiveUnits, LivePositions, TypeOK, OrgTypeOK, Settings
<1>2. /\ unitParent'[x] \in LiveUnits \cup {None}
      /\ \A y \in LiveUnits : unitParent'[y] = unitParent[y]
  BY <1>1 DEF CreateUnit, LiveUnits, TypeOK, OrgTypeOK
<1>3. x # None
  BY OrganisationAssumption
<1>4. Acyclic(unitParent', LiveUnits \cup {x})
  BY <1>1, <1>2, <1>3, AddRow DEF OrganisationSound
<1> QED
  BY <1>1, <1>2, <1>4 DEF CreateUnit, OrganisationSound

LEMMA MoveUnitSound ==
  ASSUME TypeOK, OrganisationSound, NEW x \in Units, NEW parent \in Units \cup {None},
         MoveUnit(x, parent)
  PROVE  OrganisationSound'
<1>1. LiveUnits' = LiveUnits /\ x \in LiveUnits /\ LivePositions' = LivePositions
  BY DEF MoveUnit, LiveUnits, LivePositions
<1>2. /\ unitParent'[x] = parent
      /\ \A y \in LiveUnits \ {x} : unitParent'[y] = unitParent[y]
  BY <1>1 DEF MoveUnit, LiveUnits, TypeOK, OrgTypeOK
<1>3. parent # None => parent \in LiveUnits /\ parent \notin Below(unitParent, LiveUnits, x)
  BY DEF MoveUnit, MayMove
<1>4. None \notin LiveUnits
  BY OrganisationAssumption DEF LiveUnits
<1>5. Acyclic(unitParent', LiveUnits)
  BY <1>1, <1>2, <1>3, <1>4, MoveNotIntoItself DEF OrganisationSound
<1> QED
  BY <1>1, <1>2, <1>3, <1>5 DEF MoveUnit, OrganisationSound

LEMMA DeleteUnitSound ==
  ASSUME TypeOK, OrganisationSound, NEW x \in Units, DeleteUnit(x)
  PROVE  OrganisationSound'
<1>1. LiveUnits' = LiveUnits \ {x} /\ LivePositions' = LivePositions
  BY DEF DeleteUnit, LiveUnits, LivePositions, TypeOK, OrgTypeOK, Settings
<1>2. /\ \A y \in LiveUnits : unitParent[y] # x
      /\ \A u \in Users : x \notin userUnits[u]
  BY DEF DeleteUnit, UnitOccupied
<1>3. Acyclic(unitParent, LiveUnits \ {x})
  BY FewerRows DEF OrganisationSound
<1> QED
  BY <1>1, <1>2, <1>3 DEF DeleteUnit, OrganisationSound

LEMMA UpdateUnitSound ==
  ASSUME TypeOK, OrganisationSound, NEW x \in Units, NEW status \in Settings,
         UpdateUnit(x, status)
  PROVE  OrganisationSound'
<1>1. LiveUnits' = LiveUnits /\ LivePositions' = LivePositions
  BY DEF UpdateUnit, LiveUnits, LivePositions, TypeOK, OrgTypeOK
<1> QED
  BY <1>1 DEF UpdateUnit, OrganisationSound

\* A position may come, change and, when nobody holds it, go.
LEMMA SetPositionSound ==
  ASSUME TypeOK, OrganisationSound, NEW q \in Positions, NEW status \in Statuses,
         SetPosition(q, status),
         status \in Settings \/ \A u \in Users : q \notin userPositions[u]
  PROVE  OrganisationSound'
<1>1. LiveUnits' = LiveUnits
  BY DEF SetPosition, LiveUnits
<1>2. \A u \in Users : userPositions[u] \subseteq LivePositions'
  BY DEF SetPosition, LivePositions, TypeOK, OrgTypeOK, OrganisationSound
<1> QED
  BY <1>1, <1>2 DEF SetPosition, OrganisationSound

LEMMA ReplaceAssignmentsSound ==
  ASSUME TypeOK, OrganisationSound, NEW u \in Users, NEW units \in SUBSET Units,
         NEW positions \in SUBSET Positions, NEW primary \in Units \cup {None},
         ReplaceAssignments(u, units, positions, primary)
  PROVE  OrganisationSound'
<1>1. LiveUnits' = LiveUnits /\ LivePositions' = LivePositions
  BY DEF ReplaceAssignments, LiveUnits, LivePositions
<1>2. units \subseteq LiveUnits /\ positions \subseteq LivePositions
  BY DEF ReplaceAssignments, Assignable, LiveUnits, LivePositions, Settings
<1>3. \A v \in Users : /\ userUnits'[v] = IF v = u THEN units ELSE userUnits[v]
                       /\ userPositions'[v] = IF v = u THEN positions ELSE userPositions[v]
  BY DEF ReplaceAssignments, TypeOK, OrgTypeOK
<1>4. \A v \in Users : positionUnit'[v] \in userUnits'[v] \cup {None}
  BY <1>3 DEF ReplaceAssignments, Assignable, TypeOK, OrgTypeOK, OrganisationSound
<1> QED
  BY <1>1, <1>2, <1>3, <1>4 DEF ReplaceAssignments, OrganisationSound

LEMMA OrganisationKept ==
  ASSUME TypeOK, OrganisationSound, OrganisationOperation
  PROVE  OrganisationSound'
<1>1. play.units \subseteq Units /\ play.positions \subseteq Positions
  BY AdministrationAssumption DEF TypeOK
<1>2. ASSUME NEW q \in play.positions, DeletePosition(q)
      PROVE  OrganisationSound'
  BY <1>1, <1>2, SetPositionSound DEF DeletePosition, Statuses
<1>3. ASSUME NEW q \in play.positions, NEW status \in Settings,
             CreatePosition(q, status) \/ UpdatePosition(q, status)
      PROVE  OrganisationSound'
  BY <1>1, <1>3, SetPositionSound DEF CreatePosition, UpdatePosition, Statuses
<1>4. ASSUME NEW u \in Members, NEW units \in SUBSET play.units,
             NEW positions \in SUBSET play.positions, NEW primary \in play.units \cup {None},
             ReplaceAssignments(u, units, positions, primary)
      PROVE  OrganisationSound'
  BY <1>1, <1>4, ReplaceAssignmentsSound DEF Members
<1>5. ASSUME NEW x \in play.units, NEW parent \in Units \cup {None},
             (\E status \in Settings : CreateUnit(x, parent, status)) \/ MoveUnit(x, parent)
      PROVE  OrganisationSound'
  BY <1>1, <1>5, CreateUnitSound, MoveUnitSound
<1>6. ASSUME NEW x \in play.units,
             DeleteUnit(x) \/ \E status \in Settings : UpdateUnit(x, status)
      PROVE  OrganisationSound'
  BY <1>1, <1>6, DeleteUnitSound, UpdateUnitSound
<1> QED
  BY <1>2, <1>3, <1>4, <1>5, <1>6 DEF OrganisationOperation

-----------------------------------------------------------------------------
(* The roles *)

\* AccessSound of the roles.  What makes it inductive: every row, deleted or
\* not, names a row as its parent, so a new role is nobody's parent.
RolesSound ==
  /\ Acyclic(roleParent, LiveRoles)
  /\ \A r \in RoleRows \ {SuperAdmin} : roleParent[r] \in RoleRows \cup {None}
  /\ \A u \in Users : userRoles[u] \subseteq LiveRoles \cup {SuperAdmin}

LEMMA CreateRoleSound ==
  ASSUME TypeOK, RolesSound, NEW r \in Roles, NEW parent \in Roles \cup {SuperAdmin, None},
         NEW status \in Settings, CreateRole(r, parent, status)
  PROVE  RolesSound'
<1>1. /\ LiveRoles' = LiveRoles \cup {r} /\ r \notin LiveRoles
      /\ RoleRows' = RoleRows \cup {r} /\ r \notin RoleRows
      /\ LiveRoles \subseteq RoleRows \ {SuperAdmin}
  BY AccessAssumption
     DEF CreateRole, SetRole, LiveRoles, RoleRows, TypeOK, AccessTypeOK, Settings
<1>2. /\ roleParent'[r] = parent
      /\ \A s \in Roles \ {r} : roleParent'[s] = roleParent[s]
  BY DEF CreateRole, SetRole, TypeOK, AccessTypeOK
<1>3. parent \in (RoleRows \ {r}) \cup {None} /\ r # None
  BY AccessAssumption DEF CreateRole, SetRole, RoleParent
<1>4. \A s \in LiveRoles : roleParent'[s] = roleParent[s] /\ roleParent[s] # r
  BY <1>1, <1>2, <1>3 DEF RolesSound, LiveRoles
<1>5. Acyclic(roleParent', LiveRoles \cup {r})
  BY <1>1, <1>2, <1>3, <1>4, AddRow DEF RolesSound
<1>6. \A s \in RoleRows' \ {SuperAdmin} : roleParent'[s] \in RoleRows' \cup {None}
  BY <1>1, <1>2, <1>3 DEF RolesSound, RoleRows
<1>7. userRoles' = userRoles
  BY DEF CreateRole, SetRole
<1> QED
  BY <1>1, <1>5, <1>6, <1>7 DEF RolesSound

LEMMA UpdateRoleSound ==
  ASSUME TypeOK, RolesSound, NEW r \in Roles, NEW parent \in Roles \cup {SuperAdmin, None},
         NEW status \in Settings, UpdateRole(r, parent, status)
  PROVE  RolesSound'
<1>1. LiveRoles' = LiveRoles /\ r \in LiveRoles /\ RoleRows' = RoleRows
  BY DEF UpdateRole, SetRole, LiveRoles, RoleRows, TypeOK, AccessTypeOK, Settings
<1>2. /\ roleParent'[r] = parent
      /\ \A s \in Roles \ {r} : roleParent'[s] = roleParent[s]
  BY DEF UpdateRole, SetRole, TypeOK, AccessTypeOK
<1>3. parent # None => parent \in RoleRows /\ r \notin Above(roleParent, LiveRoles, parent)
  BY DEF UpdateRole, SetRole, RoleParent
<1>4. None \notin LiveRoles /\ \A s \in LiveRoles \ {r} : roleParent'[s] = roleParent[s]
  BY <1>2, AccessAssumption DEF LiveRoles
<1>5. Acyclic(roleParent', LiveRoles)
  BY <1>1, <1>2, <1>3, <1>4, MoveBelowOther DEF RolesSound
<1>6. \A s \in RoleRows \ {SuperAdmin} : roleParent'[s] \in RoleRows \cup {None}
  BY <1>2, <1>3 DEF RolesSound, RoleRows
<1>7. userRoles' = userRoles
  BY DEF UpdateRole, SetRole
<1> QED
  BY <1>1, <1>5, <1>6, <1>7 DEF RolesSound

LEMMA DeleteRoleSound ==
  ASSUME TypeOK, RolesSound, NEW r \in Roles, DeleteRole(r)
  PROVE  RolesSound'
<1>1. LiveRoles' = LiveRoles \ {r} /\ RoleRows' = RoleRows
  BY DEF DeleteRole, LiveRoles, RoleRows, TypeOK, AccessTypeOK, Settings
<1>2. \A u \in Users : r \notin userRoles[u]
  BY DEF DeleteRole, RoleOccupied
<1>3. Acyclic(roleParent, LiveRoles \ {r})
  BY FewerRows DEF RolesSound
<1> QED
  BY <1>1, <1>2, <1>3 DEF DeleteRole, RolesSound

LEMMA ReplaceRolesSound ==
  ASSUME TypeOK, RolesSound, NEW u \in Users, NEW roles, ReplaceRoles(u, roles)
  PROVE  RolesSound'
<1>1. LiveRoles' = LiveRoles /\ RoleRows' = RoleRows
  BY DEF ReplaceRoles, LiveRoles, RoleRows
<1>2. roles \subseteq LiveRoles \cup {SuperAdmin}
  BY DEF ReplaceRoles, ActiveRoles, LiveRoles, Settings
<1>3. \A v \in Users : userRoles'[v] = IF v = u THEN roles ELSE userRoles[v]
  BY DEF ReplaceRoles, TypeOK, AccessTypeOK
<1> QED
  BY <1>1, <1>2, <1>3 DEF ReplaceRoles, RolesSound

LEMMA RolesKept ==
  ASSUME TypeOK, RolesSound, AccessOperation
  PROVE  RolesSound'
<1>1. play.roles \subseteq Roles
  BY AdministrationAssumption DEF TypeOK
<1>2. ASSUME UNCHANGED <<roleParent, roleStatus, userRoles>>
      PROVE  RolesSound'
  BY <1>2 DEF RolesSound, LiveRoles, RoleRows
<1>3. ASSUME NEW r \in play.roles, NEW parent \in Roles \cup {SuperAdmin, None},
             NEW status \in Settings, CreateRole(r, parent, status) \/ UpdateRole(r, parent, status)
      PROVE  RolesSound'
  BY <1>1, <1>3, CreateRoleSound, UpdateRoleSound
<1>4. ASSUME NEW r \in play.roles, DeleteRole(r)
      PROVE  RolesSound'
  BY <1>1, <1>4, DeleteRoleSound
<1>5. ASSUME NEW u \in Members, NEW roles, ReplaceRoles(u, roles)
      PROVE  RolesSound'
  BY <1>5, ReplaceRolesSound DEF Members
<1> QED
  BY <1>2, <1>3, <1>4, <1>5
     DEF AccessOperation, ReplaceRolePermissions, ReplaceRoleMenus, ReplaceRoleDataScope,
         CreateMenu, MoveMenu, DeleteMenu, UpdateMenu

-----------------------------------------------------------------------------
(* The menus *)

\* A closed set bounds the depth of its rows.
LEMMA DepthBound ==
  ASSUME NEW parent, NEW N, NEW n, NEW S \in SUBSET N, n \in S, UpClosed(parent, N, S),
         IsFiniteSet(S)
  PROVE  Depth(parent, N, n) \in Nat /\ Depth(parent, N, n) <= Cardinality(S)
  BY AboveIsLeast, FS_Subset, FS_CardinalityType DEF Depth

\* When x moves, a row outside of what moves lies no deeper than before, and a
\* row inside lies below what it had above it there and the new parent's own.
LEMMA MovedDepth ==
  ASSUME NEW parent, NEW other, NEW N, IsFiniteSet(N), NEW B \in SUBSET N, NEW x \in B,
         DownClosed(parent, N, B), \A z \in B \ {x} : parent[z] \in B,
         \A z \in N \ {x} : other[z] = parent[z],
         other[x] \in N => x \notin Above(parent, N, other[x])
  PROVE  /\ \A y \in N \ B : Depth(other, N, y) <= Depth(parent, N, y)
         /\ \A y \in B :
              Depth(other, N, y) <=
                Depth(parent, N, other[x]) + Cardinality(Above(parent, N, y) \cap B)
<1>1. ASSUME NEW y \in N \ B
      PROVE  Depth(other, N, y) <= Depth(parent, N, y)
  <2> DEFINE A == Above(parent, N, y)
  <2>1. A \subseteq N /\ y \in A /\ UpClosed(parent, N, A)
    BY AboveIsClosed
  <2>2. UpClosed(other, N, A \ B)
    BY <2>1 DEF UpClosed, DownClosed
  <2>3. IsFiniteSet(A) /\ IsFiniteSet(A \ B) /\ Cardinality(A \ B) <= Cardinality(A)
    BY <2>1, FS_Subset
  <2>4. Depth(other, N, y) \in Nat /\ Depth(other, N, y) <= Cardinality(A \ B)
    BY <2>1, <2>2, <2>3, DepthBound
  <2>5. Cardinality(A \ B) \in Nat /\ Cardinality(A) \in Nat
    BY <2>3, FS_CardinalityType
  <2> HIDE DEF A
  <2> QED
    BY <2>3, <2>4, <2>5 DEF A, Depth
<1>2. ASSUME NEW y \in B
      PROVE  Depth(other, N, y) <=
               Depth(parent, N, other[x]) + Cardinality(Above(parent, N, y) \cap B)
  <2> DEFINE A == Above(parent, N, y) \cap B
             P == Above(parent, N, other[x])
  <2>1. /\ Above(parent, N, y) \subseteq N /\ y \in A
        /\ UpClosed(parent, N, Above(parent, N, y))
    BY AboveIsClosed
  <2>2. /\ P \subseteq N /\ x \notin P
        /\ other[x] \in N => other[x] \in P
        /\ UpClosed(parent, N, P)
    <3>1. CASE other[x] \in N
      BY <3>1, AboveIsClosed
    <3>2. CASE other[x] \notin N
      <4>1. P = {}
        BY <3>2 DEF Above
      <4> QED
        BY <3>2, <4>1 DEF UpClosed
    <3> QED
      BY <3>1, <3>2
  <2> HIDE DEF P
  <2>3. UpClosed(other, N, A \cup P)
    BY <2>1, <2>2 DEF UpClosed
  <2>4. /\ IsFiniteSet(A) /\ IsFiniteSet(P) /\ IsFiniteSet(A \cup P)
        /\ A \cup P \in SUBSET N /\ y \in A \cup P
    BY <2>1, <2>2, FS_Subset
  <2>5. Depth(other, N, y) \in Nat /\ Depth(other, N, y) <= Cardinality(A \cup P)
    BY <2>3, <2>4, DepthBound
  <2>6. Cardinality(A \cup P) = Cardinality(A) + Cardinality(P) - Cardinality(A \cap P)
    BY <2>4, FS_Union
  <2>7. /\ Cardinality(A) \in Nat /\ Cardinality(P) \in Nat
        /\ Cardinality(A \cup P) \in Nat /\ Cardinality(A \cap P) \in Nat
    BY <2>4, FS_CardinalityType, FS_Subset, A \cap P \subseteq A
  <2>8. Depth(parent, N, other[x]) = Cardinality(P)
    BY DEF Depth, P
  <2> QED
    BY <2>5, <2>6, <2>7, <2>8
<1> QED
  BY <1>1, <1>2

\* AccessSound of the menus, and that the core menus stay where the seed put
\* them: no menu of the tenant is ever the parent of one of theirs.
MenusSound ==
  /\ Acyclic(menuParent, LiveMenus)
  /\ \A m \in OwnMenus : menuParent[m] \in LiveMenus \cup {None}
  /\ \A c \in CoreMenus : menuParent[c] = CoreParent[c]
  /\ \A m \in LiveMenus : MenuDepth(m) <= MaxDepth
  /\ \A r \in Roles : roleMenus[r] \subseteq LiveMenus

LEMMA MenuFacts ==
  ASSUME TypeOK, MenusSound
  PROVE  /\ IsFiniteSet(LiveMenus) /\ None \notin LiveMenus
         /\ OwnMenus \subseteq Menus /\ OwnMenus \cap CoreMenus = {}
         /\ \A c \in CoreMenus : menuParent[c] \in CoreMenus \cup {None}
         /\ \A m \in LiveMenus : menuParent[m] \in LiveMenus \cup {None}
         /\ \A m \in LiveMenus : MenuDepth(m) \in Nat
<1>1. OwnMenus \subseteq Menus /\ None \notin LiveMenus /\ OwnMenus \cap CoreMenus = {}
  BY AccessAssumption DEF OwnMenus, LiveMenus
<1>2. IsFiniteSet(LiveMenus)
  BY <1>1, AccessAssumption, FS_Subset, FS_Union DEF LiveMenus
<1>3. \A c \in CoreMenus : menuParent[c] \in CoreMenus \cup {None}
  BY AccessAssumption DEF MenusSound
<1>4. \A m \in LiveMenus : menuParent[m] \in LiveMenus \cup {None}
  BY <1>3 DEF MenusSound, LiveMenus
<1>5. ASSUME NEW m \in LiveMenus
      PROVE  MenuDepth(m) \in Nat
  <2>1. Above(menuParent, LiveMenus, m) \in SUBSET LiveMenus
    BY DEF Above
  <2> QED
    BY <1>2, <2>1, FS_Subset, FS_CardinalityType DEF MenuDepth, Depth
<1> QED
  BY <1>1, <1>2, <1>3, <1>4, <1>5

LEMMA CreateMenuSound ==
  ASSUME TypeOK, MenusSound, NEW m \in Menus, NEW parent \in Menus \cup CoreMenus \cup {None},
         NEW status \in Settings, CreateMenu(m, parent, status)
  PROVE  MenusSound'
<1>1. /\ OwnMenus' = OwnMenus \cup {m} /\ LiveMenus' = LiveMenus \cup {m} /\ m \notin LiveMenus
      /\ m \notin CoreMenus /\ m # None
  BY AccessAssumption
     DEF CreateMenu, OwnMenus, LiveMenus, Settings, TypeOK, AccessTypeOK
<1>2. /\ menuParent'[m] = parent
      /\ \A n \in LiveMenus : menuParent'[n] = menuParent[n] /\ menuParent[n] # m
  BY <1>1, MenuFacts DEF CreateMenu, TypeOK, AccessTypeOK, LiveMenus, OwnMenus
<1>3. parent # None => parent \in LiveMenus /\ MenuDepth(parent) < MaxDepth
  BY DEF CreateMenu
<1>4. Acyclic(menuParent', LiveMenus \cup {m})
  BY <1>1, <1>2, <1>3, AddRow DEF MenusSound
<1>5. \A n \in OwnMenus' : menuParent'[n] \in LiveMenus' \cup {None}
  BY <1>1, <1>2, <1>3 DEF MenusSound, LiveMenus
<1>6. \A c \in CoreMenus : menuParent'[c] = CoreParent[c]
  BY <1>2 DEF MenusSound, LiveMenus
<1>7. ASSUME NEW n \in LiveMenus
      PROVE  MenuDepth(n)' <= MaxDepth
  <2>1. \A k \in LiveMenus : menuParent[k] \in LiveMenus' => menuParent[k] \in LiveMenus
    BY <1>1, MenuFacts
  <2>2. Above(menuParent', LiveMenus', n) = Above(menuParent, LiveMenus, n)
    BY <1>1, <1>2, <2>1, AboveStays
  <2> QED
    BY <2>2 DEF MenuDepth, Depth, MenusSound
<1>8. MenuDepth(m)' <= MaxDepth
  <2> DEFINE A == Above(menuParent, LiveMenus, parent)
  <2>1. /\ A \subseteq LiveMenus
        /\ parent \in LiveMenus => parent \in A
        /\ UpClosed(menuParent, LiveMenus, A)
    <3>1. CASE parent \in LiveMenus
      BY <3>1, AboveIsClosed
    <3>2. CASE parent \notin LiveMenus
      <4>1. A = {}
        BY <3>2 DEF Above
      <4> QED
        BY <3>2, <4>1 DEF UpClosed
    <3> QED
      BY <3>1, <3>2
  <2>2. IsFiniteSet(A) /\ Cardinality(A) \in Nat /\ Cardinality(A) < MaxDepth
    <3>1. CASE parent = None
      BY <3>1, MenuFacts, FS_EmptySet DEF Above, MaxDepth
    <3>2. CASE parent # None
      BY <3>2, <1>3, <2>1, MenuFacts, FS_Subset, FS_CardinalityType DEF MenuDepth, Depth
    <3> QED
      BY <3>1, <3>2
  <2> HIDE DEF A
  <2>3. IsFiniteSet(A \cup {m}) /\ Cardinality(A \cup {m}) = Cardinality(A) + 1
    BY <1>1, <2>1, <2>2, FS_AddElement
  <2>4. UpClosed(menuParent', LiveMenus', A \cup {m})
    BY <1>1, <1>2, <1>3, <2>1, MenuFacts DEF UpClosed
  <2>5. /\ Depth(menuParent', LiveMenus', m) \in Nat
        /\ Depth(menuParent', LiveMenus', m) <= Cardinality(A \cup {m})
    BY <1>1, <2>1, <2>3, <2>4, DepthBound
  <2> QED
    BY <2>2, <2>3, <2>5 DEF MenuDepth, MaxDepth
<1>9. \A r \in Roles : roleMenus'[r] \subseteq LiveMenus'
  BY <1>1 DEF CreateMenu, MenusSound
<1> QED
  BY <1>1, <1>4, <1>5, <1>6, <1>7, <1>8, <1>9 DEF MenusSound

LEMMA MoveMenuSound ==
  ASSUME TypeOK, MenusSound, NEW m \in Menus, NEW parent \in Menus \cup CoreMenus \cup {None},
         MoveMenu(m, parent)
  PROVE  MenusSound'
<1>1. OwnMenus' = OwnMenus /\ LiveMenus' = LiveMenus /\ m \in OwnMenus /\ m \in LiveMenus
  BY DEF MoveMenu, OwnMenus, LiveMenus
<1>2. /\ menuParent'[m] = parent
      /\ \A n \in LiveMenus \ {m} : menuParent'[n] = menuParent[n]
  BY <1>1 DEF MoveMenu, TypeOK, AccessTypeOK, LiveMenus, OwnMenus
<1>3. parent # None => parent \in LiveMenus /\ m \notin Above(menuParent, LiveMenus, parent)
  BY DEF MoveMenu, FitsUnder
<1>4. None \notin LiveMenus /\ m \notin CoreMenus
  BY <1>1, MenuFacts
<1>5. Acyclic(menuParent', LiveMenus)
  BY <1>1, <1>2, <1>3, <1>4, MoveBelowOther DEF MenusSound
<1>6. \A n \in OwnMenus : menuParent'[n] \in LiveMenus \cup {None}
  BY <1>2, <1>3 DEF MenusSound, LiveMenus
<1>7. \A c \in CoreMenus : menuParent'[c] = CoreParent[c]
  BY <1>2, <1>4 DEF MenusSound, LiveMenus
<1>8. \A n \in LiveMenus : Depth(menuParent', LiveMenus, n) <= MaxDepth
  <2> DEFINE B == Subtree(m)
  <2>1. /\ B \in SUBSET LiveMenus /\ m \in B
        /\ DownClosed(menuParent, LiveMenus, B)
        /\ \A z \in B \ {m} : menuParent[z] \in B
    <3>1. B \subseteq OwnMenus /\ m \in B /\ DownClosed(menuParent, OwnMenus, B)
      BY <1>1, BelowIsClosed DEF Subtree
    <3>2. DownClosed(menuParent, LiveMenus, B)
      BY <3>1, MenuFacts DEF DownClosed, LiveMenus
    <3> QED
      BY <1>1, <3>1, <3>2, BelowHasParent DEF LiveMenus, Subtree
  <2> HIDE DEF B
  <2>2. parent \in LiveMenus => m \notin Above(menuParent, LiveMenus, parent)
    BY <1>3, <1>4
  <2>3. /\ \A y \in LiveMenus \ B :
             Depth(menuParent', LiveMenus, y) <= Depth(menuParent, LiveMenus, y)
        /\ \A y \in B :
             Depth(menuParent', LiveMenus, y) <=
               Depth(menuParent, LiveMenus, parent)
                 + Cardinality(Above(menuParent, LiveMenus, y) \cap B)
    BY <1>2, <2>1, <2>2, MenuFacts, MovedDepth
  <2>4. \A n \in LiveMenus : Depth(menuParent', LiveMenus, n) \in Nat
    <3>1. \A n \in LiveMenus : Above(menuParent', LiveMenus, n) \in SUBSET LiveMenus
      BY DEF Above
    <3> QED
      BY <3>1, MenuFacts, FS_Subset, FS_CardinalityType DEF Depth
  <2>5. ASSUME NEW y \in LiveMenus \ B
        PROVE  Depth(menuParent', LiveMenus, y) <= MaxDepth
    <3>1. MenuDepth(y) \in Nat /\ MenuDepth(y) <= MaxDepth
      BY MenuFacts DEF MenusSound
    <3> QED
      BY <2>3, <2>4, <3>1 DEF MenuDepth, MaxDepth
  <2>6. ASSUME NEW y \in B
        PROVE  Depth(menuParent', LiveMenus, y) <= MaxDepth
    <3>1. (IF parent = None THEN 0 ELSE MenuDepth(parent)) + DepthIn(m, y) <= MaxDepth
      BY DEF MoveMenu, FitsUnder, B
    <3>2. Depth(menuParent, LiveMenus, parent) = IF parent = None THEN 0 ELSE MenuDepth(parent)
      BY <1>4, FS_EmptySet DEF MenuDepth, Depth, Above
    <3>3. DepthIn(m, y) = Cardinality(Above(menuParent, LiveMenus, y) \cap B)
      BY DEF DepthIn, B
    <3>4. /\ Depth(menuParent', LiveMenus, y) \in Nat
          /\ Depth(menuParent', LiveMenus, y) <=
               Depth(menuParent, LiveMenus, parent) + DepthIn(m, y)
      BY <2>1, <2>3, <2>4, <3>3
    <3>5. DepthIn(m, y) \in Nat
      BY <2>1, <3>3, MenuFacts, FS_Subset, FS_CardinalityType,
         Above(menuParent, LiveMenus, y) \cap B \subseteq LiveMenus
    <3>6. Depth(menuParent, LiveMenus, parent) \in Nat
      BY <1>3, <3>2, MenuFacts
    <3> QED
      BY <3>1, <3>2, <3>4, <3>5, <3>6 DEF MaxDepth
  <2> QED
    BY <2>5, <2>6
<1>9. \A r \in Roles : roleMenus'[r] \subseteq LiveMenus
  BY DEF MoveMenu, MenusSound
<1> QED
  BY <1>1, <1>5, <1>6, <1>7, <1>8, <1>9 DEF MenusSound, MenuDepth

LEMMA DeleteMenuSound ==
  ASSUME TypeOK, MenusSound, NEW m \in Menus, DeleteMenu(m)
  PROVE  MenusSound'
<1>1. OwnMenus' = OwnMenus \ {m} /\ LiveMenus' = LiveMenus \ {m} /\ UNCHANGED menuParent
  BY MenuFacts DEF DeleteMenu, OwnMenus, LiveMenus, Settings, TypeOK, AccessTypeOK
<1>2. \A n \in LiveMenus : menuParent[n] # m
  BY MenuFacts DEF DeleteMenu, MenuOccupied, LiveMenus
<1>3. Acyclic(menuParent, LiveMenus \ {m})
  BY FewerRows DEF MenusSound
<1>4. ASSUME NEW n \in LiveMenus \ {m}
      PROVE  MenuDepth(n)' <= MaxDepth
  <2>1. Above(menuParent, LiveMenus, n) = Above(menuParent, LiveMenus \ {m}, n)
    BY <1>2, AboveStays
  <2> QED
    BY <1>1, <2>1 DEF MenuDepth, Depth, MenusSound
<1>5. \A n \in OwnMenus' : menuParent'[n] \in LiveMenus' \cup {None}
  BY <1>1, <1>2 DEF MenusSound, LiveMenus
<1>6. \A c \in CoreMenus : menuParent'[c] = CoreParent[c]
  BY <1>1 DEF MenusSound
<1>7. \A r \in Roles : roleMenus'[r] \subseteq LiveMenus'
  BY <1>1 DEF DeleteMenu, MenuOccupied, MenusSound
<1> QED
  BY <1>1, <1>3, <1>4, <1>5, <1>6, <1>7 DEF MenusSound

LEMMA UpdateMenuSound ==
  ASSUME TypeOK, MenusSound, NEW m \in Menus, NEW status \in Settings, UpdateMenu(m, status)
  PROVE  MenusSound'
<1>1. OwnMenus' = OwnMenus /\ LiveMenus' = LiveMenus
  BY DEF UpdateMenu, OwnMenus, LiveMenus, TypeOK, AccessTypeOK
<1> QED
  BY <1>1 DEF UpdateMenu, MenusSound, MenuDepth

LEMMA ReplaceRoleMenusSound ==
  ASSUME TypeOK, MenusSound, NEW r \in Roles, NEW menus \in SUBSET (Menus \cup CoreMenus),
         ReplaceRoleMenus(r, menus)
  PROVE  MenusSound'
<1>1. OwnMenus' = OwnMenus /\ LiveMenus' = LiveMenus
  BY DEF ReplaceRoleMenus, OwnMenus, LiveMenus, menuVars
<1>2. menus \subseteq LiveMenus
  BY DEF ReplaceRoleMenus, LiveMenus, OwnMenus, Settings
<1>3. \A s \in Roles : roleMenus'[s] \subseteq LiveMenus
  BY <1>2 DEF ReplaceRoleMenus, MenusSound, TypeOK, AccessTypeOK
<1> QED
  BY <1>1, <1>3 DEF ReplaceRoleMenus, menuVars, MenusSound, MenuDepth

LEMMA MenusKept ==
  ASSUME TypeOK, MenusSound, AccessOperation
  PROVE  MenusSound'
<1>1. play.roles \subseteq Roles /\ play.menus \subseteq Menus \cup CoreMenus
  BY AdministrationAssumption DEF TypeOK
<1>2. ASSUME UNCHANGED <<menuParent, menuStatus, roleMenus>>
      PROVE  MenusSound'
  BY <1>2 DEF MenusSound, MenuDepth, OwnMenus, LiveMenus
<1>3. ASSUME NEW m \in play.menus \cap Menus, NEW parent \in Menus \cup CoreMenus \cup {None},
             (\E status \in Settings : CreateMenu(m, parent, status)) \/ MoveMenu(m, parent)
      PROVE  MenusSound'
  BY <1>3, CreateMenuSound, MoveMenuSound
<1>4. ASSUME NEW m \in play.menus \cap Menus,
             DeleteMenu(m) \/ \E status \in Settings : UpdateMenu(m, status)
      PROVE  MenusSound'
  BY <1>4, DeleteMenuSound, UpdateMenuSound
<1>5. ASSUME NEW r \in play.roles, NEW menus \in SUBSET play.menus, ReplaceRoleMenus(r, menus)
      PROVE  MenusSound'
  BY <1>1, <1>5, ReplaceRoleMenusSound
<1> QED
  BY <1>2, <1>3, <1>4, <1>5
     DEF AccessOperation, CreateRole, UpdateRole, SetRole, DeleteRole, ReplaceRolePermissions,
         ReplaceRoleDataScope, ReplaceRoles, menuVars

-----------------------------------------------------------------------------
(* The theorems *)

Sound == OrganisationSound /\ RolesSound /\ MenusSound

LEMMA InitSound == Init => Sound
<1> SUFFICES ASSUME Init PROVE Sound
  OBVIOUS
<1>1. OrganisationSound
  BY DEF Init, OrgInit, OrganisationSound, Acyclic, LiveUnits, LivePositions, Settings
<1>2. LiveRoles = {} /\ RoleRows = {SuperAdmin}
  BY DEF Init, AccessInit, LiveRoles, RoleRows, Settings
<1>3. \A u \in Users : userRoles[u] \subseteq {SuperAdmin}
  BY DEF Init, AccessInit
<1>4. RolesSound
  BY <1>2, <1>3 DEF RolesSound, Acyclic
<1>5. OwnMenus = {} /\ LiveMenus = CoreMenus
  BY DEF Init, AccessInit, OwnMenus, LiveMenus, Settings
<1>6. \A c \in CoreMenus : menuParent[c] = CoreParent[c]
  BY AccessAssumption DEF Init, AccessInit
<1>7. Acyclic(menuParent, CoreMenus)
  BY <1>6, AccessAssumption, SameParents
<1>8. ASSUME NEW c \in CoreMenus
      PROVE  MenuDepth(c) <= MaxDepth
  <2>1. Above(menuParent, CoreMenus, c) = Above(CoreParent, CoreMenus, c)
    BY <1>6, AboveStays
  <2> QED
    BY <1>5, <2>1, AccessAssumption DEF MenuDepth, Depth
<1>9. MenusSound
  BY <1>5, <1>6, <1>7, <1>8 DEF Init, AccessInit, MenusSound
<1> QED
  BY <1>1, <1>4, <1>9 DEF Sound

LEMMA NextSound ==
  ASSUME TypeOK, Sound, [Next]_vars
  PROVE  Sound'
<1>1. ASSUME UNCHANGED orgVars
      PROVE  OrganisationSound'
  BY <1>1 DEF orgVars, Sound, OrganisationSound, LiveUnits, LivePositions
<1>2. ASSUME UNCHANGED accessVars
      PROVE  RolesSound' /\ MenusSound'
  BY <1>2 DEF accessVars, Sound, RolesSound, MenusSound, MenuDepth, LiveRoles, RoleRows,
              OwnMenus, LiveMenus
<1>3. CASE UNCHANGED <<orgVars, accessVars>>
  BY <1>1, <1>2, <1>3 DEF Sound
<1>4. CASE OrganisationOperation
  BY <1>2, <1>4, OrganisationKept DEF OrganisationOperation, Sound
<1>5. CASE AccessOperation
  BY <1>1, <1>5, RolesKept, MenusKept DEF AccessOperation, Sound
<1>6. ASSUME NEW a \in Users, StaffOperation(a)
      PROVE  UNCHANGED <<orgVars, accessVars>>
  BY <1>6, StaffTyped
<1>7. ASSUME NEW a \in Users, Import(a)
      PROVE  UNCHANGED <<orgVars, accessVars>>
  BY <1>7 DEF Import, CreateUser, SetMember
<1> QED
  BY <1>3, <1>4, <1>5, <1>6, <1>7 DEF Next, Authenticate, Execute, vars

\* The units, roles and menus of a tenant stay forests of bounded depth and
\* nothing that is in use is deleted, however the requests overlap.
THEOREM Structure == Spec => []StructureSound
<1>1. Init => Sound
  BY InitSound
<1>2. TypeOK /\ Sound /\ [Next]_vars => Sound'
  BY NextSound
<1>3. Sound => StructureSound
  BY DEF Sound, StructureSound, RolesSound, MenusSound, AccessSound
<1> QED
  BY <1>1, <1>2, <1>3, TypeCorrect, PTL DEF Spec

\* Two of at least two administrators are not the same one.
LEMMA OtherAdmin ==
  ASSUME TypeOK, NEW u \in Users, u \notin Admins \/ ~(Cardinality(Admins) <= 1)
  PROVE  Admins # {} => Admins \ {u} # {}
<1>1. IsFiniteSet(Admins)
  BY AdministrationAssumption, FS_Subset DEF Admins
<1>2. ASSUME Admins \subseteq {u}
      PROVE  Cardinality(Admins) <= 1
  <2>1. IsFiniteSet({u}) /\ Cardinality({u}) = 1
    BY FS_Singleton
  <2> QED
    BY <1>2, <2>1, FS_Subset
<1> QED
  BY <1>2

LEMMA MemberKept ==
  ASSUME TypeOK, NEW u \in Users, NEW status, SetMember(u, status),
         status = "active" \/ ~LastAdmin(u)
  PROVE  Admins # {} => Admins' # {}
<1>1. \A v \in Users : member'[v] = IF v = u THEN status ELSE member[v]
  BY DEF SetMember, TypeOK
<1>2. userRoles' = userRoles
  BY DEF SetMember, accessVars
<1>3. CASE status = "active"
  BY <1>1, <1>2, <1>3 DEF Admins
<1>4. CASE ~LastAdmin(u)
  <2>1. u \notin Admins \/ ~(Cardinality(Admins) <= 1)
    BY <1>4 DEF LastAdmin, Admins
  <2>2. Admins \ {u} \subseteq Admins'
    BY <1>1, <1>2 DEF Admins
  <2> QED
    BY <2>1, <2>2, OtherAdmin
<1> QED
  BY <1>3, <1>4

\* No two requests together leave a tenant without an active super
\* administrator unless one of them replaces roles.
THEOREM AdminKept == Spec => AdminLostByRolesOnly
<1>1. ASSUME TypeOK, [Next]_vars, userRoles' = userRoles
      PROVE  Admins # {} => Admins' # {}
  <2>1. CASE member' = member
    BY <1>1, <2>1 DEF Admins
  <2>2. ASSUME NEW a \in Users, StaffOperation(a)
        PROVE  Admins # {} => Admins' # {}
    <3>1. CASE \E u \in Users : SetMember(u, "active")
      BY <1>1, <3>1, MemberKept
    <3>2. CASE \E u \in Users, status \in {"suspended", "left"} :
                 SetMember(u, status) /\ ~LastAdmin(u)
      BY <1>1, <3>2, MemberKept
    <3>3. CASE \E status \in Settings : UpdateTenant(status)
      BY <2>1, <3>3 DEF UpdateTenant
    <3> QED
      BY <2>2, <3>1, <3>2, <3>3
         DEF StaffOperation, CreateUser, AddMember, EnableUser, DisableUser, SetMemberStatus
  <2>3. ASSUME NEW a \in Users, Import(a)
        PROVE  StaffOperation(a)
    BY <2>3 DEF Import, StaffOperation
  <2> QED
    BY <1>1, <2>1, <2>2, <2>3
       DEF Next, Authenticate, Execute, OrganisationOperation, AccessOperation, vars, people
<1>2. TypeOK /\ [Next]_vars => [Admins # {} => Admins' # {} \/ userRoles' # userRoles]_vars
  BY <1>1
<1> QED
  BY <1>2, TypeCorrect, PTL DEF Spec, AdminLostByRolesOnly
=============================================================================
