--------------------------- MODULE Administration ---------------------------
(***************************************************************************)
(* The console of one tenant: its members and its status                   *)
(* (modules/useradmin, modules/tenantadmin) together with its organisation *)
(* and its access rules.  A request is authenticated and authorised first  *)
(* (Service.authorize) and its transaction runs later: by then the one who *)
(* sent it may have been suspended, demoted or removed by another.  Which  *)
(* work is done and which rows there is room for is the play.              *)
(***************************************************************************)
EXTENDS Access

CONSTANT Plays

Work == {"staff", "organisation", "access"}

ASSUME AdministrationAssumption ==
  /\ IsFiniteSet(Users)
  /\ Plays \subseteq
       [work : SUBSET Work, users : SUBSET Users, units : SUBSET Units,
        positions : SUBSET Positions, roles : SUBSET Roles,
        menus : SUBSET (Menus \cup CoreMenus)]

VARIABLES
  play,
  member,   \* iam.tenant_members
  tenant,   \* iam.tenants.status
  pending   \* who has a request that was authorised and not yet carried out

people == <<play, member, tenant, pending>>
vars == <<people, orgVars, accessVars>>

Init ==
  \E p \in Plays : \E creator \in p.users :
    /\ play = p
    /\ member = [u \in Users |-> IF u = creator THEN "active" ELSE "none"]
    /\ tenant = "active"
    /\ pending = [u \in Users |-> FALSE]
    /\ OrgInit
    /\ AccessInit(creator)

-----------------------------------------------------------------------------
Permitted(a) == \E r \in userRoles[a] \cap ActiveRoles : granted[r]

Authenticate(a) ==
  /\ ~pending[a]
  /\ member[a] = "active" /\ tenant = "active"
  /\ Permitted(a)
  /\ pending' = [pending EXCEPT ![a] = TRUE]
  /\ UNCHANGED <<play, member, tenant, orgVars, accessVars>>

-----------------------------------------------------------------------------
Members == {u \in Users : member[u] # "none"}
Admins == {u \in Users : member[u] = "active" /\ SuperAdmin \in userRoles[u]}

\* Mutant: the one who goes is not counted.
NoAdminLeft(u) == SuperAdmin \in userRoles[u] /\ Cardinality(Admins) = 0

LastAdmin(u) == SuperAdmin \in userRoles[u] /\ Cardinality(Admins) <= 1

SetMember(u, status) ==
  /\ member' = [member EXCEPT ![u] = status]
  /\ UNCHANGED <<play, tenant, orgVars, accessVars>>

CreateUser(u) == u \in play.users \ Members /\ SetMember(u, "active")

\* Whoever left or was suspended is back, with the roles of before.
AddMember(u) == u \in play.users /\ SetMember(u, "active")

EnableUser(u) == u \in Members /\ SetMember(u, "active")
DisableUser(a, u) ==
  /\ u \in Members \ {a}
  /\ ~LastAdmin(u)
  /\ SetMember(u, "suspended")

SetMemberStatus(u, status) ==
  /\ u \in Members
  /\ status # "active" => ~LastAdmin(u)
  /\ SetMember(u, status)

UpdateTenant(status) ==
  /\ tenant' = status
  /\ UNCHANGED <<play, member, orgVars, accessVars>>

StaffOperation(a) ==
  /\ "staff" \in play.work
  /\ \/ \E u \in Users :
          \/ CreateUser(u) \/ AddMember(u) \/ EnableUser(u) \/ DisableUser(a, u)
          \/ \E status \in {"active", "suspended", "left"} : SetMemberStatus(u, status)
     \/ \E status \in Settings : UpdateTenant(status)

-----------------------------------------------------------------------------
OrganisationOperation ==
  /\ "organisation" \in play.work
  /\ \/ \E x \in play.units, parent \in Units \cup {None} :
          (\E status \in Settings : CreateUnit(x, parent, status)) \/ MoveUnit(x, parent)
     \/ \E x \in play.units : DeleteUnit(x) \/ \E status \in Settings : UpdateUnit(x, status)
     \/ \E q \in play.positions :
          \/ DeletePosition(q)
          \/ \E status \in Settings : CreatePosition(q, status) \/ UpdatePosition(q, status)
     \/ \E u \in Members, units \in SUBSET play.units, positions \in SUBSET play.positions,
           primary \in play.units \cup {None} :
          ReplaceAssignments(u, units, positions, primary)
  /\ UNCHANGED <<play, member, tenant, accessVars>>

AccessOperation ==
  /\ "access" \in play.work
  /\ \/ \E r \in play.roles, parent \in Roles \cup {SuperAdmin, None}, status \in Settings :
          CreateRole(r, parent, status) \/ UpdateRole(r, parent, status)
     \/ \E r \in play.roles :
          \/ DeleteRole(r)
          \/ \E g \in BOOLEAN : ReplaceRolePermissions(r, g)
          \/ \E menus \in SUBSET play.menus : ReplaceRoleMenus(r, menus)
          \/ \E units \in SUBSET play.units : ReplaceRoleDataScope(r, units)
     \/ \E m \in play.menus \cap Menus, parent \in Menus \cup CoreMenus \cup {None} :
          (\E status \in Settings : CreateMenu(m, parent, status)) \/ MoveMenu(m, parent)
     \/ \E m \in play.menus \cap Menus : DeleteMenu(m) \/ \E status \in Settings : UpdateMenu(m, status)
     \/ \E u \in Members, roles \in SUBSET (play.roles \cup {SuperAdmin}) :
          ReplaceRoles(u, roles)
  /\ UNCHANGED <<play, member, tenant, orgVars>>

\* A request carries out one operation; what refuses it, or fails, ends it too.
Execute(a) ==
  /\ pending[a]
  /\ pending' = [pending EXCEPT ![a] = FALSE]
  /\ \/ StaffOperation(a) \/ OrganisationOperation \/ AccessOperation
     \/ UNCHANGED <<play, member, tenant, orgVars, accessVars>>

\* An import creates its users one by one, a transaction for each row.
Import(a) ==
  /\ pending[a] /\ "staff" \in play.work
  /\ \E u \in Users : CreateUser(u)
  /\ UNCHANGED pending

Next == \E a \in Users : Authenticate(a) \/ Execute(a) \/ Import(a)

Spec == Init /\ [][Next]_vars

-----------------------------------------------------------------------------
TypeOK ==
  /\ play \in Plays
  /\ member \in [Users -> {"none", "active", "suspended", "left"}]
  /\ tenant \in Settings
  /\ pending \in [Users -> BOOLEAN]
  /\ OrgTypeOK /\ AccessTypeOK

\* Whatever moves, deletions and assignments overlap: units, roles and menus
\* stay forests, no menu lies deeper than three levels, and nothing that is in
\* use was deleted (OrganisationSound, AccessSound).
StructureSound == OrganisationSound /\ AccessSound

\* A tenant that has an active super administrator keeps one, also when two of
\* them suspend or remove each other at the same time through two modules:
\* only a replacement of roles, which nobody guards, takes the last one away.
AdminLostByRolesOnly ==
  [][Admins # {} => Admins' # {} \/ userRoles' # userRoles]_vars
=============================================================================
