------------------------------- MODULE Access -------------------------------
(***************************************************************************)
(* The roles and menus of one tenant and who holds which role              *)
(* (modules/accessadmin, and ReplaceRoles of modules/useradmin).  Beside   *)
(* its own menus a tenant sees the core menus of every tenant, which only  *)
(* the seed writes, and its super-admin role, which no operation changes.  *)
(* An operation is one SERIALIZABLE transaction, as in Organisation.       *)
(***************************************************************************)
EXTENDS Organisation

CONSTANTS Roles, SuperAdmin, Menus, CoreMenus, CoreParent

MaxDepth == 3

ASSUME AccessAssumption ==
  /\ SuperAdmin \notin Roles
  /\ None \notin Roles \cup {SuperAdmin} \cup Menus \cup CoreMenus
  /\ Menus \cap CoreMenus = {}
  /\ IsFiniteSet(Menus) /\ IsFiniteSet(CoreMenus)
  /\ CoreParent \in [CoreMenus -> CoreMenus \cup {None}]
  /\ Acyclic(CoreParent, CoreMenus)
  /\ \A c \in CoreMenus : Depth(CoreParent, CoreMenus, c) <= MaxDepth

VARIABLES
  roleParent, roleStatus,
  granted,                \* the role carries the permissions of administration
  roleMenus, scopeUnits,  \* sys.role_menus, iam.role_scope_units
  menuParent, menuStatus,
  userRoles               \* iam.user_roles

accessVars ==
  <<roleParent, roleStatus, granted, roleMenus, scopeUnits, menuParent, menuStatus, userRoles>>
menuVars == <<menuParent, menuStatus>>

LiveRoles == {r \in Roles : roleStatus[r] \in Settings}
ActiveRoles == {r \in Roles : roleStatus[r] = "active"} \cup {SuperAdmin}
OwnMenus == {m \in Menus : menuStatus[m] \in Settings}
LiveMenus == OwnMenus \cup CoreMenus

\* Create of tenantadmin: the creator alone holds the super-admin role, which
\* has every permission.
AccessInit(creator) ==
  /\ roleParent = [r \in Roles |-> None]
  /\ roleStatus = [r \in Roles |-> "absent"]
  /\ granted = [r \in Roles \cup {SuperAdmin} |-> r = SuperAdmin]
  /\ roleMenus = [r \in Roles |-> {}]
  /\ scopeUnits = [r \in Roles |-> {}]
  /\ menuParent = [m \in Menus \cup CoreMenus |-> IF m \in Menus THEN None ELSE CoreParent[m]]
  /\ menuStatus = [m \in Menus |-> "absent"]
  /\ userRoles = [u \in Users |-> IF u = creator THEN {SuperAdmin} ELSE {}]

-----------------------------------------------------------------------------
\* A parent need only have a row (the foreign key): the walk upwards finds
\* nothing above a role that is deleted, and so no cycle.
RoleRows == {r \in Roles : roleStatus[r] # "absent"} \cup {SuperAdmin}
RoleParent(r, parent) ==
  parent # None =>
    /\ parent \in RoleRows \ {r}
    /\ r \notin Above(roleParent, LiveRoles, parent)

SetRole(r, parent, status) ==
  /\ RoleParent(r, parent)
  /\ roleParent' = [roleParent EXCEPT ![r] = parent]
  /\ roleStatus' = [roleStatus EXCEPT ![r] = status]
  /\ UNCHANGED <<granted, roleMenus, scopeUnits, menuVars, userRoles>>

CreateRole(r, parent, status) == roleStatus[r] = "absent" /\ SetRole(r, parent, status)
UpdateRole(r, parent, status) == r \in LiveRoles /\ SetRole(r, parent, status)

RoleOccupied(r) ==
  (\E u \in Users : r \in userRoles[u]) \/ (\E s \in LiveRoles : roleParent[s] = r)

DeleteRole(r) ==
  /\ r \in LiveRoles
  /\ ~RoleOccupied(r)
  /\ roleStatus' = [roleStatus EXCEPT ![r] = "deleted"]
  /\ UNCHANGED <<roleParent, granted, roleMenus, scopeUnits, menuVars, userRoles>>

ReplaceRolePermissions(r, g) ==
  /\ r \in LiveRoles
  /\ granted' = [granted EXCEPT ![r] = g]
  /\ UNCHANGED <<roleParent, roleStatus, roleMenus, scopeUnits, menuVars, userRoles>>

ReplaceRoleMenus(r, menus) ==
  /\ r \in LiveRoles
  /\ \A m \in menus \cap Menus : menuStatus[m] = "active"
  /\ roleMenus' = [roleMenus EXCEPT ![r] = menus]
  /\ UNCHANGED <<roleParent, roleStatus, granted, scopeUnits, menuVars, userRoles>>

ReplaceRoleDataScope(r, units) ==
  /\ r \in LiveRoles
  /\ units \subseteq LiveUnits
  /\ scopeUnits' = [scopeUnits EXCEPT ![r] = units]
  /\ UNCHANGED <<roleParent, roleStatus, granted, roleMenus, menuVars, userRoles>>

ReplaceRoles(u, roles) ==
  /\ roles \subseteq ActiveRoles
  /\ userRoles' = [userRoles EXCEPT ![u] = roles]
  /\ UNCHANGED <<roleParent, roleStatus, granted, roleMenus, scopeUnits, menuVars>>

-----------------------------------------------------------------------------
\* What lies below m, with m itself, fits under the parent: the parent is
\* there, does not lie in it, and no menu comes to lie too deep.
MenuDepth(m) == Depth(menuParent, LiveMenus, m)
Subtree(m) == Below(menuParent, OwnMenus, m)
DepthIn(m, y) == Cardinality(Above(menuParent, LiveMenus, y) \cap Subtree(m))
FitsUnder(m, parent) ==
  /\ parent # None => parent \in LiveMenus /\ m \notin Above(menuParent, LiveMenus, parent)
  /\ \A y \in Subtree(m) :
       (IF parent = None THEN 0 ELSE MenuDepth(parent)) + DepthIn(m, y) <= MaxDepth

CreateMenu(m, parent, status) ==
  /\ menuStatus[m] = "absent"
  /\ parent # None => parent \in LiveMenus /\ MenuDepth(parent) < MaxDepth
  /\ menuParent' = [menuParent EXCEPT ![m] = parent]
  /\ menuStatus' = [menuStatus EXCEPT ![m] = status]
  /\ UNCHANGED <<roleParent, roleStatus, granted, roleMenus, scopeUnits, userRoles>>

UpdateMenu(m, status) ==
  /\ m \in OwnMenus
  /\ FitsUnder(m, menuParent[m])
  /\ menuStatus' = [menuStatus EXCEPT ![m] = status]
  /\ UNCHANGED <<roleParent, roleStatus, granted, roleMenus, scopeUnits, menuParent, userRoles>>

MoveMenu(m, parent) ==
  /\ m \in OwnMenus
  /\ FitsUnder(m, parent)
  /\ menuParent' = [menuParent EXCEPT ![m] = parent]
  /\ UNCHANGED <<roleParent, roleStatus, granted, roleMenus, scopeUnits, menuStatus, userRoles>>

MenuOccupied(m) ==
  (\E x \in OwnMenus : menuParent[x] = m) \/ (\E r \in Roles : m \in roleMenus[r])

DeleteMenu(m) ==
  /\ m \in OwnMenus
  /\ ~MenuOccupied(m)
  /\ menuStatus' = [menuStatus EXCEPT ![m] = "deleted"]
  /\ UNCHANGED <<roleParent, roleStatus, granted, roleMenus, scopeUnits, menuParent, userRoles>>

-----------------------------------------------------------------------------
AccessTypeOK ==
  /\ roleParent \in [Roles -> Roles \cup {SuperAdmin, None}]
  /\ roleStatus \in [Roles -> Statuses]
  /\ granted \in [Roles \cup {SuperAdmin} -> BOOLEAN]
  /\ roleMenus \in [Roles -> SUBSET (Menus \cup CoreMenus)]
  /\ scopeUnits \in [Roles -> SUBSET Units]
  /\ menuParent \in [Menus \cup CoreMenus -> Menus \cup CoreMenus \cup {None}]
  /\ menuStatus \in [Menus -> Statuses]
  /\ userRoles \in [Users -> SUBSET (Roles \cup {SuperAdmin})]

\* The roles and the menus are forests, no menu lies deeper than the console
\* shows, and nobody holds and no role shows what was deleted.
AccessSound ==
  /\ Acyclic(roleParent, LiveRoles)
  /\ Acyclic(menuParent, LiveMenus)
  /\ \A m \in OwnMenus : menuParent[m] \in LiveMenus \cup {None}
  /\ \A m \in LiveMenus : MenuDepth(m) <= MaxDepth
  /\ \A u \in Users : userRoles[u] \subseteq LiveRoles \cup {SuperAdmin}
  /\ \A r \in Roles : roleMenus[r] \subseteq LiveMenus
=============================================================================
