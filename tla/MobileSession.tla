---------------------------- MODULE MobileSession ----------------------------
(***************************************************************************)
(* The mobile app as a client of Session: one stored credential, and one   *)
(* refresh coordinator for each feature (app-bootstrap.uts and the runtime *)
(* of each feature construct their own). An answer reaches the app later   *)
(* than it is given, after other answers, or never. Other devices of the   *)
(* user log in, switch, change the password; administrators revoke.        *)
(***************************************************************************)
EXTENDS Session

CONSTANTS
  Coordinators,  \* the features' refresh coordinators, and the start of the app
  MobileScope,   \* the scope of the app's sessions
  MaxFaults      \* bound: restarts of the app and failures of secure storage

ASSUME MobileAssumption ==
  /\ MobileScope \in Scopes
  /\ None \notin Calls
  /\ MaxFaults \in Nat

VARIABLES
  stored,     \* the refresh token in secure storage
  access,     \* the session of the access token in memory
  coord,      \* what each coordinator waits for: a request, or nothing
  signing,    \* the app's login in flight
  leaving,    \* the app's logout in flight
  faults,
  abandoned,  \* history: tokens that stayed stored when their refresh was given up
  shared      \* history: tokens that two coordinators had in flight together

app == <<stored, access, coord, signing, leaving, faults, abandoned, shared>>
mvars == <<vars, app>>

(* Type invariant of the server and the app. *)
MTypeOK ==
  /\ TypeOK
  /\ stored \in Tokens \cup {None}
  /\ access \in Sessions \cup {None}
  /\ coord \in [Coordinators -> Calls \cup {None}]
  /\ signing \in Calls \cup {None} /\ leaving \in Calls \cup {None}
  /\ faults \in 0..MaxFaults
  /\ abandoned \subseteq Tokens /\ shared \subseteq Tokens

Answered(c, step) == c # None /\ call[c].step = step
InFlight(t) == \E k \in Coordinators : coord[k] # None /\ call[coord[k]].token = t

(* SessionRuntime.establish: secure storage first, then memory. *)
Persist(t) == stored' = t /\ access' = token[t].session
(* SessionRuntime.signOut; memory is cleared also when secure storage fails. *)
Fault == faults < MaxFaults /\ faults' = faults + 1
Clear == access' = None /\ stored' = None
ClearFails == Fault /\ access' = None /\ UNCHANGED stored

-----------------------------------------------------------------------------
(* RefreshCoordinator. A 401 while it waits only adds a waiter. *)

Unauthorized(k, c) ==
  /\ coord[k] = None
  /\ stored # None
  /\ SendRefresh(c, stored, MobileScope)
  /\ coord' = [coord EXCEPT ![k] = c]
  /\ shared' = IF InFlight(stored) THEN shared \cup {stored} ELSE shared
  /\ UNCHANGED <<stored, access, signing, leaving, faults, abandoned>>

(* What cannot be read is missing. When nothing is stored, nothing is cleared. *)
UnauthorizedUnread(k) ==
  /\ coord[k] = None
  /\ stored # None
  /\ Fault
  /\ Clear
  /\ UNCHANGED <<vars, coord, signing, leaving, abandoned, shared>>

(* Mutant: the successor is not stored. *)
FinishSuccessUnstored(k) ==
  /\ Answered(coord[k], "ok")
  /\ access' = call[coord[k]].session
  /\ coord' = [coord EXCEPT ![k] = None]
  /\ UNCHANGED <<vars, stored, signing, leaving, faults, abandoned, shared>>
FinishSuccess(k) ==
  /\ Answered(coord[k], "ok")
  /\ Persist(call[coord[k]].newToken)
  /\ coord' = [coord EXCEPT ![k] = None]
  /\ UNCHANGED <<vars, signing, leaving, faults, abandoned, shared>>

(* Mutant: the credential survives a failure. *)
FinishFailureKeeps(k) ==
  /\ coord[k] # None
  /\ coord' = [coord EXCEPT ![k] = None]
  /\ access' = None
  /\ UNCHANGED <<vars, stored, signing, leaving, faults, abandoned, shared>>
(* A refusal, no answer (the request may still be served), or an answer that *)
(* cannot be stored.                                                         *)
FinishFailure(k) ==
  /\ coord[k] # None
  /\ \/ Clear /\ UNCHANGED <<faults, abandoned>>
     \/ ClearFails /\ abandoned' = abandoned \cup {call[coord[k]].token}
  /\ coord' = [coord EXCEPT ![k] = None]
  /\ UNCHANGED <<vars, signing, leaving, shared>>

-----------------------------------------------------------------------------
(* MobileAuthService.login and signOut. *)

Login(c) ==
  /\ signing = None
  /\ access = None
  /\ SendLogin(c, MobileScope)
  /\ signing' = c
  /\ UNCHANGED <<stored, access, coord, leaving, faults, abandoned, shared>>

LoginAnswer ==
  /\ signing # None
  /\ signing' = None
  /\ \/ Answered(signing, "ok") /\ Persist(call[signing].newToken)
     \/ UNCHANGED <<stored, access>>
  /\ UNCHANGED <<vars, coord, leaving, faults, abandoned, shared>>

SignOut(c) ==
  /\ leaving = None
  /\ access # None
  /\ SendLogout(c, access)
  /\ leaving' = c
  /\ UNCHANGED <<stored, access, coord, signing, faults, abandoned, shared>>

SignedOut ==
  /\ leaving # None
  /\ leaving' = None
  /\ (Clear /\ UNCHANGED faults) \/ ClearFails
  /\ UNCHANGED <<vars, coord, signing, abandoned, shared>>

(* The app is killed: memory and callbacks are lost, secure storage is not. *)
Restart ==
  /\ Fault
  /\ access' = None
  /\ coord' = [k \in Coordinators |-> None]
  /\ signing' = None /\ leaving' = None
  /\ abandoned' = abandoned \cup {t \in Tokens : InFlight(t)}
  /\ UNCHANGED <<vars, stored, shared>>

-----------------------------------------------------------------------------
MInit ==
  /\ Init
  /\ stored = None /\ access = None
  /\ coord = [k \in Coordinators |-> None]
  /\ signing = None /\ leaving = None
  /\ faults = 0
  /\ abandoned = {} /\ shared = {}

AppStep ==
  \/ \E c \in Calls : Login(c) \/ SignOut(c) \/ \E k \in Coordinators : Unauthorized(k, c)
  \/ \E k \in Coordinators : UnauthorizedUnread(k) \/ FinishSuccess(k) \/ FinishFailure(k)
  \/ LoginAnswer \/ SignedOut \/ Restart

(* The other devices. *)
SendOther(c) ==
  \/ \E g \in Scopes : SendLogin(c, g)
  \/ \E s \in Sessions : SendChange(c, s) \/ \E g \in Scopes : SendSwitch(c, s, g)

ServerStep ==
  /\ (\E c \in Calls : SendOther(c) \/ Serve(c)) \/ Revocation
  /\ UNCHANGED app

MNext == AppStep \/ ServerStep
MSpec == MInit /\ [][MNext]_mvars

-----------------------------------------------------------------------------
(* The next refresh is not a reuse: the app holds an exchanged token only    *)
(* while the answer is on its way, or when it was killed or could not clear  *)
(* its storage as it gave that refresh up.                                   *)
StoredIsUsable ==
  stored # None /\ token[stored].consumed => InFlight(stored) \/ stored \in abandoned

(* The app's own refreshes end a session by reuse only when two coordinators *)
(* presented the same token, or a refresh was given up and its token stayed. *)
ReuseHasCause ==
  \A t \in Tokens : token[t].reused => t \in shared \cup abandoned
=============================================================================
