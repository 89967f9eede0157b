------------------------------- MODULE Session -------------------------------
(***************************************************************************)
(* The sessions and refresh tokens of one user (modules/iam), and the      *)
(* requests, administrators and other modules that end them. A step is one *)
(* transaction (serializable, so atomic) or one read: a request that needs *)
(* several may be overtaken between them, fail in any of them or die.      *)
(* An access token is a signed copy of its session and is validated        *)
(* against the row, so it is represented by the session. A scope stands    *)
(* for tenant, audience and App.                                           *)
(***************************************************************************)
EXTENDS Naturals, FiniteSets

CONSTANTS
  Sessions,     \* identities for rows of iam.sessions
  Tokens,       \* identities for rows of iam.refresh_tokens
  Scopes,       \* tenant, audience and App of a session
  Calls,        \* requests, each served once
  None,         \* no session, no token, no scope
  MaxPassword   \* bound: changes of the password

ASSUME SessionAssumption ==
  /\ None \notin Sessions \cup Tokens \cup Scopes
  /\ MaxPassword \in Nat

VARIABLES
  session,    \* iam.sessions: status, scope; history: the password when it was
              \* created, or kept by the change of its own user (born)
  token,      \* iam.refresh_tokens: session, consumed_at, revoked_at, reuse_detected_at
  password,   \* iam.user_credentials.password_version
  cut,        \* history: the last password whose change ended all other sessions
  call        \* the requests: operation, step, what they have read and made

vars == <<session, token, password, cut, call>>

Passwords == 0..MaxPassword
Ops == {"none", "login", "refresh", "switch", "change", "logout"}
Steps == {"idle", "sent", "authenticated", "verified", "created", "rotated",
          "issued", "ok", "failed"}

SessionRow == [status : {"none", "active", "revoked"}, scope : Scopes \cup {None},
               born : Passwords]
TokenRow == [session : Sessions \cup {None}, consumed : BOOLEAN,
             revoked : BOOLEAN, reused : BOOLEAN]
Call == [op : Ops, step : Steps, session : Sessions \cup {None},
         token : Tokens \cup {None}, scope : Scopes \cup {None}, pwd : Passwords,
         newSession : Sessions \cup {None}, newToken : Tokens \cup {None},
         unrevoked : BOOLEAN]

(* Type invariant of the server: a session that exists has a scope. *)
TypeOK ==
  /\ session \in [Sessions -> SessionRow]
  /\ \A s \in Sessions : session[s].status # "none" => session[s].scope \in Scopes
  /\ token \in [Tokens -> TokenRow]
  /\ password \in Passwords
  /\ cut \in Passwords
  /\ call \in [Calls -> Call]

NoCall == [op |-> "none", step |-> "idle", session |-> None, token |-> None,
           scope |-> None, pwd |-> 0, newSession |-> None, newToken |-> None,
           unrevoked |-> FALSE]

Active(s) == session[s].status = "active"
Issued(t) == token[t].session # None
Live(t) == Issued(t) /\ ~token[t].consumed /\ ~token[t].revoked

At(c, op, step) == call[c].op = op /\ call[c].step = step
Goto(c, step) == call' = [call EXCEPT ![c].step = step]

-----------------------------------------------------------------------------
(* Statements of the repositories. *)

Revoked(s) == IF Active(s) THEN [session[s] EXCEPT !.status = "revoked"]
                           ELSE session[s]
EndSessions(S) ==
  session' = [s \in Sessions |-> IF s \in S THEN Revoked(s) ELSE session[s]]
EndTokens(S) ==
  token' = [t \in Tokens |-> [token[t] EXCEPT !.revoked = @ \/ token[t].session \in S]]

RevokeSession(s) == EndSessions({s}) /\ EndTokens({s})

(* The best effort of a handler that must undo: the error is ignored. *)
TryRevoke(s) == RevokeSession(s) \/ UNCHANGED <<session, token>>

NewToken(s) == [session |-> s, consumed |-> FALSE, revoked |-> FALSE, reused |-> FALSE]

CreateSession(s, t, g) ==
  /\ session[s].status = "none"
  /\ ~Issued(t)
  /\ session' = [session EXCEPT ![s] =
                   [status |-> "active", scope |-> g, born |-> password]]
  /\ token' = [token EXCEPT ![t] = NewToken(s)]

-----------------------------------------------------------------------------
(* What clients send. An access token may be of any session, also an old one. *)

Send(c, r) == /\ call[c] = NoCall
              /\ call' = [call EXCEPT ![c] = r]
              /\ UNCHANGED <<session, token, password, cut>>

SendLogin(c, g) ==
  Send(c, [NoCall EXCEPT !.op = "login", !.step = "sent", !.scope = g])
SendRefresh(c, t, g) ==
  /\ Issued(t)
  /\ Send(c, [NoCall EXCEPT !.op = "refresh", !.step = "sent", !.token = t, !.scope = g])
SendSwitch(c, s, g) ==
  /\ session[s].status # "none"
  /\ Send(c, [NoCall EXCEPT !.op = "switch", !.step = "sent", !.session = s, !.scope = g])
SendChange(c, s) ==
  /\ session[s].status # "none"
  /\ Send(c, [NoCall EXCEPT !.op = "change", !.step = "sent", !.session = s])
SendLogout(c, s) ==
  /\ session[s].status # "none"
  /\ Send(c, [NoCall EXCEPT !.op = "logout", !.step = "sent", !.session = s])

-----------------------------------------------------------------------------
(* Login: the password is verified, then a transaction creates the session. *)

LoginVerify(c) ==
  /\ At(c, "login", "sent")
  /\ Goto(c, "verified")
  /\ UNCHANGED <<session, token, password, cut>>

LoginCreate(c, s, t) ==
  /\ At(c, "login", "verified")
  /\ CreateSession(s, t, call[c].scope)
  /\ call' = [call EXCEPT ![c].step = "created", ![c].newSession = s, ![c].newToken = t]
  /\ UNCHANGED <<password, cut>>

LoginIssue(c) ==
  /\ At(c, "login", "created")
  /\ \/ Goto(c, "ok") /\ UNCHANGED <<session, token>>
     \/ Goto(c, "failed") /\ TryRevoke(call[c].newSession)
  /\ UNCHANGED <<password, cut>>

-----------------------------------------------------------------------------
(* Refresh: a token that was consumed ends its session and all its tokens; *)
(* a live one is replaced by its successor.                                *)

(* Mutant: the row of the session is left alone. *)
ReuseTokensOnly(c) ==
  /\ At(c, "refresh", "sent")
  /\ LET t == call[c].token
         s == token[t].session
     IN /\ token[t].consumed
        /\ token' = [u \in Tokens |-> [token[u] EXCEPT
                       !.revoked = @ \/ token[u].session = s,
                       !.reused = @ \/ u = t]]
  /\ Goto(c, "failed")
  /\ UNCHANGED <<session, password, cut>>
Reuse(c) ==
  /\ At(c, "refresh", "sent")
  /\ LET t == call[c].token
         s == token[t].session
     IN /\ token[t].consumed
        /\ EndSessions({s})
        /\ token' = [u \in Tokens |-> [token[u] EXCEPT
                       !.revoked = @ \/ token[u].session = s,
                       !.reused = @ \/ u = t]]
  /\ Goto(c, "failed")
  /\ UNCHANGED <<password, cut>>

(* Mutant: the token that was exchanged is not marked. *)
ExchangeUnmarked(c, t, new) ==
  /\ token' = [token EXCEPT ![new] = NewToken(token[t].session)]
  /\ call' = [call EXCEPT ![c].step = "rotated", ![c].newToken = new,
                          ![c].session = token[t].session]
  /\ UNCHANGED <<session, password, cut>>
Exchange(c, t, new) ==
  /\ token' = [token EXCEPT ![t].consumed = TRUE, ![new] = NewToken(token[t].session)]
  /\ call' = [call EXCEPT ![c].step = "rotated", ![c].newToken = new,
                          ![c].session = token[t].session]
  /\ UNCHANGED <<session, password, cut>>

(* Mutant: only the token is looked at, not its session. *)
RotateUnchecked(c, new) ==
  /\ At(c, "refresh", "sent")
  /\ ~Issued(new)
  /\ Live(call[c].token)
  /\ Exchange(c, call[c].token, new)
Rotate(c, new) ==
  /\ At(c, "refresh", "sent")
  /\ ~Issued(new)
  /\ LET t == call[c].token
     IN /\ Live(t)
        /\ Active(token[t].session)
        /\ Exchange(c, t, new)

RefreshIssue(c) ==
  /\ At(c, "refresh", "rotated")
  /\ \/ /\ session[call[c].session].scope = call[c].scope
        /\ Goto(c, "ok") \/ Goto(c, "failed")
        /\ UNCHANGED <<session, token>>
     \/ /\ session[call[c].session].scope # call[c].scope
        /\ Goto(c, "failed")
        /\ TryRevoke(call[c].session)
  /\ UNCHANGED <<password, cut>>

-----------------------------------------------------------------------------
(* Requests with an access token: the session is validated first. *)

Authenticate(c) ==
  /\ At(c, "switch", "sent") \/ At(c, "change", "sent")
  /\ Active(call[c].session)
  /\ At(c, "switch", "sent") => session[call[c].session].scope # call[c].scope
  /\ Goto(c, "authenticated")
  /\ UNCHANGED <<session, token, password, cut>>

SwitchCreate(c, s, t) ==
  /\ At(c, "switch", "authenticated")
  /\ CreateSession(s, t, call[c].scope)
  /\ call' = [call EXCEPT ![c].step = "created", ![c].newSession = s, ![c].newToken = t]
  /\ UNCHANGED <<password, cut>>

SwitchIssue(c) ==
  /\ At(c, "switch", "created")
  /\ \/ Goto(c, "issued") /\ UNCHANGED <<session, token>>
     \/ /\ Goto(c, "failed") /\ RevokeSession(call[c].newSession)
     \/ /\ call' = [call EXCEPT ![c].step = "failed", ![c].unrevoked = TRUE]
        /\ UNCHANGED <<session, token>>
  /\ UNCHANGED <<password, cut>>

(* Mutant: the answer does not wait for the revocation. *)
SwitchAnswer(c) ==
  /\ At(c, "switch", "issued")
  /\ Goto(c, "ok")
  /\ UNCHANGED <<session, token, password, cut>>
SwitchRevokeOld(c) ==
  /\ At(c, "switch", "issued")
  /\ Goto(c, "ok") /\ RevokeSession(call[c].session)
  /\ UNCHANGED <<password, cut>>

(* Revoking the old session failed: the new one is revoked, if that succeeds. *)
SwitchRollback(c) ==
  /\ At(c, "switch", "issued")
  /\ \/ Goto(c, "failed") /\ RevokeSession(call[c].newSession)
     \/ /\ call' = [call EXCEPT ![c].step = "failed", ![c].unrevoked = TRUE]
        /\ UNCHANGED <<session, token>>
  /\ UNCHANGED <<password, cut>>

ReadPassword(c) ==
  /\ At(c, "change", "authenticated")
  /\ call' = [call EXCEPT ![c].step = "verified", ![c].pwd = password]
  /\ UNCHANGED <<session, token, password, cut>>

(* Mutant: the token of the changer's own session is revoked with the others. *)
ChangeRevokesOwn(c) ==
  /\ At(c, "change", "verified")
  /\ call[c].pwd = password
  /\ password < MaxPassword
  /\ password' = password + 1
  /\ cut' = password + 1
  /\ EndTokens(Sessions)
  /\ EndSessions(Sessions \ {call[c].session})
  /\ Goto(c, "ok")
ChangeSelfPassword(c) ==
  /\ At(c, "change", "verified")
  /\ call[c].pwd = password
  /\ password < MaxPassword
  /\ password' = password + 1
  /\ cut' = password + 1
  /\ LET own == call[c].session
     IN /\ EndTokens(Sessions \ {own})
        /\ session' = [s \in Sessions |->
             IF s # own THEN Revoked(s)
             ELSE [session[s] EXCEPT !.born = password + 1]]
  /\ Goto(c, "ok")

Logout(c) ==
  /\ At(c, "logout", "sent")
  /\ RevokeSession(call[c].session)
  /\ Goto(c, "ok")
  /\ UNCHANGED <<password, cut>>

(* A transaction that fails, a refusal (an expired or revoked token, an    *)
(* inactive session, another password by now), or the death of the process *)
(* between two transactions. After a rotation the successor is lost.       *)
Fail(c) ==
  /\ call[c].step \in {"sent", "authenticated", "verified", "rotated"}
  /\ Goto(c, "failed")
  /\ UNCHANGED <<session, token, password, cut>>

-----------------------------------------------------------------------------
(* Administrators and other modules. *)

RevokeSelfSession(s) ==
  /\ Active(s)
  /\ RevokeSession(s)
  /\ UNCHANGED <<password, cut, call>>

(* D are the sessions of one device, in any status. *)
RemoveSelfDevice(D) ==
  /\ D # {}
  /\ \A s \in D : session[s].status # "none"
  /\ EndTokens(D)
  /\ EndSessions(D)
  /\ UNCHANGED <<password, cut, call>>

(* Mutant: the sessions are left to the check of the tokens. *)
ResetTokensOnly ==
  /\ password < MaxPassword
  /\ password' = password + 1
  /\ cut' = password + 1
  /\ EndTokens(Sessions)
  /\ UNCHANGED <<session, call>>
ResetPassword ==
  /\ password < MaxPassword
  /\ password' = password + 1
  /\ cut' = password + 1
  /\ EndTokens(Sessions)
  /\ EndSessions(Sessions)
  /\ UNCHANGED call

In(G) == {s \in Sessions : session[s].scope \in G}

(* A tenant has several scopes. *)
SuspendMember(G) ==
  /\ EndTokens(In(G))
  /\ EndSessions(In(G))
  /\ UNCHANGED <<password, cut, call>>

(* Disabling an App's member: the refresh tokens are not touched. *)
DisableAppMember(g) ==
  /\ EndSessions(In({g}))
  /\ UNCHANGED <<token, password, cut, call>>

(* A reset by one-time code ends the sessions of its App, not their tokens. *)
ResetByCode(g) ==
  /\ password < MaxPassword
  /\ password' = password + 1
  /\ EndSessions(In({g}))
  /\ UNCHANGED <<token, cut, call>>

-----------------------------------------------------------------------------
Init ==
  /\ session = [s \in Sessions |-> [status |-> "none", scope |-> None, born |-> 0]]
  /\ token = [t \in Tokens |-> NewToken(None)]
  /\ password = 0
  /\ cut = 0
  /\ call = [c \in Calls |-> NoCall]

Serve(c) ==
  \/ LoginVerify(c) \/ LoginIssue(c)
  \/ \E s \in Sessions, t \in Tokens : LoginCreate(c, s, t) \/ SwitchCreate(c, s, t)
  \/ Reuse(c) \/ RefreshIssue(c) \/ \E t \in Tokens : Rotate(c, t)
  \/ Authenticate(c) \/ SwitchIssue(c) \/ SwitchRevokeOld(c) \/ SwitchRollback(c)
  \/ ReadPassword(c) \/ ChangeSelfPassword(c)
  \/ Logout(c) \/ Fail(c)

Revocation ==
  \/ \E s \in Sessions : RevokeSelfSession(s)
  \/ \E D \in SUBSET Sessions : RemoveSelfDevice(D)
  \/ ResetPassword
  \/ \E G \in SUBSET Scopes : SuspendMember(G)
  \/ \E g \in Scopes : DisableAppMember(g) \/ ResetByCode(g)

SendAny(c) ==
  \/ \E g \in Scopes : SendLogin(c, g) \/ \E t \in Tokens : SendRefresh(c, t, g)
  \/ \E s \in Sessions : SendChange(c, s) \/ SendLogout(c, s)
                         \/ \E g \in Scopes : SendSwitch(c, s, g)

Next == (\E c \in Calls : SendAny(c) \/ Serve(c)) \/ Revocation

Spec == Init /\ [][Next]_vars

-----------------------------------------------------------------------------
(* Of two requests that present the same refresh token, at the same time or *)
(* later, at most one gets a successor (RotateRefreshToken locks the row).  *)
OneWinner ==
  \A c, d \in Calls :
    /\ c # d
    /\ call[c].op = "refresh" /\ call[d].op = "refresh"
    /\ call[c].token = call[d].token
    => call[c].newToken = None \/ call[d].newToken = None

(* A session never has two tokens that can be exchanged, and one that is    *)
(* active has one, whichever handler revoked tokens or sessions last.       *)
AtMostOneLive ==
  \A t, u \in Tokens :
    Live(t) /\ Live(u) /\ token[t].session = token[u].session => t = u
ActiveHasLive ==
  \A s \in Sessions : Active(s) => \E t \in Tokens : Live(t) /\ token[t].session = s
OneSuccessor == AtMostOneLive /\ ActiveHasLive

(* A token that came back after its exchange has ended its session and the  *)
(* whole family, the successors handed out in between included.             *)
ReuseEndsFamily ==
  \A t, u \in Tokens :
    token[t].reused /\ token[u].session = token[t].session
    => ~Active(token[t].session) /\ ~Live(u)

(* No session that existed when a change of the password ended the others   *)
(* is still active, save the changer's own: what is active was created      *)
(* later, by a request that the change may have overtaken.                  *)
PasswordCutsOff == \A s \in Sessions : Active(s) => session[s].born >= cut

(* A switch that succeeded leaves no active old session; one that failed    *)
(* leaves no active new session unless undoing it failed as well.           *)
SwitchLeavesOne ==
  \A c \in Calls : call[c].op = "switch" =>
    /\ call[c].step = "ok" => ~Active(call[c].session)
    /\ call[c].step = "failed" /\ call[c].newSession # None /\ ~call[c].unrevoked
       => ~Active(call[c].newSession)

(* A revoked session is never active again and gets no further token, also  *)
(* when whoever revoked it left its refresh tokens as they were.            *)
StaysRevoked ==
  \A s \in Sessions : session[s].status = "revoked" =>
    /\ session'[s].status = "revoked"
    /\ \A t \in Tokens : token'[t].session = s => token[t].session = s
RevokedForGood == [][StaysRevoked]_vars

(* The families of refresh tokens as TokenFamily describes them: whatever   *)
(* requests, changes of the password and administrators do in between,      *)
(* every step opens a family, exchanges its one current token, ends some    *)
(* families, or leaves them alone.                                          *)
FamilyState == [s \in Sessions |-> session[s].status]
TokenOwner == [t \in Tokens |-> token[t].session]
CurrentTokens ==
  [s \in Sessions |-> {t \in Tokens : Active(s) /\ Live(t) /\ token[t].session = s}]
Family == INSTANCE TokenFamily WITH
  Families <- Sessions, state <- FamilyState, owner <- TokenOwner, current <- CurrentTokens
KeepsFamilies == Family!Spec
=============================================================================
