---------------------------- MODULE MobileProofs ----------------------------
(***************************************************************************)
(* Proofs about the credential the app stores, for any sessions, tokens,   *)
(* requests, coordinators and faults: why it is not an exchanged one, and  *)
(* why a reuse that ends a session has a cause. Both rest on who presents  *)
(* which token: a token reaches the app in one answer, and while it is     *)
(* stored whoever presented it is a coordinator that still waits.          *)
(***************************************************************************)
EXTENDS SessionProofs

Asks(c, t) == call[c].op = "refresh" /\ call[c].token = t
Waits(c) == \E k \in Coordinators : coord[k] = c
Awaited(c) == signing = c \/ Waits(c)

\* A coordinator waits for a request of its own.
OwnRequests ==
  \A k, l \in Coordinators : k # l /\ coord[k] # None => coord[k] # coord[l]

\* Requests get different tokens, and none before they are served.
OwnTokens ==
  \A c \in Calls :
    /\ call[c].newToken # None =>
         /\ call[c].newToken \in Tokens /\ Issued(call[c].newToken)
         /\ \A d \in Calls \ {c} : call[d].newToken # call[c].newToken
    /\ call[c].step \in {"idle", "sent"} => call[c].newToken = None

\* The token of an answer that has not reached the app is stored nowhere and
\* was presented by nobody.
Undelivered ==
  \A c \in Calls : Awaited(c) /\ call[c].newToken # None =>
    /\ call[c].newToken # stored
    /\ \A d \in Calls : ~Asks(d, call[c].newToken)

\* Who presented the stored token waits, unless the app gave it up.
Presented ==
  stored # None =>
    /\ Issued(stored)
    /\ \A c \in Calls : Asks(c, stored) => Waits(c) \/ stored \in abandoned

\* What was exchanged was exchanged by a request that got its successor.
ConsumedByRefresh ==
  \A t \in Tokens : token[t].consumed =>
    \E c \in Calls : Asks(c, t) /\ call[c].newToken # None

\* A token presented twice was in flight twice, or given up in between.
TwiceHasCause ==
  \A c, d \in Calls, t \in Tokens :
    c # d /\ Asks(c, t) /\ Asks(d, t) => t \in shared \cup abandoned

Delivered ==
  /\ OwnRequests /\ OwnTokens /\ Undelivered /\ Presented
  /\ ConsumedByRefresh /\ TwiceHasCause /\ ReuseHasCause

CInv == MInv /\ Delivered

-----------------------------------------------------------------------------
(* What a step of the server does to requests and tokens, as far as the app *)
(* depends on it.                                                            *)

\* A request gets a token that nobody had; it marks the token it presented,
\* consumed with a successor, reused when another request had consumed it.
Serves(c) ==
  /\ call'[c].op = call[c].op /\ call'[c].token = call[c].token
  /\ call'[c].step \notin {"idle", "sent"}
  /\ call'[c].newToken # call[c].newToken =>
       /\ call'[c].newToken \in Tokens
       /\ ~Issued(call'[c].newToken) /\ token'[call'[c].newToken].session # None
  /\ \A t \in Tokens :
       /\ token'[t].consumed /\ ~token[t].consumed
          => Asks(c, t) /\ call'[c].newToken # None
       /\ token'[t].reused /\ ~token[t].reused
          => Asks(c, t) /\ call[c].step = "sent" /\ token[t].consumed

LEMMA MoveServes ==
  ASSUME Typed, NEW c \in Calls, NEW x \in Steps \ {"idle", "sent"}, Goto(c, x),
         \A t \in Tokens : token'[t].consumed = token[t].consumed /\ token'[t].reused = token[t].reused
  PROVE  Serves(c)
BY GotoTypes DEF Serves, Call

\* Ending tokens neither consumes nor marks them.
LEMMA EndTokensMarks ==
  ASSUME RowsOK, NEW S, EndTokens(S)
  PROVE  \A t \in Tokens : /\ token'[t].session = token[t].session
                           /\ token'[t].consumed = token[t].consumed
                           /\ token'[t].reused = token[t].reused
BY DEF EndTokens, RowsOK, TokenRow

LEMMA ServeServes ==
  ASSUME Typed, NEW c \in Calls, Serve(c)
  PROVE  Serves(c)
<1> DEFINE Unmarked == \A t \in Tokens : /\ token'[t].consumed = token[t].consumed
                                         /\ token'[t].reused = token[t].reused
<1>2. call \in [Calls -> Call] /\ call[c] \in Call /\ RowsOK
  BY DEF Typed
<1>3. \A s : TryRevoke(s) \/ RevokeSession(s) => Unmarked
  BY <1>2, EndTokensMarks DEF TryRevoke, RevokeSession
<1>4. CASE LoginVerify(c) \/ Authenticate(c) \/ Fail(c)
  BY <1>4, MoveServes DEF LoginVerify, Authenticate, Fail, Steps
<1>5. CASE LoginIssue(c)
  BY <1>3, <1>5, MoveServes DEF LoginIssue, Steps
<1>6. CASE RefreshIssue(c)
  BY <1>3, <1>6, MoveServes DEF RefreshIssue, Steps
<1>7. CASE SwitchRevokeOld(c) \/ Logout(c)
  BY <1>3, <1>7, MoveServes DEF SwitchRevokeOld, Logout, Steps
<1>8. CASE ChangeSelfPassword(c)
  BY <1>2, <1>8, EndTokensMarks, MoveServes DEF ChangeSelfPassword, Steps
<1>9. CASE SwitchIssue(c) \/ SwitchRollback(c)
  <2>1. Unmarked
    BY <1>3, <1>9 DEF SwitchIssue, SwitchRollback
  <2>2. CASE \E x \in {"issued", "failed"} : Goto(c, x)
    BY <2>1, <2>2, MoveServes DEF Steps
  <2>3. CASE call' = [call EXCEPT ![c].step = "failed", ![c].unrevoked = TRUE]
    BY <1>2, <2>1, <2>3 DEF Serves, Call
  <2> QED BY <1>9, <2>2, <2>3 DEF SwitchIssue, SwitchRollback
<1>10. CASE ReadPassword(c)
  BY <1>2, <1>10 DEF ReadPassword, Serves, Call
<1>11. ASSUME NEW s \in Sessions, NEW t \in Tokens, LoginCreate(c, s, t) \/ SwitchCreate(c, s, t)
       PROVE  Serves(c)
  <2>1. /\ ~Issued(t) /\ token' = [token EXCEPT ![t] = NewToken(s)]
        /\ call' = [call EXCEPT ![c].step = "created", ![c].newSession = s, ![c].newToken = t]
    BY <1>11 DEF LoginCreate, SwitchCreate, CreateSession
  <2>2. call'[c] = [call[c] EXCEPT !.step = "created", !.newSession = s, !.newToken = t]
    BY <1>2, <2>1
  <2>3. token'[t] = NewToken(s) /\ \A u \in Tokens \ {t} : token'[u] = token[u]
    BY <1>2, <2>1 DEF RowsOK
  <2> QED BY <1>2, <2>1, <2>2, <2>3, SessionAssumption DEF Serves, Call, NewToken
<1>12. CASE Reuse(c)
  <2>1. /\ call[c].op = "refresh" /\ call[c].step = "sent" /\ Goto(c, "failed")
        /\ token[call[c].token].consumed
        /\ token' = [u \in Tokens |-> [token[u] EXCEPT
                       !.revoked = @ \/ token[u].session = token[call[c].token].session,
                       !.reused = @ \/ u = call[c].token]]
    BY <1>12 DEF Reuse, At
  <2>2. \A u \in Tokens : /\ token'[u].consumed = token[u].consumed
                          /\ token'[u].reused => token[u].reused \/ u = call[c].token
    BY <1>2, <2>1 DEF RowsOK, TokenRow
  <2>3. call'[c] = [call[c] EXCEPT !.step = "failed"]
    BY <1>2, <2>1 DEF Goto
  <2> QED BY <1>2, <2>1, <2>2, <2>3 DEF Serves, Asks, Call
<1>13. ASSUME NEW new \in Tokens, Rotate(c, new)
       PROVE  Serves(c)
  <2> DEFINE t == call[c].token
  <2>1. /\ call[c].op = "refresh" /\ Live(t) /\ ~Issued(new) /\ Active(token[t].session)
        /\ token' = [token EXCEPT ![t].consumed = TRUE, ![new] = NewToken(token[t].session)]
        /\ call' = [call EXCEPT ![c].step = "rotated", ![c].newToken = new,
                                ![c].session = token[t].session]
    BY <1>13 DEF Rotate, Exchange, At
  <2>2. t \in Tokens /\ t # new /\ token[t].session # None
    BY <2>1 DEF Typed, CallShape, RequestOK, Live, Issued
  <2>3. /\ token'[new] = NewToken(token[t].session)
        /\ \A u \in Tokens \ {new} : /\ token'[u].consumed => token[u].consumed \/ u = t
                                     /\ token'[u].reused = token[u].reused
    BY <1>2, <2>1, <2>2 DEF RowsOK, TokenRow
  <2>4. call'[c] = [call[c] EXCEPT !.step = "rotated", !.newToken = new,
                                   !.session = token[t].session]
    BY <1>2, <2>1
  <2>5. ~token'[new].consumed /\ ~token'[new].reused /\ token'[new].session # None
    BY <2>2, <2>3 DEF NewToken
  <2>6. /\ call'[c].op = call[c].op /\ call'[c].token = call[c].token
        /\ call'[c].step = "rotated" /\ call'[c].newToken = new /\ new # None
    BY <1>2, <2>4, SessionAssumption DEF Call
  <2> QED BY <2>1, <2>3, <2>5, <2>6 DEF Serves, Asks
<1> QED
  BY <1>4, <1>5, <1>6, <1>7, <1>8, <1>9, <1>10, <1>11, <1>12, <1>13, Serve(c) DEF Serve

-----------------------------------------------------------------------------
(* Each kind of step keeps what is said of tokens and requests.              *)

LEMMA ServeDelivered ==
  ASSUME CInv, MInv', NEW c \in Calls, Serve(c), UNCHANGED app
  PROVE  Delivered'
<1>1. Serves(c) /\ Outcome(c) /\ Keeps
  BY ServeServes, ServeOutcome, KeepsAll DEF CInv, MInv, IInv, Typed, Outcome
<1>2. UNCHANGED <<stored, coord, signing, abandoned, shared>>
  BY DEF app
<1>3. \A d \in Calls : \A t : Asks(d, t)' <=> Asks(d, t)
  BY <1>1 DEF Asks, Serves, Outcome
<1>4. \A d \in Calls \ {c} : call'[d] = call[d]
  BY <1>1 DEF Outcome
<1>5. \A t \in Tokens : Issued(t) => Issued(t)'
  BY <1>1 DEF Keeps, Issued
<1>6. \/ call'[c].newToken = call[c].newToken
      \/ /\ call'[c].newToken \in Tokens /\ ~Issued(call'[c].newToken)
         /\ token'[call'[c].newToken].session # None
  BY <1>1 DEF Serves
<1>7. OwnRequests'
  BY <1>2 DEF CInv, Delivered, OwnRequests
<1>8. OwnTokens'
  <2>1. call'[c].step \notin {"idle", "sent"}
    BY <1>1 DEF Serves
  <2> QED BY <1>4, <1>5, <1>6, <2>1 DEF CInv, Delivered, OwnTokens, Issued
<1>9. Undelivered'
  <2> SUFFICES ASSUME NEW d \in Calls, Awaited(d), call'[d].newToken # None
               PROVE  /\ call'[d].newToken # stored
                      /\ \A e \in Calls : ~(call'[e].op = "refresh"
                                            /\ call'[e].token = call'[d].newToken)
    BY <1>2 DEF Undelivered, Awaited, Waits, Asks
  <2>1. CASE call'[d].newToken = call[d].newToken
    BY <1>3, <2>1 DEF CInv, Delivered, Undelivered, Asks
  <2>2. CASE call'[d].newToken # call[d].newToken
    <3>1. /\ call'[d].newToken \in Tokens
          /\ ~Issued(call'[d].newToken)
      BY <1>4, <1>6, <2>2
    <3>2. call'[d].newToken # stored
      BY <3>1 DEF CInv, Delivered, Presented
    <3>3. ASSUME NEW e \in Calls, Asks(e, call'[d].newToken)
          PROVE  FALSE
      BY <3>1, <3>3 DEF Asks, CInv, MInv, IInv, Typed, CallShape, RequestOK
    <3> QED BY <1>3, <3>2, <3>3 DEF Asks
  <2> QED BY <2>1, <2>2
<1>10. Presented'
  BY <1>2, <1>3, <1>5 DEF CInv, MInv, AppOK, Delivered, Presented, Waits
<1>11. ConsumedByRefresh'
  <2> SUFFICES ASSUME NEW t \in Tokens, token'[t].consumed
               PROVE  \E d \in Calls : Asks(d, t) /\ call'[d].newToken # None
    BY <1>3 DEF ConsumedByRefresh
  <2>1. CASE token[t].consumed
    <3>1. PICK d \in Calls : Asks(d, t) /\ call[d].newToken # None
      BY <2>1 DEF CInv, Delivered, ConsumedByRefresh
    <3> QED BY <1>4, <1>6, <3>1, SessionAssumption
  <2>2. CASE ~token[t].consumed
    BY <1>1, <2>2 DEF Serves
  <2> QED BY <2>1, <2>2
<1>12. TwiceHasCause'
  BY <1>2, <1>3 DEF CInv, Delivered, TwiceHasCause
<1>13. ReuseHasCause'
  <2> SUFFICES ASSUME NEW t \in Tokens, token'[t].reused
               PROVE  t \in shared \cup abandoned
    BY <1>2 DEF ReuseHasCause
  <2>1. CASE token[t].reused
    BY <2>1 DEF CInv, Delivered, ReuseHasCause
  <2>2. CASE ~token[t].reused
    <3>1. Asks(c, t) /\ call[c].step = "sent" /\ token[t].consumed
      BY <1>1, <2>2 DEF Serves
    <3>2. PICK d \in Calls : Asks(d, t) /\ call[d].newToken # None
      BY <3>1 DEF CInv, Delivered, ConsumedByRefresh
    <3>3. c # d
      BY <3>1, <3>2 DEF CInv, Delivered, OwnTokens
    <3> QED BY <3>1, <3>2, <3>3 DEF CInv, Delivered, TwiceHasCause
  <2> QED BY <2>1, <2>2
<1> QED BY <1>7, <1>8, <1>9, <1>10, <1>11, <1>12, <1>13 DEF Delivered

\* A request that presents no refresh token: from another device, a login, a
\* sign-out.
LEMMA SendDelivered ==
  ASSUME CInv, NEW c \in Calls, NEW r \in Call, Send(c, r),
         r.op # "refresh", r.newToken = None,
         UNCHANGED <<stored, coord, abandoned, shared>>, signing' \in {signing, c}
  PROVE  Delivered'
<1>1. /\ UNCHANGED <<session, token>> /\ call[c].op = "none" /\ call'[c] = r
      /\ \A d \in Calls \ {c} : call'[d] = call[d]
  BY DEF Send, NoCall, CInv, MInv, IInv, Typed
<1>2. \A d \in Calls : \A t : Asks(d, t)' <=> Asks(d, t)
  BY <1>1 DEF Asks
<1>3. \A t : Issued(t)' <=> Issued(t)
  BY <1>1 DEF Issued
<1>4. OwnRequests' /\ Presented' /\ TwiceHasCause' /\ ReuseHasCause'
  BY <1>1, <1>2, <1>3
     DEF CInv, Delivered, OwnRequests, Presented, Waits, TwiceHasCause, ReuseHasCause
<1>5. OwnTokens'
  BY <1>1, <1>3 DEF CInv, Delivered, OwnTokens
<1>6. Undelivered'
  BY <1>1, <1>2 DEF CInv, Delivered, Undelivered, Awaited, Waits
<1>7. ConsumedByRefresh'
  <2> SUFFICES ASSUME NEW t \in Tokens, token[t].consumed
               PROVE  \E d \in Calls : Asks(d, t) /\ call'[d].newToken # None
    BY <1>1, <1>2 DEF ConsumedByRefresh
  <2>1. PICK d \in Calls : Asks(d, t) /\ call[d].newToken # None
    BY DEF CInv, Delivered, ConsumedByRefresh
  <2> QED BY <1>1, <2>1 DEF Asks
<1> QED BY <1>4, <1>5, <1>6, <1>7 DEF Delivered

LEMMA RevocationDelivered ==
  ASSUME CInv, Revocation, UNCHANGED app
  PROVE  Delivered'
<1>1. UNCHANGED call
  BY RevocationEnds DEF CInv, MInv, IInv
<1>2. \A t \in Tokens : /\ token'[t].session = token[t].session
                        /\ token'[t].consumed = token[t].consumed
                        /\ token'[t].reused = token[t].reused
  BY EndTokensMarks
     DEF Revocation, RevokeSelfSession, RevokeSession, RemoveSelfDevice, ResetPassword,
         SuspendMember, DisableAppMember, ResetByCode, CInv, MInv, IInv, Typed
<1>3. \A t \in Tokens : Issued(t)' <=> Issued(t)
  BY <1>2 DEF Issued
<1>4. UNCHANGED <<stored, coord, signing, abandoned, shared>>
  BY DEF app
<1>5. stored # None => stored \in Tokens
  BY DEF CInv, MInv, AppOK
<1>6. OwnRequests' /\ OwnTokens' /\ Undelivered' /\ Presented'
  BY <1>1, <1>3, <1>4, <1>5
     DEF CInv, Delivered, OwnRequests, OwnTokens, Undelivered, Presented, Awaited, Waits, Asks
<1>7. ConsumedByRefresh' /\ TwiceHasCause' /\ ReuseHasCause'
  BY <1>1, <1>2, <1>4
     DEF CInv, Delivered, ConsumedByRefresh, TwiceHasCause, ReuseHasCause, Asks
<1> QED BY <1>6, <1>7 DEF Delivered

\* A 401: the coordinator presents the stored token. Whoever had presented it
\* before is in flight, so both are recorded, or the app had given it up.
LEMMA UnauthorizedDelivered ==
  ASSUME CInv, NEW k \in Coordinators, NEW c \in Calls, Unauthorized(k, c)
  PROVE  Delivered'
<1> DEFINE r == [NoCall EXCEPT !.op = "refresh", !.step = "sent", !.token = stored,
                               !.scope = MobileScope]
<1>1. /\ UNCHANGED <<session, token, stored, signing, abandoned>>
      /\ call[c].op = "none" /\ call'[c] = r
      /\ \A d \in Calls \ {c} : call'[d] = call[d]
      /\ shared' = IF InFlight(stored) THEN shared \cup {stored} ELSE shared
  BY DEF Unauthorized, SendRefresh, Send, NoCall, CInv, MInv, IInv, Typed
<1>2. /\ coord[k] = None /\ coord'[k] = c /\ stored \in Tokens /\ c # None
      /\ \A l \in Coordinators \ {k} : coord'[l] = coord[l]
  BY MobileAssumption DEF Unauthorized, CInv, MInv, AppOK
<1>3. /\ signing # c
      /\ \A l \in Coordinators : coord[l] # c
  BY <1>1, <1>2 DEF CInv, MInv, AppOK
<1>4. r.op = "refresh" /\ r.token = stored /\ r.newToken = None /\ r.step = "sent"
  BY DEF NoCall
<1> HIDE DEF r
<1>5. \A d \in Calls : \A t : Asks(d, t)' <=> Asks(d, t) \/ (d = c /\ t = stored)
  BY <1>1, <1>4 DEF Asks
<1>6. \A d \in Calls : Waits(d)' <=> Waits(d) \/ d = c
  BY <1>2, <1>3, MobileAssumption DEF Waits
<1>7. OwnRequests'
  BY <1>2, <1>3 DEF CInv, Delivered, OwnRequests
<1>8. OwnTokens'
  BY <1>1, <1>4 DEF CInv, Delivered, OwnTokens, Issued
<1>9. Undelivered'
  <2> SUFFICES ASSUME NEW d \in Calls, (Awaited(d))', call'[d].newToken # None
               PROVE  /\ call'[d].newToken # stored
                      /\ \A e \in Calls : ~(call'[e].op = "refresh"
                                            /\ call'[e].token = call'[d].newToken)
    BY <1>1 DEF Undelivered, Asks
  <2>1. d # c /\ call'[d] = call[d] /\ Awaited(d)
    BY <1>1, <1>4, <1>6 DEF Awaited
  <2> QED BY <1>1, <1>4, <2>1 DEF CInv, Delivered, Undelivered, Asks
<1>10. Presented'
  BY <1>1, <1>5, <1>6 DEF CInv, Delivered, Presented, Issued
<1>11. ConsumedByRefresh'
  <2> SUFFICES ASSUME NEW t \in Tokens, token[t].consumed
               PROVE  \E d \in Calls : Asks(d, t)' /\ call'[d].newToken # None
    BY <1>1 DEF ConsumedByRefresh
  <2>1. PICK d \in Calls : Asks(d, t) /\ call[d].newToken # None
    BY DEF CInv, Delivered, ConsumedByRefresh
  <2> QED BY <1>1, <1>5, <2>1 DEF Asks
<1>12. TwiceHasCause'
  <2>1. ASSUME NEW d \in Calls, d # c, Asks(d, stored)
        PROVE  stored \in shared' \cup abandoned
    <3>1. Waits(d) \/ stored \in abandoned
      BY <1>2, <2>1, SessionAssumption DEF CInv, Delivered, Presented
    <3>2. Waits(d) => InFlight(stored)
      BY <2>1, MobileAssumption DEF Waits, InFlight, Asks
    <3> QED BY <1>1, <3>1, <3>2
  <2>2. shared \subseteq shared'
    BY <1>1
  <2> QED BY <1>1, <1>5, <2>1, <2>2 DEF CInv, Delivered, TwiceHasCause
<1>13. ReuseHasCause'
  BY <1>1 DEF CInv, Delivered, ReuseHasCause
<1> QED BY <1>7, <1>8, <1>9, <1>10, <1>11, <1>12, <1>13 DEF Delivered

-----------------------------------------------------------------------------
(* The steps of the app that leave the server alone.                         *)

\* What they keep by not touching the server and by forgetting no history.
LEMMA AppStepKeeps ==
  ASSUME CInv, UNCHANGED vars, abandoned \subseteq abandoned', UNCHANGED shared
  PROVE  OwnTokens' /\ ConsumedByRefresh' /\ TwiceHasCause' /\ ReuseHasCause'
<1>1. UNCHANGED <<token, call>>
  BY DEF vars
<1> QED
  BY <1>1 DEF CInv, Delivered, OwnTokens, ConsumedByRefresh, TwiceHasCause, ReuseHasCause,
              Asks, Issued

\* Coordinators stop waiting, and the stored token stays or is cleared: every
\* token that was given up on the way is recorded, unless nothing is stored.
LEMMA GivenUp ==
  ASSUME CInv, UNCHANGED vars, abandoned \subseteq abandoned', UNCHANGED shared,
         \A k \in Coordinators : coord'[k] \in {coord[k], None},
         signing' \in {signing, None}, stored' \in {stored, None},
         \A k \in Coordinators :
           stored' # None /\ coord[k] # None /\ coord'[k] = None
           /\ call[coord[k]].token = stored => stored \in abandoned'
  PROVE  Delivered'
<1>1. UNCHANGED <<token, call>>
  BY DEF vars
<1>2. OwnRequests'
  BY DEF CInv, Delivered, OwnRequests
<1>3. Undelivered'
  <2>1. \A c \in Calls : (Awaited(c))' => Awaited(c)
    BY MobileAssumption DEF Awaited, Waits
  <2>2. \A c \in Calls : call[c].newToken # None /\ Awaited(c) => call[c].newToken # stored'
    BY DEF CInv, Delivered, Undelivered
  <2> QED BY <1>1, <2>1, <2>2 DEF CInv, Delivered, Undelivered, Asks
<1>4. Presented'
  <2> SUFFICES ASSUME stored' # None
               PROVE  Issued(stored) /\ \A c \in Calls :
                        Asks(c, stored) => (Waits(c))' \/ stored \in abandoned'
    BY <1>1 DEF Presented, Issued, Asks
  <2>1. stored' = stored /\ Issued(stored)
    BY DEF CInv, Delivered, Presented
  <2>2. ASSUME NEW c \in Calls, Asks(c, stored), stored \notin abandoned
        PROVE  (Waits(c))' \/ stored \in abandoned'
    <3>1. PICK k \in Coordinators : coord[k] = c
      BY <2>1, <2>2 DEF CInv, Delivered, Presented, Waits
    <3>2. c # None
      BY MobileAssumption
    <3> QED BY <2>1, <2>2, <3>1, <3>2 DEF Waits, Asks
  <2> QED BY <2>1, <2>2
<1> QED BY <1>2, <1>3, <1>4, AppStepKeeps DEF Delivered

\* An answer is stored: its token was presented by nobody, and the tokens of
\* the answers that are still awaited are others.
LEMMA Stored ==
  ASSUME CInv, NEW c \in Calls, Awaited(c), call[c].newToken # None,
         UNCHANGED vars, UNCHANGED <<abandoned, shared>>,
         stored' = call[c].newToken,
         \A k \in Coordinators : coord'[k] \in {coord[k], None},
         signing' \in {signing, None}, ~(Awaited(c))'
  PROVE  Delivered'
<1>1. UNCHANGED <<token, call>>
  BY DEF vars
<1>2. OwnRequests'
  BY DEF CInv, Delivered, OwnRequests
<1>3. Undelivered'
  <2>1. \A d \in Calls : (Awaited(d))' => Awaited(d) /\ d # c
    BY MobileAssumption DEF Awaited, Waits
  <2>2. \A d \in Calls \ {c} : call[d].newToken # None => call[d].newToken # stored'
    BY DEF CInv, Delivered, OwnTokens
  <2> QED BY <1>1, <2>1, <2>2 DEF CInv, Delivered, Undelivered, Asks
<1>4. Presented'
  <2>1. Issued(stored')
    BY DEF CInv, Delivered, OwnTokens
  <2>2. \A d \in Calls : ~Asks(d, stored')
    BY DEF CInv, Delivered, Undelivered
  <2> QED BY <1>1, <2>1, <2>2 DEF Presented, Issued, Asks
<1> QED BY <1>2, <1>3, <1>4, AppStepKeeps DEF Delivered

-----------------------------------------------------------------------------
(* The invariant. *)

\* What other devices send, and a login and a sign-out of the app.
LEMMA OthersSend ==
  ASSUME CInv, NEW c \in Calls,
         \/ \E g \in Scopes : SendLogin(c, g)
         \/ \E s \in Sessions : \/ SendChange(c, s) \/ SendLogout(c, s)
                                \/ \E g \in Scopes : SendSwitch(c, s, g)
  PROVE  \E r \in Call : Send(c, r) /\ r.op # "refresh" /\ r.newToken = None
<1>1. NoCall \in Call
  BY SessionAssumption DEF NoCall, Call, Ops, Steps, Passwords
<1>2. ASSUME NEW g \in Scopes, SendLogin(c, g)
      PROVE  \E r \in Call : Send(c, r) /\ r.op # "refresh" /\ r.newToken = None
  <2> DEFINE r == [NoCall EXCEPT !.op = "login", !.step = "sent", !.scope = g]
  <2>1. r \in Call /\ r.op = "login" /\ r.newToken = None
    BY <1>1 DEF NoCall, Call, Ops, Steps
  <2> QED BY <1>2, <2>1 DEF SendLogin
<1>3. ASSUME NEW s \in Sessions, NEW g \in Scopes, SendSwitch(c, s, g)
      PROVE  \E r \in Call : Send(c, r) /\ r.op # "refresh" /\ r.newToken = None
  <2> DEFINE r == [NoCall EXCEPT !.op = "switch", !.step = "sent", !.session = s,
                                 !.scope = g]
  <2>1. r \in Call /\ r.op = "switch" /\ r.newToken = None
    BY <1>1 DEF NoCall, Call, Ops, Steps
  <2> QED BY <1>3, <2>1 DEF SendSwitch
<1>4. ASSUME NEW s \in Sessions, SendChange(c, s)
      PROVE  \E r \in Call : Send(c, r) /\ r.op # "refresh" /\ r.newToken = None
  <2> DEFINE r == [NoCall EXCEPT !.op = "change", !.step = "sent", !.session = s]
  <2>1. r \in Call /\ r.op = "change" /\ r.newToken = None
    BY <1>1 DEF NoCall, Call, Ops, Steps
  <2> QED BY <1>4, <2>1 DEF SendChange
<1>5. ASSUME NEW s \in Sessions, SendLogout(c, s)
      PROVE  \E r \in Call : Send(c, r) /\ r.op # "refresh" /\ r.newToken = None
  <2> DEFINE r == [NoCall EXCEPT !.op = "logout", !.step = "sent", !.session = s]
  <2>1. r \in Call /\ r.op = "logout" /\ r.newToken = None
    BY <1>1 DEF NoCall, Call, Ops, Steps
  <2> QED BY <1>5, <2>1 DEF SendLogout
<1> QED BY <1>2, <1>3, <1>4, <1>5

LEMMA DeliveredKept ==
  ASSUME CInv, MInv', [MNext]_mvars
  PROVE  Delivered'
<1>1. ASSUME NEW c \in Calls, Login(c)
      PROVE  Delivered'
  <2>1. MobileScope \in Scopes
    BY MobileAssumption
  <2>2. PICK r \in Call : Send(c, r) /\ r.op # "refresh" /\ r.newToken = None
    BY <1>1, <2>1, OthersSend DEF Login
  <2> QED BY <1>1, <2>2, SendDelivered DEF Login
<1>2. ASSUME NEW c \in Calls, SignOut(c)
      PROVE  Delivered'
  <2>1. access \in Sessions
    BY <1>2 DEF SignOut, CInv, MInv, AppOK
  <2>2. PICK r \in Call : Send(c, r) /\ r.op # "refresh" /\ r.newToken = None
    BY <1>2, <2>1, OthersSend DEF SignOut
  <2> QED BY <1>2, <2>2, SendDelivered DEF SignOut
<1>3. ASSUME NEW c \in Calls, NEW k \in Coordinators, Unauthorized(k, c)
      PROVE  Delivered'
  BY <1>3, UnauthorizedDelivered
<1>4. ASSUME NEW k \in Coordinators, UnauthorizedUnread(k)
      PROVE  Delivered'
  BY <1>4, GivenUp DEF UnauthorizedUnread, Clear
<1>5. ASSUME NEW k \in Coordinators, FinishSuccess(k)
      PROVE  Delivered'
  <2>1. PICK c \in Calls : coord[k] = c
    BY <1>5 DEF FinishSuccess, Answered, CInv, MInv, AppOK
  <2>2. /\ call[c].op = "refresh" /\ call[c].step = "ok"
        /\ coord' = [coord EXCEPT ![k] = None] /\ coord \in [Coordinators -> Calls \cup {None}]
    BY <1>5, <2>1, MobileAssumption DEF FinishSuccess, Answered, CInv, MInv, AppOK
  <2>3. call[c].newToken # None
    BY <2>2, AnswerTyped, SessionAssumption DEF CInv, MInv
  <2>4. Awaited(c) /\ signing # c
    BY <2>1, <2>2, MobileAssumption DEF Awaited, Waits, CInv, MInv, AppOK
  <2>5. ~(Awaited(c))'
    BY <1>5, <2>1, <2>2, <2>4, MobileAssumption
       DEF FinishSuccess, Awaited, Waits, CInv, Delivered, OwnRequests
  <2>6. \A l \in Coordinators : coord'[l] \in {coord[l], None}
    BY <2>2
  <2> QED BY <1>5, <2>1, <2>3, <2>4, <2>5, <2>6, Stored DEF FinishSuccess, Persist
<1>6. ASSUME NEW k \in Coordinators, FinishFailure(k)
      PROVE  Delivered'
  <2>1. /\ coord' = [coord EXCEPT ![k] = None] /\ coord \in [Coordinators -> Calls \cup {None}]
        /\ UNCHANGED <<vars, signing, shared>>
    BY <1>6 DEF FinishFailure, CInv, MInv, AppOK
  <2>2. \/ stored' = None /\ abandoned' = abandoned
        \/ stored' = stored /\ abandoned' = abandoned \cup {call[coord[k]].token}
    BY <1>6 DEF FinishFailure, Clear, ClearFails
  <2>3. \A l \in Coordinators :
          coord'[l] \in {coord[l], None} /\ (coord[l] # None /\ coord'[l] = None => l = k)
    BY <2>1
  <2> QED BY <2>1, <2>2, <2>3, GivenUp
<1>7. CASE LoginAnswer
  <2>1. /\ signing \in Calls /\ signing # None /\ call[signing].op = "login"
        /\ signing' = None /\ UNCHANGED <<vars, coord, abandoned, shared>>
    BY <1>7 DEF LoginAnswer, CInv, MInv, AppOK
  <2>2. CASE UNCHANGED stored
    BY <2>1, <2>2, GivenUp
  <2>3. CASE Answered(signing, "ok") /\ stored' = call[signing].newToken
    <3>1. call[signing].newToken # None
      BY <2>1, <2>3, AnswerTyped, SessionAssumption DEF Answered, CInv, MInv
    <3>2. Awaited(signing)
      BY DEF Awaited
    <3>3. \A k \in Coordinators : coord[k] # signing
      BY <2>1 DEF CInv, MInv, AppOK
    <3> QED
      BY <2>1, <2>3, <3>1, <3>2, <3>3, Stored DEF Awaited, Waits
  <2> QED BY <1>7, <2>2, <2>3 DEF LoginAnswer, Persist
<1>8. CASE SignedOut
  BY <1>8, GivenUp DEF SignedOut, Clear, ClearFails
<1>9. CASE Restart
  <2>1. /\ \A k \in Coordinators : coord'[k] = None
        /\ signing' = None /\ UNCHANGED <<vars, stored, shared>>
        /\ abandoned' = abandoned \cup {t \in Tokens : InFlight(t)}
    BY <1>9 DEF Restart
  <2>2. stored # None => stored \in Tokens
    BY DEF CInv, MInv, AppOK
  <2> QED BY <2>1, <2>2, GivenUp DEF InFlight
<1>10. CASE ServerStep
  <2>1. UNCHANGED app
    BY <1>10 DEF ServerStep
  <2>2. ASSUME NEW c \in Calls, SendOther(c)
        PROVE  Delivered'
    <3>1. PICK r \in Call : Send(c, r) /\ r.op # "refresh" /\ r.newToken = None
      BY <2>2, OthersSend DEF SendOther
    <3> QED BY <2>1, <3>1, SendDelivered DEF app
  <2> QED BY <1>10, <2>1, <2>2, ServeDelivered, RevocationDelivered DEF ServerStep
<1>11. CASE UNCHANGED mvars
  BY <1>11, GivenUp DEF mvars, app
<1> QED BY <1>1, <1>2, <1>3, <1>4, <1>5, <1>6, <1>7, <1>8, <1>9, <1>10, <1>11
        DEF MNext, AppStep

LEMMA DeliveredInit ==
  ASSUME MInit
  PROVE  CInv
<1>1. MInv
  BY InitInv, MobileAssumption DEF MInit, MInv, AppOK
<1>2. \A c \in Calls : call[c] = NoCall
  BY DEF MInit, Init
<1>3. /\ \A t \in Tokens : ~token[t].consumed /\ ~token[t].reused
      /\ stored = None /\ \A k \in Coordinators : coord[k] = None
  BY DEF MInit, Init, NewToken
<1> QED
  BY <1>1, <1>2, <1>3
     DEF CInv, Delivered, OwnRequests, OwnTokens, Undelivered, Presented, ConsumedByRefresh,
         TwiceHasCause, ReuseHasCause, Asks, NoCall

\* The token that is stored and was exchanged was presented by who waits for
\* its successor, or was given up.
LEMMA DeliveredSays ==
  ASSUME CInv
  PROVE  StoredIsUsable
<1> SUFFICES ASSUME stored # None, token[stored].consumed, stored \notin abandoned
             PROVE  InFlight(stored)
  BY DEF StoredIsUsable
<1>1. stored \in Tokens
  BY DEF CInv, MInv, AppOK
<1>2. PICK c \in Calls : Asks(c, stored)
  BY <1>1 DEF CInv, Delivered, ConsumedByRefresh
<1>3. Waits(c)
  BY <1>2 DEF CInv, Delivered, Presented
<1> QED BY <1>2, <1>3, MobileAssumption DEF Waits, InFlight, Asks

(* The invariant of the app's credential. *)
THEOREM CredentialInvariant == MSpec => []CInv
<1>1. CInv /\ [MNext]_mvars => CInv'
  <2>1. CInv /\ [MNext]_mvars => MInv'
    BY AppKept, AppIsClient, NextInv DEF CInv, MInv
  <2> QED BY <2>1, DeliveredKept DEF CInv
<1> QED BY <1>1, DeliveredInit, PTL DEF MSpec

(* The refresh token in secure storage was not exchanged, unless the answer *)
(* with its successor is still awaited or the refresh was given up without  *)
(* clearing it: the app's next refresh is no reuse.                         *)
THEOREM CredentialUsable == MSpec => []StoredIsUsable
BY CredentialInvariant, DeliveredSays, PTL

(* A session of the app ends by detected reuse only when two coordinators   *)
(* presented one token together, or one was given up and presented again.   *)
THEOREM ReuseIsCaused == MSpec => []ReuseHasCause
<1>1. CInv => ReuseHasCause
  BY DEF CInv, Delivered
<1> QED BY <1>1, CredentialInvariant, PTL
=============================================================================
