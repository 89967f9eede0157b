---------------------------- MODULE SessionProofs ----------------------------
(***************************************************************************)
(* Proofs about Session and MobileSession for any sessions, tokens,        *)
(* scopes, requests and coordinators. Every step of the server does one of *)
(* four things to the rows: nothing, ending sessions, creating one, or     *)
(* exchanging a token (Same, Ends, Creates, Exchanges); the invariants are *)
(* proved from these four, and once for both modules.                      *)
(***************************************************************************)
EXTENDS MobileSession, TLAPS

RowsOK ==
  /\ session \in [Sessions -> SessionRow]
  /\ \A s \in Sessions : session[s].status # "none" => session[s].scope \in Scopes
  /\ token \in [Tokens -> TokenRow]
  /\ password \in Passwords
  /\ cut \in Passwords

\* What a request refers to exists; a refresh that got a successor has consumed
\* its token; a switch that is over has left what SwitchLeavesOne says.
RequestOK(r) ==
  /\ r.op \in {"login", "switch", "refresh"} => r.scope \in Scopes
  /\ r.op = "refresh" => r.token \in Tokens /\ Issued(r.token)
  /\ r.op \in {"switch", "change", "logout"}
     => r.session \in Sessions /\ session[r.session].status # "none"
  /\ r.op = "refresh" /\ r.step = "rotated" => r.session \in Sessions
  /\ r.op \in {"login", "switch"} /\ r.step \in {"created", "issued"}
     => r.newSession \in Sessions
  /\ r.newSession # None
     => r.newSession \in Sessions /\ session[r.newSession].status # "none"
  /\ r.op = "refresh" /\ r.newToken # None => token[r.token].consumed
  /\ r.op = "refresh" /\ r.step \in {"rotated", "ok"} => r.newToken \in Tokens
  /\ r.op = "login" /\ r.step \in {"created", "ok"} => r.newToken \in Tokens
  /\ r.op = "switch" =>
       /\ r.step \in {"sent", "authenticated", "verified", "rotated"} => r.newSession = None
       /\ r.step = "ok" => ~Active(r.session)
       /\ r.step = "failed" /\ r.newSession # None /\ ~r.unrevoked
          => ~Active(r.newSession)
CallShape == \A c \in Calls : RequestOK(call[c])

\* A token belongs to a session that exists, and the cut to the past.
TokensTied ==
  \A t \in Tokens : /\ Issued(t) => session[token[t].session].status # "none"
                    /\ token[t].reused => Issued(t)
CutPast == cut <= password

Rows == TokensTied /\ CutPast /\ OneSuccessor /\ ReuseEndsFamily /\ PasswordCutsOff
Typed == RowsOK /\ call \in [Calls -> Call] /\ CallShape
IInv == Typed /\ Rows /\ OneWinner

-----------------------------------------------------------------------------
(* The four things. *)

Same == UNCHANGED <<session, token, password, cut>>

\* Nothing is forgotten: sessions stay, and tokens stay with their session.
Keeps ==
  /\ \A s \in Sessions :
       /\ session[s].status # "none" => session'[s].status # "none"
       /\ session[s].status = "revoked" => session'[s].status = "revoked"
  /\ \A t \in Tokens :
       Issued(t) => /\ token'[t].session = token[t].session
                    /\ token[t].consumed => token'[t].consumed

\* The sessions in S end, the others keep their tokens as they are, and no
\* session older than the cut stays active.
EndsAll(S) ==
  /\ \A s \in Sessions :
       session'[s].status = IF s \in S THEN Revoked(s).status ELSE session[s].status
  /\ \A t \in Tokens :
       /\ token'[t].session = token[t].session
       /\ token'[t].consumed = token[t].consumed
       /\ token[t].revoked => token'[t].revoked
       /\ token[t].session \notin S =>
            token'[t].revoked = token[t].revoked /\ token'[t].reused = token[t].reused
  /\ \A t, u \in Tokens :
       token'[t].reused /\ ~token[t].reused /\ token[u].session = token[t].session
       => token'[u].revoked
  /\ cut' <= password'
  /\ \A s \in Sessions : session'[s].status = "active" => session'[s].born >= cut'
Ends == \E S \in SUBSET Sessions : EndsAll(S)

Creates ==
  /\ \E s \in Sessions, t \in Tokens, g \in Scopes : CreateSession(s, t, g)
  /\ UNCHANGED <<password, cut>>

Exchanges ==
  /\ \E t \in Tokens, new \in Tokens :
       /\ Live(t) /\ Active(token[t].session) /\ ~Issued(new)
       /\ token' = [token EXCEPT ![t].consumed = TRUE,
                                 ![new] = NewToken(token[t].session)]
  /\ UNCHANGED <<session, password, cut>>

-----------------------------------------------------------------------------
LEMMA KeepsAll ==
  ASSUME RowsOK, Same \/ Ends \/ Creates \/ Exchanges
  PROVE  Keeps
<1>1. CASE Same
  BY <1>1 DEF Same, Keeps, Issued
<1>2. CASE Ends
  BY <1>2 DEF Ends, EndsAll, Keeps, Issued, Revoked, Active, RowsOK, SessionRow
<1>3. CASE Creates
  <2>1. PICK s \in Sessions, t \in Tokens, g \in Scopes : CreateSession(s, t, g)
    BY <1>3 DEF Creates
  <2>2. \A r \in Sessions \ {s} : session'[r] = session[r]
    BY <2>1 DEF CreateSession, RowsOK
  <2>3. \A u \in Tokens \ {t} : token'[u] = token[u]
    BY <2>1 DEF CreateSession, RowsOK
  <2>4. ~Issued(t) /\ session[s].status = "none"
    BY <2>1 DEF CreateSession
  <2> QED BY <2>2, <2>3, <2>4 DEF Keeps, Issued
<1>4. CASE Exchanges
  <2>1. PICK t \in Tokens, new \in Tokens :
          /\ Live(t) /\ ~Issued(new)
          /\ token' = [token EXCEPT ![t].consumed = TRUE,
                                    ![new] = NewToken(token[t].session)]
    BY <1>4 DEF Exchanges
  <2>2. t # new
    BY <2>1 DEF Live
  <2>3. /\ token'[t].session = token[t].session /\ token'[t].consumed
        /\ \A u \in Tokens \ {t, new} : token'[u] = token[u]
    BY <2>1, <2>2 DEF RowsOK, TokenRow
  <2>4. session' = session
    BY <1>4 DEF Exchanges
  <2> QED BY <2>1, <2>3, <2>4 DEF Keeps
<1> QED BY <1>1, <1>2, <1>3, <1>4

LEMMA EndKeepsRows ==
  ASSUME RowsOK, RowsOK', Rows, Ends
  PROVE  Rows'
<1>1. PICK S \in SUBSET Sessions : EndsAll(S)
  BY DEF Ends
<1>2. \A s \in Sessions : (Active(s))' => Active(s) /\ s \notin S
  BY <1>1 DEF EndsAll, Revoked, Active
<1>3. \A t \in Tokens : (Live(t))' => Live(t)
  BY <1>1, SessionAssumption DEF EndsAll, Live, Issued, RowsOK, TokenRow
<1>4. \A t \in Tokens : Live(t) /\ token[t].session \notin S => (Live(t))'
  BY <1>1 DEF EndsAll, Live, Issued
<1>5. TokensTied'
  <2> SUFFICES ASSUME NEW t \in Tokens
               PROVE  /\ (Issued(t))' => session'[token'[t].session].status # "none"
                      /\ token'[t].reused => (Issued(t))'
    BY DEF TokensTied
  <2>1. token'[t].session = token[t].session
    BY <1>1 DEF EndsAll
  <2>2. Issued(t) => session'[token[t].session].status # "none"
    BY <1>1 DEF EndsAll, Rows, TokensTied, Issued, Revoked, RowsOK, TokenRow, SessionRow
  <2>3. token'[t].reused => token[t].reused \/ token[t].session \in S
    BY <1>1 DEF EndsAll
  <2>4. token'[t].reused => Issued(t)
    BY <2>3, SessionAssumption DEF Rows, TokensTied, Issued
  <2> QED BY <2>1, <2>2, <2>4 DEF Issued
<1>6. AtMostOneLive'
  BY <1>1, <1>3 DEF EndsAll, Rows, OneSuccessor, AtMostOneLive
<1>7. ActiveHasLive'
  BY <1>1, <1>2, <1>4 DEF EndsAll, Rows, OneSuccessor, ActiveHasLive
<1>8. ReuseEndsFamily'
  <2> SUFFICES ASSUME NEW t \in Tokens, NEW u \in Tokens,
                      token'[t].reused, token'[u].session = token'[t].session
               PROVE  ~(Active(token[t].session))' /\ ~(Live(u))'
    BY DEF ReuseEndsFamily
  <2>1. token[u].session = token[t].session /\ token'[t].session = token[t].session
    BY <1>1 DEF EndsAll
  <2>2. CASE token[t].reused
    <3>1. ~Active(token[t].session) /\ ~Live(u)
      BY <2>1, <2>2 DEF Rows, ReuseEndsFamily
    <3> QED BY <1>2, <1>3, <2>1, <2>2, <3>1 DEF RowsOK, TokenRow, Rows, TokensTied, Issued
  <2>3. CASE ~token[t].reused
    BY <1>1, <2>1, <2>3 DEF EndsAll, Live, Active, Revoked
  <2> QED BY <2>2, <2>3
<1>9. CutPast' /\ PasswordCutsOff'
  BY <1>1 DEF EndsAll, CutPast, PasswordCutsOff, Active
<1> QED BY <1>5, <1>6, <1>7, <1>8, <1>9 DEF Rows, OneSuccessor

LEMMA CreateKeepsRows ==
  ASSUME RowsOK, RowsOK', Rows, Creates
  PROVE  Rows'
<1>1. PICK s \in Sessions, t \in Tokens, g \in Scopes : CreateSession(s, t, g)
  BY DEF Creates
<1>2. /\ session[s].status = "none" /\ session'[s].status = "active"
      /\ session'[s].born = password
      /\ \A r \in Sessions \ {s} : session'[r] = session[r]
  BY <1>1 DEF CreateSession, RowsOK
<1>3. /\ ~Issued(t) /\ token'[t] = NewToken(s)
      /\ \A u \in Tokens \ {t} : token'[u] = token[u]
  BY <1>1 DEF CreateSession, RowsOK
<1>4. \A u \in Tokens \ {t} : Issued(u) => token[u].session # s
  BY <1>2 DEF Rows, TokensTied
<1>5. s # None
  BY SessionAssumption
<1>6. TokensTied'
  BY <1>2, <1>3, <1>5 DEF Rows, TokensTied, Issued, NewToken, RowsOK, TokenRow
<1>7. AtMostOneLive'
  BY <1>3, <1>4, <1>5 DEF Rows, OneSuccessor, AtMostOneLive, Live, Issued, NewToken
<1>8. ActiveHasLive'
  <2>1. (Live(t))' /\ token'[t].session = s
    BY <1>3, <1>5 DEF Live, Issued, NewToken
  <2>2. ASSUME NEW r \in Sessions \ {s}, session'[r].status = "active"
        PROVE  \E u \in Tokens : (Live(u))' /\ token'[u].session = r
    BY <1>2, <1>3, <2>2 DEF Rows, OneSuccessor, ActiveHasLive, Active, Live, Issued
  <2> QED BY <2>1, <2>2 DEF ActiveHasLive, Active
<1>9. ReuseEndsFamily'
  <2> SUFFICES ASSUME NEW u \in Tokens, NEW v \in Tokens,
                      token'[u].reused, token'[v].session = token'[u].session
               PROVE  ~(Active(token[u].session))' /\ ~(Live(v))'
    BY DEF ReuseEndsFamily
  <2>1. u # t /\ token[u].reused /\ Issued(u) /\ token[u].session \in Sessions \ {s}
    BY <1>3, <1>4 DEF NewToken, Rows, TokensTied, Issued, RowsOK, TokenRow
  <2>2. v # t /\ token[v].session = token[u].session
    BY <1>3, <2>1 DEF NewToken
  <2>3. ~Active(token[u].session) /\ ~Live(v)
    BY <2>1, <2>2 DEF Rows, ReuseEndsFamily
  <2> QED BY <1>2, <1>3, <2>1, <2>2, <2>3 DEF Active, Live, Issued
<1>10. CutPast' /\ PasswordCutsOff'
  BY <1>1, <1>2 DEF Creates, Rows, CutPast, PasswordCutsOff, Active
<1> QED BY <1>6, <1>7, <1>8, <1>9, <1>10 DEF Rows, OneSuccessor

LEMMA ExchangeKeepsRows ==
  ASSUME RowsOK, RowsOK', Rows, Exchanges
  PROVE  Rows'
<1>1. PICK t \in Tokens, new \in Tokens :
        /\ Live(t) /\ Active(token[t].session) /\ ~Issued(new)
        /\ token' = [token EXCEPT ![t].consumed = TRUE,
                                  ![new] = NewToken(token[t].session)]
  BY DEF Exchanges
<1>2. t # new /\ Issued(t) /\ token[t].session \in Sessions /\ ~token[t].reused
  BY <1>1 DEF Live, Issued, RowsOK, TokenRow, Rows, ReuseEndsFamily
<1>3. /\ token'[t] = [token[t] EXCEPT !.consumed = TRUE]
      /\ token'[new] = NewToken(token[t].session)
      /\ \A u \in Tokens \ {t, new} : token'[u] = token[u]
  BY <1>1, <1>2 DEF RowsOK
<1>4. session' = session /\ password' = password /\ cut' = cut
  BY DEF Exchanges
<1>5a. \A u \in Tokens \ {new} : /\ token'[u].session = token[u].session
                                /\ token'[u].reused = token[u].reused
  BY <1>3 DEF RowsOK, TokenRow
<1>5. \A u \in Tokens \ {new} : (Live(u))' => Live(u) /\ u # t
  BY <1>3 DEF RowsOK, TokenRow, Live, Issued
<1>6. /\ token'[new].session = token[t].session /\ ~token'[new].reused
      /\ (Live(new))' /\ (Issued(new))'
  BY <1>2, <1>3 DEF NewToken, Live, Issued
<1>7. TokensTied'
  <2>1. \A u \in Tokens : /\ Issued(u) => session[token[u].session].status # "none"
                          /\ token[u].reused => Issued(u)
    BY DEF Rows, TokensTied
  <2>2. ASSUME NEW u \in Tokens
        PROVE  /\ (Issued(u))' => session[token'[u].session].status # "none"
               /\ token'[u].reused => (Issued(u))'
    BY <1>2, <1>5a, <1>6, <2>1 DEF Issued
  <2> QED BY <1>4, <2>2 DEF TokensTied
<1>8. AtMostOneLive'
  <2>1. \A u \in Tokens : Live(u) /\ token[u].session = token[t].session => u = t
    BY <1>1 DEF Rows, OneSuccessor, AtMostOneLive
  <2>2. \A u \in Tokens \ {new} : (Live(u))' => token'[u].session # token'[new].session
    BY <1>5, <1>5a, <1>6, <2>1 DEF Live, Issued
  <2>3. \A u, v \in Tokens \ {new} :
          (Live(u))' /\ (Live(v))' /\ token'[u].session = token'[v].session => u = v
    BY <1>5, <1>5a DEF Rows, OneSuccessor, AtMostOneLive, Live, Issued
  <2> QED BY <2>2, <2>3 DEF AtMostOneLive
<1>9. ActiveHasLive'
  <2> SUFFICES ASSUME NEW r \in Sessions, Active(r)
               PROVE  \E u \in Tokens : (Live(u))' /\ token'[u].session = r
    BY <1>4 DEF ActiveHasLive, Active
  <2>1. CASE r = token[t].session
    BY <1>6, <2>1
  <2>2. CASE r # token[t].session
    <3>1. PICK u \in Tokens : Live(u) /\ token[u].session = r
      BY DEF Rows, OneSuccessor, ActiveHasLive
    <3>2. u \notin {t, new}
      BY <1>1, <2>2, <3>1 DEF Live
    <3> QED BY <1>3, <3>1, <3>2 DEF Live, Issued
  <2> QED BY <2>1, <2>2
<1>10. ReuseEndsFamily'
  <2> SUFFICES ASSUME NEW u \in Tokens, NEW v \in Tokens,
                      token'[u].reused, token'[v].session = token'[u].session
               PROVE  ~(Active(token[u].session))' /\ ~(Live(v))'
    BY DEF ReuseEndsFamily
  <2>1. u # new /\ token[u].reused /\ token'[u].session = token[u].session
    BY <1>5a, <1>6
  <2>2. ~Active(token[u].session)
    BY <2>1 DEF Rows, ReuseEndsFamily
  <2>3. v # new /\ token[v].session = token[u].session
    BY <1>1, <1>5a, <1>6, <2>1, <2>2
  <2>4. ~Live(v)
    BY <2>1, <2>3 DEF Rows, ReuseEndsFamily
  <2> QED BY <1>4, <1>5, <2>1, <2>2, <2>3, <2>4 DEF Active, Live
<1>11. CutPast' /\ PasswordCutsOff'
  BY <1>4 DEF Rows, CutPast, PasswordCutsOff, Active
<1> QED BY <1>7, <1>8, <1>9, <1>10, <1>11 DEF Rows, OneSuccessor

LEMMA RowsKept ==
  ASSUME RowsOK, RowsOK', Rows, Same \/ Ends \/ Creates \/ Exchanges
  PROVE  Rows'
<1>1. CASE Same
  BY <1>1 DEF Same, Rows, TokensTied, CutPast, OneSuccessor, AtMostOneLive,
              ActiveHasLive, ReuseEndsFamily, PasswordCutsOff, Live, Issued, Active
<1> QED BY <1>1, EndKeepsRows, CreateKeepsRows, ExchangeKeepsRows

-----------------------------------------------------------------------------
(* The statements of the repositories are steps of the four kinds. *)

LEMMA EndTypes ==
  ASSUME RowsOK, NEW S,
         EndSessions(S) \/ UNCHANGED session, EndTokens(S) \/ UNCHANGED token,
         password' \in Passwords, cut' \in Passwords
  PROVE  RowsOK'
<1>1. session' \in [Sessions -> SessionRow]
  BY DEF EndSessions, Revoked, RowsOK, SessionRow
<1>2. \A s \in Sessions : session'[s].status # "none" => session'[s].scope \in Scopes
  BY DEF EndSessions, Revoked, Active, RowsOK, SessionRow
<1>3. token' \in [Tokens -> TokenRow]
  <2>1. \A t \in Tokens : (token[t].revoked \/ token[t].session \in S) \in BOOLEAN
    BY Zenon
  <2>2. \A t \in Tokens : token[t] \in TokenRow
    BY DEF RowsOK
  <2>3. ASSUME NEW t \in Tokens
        PROVE  [token[t] EXCEPT !.revoked = @ \/ token[t].session \in S] \in TokenRow
    BY <2>1, <2>2 DEF TokenRow
  <2> QED BY <2>2, <2>3 DEF EndTokens, RowsOK
<1> QED BY <1>1, <1>2, <1>3 DEF RowsOK

LEMMA EndIsEnds ==
  ASSUME RowsOK, Rows, NEW S \in SUBSET Sessions,
         EndSessions(S), EndTokens(S) \/ UNCHANGED token,
         password' >= password, password' \in Passwords, UNCHANGED cut
  PROVE  Ends
<1>1. \A s \in Sessions :
        /\ session'[s].status = IF s \in S THEN Revoked(s).status ELSE session[s].status
        /\ session'[s].born = session[s].born
  BY DEF EndSessions, Revoked, RowsOK, SessionRow
<1>2. \A t \in Tokens :
        /\ token'[t].session = token[t].session
        /\ token'[t].consumed = token[t].consumed
        /\ token'[t].reused = token[t].reused
        /\ token[t].revoked => token'[t].revoked
        /\ token[t].session \notin S => token'[t].revoked = token[t].revoked
  BY DEF EndTokens, RowsOK, TokenRow
<1>3. cut' <= password'
  BY SessionAssumption DEF Rows, CutPast, RowsOK, Passwords
<1>4. \A s \in Sessions : session'[s].status = "active" => session'[s].born >= cut'
  BY <1>1 DEF Rows, PasswordCutsOff, Active, Revoked
<1>5. EndsAll(S)
  BY <1>1, <1>2, <1>3, <1>4 DEF EndsAll
<1> QED BY <1>5 DEF Ends

LEMMA CreateTypes ==
  ASSUME RowsOK, NEW s \in Sessions, NEW t \in Tokens, NEW g \in Scopes,
         CreateSession(s, t, g), UNCHANGED <<password, cut>>
  PROVE  RowsOK' /\ Creates
<1>1. session' \in [Sessions -> SessionRow]
  BY DEF CreateSession, RowsOK, SessionRow
<1>2. \A r \in Sessions : session'[r].status # "none" => session'[r].scope \in Scopes
  BY DEF CreateSession, RowsOK, SessionRow
<1>3. token' \in [Tokens -> TokenRow]
  BY DEF CreateSession, RowsOK, TokenRow, NewToken
<1> QED BY <1>1, <1>2, <1>3 DEF RowsOK, Creates

\* A request that did not move still refers to what exists.
LEMMA OneCall ==
  ASSUME Typed, Keeps, NEW c \in Calls, call' \in [Calls -> Call],
         \A d \in Calls \ {c} : call'[d] = call[d],
         (RequestOK(call[c]))'
  PROVE  CallShape'
<1> SUFFICES ASSUME NEW d \in Calls \ {c}
             PROVE  (RequestOK(call[d]))'
  BY DEF CallShape
<1>1. call'[d] = call[d] /\ call[d] \in Call /\ RequestOK(call[d])
  BY DEF Typed, CallShape
<1>2. \A s \in Sessions : session[s].status # "none" => session'[s].status # "none"
  BY DEF Keeps
<1>3. \A s \in Sessions :
        session[s].status # "none" /\ ~Active(s) => session'[s].status = "revoked"
  BY DEF Keeps, Active, Typed, RowsOK, SessionRow
<1>4. \A t \in Tokens :
        Issued(t) => token'[t].session # None /\ (token[t].consumed => token'[t].consumed)
  BY DEF Keeps, Issued
<1> QED BY <1>1, <1>2, <1>3, <1>4 DEF RequestOK, Issued, Active

-----------------------------------------------------------------------------
(* Each action of a request, one by one. *)

Outcome(c) ==
  /\ Same \/ Ends \/ Creates \/ Exchanges
  /\ RowsOK'
  /\ call' \in [Calls -> Call]
  /\ \A d \in Calls \ {c} : call'[d] = call[d]
  /\ (RequestOK(call[c]))'

LEMMA SameRows ==
  ASSUME RowsOK, Same
  PROVE  RowsOK'
BY DEF RowsOK, Same

LEMMA GotoTypes ==
  ASSUME Typed, NEW c \in Calls, NEW x \in Steps, Goto(c, x)
  PROVE  /\ call' \in [Calls -> Call]
         /\ \A d \in Calls \ {c} : call'[d] = call[d]
         /\ call'[c] = [call[c] EXCEPT !.step = x]
         /\ call[c] \in Call /\ RequestOK(call[c])
BY DEF Typed, Goto, Call, CallShape

LEMMA SendOutcome ==
  ASSUME Typed, NEW c \in Calls, SendAny(c)
  PROVE  Outcome(c)
<1>1. Same
  BY DEF SendAny, SendLogin, SendRefresh, SendSwitch, SendChange, SendLogout, Send, Same
<1>2. ASSUME NEW r \in Call, Send(c, r)
      PROVE  /\ call' \in [Calls -> Call] /\ call'[c] = r
             /\ \A d \in Calls \ {c} : call'[d] = call[d]
  BY <1>2 DEF Send, Typed
<1>3. NoCall \in Call
  BY SessionAssumption DEF NoCall, Call, Ops, Steps, Passwords
<1>4. ASSUME NEW g \in Scopes, SendLogin(c, g)
      PROVE  Outcome(c)
  <2> DEFINE r == [NoCall EXCEPT !.op = "login", !.step = "sent", !.scope = g]
  <2>1. r \in Call
    BY <1>3 DEF Call, Ops, Steps
  <2>2. (RequestOK(r))'
    BY DEF RequestOK, NoCall
  <2> QED BY <1>1, <1>2, <1>4, <2>1, <2>2, SameRows DEF SendLogin, Outcome, Typed
<1>5. ASSUME NEW t \in Tokens, NEW g \in Scopes, SendRefresh(c, t, g)
      PROVE  Outcome(c)
  <2> DEFINE r == [NoCall EXCEPT !.op = "refresh", !.step = "sent", !.token = t, !.scope = g]
  <2>1. r \in Call
    BY <1>3 DEF Call, Ops, Steps
  <2>2. (RequestOK(r))'
    BY <1>1, <1>5 DEF RequestOK, NoCall, SendRefresh, Same, Issued
  <2> QED BY <1>1, <1>2, <1>5, <2>1, <2>2, SameRows DEF SendRefresh, Outcome, Typed
<1>6. ASSUME NEW s \in Sessions, NEW g \in Scopes, SendSwitch(c, s, g)
      PROVE  Outcome(c)
  <2> DEFINE r == [NoCall EXCEPT !.op = "switch", !.step = "sent", !.session = s, !.scope = g]
  <2>1. r \in Call
    BY <1>3 DEF Call, Ops, Steps
  <2>2. (RequestOK(r))'
    BY <1>1, <1>6 DEF RequestOK, NoCall, SendSwitch, Same
  <2> QED BY <1>1, <1>2, <1>6, <2>1, <2>2, SameRows DEF SendSwitch, Outcome, Typed
<1>7. ASSUME NEW s \in Sessions, SendChange(c, s)
      PROVE  Outcome(c)
  <2> DEFINE r == [NoCall EXCEPT !.op = "change", !.step = "sent", !.session = s]
  <2>1. r \in Call
    BY <1>3 DEF Call, Ops, Steps
  <2>2. (RequestOK(r))'
    BY <1>1, <1>7 DEF RequestOK, NoCall, SendChange, Same
  <2> QED BY <1>1, <1>2, <1>7, <2>1, <2>2, SameRows DEF SendChange, Outcome, Typed
<1>8. ASSUME NEW s \in Sessions, SendLogout(c, s)
      PROVE  Outcome(c)
  <2> DEFINE r == [NoCall EXCEPT !.op = "logout", !.step = "sent", !.session = s]
  <2>1. r \in Call
    BY <1>3 DEF Call, Ops, Steps
  <2>2. (RequestOK(r))'
    BY <1>1, <1>8 DEF RequestOK, NoCall, SendLogout, Same
  <2> QED BY <1>1, <1>2, <1>8, <2>1, <2>2, SameRows DEF SendLogout, Outcome, Typed
<1> QED BY <1>4, <1>5, <1>6, <1>7, <1>8 DEF SendAny

\* Requests that only move: nothing is written.
LEMMA MoveOutcome ==
  ASSUME Typed, NEW c \in Calls,
         LoginVerify(c) \/ Authenticate(c) \/ ReadPassword(c) \/ Fail(c)
  PROVE  Outcome(c)
<1>1. Same
  BY DEF LoginVerify, Authenticate, ReadPassword, Fail, Same
<1>2. RowsOK'
  BY <1>1, SameRows DEF Typed
<1>3. ASSUME NEW x \in Steps, Goto(c, x), x \in {"verified", "authenticated", "failed"},
             call[c].op = "switch" => call[c].newSession = None
      PROVE  Outcome(c)
  <2>1. call'[c] = [call[c] EXCEPT !.step = x] /\ call[c] \in Call /\ RequestOK(call[c])
    BY <1>3, GotoTypes
  <2>2. (RequestOK(call[c]))'
    BY <1>1, <1>3, <2>1 DEF RequestOK, Same, Issued, Active, Call
  <2> QED BY <1>1, <1>2, <1>3, <2>2, GotoTypes DEF Outcome
<1>4. CASE LoginVerify(c)
  BY <1>3, <1>4 DEF LoginVerify, At, Steps
<1>5. CASE Authenticate(c)
  <2>1. call[c].op = "switch" => call[c].newSession = None
    BY <1>5 DEF Authenticate, At, Typed, CallShape, RequestOK
  <2> QED BY <1>3, <1>5, <2>1 DEF Authenticate, Steps
<1>6. CASE Fail(c)
  <2>1. call[c].op = "switch" => call[c].newSession = None
    BY <1>6 DEF Fail, Typed, CallShape, RequestOK
  <2> QED BY <1>3, <1>6, <2>1 DEF Fail, Steps
<1>7. CASE ReadPassword(c)
  <2>1. /\ call' = [call EXCEPT ![c] = [call[c] EXCEPT !.step = "verified", !.pwd = password]]
        /\ call[c].op = "change" /\ call[c] \in Call /\ RequestOK(call[c])
        /\ password \in Passwords
    BY <1>7 DEF ReadPassword, At, Typed, CallShape, RowsOK, Call
  <2>2. [call[c] EXCEPT !.step = "verified", !.pwd = password] \in Call
    BY <2>1 DEF Call, Steps
  <2>3. /\ call' \in [Calls -> Call]
        /\ \A d \in Calls \ {c} : call'[d] = call[d]
        /\ call'[c] = [call[c] EXCEPT !.step = "verified", !.pwd = password]
    BY <2>1, <2>2 DEF Typed
  <2>4. (RequestOK(call[c]))'
    BY <1>1, <2>1, <2>3 DEF RequestOK, Same, Issued, Active, Call
  <2> QED BY <1>1, <1>2, <2>3, <2>4 DEF Outcome
<1> QED BY <1>4, <1>5, <1>6, <1>7

\* A session that is not active stays so, and a request says of a session it
\* made or uses that it exists.
LEMMA CreateOutcome ==
  ASSUME Typed, NEW c \in Calls, NEW s \in Sessions, NEW t \in Tokens,
         LoginCreate(c, s, t) \/ SwitchCreate(c, s, t)
  PROVE  Outcome(c)
<1> DEFINE r == [call[c] EXCEPT !.step = "created", !.newSession = s, !.newToken = t]
<1>1. /\ call[c] \in Call /\ RequestOK(call[c])
      /\ call[c].op \in {"login", "switch"} /\ call[c].scope \in Scopes
      /\ CreateSession(s, t, call[c].scope) /\ UNCHANGED <<password, cut>>
      /\ call' = [call EXCEPT ![c] = r]
  BY DEF LoginCreate, SwitchCreate, At, Typed, CallShape, RequestOK, Call
<1>2. r \in Call
  BY <1>1 DEF Call, Steps
<1>3. /\ call' \in [Calls -> Call] /\ call'[c] = r
      /\ \A d \in Calls \ {c} : call'[d] = call[d]
  BY <1>1, <1>2 DEF Typed
<1>4. RowsOK' /\ Creates
  BY <1>1, CreateTypes DEF Typed
<1>5. Keeps
  BY <1>4, KeepsAll DEF Typed
<1>6. session'[s].status = "active"
  BY <1>1 DEF CreateSession, Typed, RowsOK
<1>7. (RequestOK(call[c]))'
  BY <1>1, <1>3, <1>5, <1>6 DEF RequestOK, Keeps, Call
<1> QED BY <1>3, <1>4, <1>7 DEF Outcome

\* A transaction that ends one session, or is given up.
LEMMA RevokeEnds ==
  ASSUME Typed, Rows, NEW s \in Sessions, UNCHANGED <<password, cut>>,
         RevokeSession(s) \/ UNCHANGED <<session, token>>
  PROVE  /\ RowsOK' /\ (Same \/ Ends) /\ Keeps
         /\ RevokeSession(s) => session'[s].status # "active"
<1>1. CASE RevokeSession(s)
  <2>1. RowsOK'
    BY <1>1, EndTypes DEF RevokeSession, Typed, RowsOK
  <2>2. Ends
    <3>1. password' >= password /\ password' \in Passwords /\ UNCHANGED cut
      BY SessionAssumption DEF Typed, RowsOK, Passwords
    <3> QED BY <1>1, <3>1, EndIsEnds DEF RevokeSession, Typed
  <2>3. session'[s].status # "active"
    BY <1>1 DEF RevokeSession, EndSessions, Revoked, Active, Typed, RowsOK, SessionRow
  <2> QED BY <2>1, <2>2, <2>3, KeepsAll DEF Typed
<1>2. CASE UNCHANGED <<session, token>>
  <2>1. Same
    BY <1>2 DEF Same
  <2>2. RevokeSession(s) => session'[s].status # "active"
    BY DEF RevokeSession, EndSessions, Revoked, Active, Typed, RowsOK, SessionRow
  <2> QED BY <2>1, <2>2, SameRows, KeepsAll DEF Typed
<1> QED BY <1>1, <1>2

LEMMA RevokeOutcome ==
  ASSUME Typed, Rows, NEW c \in Calls,
         \/ LoginIssue(c) \/ RefreshIssue(c) \/ Logout(c)
         \/ SwitchIssue(c) \/ SwitchRevokeOld(c) \/ SwitchRollback(c)
  PROVE  Outcome(c)
<1> DEFINE After(x, u) == [call[c] EXCEPT !.step = x, !.unrevoked = u]
<1>1. call[c] \in Call /\ RequestOK(call[c])
  BY DEF Typed, CallShape
<1>2. ASSUME NEW x \in Steps, Goto(c, x)
      PROVE  call' = [call EXCEPT ![c] = After(x, call[c].unrevoked)]
  BY <1>2, <1>1 DEF Goto, Typed, Call
<1>3. ASSUME NEW x \in {"ok", "failed", "issued"}, NEW u \in BOOLEAN, NEW s \in Sessions,
             call' = [call EXCEPT ![c] = After(x, u)],
             UNCHANGED <<password, cut>>,
             RevokeSession(s) \/ UNCHANGED <<session, token>>,
             call[c].op = "refresh" => x # "issued",
             x = "issued" => call[c].op = "switch" /\ call[c].step = "created",
             call[c].op = "refresh" => call[c].step = "rotated",
             call[c].op = "login" => call[c].step = "created",
             call[c].op = "switch" /\ x = "ok" => RevokeSession(s) /\ s = call[c].session,
             call[c].op = "switch" /\ x = "failed" =>
               u \/ (RevokeSession(s) /\ s = call[c].newSession)
      PROVE  Outcome(c)
  <2>1. /\ RowsOK' /\ (Same \/ Ends) /\ Keeps
        /\ RevokeSession(s) => session'[s].status # "active"
    BY <1>3, RevokeEnds
  <2>2. After(x, u) \in Call
    BY <1>1, <1>3 DEF Call, Steps
  <2>3. /\ call' \in [Calls -> Call] /\ call'[c] = After(x, u)
        /\ \A d \in Calls \ {c} : call'[d] = call[d]
    BY <1>3, <2>2 DEF Typed
  <2>4. (RequestOK(call[c]))'
    BY <1>1, <1>3, <2>1, <2>3 DEF RequestOK, Keeps, Issued, Active, Call
  <2> QED BY <2>1, <2>3, <2>4 DEF Outcome
<1>4. CASE LoginIssue(c)
  <2>1. call[c].newSession \in Sessions /\ call[c].op = "login" /\ call[c].step = "created"
    BY <1>1, <1>4 DEF LoginIssue, At, RequestOK
  <2> QED BY <1>1, <1>2, <1>3, <1>4, <2>1 DEF LoginIssue, TryRevoke, Steps, Call
<1>5. CASE RefreshIssue(c)
  <2>1. call[c].session \in Sessions /\ call[c].op = "refresh" /\ call[c].step = "rotated"
    BY <1>1, <1>5 DEF RefreshIssue, At, RequestOK
  <2> QED BY <1>1, <1>2, <1>3, <1>5, <2>1 DEF RefreshIssue, TryRevoke, Steps, Call
<1>6. CASE Logout(c)
  <2>1. call[c].session \in Sessions /\ call[c].op = "logout"
    BY <1>1, <1>6 DEF Logout, At, RequestOK
  <2> QED BY <1>1, <1>2, <1>3, <1>6, <2>1 DEF Logout, Steps, Call
<1>7. CASE SwitchIssue(c)
  <2>1. /\ call[c].op = "switch" /\ call[c].step = "created"
        /\ call[c].newSession \in Sessions /\ UNCHANGED <<password, cut>>
    BY <1>1, <1>7 DEF SwitchIssue, At, RequestOK
  <2>2. CASE Goto(c, "issued") /\ UNCHANGED <<session, token>>
    BY <1>1, <1>2, <1>3, <2>1, <2>2 DEF Steps, Call
  <2>3. CASE Goto(c, "failed") /\ RevokeSession(call[c].newSession)
    BY <1>1, <1>2, <1>3, <2>1, <2>3 DEF Steps, Call
  <2>4. CASE /\ call' = [call EXCEPT ![c].step = "failed", ![c].unrevoked = TRUE]
             /\ UNCHANGED <<session, token>>
    <3>1. call' = [call EXCEPT ![c] = After("failed", TRUE)]
      BY <2>4 DEF Typed, Call
    <3> QED BY <1>3, <2>1, <2>4, <3>1
  <2> QED BY <1>7, <2>2, <2>3, <2>4 DEF SwitchIssue
<1>8. CASE SwitchRevokeOld(c)
  <2>1. call[c].op = "switch" /\ call[c].session \in Sessions
    BY <1>1, <1>8 DEF SwitchRevokeOld, At, RequestOK
  <2> QED BY <1>1, <1>2, <1>3, <1>8, <2>1 DEF SwitchRevokeOld, Steps, Call
<1>9. CASE SwitchRollback(c)
  <2>1. /\ call[c].op = "switch" /\ call[c].newSession \in Sessions
        /\ UNCHANGED <<password, cut>>
    BY <1>1, <1>9 DEF SwitchRollback, At, RequestOK
  <2>2. CASE Goto(c, "failed") /\ RevokeSession(call[c].newSession)
    BY <1>1, <1>2, <1>3, <2>1, <2>2 DEF Steps, Call
  <2>3. CASE /\ call' = [call EXCEPT ![c].step = "failed", ![c].unrevoked = TRUE]
             /\ UNCHANGED <<session, token>>
    <3>1. call' = [call EXCEPT ![c] = After("failed", TRUE)]
      BY <2>3 DEF Typed, Call
    <3> QED BY <1>3, <2>1, <2>3, <3>1
  <2> QED BY <1>9, <2>2, <2>3 DEF SwitchRollback
<1> QED BY <1>4, <1>5, <1>6, <1>7, <1>8, <1>9

LEMMA ReuseOutcome ==
  ASSUME Typed, Rows, NEW c \in Calls, Reuse(c)
  PROVE  Outcome(c)
<1> DEFINE t == call[c].token
           s == token[t].session
<1>1. /\ call[c] \in Call /\ RequestOK(call[c]) /\ Goto(c, "failed")
      /\ call[c].op = "refresh" /\ t \in Tokens /\ s \in Sessions
  BY DEF Reuse, At, Typed, CallShape, RequestOK, Issued, RowsOK, TokenRow
<1>2. /\ EndSessions({s})
      /\ token' = [u \in Tokens |-> [token[u] EXCEPT
                      !.revoked = @ \/ token[u].session = s, !.reused = @ \/ u = t]]
      /\ UNCHANGED <<password, cut>>
  BY DEF Reuse
<1>3. token' \in [Tokens -> TokenRow]
  <2>1. \A u \in Tokens : /\ (token[u].revoked \/ token[u].session = s) \in BOOLEAN
                          /\ (token[u].reused \/ u = t) \in BOOLEAN
    BY Zenon
  <2>2. \A u \in Tokens : token[u] \in TokenRow
    BY DEF Typed, RowsOK
  <2>3. ASSUME NEW u \in Tokens
        PROVE  [token[u] EXCEPT !.revoked = @ \/ token[u].session = s,
                                !.reused = @ \/ u = t] \in TokenRow
    BY <2>1, <2>2 DEF TokenRow
  <2> QED BY <1>2, <2>3
<1>4. RowsOK'
  <2>1. /\ session' \in [Sessions -> SessionRow]
        /\ \A r \in Sessions : session'[r].status # "none" => session'[r].scope \in Scopes
    BY <1>2 DEF EndSessions, Revoked, Active, Typed, RowsOK, SessionRow
  <2> QED BY <1>2, <1>3, <2>1 DEF Typed, RowsOK
<1>5. Ends
  <2>1. \A u \in Tokens :
          /\ token'[u].session = token[u].session
          /\ token'[u].consumed = token[u].consumed
          /\ token[u].revoked => token'[u].revoked
          /\ token[u].session = s => token'[u].revoked
          /\ token[u].session # s => token'[u].revoked = token[u].revoked
          /\ token'[u].reused => token[u].reused \/ u = t
          /\ u # t => token'[u].reused = token[u].reused
    BY <1>2 DEF Typed, RowsOK, TokenRow
  <2>2. \A r \in Sessions :
          /\ session'[r].status = IF r = s THEN Revoked(r).status ELSE session[r].status
          /\ session'[r].born = session[r].born
          /\ session'[r].status = "active" => Active(r)
    BY <1>2 DEF EndSessions, Revoked, Active, Typed, RowsOK, SessionRow
  <2>3. /\ cut' <= password'
        /\ \A r \in Sessions : session'[r].status = "active" => session'[r].born >= cut'
    BY <1>2, <2>2 DEF Rows, CutPast, PasswordCutsOff
  <2>4. EndsAll({s})
    BY <2>1, <2>2, <2>3 DEF EndsAll
  <2> QED BY <1>1, <2>4 DEF Ends
<1>6. Keeps
  BY <1>5, KeepsAll DEF Typed
<1>7. /\ call' \in [Calls -> Call] /\ call'[c] = [call[c] EXCEPT !.step = "failed"]
      /\ \A d \in Calls \ {c} : call'[d] = call[d]
  BY <1>1, GotoTypes DEF Steps
<1>8. (RequestOK(call[c]))'
  BY <1>1, <1>6, <1>7 DEF RequestOK, Keeps, Issued, Active, Call
<1> QED BY <1>4, <1>5, <1>7, <1>8 DEF Outcome

LEMMA RotateOutcome ==
  ASSUME Typed, Rows, NEW c \in Calls, NEW new \in Tokens, Rotate(c, new)
  PROVE  Outcome(c)
<1> DEFINE t == call[c].token
           r == [call[c] EXCEPT !.step = "rotated", !.newToken = new,
                                !.session = token[t].session]
<1>1. /\ call[c] \in Call /\ RequestOK(call[c]) /\ call[c].op = "refresh"
      /\ t \in Tokens /\ token[t].session \in Sessions
  BY DEF Rotate, At, Typed, CallShape, RequestOK, Issued, RowsOK, TokenRow
<1>2. /\ Live(t) /\ Active(token[t].session) /\ ~Issued(new)
      /\ token' = [token EXCEPT ![t].consumed = TRUE, ![new] = NewToken(token[t].session)]
      /\ call' = [call EXCEPT ![c] = r]
      /\ UNCHANGED <<session, password, cut>>
  BY <1>1 DEF Rotate, Exchange, Typed, Call
<1>3. Exchanges
  BY <1>1, <1>2 DEF Exchanges
<1>4. t # new
  BY <1>2 DEF Live
<1>5. /\ token' \in [Tokens -> TokenRow] /\ token'[t].consumed
      /\ token'[t].session = token[t].session
  BY <1>1, <1>2, <1>4 DEF Typed, RowsOK, TokenRow, NewToken
<1>6. RowsOK'
  BY <1>2, <1>5 DEF Typed, RowsOK
<1>7. r \in Call
  BY <1>1 DEF Call, Steps
<1>8. /\ call' \in [Calls -> Call] /\ call'[c] = r
      /\ \A d \in Calls \ {c} : call'[d] = call[d]
  BY <1>2, <1>7 DEF Typed
<1>9. Keeps
  BY <1>3, KeepsAll DEF Typed
<1>10. (RequestOK(call[c]))'
  BY <1>1, <1>5, <1>8, <1>9 DEF RequestOK, Keeps, Issued, Active, Call
<1> QED BY <1>3, <1>6, <1>8, <1>10 DEF Outcome

LEMMA ChangeOutcome ==
  ASSUME Typed, Rows, NEW c \in Calls, ChangeSelfPassword(c)
  PROVE  Outcome(c)
<1> DEFINE own == call[c].session
<1>1. /\ call[c] \in Call /\ RequestOK(call[c]) /\ Goto(c, "ok")
      /\ call[c].op = "change" /\ own \in Sessions
  BY DEF ChangeSelfPassword, At, Typed, CallShape, RequestOK
<1>2. /\ password' = password + 1 /\ cut' = password + 1
      /\ password' \in Passwords /\ cut' \in Passwords /\ cut' \in Nat
  BY SessionAssumption DEF ChangeSelfPassword, Typed, RowsOK, Passwords
<1>3. EndTokens(Sessions \ {own})
  BY DEF ChangeSelfPassword
<1>4. session' = [s \in Sessions |->
        IF s # own THEN Revoked(s) ELSE [session[s] EXCEPT !.born = password + 1]]
  BY DEF ChangeSelfPassword
<1>5. \A s \in Sessions :
        /\ session'[s].status = IF s # own THEN Revoked(s).status ELSE session[s].status
        /\ session'[s].status = "active" => s = own /\ session'[s].born = password + 1
  BY <1>4 DEF Revoked, Active, Typed, RowsOK, SessionRow
<1>6. RowsOK'
  <2>1. /\ session' \in [Sessions -> SessionRow]
        /\ \A s \in Sessions : session'[s].status # "none" => session'[s].scope \in Scopes
    BY <1>2, <1>4 DEF Revoked, Active, Typed, RowsOK, SessionRow
  <2>2. EndTokens(Sessions \ {own}) => token' \in [Tokens -> TokenRow]
    <3>1. \A u \in Tokens :
            (token[u].revoked \/ token[u].session \in Sessions \ {own}) \in BOOLEAN
      BY Zenon
    <3>2. \A u \in Tokens : token[u] \in TokenRow
      BY DEF Typed, RowsOK
    <3>3. ASSUME NEW u \in Tokens
          PROVE  [token[u] EXCEPT !.revoked = @ \/ token[u].session \in Sessions \ {own}]
                 \in TokenRow
      BY <3>1, <3>2 DEF TokenRow
    <3> QED BY <3>2, <3>3 DEF EndTokens
  <2> QED BY <1>2, <1>3, <2>1, <2>2 DEF RowsOK
<1>7. Ends
  <2>1. \A u \in Tokens :
          /\ token'[u].session = token[u].session
          /\ token'[u].consumed = token[u].consumed
          /\ token'[u].reused = token[u].reused
          /\ token[u].revoked => token'[u].revoked
          /\ token[u].session \notin Sessions \ {own} => token'[u].revoked = token[u].revoked
    BY <1>3 DEF EndTokens, Typed, RowsOK, TokenRow
  <2>2. \A s \in Sessions : session'[s].status = "active" => session'[s].born >= cut'
    BY <1>2, <1>5
  <2>3. cut' <= password'
    BY <1>2
  <2>4. EndsAll(Sessions \ {own})
    BY <1>5, <2>1, <2>2, <2>3 DEF EndsAll
  <2> QED BY <2>4 DEF Ends
<1>8. Keeps
  BY <1>7, KeepsAll DEF Typed
<1>9. /\ call' \in [Calls -> Call] /\ call'[c] = [call[c] EXCEPT !.step = "ok"]
      /\ \A d \in Calls \ {c} : call'[d] = call[d]
  BY <1>1, GotoTypes DEF Steps
<1>10. (RequestOK(call[c]))'
  BY <1>1, <1>8, <1>9 DEF RequestOK, Keeps, Issued, Active, Call
<1> QED BY <1>6, <1>7, <1>9, <1>10 DEF Outcome

LEMMA ServeOutcome ==
  ASSUME Typed, Rows, NEW c \in Calls, Serve(c)
  PROVE  Outcome(c)
BY MoveOutcome, CreateOutcome, RevokeOutcome, ReuseOutcome, RotateOutcome, ChangeOutcome
   DEF Serve

LEMMA RevocationEnds ==
  ASSUME Typed, Rows, Revocation
  PROVE  RowsOK' /\ Ends /\ UNCHANGED call
<1>1. /\ password >= password /\ password \in Passwords /\ cut \in Passwords
      /\ password < MaxPassword => password + 1 >= password /\ password + 1 \in Passwords
  BY SessionAssumption DEF Typed, RowsOK, Passwords
<1>2. ASSUME NEW s \in Sessions, RevokeSelfSession(s)
      PROVE  RowsOK' /\ Ends /\ UNCHANGED call
  BY <1>1, <1>2, EndTypes, EndIsEnds DEF RevokeSelfSession, RevokeSession, Typed
<1>3. ASSUME NEW G \in SUBSET Scopes, SuspendMember(G)
      PROVE  RowsOK' /\ Ends /\ UNCHANGED call
  BY <1>1, <1>3, EndTypes, EndIsEnds DEF SuspendMember, In, Typed
<1>4. ASSUME NEW g \in Scopes, DisableAppMember(g)
      PROVE  RowsOK' /\ Ends /\ UNCHANGED call
  BY <1>1, <1>4, EndTypes, EndIsEnds DEF DisableAppMember, In, Typed
<1>5. ASSUME NEW g \in Scopes, ResetByCode(g)
      PROVE  RowsOK' /\ Ends /\ UNCHANGED call
  BY <1>1, <1>5, EndTypes, EndIsEnds DEF ResetByCode, In, Typed
<1>6. ASSUME NEW D \in SUBSET Sessions, RemoveSelfDevice(D)
      PROVE  RowsOK' /\ Ends /\ UNCHANGED call
  BY <1>1, <1>6, EndTypes, EndIsEnds DEF RemoveSelfDevice, Typed
<1>7. CASE ResetPassword
  <2>1. RowsOK' /\ UNCHANGED call
    BY <1>1, <1>7, EndTypes DEF ResetPassword, Typed
  <2>2. \A s \in Sessions : /\ session'[s].status = Revoked(s).status
                            /\ session'[s].status # "active"
    BY <1>7 DEF ResetPassword, EndSessions, Revoked, Active, Typed, RowsOK, SessionRow
  <2>3. \A u \in Tokens :
          /\ token'[u].session = token[u].session
          /\ token'[u].consumed = token[u].consumed
          /\ token'[u].reused = token[u].reused
          /\ token[u].revoked => token'[u].revoked
          /\ token[u].session \notin Sessions => token'[u].revoked = token[u].revoked
    BY <1>7 DEF ResetPassword, EndTokens, Typed, RowsOK, TokenRow
  <2>4. cut' <= password'
    BY <1>7, SessionAssumption DEF ResetPassword, Typed, RowsOK, Passwords
  <2>5. EndsAll(Sessions)
    BY <2>2, <2>3, <2>4 DEF EndsAll
  <2> QED BY <2>1, <2>5 DEF Ends
<1> QED BY <1>2, <1>3, <1>4, <1>5, <1>6, <1>7 DEF Revocation

-----------------------------------------------------------------------------
(* The invariant, and what it says. *)

LEMMA InitInv ==
  ASSUME Init
  PROVE  IInv
<1>1. /\ NoCall \in Call /\ NoCall.op = "none" /\ NoCall.newSession = None
      /\ NoCall.newToken = None
  BY SessionAssumption DEF NoCall, Call, Ops, Steps, Passwords
<1>2. NewToken(None) \in TokenRow
  BY DEF NewToken, TokenRow
<1>3. RowsOK
  BY <1>2, SessionAssumption DEF Init, RowsOK, SessionRow, Passwords
<1>4. call \in [Calls -> Call] /\ CallShape /\ OneWinner
  BY <1>1 DEF Init, CallShape, RequestOK, OneWinner
<1>5. \A t \in Tokens : ~Issued(t) /\ ~token[t].reused
  BY DEF Init, Issued, NewToken
<1>6. \A s \in Sessions : ~Active(s)
  BY DEF Init, Active
<1>7. CutPast
  BY DEF Init, CutPast
<1> QED BY <1>3, <1>4, <1>5, <1>6, <1>7
        DEF IInv, Typed, Rows, TokensTied, OneSuccessor, AtMostOneLive, ActiveHasLive,
            ReuseEndsFamily, PasswordCutsOff, Live

\* Only Rotate gives a request a successor, and then no other request has one
\* for the same token, since that token was still live.
LEMMA OneWinnerKept ==
  ASSUME IInv, NEW c \in Calls, SendAny(c) \/ Serve(c)
  PROVE  OneWinner'
<1>1. /\ \A d \in Calls \ {c} : call'[d] = call[d]
      /\ \A d \in Calls : RequestOK(call[d])
  BY SendOutcome, ServeOutcome DEF Outcome, IInv, Typed, CallShape
<1>2. ASSUME \/ call'[c].op # "refresh" \/ call'[c].newToken = None
             \/ /\ call[c].op = "refresh" /\ call'[c].token = call[c].token
                /\ call'[c].newToken = call[c].newToken
      PROVE  OneWinner'
  BY <1>1, <1>2 DEF IInv, OneWinner
<1>3. call[c] \in Call /\ call \in [Calls -> Call]
  BY DEF IInv, Typed
<1>4. ASSUME NEW x \in Steps, Goto(c, x)
      PROVE  OneWinner'
  BY <1>2, <1>3, <1>4 DEF Goto, Call
<1>5. CASE SendAny(c)
  <2>1. ASSUME NEW r, Send(c, r), r.newToken = None
        PROVE  OneWinner'
    BY <1>2, <1>3, <2>1 DEF Send
  <2>2. \A g \in Scopes : SendLogin(c, g) => OneWinner'
    BY <2>1 DEF SendLogin, NoCall
  <2>3. \A t \in Tokens, g \in Scopes : SendRefresh(c, t, g) => OneWinner'
    BY <2>1 DEF SendRefresh, NoCall
  <2>4. \A s \in Sessions : SendChange(c, s) \/ SendLogout(c, s) => OneWinner'
    BY <2>1 DEF SendChange, SendLogout, NoCall
  <2>5. \A s \in Sessions, g \in Scopes : SendSwitch(c, s, g) => OneWinner'
    BY <2>1 DEF SendSwitch, NoCall
  <2> QED BY <1>5, <2>2, <2>3, <2>4, <2>5 DEF SendAny
<1>6. ASSUME NEW s \in Sessions, NEW t \in Tokens, LoginCreate(c, s, t) \/ SwitchCreate(c, s, t)
      PROVE  OneWinner'
  BY <1>2, <1>3, <1>6 DEF LoginCreate, SwitchCreate, At, Call
<1>7. ASSUME NEW new \in Tokens, Rotate(c, new)
      PROVE  OneWinner'
  <2>1. /\ call[c].op = "refresh" /\ ~token[call[c].token].consumed
        /\ call'[c].token = call[c].token
    BY <1>3, <1>7 DEF Rotate, At, Live, Exchange, Call
  <2>2. \A d \in Calls \ {c} :
          call[d].op = "refresh" /\ call[d].token = call[c].token => call[d].newToken = None
    BY <1>1, <2>1 DEF RequestOK
  <2>3. \A d, e \in Calls \ {c} :
          /\ d # e
          /\ call'[d].op = "refresh" /\ call'[e].op = "refresh"
          /\ call'[d].token = call'[e].token
          => call'[d].newToken = None \/ call'[e].newToken = None
    BY <1>1 DEF IInv, OneWinner
  <2> QED BY <1>1, <2>1, <2>2, <2>3 DEF OneWinner
<1>8. CASE LoginVerify(c) \/ LoginIssue(c) \/ Reuse(c) \/ RefreshIssue(c) \/ Authenticate(c)
  BY <1>4, <1>8 DEF LoginVerify, LoginIssue, Reuse, RefreshIssue, Authenticate, Steps
<1>9. CASE SwitchRevokeOld(c) \/ ChangeSelfPassword(c) \/ Logout(c) \/ Fail(c)
  BY <1>4, <1>9 DEF SwitchRevokeOld, ChangeSelfPassword, Logout, Fail, Steps
<1>10. CASE SwitchIssue(c) \/ SwitchRollback(c) \/ ReadPassword(c)
  BY <1>2, <1>3, <1>10 DEF SwitchIssue, SwitchRollback, ReadPassword, Goto, At, Call
<1> QED BY <1>5, <1>6, <1>7, <1>8, <1>9, <1>10 DEF Serve

\* A session gets a token when it is created, or by an exchange while active.
LEMMA RevokedStays ==
  ASSUME Typed, Same \/ Ends \/ Creates \/ Exchanges
  PROVE  StaysRevoked
<1> SUFFICES ASSUME NEW s \in Sessions, session[s].status = "revoked"
             PROVE  /\ session'[s].status = "revoked"
                    /\ \A t \in Tokens : token'[t].session = s => token[t].session = s
  BY DEF StaysRevoked
<1>1. session'[s].status = "revoked"
  BY KeepsAll DEF Keeps, Typed
<1>2. CASE Same
  BY <1>1, <1>2 DEF Same
<1>3. CASE Ends
  BY <1>1, <1>3 DEF Ends, EndsAll
<1>4. CASE Creates
  BY <1>1, <1>4 DEF Creates, CreateSession, NewToken, Typed, RowsOK
<1>5. CASE Exchanges
  <2>1. PICK t \in Tokens, new \in Tokens :
          /\ token[t].session # s
          /\ token' = [token EXCEPT ![t].consumed = TRUE,
                                    ![new] = NewToken(token[t].session)]
    BY <1>5 DEF Exchanges, Active
  <2>2. \A u \in Tokens : u # new => token'[u].session = token[u].session
    BY <2>1 DEF Typed, RowsOK, TokenRow
  <2>3. token'[new].session # s
    BY <2>1 DEF NewToken, Typed, RowsOK
  <2> QED BY <1>1, <2>2, <2>3
<1> QED BY <1>2, <1>3, <1>4, <1>5

LEMMA ActInv ==
  ASSUME IInv, NEW c \in Calls, SendAny(c) \/ Serve(c)
  PROVE  IInv' /\ StaysRevoked
<1>1. Outcome(c)
  BY SendOutcome, ServeOutcome DEF IInv
<1>2. Keeps
  BY <1>1, KeepsAll DEF Outcome, IInv, Typed
<1>3. CallShape'
  BY <1>1, <1>2, OneCall DEF Outcome, IInv
<1>4. Rows'
  BY <1>1, RowsKept DEF Outcome, IInv, Typed
<1>5. StaysRevoked
  BY <1>1, RevokedStays DEF Outcome, IInv
<1> QED BY <1>1, <1>3, <1>4, <1>5, OneWinnerKept DEF IInv, Typed, Outcome

LEMMA RevocationInv ==
  ASSUME IInv, Revocation
  PROVE  IInv' /\ StaysRevoked
<1>1. RowsOK' /\ Ends /\ UNCHANGED call
  BY RevocationEnds DEF IInv
<1>2. Keeps
  BY <1>1, KeepsAll DEF IInv, Typed
<1>3. CallShape'
  <2>1. ASSUME NEW c \in Calls
        PROVE  (RequestOK(call[c]))'
    <3>1. call'[c] = call[c] /\ RequestOK(call[c])
      BY <1>1 DEF IInv, Typed, CallShape
    <3>2. \A s \in Sessions :
            /\ session[s].status # "none" => session'[s].status # "none"
            /\ session[s].status # "none" /\ ~Active(s) => session'[s].status = "revoked"
      BY <1>2 DEF Keeps, Active, IInv, Typed, RowsOK, SessionRow
    <3>3. \A t \in Tokens :
            Issued(t) => token'[t].session # None /\ (token[t].consumed => token'[t].consumed)
      BY <1>2 DEF Keeps, Issued
    <3> QED BY <3>1, <3>2, <3>3 DEF RequestOK, Issued, Active
  <2> QED BY <2>1 DEF CallShape
<1>4. Rows'
  BY <1>1, RowsKept DEF IInv, Typed
<1>5. OneWinner'
  BY <1>1 DEF IInv, OneWinner
<1>6. StaysRevoked
  BY <1>1, RevokedStays DEF IInv
<1> QED BY <1>1, <1>3, <1>4, <1>5, <1>6 DEF IInv, Typed

LEMMA StutterInv ==
  ASSUME IInv, UNCHANGED vars
  PROVE  IInv'
<1>1. Same /\ UNCHANGED call
  BY DEF vars, Same
<1>2. RowsOK'
  BY <1>1, SameRows DEF IInv, Typed
<1>3. Rows'
  BY <1>1, <1>2, RowsKept DEF IInv, Typed
<1>4. CallShape'
  BY <1>1 DEF IInv, Typed, CallShape, RequestOK, Same, Issued, Active
<1> QED BY <1>1, <1>2, <1>3, <1>4 DEF IInv, Typed, OneWinner

LEMMA NextInv ==
  ASSUME IInv, [Next]_vars
  PROVE  IInv'
BY ActInv, RevocationInv, StutterInv DEF Next

LEMMA InvSays ==
  ASSUME IInv
  PROVE  TypeOK /\ SwitchLeavesOne
BY DEF IInv, Typed, RowsOK, CallShape, RequestOK, TypeOK, SwitchLeavesOne

(* Whatever the server and its clients do, the invariant holds.             *)
THEOREM ServerInvariant == Spec => []IInv
<1>1. Init => IInv
  BY InitInv
<1>2. IInv /\ [Next]_vars => IInv'
  BY NextInv
<1> QED BY <1>1, <1>2, PTL DEF Spec

(* The rows of iam and the requests always have their types.                *)
THEOREM ServerTypes == Spec => []TypeOK
<1>1. IInv => TypeOK
  BY InvSays
<1> QED BY <1>1, ServerInvariant, PTL

(* RotateRefreshToken: two requests with one refresh token do not both get  *)
(* a successor, however many requests there are and whenever they run.      *)
THEOREM RefreshHasOneWinner == Spec => []OneWinner
<1>1. IInv => OneWinner
  BY DEF IInv
<1> QED BY <1>1, ServerInvariant, PTL

(* Rotation and revocation: a session has at most one token that can be     *)
(* exchanged, and an active one has one.                                    *)
THEOREM TokensFollowSessions == Spec => []OneSuccessor
<1>1. IInv => OneSuccessor
  BY DEF IInv, Rows
<1> QED BY <1>1, ServerInvariant, PTL

(* Reuse detection: once a consumed token came back, its session and every  *)
(* token of it are of no use.                                               *)
THEOREM ReuseIsFinal == Spec => []ReuseEndsFamily
<1>1. IInv => ReuseEndsFamily
  BY DEF IInv, Rows
<1> QED BY <1>1, ServerInvariant, PTL

(* A change of the password ends every session that existed before it, save *)
(* the changer's own.                                                       *)
THEOREM PasswordEndsOthers == Spec => []PasswordCutsOff
<1>1. IInv => PasswordCutsOff
  BY DEF IInv, Rows
<1> QED BY <1>1, ServerInvariant, PTL

(* SwitchTenant: one session is left, or the handler has said it could not  *)
(* undo.                                                                    *)
THEOREM SwitchLeavesOneSession == Spec => []SwitchLeavesOne
<1>1. IInv => SwitchLeavesOne
  BY InvSays
<1> QED BY <1>1, ServerInvariant, PTL

(* No step brings a revoked session back or gives it another token.         *)
THEOREM RevocationIsFinal == Spec => RevokedForGood
<1>1. IInv /\ [Next]_vars => [StaysRevoked]_vars
  BY ActInv, RevocationInv DEF Next
<1> QED BY <1>1, ServerInvariant, PTL DEF Spec, RevokedForGood

-----------------------------------------------------------------------------
(* The server implements TokenFamily. *)

FamilyVars == <<FamilyState, TokenOwner, CurrentTokens>>

LEMMA FamilyInit ==
  ASSUME Init
  PROVE  Family!Init
<1>1. FamilyState = [s \in Sessions |-> "none"]
  BY DEF Init, FamilyState
<1>2. TokenOwner = [t \in Tokens |-> None]
  BY DEF Init, TokenOwner, NewToken
<1>3. CurrentTokens = [s \in Sessions |-> {}]
  BY DEF Init, CurrentTokens, Active
<1> QED BY <1>1, <1>2, <1>3 DEF Family!Init

LEMMA FamilySame ==
  ASSUME UNCHANGED <<session, token>>
  PROVE  UNCHANGED FamilyVars
BY DEF FamilyVars, FamilyState, TokenOwner, CurrentTokens, Active, Live, Issued

\* Ending sessions ends their families, with or without their tokens.
LEMMA FamilyEnds ==
  ASSUME RowsOK, RowsOK', Ends
  PROVE  Family!Next
<1>1. PICK S \in SUBSET Sessions : EndsAll(S)
  BY DEF Ends
<1>2. FamilyState' = [s \in Sessions |-> IF s \in S /\ FamilyState[s] = "active"
                                           THEN "revoked" ELSE FamilyState[s]]
  <2>1. \A s \in Sessions :
          session'[s].status = IF s \in S /\ session[s].status = "active"
                                 THEN "revoked" ELSE session[s].status
    BY <1>1 DEF EndsAll, Revoked, Active, RowsOK, SessionRow
  <2> QED BY <2>1 DEF FamilyState
<1>3. TokenOwner' = TokenOwner
  BY <1>1 DEF EndsAll, TokenOwner
<1>4. CurrentTokens' = [s \in Sessions |-> IF s \in S THEN {} ELSE CurrentTokens[s]]
  <2>1. ASSUME NEW s \in S PROVE ~(Active(s))'
    BY <1>1, <2>1 DEF EndsAll, Revoked, Active
  <2>2. ASSUME NEW s \in Sessions \ S, NEW t \in Tokens
        PROVE  (Active(s) /\ Live(t) /\ token[t].session = s)'
                 <=> Active(s) /\ Live(t) /\ token[t].session = s
    BY <1>1, <2>2 DEF EndsAll, Active, Live, Issued, Revoked
  <2>3. \A s \in Sessions :
          {t \in Tokens : Active(s) /\ Live(t) /\ token[t].session = s}'
            = IF s \in S THEN {} ELSE CurrentTokens[s]
    BY <2>1, <2>2 DEF CurrentTokens
  <2> QED BY <2>3 DEF CurrentTokens
<1>5. Family!End(S)
  BY <1>2, <1>3, <1>4 DEF Family!End
<1> QED BY <1>5 DEF Family!Next

LEMMA FamilyCreates ==
  ASSUME RowsOK, TokensTied, Creates
  PROVE  Family!Next
<1>1. PICK s \in Sessions, t \in Tokens, g \in Scopes : CreateSession(s, t, g)
  BY DEF Creates
<1>2. /\ session' = [session EXCEPT ![s] = [status |-> "active", scope |-> g, born |-> password]]
      /\ token' = [token EXCEPT ![t] = NewToken(s)]
      /\ session[s].status = "none" /\ token[t].session = None
  BY <1>1 DEF CreateSession, Issued
<1>3. \A u \in Tokens : token[u].session # s
  BY <1>2, SessionAssumption DEF TokensTied, Issued
<1>4. FamilyState[s] = "none" /\ TokenOwner[t] = None
  BY <1>2 DEF FamilyState, TokenOwner
<1>5. FamilyState' = [FamilyState EXCEPT ![s] = "active"]
  BY <1>2 DEF FamilyState, RowsOK
<1>6. TokenOwner' = [TokenOwner EXCEPT ![t] = s]
  BY <1>2 DEF TokenOwner, NewToken, RowsOK
<1>7. CurrentTokens' = [CurrentTokens EXCEPT ![s] = {t}]
  <2>1. ASSUME NEW u \in Tokens
        PROVE  (Active(s) /\ Live(u) /\ token[u].session = s)' <=> u = t
    BY <1>2, <1>3, SessionAssumption DEF Active, Live, Issued, NewToken, RowsOK
  <2>2. ASSUME NEW r \in Sessions \ {s}, NEW u \in Tokens
        PROVE  (Active(r) /\ Live(u) /\ token[u].session = r)'
                 <=> Active(r) /\ Live(u) /\ token[u].session = r
    BY <1>2, SessionAssumption DEF Active, Live, Issued, NewToken, RowsOK
  <2>3. \A r \in Sessions :
          {u \in Tokens : Active(r) /\ Live(u) /\ token[u].session = r}'
            = IF r = s THEN {t} ELSE CurrentTokens[r]
    BY <2>1, <2>2 DEF CurrentTokens
  <2> QED BY <2>3 DEF CurrentTokens
<1>8. Family!Open(s, t)
  BY <1>4, <1>5, <1>6, <1>7 DEF Family!Open
<1> QED BY <1>8 DEF Family!Next

\* The token that is exchanged is the current one: no other is live.
LEMMA FamilyExchanges ==
  ASSUME RowsOK, AtMostOneLive, Exchanges
  PROVE  Family!Next
<1>1. PICK t \in Tokens, new \in Tokens :
        /\ Live(t) /\ Active(token[t].session) /\ ~Issued(new)
        /\ token' = [token EXCEPT ![t].consumed = TRUE, ![new] = NewToken(token[t].session)]
  BY DEF Exchanges
<1>2. PICK s \in Sessions :
        s = token[t].session /\ t # new /\ token[new].session = None /\ session' = session
  BY <1>1 DEF Exchanges, Live, Issued, RowsOK, TokenRow
<1>3. /\ token'[new] = NewToken(s)
      /\ token'[t].session = s /\ token'[t].consumed
      /\ \A u \in Tokens \ {t, new} : token'[u] = token[u]
  BY <1>1, <1>2 DEF RowsOK, TokenRow
<1>4. FamilyState[s] = "active" /\ TokenOwner[new] = None
  BY <1>1, <1>2 DEF FamilyState, TokenOwner, Active
<1>5. CurrentTokens[s] = {t}
  <2>1. \A u \in Tokens : Live(u) /\ token[u].session = s <=> u = t
    BY <1>1, <1>2 DEF AtMostOneLive
  <2> QED BY <1>1, <1>2, <2>1 DEF CurrentTokens
<1>6. FamilyState' = FamilyState
  BY <1>2 DEF FamilyState
<1>7. TokenOwner' = [TokenOwner EXCEPT ![new] = s]
  <2>1. \A u \in Tokens : token'[u].session = IF u = new THEN s ELSE token[u].session
    BY <1>2, <1>3 DEF NewToken
  <2> QED BY <2>1 DEF TokenOwner
<1>8. CurrentTokens' = [CurrentTokens EXCEPT ![s] = {new}]
  <2>1. ASSUME NEW u \in Tokens
        PROVE  (Active(s) /\ Live(u) /\ token[u].session = s)' <=> u = new
    <3>1. u \notin {t, new} => ~(Live(u) /\ token[u].session = s)
      BY <1>1, <1>2 DEF AtMostOneLive
    <3>2. (Active(s))' /\ s # None
      BY <1>1, <1>2, SessionAssumption DEF Active
    <3>3. CASE u \in {t, new}
      BY <1>2, <1>3, <3>2, <3>3 DEF Live, Issued, NewToken
    <3>4. CASE u \notin {t, new}
      BY <1>3, <3>1, <3>4 DEF Live, Issued
    <3> QED BY <3>3, <3>4
  <2>2. ASSUME NEW r \in Sessions \ {s}, NEW u \in Tokens
        PROVE  (Active(r) /\ Live(u) /\ token[u].session = r)'
                 <=> Active(r) /\ Live(u) /\ token[u].session = r
    BY <1>2, <1>3, SessionAssumption DEF Active, Live, Issued, NewToken
  <2>3. \A r \in Sessions :
          {u \in Tokens : Active(r) /\ Live(u) /\ token[u].session = r}'
            = IF r = s THEN {new} ELSE CurrentTokens[r]
    BY <2>1, <2>2 DEF CurrentTokens
  <2> QED BY <2>3 DEF CurrentTokens
<1>9. Family!Exchange(s, t, new)
  BY <1>4, <1>5, <1>6, <1>7, <1>8 DEF Family!Exchange
<1> QED BY <1>2, <1>9 DEF Family!Next

LEMMA FamilyStep ==
  ASSUME IInv, [Next]_vars
  PROVE  [Family!Next]_FamilyVars
<1>1. RowsOK /\ TokensTied /\ AtMostOneLive /\ RowsOK'
  BY NextInv DEF IInv, Typed, Rows, OneSuccessor
<1>2. Same \/ Ends \/ Creates \/ Exchanges
  <2>1. ASSUME NEW c \in Calls, SendAny(c) \/ Serve(c)
        PROVE  Same \/ Ends \/ Creates \/ Exchanges
    BY <2>1, SendOutcome, ServeOutcome DEF IInv, Outcome
  <2>2. CASE Revocation
    BY <2>2, RevocationEnds DEF IInv
  <2>3. CASE UNCHANGED vars
    BY <2>3 DEF vars, Same
  <2> QED BY <2>1, <2>2, <2>3 DEF Next
<1>3. CASE Same
  BY <1>3, FamilySame DEF Same
<1> QED BY <1>1, <1>2, <1>3, FamilyEnds, FamilyCreates, FamilyExchanges

(* The server implements the chain of tokens that TokenFamily describes.    *)
THEOREM FamiliesKept == Spec => KeepsFamilies
<1>1. Init => Family!Init
  BY FamilyInit
<1>2. IInv /\ [Next]_vars => [Family!Next]_<<FamilyState, TokenOwner, CurrentTokens>>
  BY FamilyStep DEF FamilyVars
<1> QED BY <1>1, <1>2, ServerInvariant, PTL DEF Spec, KeepsFamilies, Family!Spec

-----------------------------------------------------------------------------
(* The app is one of the server's clients. *)

\* What the app waits for is what it sent.
AppOK ==
  /\ stored \in Tokens \cup {None}
  /\ access \in Sessions \cup {None}
  /\ coord \in [Coordinators -> Calls \cup {None}]
  /\ signing \in Calls \cup {None} /\ leaving \in Calls \cup {None}
  /\ faults \in 0..MaxFaults
  /\ abandoned \subseteq Tokens /\ shared \subseteq Tokens
  /\ \A k \in Coordinators : coord[k] # None => call[coord[k]].op = "refresh"
  /\ signing # None => call[signing].op = "login"
MInv == IInv /\ AppOK

LEMMA OpStays ==
  ASSUME IInv, [Next]_vars, NEW d \in Calls, call[d].op # "none"
  PROVE  call'[d].op = call[d].op
<1>1. call[d] # NoCall /\ call \in [Calls -> Call]
  BY DEF NoCall, IInv, Typed
<1>2. ASSUME NEW c \in Calls, SendAny(c)
      PROVE  call'[d].op = call[d].op
  <2>1. c # d
    BY <1>1, <1>2 DEF SendAny, SendLogin, SendRefresh, SendSwitch, SendChange, SendLogout, Send
  <2> QED BY <1>2, <2>1, SendOutcome DEF Outcome, IInv
<1>3. ASSUME NEW c \in Calls, Serve(c)
      PROVE  call'[d].op = call[d].op
  <2>1. CASE c # d
    BY <1>3, <2>1, ServeOutcome DEF Outcome, IInv
  <2>2. CASE c = d
    <3>1. call[d] \in Call
      BY <1>1
    <3>2. \A x : Goto(d, x) => call'[d].op = call[d].op
      BY <1>1, <3>1 DEF Goto, Call
    <3>3. ASSUME \/ LoginVerify(d) \/ LoginIssue(d) \/ Reuse(d) \/ RefreshIssue(d)
                 \/ Authenticate(d) \/ SwitchRevokeOld(d) \/ ChangeSelfPassword(d)
                 \/ Logout(d) \/ Fail(d)
          PROVE  call'[d].op = call[d].op
      BY <3>2, <3>3 DEF LoginVerify, LoginIssue, Reuse, RefreshIssue, Authenticate,
                        SwitchRevokeOld, ChangeSelfPassword, Logout, Fail
    <3>4. ASSUME NEW s \in Sessions, NEW t \in Tokens,
                 LoginCreate(d, s, t) \/ SwitchCreate(d, s, t)
          PROVE  call'[d].op = call[d].op
      BY <1>1, <3>1, <3>4 DEF LoginCreate, SwitchCreate, Call
    <3>5. ASSUME SwitchIssue(d) \/ SwitchRollback(d) \/ ReadPassword(d)
          PROVE  call'[d].op = call[d].op
      BY <1>1, <3>1, <3>2, <3>5 DEF SwitchIssue, SwitchRollback, ReadPassword, Call
    <3>6. ASSUME NEW t \in Tokens, Rotate(d, t)
          PROVE  call'[d].op = call[d].op
      BY <1>1, <3>1, <3>6 DEF Rotate, Exchange, Call
    <3> QED BY <1>3, <2>2, <3>3, <3>4, <3>5, <3>6 DEF Serve
  <2> QED BY <2>1, <2>2
<1>4. CASE Revocation
  BY <1>4, RevocationEnds DEF IInv
<1>5. CASE UNCHANGED vars
  BY <1>5 DEF vars
<1> QED BY <1>2, <1>3, <1>4, <1>5 DEF Next

\* An answer carries a token of an existing session.
LEMMA AnswerTyped ==
  ASSUME IInv, NEW c \in Calls, call[c].step = "ok", call[c].op \in {"login", "refresh"}
  PROVE  call[c].newToken \in Tokens
                   /\ token[call[c].newToken].session \in Sessions \cup {None}
BY DEF IInv, Typed, CallShape, RequestOK, RowsOK, TokenRow

LEMMA AppIsClient ==
  ASSUME MInv, [MNext]_mvars
  PROVE  [Next]_vars
<1>1. MobileScope \in Scopes
  BY MobileAssumption
<1>2. ASSUME NEW c \in Calls, Login(c)
      PROVE  Next
  BY <1>1, <1>2 DEF Login, SendAny, Next
<1>3. ASSUME NEW c \in Calls, SignOut(c)
      PROVE  Next
  BY <1>3 DEF SignOut, SendAny, Next, MInv, AppOK
<1>4. ASSUME NEW c \in Calls, NEW k \in Coordinators, Unauthorized(k, c)
      PROVE  Next
  BY <1>1, <1>4 DEF Unauthorized, SendAny, Next, MInv, AppOK
<1>5. ASSUME NEW k \in Coordinators,
             UnauthorizedUnread(k) \/ FinishSuccess(k) \/ FinishFailure(k)
      PROVE  UNCHANGED vars
  BY <1>5 DEF UnauthorizedUnread, FinishSuccess, FinishFailure
<1>6. LoginAnswer \/ SignedOut \/ Restart \/ UNCHANGED mvars => UNCHANGED vars
  BY DEF LoginAnswer, SignedOut, Restart, mvars
<1>7. ServerStep => Next
  BY DEF ServerStep, SendOther, SendAny, Next
<1> QED BY <1>2, <1>3, <1>4, <1>5, <1>6, <1>7 DEF MNext, AppStep

LEMMA AppKept ==
  ASSUME MInv, [MNext]_mvars
  PROVE  AppOK'
<1>1. \A d \in Calls : call[d].op # "none" => call'[d].op = call[d].op
  BY OpStays, AppIsClient DEF MInv
<1>2. /\ \A k \in Coordinators : coord[k] # None =>
           coord[k] \in Calls /\ call'[coord[k]].op = "refresh"
      /\ signing # None => signing \in Calls /\ call'[signing].op = "login"
  BY <1>1 DEF MInv, AppOK
<1>3. ASSUME UNCHANGED app
      PROVE  AppOK'
  BY <1>2, <1>3 DEF app, MInv, AppOK
<1>4. ASSUME NEW c \in Calls, Login(c)
      PROVE  AppOK'
  <2>1. call'[c].op = "login"
    BY <1>4 DEF Login, SendLogin, Send, NoCall, MInv, IInv, Typed
  <2> QED BY <1>2, <1>4, <2>1 DEF Login, MInv, AppOK
<1>5. ASSUME NEW c \in Calls, SignOut(c)
      PROVE  AppOK'
  BY <1>2, <1>5 DEF SignOut, MInv, AppOK
<1>6. ASSUME NEW c \in Calls, NEW k \in Coordinators, Unauthorized(k, c)
      PROVE  AppOK'
  <2>1. call'[c].op = "refresh"
    BY <1>6 DEF Unauthorized, SendRefresh, Send, NoCall, MInv, IInv, Typed
  <2>2. shared' \subseteq Tokens
    BY <1>6 DEF Unauthorized, MInv, AppOK
  <2>3. /\ coord' \in [Coordinators -> Calls \cup {None}]
        /\ \A j \in Coordinators : coord'[j] # None => call'[coord'[j]].op = "refresh"
    BY <1>2, <1>6, <2>1 DEF Unauthorized, MInv, AppOK
  <2> QED BY <1>2, <1>6, <2>2, <2>3 DEF Unauthorized, MInv, AppOK
<1>7. Fault => faults' \in 0..MaxFaults
  BY MobileAssumption DEF Fault, MInv, AppOK
<1>8. ASSUME NEW k \in Coordinators, UnauthorizedUnread(k)
       PROVE  AppOK'
  BY <1>2, <1>7, <1>8 DEF UnauthorizedUnread, Clear, MInv, AppOK
<1>9. ASSUME NEW k \in Coordinators, FinishFailure(k)
      PROVE  AppOK'
  <2>1. coord[k] \in Calls /\ call[coord[k]].token \in Tokens
    BY <1>9 DEF FinishFailure, MInv, AppOK, IInv, Typed, CallShape, RequestOK
  <2>2. /\ abandoned' \subseteq Tokens /\ faults' \in 0..MaxFaults
        /\ stored' \in {stored, None} /\ access' = None
    BY <1>9, <1>7, <2>1 DEF FinishFailure, Clear, ClearFails, MInv, AppOK
  <2> QED BY <1>2, <1>9, <2>2 DEF FinishFailure, MInv, AppOK
<1>10. ASSUME NEW k \in Coordinators, FinishSuccess(k)
      PROVE  AppOK'
  <2>1. coord[k] \in Calls /\ call[coord[k]].op = "refresh" /\ call[coord[k]].step = "ok"
    BY <1>10 DEF FinishSuccess, Answered, MInv, AppOK
  <2>2. stored' \in Tokens /\ access' \in Sessions \cup {None}
    BY <1>10, <2>1, AnswerTyped DEF FinishSuccess, Persist, MInv
  <2> QED BY <1>2, <1>10, <2>2 DEF FinishSuccess, MInv, AppOK
<1>11. CASE LoginAnswer
  <2>1. stored' \in Tokens \cup {None} /\ access' \in Sessions \cup {None}
    BY <1>11, AnswerTyped DEF LoginAnswer, Answered, Persist, MInv, AppOK
  <2> QED BY <1>2, <1>11, <2>1 DEF LoginAnswer, MInv, AppOK
<1>12. CASE SignedOut
  BY <1>2, <1>7, <1>12 DEF SignedOut, Clear, ClearFails, MInv, AppOK
<1>13. CASE Restart
  BY <1>7, <1>13 DEF Restart, MInv, AppOK
<1> QED BY <1>3, <1>4, <1>5, <1>6, <1>8, <1>9, <1>10, <1>11, <1>12, <1>13
        DEF MNext, AppStep, ServerStep, mvars

(* The app and the server together: every behaviour of MobileSession is one *)
(* of Session, so what is proved of the server holds with the app as well.  *)
THEOREM AppRefinesServer == MSpec => Spec
<1>1. MInit => MInv /\ Init
  BY InitInv, MobileAssumption DEF MInit, MInv, AppOK
<1>2. MInv /\ [MNext]_mvars => MInv' /\ [Next]_vars
  BY AppKept, AppIsClient, NextInv DEF MInv
<1> QED BY <1>1, <1>2, PTL DEF MSpec, Spec

(* Served to the app, a session still has one chain of tokens.              *)
THEOREM AppKeepsFamilies == MSpec => KeepsFamilies
BY AppRefinesServer, FamiliesKept

(* The stored credential, the coordinators and what the server holds always *)
(* have their types.                                                        *)
THEOREM MobileTypes == MSpec => []MTypeOK
<1>1. MInit => MInv
  BY InitInv, MobileAssumption DEF MInit, MInv, AppOK
<1>2. MInv /\ [MNext]_mvars => MInv'
  BY AppKept, AppIsClient, NextInv DEF MInv
<1>3. MInv => MTypeOK
  BY InvSays DEF MInv, AppOK, MTypeOK
<1> QED BY <1>1, <1>2, <1>3, PTL DEF MSpec
=============================================================================
