----------------------------- MODULE LoginProofs -----------------------------
(***************************************************************************)
(* Proofs about LoginMethods for any members, values, accounts, requests,  *)
(* codes, tickets and flows.                                               *)
(***************************************************************************)
EXTENDS LoginMethods, TLAPS

(* Shapes *)

\* What the record of a request refers to, in view of the flows fl.
Shaped(r, fl) ==
  /\ r.op \notin {"idle", "callback"} => r.user \in Users
  /\ r.op = "verify" \/ r.at = "proof" => r.item \in Codes
  /\ r.op = "bind" => r.what \in Providers
  /\ r.op = "unbind" => r.what \in Bindings
  /\ r.op = "delete" => r.what \in Bindings \cup {None}
  /\ r.op = "step_up" => r.what \in Resources /\ r.purpose \in Scoped
  /\ r.op = "callback" =>
       /\ r.at \in {"claim", "resolve", "ticket"}
       /\ r.item \in Flows /\ fl[r.item].state # "none"
       /\ r.at # "ticket" =>
            /\ r.what \in Subjects
            /\ fl[r.item].mode \in {"bind", "reauth"} =>
                 r.user = fl[r.item].user /\ r.purpose = fl[r.item].purpose
       /\ r.at = "ticket" =>
            r.what \in Bindings /\ r.user \in Users /\ r.purpose \in Reauthentications
CallShape == \A c \in Calls : Shaped(call[c], flow)

\* A flow of a member names the member, a reauthentication its account.
FlowShape ==
  \A f \in Flows :
    /\ flow[f].mode \in {"bind", "reauth"} => flow[f].user \in Users
    /\ flow[f].mode = "reauth" =>
         flow[f].target \in Bindings /\ flow[f].purpose \in Reauthentications

\* A flow that was begun stays what it is, or is spent.
FlowMoves ==
  \A f \in Flows :
    flow[f].state # "none" =>
      \/ flow'[f] = SpentFlow
      \/ /\ flow'[f].state # "none"
         /\ flow'[f].mode = flow[f].mode /\ flow'[f].provider = flow[f].provider
         /\ flow'[f].user = flow[f].user /\ flow'[f].purpose = flow[f].purpose
         /\ flow'[f].target = flow[f].target

Shape == TypeOK /\ FlowShape /\ CallShape

\* The account a callback asks a ticket for is one that was bound.
Rooted ==
  \A c \in Calls : At(c, {"callback"}, "ticket") => binding[call[c].what].state # "none"

(* Types *)

LEMMA Rows ==
  /\ Idle \in CallRow /\ \A fl : Shaped(Idle, fl)
  /\ NoCode \in CodeRow /\ SpentCode \in CodeRow
  /\ NoTicket \in TicketRow /\ SpentTicket \in TicketRow
  /\ NoFlow \in FlowRow /\ SpentFlow \in FlowRow
BY LoginAssumption DEF Idle, Call, CallRow, Ops, Points, Resources, CodeRow, TicketRow, FlowRow, Shaped

LEMMA FlowsKept ==
  ASSUME UNCHANGED flow
  PROVE  FlowMoves
BY DEF FlowMoves

\* The requests that are not changed keep their shape.
LEMMA ShapeKept ==
  ASSUME TypeOK, CallShape, FlowMoves,
         \A c \in Calls : call'[c] = call[c] \/ Shaped(call'[c], flow')
  PROVE  CallShape'
<1> SUFFICES ASSUME NEW c \in Calls, call'[c] = call[c]
             PROVE  Shaped(call'[c], flow')
  BY DEF CallShape
<1>1. Shaped(call[c], flow)
  BY DEF CallShape
<1>2. call[c].op = "callback" => \/ flow'[call[c].item] = SpentFlow
                                 \/ /\ flow'[call[c].item].state # "none"
                                    /\ flow'[call[c].item].mode = flow[call[c].item].mode
                                    /\ flow'[call[c].item].user = flow[call[c].item].user
                                    /\ flow'[call[c].item].purpose = flow[call[c].item].purpose
  BY <1>1 DEF Shaped, FlowMoves
<1>3. SpentFlow.state # "none" /\ SpentFlow.mode \notin {"bind", "reauth"}
  BY LoginAssumption DEF SpentFlow, Flow, Modes
<1> QED
  BY <1>1, <1>2, <1>3 DEF Shaped

LEMMA BeginTyped ==
  ASSUME TypeOK, NEW c \in Calls, NEW r \in CallRow, Begin(c, r)
  PROVE  /\ call' \in [Calls -> CallRow]
         /\ call'[c] = r /\ \A d \in Calls \ {c} : call'[d] = call[d]
BY DEF TypeOK, Begin

LEMMA GoTyped ==
  ASSUME TypeOK, NEW c \in Calls, NEW point \in Points, Go(c, point)
  PROVE  /\ call' \in [Calls -> CallRow]
         /\ call'[c] = [call[c] EXCEPT !.at = point]
         /\ \A d \in Calls \ {c} : call'[d] = call[d]
<1>1. [call[c] EXCEPT !.at = point] \in CallRow
  BY DEF TypeOK, CallRow
<1> QED
  BY <1>1 DEF TypeOK, Go

LEMMA ReturnTyped ==
  ASSUME TypeOK, NEW c \in Calls, Return(c)
  PROVE  /\ call' \in [Calls -> CallRow]
         /\ call'[c] = Idle /\ \A d \in Calls \ {c} : call'[d] = call[d]
BY Rows DEF TypeOK, Return

LEMMA UseTyped ==
  ASSUME TypeOK, NEW X, X \subseteq Items, Use(X)
  PROVE  used' \subseteq Items /\ twice' \in BOOLEAN /\ revoked' \subseteq Bindings
BY DEF TypeOK, Use

LEMMA TicketItem ==
  ASSUME TypeOK, NEW c \in Calls
  PROVE  TicketOf(c) \subseteq Items
BY DEF TypeOK, CallRow, TicketOf, Items

LEMMA AcceptTyped ==
  ASSUME TypeOK, NEW k \in Codes, Accept(k)
  PROVE  code' \in [Codes -> CodeRow]
BY Rows DEF TypeOK, Accept

LEMMA OpenTyped ==
  ASSUME TypeOK, NEW k \in Codes, code[k].state = "open"
  PROVE  /\ code[k] \in [state : {"open"}, purpose : Purposes, value : Values,
                         user : Users \cup {None}, tries : 0 .. MaxAttempts - 1]
         /\ code[k].value \in Values /\ code[k].user \in Users \cup {None}
         /\ holder[code[k].value] \in Users \cup {None}
<1>1. NoCode.state # "open" /\ SpentCode.state # "open"
  BY DEF NoCode, SpentCode
<1> QED
  BY <1>1 DEF TypeOK, CodeRow

LEMMA RejectTyped ==
  ASSUME TypeOK, NEW k \in Codes, code[k].state = "open", Reject(k)
  PROVE  code' \in [Codes -> CodeRow]
<1>1. ASSUME ~(code[k].tries + 1 >= MaxAttempts)
      PROVE  [code[k] EXCEPT !.tries = @ + 1] \in CodeRow
  BY <1>1, OpenTyped, LoginAssumption DEF CodeRow
<1> QED
  BY <1>1, Rows DEF TypeOK, Reject

LEMMA NewcomerTyped ==
  ASSUME TypeOK, NEW u \in Newcomers
  PROVE  u \in Users /\ member[u] = "none"
<1> DEFINE new == {w \in play.users : member[w] = "none"}
<1>1. new # {} /\ u = CHOOSE w \in new : TRUE
  BY DEF Newcomers
<1>2. u \in new
  BY <1>1
<1>3. play.users \subseteq Users
  BY LoginAssumption DEF TypeOK
<1> QED
  BY <1>2, <1>3

LEMMA BoundTyped ==
  ASSUME TypeOK, NEW b \in Bindings, binding[b].state # "none"
  PROVE  /\ binding[b].user \in Users /\ binding[b].subject \in Subjects
         /\ Provider(b) \in Providers
         /\ [binding[b] EXCEPT !.state = "gone"] \in BindingRow
<1>1. binding[b] \in [state : {"bound", "gone"}, user : Users, subject : Subjects]
  BY DEF TypeOK, BindingRow, NoBinding
<1> QED
  BY <1>1, LoginAssumption DEF BindingRow, Provider

LEMMA InsertTyped ==
  ASSUME TypeOK, NEW u \in Users, NEW s \in Subjects, InsertAccount(u, s)
  PROVE  /\ binding' \in [Bindings -> BindingRow]
         /\ \E b \in Bindings :
              /\ binding[b].state = "none"
              /\ binding' = [binding EXCEPT ![b] = [state |-> "bound", user |-> u,
                                                   subject |-> s]]
<1> DEFINE new == {b \in Bindings : binding[b].state = "none"}
           b == CHOOSE b \in new : TRUE
<1>1. b \in new
  BY DEF InsertAccount
<1>2. binding' = [binding EXCEPT ![b] = [state |-> "bound", user |-> u, subject |-> s]]
  BY DEF InsertAccount
<1> QED
  BY <1>1, <1>2 DEF TypeOK, BindingRow

LEMMA PlayTyped ==
  ASSUME TypeOK
  PROVE  /\ play.users \subseteq Users /\ play.values \subseteq Values
         /\ play.subjects \subseteq Subjects /\ play.purposes \subseteq Purposes
         /\ play.channels \subseteq Types /\ Offered \subseteq Providers
BY LoginAssumption DEF TypeOK, Offered

LEMMA ScopeTyped ==
  ASSUME TypeOK, NEW u \in Users, NEW s \in Scopes(u)
  PROVE  s[1] \in Scoped /\ s[2] \in Resources
<1>1. \A v \in play.values : TypeOf[v] \in Types
  BY PlayTyped, LoginAssumption
<1> QED
  BY <1>1, PlayTyped DEF Scopes, Scoped, Resources, AppleAccounts

LEMMA CallTyped ==
  ASSUME NEW op \in Ops, NEW at \in Points, NEW u \in Users \cup {None},
         NEW p \in Scoped \cup {None}, NEW w \in Resources \cup Subjects,
         NEW k \in Codes \cup Flows \cup {0}, NEW i \in Tickets \cup {0}
  PROVE  Call(op, at, u, p, w, k, i) \in CallRow
BY DEF Call, CallRow

(* Every step keeps the types and the shapes *)

LEMMA NoCall ==
  ASSUME Shape, UNCHANGED <<flow, call>>
  PROVE  FlowShape' /\ CallShape'
BY FlowsKept, ShapeKept DEF Shape, FlowShape

LEMMA OneCall ==
  ASSUME Shape, FlowMoves, NEW c \in Calls, Shaped(call'[c], flow'),
         \A d \in Calls \ {c} : call'[d] = call[d]
  PROVE  CallShape'
BY ShapeKept DEF Shape

LEMMA SameFlows ==
  ASSUME Shape, UNCHANGED flow
  PROVE  FlowShape' /\ FlowMoves
BY FlowsKept DEF Shape, FlowShape

LEMMA CodeTypes ==
  ASSUME Shape, CodeStep
  PROVE  Shape'
<1> USE DEF Shape
<1>1. PICK k \in Codes :
        \/ \E p \in play.purposes, v \in play.values : SendCode(k, p, v)
        \/ WrongCode(k) \/ ResetPasswordWithOTP(k)
        \/ \E u \in Users : RegisterWithOTP(u, k)
  BY DEF CodeStep
<1>2. UNCHANGED <<flow, call>>
  BY <1>1 DEF SendCode, WrongCode, ResetPasswordWithOTP, RegisterWithOTP
<1>3. FlowShape' /\ CallShape'
  BY <1>2, NoCall
<1>4. CASE \E p \in play.purposes, v \in play.values : SendCode(k, p, v)
  <2>1. PICK p \in play.purposes, v \in play.values : SendCode(k, p, v)
    BY <1>4
  <2>2. PICK u \in Recipients(p, v) :
          code' = [j \in Codes |->
                     IF j = k
                       THEN [state |-> "open", purpose |-> p, value |-> v, user |-> u,
                             tries |-> 0]
                     ELSE IF Open(j, p) /\ code[j].value = v THEN SpentCode
                     ELSE code[j]]
    BY <2>1 DEF SendCode
  <2>3. v \in Values /\ p \in Purposes
    BY PlayTyped
  <2>4. u \in Users \cup {None}
    BY <2>3 DEF Recipients, TypeOK
  <2>5. [state |-> "open", purpose |-> p, value |-> v, user |-> u, tries |-> 0] \in CodeRow
    BY <2>3, <2>4, LoginAssumption DEF CodeRow
  <2>6. code' \in [Codes -> CodeRow]
    BY <2>2, <2>5, Rows DEF TypeOK
  <2> QED
    BY <2>1, <2>6, <1>3 DEF TypeOK, SendCode, memberVars, historyVars
<1>5. CASE WrongCode(k)
  <2>1. code' \in [Codes -> CodeRow]
    BY <1>5, RejectTyped DEF WrongCode, Open
  <2> QED
    BY <1>5, <2>1, <1>3 DEF TypeOK, WrongCode, memberVars, historyVars
<1>6. ASSUME Use({<<"code", k>>})
      PROVE  used' \subseteq Items /\ twice' \in BOOLEAN /\ revoked' \subseteq Bindings
  BY <1>6, UseTyped DEF Items
<1>7. CASE ResetPasswordWithOTP(k)
  BY <1>7, <1>6, <1>3, AcceptTyped DEF TypeOK, ResetPasswordWithOTP
<1>8. CASE \E u \in Users : RegisterWithOTP(u, k)
  <2>1. PICK u \in Users : RegisterWithOTP(u, k)
    BY <1>8
  <2>2. member' \in [Users -> {"none", "active", "disabled", "gone"}]
    BY <2>1 DEF TypeOK, RegisterWithOTP
  <2>3. holder' \in [Values -> Users \cup {None}]
    BY <2>1 DEF TypeOK, RegisterWithOTP
  <2> QED
    BY <2>1, <2>2, <2>3, <1>6, <1>3, AcceptTyped DEF TypeOK, RegisterWithOTP
<1> QED
  BY <1>1, <1>4, <1>5, <1>7, <1>8

LEMMA MemberTypes ==
  ASSUME Shape, MemberStep
  PROVE  Shape'
<1> USE DEF Shape
<1>1. UNCHANGED <<flow, call>>
  BY DEF MemberStep, CreateAdminUser, PasswordLogin, SetAdminUserStatus, ReplaceBindings,
         UpdateLoginSettings
<1>2. FlowShape' /\ CallShape'
  BY <1>1, NoCall
<1>3. CASE \E u \in Users, v \in play.values : CreateAdminUser(u, v)
  <2>1. PICK u \in Users, v \in play.values : CreateAdminUser(u, v)
    BY <1>3
  <2>2. /\ member' \in [Users -> {"none", "active", "disabled", "gone"}]
        /\ holder' \in [Values -> Users \cup {None}]
    BY <2>1 DEF TypeOK, CreateAdminUser
  <2> QED
    BY <2>1, <2>2, <1>2 DEF TypeOK, CreateAdminUser, historyVars
<1>4. CASE \E u \in Users : PasswordLogin(u)
  BY <1>4, <1>2 DEF TypeOK, PasswordLogin, historyVars
<1>5. CASE \E u \in Users, status \in {"active", "disabled"} : SetAdminUserStatus(u, status)
  BY <1>5, <1>2 DEF TypeOK, SetAdminUserStatus, historyVars
<1>6. CASE \E p \in Offered : ReplaceBindings(p)
  BY <1>6, <1>2, PlayTyped DEF TypeOK, ReplaceBindings, memberVars, historyVars
<1>7. CASE \E ts \in SUBSET play.channels : UpdateLoginSettings(ts)
  BY <1>7, <1>2, PlayTyped DEF TypeOK, UpdateLoginSettings, memberVars, historyVars
<1> QED
  BY <1>3, <1>4, <1>5, <1>6, <1>7 DEF MemberStep

LEMMA CreateTyped ==
  ASSUME Shape, NEW f \in Flows, NEW r \in FlowRow, CreateFlow(f, r),
         r.mode \in {"bind", "reauth"} => r.user \in Users,
         r.mode = "reauth" => r.target \in Bindings /\ r.purpose \in Reauthentications
  PROVE  flow' \in [Flows -> FlowRow] /\ FlowShape' /\ FlowMoves
<1>1. flow[f].state = "none" /\ flow' = [flow EXCEPT ![f] = r] /\ flow \in [Flows -> FlowRow]
  BY DEF CreateFlow, Turn, Shape, TypeOK
<1>2. flow'[f] = r /\ \A g \in Flows \ {f} : flow'[g] = flow[g]
  BY <1>1
<1>3. FlowMoves
  BY <1>1, <1>2 DEF FlowMoves
<1>4. FlowShape'
  BY <1>2 DEF FlowShape, Shape
<1> QED
  BY <1>1, <1>3, <1>4

LEMMA NewFlow ==
  ASSUME NEW mode \in Modes, NEW p \in Providers, NEW u \in Users \cup {None},
         NEW q \in Reauthentications \cup {None}, NEW b \in Bindings \cup {None}
  PROVE  /\ Flow("open", mode, p, u, q, b) \in FlowRow
         /\ Flow("open", mode, p, u, q, b).mode = mode
         /\ Flow("open", mode, p, u, q, b).user = u
         /\ Flow("open", mode, p, u, q, b).purpose = q
         /\ Flow("open", mode, p, u, q, b).target = b
BY DEF Flow, FlowRow

\* A flow that was begun is moved on to another state.
LEMMA FlowTyped ==
  ASSUME Shape, NEW f \in Flows, flow[f].state \in {"open", "verified", "claimed"},
         NEW state \in {"open", "verified", "claimed"}, NEW s \in Subjects \cup {None},
         \/ flow' = [flow EXCEPT ![f].state = state]
         \/ flow' = [flow EXCEPT ![f].state = state, ![f].subject = s]
  PROVE  flow' \in [Flows -> FlowRow] /\ FlowShape' /\ FlowMoves
<1>1. flow \in [Flows -> FlowRow]
  BY DEF Shape, TypeOK
<1>2. flow[f] \in [state : {"open", "verified", "claimed"}, mode : Modes,
                   provider : Providers, user : Users \cup {None},
                   purpose : Reauthentications \cup {None},
                   target : Bindings \cup {None}, subject : Subjects \cup {None}]
  BY <1>1 DEF FlowRow, NoFlow, SpentFlow, Flow
<1>3. /\ flow'[f] \in FlowRow
      /\ flow'[f].state = state /\ flow'[f].mode = flow[f].mode
      /\ flow'[f].provider = flow[f].provider /\ flow'[f].user = flow[f].user
      /\ flow'[f].purpose = flow[f].purpose /\ flow'[f].target = flow[f].target
  BY <1>1, <1>2 DEF FlowRow
<1>4. \A g \in Flows \ {f} : flow'[g] = flow[g]
  BY <1>1
<1>5. flow' \in [Flows -> FlowRow]
  BY <1>1, <1>3, <1>4
<1>6. FlowMoves
  BY <1>3, <1>4 DEF FlowMoves
<1>7. FlowShape'
  BY <1>3, <1>4 DEF FlowShape, Shape
<1> QED
  BY <1>5, <1>6, <1>7

LEMMA FlowTypes ==
  ASSUME Shape, FlowStep
  PROVE  Shape'
<1>1. PICK f \in Flows :
        \/ \E p \in Offered : AuthorizeLogin(f, p)
        \/ \E u \in Users, b \in Bindings, p \in Reauthentications :
             AuthorizeReauth(f, u, b, p)
        \/ \E s \in play.subjects : GitHubBrowserCallback(f, s)
  BY DEF FlowStep
<1>2. UNCHANGED <<play, memberVars, binding, enabled, code, ticket, call, historyVars>>
  BY <1>1 DEF AuthorizeLogin, AuthorizeReauth, GitHubBrowserCallback, CreateFlow
<1>3. flow' \in [Flows -> FlowRow] /\ FlowShape' /\ FlowMoves
  <2>1. CASE \E p \in Offered : AuthorizeLogin(f, p)
    <3>1. PICK p \in Offered : AuthorizeLogin(f, p)
      BY <2>1
    <3>2. p \in Providers
      BY PlayTyped DEF Shape
    <3>3. CreateFlow(f, Flow("open", "login", p, None, None, None))
      BY <3>1 DEF AuthorizeLogin
    <3> QED
      BY <3>2, <3>3, NewFlow, CreateTyped DEF Modes
  <2>2. CASE \E u \in Users, b \in Bindings, p \in Reauthentications :
               AuthorizeReauth(f, u, b, p)
    <3>1. PICK u \in Users, b \in Bindings, p \in Reauthentications :
            AuthorizeReauth(f, u, b, p)
      BY <2>2
    <3>2. Provider(b) \in Providers
      BY <3>1, BoundTyped DEF Shape, AuthorizeReauth, Mine
    <3>3. CreateFlow(f, Flow("open", "reauth", Provider(b), u, p, b))
      BY <3>1 DEF AuthorizeReauth
    <3> QED
      BY <3>2, <3>3, NewFlow, CreateTyped DEF Modes
  <2>3. CASE \E s \in play.subjects : GitHubBrowserCallback(f, s)
    <3>1. PICK s \in play.subjects : GitHubBrowserCallback(f, s)
      BY <2>3
    <3>2. s \in Subjects
      BY PlayTyped DEF Shape
    <3>3. /\ flow[f].state = "open"
          /\ flow' = [flow EXCEPT ![f].state = "verified", ![f].subject = s]
      BY <3>1 DEF GitHubBrowserCallback
    <3> QED
      BY <3>2, <3>3, FlowTyped
  <2> QED
    BY <1>1, <2>1, <2>2, <2>3
<1>4. TypeOK'
  BY <1>2, <1>3 DEF Shape, TypeOK, memberVars, historyVars
<1>5. CallShape'
  BY <1>2, <1>3, ShapeKept DEF Shape
<1> QED
  BY <1>3, <1>4, <1>5 DEF Shape

LEMMA BegunShape ==
  ASSUME Shape, FlowMoves, NEW c \in Calls, NEW r \in CallRow, Begin(c, r), Shaped(r, flow')
  PROVE  call' \in [Calls -> CallRow] /\ CallShape'
BY BeginTyped, OneCall DEF Shape

LEMMA BeginShape ==
  ASSUME Shape, NEW c \in Calls, NEW r \in CallRow, Begin(c, r), Shaped(r, flow),
         UNCHANGED <<play, memberVars, binding, enabled, flow, historyVars>>,
         code' \in [Codes -> CodeRow], ticket' \in [Tickets -> TicketRow]
  PROVE  Shape'
<1>1. FlowShape' /\ FlowMoves
  BY SameFlows
<1>2. call' \in [Calls -> CallRow] /\ CallShape'
  BY <1>1, BegunShape
<1> QED
  BY <1>1, <1>2 DEF Shape, TypeOK, memberVars, historyVars

LEMMA SpendTypes ==
  ASSUME Shape, NEW c \in Calls, NEW i \in Tickets, NEW op \in Ops, NEW u \in Users,
         NEW p \in Scoped, NEW w \in Resources, NEW k \in Codes \cup Flows \cup {0},
         Spend(c, i, op, u, p, w, k),
         Shaped(Call(op, "commit", u, p, w, k, i), flow)
  PROVE  Shape'
<1>1. Call(op, "commit", u, p, w, k, i) \in CallRow
  BY CallTyped DEF Points
<1>2. ticket' \in [Tickets -> TicketRow]
  BY Rows DEF Shape, TypeOK, Spend, ConsumeStepUpTicket
<1>3. code' \in [Codes -> CodeRow]
  BY DEF Shape, TypeOK, Spend
<1> QED
  BY <1>1, <1>2, <1>3, BeginShape DEF Spend

\* The requests of a signed-in member.
LEMMA AskTypes ==
  ASSUME Shape, NEW c \in Calls, NEW u \in Users,
         \/ \E k \in Codes, s \in Scopes(u) : BeginStepUp(c, u, k, s)
         \/ \E s \in Scopes(u) : StepUpByPassword(c, u, s)
         \/ \E k \in Codes : BeginVerify(c, u, k)
         \/ \E t \in Types : BeginDeleteIdentifier(c, u, t)
         \/ BeginSetPassword(c, u)
         \/ \E p \in Offered : BeginAuthorizeBind(c, u, p)
         \/ \E b \in Bindings : BeginUnbind(c, u, b)
         \/ BeginDeletion(c, u)
  PROVE  Shape'
<1>0. /\ code \in [Codes -> CodeRow] /\ ticket \in [Tickets -> TicketRow]
      /\ \A p \in Offered : p \in Providers
  BY PlayTyped DEF Shape, TypeOK
<1>1. CASE \E k \in Codes, s \in Scopes(u) : BeginStepUp(c, u, k, s)
  <2>1. PICK k \in Codes, s \in Scopes(u) : BeginStepUp(c, u, k, s)
    BY <1>1
  <2> DEFINE r == Call("step_up", "proof", u, s[1], s[2], k, 0)
  <2>2. s[1] \in Scoped /\ s[2] \in Resources
    BY ScopeTyped DEF Shape
  <2>3. r \in CallRow
    BY <2>2, CallTyped DEF Ops, Points
  <2>4. Shaped(r, flow)
    BY <2>2 DEF Shaped, Call
  <2> QED
    BY <1>0, <2>1, <2>3, <2>4, BeginShape DEF BeginStepUp
<1>2. CASE \E s \in Scopes(u) : StepUpByPassword(c, u, s)
  <2>1. PICK s \in Scopes(u) : StepUpByPassword(c, u, s)
    BY <1>2
  <2> DEFINE r == Call("step_up", "ticket", u, s[1], s[2], 0, 0)
  <2>2. s[1] \in Scoped /\ s[2] \in Resources
    BY ScopeTyped DEF Shape
  <2>3. r \in CallRow
    BY <2>2, CallTyped DEF Ops, Points
  <2>4. Shaped(r, flow)
    BY <2>2 DEF Shaped, Call
  <2> QED
    BY <1>0, <2>1, <2>3, <2>4, BeginShape DEF StepUpByPassword
<1>3. CASE \E k \in Codes : BeginVerify(c, u, k)
  <2>1. PICK k \in Codes : BeginVerify(c, u, k)
    BY <1>3
  <2> DEFINE t == TypeOf[code[k].value]
  <2>2. t \in Types
    BY <2>1, OpenTyped, LoginAssumption DEF BeginVerify, Open, Shape
  <2>3. CASE \E i \in Tickets : Spend(c, i, "verify", u, "identifier_change", t, k)
    <3>1. PICK i \in Tickets : Spend(c, i, "verify", u, "identifier_change", t, k)
      BY <2>3
    <3>2. Shaped(Call("verify", "commit", u, "identifier_change", t, k, i), flow)
      BY DEF Shaped, Call
    <3> QED
      BY <2>2, <3>1, <3>2, SpendTypes DEF Ops, Scoped, Resources
  <2>4. CASE Begin(c, Call("verify", "commit", u, None, None, k, 0))
    <3>1. Call("verify", "commit", u, None, None, k, 0) \in CallRow
      BY CallTyped DEF Ops, Points, Resources
    <3>2. Shaped(Call("verify", "commit", u, None, None, k, 0), flow)
      BY DEF Shaped, Call
    <3>3. CASE UNCHANGED <<play, memberVars, binding, enabled, code, ticket, flow, historyVars>>
      BY <1>0, <2>4, <3>1, <3>2, <3>3, BeginShape
    <3> QED
      BY <2>1, <2>3, <3>3 DEF BeginVerify
  <2> QED
    BY <2>1, <2>3, <2>4 DEF BeginVerify
<1>4. CASE \E t \in Types : BeginDeleteIdentifier(c, u, t)
  <2>1. PICK t \in Types, i \in Tickets : Spend(c, i, "drop", u, "identifier_unbind", t, 0)
    BY <1>4 DEF BeginDeleteIdentifier
  <2>2. Shaped(Call("drop", "commit", u, "identifier_unbind", t, 0, i), flow)
    BY DEF Shaped, Call
  <2> QED
    BY <2>1, <2>2, SpendTypes DEF Ops, Scoped, Resources
<1>5. CASE BeginSetPassword(c, u)
  <2>1. PICK i \in Tickets : Spend(c, i, "password", u, "password_bind", "password", 0)
    BY <1>5 DEF BeginSetPassword
  <2>2. Shaped(Call("password", "commit", u, "password_bind", "password", 0, i), flow)
    BY DEF Shaped, Call
  <2> QED
    BY <2>1, <2>2, SpendTypes DEF Ops, Scoped, Resources
<1>6. CASE \E p \in Offered : BeginAuthorizeBind(c, u, p)
  <2>1. PICK p \in Offered, i \in Tickets : Spend(c, i, "bind", u, "oauth_bind", p, 0)
    BY <1>6 DEF BeginAuthorizeBind
  <2>2. p \in Providers /\ Shaped(Call("bind", "commit", u, "oauth_bind", p, 0, i), flow)
    BY <1>0 DEF Shaped, Call
  <2> QED
    BY <2>1, <2>2, SpendTypes DEF Ops, Scoped, Resources
<1>7. CASE \E b \in Bindings : BeginUnbind(c, u, b)
  <2>1. PICK b \in Bindings, i \in Tickets : Spend(c, i, "unbind", u, "oauth_unbind", b, 0)
    BY <1>7 DEF BeginUnbind
  <2>2. Shaped(Call("unbind", "commit", u, "oauth_unbind", b, 0, i), flow)
    BY DEF Shaped, Call
  <2> QED
    BY <2>1, <2>2, SpendTypes DEF Ops, Scoped, Resources
<1>8. CASE BeginDeletion(c, u)
  <2>1. ASSUME NEW b \in Bindings, NEW i \in Tickets,
               Spend(c, i, "delete", u, "account_delete", b, 0)
        PROVE  Shape'
    <3>1. Shaped(Call("delete", "commit", u, "account_delete", b, 0, i), flow)
      BY DEF Shaped, Call
    <3> QED
      BY <2>1, <3>1, SpendTypes DEF Ops, Scoped, Resources
  <2>2. ASSUME Begin(c, Call("delete", "commit", u, None, None, 0, 0)),
               UNCHANGED <<play, memberVars, binding, enabled, code, ticket, flow, historyVars>>
        PROVE  Shape'
    <3>1. Call("delete", "commit", u, None, None, 0, 0) \in CallRow
      BY CallTyped DEF Ops, Points, Resources
    <3>2. Shaped(Call("delete", "commit", u, None, None, 0, 0), flow)
      BY DEF Shaped, Call
    <3> QED
      BY <1>0, <2>2, <3>1, <3>2, BeginShape
  <2> QED
    BY <1>8, <2>1, <2>2 DEF BeginDeletion, AppleAccounts
<1> QED
  BY <1>1, <1>2, <1>3, <1>4, <1>5, <1>6, <1>7, <1>8

\* A flow that is open, verified or claimed.
LEMMA FlowRead ==
  ASSUME Shape, NEW f \in Flows, flow[f].state \in {"open", "verified", "claimed"}
  PROVE  /\ flow[f].mode \in Modes /\ flow[f].provider \in Providers
         /\ flow[f].user \in Users \cup {None}
         /\ flow[f].purpose \in Reauthentications \cup {None}
BY DEF Shape, TypeOK, FlowRow, NoFlow, SpentFlow, Flow

LEMMA CallbackTyped ==
  ASSUME Shape, NEW f \in Flows, flow[f].state \in {"open", "verified", "claimed"},
         NEW s \in Subjects, NEW point \in {"claim", "resolve"}, FlowMoves,
         flow'[f].state # "spent"
  PROVE  LET r == Call("callback", point, flow[f].user, flow[f].purpose, s, f, 0)
         IN  r \in CallRow /\ Shaped(r, flow')
<1>1. /\ flow'[f].state # "none" /\ flow'[f].mode = flow[f].mode
      /\ flow'[f].user = flow[f].user /\ flow'[f].purpose = flow[f].purpose
  BY DEF FlowMoves, SpentFlow, Flow
<1>2. Call("callback", point, flow[f].user, flow[f].purpose, s, f, 0) \in CallRow
  BY FlowRead, CallTyped DEF Ops, Points, Reauthentications, Scoped
<1> QED
  BY <1>1, <1>2, LoginAssumption DEF Shaped, Call

LEMMA BeginTypes ==
  ASSUME Shape, NEW c \in Calls, BeginCall(c)
  PROVE  Shape'
<1>0. /\ code \in [Codes -> CodeRow] /\ ticket \in [Tickets -> TicketRow]
      /\ \A s \in play.subjects : s \in Subjects
  BY PlayTyped DEF Shape, TypeOK
<1>1. CASE \E k \in Codes : OTPLogin(c, k)
  <2>1. PICK k \in Codes : OTPLogin(c, k)
    BY <1>1
  <2> DEFINE u == holder[code[k].value]
             r == Call("login", "session", u, None, None, 0, 0)
  <2>2. u \in Users
    BY <2>1, OpenTyped DEF Shape, OTPLogin, Open, ActiveHolder
  <2>3. r \in CallRow /\ Shaped(r, flow)
    BY <2>2, CallTyped DEF Ops, Points, Resources, Shaped, Call
  <2>4. used' \subseteq Items /\ twice' \in BOOLEAN /\ revoked' \subseteq Bindings
    BY <2>1, UseTyped DEF Shape, OTPLogin, Items
  <2>5. code' \in [Codes -> CodeRow]
    BY <2>1, AcceptTyped DEF Shape, OTPLogin
  <2>6. UNCHANGED <<play, memberVars, binding, enabled, ticket, flow>> /\ Begin(c, r)
    BY <2>1 DEF OTPLogin
  <2>7. FlowShape' /\ FlowMoves
    BY <2>6, SameFlows
  <2>8. call' \in [Calls -> CallRow] /\ CallShape'
    BY <2>3, <2>6, <2>7, BegunShape
  <2> QED
    BY <2>4, <2>5, <2>6, <2>7, <2>8 DEF Shape, TypeOK, memberVars
<1>2. ASSUME NEW f \in Flows, NEW s \in play.subjects, ClaimTicketFlow(c, f, s)
      PROVE  Shape'
  <2> DEFINE r == Call("callback", "resolve", flow[f].user, flow[f].purpose, s, f, 0)
  <2>1. /\ flow[f].state = "verified" /\ flow' = [flow EXCEPT ![f].state = "claimed"]
        /\ Begin(c, r)
        /\ UNCHANGED <<play, memberVars, binding, enabled, code, ticket, historyVars>>
    BY <1>2 DEF ClaimTicketFlow, BeginCallback, historyVars
  <2>2. flow' \in [Flows -> FlowRow] /\ FlowShape' /\ FlowMoves
    BY <2>1, FlowTyped
  <2>3. flow'[f].state # "spent"
    BY <2>1 DEF Shape, TypeOK
  <2>4. r \in CallRow /\ Shaped(r, flow')
    BY <1>0, <2>1, <2>2, <2>3, CallbackTyped
  <2>5. call' \in [Calls -> CallRow] /\ CallShape'
    BY <2>1, <2>2, <2>4, BegunShape
  <2> QED
    BY <2>1, <2>2, <2>5 DEF Shape, TypeOK, memberVars, historyVars
<1>3. ASSUME NEW f \in Flows, NEW s \in play.subjects, VerifyIdentity(c, f, s)
      PROVE  Shape'
  <2> DEFINE r == Call("callback", "claim", flow[f].user, flow[f].purpose, s, f, 0)
  <2>1. /\ flow[f].state \in {"open", "claimed"} /\ UNCHANGED flow
        /\ Begin(c, r)
        /\ UNCHANGED <<play, memberVars, binding, enabled, code, ticket, used, twice>>
    BY <1>3 DEF VerifyIdentity, BeginCallback
  <2>2. revoked' \subseteq Bindings
    BY <1>3 DEF VerifyIdentity, Account, Shape, TypeOK
  <2>3. FlowShape' /\ FlowMoves
    BY <2>1, SameFlows
  <2>4. r \in CallRow /\ Shaped(r, flow')
    BY <1>0, <2>1, <2>3, CallbackTyped
  <2>5. call' \in [Calls -> CallRow] /\ CallShape'
    BY <2>1, <2>3, <2>4, BegunShape
  <2> QED
    BY <2>1, <2>2, <2>3, <2>5 DEF Shape, TypeOK, memberVars
<1> QED
  BY <1>1, <1>2, <1>3, AskTypes DEF BeginCall

LEMMA EndShape ==
  ASSUME Shape, FlowMoves, NEW c \in Calls, Return(c)
  PROVE  call' \in [Calls -> CallRow] /\ CallShape'
BY ReturnTyped, OneCall, Rows DEF Shape

\* Requests on codes, tickets and identifiers.
LEMMA WorkTypes ==
  ASSUME Shape, NEW c \in Calls,
         \/ IssueMobileSession(c) \/ ConsumeStepUpCode(c)
         \/ UpsertIdentifier(c) \/ DeleteIdentifier(c) \/ SetPassword(c) \/ Fail(c)
  PROVE  Shape'
<1>0. UNCHANGED <<play, binding, enabled, ticket, flow>>
  BY DEF IssueMobileSession, ConsumeStepUpCode, UpsertIdentifier, DeleteIdentifier,
         SetPassword, Fail
<1>1. FlowShape' /\ FlowMoves
  BY <1>0, SameFlows
<1>2. ASSUME Return(c)
      PROVE  call' \in [Calls -> CallRow] /\ CallShape'
  BY <1>1, <1>2, EndShape
<1>3. ASSUME NEW X, X \subseteq Items, Use(X)
      PROVE  used' \subseteq Items /\ twice' \in BOOLEAN /\ revoked' \subseteq Bindings
  BY <1>3, UseTyped DEF Shape
<1>4. Shaped(call[c], flow) /\ call[c] \in CallRow
  BY DEF Shape, TypeOK, CallShape
<1>5. CASE IssueMobileSession(c)
  <2>1. signedIn' \subseteq Users
    BY <1>4, <1>5 DEF IssueMobileSession, At, Shaped, Shape, TypeOK
  <2> QED
    BY <1>0, <1>1, <1>2, <1>5, <2>1 DEF IssueMobileSession, Shape, TypeOK, historyVars
<1>6. CASE ConsumeStepUpCode(c)
  <2> DEFINE k == call[c].item
  <2>1. k \in Codes /\ code[k].state = "open" /\ call[c].op = "step_up"
    BY <1>4, <1>6 DEF ConsumeStepUpCode, At, Shaped, Open
  <2>2. code' \in [Codes -> CodeRow]
    BY <1>6, <2>1, AcceptTyped, RejectTyped DEF ConsumeStepUpCode, Shape
  <2>3. used' \subseteq Items /\ twice' \in BOOLEAN /\ revoked' \subseteq Bindings
    BY <1>3, <1>6, <2>1 DEF ConsumeStepUpCode, Items, historyVars, Shape, TypeOK
  <2>4. call' \in [Calls -> CallRow] /\ CallShape'
    <3>1. CASE Go(c, "ticket")
      <4>1. /\ call' \in [Calls -> CallRow] /\ call'[c] = [call[c] EXCEPT !.at = "ticket"]
            /\ \A d \in Calls \ {c} : call'[d] = call[d]
        BY <3>1, GoTyped DEF Shape, Points
      <4>2. Shaped(call'[c], flow')
        BY <1>0, <1>4, <2>1, <4>1 DEF Shaped, CallRow
      <4> QED
        BY <1>1, <4>1, <4>2, OneCall
    <3> QED
      BY <1>2, <1>6, <3>1 DEF ConsumeStepUpCode
  <2> QED
    BY <1>0, <1>1, <1>6, <2>2, <2>3, <2>4 DEF ConsumeStepUpCode, Shape, TypeOK, memberVars
<1>7. CASE UpsertIdentifier(c)
  <2> DEFINE k == call[c].item
  <2>1. k \in Codes /\ code[k].state = "open" /\ call[c].user \in Users
    BY <1>4, <1>7 DEF UpsertIdentifier, At, Shaped, Open
  <2>2. code' \in [Codes -> CodeRow]
    BY <1>7, <2>1, AcceptTyped, RejectTyped DEF UpsertIdentifier, Shape
  <2>3. {<<"code", k>>} \cup TicketOf(c) \subseteq Items
    BY <2>1, TicketItem DEF Items, Shape
  <2>4. used' \subseteq Items /\ twice' \in BOOLEAN /\ revoked' \subseteq Bindings
    BY <1>3, <1>7, <2>3 DEF UpsertIdentifier, historyVars, Shape, TypeOK
  <2>5. holder' \in [Values -> Users \cup {None}]
    BY <1>7, <2>1 DEF UpsertIdentifier, Shape, TypeOK
  <2> QED
    BY <1>0, <1>1, <1>2, <1>7, <2>2, <2>4, <2>5 DEF UpsertIdentifier, Shape, TypeOK
<1>8. CASE DeleteIdentifier(c)
  <2>1. holder' \in [Values -> Users \cup {None}]
    BY <1>8 DEF DeleteIdentifier, Shape, TypeOK
  <2>2. used' \subseteq Items /\ twice' \in BOOLEAN /\ revoked' \subseteq Bindings
    BY <1>3, <1>8, TicketItem DEF DeleteIdentifier, Shape
  <2> QED
    BY <1>0, <1>1, <1>2, <1>8, <2>1, <2>2 DEF DeleteIdentifier, Shape, TypeOK
<1>9. CASE SetPassword(c)
  <2>1. password' \subseteq Users
    BY <1>4, <1>9 DEF SetPassword, At, Shaped, Shape, TypeOK
  <2>2. used' \subseteq Items /\ twice' \in BOOLEAN /\ revoked' \subseteq Bindings
    BY <1>3, <1>9, TicketItem DEF SetPassword, Shape
  <2> QED
    BY <1>0, <1>1, <1>2, <1>9, <2>1, <2>2 DEF SetPassword, Shape, TypeOK
<1>10. CASE Fail(c)
  BY <1>0, <1>1, <1>2, <1>10 DEF Fail, Shape, TypeOK, memberVars, historyVars
<1> QED
  BY <1>5, <1>6, <1>7, <1>8, <1>9, <1>10

LEMMA IssueTypes ==
  ASSUME Shape, Rooted, NEW c \in Calls, NEW i \in Tickets, IssueStepUp(c, i)
  PROVE  Shape'
<1>1. call[c] \in CallRow /\ Shaped(call[c], flow)
  BY DEF Shape, TypeOK, CallShape
<1>2. call[c].user \in Users
  BY <1>1 DEF IssueStepUp, At, Shaped
<1>3. call[c].purpose \in Scoped /\ call[c].what \in Resources
  BY <1>1 DEF IssueStepUp, At, Shaped, Scoped, Reauthentications, Resources
<1>4. call[c].op = "callback" => Provider(call[c].what) \in Providers
  BY <1>1, BoundTyped DEF Shape, Shaped, Rooted, IssueStepUp, At
<1>5. ticket' \in [Tickets -> TicketRow]
  <2> DEFINE m == IF call[c].op = "callback" THEN Provider(call[c].what) ELSE "own"
  <2>1. m \in Providers \cup {"own"}
    BY <1>4
  <2>2. ticket' = [ticket EXCEPT ![i] =
          [state |-> "open", user |-> call[c].user, purpose |-> call[c].purpose,
           what |-> call[c].what, method |-> m]]
    BY DEF IssueStepUp
  <2> HIDE DEF m
  <2> QED
    BY <1>2, <1>3, <2>1, <2>2 DEF TicketRow, Shape, TypeOK
<1>6. FlowShape' /\ FlowMoves
  BY SameFlows DEF IssueStepUp
<1>7. call' \in [Calls -> CallRow] /\ CallShape'
  BY <1>6, EndShape DEF IssueStepUp
<1> QED
  BY <1>5, <1>6, <1>7 DEF IssueStepUp, Shape, TypeOK, memberVars, historyVars

\* Requests on flows and on accounts of providers.
LEMMA AccountTypes ==
  ASSUME Shape, NEW c \in Calls,
         \/ \E f \in Flows : AuthorizeBind(c, f)
         \/ ClaimNativeFlow(c)
         \/ ResolveLogin(c) \/ ResolveRegistration(c) \/ ResolveBind(c) \/ ResolveReauth(c)
         \/ DeleteOAuthAccount(c) \/ ConfirmAccountDeletion(c)
  PROVE  Shape'
<1>1. call[c] \in CallRow /\ Shaped(call[c], flow) /\ TicketOf(c) \subseteq Items
  BY TicketItem DEF Shape, TypeOK, CallShape
<1>2. ASSUME NEW X, X \subseteq Items, Use(X)
      PROVE  used' \subseteq Items /\ twice' \in BOOLEAN /\ revoked' \subseteq Bindings
  BY <1>2, UseTyped DEF Shape
<1>3. CASE \E f \in Flows : AuthorizeBind(c, f)
  <2>1. PICK f \in Flows : AuthorizeBind(c, f)
    BY <1>3
  <2>2. call[c].what \in Providers /\ call[c].user \in Users
    BY <1>1, <2>1 DEF AuthorizeBind, At, Shaped
  <2>3. CreateFlow(f, Flow("open", "bind", call[c].what, call[c].user, None, None))
    BY <2>1 DEF AuthorizeBind
  <2>4. flow' \in [Flows -> FlowRow] /\ FlowShape' /\ FlowMoves
    <3> DEFINE r == Flow("open", "bind", call[c].what, call[c].user, None, None)
    <3>1. r \in FlowRow /\ r.mode = "bind" /\ r.user = call[c].user
      BY <2>2 DEF Flow, FlowRow, Modes
    <3> QED
      BY <2>2, <2>3, <3>1, CreateTyped
  <2>5. call' \in [Calls -> CallRow] /\ CallShape'
    BY <2>1, <2>4, EndShape DEF AuthorizeBind
  <2>6. used' \subseteq Items /\ twice' \in BOOLEAN /\ revoked' \subseteq Bindings
    BY <1>1, <1>2, <2>1 DEF AuthorizeBind
  <2> QED
    BY <2>3, <2>4, <2>5, <2>6 DEF CreateFlow, Shape, TypeOK, memberVars
<1>4. CASE ClaimNativeFlow(c)
  <2> DEFINE f == call[c].item
  <2>1. /\ f \in Flows /\ flow[f].state = "open" /\ call[c].op = "callback"
        /\ call[c].at = "claim" /\ flow' = [flow EXCEPT ![f].state = "claimed"]
        /\ Go(c, "resolve")
    BY <1>1, <1>4 DEF ClaimNativeFlow, At, Shaped
  <2>2. flow' \in [Flows -> FlowRow] /\ FlowShape' /\ FlowMoves
    BY <2>1, FlowTyped
  <2>3. /\ call' \in [Calls -> CallRow] /\ call'[c] = [call[c] EXCEPT !.at = "resolve"]
        /\ \A d \in Calls \ {c} : call'[d] = call[d]
    BY <2>1, GoTyped DEF Shape, Points
  <2>4. flow'[f].state = "claimed"
    BY <2>1 DEF Shape, TypeOK
  <2>5. /\ flow'[f].mode = flow[f].mode /\ flow'[f].user = flow[f].user
        /\ flow'[f].purpose = flow[f].purpose
    BY <2>1, <2>2, <2>4 DEF FlowMoves, SpentFlow, Flow
  <2>6. Shaped(call'[c], flow')
    BY <1>1, <2>1, <2>3, <2>4, <2>5 DEF Shaped, CallRow
  <2>7. CallShape'
    BY <2>2, <2>3, <2>6, OneCall
  <2> QED
    BY <1>4, <2>2, <2>3, <2>7 DEF ClaimNativeFlow, Shape, TypeOK, memberVars, historyVars
<1>5. ASSUME ResolveLogin(c) \/ ResolveRegistration(c) \/ ResolveBind(c) \/ ResolveReauth(c)
      PROVE  Shape'
  <2> DEFINE s == call[c].what
             f == call[c].item
  <2>1. PICK mode \in Modes : Resolves(c, mode)
    BY <1>5 DEF ResolveLogin, ResolveRegistration, ResolveBind, ResolveReauth, Modes
  <2>2. /\ f \in Flows /\ s \in Subjects /\ call[c].op = "callback" /\ flow[f].mode = mode
        /\ mode \in {"bind", "reauth"} =>
             call[c].user = flow[f].user /\ call[c].purpose = flow[f].purpose
    BY <1>1, <2>1 DEF Resolves, At, Shaped
  <2>3. used' \subseteq Items /\ twice' \in BOOLEAN /\ revoked' \subseteq Bindings
    BY <1>2, <2>1, <2>2 DEF Resolves, Items
  <2>4. UNCHANGED <<play, holder, password, enabled, code, ticket, flow>>
    BY <2>1 DEF Resolves
  <2>5. FlowShape' /\ FlowMoves
    BY <2>4, SameFlows
  <2>6. ASSUME Return(c)
        PROVE  call' \in [Calls -> CallRow] /\ CallShape'
    BY <2>5, <2>6, EndShape
  <2>7. CASE ResolveLogin(c)
    <3>1. signedIn' \subseteq Users
      BY <2>7, BoundTyped DEF ResolveLogin, Account, Shape, TypeOK
    <3> QED
      BY <2>3, <2>4, <2>5, <2>6, <2>7, <3>1 DEF ResolveLogin, Shape, TypeOK
  <2>8. CASE ResolveRegistration(c)
    <3>1. PICK u \in Newcomers : /\ member' = [member EXCEPT ![u] = "active"]
                                 /\ signedIn' = signedIn \cup {u}
                                 /\ InsertAccount(u, s)
      BY <2>8 DEF ResolveRegistration
    <3>2. u \in Users
      BY NewcomerTyped DEF Shape
    <3>3. /\ member' \in [Users -> {"none", "active", "disabled", "gone"}]
          /\ signedIn' \subseteq Users
      BY <3>1, <3>2 DEF Shape, TypeOK
    <3>4. binding' \in [Bindings -> BindingRow]
      BY <2>2, <3>1, <3>2, InsertTyped DEF Shape
    <3> QED
      BY <2>3, <2>4, <2>5, <2>6, <2>8, <3>3, <3>4 DEF ResolveRegistration, Shape, TypeOK
  <2>9. CASE ResolveBind(c)
    <3>1. call[c].user \in Users
      BY <2>1, <2>2, <2>9 DEF ResolveBind, Resolves, Shape, FlowShape
    <3>2. binding' \in [Bindings -> BindingRow]
      BY <2>2, <2>9, <3>1, InsertTyped DEF ResolveBind, Shape, TypeOK
    <3> QED
      BY <2>3, <2>4, <2>5, <2>6, <2>9, <3>2 DEF ResolveBind, Shape, TypeOK
  <2>10. CASE ResolveReauth(c)
    <3> DEFINE b == flow[f].target
    <3>1. /\ flow[f].mode = "reauth" /\ UNCHANGED <<member, signedIn, binding>>
          /\ call' = [call EXCEPT ![c].at = "ticket", ![c].what = b]
      BY <2>10 DEF ResolveReauth, Resolves
    <3>2. b \in Bindings /\ flow[f].user \in Users /\ flow[f].purpose \in Reauthentications
      BY <2>2, <3>1 DEF Shape, FlowShape
    <3>3. /\ call'[c] = [call[c] EXCEPT !.at = "ticket", !.what = b]
          /\ \A d \in Calls \ {c} : call'[d] = call[d]
      BY <1>1, <3>1 DEF Shape, TypeOK, CallRow
    <3>4. call[c].user \in Users /\ call[c].purpose \in Reauthentications
      BY <2>2, <3>1, <3>2
    <3>5. /\ call'[c].op = "callback" /\ call'[c].at = "ticket" /\ call'[c].what = b
          /\ call'[c].item = f /\ call'[c].user = call[c].user
          /\ call'[c].purpose = call[c].purpose
      BY <1>1, <2>2, <3>3 DEF CallRow
    <3>6. call'[c] \in CallRow
      BY <1>1, <3>2, <3>3 DEF CallRow, Resources, Points
    <3>7. Shaped(call'[c], flow')
      BY <1>1, <2>2, <2>4, <3>2, <3>4, <3>5 DEF Shaped
    <3>8. call' \in [Calls -> CallRow] /\ CallShape'
      BY <2>5, <3>1, <3>3, <3>6, <3>7, OneCall DEF Shape, TypeOK
    <3> QED
      BY <2>3, <2>4, <2>5, <3>1, <3>8 DEF Shape, TypeOK
  <2> QED
    BY <1>5, <2>7, <2>8, <2>9, <2>10
<1>6. CASE DeleteOAuthAccount(c)
  <2> DEFINE b == call[c].what
  <2>1. /\ b \in Bindings /\ binding[b].state = "bound"
        /\ binding' = [binding EXCEPT ![b].state = "gone"]
        /\ flow' = [f \in Flows |-> IF flow[f].target = b THEN SpentFlow ELSE flow[f]]
    BY <1>1, <1>6 DEF DeleteOAuthAccount, At, Shaped, Unbindable, Mine
  <2>2. binding' \in [Bindings -> BindingRow]
    BY <2>1, BoundTyped DEF Shape, TypeOK
  <2>3. flow' \in [Flows -> FlowRow]
    BY <2>1, Rows DEF Shape, TypeOK
  <2>4. FlowMoves
    BY <2>1 DEF FlowMoves
  <2>5. FlowShape'
    BY <2>1, LoginAssumption DEF FlowShape, Shape, SpentFlow, Flow, Modes
  <2>6. used' \subseteq Items /\ twice' \in BOOLEAN /\ revoked' \subseteq Bindings
    BY <1>1, <1>2, <1>6 DEF DeleteOAuthAccount
  <2>7. call' \in [Calls -> CallRow] /\ CallShape'
    BY <1>6, <2>4, EndShape DEF DeleteOAuthAccount
  <2> QED
    BY <1>6, <2>2, <2>3, <2>5, <2>6, <2>7 DEF DeleteOAuthAccount, Shape, TypeOK, memberVars
<1>7. CASE ConfirmAccountDeletion(c)
  <2> DEFINE u == call[c].user
  <2>1. u \in Users
    BY <1>1, <1>7 DEF ConfirmAccountDeletion, At, Shaped
  <2>2. binding' \in [Bindings -> BindingRow]
    BY <1>7, BoundTyped DEF ConfirmAccountDeletion, Mine, Shape, TypeOK
  <2>3. /\ member' \in [Users -> {"none", "active", "disabled", "gone"}]
        /\ signedIn' \subseteq Users /\ password' \subseteq Users
        /\ holder' \in [Values -> Users \cup {None}]
    BY <1>7, <2>1 DEF ConfirmAccountDeletion, Shape, TypeOK
  <2>4. code' \in [Codes -> CodeRow] /\ ticket' \in [Tickets -> TicketRow]
    BY <1>7, Rows DEF ConfirmAccountDeletion, Shape, TypeOK
  <2>5. flow' = [f \in Flows |-> IF flow[f].user = u THEN SpentFlow ELSE flow[f]]
    BY <1>7 DEF ConfirmAccountDeletion
  <2>6. flow' \in [Flows -> FlowRow] /\ FlowMoves
    BY <2>5, Rows DEF Shape, TypeOK, FlowMoves
  <2>7. FlowShape'
    BY <2>5, LoginAssumption DEF FlowShape, Shape, SpentFlow, Flow, Modes
  <2>8. used' \subseteq Items /\ twice' \in BOOLEAN /\ revoked' \subseteq Bindings
    BY <1>1, <1>2, <1>7 DEF ConfirmAccountDeletion
  <2>9. call' \in [Calls -> CallRow] /\ CallShape'
    BY <1>7, <2>6, EndShape DEF ConfirmAccountDeletion
  <2> QED
    BY <1>7, <2>2, <2>3, <2>4, <2>6, <2>7, <2>8, <2>9 DEF ConfirmAccountDeletion, Shape, TypeOK
<1> QED
  BY <1>3, <1>4, <1>5, <1>6, <1>7

(* Which steps change accounts and requests *)

\* A step of a request is one of these.
LEMMA Steps ==
  ASSUME Next
  PROVE  \/ CodeStep \/ MemberStep \/ FlowStep
         \/ \E c \in Calls :
              \/ BeginCall(c)
              \/ \/ IssueMobileSession(c) \/ ConsumeStepUpCode(c)
                 \/ UpsertIdentifier(c) \/ DeleteIdentifier(c) \/ SetPassword(c) \/ Fail(c)
              \/ \E i \in Tickets : IssueStepUp(c, i)
              \/ \/ \E f \in Flows : AuthorizeBind(c, f)
                 \/ ClaimNativeFlow(c)
                 \/ ResolveLogin(c) \/ ResolveRegistration(c) \/ ResolveBind(c)
                 \/ ResolveReauth(c)
                 \/ DeleteOAuthAccount(c) \/ ConfirmAccountDeletion(c)
BY DEF Next, CallStep

LEMMA BeginFrame ==
  ASSUME NEW c \in Calls, BeginCall(c)
  PROVE  UNCHANGED <<play, memberVars, binding, enabled>>
BY DEF BeginCall, OTPLogin, ClaimTicketFlow, VerifyIdentity, BeginCallback, BeginStepUp,
       StepUpByPassword, BeginVerify, BeginDeleteIdentifier, BeginSetPassword,
       BeginAuthorizeBind, BeginUnbind, BeginDeletion, Spend

LEMMA Accounts ==
  ASSUME Next
  PROVE  \/ UNCHANGED binding
         \/ \E c \in Calls : \/ ResolveRegistration(c) \/ ResolveBind(c)
                             \/ DeleteOAuthAccount(c) \/ ConfirmAccountDeletion(c)
<1>1. CodeStep \/ MemberStep \/ FlowStep => UNCHANGED binding
  BY DEF CodeStep, MemberStep, FlowStep, SendCode, WrongCode, ResetPasswordWithOTP,
         RegisterWithOTP, CreateAdminUser, PasswordLogin, SetAdminUserStatus,
         ReplaceBindings, UpdateLoginSettings, AuthorizeLogin, AuthorizeReauth,
         GitHubBrowserCallback, CreateFlow
<1>2. ASSUME NEW c \in Calls, NEW i \in Tickets, IssueStepUp(c, i)
      PROVE  UNCHANGED binding
  BY <1>2 DEF IssueStepUp
<1>3. ASSUME NEW c \in Calls, NEW f \in Flows, AuthorizeBind(c, f)
      PROVE  UNCHANGED binding
  BY <1>3 DEF AuthorizeBind, CreateFlow
<1>4. ASSUME NEW c \in Calls,
             \/ IssueMobileSession(c) \/ ConsumeStepUpCode(c) \/ UpsertIdentifier(c)
             \/ DeleteIdentifier(c) \/ SetPassword(c) \/ Fail(c)
             \/ ClaimNativeFlow(c) \/ ResolveLogin(c) \/ ResolveReauth(c)
      PROVE  UNCHANGED binding
  BY <1>4 DEF IssueMobileSession, ConsumeStepUpCode, UpsertIdentifier, DeleteIdentifier,
     SetPassword, Fail, ClaimNativeFlow, ResolveLogin, ResolveReauth
<1> QED
  BY <1>1, <1>2, <1>3, <1>4, BeginFrame, Steps

\* An account stays the account of its user and its subject.
AccountMoves ==
  \A b \in Bindings :
    binding[b].state # "none" =>
      /\ binding'[b].state # "none"
      /\ binding'[b].user = binding[b].user /\ binding'[b].subject = binding[b].subject

LEMMA AccountsMove ==
  ASSUME Shape, [Next]_vars
  PROVE  AccountMoves
<1>1. UNCHANGED binding => AccountMoves
  BY DEF AccountMoves
<1>2. UNCHANGED vars => UNCHANGED binding
  BY DEF vars
<1>3. ASSUME NEW u \in Users, NEW s \in Subjects, InsertAccount(u, s)
      PROVE  AccountMoves
  BY <1>3, InsertTyped DEF AccountMoves, Shape, TypeOK
<1>4. ASSUME NEW c \in Calls, ResolveRegistration(c) \/ ResolveBind(c)
      PROVE  AccountMoves
  <2>1. PICK mode \in {"login", "bind"} : Resolves(c, mode)
    BY <1>4 DEF ResolveRegistration, ResolveBind
  <2>2. /\ call[c].what \in Subjects
        /\ mode = "bind" => call[c].user \in Users
    BY <2>1 DEF Resolves, At, Shape, CallShape, FlowShape, Shaped
  <2>3. CASE ResolveRegistration(c)
    BY <1>3, <2>2, <2>3, NewcomerTyped DEF ResolveRegistration, Shape
  <2>4. CASE ResolveBind(c)
    <3>1. call[c].user \in Users
      BY <2>4 DEF ResolveBind, Resolves, At, Shape, CallShape, FlowShape, Shaped
    <3> QED
      BY <1>1, <1>3, <2>2, <2>4, <3>1 DEF ResolveBind
  <2> QED
    BY <1>4, <2>3, <2>4
<1>5. ASSUME NEW c \in Calls, DeleteOAuthAccount(c) \/ ConfirmAccountDeletion(c)
      PROVE  AccountMoves
  <2>1. ASSUME NEW b \in Bindings, binding[b].state # "none"
        PROVE  binding'[b] = binding[b] \/ binding'[b] = [binding[b] EXCEPT !.state = "gone"]
    BY <1>5, <2>1 DEF DeleteOAuthAccount, ConfirmAccountDeletion, Shape, TypeOK
  <2>2. ASSUME NEW b \in Bindings, binding[b].state # "none"
        PROVE  binding[b] \in [state : {"bound", "gone"}, user : Users, subject : Subjects]
    BY <2>2 DEF Shape, TypeOK, BindingRow, NoBinding
  <2> QED
    BY <2>1, <2>2 DEF AccountMoves
<1> QED
  BY <1>1, <1>2, <1>4, <1>5, Accounts

\* A request begins when there is none.
LEMMA Begun ==
  ASSUME Shape, NEW c \in Calls, BeginCall(c)
  PROVE  \E r : Begin(c, r) /\ call'[c] = r /\ \A d \in Calls \ {c} : call'[d] = call[d]
<1>1. \E r : Begin(c, r)
  BY DEF BeginCall, OTPLogin, ClaimTicketFlow, VerifyIdentity, BeginCallback, BeginStepUp,
     StepUpByPassword, BeginVerify, BeginDeleteIdentifier, BeginSetPassword,
     BeginAuthorizeBind, BeginUnbind, BeginDeletion, Spend
<1> QED
  BY <1>1 DEF Begin, Shape, TypeOK

\* The only steps that leave a request other than it was and not ended.
LEMMA CallMoves ==
  ASSUME Shape, Next, NEW d \in Calls, call'[d] # call[d]
  PROVE  /\ \A e \in Calls \ {d} : call'[e] = call[e]
         /\ \/ call'[d] = Idle
            \/ BeginCall(d)
            \/ ConsumeStepUpCode(d) /\ call'[d] = [call[d] EXCEPT !.at = "ticket"]
            \/ ClaimNativeFlow(d) /\ call'[d] = [call[d] EXCEPT !.at = "resolve"]
            \/ /\ ResolveReauth(d)
               /\ call'[d] = [call[d] EXCEPT !.at = "ticket",
                                             !.what = flow[call[d].item].target]
<1> DEFINE Moved(c) ==
             /\ \A e \in Calls \ {c} : call'[e] = call[e]
             /\ \/ call'[c] = Idle
                \/ BeginCall(c)
                \/ ConsumeStepUpCode(c) /\ call'[c] = [call[c] EXCEPT !.at = "ticket"]
                \/ ClaimNativeFlow(c) /\ call'[c] = [call[c] EXCEPT !.at = "resolve"]
                \/ /\ ResolveReauth(c)
                   /\ call'[c] = [call[c] EXCEPT !.at = "ticket",
                                                 !.what = flow[call[c].item].target]
<1>1. CodeStep \/ MemberStep \/ FlowStep => UNCHANGED call
  BY DEF CodeStep, MemberStep, FlowStep, SendCode, WrongCode, ResetPasswordWithOTP,
         RegisterWithOTP, CreateAdminUser, PasswordLogin, SetAdminUserStatus,
         ReplaceBindings, UpdateLoginSettings, AuthorizeLogin, AuthorizeReauth,
         GitHubBrowserCallback
<1>2. ASSUME NEW c \in Calls, Return(c)
      PROVE  Moved(c)
  BY <1>2, ReturnTyped DEF Shape
<1>3. ASSUME NEW c \in Calls, BeginCall(c)
      PROVE  Moved(c)
  BY <1>3, Begun
<1>4. ASSUME NEW c \in Calls, NEW i \in Tickets, IssueStepUp(c, i)
      PROVE  Moved(c)
  BY <1>2, <1>4 DEF IssueStepUp
<1>5. ASSUME NEW c \in Calls, NEW f \in Flows, AuthorizeBind(c, f)
      PROVE  Moved(c)
  BY <1>2, <1>5 DEF AuthorizeBind
<1>6. ASSUME NEW c \in Calls,
             \/ IssueMobileSession(c) \/ UpsertIdentifier(c) \/ DeleteIdentifier(c)
             \/ SetPassword(c) \/ Fail(c) \/ ResolveLogin(c) \/ ResolveRegistration(c)
             \/ ResolveBind(c) \/ DeleteOAuthAccount(c) \/ ConfirmAccountDeletion(c)
      PROVE  Moved(c)
  <2>1. Return(c)
    BY <1>6 DEF IssueMobileSession, UpsertIdentifier, DeleteIdentifier, SetPassword, Fail,
       ResolveLogin, ResolveRegistration, ResolveBind, DeleteOAuthAccount,
       ConfirmAccountDeletion
  <2> QED
    BY <1>2, <2>1
<1>7. ASSUME NEW c \in Calls, ConsumeStepUpCode(c)
      PROVE  Moved(c)
  <2>1. Go(c, "ticket") \/ Return(c)
    BY <1>7 DEF ConsumeStepUpCode
  <2>2. CASE Go(c, "ticket")
    BY <1>7, <2>2, GoTyped DEF Shape, Points
  <2> QED
    BY <1>2, <2>1, <2>2
<1>8. ASSUME NEW c \in Calls, ClaimNativeFlow(c)
      PROVE  Moved(c)
  BY <1>8, GoTyped DEF ClaimNativeFlow, Shape, Points
<1>9. ASSUME NEW c \in Calls, ResolveReauth(c)
      PROVE  Moved(c)
  BY <1>9 DEF ResolveReauth, Shape, TypeOK, CallRow
<1>10. \E c \in Calls : Moved(c)
  <2> HIDE DEF Moved
  <2>1. UNCHANGED call => call'[d] = call[d]
    OBVIOUS
  <2> QED
    BY <1>1, <1>3, <1>4, <1>5, <1>6, <1>7, <1>8, <1>9, <2>1, Steps
<1>11. PICK c \in Calls : Moved(c)
  BY <1>10
<1>12. c = d
  BY <1>11
<1> QED
  BY <1>11, <1>12

\* A callback that is begun verified an identity or spent a ticket of the browser.
LEMMA CallbackBegun ==
  ASSUME Shape, NEW c \in Calls, BeginCall(c), call'[c].op = "callback"
  PROVE  \E f \in Flows, s \in play.subjects :
           \/ /\ ClaimTicketFlow(c, f, s)
              /\ call'[c] = Call("callback", "resolve", flow[f].user, flow[f].purpose, s, f, 0)
           \/ /\ VerifyIdentity(c, f, s)
              /\ call'[c] = Call("callback", "claim", flow[f].user, flow[f].purpose, s, f, 0)
<1>1. ASSUME NEW op, NEW at, NEW u, NEW p, NEW w, NEW k, NEW i,
             Begin(c, Call(op, at, u, p, w, k, i))
      PROVE  call'[c] = Call(op, at, u, p, w, k, i) /\ call'[c].op = op
  BY <1>1 DEF Begin, Call, Shape, TypeOK
<1>2. ASSUME NEW f \in Flows, NEW s \in play.subjects, ClaimTicketFlow(c, f, s)
      PROVE  call'[c] = Call("callback", "resolve", flow[f].user, flow[f].purpose, s, f, 0)
  BY <1>1, <1>2 DEF ClaimTicketFlow, BeginCallback
<1>3. ASSUME NEW f \in Flows, NEW s \in play.subjects, VerifyIdentity(c, f, s)
      PROVE  call'[c] = Call("callback", "claim", flow[f].user, flow[f].purpose, s, f, 0)
  BY <1>1, <1>3 DEF VerifyIdentity, BeginCallback
<1>4. ASSUME NEW u \in Users,
             \/ \E k \in Codes, s \in Scopes(u) : BeginStepUp(c, u, k, s)
             \/ \E s \in Scopes(u) : StepUpByPassword(c, u, s)
             \/ \E k \in Codes : BeginVerify(c, u, k)
             \/ \E t \in Types : BeginDeleteIdentifier(c, u, t)
             \/ BeginSetPassword(c, u)
             \/ \E p \in Offered : BeginAuthorizeBind(c, u, p)
             \/ \E b \in Bindings : BeginUnbind(c, u, b)
             \/ BeginDeletion(c, u)
      PROVE  FALSE
  BY <1>1, <1>4 DEF BeginStepUp, StepUpByPassword, BeginVerify, BeginDeleteIdentifier,
     BeginSetPassword, BeginAuthorizeBind, BeginUnbind, BeginDeletion, Spend
<1>5. ASSUME NEW k \in Codes, OTPLogin(c, k)
      PROVE  FALSE
  BY <1>1, <1>5 DEF OTPLogin
<1> QED
  BY <1>2, <1>3, <1>4, <1>5 DEF BeginCall

LEMMA RootedKept ==
  ASSUME Shape, Rooted, [Next]_vars
  PROVE  Rooted'
<1> SUFFICES ASSUME NEW c \in Calls, At(c, {"callback"}, "ticket")'
             PROVE  binding'[call'[c].what].state # "none"
  BY DEF Rooted
<1>1. AccountMoves
  BY AccountsMove
<1>2. Shaped(call[c], flow) /\ call[c] \in CallRow
  BY DEF Shape, TypeOK, CallShape
<1>3. CASE call'[c] = call[c]
  BY <1>1, <1>2, <1>3 DEF Rooted, At, AccountMoves, Shaped
<1>4. CASE call'[c] # call[c]
  <2>1. Next
    BY <1>4 DEF vars
  <2>2. CASE call'[c] = Idle
    BY <2>2 DEF At, Idle, Call
  <2>3. CASE BeginCall(c)
    <3>1. call'[c].op = "callback" /\ call'[c].at = "ticket"
      BY DEF At
    <3>2. call'[c].at \in {"resolve", "claim"}
      <4>1. PICK point \in {"resolve", "claim"}, f \in Flows, s \in play.subjects :
              call'[c] = Call("callback", point, flow[f].user, flow[f].purpose, s, f, 0)
        BY <2>3, <3>1, CallbackBegun
      <4> QED
        BY <4>1 DEF Call
    <3> QED
      BY <3>1, <3>2
  <2>4. CASE ConsumeStepUpCode(c) /\ call'[c] = [call[c] EXCEPT !.at = "ticket"]
    BY <1>2, <2>4 DEF ConsumeStepUpCode, At, CallRow
  <2>5. CASE ClaimNativeFlow(c) /\ call'[c] = [call[c] EXCEPT !.at = "resolve"]
    BY <1>2, <2>5 DEF At, CallRow
  <2>6. CASE /\ ResolveReauth(c)
             /\ call'[c] = [call[c] EXCEPT !.at = "ticket",
                                           !.what = flow[call[c].item].target]
    BY <1>2, <2>6 DEF ResolveReauth, Account, CallRow
  <2> QED
    BY <1>4, <2>1, <2>2, <2>3, <2>4, <2>5, <2>6, CallMoves
<1> QED
  BY <1>3, <1>4

LEMMA ShapeInit ==
  ASSUME Init
  PROVE  Shape /\ Rooted
<1>1. enabled \subseteq Providers \cup Types
  <2>1. play.subjects \subseteq Subjects /\ play.channels \subseteq Types
    BY LoginAssumption DEF Init
  <2> QED
    BY <2>1, LoginAssumption DEF Init, Offered
<1>2. TypeOK
  BY <1>1, Rows DEF Init, TypeOK, BindingRow
<1>3. FlowShape
  BY LoginAssumption DEF Init, FlowShape, NoFlow, Flow, Modes
<1>4. CallShape
  BY Rows DEF Init, CallShape
<1>5. Rooted
  BY DEF Init, Rooted, At, Idle, Call
<1> QED
  BY <1>2, <1>3, <1>4, <1>5 DEF Shape

LEMMA ShapeStep ==
  ASSUME Shape, Rooted, [Next]_vars
  PROVE  Shape' /\ Rooted'
<1>1. ASSUME UNCHANGED vars
      PROVE  Shape'
  <2>1. TypeOK'
    BY <1>1 DEF vars, memberVars, historyVars, Shape, TypeOK
  <2>2. FlowShape' /\ CallShape'
    BY <1>1, NoCall DEF vars
  <2> QED
    BY <2>1, <2>2 DEF Shape
<1>2. ASSUME Next
      PROVE  Shape'
  <2>1. CodeStep \/ MemberStep \/ FlowStep => Shape'
    BY CodeTypes, MemberTypes, FlowTypes
  <2>2. ASSUME NEW c \in Calls, BeginCall(c)
        PROVE  Shape'
    BY <2>2, BeginTypes
  <2>3. ASSUME NEW c \in Calls, \E i \in Tickets : IssueStepUp(c, i)
        PROVE  Shape'
    BY <2>3, IssueTypes
  <2>4. ASSUME NEW c \in Calls,
               \/ IssueMobileSession(c) \/ ConsumeStepUpCode(c)
               \/ UpsertIdentifier(c) \/ DeleteIdentifier(c) \/ SetPassword(c) \/ Fail(c)
        PROVE  Shape'
    BY <2>4, WorkTypes
  <2>5. ASSUME NEW c \in Calls,
               \/ \E f \in Flows : AuthorizeBind(c, f)
               \/ ClaimNativeFlow(c)
               \/ ResolveLogin(c) \/ ResolveRegistration(c) \/ ResolveBind(c)
               \/ ResolveReauth(c)
               \/ DeleteOAuthAccount(c) \/ ConfirmAccountDeletion(c)
        PROVE  Shape'
    BY <2>5, AccountTypes
  <2> QED
    BY <1>2, <2>1, <2>2, <2>3, <2>4, <2>5, Steps
<1>3. Rooted'
  BY RootedKept
<1> QED
  BY <1>1, <1>2, <1>3

\* Every state of any instance is well typed: a request refers to codes, flows
\* and accounts that exist, and no code is open beyond its attempts.
THEOREM TypeCorrect == Spec => []TypeOK
<1>1. Init => Shape /\ Rooted
  BY ShapeInit
<1>2. Shape /\ Rooted /\ [Next]_vars => Shape' /\ Rooted'
  BY ShapeStep
<1>3. Shape => TypeOK
  BY DEF Shape
<1> QED
  BY <1>1, <1>2, <1>3, PTL DEF Spec

(* A method is left *)

\* A user keeps a method who keeps a value of each type, the password and the
\* accounts of providers in use.
LEMMA Kept ==
  ASSUME NEW u, HasMethod(u),
         \A v \in Values : holder[v] = u =>
           \E w \in Values : holder'[w] = u /\ TypeOf[w] = TypeOf[v],
         u \in password => u \in password',
         \A b \in Bindings : Mine(b, u) /\ Provider(b) \in enabled =>
           Mine(b, u)' /\ Provider(b)' \in enabled'
  PROVE  HasMethod(u)'
BY DEF HasMethod, MethodLeft, Holds

\* No user loses a method to a step that takes nothing away from that user.
LEMMA Untouched ==
  ASSUME NEW u, HasMethod(u),
         \A v \in Values : holder[v] = u => holder'[v] = u,
         u \in password => u \in password',
         \A b \in Bindings : binding[b].state = "bound" /\ binding[b].user = u =>
           binding'[b] = binding[b],
         UNCHANGED enabled
  PROVE  HasMethod(u)'
<1>1. \A b \in Bindings : Mine(b, u) /\ Provider(b) \in enabled =>
        Mine(b, u)' /\ Provider(b)' \in enabled'
  BY DEF Mine, Provider
<1> QED
  BY <1>1, Kept

LEMMA Inserted ==
  ASSUME Shape, NEW w \in Users, NEW s \in Subjects, InsertAccount(w, s), NEW u, HasMethod(u),
         UNCHANGED <<holder, password, enabled>>
  PROVE  HasMethod(u)'
BY InsertTyped, Untouched DEF Shape, TypeOK

\* A switch changes nothing else, and one that leaves the providers on that were
\* on takes no method.
LEMMA SwitchStep ==
  ASSUME Shape, Next, NEW u \in Users, HasMethod(u), enabled' # enabled,
         \A p \in enabled : p \in Types \cup enabled'
  PROVE  HasMethod(u)'
<1>1. CodeStep \/ FlowStep => UNCHANGED enabled
  BY DEF CodeStep, FlowStep, SendCode, WrongCode, ResetPasswordWithOTP, RegisterWithOTP,
     AuthorizeLogin, AuthorizeReauth, GitHubBrowserCallback, CreateFlow
<1>2. ASSUME NEW c \in Calls, BeginCall(c)
      PROVE  UNCHANGED enabled
  BY <1>2, BeginFrame
<1>3. ASSUME NEW c \in Calls,
             \/ IssueMobileSession(c) \/ ConsumeStepUpCode(c)
             \/ UpsertIdentifier(c) \/ DeleteIdentifier(c) \/ SetPassword(c) \/ Fail(c)
             \/ \E i \in Tickets : IssueStepUp(c, i)
      PROVE  UNCHANGED enabled
  BY <1>3 DEF IssueMobileSession, ConsumeStepUpCode, UpsertIdentifier, DeleteIdentifier,
     SetPassword, Fail, IssueStepUp
<1>4. ASSUME NEW c \in Calls,
             \/ \E f \in Flows : AuthorizeBind(c, f)
             \/ ClaimNativeFlow(c)
             \/ ResolveLogin(c) \/ ResolveRegistration(c) \/ ResolveBind(c)
             \/ ResolveReauth(c)
             \/ DeleteOAuthAccount(c) \/ ConfirmAccountDeletion(c)
      PROVE  UNCHANGED enabled
  BY <1>4 DEF AuthorizeBind, CreateFlow, ClaimNativeFlow, ResolveLogin, ResolveRegistration,
     ResolveBind, ResolveReauth, Resolves, DeleteOAuthAccount, ConfirmAccountDeletion
<1>5. MemberStep
  BY <1>1, <1>2, <1>3, <1>4, Steps
<1>6. UNCHANGED <<holder, password, binding>>
  BY <1>5 DEF MemberStep, CreateAdminUser, PasswordLogin, SetAdminUserStatus,
     ReplaceBindings, UpdateLoginSettings, memberVars
<1>7. ASSUME NEW b \in Bindings, Mine(b, u), Provider(b) \in enabled
      PROVE  Mine(b, u)' /\ Provider(b)' \in enabled'
  <2>1. Provider(b) \in Providers
    BY <1>7, LoginAssumption DEF Shape, TypeOK, BindingRow, NoBinding, Mine, Provider
  <2> QED
    BY <1>6, <1>7, <2>1, LoginAssumption DEF Mine, Provider
<1> QED
  BY <1>6, <1>7, Kept

LEMMA MethodStep ==
  ASSUME Shape, Next, NEW u \in Users, HasMethod(u), UNCHANGED enabled, member'[u] # "gone"
  PROVE  HasMethod(u)'
<1>1. ASSUME UNCHANGED <<holder, password, binding, enabled>>
      PROVE  HasMethod(u)'
  BY <1>1, Untouched
<1>2. None \notin Users /\ None \notin Types /\ TypeOf \in [Values -> Types]
  BY LoginAssumption
<1>3. CASE CodeStep
  <2>1. CASE \E w \in Users, k \in Codes : RegisterWithOTP(w, k)
    BY <1>2, <2>1, Untouched DEF RegisterWithOTP, Shape, TypeOK
  <2>2. CASE \E k \in Codes : \/ \E p \in play.purposes, v \in play.values : SendCode(k, p, v)
                              \/ WrongCode(k) \/ ResetPasswordWithOTP(k)
    BY <1>1, <2>2 DEF SendCode, WrongCode, ResetPasswordWithOTP, memberVars
  <2> QED
    BY <1>3, <2>1, <2>2 DEF CodeStep
<1>4. CASE MemberStep
  <2>1. CASE \E w \in Users, v \in play.values : CreateAdminUser(w, v)
    BY <1>2, <2>1, Untouched DEF CreateAdminUser, Shape, TypeOK
  <2>2. CASE \/ \E w \in Users : PasswordLogin(w)
             \/ \E w \in Users, status \in {"active", "disabled"} : SetAdminUserStatus(w, status)
             \/ \E p \in Offered : ReplaceBindings(p)
             \/ \E ts \in SUBSET play.channels : UpdateLoginSettings(ts)
    BY <1>1, <2>2 DEF PasswordLogin, SetAdminUserStatus, ReplaceBindings, UpdateLoginSettings,
       memberVars
  <2> QED
    BY <1>4, <2>1, <2>2 DEF MemberStep
<1>5. CASE FlowStep
  BY <1>1, <1>5 DEF FlowStep, AuthorizeLogin, AuthorizeReauth, GitHubBrowserCallback,
     CreateFlow, memberVars
<1>6. ASSUME NEW c \in Calls, BeginCall(c)
      PROVE  HasMethod(u)'
  BY <1>1, <1>6, BeginFrame DEF memberVars
<1>7. ASSUME NEW c \in Calls,
             \/ IssueMobileSession(c) \/ ConsumeStepUpCode(c) \/ Fail(c)
             \/ \E i \in Tickets : IssueStepUp(c, i)
             \/ \E f \in Flows : AuthorizeBind(c, f)
             \/ ClaimNativeFlow(c) \/ ResolveLogin(c) \/ ResolveReauth(c)
      PROVE  HasMethod(u)'
  <2>1. UNCHANGED <<holder, password, binding>>
    BY <1>7 DEF IssueMobileSession, ConsumeStepUpCode, Fail, IssueStepUp, AuthorizeBind,
       CreateFlow, ClaimNativeFlow, ResolveLogin, ResolveReauth, Resolves, memberVars
  <2> QED
    BY <1>1, <2>1
<1>8. ASSUME NEW c \in Calls, UpsertIdentifier(c)
      PROVE  HasMethod(u)'
  <2> DEFINE v == code[call[c].item].value
             w == call[c].user
  <2>1. UNCHANGED <<password, binding, enabled>>
    BY <1>8 DEF UpsertIdentifier
  <2>2. CASE UNCHANGED holder
    BY <1>1, <2>1, <2>2
  <2>3. CASE /\ holder[v] \in {w, None}
             /\ holder' = [x \in Values |->
                             IF x = v THEN w
                             ELSE IF holder[x] = w /\ TypeOf[x] = TypeOf[v] THEN None
                             ELSE holder[x]]
    <3>1. v \in Values
      BY <1>8, OpenTyped DEF UpsertIdentifier, Open, At, Shaped, Shape, CallShape
    <3>2. CASE u = w
      <4>1. \A x \in Values : holder[x] = u =>
              \E y \in Values : holder'[y] = u /\ TypeOf[y] = TypeOf[x]
        BY <2>3, <3>1, <3>2
      <4>2. \A b \in Bindings : Mine(b, u) /\ Provider(b) \in enabled =>
              Mine(b, u)' /\ Provider(b)' \in enabled'
        BY <2>1 DEF Mine, Provider
      <4> QED
        BY <2>1, <4>1, <4>2, Kept
    <3>3. CASE u # w
      <4>1. \A x \in Values : holder[x] = u => holder'[x] = u
        BY <1>2, <2>3, <3>3
      <4> QED
        BY <2>1, <4>1, Untouched
    <3> QED
      BY <3>2, <3>3
  <2> QED
    BY <1>8, <2>2, <2>3 DEF UpsertIdentifier
<1>9. ASSUME NEW c \in Calls, DeleteIdentifier(c)
      PROVE  HasMethod(u)'
  <2> DEFINE w == call[c].user
             t == call[c].what
  <2>1. /\ UNCHANGED <<password, binding, enabled>>
        /\ MethodLeft(w, None, t)
        /\ holder' = [v \in Values |-> IF holder[v] = w /\ TypeOf[v] = t THEN None
                                       ELSE holder[v]]
    BY <1>9 DEF DeleteIdentifier
  <2>2. CASE u = w
    <3>1. CASE \E v \in Values : holder[v] = u /\ TypeOf[v] # t
      BY <1>2, <2>1, <3>1 DEF HasMethod, MethodLeft
    <3>2. CASE u \in password /\ Holds(u, "email") /\ t # "email"
      BY <1>2, <2>1, <3>2 DEF HasMethod, MethodLeft, Holds
    <3>3. CASE \E a \in Bindings \ {None} : Mine(a, u) /\ Provider(a) \in enabled
      BY <2>1, <3>3 DEF HasMethod, MethodLeft, Mine, Provider
    <3> QED
      BY <2>1, <2>2, <3>1, <3>2, <3>3 DEF MethodLeft
  <2>3. CASE u # w
    <3>1. \A x \in Values : holder[x] = u => holder'[x] = u
      BY <2>1, <2>3
    <3> QED
      BY <2>1, <3>1, Untouched
  <2> QED
    BY <2>2, <2>3
<1>10. ASSUME NEW c \in Calls, SetPassword(c)
       PROVE  HasMethod(u)'
  BY <1>10, Untouched DEF SetPassword
<1>11. ASSUME NEW c \in Calls, ResolveRegistration(c) \/ ResolveBind(c)
       PROVE  HasMethod(u)'
  <2>1. PICK mode \in {"login", "bind"} : Resolves(c, mode)
    BY <1>11 DEF ResolveRegistration, ResolveBind
  <2>2. UNCHANGED <<holder, password, enabled>> /\ call[c].what \in Subjects
    BY <2>1 DEF Resolves, At, Shape, CallShape, Shaped
  <2>3. CASE ResolveRegistration(c)
    BY <2>2, <2>3, NewcomerTyped, Inserted DEF ResolveRegistration, Shape
  <2>4. CASE ResolveBind(c)
    <3>1. call[c].user \in Users
      BY <2>4 DEF ResolveBind, Resolves, At, Shape, CallShape, FlowShape, Shaped
    <3> QED
      BY <1>1, <2>2, <2>4, <3>1, Inserted DEF ResolveBind
  <2> QED
    BY <1>11, <2>3, <2>4
<1>12. ASSUME NEW c \in Calls, DeleteOAuthAccount(c)
       PROVE  HasMethod(u)'
  <2> DEFINE w == call[c].user
             b == call[c].what
  <2>1. /\ UNCHANGED <<holder, password, enabled>>
        /\ Mine(b, w) /\ MethodLeft(w, b, None)
        /\ binding' = [binding EXCEPT ![b].state = "gone"]
    BY <1>12 DEF DeleteOAuthAccount, Unbindable, memberVars
  <2>2. \A a \in Bindings \ {b} : binding'[a] = binding[a]
    BY <2>1 DEF Shape, TypeOK
  <2>3. CASE u = w
    <3>1. CASE \E v \in Values : holder[v] = u /\ TypeOf[v] # None
      BY <2>1, <3>1 DEF HasMethod, MethodLeft
    <3>2. CASE u \in password /\ Holds(u, "email") /\ None # "email"
      BY <2>1, <3>2 DEF HasMethod, MethodLeft, Holds
    <3>3. CASE \E a \in Bindings \ {b} : Mine(a, u) /\ Provider(a) \in enabled
      <4>1. PICK a \in Bindings \ {b} : Mine(a, u) /\ Provider(a) \in enabled
        BY <3>3
      <4>2. Mine(a, u)' /\ Provider(a)' \in enabled'
        BY <2>1, <2>2, <4>1 DEF Mine, Provider
      <4>3. a \in Bindings \ {None}
        BY <4>1, LoginAssumption
      <4> QED
        BY <4>2, <4>3 DEF HasMethod, MethodLeft
    <3> QED
      BY <2>1, <2>3, <3>1, <3>2, <3>3 DEF MethodLeft
  <2>4. CASE u # w
    BY <2>1, <2>2, <2>4, Untouched DEF Mine
  <2> QED
    BY <2>3, <2>4
<1>13. ASSUME NEW c \in Calls, ConfirmAccountDeletion(c)
       PROVE  HasMethod(u)'
  <2> DEFINE w == call[c].user
  <2>1. u # w
    BY <1>13 DEF ConfirmAccountDeletion, Shape, TypeOK
  <2> QED
    BY <1>13, <2>1, Untouched DEF ConfirmAccountDeletion, Mine
<1>14. ASSUME NEW c \in Calls,
              \/ IssueMobileSession(c) \/ ConsumeStepUpCode(c)
              \/ UpsertIdentifier(c) \/ DeleteIdentifier(c) \/ SetPassword(c) \/ Fail(c)
       PROVE  HasMethod(u)'
  BY <1>7, <1>8, <1>9, <1>10, <1>14
<1>15. ASSUME NEW c \in Calls,
              \/ \E f \in Flows : AuthorizeBind(c, f)
              \/ ClaimNativeFlow(c)
              \/ ResolveLogin(c) \/ ResolveRegistration(c) \/ ResolveBind(c)
              \/ ResolveReauth(c)
              \/ DeleteOAuthAccount(c) \/ ConfirmAccountDeletion(c)
       PROVE  HasMethod(u)'
  BY <1>7, <1>11, <1>12, <1>13, <1>15
<1> QED
  BY <1>3, <1>4, <1>5, <1>6, <1>7, <1>14, <1>15, Steps

\* For any number of members and requests: what a member takes away, in however
\* many requests at the same time, leaves a method to sign in by; the check that
\* is repeated in the transaction is enough.
THEOREM LastMethodStays == Spec => LastMethodKept
<1> DEFINE Keeps == \A u \in Users : HasMethod(u) /\ ~HasMethod(u)'
           => (\E p \in enabled : p \notin Types \cup enabled') \/ member'[u] = "gone"
<1>1. Init => Shape /\ Rooted
  BY ShapeInit
<1>2. Shape /\ Rooted /\ [Next]_vars => Shape' /\ Rooted'
  BY ShapeStep
<1>3. Shape /\ [Next]_vars => [Keeps]_vars
  <2> SUFFICES ASSUME Shape, Next, NEW u \in Users, HasMethod(u),
                      \A p \in enabled : p \in Types \cup enabled', member'[u] # "gone"
               PROVE  HasMethod(u)'
    OBVIOUS
  <2>1. CASE UNCHANGED enabled
    BY <2>1, MethodStep
  <2>2. CASE enabled' # enabled
    BY <2>2, SwitchStep
  <2> QED
    BY <2>1, <2>2
<1> QED
  BY <1>1, <1>2, <1>3, PTL DEF Spec, LastMethodKept

(* Authorised once *)

\* What was used is spent, and so is what a request in flight may still use,
\* which no other request has.
SpentAndApart ==
  /\ \A k \in Codes : <<"code", k>> \in used => code[k].state = "spent"
  /\ \A i \in Tickets : <<"ticket", i>> \in used =>
       ticket[i].state = "spent" /\ \A c \in Calls : call[c].ticket # i
  /\ \A c \in Calls : call[c].ticket # 0 =>
       /\ ticket[call[c].ticket].state = "spent"
       /\ \A d \in Calls \ {c} : call[d].ticket # call[c].ticket
  /\ \A c \in Calls : At(c, {"callback"}, "resolve") =>
       /\ flow[call[c].item].state \in {"claimed", "spent"}
       /\ <<"flow", call[c].item>> \notin used
       /\ \A d \in Calls \ {c} :
            At(d, {"callback"}, "resolve") => call[d].item # call[c].item
  /\ \A f \in Flows : <<"flow", f>> \in used => flow[f].state \in {"claimed", "spent"}

\* A step uses codes it spends, tickets of requests that end, and flows of
\* callbacks that are resolved.
Uses(X) ==
  /\ used' = used \cup X
  /\ twice' = (twice \/ X \cap used # {})
  /\ X \subseteq Items
  /\ \A k \in Codes : <<"code", k>> \in X => code[k].state = "open" /\ code'[k].state = "spent"
  /\ \A i \in Tickets : <<"ticket", i>> \in X =>
       \E c \in Calls : call[c].ticket = i /\ call'[c] = Idle
  /\ \A f \in Flows : <<"flow", f>> \in X =>
       \E c \in Calls : /\ At(c, {"callback"}, "resolve") /\ call[c].item = f
                        /\ ~At(c, {"callback"}, "resolve")'

LEMMA UsesNothing ==
  ASSUME Shape, UNCHANGED <<used, twice>>
  PROVE  \E X : Uses(X)
<1>1. Uses({})
  BY DEF Uses, Shape, TypeOK
<1> QED
  BY <1>1

LEMMA UsesCode ==
  ASSUME Shape, NEW k \in Codes, code[k].state = "open", Accept(k), Use({<<"code", k>>})
  PROVE  \E X : Uses(X)
<1>1. code'[k] = SpentCode /\ SpentCode.state = "spent"
  BY DEF Accept, SpentCode, NoCode, Shape, TypeOK
<1>2. Uses({<<"code", k>>})
  BY <1>1 DEF Uses, Use, Items
<1> QED
  BY <1>2

LEMMA UsesTicket ==
  ASSUME Shape, NEW c \in Calls, Return(c), Use(TicketOf(c))
  PROVE  \E X : Uses(X)
<1>1. call'[c] = Idle
  BY ReturnTyped DEF Shape
<1>2. \A i \in Tickets : <<"ticket", i>> \in TicketOf(c) => call[c].ticket = i
  BY DEF TicketOf
<1>3. /\ TicketOf(c) \subseteq Items
      /\ \A k \in Codes : <<"code", k>> \notin TicketOf(c)
      /\ \A f \in Flows : <<"flow", f>> \notin TicketOf(c)
  BY TicketItem DEF TicketOf, Shape
<1>4. Uses(TicketOf(c))
  BY <1>1, <1>2, <1>3 DEF Uses, Use
<1> QED
  BY <1>4

LEMMA UsesFlow ==
  ASSUME Shape, NEW c \in Calls, NEW mode, Resolves(c, mode), ~At(c, {"callback"}, "resolve")'
  PROVE  \E X : Uses(X)
<1> DEFINE f == call[c].item
<1>1. f \in Flows /\ At(c, {"callback"}, "resolve") /\ Use({<<"flow", f>>})
  BY DEF Resolves, At, Shape, CallShape, Shaped
<1>2. Uses({<<"flow", f>>})
  BY <1>1 DEF Uses, Use, Items
<1> QED
  BY <1>2

LEMMA UsesStep ==
  ASSUME Shape, Next
  PROVE  \E X : Uses(X)
<1>1. ASSUME UNCHANGED historyVars
      PROVE  \E X : Uses(X)
  BY <1>1, UsesNothing DEF historyVars
<1>2. CASE CodeStep
  <2>1. ASSUME NEW k \in Codes, ResetPasswordWithOTP(k) \/ \E u \in Users : RegisterWithOTP(u, k)
        PROVE  \E X : Uses(X)
    BY <2>1, UsesCode DEF ResetPasswordWithOTP, RegisterWithOTP, Open
  <2>2. ASSUME NEW k \in Codes,
               WrongCode(k) \/ \E p \in play.purposes, v \in play.values : SendCode(k, p, v)
        PROVE  \E X : Uses(X)
    BY <1>1, <2>2 DEF WrongCode, SendCode
  <2> QED
    BY <1>2, <2>1, <2>2 DEF CodeStep
<1>3. CASE MemberStep \/ FlowStep
  BY <1>1, <1>3 DEF MemberStep, FlowStep, CreateAdminUser, PasswordLogin,
     SetAdminUserStatus, ReplaceBindings, UpdateLoginSettings, AuthorizeLogin, AuthorizeReauth,
     GitHubBrowserCallback
<1>4. ASSUME NEW c \in Calls, BeginCall(c)
      PROVE  \E X : Uses(X)
  <2>1. ASSUME NEW k \in Codes, OTPLogin(c, k)
        PROVE  \E X : Uses(X)
    BY <2>1, UsesCode DEF OTPLogin, Open
  <2>2. CASE UNCHANGED <<used, twice>>
    BY <2>2, UsesNothing
  <2>3. UNCHANGED <<used, twice>> \/ \E k \in Codes : OTPLogin(c, k)
    BY <1>4 DEF BeginCall, ClaimTicketFlow, VerifyIdentity, BeginCallback, BeginStepUp,
       StepUpByPassword, BeginVerify, BeginDeleteIdentifier, BeginSetPassword,
       BeginAuthorizeBind, BeginUnbind, BeginDeletion, Spend, historyVars
  <2> QED
    BY <2>1, <2>2, <2>3
<1>5. ASSUME NEW c \in Calls,
             \/ IssueMobileSession(c) \/ Fail(c) \/ ClaimNativeFlow(c)
             \/ \E i \in Tickets : IssueStepUp(c, i)
      PROVE  \E X : Uses(X)
  BY <1>1, <1>5 DEF IssueMobileSession, Fail, ClaimNativeFlow, IssueStepUp
<1>6. ASSUME NEW c \in Calls, DeleteIdentifier(c) \/ SetPassword(c) \/ DeleteOAuthAccount(c)
             \/ ConfirmAccountDeletion(c) \/ \E f \in Flows : AuthorizeBind(c, f)
      PROVE  \E X : Uses(X)
  <2>1. Return(c) /\ Use(TicketOf(c))
    BY <1>6 DEF DeleteIdentifier, SetPassword, DeleteOAuthAccount, ConfirmAccountDeletion,
       AuthorizeBind
  <2> QED
    BY <2>1, UsesTicket
<1>7. ASSUME NEW c \in Calls, ConsumeStepUpCode(c)
      PROVE  \E X : Uses(X)
  <2> DEFINE k == call[c].item
  <2>1. k \in Codes /\ code[k].state = "open"
    BY <1>7 DEF ConsumeStepUpCode, At, Shaped, Open, Shape, CallShape
  <2>2. UNCHANGED historyVars \/ (Accept(k) /\ Use({<<"code", k>>}))
    BY <1>7 DEF ConsumeStepUpCode
  <2> QED
    BY <1>1, <2>1, <2>2, UsesCode
<1>8. ASSUME NEW c \in Calls, UpsertIdentifier(c)
      PROVE  \E X : Uses(X)
  <2> DEFINE k == call[c].item
             X == {<<"code", k>>} \cup TicketOf(c)
  <2>1. k \in Codes /\ code[k].state = "open" /\ Return(c)
    BY <1>8 DEF UpsertIdentifier, At, Shaped, Open, Shape, CallShape
  <2>2. UNCHANGED historyVars \/ (Accept(k) /\ Use(X))
    BY <1>8 DEF UpsertIdentifier
  <2>3. ASSUME Accept(k), Use(X)
        PROVE  Uses(X)
    <3>1. code'[k].state = "spent"
      BY <2>1, <2>3 DEF Accept, SpentCode, NoCode, Shape, TypeOK
    <3>2. call'[c] = Idle
      BY <2>1, ReturnTyped DEF Shape
    <3>3. /\ TicketOf(c) \subseteq Items
          /\ \A i \in Tickets : <<"ticket", i>> \in TicketOf(c) => call[c].ticket = i
          /\ \A j \in Codes : <<"code", j>> \notin TicketOf(c)
          /\ \A f \in Flows : <<"flow", f>> \notin TicketOf(c)
      BY TicketItem DEF TicketOf, Shape
    <3>4. X \subseteq Items
      BY <2>1, <3>3 DEF Items
    <3>5. \A j \in Codes : <<"code", j>> \in X => j = k
      BY <3>3
    <3>6. \A i \in Tickets : <<"ticket", i>> \in X => call[c].ticket = i
      BY <3>3
    <3>7. \A f \in Flows : <<"flow", f>> \notin X
      BY <3>3
    <3> QED
      BY <2>1, <2>3, <3>1, <3>2, <3>4, <3>5, <3>6, <3>7 DEF Uses, Use
  <2> QED
    BY <1>1, <2>2, <2>3
<1>9. ASSUME NEW c \in Calls, \/ ResolveLogin(c) \/ ResolveRegistration(c) \/ ResolveBind(c)
                              \/ ResolveReauth(c)
      PROVE  \E X : Uses(X)
  <2>1. PICK mode : Resolves(c, mode)
    BY <1>9 DEF ResolveLogin, ResolveRegistration, ResolveBind, ResolveReauth
  <2>2. ~At(c, {"callback"}, "resolve")'
    <3>1. CASE Return(c)
      <4>1. call'[c] = Idle
        BY <3>1, ReturnTyped DEF Shape
      <4> QED
        BY <4>1 DEF At, Idle, Call
    <3>2. CASE ResolveReauth(c)
      BY <3>2 DEF ResolveReauth, At, Shape, TypeOK, CallRow
    <3> QED
      BY <1>9, <3>1, <3>2 DEF ResolveLogin, ResolveRegistration, ResolveBind
  <2> QED
    BY <2>1, <2>2, UsesFlow
<1>10. ASSUME NEW c \in Calls,
              \/ IssueMobileSession(c) \/ ConsumeStepUpCode(c)
              \/ UpsertIdentifier(c) \/ DeleteIdentifier(c) \/ SetPassword(c) \/ Fail(c)
       PROVE  \E X : Uses(X)
  BY <1>5, <1>6, <1>7, <1>8, <1>10
<1>11. ASSUME NEW c \in Calls,
              \/ \E f \in Flows : AuthorizeBind(c, f)
              \/ ClaimNativeFlow(c)
              \/ ResolveLogin(c) \/ ResolveRegistration(c) \/ ResolveBind(c)
              \/ ResolveReauth(c)
              \/ DeleteOAuthAccount(c) \/ ConfirmAccountDeletion(c)
       PROVE  \E X : Uses(X)
  BY <1>5, <1>6, <1>9, <1>11
<1>12. ASSUME NEW c \in Calls, \E i \in Tickets : IssueStepUp(c, i)
       PROVE  \E X : Uses(X)
  BY <1>5, <1>12
<1> HIDE DEF Uses
<1> QED
  BY <1>2, <1>3, <1>4, <1>10, <1>11, <1>12, Steps

\* What is spent stays spent, and a flow that was claimed is not claimed again.
LEMMA SpentStays ==
  ASSUME Shape, Next
  PROVE  /\ \A k \in Codes : code[k].state = "spent" => code'[k].state = "spent"
         /\ \A i \in Tickets : ticket[i].state = "spent" => ticket'[i].state = "spent"
         /\ \A f \in Flows : flow[f].state \in {"claimed", "spent"} =>
              flow'[f].state \in {"claimed", "spent"}
<1> USE DEF Shape
<1>0. /\ SpentCode.state = "spent" /\ SpentTicket.state = "spent" /\ SpentFlow.state = "spent"
      /\ code \in [Codes -> CodeRow] /\ ticket \in [Tickets -> TicketRow]
      /\ flow \in [Flows -> FlowRow]
  BY DEF SpentCode, NoCode, SpentTicket, NoTicket, SpentFlow, Flow, TypeOK
<1>1. \A k \in Codes : code[k].state = "spent" => code'[k].state = "spent"
  <2>1. ASSUME NEW k \in Codes, code[k].state = "open", Accept(k) \/ Reject(k)
        PROVE  \A j \in Codes : code[j].state = "spent" => code'[j].state = "spent"
    BY <1>0, <2>1 DEF Accept, Reject
  <2>2. CASE CodeStep
    <3>1. ASSUME NEW k \in Codes, NEW p \in play.purposes, NEW v \in play.values,
                 SendCode(k, p, v)
          PROVE  \A j \in Codes : code[j].state = "spent" => code'[j].state = "spent"
      BY <1>0, <3>1 DEF SendCode, Turn
    <3> QED
      BY <2>1, <2>2, <3>1 DEF CodeStep, WrongCode, ResetPasswordWithOTP, RegisterWithOTP, Open
  <2>3. ASSUME UNCHANGED code
        PROVE  \A j \in Codes : code[j].state = "spent" => code'[j].state = "spent"
    BY <2>3
  <2>4. CASE MemberStep \/ FlowStep
    BY <2>3, <2>4 DEF MemberStep, FlowStep, CreateAdminUser, PasswordLogin,
       SetAdminUserStatus, ReplaceBindings, UpdateLoginSettings, AuthorizeLogin, AuthorizeReauth,
       GitHubBrowserCallback, CreateFlow
  <2>5. ASSUME NEW c \in Calls, BeginCall(c)
        PROVE  \A j \in Codes : code[j].state = "spent" => code'[j].state = "spent"
    <3>1. UNCHANGED code \/ \E k \in Codes : OTPLogin(c, k)
      BY <2>5 DEF BeginCall, ClaimTicketFlow, VerifyIdentity, BeginCallback, BeginStepUp,
         StepUpByPassword, BeginVerify, BeginDeleteIdentifier, BeginSetPassword,
         BeginAuthorizeBind, BeginUnbind, BeginDeletion, Spend
    <3> QED
      BY <2>1, <2>3, <3>1 DEF OTPLogin, Open
  <2>6. ASSUME NEW c \in Calls, ConsumeStepUpCode(c) \/ UpsertIdentifier(c)
        PROVE  \A j \in Codes : code[j].state = "spent" => code'[j].state = "spent"
    <3>1. call[c].item \in Codes
      BY <2>6 DEF ConsumeStepUpCode, UpsertIdentifier, At, Shaped, CallShape
    <3> QED
      BY <2>1, <2>6, <3>1 DEF ConsumeStepUpCode, UpsertIdentifier, Open
  <2>7. ASSUME NEW c \in Calls, ConfirmAccountDeletion(c)
        PROVE  \A j \in Codes : code[j].state = "spent" => code'[j].state = "spent"
    BY <1>0, <2>7 DEF ConfirmAccountDeletion
  <2>8. ASSUME NEW c \in Calls,
               \/ IssueMobileSession(c) \/ DeleteIdentifier(c) \/ SetPassword(c) \/ Fail(c)
               \/ \E i \in Tickets : IssueStepUp(c, i)
               \/ \E f \in Flows : AuthorizeBind(c, f)
               \/ ClaimNativeFlow(c)
               \/ ResolveLogin(c) \/ ResolveRegistration(c) \/ ResolveBind(c)
               \/ ResolveReauth(c) \/ DeleteOAuthAccount(c)
        PROVE  UNCHANGED code
    BY <2>8 DEF IssueMobileSession, DeleteIdentifier, SetPassword, Fail, IssueStepUp,
       AuthorizeBind, CreateFlow, ClaimNativeFlow, ResolveLogin, ResolveRegistration,
       ResolveBind, ResolveReauth, Resolves, DeleteOAuthAccount
  <2> QED
    BY <2>2, <2>3, <2>4, <2>5, <2>6, <2>7, <2>8, Steps
<1>2. \A i \in Tickets : ticket[i].state = "spent" => ticket'[i].state = "spent"
  <2>1. ASSUME UNCHANGED ticket
        PROVE  \A i \in Tickets : ticket[i].state = "spent" => ticket'[i].state = "spent"
    BY <2>1
  <2>2. CodeStep \/ MemberStep \/ FlowStep => UNCHANGED ticket
    BY DEF CodeStep, MemberStep, FlowStep, SendCode, WrongCode, ResetPasswordWithOTP,
           RegisterWithOTP, CreateAdminUser, PasswordLogin, SetAdminUserStatus,
           ReplaceBindings, UpdateLoginSettings, AuthorizeLogin, AuthorizeReauth,
           GitHubBrowserCallback, CreateFlow
  <2>3. ASSUME NEW i \in Tickets, ConsumeStepUpTicket(i)
        PROVE  \A j \in Tickets : ticket[j].state = "spent" => ticket'[j].state = "spent"
    BY <1>0, <2>3 DEF ConsumeStepUpTicket
  <2>4. ASSUME NEW c \in Calls, BeginCall(c)
        PROVE  UNCHANGED ticket \/ \E i \in Tickets : ConsumeStepUpTicket(i)
    BY <2>4 DEF BeginCall, OTPLogin, ClaimTicketFlow, VerifyIdentity, BeginCallback,
       BeginStepUp, StepUpByPassword, BeginVerify, BeginDeleteIdentifier, BeginSetPassword,
       BeginAuthorizeBind, BeginUnbind, BeginDeletion, Spend
  <2>5. ASSUME NEW c \in Calls, NEW i \in Tickets, IssueStepUp(c, i)
        PROVE  \A j \in Tickets : ticket[j].state = "spent" => ticket'[j].state = "spent"
    BY <1>0, <2>5 DEF IssueStepUp, Turn
  <2>6. ASSUME NEW c \in Calls, ConfirmAccountDeletion(c)
        PROVE  \A j \in Tickets : ticket[j].state = "spent" => ticket'[j].state = "spent"
    BY <1>0, <2>6 DEF ConfirmAccountDeletion
  <2>7. ASSUME NEW c \in Calls,
               \/ IssueMobileSession(c) \/ ConsumeStepUpCode(c)
               \/ UpsertIdentifier(c) \/ DeleteIdentifier(c) \/ SetPassword(c) \/ Fail(c)
               \/ \E f \in Flows : AuthorizeBind(c, f)
               \/ ClaimNativeFlow(c)
               \/ ResolveLogin(c) \/ ResolveRegistration(c) \/ ResolveBind(c)
               \/ ResolveReauth(c) \/ DeleteOAuthAccount(c)
        PROVE  UNCHANGED ticket
    BY <2>7 DEF IssueMobileSession, ConsumeStepUpCode, UpsertIdentifier, DeleteIdentifier,
       SetPassword, Fail, AuthorizeBind, CreateFlow, ClaimNativeFlow, ResolveLogin,
       ResolveRegistration, ResolveBind, ResolveReauth, Resolves, DeleteOAuthAccount
  <2> QED
    BY <2>1, <2>2, <2>3, <2>4, <2>5, <2>6, <2>7, Steps
<1>3. \A f \in Flows : flow[f].state \in {"claimed", "spent"} =>
        flow'[f].state \in {"claimed", "spent"}
  <2> DEFINE Stays == \A f \in Flows : flow[f].state \in {"claimed", "spent"} =>
                        flow'[f].state \in {"claimed", "spent"}
  <2>1. ASSUME UNCHANGED flow
        PROVE  Stays
    BY <2>1
  <2>2. ASSUME NEW f \in Flows, NEW r, CreateFlow(f, r)
        PROVE  Stays
    BY <1>0, <2>2 DEF CreateFlow, Turn
  <2>3. ASSUME NEW f \in Flows, NEW s, GitHubBrowserCallback(f, s)
        PROVE  Stays
    BY <1>0, <2>3 DEF GitHubBrowserCallback
  <2>4. ASSUME NEW c \in Calls, NEW f \in Flows, NEW s, ClaimTicketFlow(c, f, s)
        PROVE  Stays
    BY <1>0, <2>4 DEF ClaimTicketFlow, FlowRow
  <2>5. ASSUME NEW c \in Calls, ClaimNativeFlow(c)
        PROVE  Stays
    BY <1>0, <2>5 DEF ClaimNativeFlow
  <2>6. ASSUME NEW c \in Calls, DeleteOAuthAccount(c) \/ ConfirmAccountDeletion(c)
        PROVE  Stays
    BY <1>0, <2>6 DEF DeleteOAuthAccount, ConfirmAccountDeletion
  <2>7. CodeStep \/ MemberStep => UNCHANGED flow
    BY DEF CodeStep, MemberStep, SendCode, WrongCode, ResetPasswordWithOTP,
           RegisterWithOTP, CreateAdminUser, PasswordLogin, SetAdminUserStatus,
           ReplaceBindings, UpdateLoginSettings
  <2>8. ASSUME NEW c \in Calls, BeginCall(c)
        PROVE  UNCHANGED flow \/ \E f \in Flows, s \in play.subjects : ClaimTicketFlow(c, f, s)
    BY <2>8 DEF BeginCall, OTPLogin, VerifyIdentity, BeginStepUp, StepUpByPassword,
       BeginVerify, BeginDeleteIdentifier, BeginSetPassword, BeginAuthorizeBind,
       BeginUnbind, BeginDeletion, Spend
  <2>9. ASSUME NEW c \in Calls,
               \/ IssueMobileSession(c) \/ ConsumeStepUpCode(c)
               \/ UpsertIdentifier(c) \/ DeleteIdentifier(c) \/ SetPassword(c) \/ Fail(c)
               \/ \E i \in Tickets : IssueStepUp(c, i)
               \/ ResolveLogin(c) \/ ResolveRegistration(c) \/ ResolveBind(c)
               \/ ResolveReauth(c)
        PROVE  UNCHANGED flow
    BY <2>9 DEF IssueMobileSession, ConsumeStepUpCode, UpsertIdentifier, DeleteIdentifier,
       SetPassword, Fail, IssueStepUp, ResolveLogin, ResolveRegistration, ResolveBind,
       ResolveReauth, Resolves
  <2>10. ASSUME FlowStep
         PROVE  Stays
    BY <2>2, <2>3, <2>10 DEF FlowStep, AuthorizeLogin, AuthorizeReauth
  <2>11. ASSUME NEW c \in Calls, NEW f \in Flows, AuthorizeBind(c, f)
         PROVE  Stays
    BY <2>2, <2>11 DEF AuthorizeBind
  <2> HIDE DEF Stays
  <2>12. ASSUME NEW c \in Calls, BeginCall(c)
         PROVE  Stays
    BY <2>1, <2>4, <2>8, <2>12
  <2>13. ASSUME NEW c \in Calls,
                \/ IssueMobileSession(c) \/ ConsumeStepUpCode(c)
                \/ UpsertIdentifier(c) \/ DeleteIdentifier(c) \/ SetPassword(c) \/ Fail(c)
         PROVE  Stays
    BY <2>1, <2>9, <2>13
  <2>14. ASSUME NEW c \in Calls, \E i \in Tickets : IssueStepUp(c, i)
         PROVE  Stays
    BY <2>1, <2>9, <2>14
  <2>15. ASSUME NEW c \in Calls,
                \/ \E f \in Flows : AuthorizeBind(c, f)
                \/ ClaimNativeFlow(c)
                \/ ResolveLogin(c) \/ ResolveRegistration(c) \/ ResolveBind(c)
                \/ ResolveReauth(c)
                \/ DeleteOAuthAccount(c) \/ ConfirmAccountDeletion(c)
         PROVE  Stays
    BY <2>1, <2>5, <2>6, <2>9, <2>11, <2>15
  <2>16. CodeStep \/ MemberStep \/ FlowStep => Stays
    BY <2>1, <2>7, <2>10
  <2>17. Stays
    BY <2>12, <2>13, <2>14, <2>15, <2>16, Steps
  <2> QED
    BY <2>17 DEF Stays
<1> QED
  BY <1>1, <1>2, <1>3

\* A request that begins has no ticket or one that was open and is spent by it.
LEMMA TicketBegun ==
  ASSUME Shape, NEW c \in Calls, BeginCall(c), call'[c].ticket # 0
  PROVE  LET i == call'[c].ticket
         IN  i \in Tickets /\ ticket[i].state = "open" /\ ticket'[i].state = "spent"
<1>1. ASSUME NEW op, NEW at, NEW u, NEW p, NEW w, NEW k, NEW i,
             Begin(c, Call(op, at, u, p, w, k, i))
      PROVE  call'[c].ticket = i
  BY <1>1 DEF Begin, Call, Shape, TypeOK
<1>2. ASSUME NEW i \in Tickets, NEW op, NEW u, NEW p, NEW w, NEW k, Spend(c, i, op, u, p, w, k)
      PROVE  call'[c].ticket = i /\ ticket[i].state = "open" /\ ticket'[i].state = "spent"
  <2>1. call'[c].ticket = i
    BY <1>1, <1>2 DEF Spend
  <2>2. ticket'[i] = SpentTicket
    BY <1>2 DEF Spend, ConsumeStepUpTicket, Shape, TypeOK
  <2> QED
    BY <1>2, <2>1, <2>2 DEF Spend, SpentTicket, NoTicket
<1>3. ASSUME \E k \in Codes : OTPLogin(c, k)
      PROVE  call'[c].ticket = 0
  BY <1>1, <1>3 DEF OTPLogin
<1>4. ASSUME \E f \in Flows, s \in play.subjects : ClaimTicketFlow(c, f, s) \/ VerifyIdentity(c, f, s)
      PROVE  call'[c].ticket = 0
  BY <1>1, <1>4 DEF ClaimTicketFlow, VerifyIdentity, BeginCallback
<1>5. ASSUME NEW u \in Users,
             \/ \E k \in Codes, s \in Scopes(u) : BeginStepUp(c, u, k, s)
             \/ \E s \in Scopes(u) : StepUpByPassword(c, u, s)
      PROVE  call'[c].ticket = 0
  BY <1>1, <1>5 DEF BeginStepUp, StepUpByPassword
<1>6. ASSUME NEW u \in Users,
             \/ \E k \in Codes : BeginVerify(c, u, k)
             \/ \E t \in Types : BeginDeleteIdentifier(c, u, t)
             \/ BeginSetPassword(c, u)
             \/ \E p \in Offered : BeginAuthorizeBind(c, u, p)
             \/ \E b \in Bindings : BeginUnbind(c, u, b)
             \/ BeginDeletion(c, u)
      PROVE  \/ call'[c].ticket = 0
             \/ \E i \in Tickets : \E op, p, w, k : Spend(c, i, op, u, p, w, k)
  BY <1>1, <1>6 DEF BeginVerify, BeginDeleteIdentifier, BeginSetPassword,
     BeginAuthorizeBind, BeginUnbind, BeginDeletion
<1>7. \E i \in Tickets : \E op, u, p, w, k : Spend(c, i, op, u, p, w, k)
  BY <1>3, <1>4, <1>5, <1>6 DEF BeginCall
<1> QED
  BY <1>2, <1>7

LEMMA CallTicket ==
  ASSUME Shape, Next, NEW c \in Calls
  PROVE  \/ call'[c].ticket = call[c].ticket
         \/ call'[c].ticket = 0
         \/ /\ call'[c].ticket \in Tickets
            /\ ticket[call'[c].ticket].state = "open"
            /\ ticket'[call'[c].ticket].state = "spent"
            /\ \A d \in Calls \ {c} : call'[d] = call[d]
<1> SUFFICES ASSUME call'[c] # call[c], call'[c].ticket # 0, call'[c].ticket # call[c].ticket
             PROVE  /\ call'[c].ticket \in Tickets
                    /\ ticket[call'[c].ticket].state = "open"
                    /\ ticket'[call'[c].ticket].state = "spent"
                    /\ \A d \in Calls \ {c} : call'[d] = call[d]
  OBVIOUS
<1>1. call[c] \in CallRow
  BY DEF Shape, TypeOK
<1>2. Idle.ticket = 0
  BY DEF Idle, Call
<1>3. BeginCall(c) /\ \A d \in Calls \ {c} : call'[d] = call[d]
  BY <1>1, <1>2, CallMoves DEF CallRow
<1> QED
  BY <1>3, TicketBegun

LEMMA CallResolve ==
  ASSUME Shape, Next, NEW c \in Calls, At(c, {"callback"}, "resolve")', call'[c] # call[c]
  PROVE  /\ call'[c].item \in Flows
         /\ flow[call'[c].item].state \in {"open", "verified"}
         /\ flow'[call'[c].item].state = "claimed"
         /\ \A d \in Calls \ {c} : call'[d] = call[d]
<1>1. call[c] \in CallRow /\ Shaped(call[c], flow) /\ flow \in [Flows -> FlowRow]
  BY DEF Shape, TypeOK, CallShape
<1>2. call'[c].op = "callback" /\ call'[c].at = "resolve"
  BY DEF At
<1>3. \A d \in Calls \ {c} : call'[d] = call[d]
  BY CallMoves
<1>4. CASE BeginCall(c)
  <2>1. PICK f \in Flows, s \in play.subjects :
          \/ /\ ClaimTicketFlow(c, f, s)
             /\ call'[c] = Call("callback", "resolve", flow[f].user, flow[f].purpose, s, f, 0)
          \/ call'[c] = Call("callback", "claim", flow[f].user, flow[f].purpose, s, f, 0)
    BY <1>2, <1>4, CallbackBegun
  <2>2. ClaimTicketFlow(c, f, s) /\ call'[c].item = f
    BY <1>2, <2>1 DEF Call
  <2>3. flow[f].state = "verified" /\ flow' = [flow EXCEPT ![f].state = "claimed"]
    BY <2>2 DEF ClaimTicketFlow
  <2>4. flow'[f].state = "claimed"
    BY <1>1, <2>3
  <2> QED
    BY <1>3, <2>2, <2>3, <2>4
<1>5. CASE ClaimNativeFlow(c) /\ call'[c] = [call[c] EXCEPT !.at = "resolve"]
  <2>1. call'[c].item = call[c].item /\ call[c].item \in Flows
    BY <1>1, <1>5 DEF ClaimNativeFlow, At, Shaped, CallRow
  <2>2. /\ flow[call[c].item].state = "open"
        /\ flow' = [flow EXCEPT ![call[c].item].state = "claimed"]
    BY <1>5 DEF ClaimNativeFlow
  <2> QED
    BY <1>1, <1>3, <2>1, <2>2
<1>6. Idle.op = "idle"
  BY DEF Idle, Call
<1> QED
  BY <1>1, <1>2, <1>4, <1>5, <1>6, CallMoves DEF CallRow

LEMMA OnceStep ==
  ASSUME Shape, SpentAndApart, ~twice, [Next]_vars
  PROVE  SpentAndApart' /\ ~twice'
<1>1. ASSUME UNCHANGED vars
      PROVE  SpentAndApart' /\ ~twice'
  BY <1>1 DEF vars, historyVars, SpentAndApart, At
<1>2. ASSUME Next
      PROVE  SpentAndApart' /\ ~twice'
  <2> USE <1>2
  <2>1. PICK X : Uses(X)
    BY UsesStep
  <2>2. 0 \notin Tickets
    BY LoginAssumption
  <2>3. ASSUME NEW i \in Tickets, <<"ticket", i>> \in X
        PROVE  /\ ticket'[i].state = "spent" /\ <<"ticket", i>> \notin used
               /\ \A c \in Calls : call'[c].ticket # i
    <3>1. PICK c \in Calls : call[c].ticket = i /\ call'[c] = Idle
      BY <2>1, <2>3 DEF Uses
    <3>2. call'[c].ticket = 0
      BY <3>1 DEF Idle, Call
    <3>3. \A d \in Calls \ {c} : call'[d] = call[d] /\ call[d].ticket # i
      BY <2>2, <3>1, <3>2, CallMoves DEF SpentAndApart
    <3> QED
      BY <2>2, <3>1, <3>2, <3>3, SpentStays DEF SpentAndApart
  <2>4. ASSUME NEW f \in Flows, <<"flow", f>> \in X
        PROVE  /\ flow[f].state \in {"claimed", "spent"} /\ <<"flow", f>> \notin used
               /\ \A c \in Calls : At(c, {"callback"}, "resolve")' /\ call'[c] = call[c]
                                     => call[c].item # f
    BY <2>1, <2>4 DEF Uses, SpentAndApart, At
  <2>5. \A k \in Codes : <<"code", k>> \in used' => code'[k].state = "spent"
    BY <2>1, SpentStays DEF Uses, SpentAndApart
  <2>6. \A i \in Tickets : <<"ticket", i>> \in used' =>
          ticket'[i].state = "spent" /\ \A c \in Calls : call'[c].ticket # i
    <3> SUFFICES ASSUME NEW i \in Tickets, <<"ticket", i>> \in used
                 PROVE  ticket'[i].state = "spent" /\ \A c \in Calls : call'[c].ticket # i
      BY <2>1, <2>3 DEF Uses
    <3>1. ticket[i].state = "spent" /\ \A c \in Calls : call[c].ticket # i
      BY DEF SpentAndApart
    <3> QED
      BY <2>2, <3>1, SpentStays, CallTicket
  <2>7. ASSUME NEW c \in Calls, call'[c].ticket # 0
        PROVE  /\ ticket'[call'[c].ticket].state = "spent"
               /\ \A d \in Calls \ {c} : call'[d].ticket # call'[c].ticket
    <3>1. \A d \in Calls : call[d].ticket \in Tickets \cup {0}
      BY DEF Shape, TypeOK, CallRow
    <3>2. \A d \in Calls : call[d].ticket # 0 => ticket[call[d].ticket].state = "spent"
      BY DEF SpentAndApart
    <3>3. CASE call'[c].ticket = call[c].ticket
      <4>1. ticket[call[c].ticket].state = "spent" /\ ticket'[call[c].ticket].state = "spent"
        BY <2>7, <3>1, <3>2, <3>3, SpentStays
      <4>2. ASSUME NEW d \in Calls \ {c}
            PROVE  call'[d].ticket # call'[c].ticket
        <5>1. call[d].ticket # call[c].ticket
          BY <2>7, <3>3 DEF SpentAndApart
        <5> QED
          BY <2>7, <3>3, <4>1, <5>1, CallTicket
      <4> QED
        BY <3>3, <4>1, <4>2
    <3>4. CASE /\ call'[c].ticket \in Tickets
               /\ ticket[call'[c].ticket].state = "open"
               /\ ticket'[call'[c].ticket].state = "spent"
               /\ \A d \in Calls \ {c} : call'[d] = call[d]
      BY <2>7, <3>2, <3>4
    <3> QED
      BY <2>7, <3>3, <3>4, CallTicket
  <2>8. ASSUME NEW c \in Calls, At(c, {"callback"}, "resolve")'
        PROVE  /\ flow'[call'[c].item].state \in {"claimed", "spent"}
               /\ <<"flow", call'[c].item>> \notin used'
               /\ \A d \in Calls \ {c} :
                    At(d, {"callback"}, "resolve")' => call'[d].item # call'[c].item
    <3>1. \A d \in Calls : At(d, {"callback"}, "resolve") =>
            call[d].item \in Flows /\ flow[call[d].item].state \in {"claimed", "spent"}
      BY DEF SpentAndApart, At, Shape, CallShape, Shaped
    <3>2. CASE call'[c] = call[c]
      <4>1. At(c, {"callback"}, "resolve")
        BY <2>8, <3>2 DEF At
      <4>2. <<"flow", call[c].item>> \notin used /\ <<"flow", call[c].item>> \notin X
        BY <2>4, <2>8, <3>1, <3>2, <4>1 DEF SpentAndApart
      <4>3. ASSUME NEW d \in Calls \ {c}, At(d, {"callback"}, "resolve")'
            PROVE  call'[d].item # call'[c].item
        <5>1. CASE call'[d] = call[d]
          BY <3>2, <4>1, <4>3, <5>1 DEF SpentAndApart, At
        <5>2. CASE call'[d] # call[d]
          BY <3>1, <3>2, <4>1, <4>3, <5>2, CallResolve
        <5> QED
          BY <5>1, <5>2
      <4> QED
        BY <2>1, <3>1, <3>2, <4>1, <4>2, <4>3, SpentStays DEF Uses
    <3>3. CASE call'[c] # call[c]
      <4>1. /\ call'[c].item \in Flows
            /\ flow[call'[c].item].state \in {"open", "verified"}
            /\ flow'[call'[c].item].state = "claimed"
            /\ \A d \in Calls \ {c} : call'[d] = call[d]
        BY <2>8, <3>3, CallResolve
      <4>2. <<"flow", call'[c].item>> \notin used /\ <<"flow", call'[c].item>> \notin X
        BY <2>4, <4>1 DEF SpentAndApart
      <4>3. ASSUME NEW d \in Calls \ {c}, At(d, {"callback"}, "resolve")'
            PROVE  call'[d].item # call'[c].item
        BY <3>1, <4>1, <4>3 DEF At
      <4> QED
        BY <2>1, <4>1, <4>2, <4>3 DEF Uses
    <3> QED
      BY <3>2, <3>3
  <2>9. \A f \in Flows : <<"flow", f>> \in used' => flow'[f].state \in {"claimed", "spent"}
    BY <2>1, <2>4, SpentStays DEF Uses, SpentAndApart
  <2>10. X \cap used = {}
    <3> SUFFICES ASSUME NEW x \in X, x \in used
                 PROVE  FALSE
      OBVIOUS
    <3>1. x \in Items
      BY <2>1 DEF Uses
    <3>2. ASSUME NEW k \in Codes, x = <<"code", k>>
          PROVE  FALSE
      BY <2>1, <3>2 DEF Uses, SpentAndApart
    <3> QED
      BY <2>3, <2>4, <3>1, <3>2 DEF Items
  <2>11. ~twice'
    BY <2>1, <2>10 DEF Uses
  <2> QED
    BY <2>5, <2>6, <2>7, <2>8, <2>9, <2>11 DEF SpentAndApart
<1> QED
  BY <1>1, <1>2

\* For any number of requests: a code, a ticket and a flow authorise one thing
\* each; spending it first and acting on it in a later transaction is enough.
THEOREM AuthorisedOnce == Spec => []AuthorisesOnce
<1>1. Init => Shape /\ Rooted
  BY ShapeInit
<1>2. Shape /\ Rooted /\ [Next]_vars => Shape' /\ Rooted'
  BY ShapeStep
<1>3. Init => SpentAndApart /\ ~twice
  BY DEF Init, SpentAndApart, Idle, Call, At
<1>4. Shape /\ SpentAndApart /\ ~twice /\ [Next]_vars => SpentAndApart' /\ ~twice'
  BY OnceStep
<1> QED
  BY <1>1, <1>2, <1>3, <1>4, PTL DEF Spec, AuthorisesOnce

(* Apple is told first *)

\* What lets an account of Apple go, on its way from the callback that had the
\* authorisation revoked to the ticket and to the request that spends it.
ToldFirst ==
  /\ \A i \in Tickets : ticket[i].state = "open" /\ ticket[i].method = Apple =>
       ticket[i].what \in revoked
  /\ \A f \in Flows : flow[f].state = "verified" => flow[f].provider = Browser
  /\ \A f \in Flows : flow[f].mode = "reauth" =>
       /\ binding[flow[f].target].state # "none"
       /\ flow[f].provider = Provider(flow[f].target)
  /\ \A c \in Calls : call[c].op \in {"unbind", "delete"} /\ call[c].what # None =>
       /\ binding[call[c].what].state # "none"
       /\ Provider(call[c].what) = Apple => call[c].what \in revoked
  /\ \A c \in Calls : At(c, {"callback"}, "ticket") /\ Provider(call[c].what) = Apple =>
       call[c].what \in revoked
  /\ \A c \in Calls : call[c].op = "callback" /\ call[c].at \in {"claim", "resolve"} =>
       LET f == call[c].item
       IN  /\ flow[f].mode = "reauth" /\ flow[f].provider = Apple
           /\ binding[flow[f].target].subject = call[c].what
           => flow[f].target \in revoked

LEMMA RevokedGrows ==
  ASSUME Next
  PROVE  revoked \subseteq revoked'
<1>1. CodeStep \/ MemberStep \/ FlowStep => UNCHANGED revoked
  BY DEF CodeStep, MemberStep, FlowStep, SendCode, WrongCode, ResetPasswordWithOTP,
         RegisterWithOTP, CreateAdminUser, PasswordLogin, SetAdminUserStatus,
         ReplaceBindings, UpdateLoginSettings, AuthorizeLogin, AuthorizeReauth,
         GitHubBrowserCallback, Use,
         historyVars
<1>2. ASSUME NEW c \in Calls, BeginCall(c)
      PROVE  revoked \subseteq revoked'
  BY <1>2 DEF BeginCall, OTPLogin, ClaimTicketFlow, VerifyIdentity, BeginCallback,
     BeginStepUp, StepUpByPassword, BeginVerify, BeginDeleteIdentifier, BeginSetPassword,
     BeginAuthorizeBind, BeginUnbind, BeginDeletion, Spend, Use, historyVars
<1>3. ASSUME NEW c \in Calls,
             \/ IssueMobileSession(c) \/ ConsumeStepUpCode(c)
             \/ UpsertIdentifier(c) \/ DeleteIdentifier(c) \/ SetPassword(c) \/ Fail(c)
      PROVE  UNCHANGED revoked
  BY <1>3 DEF IssueMobileSession, ConsumeStepUpCode, UpsertIdentifier, DeleteIdentifier,
     SetPassword, Fail, Use, historyVars
<1>4. ASSUME NEW c \in Calls, \E i \in Tickets : IssueStepUp(c, i)
      PROVE  UNCHANGED revoked
  BY <1>4 DEF IssueStepUp, historyVars
<1>5. ASSUME NEW c \in Calls,
             \/ \E f \in Flows : AuthorizeBind(c, f)
             \/ ClaimNativeFlow(c)
             \/ ResolveLogin(c) \/ ResolveRegistration(c) \/ ResolveBind(c)
             \/ ResolveReauth(c)
             \/ DeleteOAuthAccount(c) \/ ConfirmAccountDeletion(c)
      PROVE  UNCHANGED revoked
  BY <1>5 DEF AuthorizeBind, ClaimNativeFlow, ResolveLogin, ResolveRegistration,
     ResolveBind, ResolveReauth, Resolves, DeleteOAuthAccount, ConfirmAccountDeletion, Use,
     historyVars
<1> QED
  BY <1>1, <1>2, <1>3, <1>4, <1>5, Steps

\* An open ticket was open before or is issued.
LEMMA TicketNew ==
  ASSUME Shape, Next, NEW i \in Tickets, ticket'[i].state = "open"
  PROVE  ticket'[i] = ticket[i] \/ \E c \in Calls : IssueStepUp(c, i)
<1>0. ticket \in [Tickets -> TicketRow] /\ SpentTicket.state = "spent"
  BY DEF Shape, TypeOK, SpentTicket, NoTicket
<1>1. CodeStep \/ MemberStep \/ FlowStep => UNCHANGED ticket
  BY DEF CodeStep, MemberStep, FlowStep, SendCode, WrongCode, ResetPasswordWithOTP,
         RegisterWithOTP, CreateAdminUser, PasswordLogin, SetAdminUserStatus,
         ReplaceBindings, UpdateLoginSettings, AuthorizeLogin, AuthorizeReauth,
         GitHubBrowserCallback, CreateFlow
<1>2. ASSUME NEW c \in Calls, BeginCall(c)
      PROVE  ticket'[i] = ticket[i]
  <2>1. UNCHANGED ticket \/ \E j \in Tickets : ConsumeStepUpTicket(j)
    BY <1>2 DEF BeginCall, OTPLogin, ClaimTicketFlow, VerifyIdentity, BeginCallback,
       BeginStepUp, StepUpByPassword, BeginVerify, BeginDeleteIdentifier, BeginSetPassword,
       BeginAuthorizeBind, BeginUnbind, BeginDeletion, Spend
  <2> QED
    BY <1>0, <2>1 DEF ConsumeStepUpTicket
<1>3. ASSUME NEW c \in Calls, NEW j \in Tickets, IssueStepUp(c, j)
      PROVE  ticket'[i] = ticket[i] \/ j = i
  BY <1>0, <1>3 DEF IssueStepUp
<1>4. ASSUME NEW c \in Calls, ConfirmAccountDeletion(c)
      PROVE  ticket'[i] = ticket[i]
  BY <1>0, <1>4 DEF ConfirmAccountDeletion
<1>5. ASSUME NEW c \in Calls,
             \/ IssueMobileSession(c) \/ ConsumeStepUpCode(c)
             \/ UpsertIdentifier(c) \/ DeleteIdentifier(c) \/ SetPassword(c) \/ Fail(c)
      PROVE  UNCHANGED ticket
  BY <1>5 DEF IssueMobileSession, ConsumeStepUpCode, UpsertIdentifier, DeleteIdentifier,
     SetPassword, Fail
<1>6. ASSUME NEW c \in Calls,
             \/ \E f \in Flows : AuthorizeBind(c, f)
             \/ ClaimNativeFlow(c)
             \/ ResolveLogin(c) \/ ResolveRegistration(c) \/ ResolveBind(c)
             \/ ResolveReauth(c) \/ DeleteOAuthAccount(c)
      PROVE  UNCHANGED ticket
  BY <1>6 DEF AuthorizeBind, CreateFlow, ClaimNativeFlow, ResolveLogin,
     ResolveRegistration, ResolveBind, ResolveReauth, Resolves, DeleteOAuthAccount
<1>7. ASSUME NEW c \in Calls,
             \/ \E f \in Flows : AuthorizeBind(c, f)
             \/ ClaimNativeFlow(c)
             \/ ResolveLogin(c) \/ ResolveRegistration(c) \/ ResolveBind(c)
             \/ ResolveReauth(c)
             \/ DeleteOAuthAccount(c) \/ ConfirmAccountDeletion(c)
      PROVE  ticket'[i] = ticket[i]
  BY <1>4, <1>6, <1>7
<1> QED
  BY <1>1, <1>2, <1>3, <1>5, <1>7, Steps

\* A flow stays what it is and is verified for GitHub only, or it is new.
LEMMA FlowNew ==
  ASSUME Shape, Next, NEW f \in Flows
  PROVE  \/ flow'[f] = flow[f] \/ flow'[f] = SpentFlow
         \/ /\ flow[f].state # "none" /\ flow'[f].mode = flow[f].mode
            /\ flow'[f].provider = flow[f].provider /\ flow'[f].target = flow[f].target
            /\ flow'[f].state = "verified" => flow[f].provider = Browser
         \/ flow[f].state = "none" /\ flow'[f].state = "open" /\ flow'[f].mode # "reauth"
         \/ /\ flow[f].state = "none" /\ flow'[f].state = "open" /\ UNCHANGED binding
            /\ binding[flow'[f].target].state # "none"
            /\ flow'[f].provider = Provider(flow'[f].target)
<1> DEFINE New == \/ flow'[f] = flow[f] \/ flow'[f] = SpentFlow
                  \/ /\ flow[f].state # "none" /\ flow'[f].mode = flow[f].mode
                     /\ flow'[f].provider = flow[f].provider
                     /\ flow'[f].target = flow[f].target
                     /\ flow'[f].state = "verified" => flow[f].provider = Browser
                  \/ /\ flow[f].state = "none" /\ flow'[f].state = "open"
                     /\ flow'[f].mode # "reauth"
                  \/ /\ flow[f].state = "none" /\ flow'[f].state = "open"
                     /\ UNCHANGED binding
                     /\ binding[flow'[f].target].state # "none"
                     /\ flow'[f].provider = Provider(flow'[f].target)
<1>0. flow \in [Flows -> FlowRow]
  BY DEF Shape, TypeOK
<1>1. CodeStep \/ MemberStep => New
  BY DEF CodeStep, MemberStep, SendCode, WrongCode, ResetPasswordWithOTP,
         RegisterWithOTP, CreateAdminUser, PasswordLogin, SetAdminUserStatus,
         ReplaceBindings, UpdateLoginSettings
<1>2. ASSUME FlowStep
      PROVE  New
  <2>1. ASSUME NEW g \in Flows, NEW p, AuthorizeLogin(g, p)
        PROVE  New
    BY <1>0, <2>1 DEF AuthorizeLogin, CreateFlow, Turn, Flow
  <2>2. ASSUME NEW g \in Flows, NEW u \in Users, NEW b \in Bindings, NEW p,
               AuthorizeReauth(g, u, b, p)
        PROVE  New
    <3>1. CASE g = f
      <4>1. /\ flow'[f] = Flow("open", "reauth", Provider(b), u, p, b)
            /\ flow[f].state = "none" /\ UNCHANGED binding
        BY <1>0, <2>2, <3>1 DEF AuthorizeReauth, CreateFlow, Turn
      <4>2. /\ flow'[f].state = "open" /\ flow'[f].target = b
            /\ flow'[f].provider = Provider(b)
        BY <4>1 DEF Flow
      <4>3. binding[b].state # "none"
        BY <2>2 DEF AuthorizeReauth, Mine
      <4> QED
        BY <4>1, <4>2, <4>3
    <3>2. CASE g # f
      BY <1>0, <2>2, <3>2 DEF AuthorizeReauth, CreateFlow
    <3> QED
      BY <3>1, <3>2
  <2>3. ASSUME NEW g \in Flows, NEW s, GitHubBrowserCallback(g, s)
        PROVE  New
    <3>1. CASE g = f
      <4>1. /\ flow[f].state = "open" /\ flow[f].provider = Browser
            /\ flow' = [flow EXCEPT ![f].state = "verified", ![f].subject = s]
        BY <2>3, <3>1 DEF GitHubBrowserCallback
      <4>2. /\ flow'[f].mode = flow[f].mode /\ flow'[f].provider = flow[f].provider
            /\ flow'[f].target = flow[f].target
        BY <1>0, <4>1 DEF FlowRow, NoFlow, SpentFlow, Flow
      <4> QED
        BY <4>1, <4>2
    <3>2. CASE g # f
      BY <1>0, <2>3, <3>2 DEF GitHubBrowserCallback
    <3> QED
      BY <3>1, <3>2
  <2> HIDE DEF New
  <2> QED
    BY <1>2, <2>1, <2>2, <2>3 DEF FlowStep
<1>3. ASSUME NEW g \in Flows, flow[g].state \in {"open", "verified"},
             flow' = [flow EXCEPT ![g].state = "claimed"]
      PROVE  New
  BY <1>0, <1>3 DEF FlowRow, NoFlow, SpentFlow, Flow
<1>4. ASSUME NEW c \in Calls, BeginCall(c)
      PROVE  New
  <2>1. UNCHANGED flow \/ \E g \in Flows, s \in play.subjects : ClaimTicketFlow(c, g, s)
    BY <1>4 DEF BeginCall, OTPLogin, VerifyIdentity, BeginStepUp, StepUpByPassword,
       BeginVerify, BeginDeleteIdentifier, BeginSetPassword, BeginAuthorizeBind,
       BeginUnbind, BeginDeletion, Spend
  <2>2. UNCHANGED flow => New
    OBVIOUS
  <2> HIDE DEF New
  <2> QED
    BY <1>3, <2>1, <2>2 DEF ClaimTicketFlow
<1>5. ASSUME NEW c \in Calls,
             \/ IssueMobileSession(c) \/ ConsumeStepUpCode(c)
             \/ UpsertIdentifier(c) \/ DeleteIdentifier(c) \/ SetPassword(c) \/ Fail(c)
      PROVE  New
  BY <1>5 DEF IssueMobileSession, ConsumeStepUpCode, UpsertIdentifier, DeleteIdentifier,
     SetPassword, Fail
<1>6. ASSUME NEW c \in Calls, \E i \in Tickets : IssueStepUp(c, i)
      PROVE  New
  BY <1>6 DEF IssueStepUp
<1>7. ASSUME NEW c \in Calls, NEW g \in Flows, AuthorizeBind(c, g)
      PROVE  New
  BY <1>0, <1>7 DEF AuthorizeBind, CreateFlow, Turn, Flow
<1>8. ASSUME NEW c \in Calls, ClaimNativeFlow(c)
      PROVE  New
  <2>1. call[c].item \in Flows
    BY <1>8 DEF ClaimNativeFlow, At, Shape, CallShape, Shaped
  <2> HIDE DEF New
  <2> QED
    BY <1>3, <1>8, <2>1 DEF ClaimNativeFlow
<1>9. ASSUME NEW c \in Calls,
             \/ ResolveLogin(c) \/ ResolveRegistration(c) \/ ResolveBind(c)
             \/ ResolveReauth(c) \/ DeleteOAuthAccount(c) \/ ConfirmAccountDeletion(c)
      PROVE  New
  BY <1>9 DEF ResolveLogin, ResolveRegistration, ResolveBind, ResolveReauth, Resolves,
     DeleteOAuthAccount, ConfirmAccountDeletion
<1>10. ASSUME NEW c \in Calls,
              \/ \E g \in Flows : AuthorizeBind(c, g)
              \/ ClaimNativeFlow(c)
              \/ ResolveLogin(c) \/ ResolveRegistration(c) \/ ResolveBind(c)
              \/ ResolveReauth(c)
              \/ DeleteOAuthAccount(c) \/ ConfirmAccountDeletion(c)
       PROVE  New
  <2> HIDE DEF New
  <2> QED
    BY <1>7, <1>8, <1>9, <1>10
<1>11. New
  <2> HIDE DEF New
  <2> QED
    BY <1>1, <1>2, <1>4, <1>5, <1>6, <1>10, Steps
<1> QED
  BY <1>11

\* Removing an account of Apple begins with a ticket of Apple for the account.
LEMMA RemovalBegun ==
  ASSUME Shape, NEW c \in Calls, BeginCall(c), call'[c].op \in {"unbind", "delete"},
         call'[c].what # None
  PROVE  /\ binding[call'[c].what].state = "bound"
         /\ Provider(call'[c].what) = Apple =>
              \E i \in Tickets : /\ ticket[i].state = "open" /\ ticket[i].method = Apple
                                 /\ ticket[i].what = call'[c].what
<1>1. ASSUME NEW op, NEW at, NEW u, NEW p, NEW w, NEW k, NEW i,
             Begin(c, Call(op, at, u, p, w, k, i))
      PROVE  call'[c].op = op /\ call'[c].what = w
  BY <1>1 DEF Begin, Call, Shape, TypeOK
<1>2. \E u \in Users : BeginDeletion(c, u) \/ \E b \in Bindings : BeginUnbind(c, u, b)
  <2>1. ASSUME \/ \E k \in Codes : OTPLogin(c, k)
               \/ \E f \in Flows, s \in play.subjects :
                    ClaimTicketFlow(c, f, s) \/ VerifyIdentity(c, f, s)
        PROVE  FALSE
    BY <1>1, <2>1 DEF OTPLogin, ClaimTicketFlow, VerifyIdentity, BeginCallback
  <2>2. ASSUME NEW u \in Users,
               \/ \E k \in Codes, s \in Scopes(u) : BeginStepUp(c, u, k, s)
               \/ \E s \in Scopes(u) : StepUpByPassword(c, u, s)
               \/ \E k \in Codes : BeginVerify(c, u, k)
               \/ \E t \in Types : BeginDeleteIdentifier(c, u, t)
               \/ BeginSetPassword(c, u)
               \/ \E p \in Offered : BeginAuthorizeBind(c, u, p)
        PROVE  FALSE
    BY <1>1, <2>2 DEF BeginStepUp, StepUpByPassword, BeginVerify, BeginDeleteIdentifier,
       BeginSetPassword, BeginAuthorizeBind, Spend
  <2> QED
    BY <2>1, <2>2 DEF BeginCall
<1>3. PICK u \in Users : BeginDeletion(c, u) \/ \E b \in Bindings : BeginUnbind(c, u, b)
  BY <1>2
<1>4. ASSUME NEW b \in Bindings, BeginUnbind(c, u, b)
      PROVE  /\ call'[c].what = b /\ binding[b].state = "bound"
             /\ Provider(b) = Apple =>
                  \E i \in Tickets : /\ ticket[i].state = "open" /\ ticket[i].method = Apple
                                     /\ ticket[i].what = b
  BY <1>1, <1>4 DEF BeginUnbind, Spend, Mine
<1>5. ASSUME BeginDeletion(c, u)
      PROVE  \E b \in Bindings :
               /\ call'[c].what = b /\ binding[b].state = "bound"
               /\ \E i \in Tickets : /\ ticket[i].state = "open" /\ ticket[i].method = Apple
                                     /\ ticket[i].what = b
  BY <1>1, <1>5 DEF BeginDeletion, Spend, AppleAccounts, Mine
<1> QED
  BY <1>3, <1>4, <1>5

LEMMA ToldStep ==
  ASSUME Shape, Rooted, ToldFirst, Next
  PROVE  ToldFirst'
<1>1. AccountMoves /\ revoked \subseteq revoked'
  BY AccountsMove, RevokedGrows
<1>2. \A b \in Bindings : binding[b].state # "none" => Provider(b)' = Provider(b)
  BY <1>1 DEF AccountMoves, Provider
<1>3. \A c \in Calls : Shaped(call[c], flow) /\ call[c] \in CallRow
  BY DEF Shape, TypeOK, CallShape
<1>4. Apple # Browser /\ Apple # "own"
  BY DEF Apple, Browser
<1>5. ASSUME NEW i \in Tickets, ticket'[i].state = "open", ticket'[i].method = Apple
      PROVE  ticket'[i].what \in revoked'
  <2>1. CASE ticket'[i] = ticket[i]
    BY <1>1, <1>5, <2>1 DEF ToldFirst
  <2>2. ASSUME NEW c \in Calls, IssueStepUp(c, i)
        PROVE  ticket'[i].what \in revoked'
    <3>1. /\ ticket'[i].what = call[c].what
          /\ ticket'[i].method = IF call[c].op = "callback" THEN Provider(call[c].what)
                                 ELSE "own"
      BY <2>2 DEF IssueStepUp, Shape, TypeOK
    <3>2. At(c, {"callback"}, "ticket") /\ Provider(call[c].what) = Apple
      BY <1>4, <1>5, <2>2, <3>1 DEF IssueStepUp, At
    <3> QED
      BY <1>1, <3>1, <3>2 DEF ToldFirst
  <2> QED
    BY <1>5, <2>1, <2>2, TicketNew
<1>6. ASSUME NEW f \in Flows, flow'[f].state = "verified"
      PROVE  flow'[f].provider = Browser
  <2>1. SpentFlow.state = "spent"
    BY DEF SpentFlow, Flow
  <2> QED
    BY <1>6, <2>1, FlowNew DEF ToldFirst
<1>7. ASSUME NEW f \in Flows, flow'[f].mode = "reauth"
      PROVE  /\ binding'[flow'[f].target].state # "none"
             /\ flow'[f].provider = Provider(flow[f].target)'
  <2>1. SpentFlow.mode # "reauth"
    BY LoginAssumption DEF SpentFlow, Flow, Modes
  <2>2. CASE /\ flow'[f].mode = flow[f].mode /\ flow'[f].provider = flow[f].provider
             /\ flow'[f].target = flow[f].target
    <3>1. /\ flow[f].target \in Bindings /\ binding[flow[f].target].state # "none"
          /\ flow[f].provider = ProviderOf[binding[flow[f].target].subject]
      BY <1>7, <2>2 DEF ToldFirst, Shape, FlowShape, Provider
    <3>2. /\ binding'[flow[f].target].state # "none"
          /\ binding'[flow[f].target].subject = binding[flow[f].target].subject
      BY <1>1, <3>1 DEF AccountMoves
    <3> QED
      BY <2>2, <3>1, <3>2 DEF Provider
  <2>3. CASE /\ UNCHANGED binding /\ binding[flow'[f].target].state # "none"
             /\ flow'[f].provider = Provider(flow'[f].target)
    BY <2>3 DEF Provider
  <2> QED
    BY <1>7, <2>1, <2>2, <2>3, FlowNew
<1>8. ASSUME NEW c \in Calls, call'[c].op \in {"unbind", "delete"}, call'[c].what # None
      PROVE  /\ binding'[call'[c].what].state # "none"
             /\ Provider(call[c].what)' = Apple => call'[c].what \in revoked'
  <2> DEFINE b == call'[c].what
  <2>1. b \in Bindings
    <3>1. Shape'
      BY ShapeStep
    <3> QED
      BY <1>8, <3>1 DEF Shape, CallShape, Shaped
  <2>2. CASE call'[c] = call[c]
    <3>1. binding[b].state # "none" /\ (Provider(b) = Apple => b \in revoked)
      BY <1>8, <2>2 DEF ToldFirst
    <3>2. Provider(call[c].what)' = Provider(b)
      BY <1>1, <2>1, <3>1 DEF AccountMoves, Provider
    <3> QED
      BY <1>1, <2>1, <3>1, <3>2 DEF AccountMoves
  <2>3. CASE BeginCall(c)
    <3>1. /\ binding[b].state = "bound"
          /\ Provider(b) = Apple =>
               \E i \in Tickets : /\ ticket[i].state = "open" /\ ticket[i].method = Apple
                                  /\ ticket[i].what = b
      BY <1>8, <2>3, RemovalBegun
    <3>2. Provider(call[c].what)' = Provider(b)
      BY <1>1, <2>1, <3>1 DEF AccountMoves, Provider
    <3> QED
      BY <1>1, <2>1, <3>1, <3>2 DEF AccountMoves, ToldFirst
  <2>4. Idle.op = "idle"
    BY DEF Idle, Call
  <2>5. call'[c] = call[c] \/ BeginCall(c)
    <3> SUFFICES ASSUME call'[c] # call[c]
                 PROVE  BeginCall(c)
      OBVIOUS
    <3>1. ASSUME ConsumeStepUpCode(c), call'[c] = [call[c] EXCEPT !.at = "ticket"]
          PROVE  FALSE
      BY <1>3, <1>8, <3>1 DEF ConsumeStepUpCode, At, CallRow
    <3>2. ASSUME ClaimNativeFlow(c), call'[c] = [call[c] EXCEPT !.at = "resolve"]
          PROVE  FALSE
      BY <1>3, <1>8, <3>2 DEF ClaimNativeFlow, At, CallRow
    <3>3. ASSUME ResolveReauth(c), call'[c] = [call[c] EXCEPT !.at = "ticket",
                                       !.what = flow[call[c].item].target]
          PROVE  FALSE
      BY <1>3, <1>8, <3>3 DEF ResolveReauth, Resolves, At, CallRow
    <3> QED
      BY <1>8, <2>4, <3>1, <3>2, <3>3, CallMoves
  <2> QED
    BY <2>2, <2>3, <2>5
<1>9. ASSUME NEW c \in Calls, At(c, {"callback"}, "ticket")', Provider(call[c].what)' = Apple
      PROVE  call'[c].what \in revoked'
  <2> DEFINE b == call'[c].what
  <2>1. CASE call'[c] = call[c]
    <3>1. At(c, {"callback"}, "ticket")
      BY <1>9, <2>1 DEF At
    <3>2. b \in Bindings /\ binding[b].state # "none"
      BY <1>3, <2>1, <3>1 DEF Rooted, At, Shaped
    <3>3. Provider(call[c].what)' = Provider(b)
      BY <1>1, <3>2 DEF AccountMoves, Provider
    <3> QED
      BY <1>1, <1>9, <2>1, <3>1, <3>3 DEF ToldFirst
  <2>2. CASE call'[c] # call[c]
    <3> DEFINE f == call[c].item
    <3>1. /\ ResolveReauth(c)
          /\ call'[c] = [call[c] EXCEPT !.at = "ticket", !.what = flow[call[c].item].target]
      <4>1. call'[c].op = "callback" /\ call'[c].at = "ticket"
        BY <1>9 DEF At
      <4>2. Idle.op = "idle"
        BY DEF Idle, Call
      <4>3. ASSUME BeginCall(c)
            PROVE  FALSE
        <5>1. PICK point \in {"resolve", "claim"}, g \in Flows, s \in play.subjects :
                call'[c] = Call("callback", point, flow[g].user, flow[g].purpose, s, g, 0)
          BY <4>1, <4>3, CallbackBegun
        <5> QED
          BY <4>1, <5>1 DEF Call
      <4>4. ASSUME ConsumeStepUpCode(c), call'[c] = [call[c] EXCEPT !.at = "ticket"]
            PROVE  FALSE
        BY <1>3, <4>1, <4>4 DEF ConsumeStepUpCode, At, CallRow
      <4>5. ASSUME call'[c] = [call[c] EXCEPT !.at = "resolve"]
            PROVE  FALSE
        BY <1>3, <4>1, <4>5 DEF CallRow
      <4> QED
        BY <2>2, <4>1, <4>2, <4>3, <4>4, <4>5, CallMoves
    <3>2. /\ b = flow[f].target /\ f \in Flows /\ call[c].op = "callback"
          /\ call[c].at = "resolve" /\ flow[f].mode = "reauth"
          /\ b \in Account(call[c].what)
      <4>1. /\ At(c, {"callback"}, "resolve") /\ flow[f].mode = "reauth"
            /\ flow[f].target \in Account(call[c].what)
        BY <3>1 DEF ResolveReauth, Resolves
      <4>2. b = flow[f].target
        BY <1>3, <3>1 DEF CallRow
      <4> QED
        BY <1>3, <4>1, <4>2 DEF At, Shaped
    <3>3. /\ b \in Bindings /\ binding[b].state = "bound"
          /\ binding[b].subject = call[c].what
      BY <3>2 DEF Account
    <3>4. Provider(call[c].what)' = Provider(b) /\ flow[f].provider = Provider(b)
      BY <1>1, <3>2, <3>3 DEF AccountMoves, Provider, ToldFirst
    <3> QED
      BY <1>1, <1>9, <3>2, <3>3, <3>4 DEF ToldFirst
  <2> QED
    BY <2>1, <2>2
<1>10. ASSUME NEW c \in Calls, call'[c].op = "callback", call'[c].at \in {"claim", "resolve"},
              flow'[call'[c].item].mode = "reauth", flow'[call'[c].item].provider = Apple,
              binding'[flow'[call'[c].item].target].subject = call'[c].what
       PROVE  flow'[call'[c].item].target \in revoked'
  <2> DEFINE f == call'[c].item
             b == flow'[f].target
  <2>1. SpentFlow.mode # "reauth"
    BY LoginAssumption DEF SpentFlow, Flow, Modes
  <2>2. ASSUME f \in Flows, flow[f].state # "none"
        PROVE  /\ flow[f].mode = "reauth" /\ flow[f].provider = Apple
               /\ flow[f].target = b /\ b \in Bindings
               /\ binding[b].state # "none" /\ binding[b].subject = call'[c].what
    <3>1. /\ flow'[f].mode = flow[f].mode /\ flow'[f].provider = flow[f].provider
          /\ flow'[f].target = flow[f].target
      BY <1>10, <2>1, <2>2, FlowNew
    <3>2. flow[f].target \in Bindings /\ binding[flow[f].target].state # "none"
      BY <1>10, <2>2, <3>1 DEF ToldFirst, Shape, FlowShape
    <3> QED
      BY <1>1, <1>10, <3>1, <3>2 DEF AccountMoves
  <2>3. ASSUME call[c].op = "callback", call[c].at \in {"claim", "resolve"},
               call[c].item = f, call[c].what = call'[c].what
        PROVE  b \in revoked'
    <3>1. f \in Flows /\ flow[f].state # "none"
      BY <1>3, <2>3 DEF Shaped
    <3> QED
      BY <1>1, <2>2, <2>3, <3>1 DEF ToldFirst
  <2>4. CASE call'[c] = call[c]
    BY <1>10, <2>3, <2>4
  <2>5. CASE ClaimNativeFlow(c) /\ call'[c] = [call[c] EXCEPT !.at = "resolve"]
    BY <1>3, <2>3, <2>5 DEF ClaimNativeFlow, At, CallRow
  <2>6. CASE BeginCall(c)
    <3>1. PICK g \in Flows, s \in play.subjects :
            \/ /\ ClaimTicketFlow(c, g, s)
               /\ call'[c] = Call("callback", "resolve", flow[g].user, flow[g].purpose, s, g, 0)
            \/ /\ VerifyIdentity(c, g, s)
               /\ call'[c] = Call("callback", "claim", flow[g].user, flow[g].purpose, s, g, 0)
      BY <1>10, <2>6, CallbackBegun
    <3>2. f = g /\ call'[c].what = s
      BY <3>1 DEF Call
    <3>3. CASE ClaimTicketFlow(c, g, s)
      <4>1. flow[g].state = "verified"
        BY <3>3 DEF ClaimTicketFlow
      <4> QED
        BY <1>4, <2>2, <3>2, <4>1 DEF ToldFirst
    <3>4. CASE VerifyIdentity(c, g, s)
      <4>1. /\ flow[g].state # "none" /\ Runtime(g)
            /\ revoked' = IF flow[g].provider = Apple /\ flow[g].mode = "reauth"
                            THEN revoked \cup Account(s) ELSE revoked
        BY <3>4 DEF VerifyIdentity
      <4>2. flow[g].mode = "reauth" /\ flow[g].provider = Apple /\ flow[g].target = b
        BY <2>2, <3>2, <4>1
      <4>3. b \in Account(s)
        BY <2>2, <3>2, <4>1, <4>2 DEF Runtime, Mine, Account
      <4> QED
        BY <4>1, <4>2, <4>3
    <3> QED
      BY <3>1, <3>3, <3>4
  <2>7. Idle.op = "idle"
    BY DEF Idle, Call
  <2>8. ASSUME call'[c].at = "ticket"
        PROVE  FALSE
    BY <1>10, <2>8
  <2>9. ASSUME \/ call'[c] = [call[c] EXCEPT !.at = "ticket"]
               \/ call'[c] = [call[c] EXCEPT !.at = "ticket", !.what = flow[call[c].item].target]
        PROVE  FALSE
    BY <1>3, <2>8, <2>9 DEF CallRow
  <2> QED
    BY <1>10, <2>4, <2>5, <2>6, <2>7, <2>9, CallMoves
<1> QED
  BY <1>5, <1>6, <1>7, <1>8, <1>9, <1>10 DEF ToldFirst

\* For any number of members and requests: an account of Apple goes, with an
\* unbinding or with its user, after Apple was told.
THEOREM AppleToldFirst == Spec => AppleGoesRevoked
<1> DEFINE Told == \A b \in Bindings :
                     binding[b].state = "bound" /\ Provider(b) = Apple
                       /\ binding'[b].state = "gone"
                     => b \in revoked
<1>1. Init => Shape /\ Rooted
  BY ShapeInit
<1>2. Shape /\ Rooted /\ [Next]_vars => Shape' /\ Rooted'
  BY ShapeStep
<1>3. Init => ToldFirst
  BY LoginAssumption DEF Init, ToldFirst, NoTicket, NoFlow, Flow, Modes, Idle, Call, At
<1>4. Shape /\ Rooted /\ ToldFirst /\ [Next]_vars => ToldFirst'
  <2>1. UNCHANGED vars /\ ToldFirst => ToldFirst'
    BY DEF vars, historyVars, ToldFirst, At, Provider
  <2> QED
    BY <2>1, ToldStep
<1>5. Shape /\ ToldFirst /\ [Next]_vars => [Told]_vars
  <2> SUFFICES ASSUME Shape, ToldFirst, Next,
                      NEW b \in Bindings, binding[b].state = "bound", Provider(b) = Apple,
                      binding'[b].state = "gone"
               PROVE  b \in revoked
    OBVIOUS
  <2>1. ASSUME NEW u \in Users, NEW s \in Subjects, InsertAccount(u, s)
        PROVE  FALSE
    BY <2>1, InsertTyped DEF Shape, TypeOK
  <2>2. ASSUME NEW c \in Calls, ResolveRegistration(c)
        PROVE  FALSE
    <3>1. call[c].what \in Subjects
      BY <2>2 DEF ResolveRegistration, Resolves, At, Shape, CallShape, Shaped
    <3> QED
      BY <2>1, <2>2, <3>1, NewcomerTyped DEF ResolveRegistration, Shape
  <2>3. ASSUME NEW c \in Calls, ResolveBind(c)
        PROVE  FALSE
    <3>1. call[c].what \in Subjects /\ call[c].user \in Users
      BY <2>3 DEF ResolveBind, Resolves, At, Shape, CallShape, FlowShape, Shaped
    <3> QED
      BY <2>1, <2>3, <3>1 DEF ResolveBind
  <2>4. ASSUME NEW c \in Calls, DeleteOAuthAccount(c)
        PROVE  b \in revoked
    <3>1. b = call[c].what
      BY <2>4 DEF DeleteOAuthAccount, Shape, TypeOK
    <3> QED
      BY <2>4, <3>1, LoginAssumption DEF DeleteOAuthAccount, At, ToldFirst
  <2>5. ASSUME NEW c \in Calls, ConfirmAccountDeletion(c)
        PROVE  b \in revoked
    <3>1. Mine(b, call[c].user)
      BY <2>5 DEF ConfirmAccountDeletion
    <3>2. b = call[c].what /\ call[c].op = "delete"
      BY <2>5, <3>1 DEF ConfirmAccountDeletion, AppleIsVerified, AppleAccounts, At
    <3> QED
      BY <3>2, LoginAssumption DEF ToldFirst
  <2>6. binding' # binding
    OBVIOUS
  <2> QED
    BY <2>2, <2>3, <2>4, <2>5, <2>6, Accounts
<1> QED
  BY <1>1, <1>2, <1>3, <1>4, <1>5, PTL DEF Spec, AppleGoesRevoked

=============================================================================
