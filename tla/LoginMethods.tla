---------------------------- MODULE LoginMethods ----------------------------
(***************************************************************************)
(* How the members of one App sign in and change how they sign in: e-mail  *)
(* addresses and mobile numbers (app.user_login_identifiers), a password,  *)
(* accounts of providers (iam.app_oauth_accounts), one-time codes and      *)
(* step-up tickets (iam.verification_challenges), and authorization flows. *)
(*                                                                         *)
(* A request that changes something spends a ticket in one transaction and *)
(* does its work in another; a callback verifies an identity, claims its   *)
(* flow and resolves the identity.  A transaction is SERIALIZABLE and one  *)
(* step; one that refuses or fails changes nothing and its request ends    *)
(* (Fail).  Codes, tickets, flows and accounts have an identity of their   *)
(* own and are never reused.  Who takes part, and with how many of each,   *)
(* is the play.                                                            *)
(***************************************************************************)
EXTENDS Naturals, FiniteSets

CONSTANTS
  Users, Values, Subjects, Bindings, Providers,
  TypeOf,       \* of a value: email or mobile
  ProviderOf,   \* of a subject
  EmailOf,      \* the verified e-mail a provider tells, or None
  Calls, Codes, Tickets, Flows,
  Plays,
  MaxAttempts,  \* verification_challenges.max_attempts (5)
  None          \* NULL

Types == {"email", "mobile"}
Apple == "apple"
Browser == "github"     \* verified in the browser, completed with a ticket
Modes == {"login", "bind", "reauth"}
Scoped == {"identifier_change", "identifier_unbind", "oauth_bind", "oauth_unbind",
           "account_delete", "password_bind"}
Reauthentications == {"oauth_unbind", "account_delete"}
Public == {"login", "registration", "password_reset"}
Purposes == Public \cup {"bind", "step_up"}

ASSUME LoginAssumption ==
  /\ Calls \subseteq Nat
  /\ Codes \subseteq Nat \ {0}
  /\ Tickets \subseteq Nat \ {0}
  /\ Flows \subseteq Nat \ {0}
  /\ MaxAttempts \in Nat \ {0}
  /\ TypeOf \in [Values -> Types]
  /\ ProviderOf \in [Subjects -> Providers]
  /\ EmailOf \in [Subjects -> Values \cup {None}]
  /\ Providers \cap Types = {}
  /\ None \notin Users \cup Values \cup Subjects \cup Bindings \cup Types \cup Modes
  /\ Plays \subseteq
       [users : SUBSET Users, values : SUBSET Values, subjects : SUBSET Subjects,
        purposes : SUBSET Purposes, channels : SUBSET Types, codes : SUBSET Codes, tickets : SUBSET Tickets,
        flows : SUBSET Flows]

VARIABLES
  play,
  \* app.user_memberships, users with a mobile session
  member, signedIn,
  \* user_login_identifiers by value, user_credentials, app_oauth_accounts
  holder, password, binding,
  \* what the App has switched on: providers that are bound to it, enabled and
  \* ready, and the channels of its public codes
  enabled,
  code, ticket, flow,
  \* requests in flight
  call,
  \* history: codes, tickets and flows that authorised something, whether one
  \* did so twice, and accounts whose authorisation Apple revoked
  used, twice, revoked

memberVars == <<member, signedIn, holder, password>>
historyVars == <<used, twice, revoked>>
vars == <<play, memberVars, binding, enabled, code, ticket, flow, call, historyVars>>

Offered == {ProviderOf[s] : s \in play.subjects}
Active(u) == member[u] = "active"
Authentic(u) == Active(u) /\ u \in signedIn
Holds(u, t) == \E v \in Values : holder[v] = u /\ TypeOf[v] = t
Mine(b, u) == binding[b].state = "bound" /\ binding[b].user = u
Provider(b) == ProviderOf[binding[b].subject]

\* What is left to user u without account b and without the identifier of type
\* t: a password is of use with an e-mail address only.
MethodLeft(u, b, t) ==
  \/ \E v \in Values : holder[v] = u /\ TypeOf[v] # t
  \/ u \in password /\ Holds(u, "email") /\ t # "email"
  \/ \E a \in Bindings \ {b} : Mine(a, u) /\ Provider(a) \in enabled
HasMethod(u) == MethodLeft(u, None, None)

\* The state of something that is created and used up, one after the other.
Turn(S, f, i) ==
  i \in S /\ f[i].state = "none" /\ \A j \in S : j < i => f[j].state # "none"
NoBinding == [state |-> "none", user |-> None, subject |-> None]
NoCode == [state |-> "none", purpose |-> None, value |-> None, user |-> None, tries |-> 0]
SpentCode == [NoCode EXCEPT !.state = "spent"]
NoTicket == [state |-> "none", user |-> None, purpose |-> None, what |-> None,
             method |-> None]
SpentTicket == [NoTicket EXCEPT !.state = "spent"]
Flow(state, mode, p, u, purpose, b) ==
  [state |-> state, mode |-> mode, provider |-> p, user |-> u, purpose |-> purpose,
   target |-> b, subject |-> None]
NoFlow == Flow("none", None, None, None, None, None)
SpentFlow == Flow("spent", None, None, None, None, None)

\* The next user to be created, whichever id it gets.
Newcomers ==
  LET new == {u \in play.users : member[u] = "none"}
  IN  IF new = {} THEN {} ELSE {CHOOSE u \in new : TRUE}

Ops == {"idle", "login", "step_up", "verify", "drop", "password", "bind", "callback",
        "unbind", "delete"}
Points == {"idle", "session", "proof", "ticket", "commit", "claim", "resolve"}
Resources == Types \cup Providers \cup Bindings \cup {"password", None}
Call(op, at, u, p, w, k, i) ==
  [op |-> op, at |-> at, user |-> u, purpose |-> p, what |-> w, item |-> k, ticket |-> i]
Idle == Call("idle", "idle", None, None, None, 0, 0)
At(c, ops, point) == call[c].op \in ops /\ call[c].at = point
Begin(c, r) ==
  /\ call[c].op = "idle"
  /\ \A d \in Calls : d < c => call[d].op # "idle"
  /\ call' = [call EXCEPT ![c] = r]
Go(c, point) == call' = [call EXCEPT ![c].at = point]
Return(c) == call' = [call EXCEPT ![c] = Idle]

Use(X) ==
  /\ used' = used \cup X
  /\ twice' = (twice \/ X \cap used # {})
  /\ UNCHANGED revoked
TicketOf(c) == IF call[c].ticket = 0 THEN {} ELSE {<<"ticket", call[c].ticket>>}

-----------------------------------------------------------------------------
(* One-time codes.  The purposes that ask for no session need a channel the    *)
(* App has switched on; the settings are read right before the transaction,    *)
(* and a switch in between might as well have come after it.                   *)

\* UpdateAdminLoginSettings: codes are off, or on by the channels ts.
UpdateLoginSettings(ts) ==
  /\ enabled' = (enabled \ Types) \cup ts
  /\ UNCHANGED <<play, memberVars, binding, code, ticket, flow, call, historyVars>>

Deliverable(v) == TypeOf[v] \in enabled

Open(k, p) == code[k].state = "open" /\ code[k].purpose = p
ActiveHolder(v) == holder[v] # None /\ Active(holder[v])

\* Whom a code is written for; nobody, where nobody is found: a dummy.
Recipients(p, v) ==
  CASE p = "registration" -> {None}
    [] p = "bind" -> {u \in Users : Authentic(u)}
    [] p = "step_up" -> {u \in Users : Authentic(u) /\ holder[v] = u}
    [] OTHER -> {IF ActiveHolder(v) THEN holder[v] ELSE None}

\* A new code ends the open ones of its purpose and value.  Within a minute of
\* the last one nothing happens and the caller gets the id of that one.
SendCode(k, p, v) ==
  /\ Turn(play.codes, code, k)
  /\ p \in Public => Deliverable(v)
  /\ \E u \in Recipients(p, v) :
       code' = [j \in Codes |->
                  IF j = k
                    THEN [state |-> "open", purpose |-> p, value |-> v, user |-> u,
                          tries |-> 0]
                  ELSE IF Open(j, p) /\ code[j].value = v THEN SpentCode
                  ELSE code[j]]
  /\ UNCHANGED <<play, memberVars, binding, enabled, ticket, flow, call, historyVars>>

Accept(k) == code' = [code EXCEPT ![k] = SpentCode]

\* Mutant: the code is given one attempt more.
RejectLater(k) ==
  code' = [code EXCEPT ![k] =
             IF code[k].tries + 1 > MaxAttempts THEN SpentCode
             ELSE [code[k] EXCEPT !.tries = @ + 1]]

Reject(k) ==
  code' = [code EXCEPT ![k] =
             IF code[k].tries + 1 >= MaxAttempts THEN SpentCode
             ELSE [code[k] EXCEPT !.tries = @ + 1]]

\* The code's own user still holds the value, and has a password to replace.
Resettable(k) ==
  LET u == code[k].user
  IN  u # None /\ holder[code[k].value] = u /\ Active(u) /\ u \in password

WrongCode(k) ==
  /\ \/ Open(k, "login") \/ Open(k, "registration")
     \/ Open(k, "password_reset") /\ Resettable(k)
  /\ Deliverable(code[k].value)
  /\ Reject(k)
  /\ UNCHANGED <<play, memberVars, binding, enabled, ticket, flow, call, historyVars>>

\* ConsumeOTPChallenge for a login: the account is the one that holds the value
\* now.
OTPLogin(c, k) ==
  /\ Open(k, "login") /\ Deliverable(code[k].value) /\ ActiveHolder(code[k].value)
  /\ Begin(c, Call("login", "session", holder[code[k].value], None, None, 0, 0))
  /\ Accept(k)
  /\ Use({<<"code", k>>})
  /\ UNCHANGED <<play, memberVars, binding, enabled, ticket, flow>>

IssueMobileSession(c) ==
  /\ At(c, {"login"}, "session")
  /\ signedIn' = IF Active(call[c].user) THEN signedIn \cup {call[c].user} ELSE signedIn
  /\ Return(c)
  /\ UNCHANGED <<play, member, holder, password, binding, enabled, code, ticket, flow,
                 historyVars>>

RegisterWithOTP(u, k) ==
  /\ Open(k, "registration") /\ Deliverable(code[k].value)
  /\ holder[code[k].value] = None
  /\ u \in Newcomers
  /\ member' = [member EXCEPT ![u] = "active"]
  /\ holder' = [holder EXCEPT ![code[k].value] = u]
  /\ signedIn' = signedIn \cup {u}
  /\ Accept(k)
  /\ Use({<<"code", k>>})
  /\ UNCHANGED <<play, password, binding, enabled, ticket, flow, call>>

ResetPasswordWithOTP(k) ==
  /\ Open(k, "password_reset") /\ Deliverable(code[k].value) /\ Resettable(k)
  /\ signedIn' = signedIn \ {code[k].user}
  /\ Accept(k)
  /\ Use({<<"code", k>>})
  /\ UNCHANGED <<play, member, holder, password, binding, enabled, ticket, flow, call>>

-----------------------------------------------------------------------------
(* Members come, sign in with a password, and are disabled *)

CreateAdminUser(u, v) ==
  /\ u \in Newcomers
  /\ TypeOf[v] = "email" /\ holder[v] = None
  /\ member' = [member EXCEPT ![u] = "active"]
  /\ holder' = [holder EXCEPT ![v] = u]
  /\ password' = password \cup {u}
  /\ UNCHANGED <<play, signedIn, binding, enabled, code, ticket, flow, call, historyVars>>

PasswordLogin(u) ==
  /\ Active(u) /\ u \in password /\ Holds(u, "email")
  /\ signedIn' = signedIn \cup {u}
  /\ UNCHANGED <<play, member, holder, password, binding, enabled, code, ticket, flow,
                 call, historyVars>>

\* The sessions are revoked by a second statement, which may fail.
SetAdminUserStatus(u, status) ==
  /\ member[u] \in {"active", "disabled"} /\ member[u] # status
  /\ member' = [member EXCEPT ![u] = status]
  /\ \/ UNCHANGED signedIn
     \/ status = "disabled" /\ signedIn' = signedIn \ {u}
  /\ UNCHANGED <<play, holder, password, binding, enabled, code, ticket, flow, call,
                 historyVars>>

\* ReplaceBindings enables and disables providers, whoever depends on them.
ReplaceBindings(p) ==
  /\ enabled' = IF p \in enabled THEN enabled \ {p} ELSE enabled \cup {p}
  /\ UNCHANGED <<play, memberVars, binding, code, ticket, flow, call, historyVars>>

-----------------------------------------------------------------------------
(* Step-up: a proof of who is asking, for one purpose and one resource *)

AppleAccounts(u) == {b \in Bindings : Mine(b, u) /\ Provider(b) = Apple}

\* What a step-up may be asked for by user u.  Any resource is let through; one
\* that user u does not have, a password that exists and the deletion of a
\* user without an Apple account have no use for a ticket.
Scopes(u) ==
  ({"identifier_change", "identifier_unbind"} \X {TypeOf[v] : v \in play.values})
    \cup ({"oauth_bind"} \X Offered)
    \cup ({"oauth_unbind"} \X {b \in Bindings : Mine(b, u)})
    \cup ({"account_delete"} \X AppleAccounts(u))
    \cup (IF u \in password THEN {} ELSE {<<"password_bind", "password">>})

\* IdentifierTarget reads the identifier, ConsumeOTPChallenge comes later.
BeginStepUp(c, u, k, s) ==
  /\ Authentic(u) /\ s \in Scopes(u)
  /\ Open(k, "step_up") /\ holder[code[k].value] = u
  /\ Begin(c, Call("step_up", "proof", u, s[1], s[2], k, 0))
  /\ UNCHANGED <<play, memberVars, binding, enabled, code, ticket, flow, historyVars>>

StepUpByPassword(c, u, s) ==
  /\ Authentic(u) /\ s \in Scopes(u)
  /\ u \in password /\ Holds(u, "email")
  /\ Begin(c, Call("step_up", "ticket", u, s[1], s[2], 0, 0))
  /\ UNCHANGED <<play, memberVars, binding, enabled, code, ticket, flow, historyVars>>

\* The code is spent on the holder of its value, who must be the caller.
ConsumeStepUpCode(c) ==
  /\ At(c, {"step_up"}, "proof")
  /\ LET k == call[c].item
         v == code[k].value
     IN  /\ Open(k, "step_up")
         /\ \/ /\ ActiveHolder(v)
               /\ Accept(k)
               /\ Use({<<"code", k>>})
               /\ IF holder[v] = call[c].user THEN Go(c, "ticket") ELSE Return(c)
            \/ /\ Reject(k)
               /\ Return(c)
               /\ UNCHANGED historyVars
  /\ UNCHANGED <<play, memberVars, binding, enabled, ticket, flow>>

\* CreateStepUpTicket, at the end of a step-up or of a reauthentication.
IssueStepUp(c, i) ==
  /\ At(c, {"step_up", "callback"}, "ticket")
  /\ Turn(play.tickets, ticket, i)
  /\ Authentic(call[c].user)
  /\ ticket' = [ticket EXCEPT ![i] =
       [state |-> "open", user |-> call[c].user, purpose |-> call[c].purpose,
        what |-> call[c].what,
        method |-> IF call[c].op = "callback" THEN Provider(call[c].what) ELSE "own"]]
  /\ Return(c)
  /\ UNCHANGED <<play, memberVars, binding, enabled, code, flow, historyVars>>

\* Mutant: the ticket is looked at and not consumed.
ConsumeStepUpTicketLater(i) == UNCHANGED ticket

ConsumeStepUpTicket(i) == ticket' = [ticket EXCEPT ![i] = SpentTicket]

\* A request of user u spends ticket i on resource w and goes on afterwards.
Spend(c, i, op, u, p, w, k) ==
  /\ Authentic(u)
  /\ ticket[i].state = "open" /\ ticket[i].user = u
  /\ ticket[i].purpose = p /\ ticket[i].what = w
  /\ ConsumeStepUpTicket(i)
  /\ Begin(c, Call(op, "commit", u, p, w, k, i))
  /\ UNCHANGED <<play, memberVars, binding, enabled, code, flow, historyVars>>

-----------------------------------------------------------------------------
(* Identifiers and the password *)

\* VerifyIdentifier asks for a step-up when there is something to replace.
BeginVerify(c, u, k) ==
  LET t == TypeOf[code[k].value]
  IN  /\ Open(k, "bind") /\ code[k].user = u
      /\ \/ /\ Holds(u, t)
            /\ \E i \in Tickets : Spend(c, i, "verify", u, "identifier_change", t, k)
         \/ /\ ~Holds(u, t) /\ Authentic(u)
            /\ Begin(c, Call("verify", "commit", u, None, None, k, 0))
            /\ UNCHANGED <<play, memberVars, binding, enabled, code, ticket, flow,
                           historyVars>>

\* The value replaces the one of its type, whatever that is by now.
UpsertIdentifier(c) ==
  /\ At(c, {"verify"}, "commit")
  /\ LET k == call[c].item
         u == call[c].user
         v == code[k].value
     IN  /\ Open(k, "bind")
         /\ \/ /\ Active(u) /\ holder[v] \in {u, None}
               /\ holder' = [w \in Values |->
                               IF w = v THEN u
                               ELSE IF holder[w] = u /\ TypeOf[w] = TypeOf[v] THEN None
                               ELSE holder[w]]
               /\ Accept(k)
               /\ Use({<<"code", k>>} \cup TicketOf(c))
            \/ /\ Reject(k)
               /\ UNCHANGED <<holder, historyVars>>
  /\ Return(c)
  /\ UNCHANGED <<play, member, signedIn, password, binding, enabled, ticket, flow>>

BeginDeleteIdentifier(c, u, t) ==
  \E i \in Tickets : Spend(c, i, "drop", u, "identifier_unbind", t, 0)

DeleteIdentifier(c) ==
  /\ At(c, {"drop"}, "commit")
  /\ LET u == call[c].user
         t == call[c].what
     IN  /\ Holds(u, t) /\ MethodLeft(u, None, t)
         /\ holder' = [v \in Values |-> IF holder[v] = u /\ TypeOf[v] = t THEN None
                                        ELSE holder[v]]
  /\ Return(c)
  /\ Use(TicketOf(c))
  /\ UNCHANGED <<play, member, signedIn, password, binding, enabled, code, ticket, flow>>

BeginSetPassword(c, u) ==
  \E i \in Tickets : Spend(c, i, "password", u, "password_bind", "password", 0)

SetPassword(c) ==
  /\ At(c, {"password"}, "commit")
  /\ LET u == call[c].user
     IN  /\ Active(u) /\ u \notin password /\ \E t \in Types : Holds(u, t)
         /\ password' = password \cup {u}
  /\ Return(c)
  /\ Use(TicketOf(c))
  /\ UNCHANGED <<play, member, signedIn, holder, binding, enabled, code, ticket, flow>>

-----------------------------------------------------------------------------
(* Accounts of providers: authorization flows and their callbacks *)

CreateFlow(f, r) ==
  /\ Turn(play.flows, flow, f)
  /\ flow' = [flow EXCEPT ![f] = r]
  /\ UNCHANGED <<play, memberVars, binding, enabled, code, ticket>>

AuthorizeLogin(f, p) ==
  /\ p \in enabled
  /\ CreateFlow(f, Flow("open", "login", p, None, None, None))
  /\ UNCHANGED <<call, historyVars>>

AuthorizeReauth(f, u, b, p) ==
  /\ Authentic(u) /\ Mine(b, u)
  /\ CreateFlow(f, Flow("open", "reauth", Provider(b), u, p, b))
  /\ UNCHANGED <<call, historyVars>>

BeginAuthorizeBind(c, u, p) ==
  \E i \in Tickets : Spend(c, i, "bind", u, "oauth_bind", p, 0)

\* The ticket is spent, whether the provider can be used or not.
AuthorizeBind(c, f) ==
  /\ At(c, {"bind"}, "commit")
  /\ call[c].what \in enabled /\ member[call[c].user] # "gone"
  /\ CreateFlow(f, Flow("open", "bind", call[c].what, call[c].user, None, None))
  /\ Return(c)
  /\ Use(TicketOf(c))

\* A reauthentication is possible with a provider that is switched off.
Runtime(f) ==
  IF flow[f].mode = "reauth" THEN Mine(flow[f].target, flow[f].user)
  ELSE flow[f].provider \in enabled

GitHubBrowserCallback(f, s) ==
  /\ flow[f].provider = Browser /\ flow[f].state = "open"
  /\ ProviderOf[s] = Browser /\ Runtime(f)
  /\ flow' = [flow EXCEPT ![f].state = "verified", ![f].subject = s]
  /\ UNCHANGED <<play, memberVars, binding, enabled, code, ticket, call, historyVars>>

Account(s) == {b \in Bindings : binding[b].state = "bound" /\ binding[b].subject = s}
BeginCallback(c, f, s, point) ==
  /\ flow[f].mode # "login" => Authentic(flow[f].user)
  /\ Begin(c, Call("callback", point, flow[f].user, flow[f].purpose, s, f, 0))
  /\ UNCHANGED <<play, memberVars, binding, enabled, code, ticket, used, twice>>

\* The ticket of the browser stands for the identity that was verified there.
ClaimTicketFlow(c, f, s) ==
  /\ flow[f].state = "verified" /\ flow[f].subject = s
  /\ flow' = [flow EXCEPT ![f].state = "claimed"]
  /\ BeginCallback(c, f, s, "resolve")
  /\ UNCHANGED revoked

\* Otherwise the identity is verified, and the authorisation of an Apple ID
\* revoked where that is asked for, before the flow is claimed.
VerifyIdentity(c, f, s) ==
  /\ flow[f].provider # Browser /\ flow[f].state \in {"open", "claimed"}
  /\ ProviderOf[s] = flow[f].provider /\ Runtime(f)
  /\ BeginCallback(c, f, s, "claim")
  /\ revoked' = IF flow[f].provider = Apple /\ flow[f].mode = "reauth"
                  THEN revoked \cup Account(s) ELSE revoked
  /\ UNCHANGED flow

ClaimNativeFlow(c) ==
  /\ At(c, {"callback"}, "claim")
  /\ flow[call[c].item].state = "open"
  /\ flow' = [flow EXCEPT ![call[c].item].state = "claimed"]
  /\ Go(c, "resolve")
  /\ UNCHANGED <<play, memberVars, binding, enabled, code, ticket, historyVars>>

Resolves(c, mode) ==
  /\ At(c, {"callback"}, "resolve")
  /\ LET f == call[c].item
     IN  /\ flow[f].mode = mode /\ Runtime(f)
         /\ Use({<<"flow", f>>})
  /\ UNCHANGED <<play, holder, password, enabled, code, ticket, flow>>

InsertAccount(u, s) ==
  LET new == {b \in Bindings : binding[b].state = "none"}
  IN  /\ new # {}
      /\ binding' = [binding EXCEPT ![CHOOSE b \in new : TRUE] =
                       [state |-> "bound", user |-> u, subject |-> s]]

ResolveLogin(c) ==
  /\ Resolves(c, "login")
  /\ \E b \in Account(call[c].what) :
       /\ Active(binding[b].user)
       /\ signedIn' = signedIn \cup {binding[b].user}
  /\ Return(c)
  /\ UNCHANGED <<member, binding>>

\* An e-mail address the App knows is not taken over: ACCOUNT_LINK_REQUIRED.
ResolveRegistration(c) ==
  LET s == call[c].what
  IN  /\ Resolves(c, "login")
      /\ Account(s) = {}
      /\ \A v \in Values : EmailOf[s] = v => holder[v] = None
      /\ \E u \in Newcomers :
           /\ member' = [member EXCEPT ![u] = "active"]
           /\ signedIn' = signedIn \cup {u}
           /\ InsertAccount(u, s)
      /\ Return(c)

\* Nothing is replaced: one account of a provider to a user and the reverse.
ResolveBind(c) ==
  LET s == call[c].what
      u == call[c].user
  IN  /\ Resolves(c, "bind")
      /\ Active(u)
      /\ \/ /\ \E b \in Account(s) : binding[b].user = u
            /\ UNCHANGED binding
         \/ /\ Account(s) = {}
            /\ \A b \in Bindings : Mine(b, u) => Provider(b) # ProviderOf[s]
            /\ InsertAccount(u, s)
      /\ Return(c)
      /\ UNCHANGED <<member, signedIn>>

\* On to IssueStepUp, for the account that was authenticated.
ResolveReauth(c) ==
  LET b == flow[call[c].item].target
  IN  /\ Resolves(c, "reauth")
      /\ b \in Account(call[c].what) /\ binding[b].user = call[c].user
      /\ call' = [call EXCEPT ![c].at = "ticket", ![c].what = b]
      /\ UNCHANGED <<member, signedIn, binding>>

-----------------------------------------------------------------------------
(* Unbinding an account and leaving *)

\* An Apple account goes after Apple was told, which its own ticket proves.
BeginUnbind(c, u, b) ==
  /\ Mine(b, u) /\ MethodLeft(u, b, None)
  /\ \E i \in Tickets :
       /\ Provider(b) = Apple => ticket[i].method = Apple
       /\ Spend(c, i, "unbind", u, "oauth_unbind", b, 0)

\* Mutant: that a method is left was checked when the request began.
UnboundBy(b, u) == Mine(b, u)

\* The check that a method is left is repeated in the transaction.
Unbindable(b, u) == Mine(b, u) /\ MethodLeft(u, b, None)

\* The flows that aim at the account go with it.
DeleteOAuthAccount(c) ==
  /\ At(c, {"unbind"}, "commit")
  /\ LET b == call[c].what
     IN  /\ Unbindable(b, call[c].user)
         /\ binding' = [binding EXCEPT ![b].state = "gone"]
         /\ flow' = [f \in Flows |-> IF flow[f].target = b THEN SpentFlow ELSE flow[f]]
  /\ Return(c)
  /\ Use(TicketOf(c))
  /\ UNCHANGED <<play, memberVars, enabled, code, ticket>>

\* ConsumeAccountDeletionStepUp: a ticket is needed for an Apple account only.
\* The code sent to the address (account_deletion.go) is not modelled.
BeginDeletion(c, u) ==
  \/ \E b \in AppleAccounts(u), i \in Tickets :
       /\ ticket[i].method = Apple
       /\ Spend(c, i, "delete", u, "account_delete", b, 0)
  \/ /\ Authentic(u) /\ AppleAccounts(u) = {}
     /\ Begin(c, Call("delete", "commit", u, None, None, 0, 0))
     /\ UNCHANGED <<play, memberVars, binding, enabled, code, ticket, flow, historyVars>>

\* Mutant: nothing is compared when no Apple account was found at first.
AppleMatches(u, b) == b = None \/ AppleAccounts(u) \subseteq {b}

\* The Apple account there is now is the one that was looked at before.
AppleIsVerified(u, b) == AppleAccounts(u) \subseteq {b}

ConfirmAccountDeletion(c) ==
  LET u == call[c].user
  IN  /\ At(c, {"delete"}, "commit")
      /\ Active(u) /\ AppleIsVerified(u, call[c].what)
      /\ member' = [member EXCEPT ![u] = "gone"]
      /\ signedIn' = signedIn \ {u}
      /\ holder' = [v \in Values |-> IF holder[v] = u THEN None ELSE holder[v]]
      /\ password' = password \ {u}
      /\ binding' = [b \in Bindings |-> IF Mine(b, u) THEN [binding[b] EXCEPT !.state = "gone"]
                                        ELSE binding[b]]
      /\ code' = [k \in Codes |-> IF code[k].user = u THEN SpentCode ELSE code[k]]
      /\ ticket' = [i \in Tickets |-> IF ticket[i].user = u THEN SpentTicket ELSE ticket[i]]
      /\ flow' = [f \in Flows |-> IF flow[f].user = u THEN SpentFlow ELSE flow[f]]
      /\ Return(c)
      /\ Use(TicketOf(c))
      /\ UNCHANGED <<play, enabled>>

-----------------------------------------------------------------------------

\* A request is refused, a statement or a provider fails, the process dies.
Fail(c) ==
  /\ call[c].op # "idle"
  /\ Return(c)
  /\ UNCHANGED <<play, memberVars, binding, enabled, code, ticket, flow, historyVars>>

Init ==
  /\ play \in Plays
  /\ member = [u \in Users |-> "none"] /\ signedIn = {}
  /\ holder = [v \in Values |-> None] /\ password = {}
  /\ binding = [b \in Bindings |-> NoBinding]
  /\ enabled = Offered \cup play.channels
  /\ code = [k \in Codes |-> NoCode]
  /\ ticket = [i \in Tickets |-> NoTicket]
  /\ flow = [f \in Flows |-> NoFlow]
  /\ call = [c \in Calls |-> Idle]
  /\ used = {} /\ twice = FALSE /\ revoked = {}

CodeStep ==
  \E k \in Codes :
    \/ \E p \in play.purposes, v \in play.values : SendCode(k, p, v)
    \/ WrongCode(k) \/ ResetPasswordWithOTP(k)
    \/ \E u \in Users : RegisterWithOTP(u, k)

MemberStep ==
  \/ \E u \in Users, v \in play.values : CreateAdminUser(u, v)
  \/ \E u \in Users : PasswordLogin(u)
  \/ \E u \in Users, status \in {"active", "disabled"} : SetAdminUserStatus(u, status)
  \/ \E p \in Offered : ReplaceBindings(p)
  \/ \E ts \in SUBSET play.channels : UpdateLoginSettings(ts)

FlowStep ==
  \E f \in Flows :
    \/ \E p \in Offered : AuthorizeLogin(f, p)
    \/ \E u \in Users, b \in Bindings, p \in Reauthentications :
         AuthorizeReauth(f, u, b, p)
    \/ \E s \in play.subjects : GitHubBrowserCallback(f, s)

BeginCall(c) ==
  \/ \E k \in Codes : OTPLogin(c, k)
  \/ \E f \in Flows, s \in play.subjects : ClaimTicketFlow(c, f, s) \/ VerifyIdentity(c, f, s)
  \/ \E u \in Users :
       \/ \E k \in Codes, s \in Scopes(u) : BeginStepUp(c, u, k, s)
       \/ \E s \in Scopes(u) : StepUpByPassword(c, u, s)
       \/ \E k \in Codes : BeginVerify(c, u, k)
       \/ \E t \in Types : BeginDeleteIdentifier(c, u, t)
       \/ BeginSetPassword(c, u)
       \/ \E p \in Offered : BeginAuthorizeBind(c, u, p)
       \/ \E b \in Bindings : BeginUnbind(c, u, b)
       \/ BeginDeletion(c, u)

CallStep(c) ==
  \/ IssueMobileSession(c)
  \/ ConsumeStepUpCode(c) \/ \E i \in Tickets : IssueStepUp(c, i)
  \/ UpsertIdentifier(c) \/ DeleteIdentifier(c) \/ SetPassword(c)
  \/ \E f \in Flows : AuthorizeBind(c, f)
  \/ ClaimNativeFlow(c)
  \/ ResolveLogin(c) \/ ResolveRegistration(c) \/ ResolveBind(c) \/ ResolveReauth(c)
  \/ DeleteOAuthAccount(c) \/ ConfirmAccountDeletion(c)
  \/ Fail(c)

Next ==
  \/ CodeStep \/ MemberStep \/ FlowStep
  \/ \E c \in Calls : BeginCall(c) \/ CallStep(c)

Spec == Init /\ [][Next]_vars
-----------------------------------------------------------------------------
(* Properties *)

BindingRow == {NoBinding} \cup [state : {"bound", "gone"}, user : Users, subject : Subjects]
CodeRow == {NoCode, SpentCode} \cup
  [state : {"open"}, purpose : Purposes, value : Values, user : Users \cup {None},
   tries : 0 .. MaxAttempts - 1]
TicketRow == {NoTicket, SpentTicket} \cup
  [state : {"open"}, user : Users, purpose : Scoped, what : Resources,
   method : Providers \cup {"own"}]
FlowRow == {NoFlow, SpentFlow} \cup
  [state : {"open", "verified", "claimed"}, mode : Modes,
   provider : Providers, user : Users \cup {None}, purpose : Reauthentications \cup {None},
   target : Bindings \cup {None}, subject : Subjects \cup {None}]
CallRow == [op : Ops, at : Points, user : Users \cup {None}, purpose : Scoped \cup {None},
            what : Resources \cup Subjects, item : Codes \cup Flows \cup {0},
            ticket : Tickets \cup {0}]
Items == ({"code"} \X Codes) \cup ({"ticket"} \X Tickets) \cup ({"flow"} \X Flows)

\* Everything is of its type, what was spent tells nothing any more, and a code
\* is open only for as long as there are attempts left.
TypeOK ==
  /\ play \in Plays
  /\ member \in [Users -> {"none", "active", "disabled", "gone"}]
  /\ signedIn \subseteq Users /\ password \subseteq Users
  /\ holder \in [Values -> Users \cup {None}]
  /\ binding \in [Bindings -> BindingRow]
  /\ enabled \subseteq Providers \cup Types
  /\ code \in [Codes -> CodeRow]
  /\ ticket \in [Tickets -> TicketRow]
  /\ flow \in [Flows -> FlowRow]
  /\ call \in [Calls -> CallRow]
  /\ used \subseteq Items
  /\ twice \in BOOLEAN
  /\ revoked \subseteq Bindings

\* Whoever can sign in can still sign in after whatever they take away, in two
\* requests at the same time too (DeleteOAuthAccount, DeleteIdentifier and what
\* replaces an identifier): only an administrator who switches a provider off
\* and leaving the App end the last method.  A method is what the code counts,
\* which asks for the switches of the providers and not of the channels.
LastMethodKept ==
  [][\A u \in Users : HasMethod(u) /\ ~HasMethod(u)'
       => (\E p \in enabled : p \notin Types \cup enabled') \/ member'[u] = "gone"]_vars

\* A code, a step-up ticket and an authorization flow let one thing happen, in
\* whatever order requests that present the same one are carried out.
AuthorisesOnce == ~twice

\* An account of Apple is removed, by unbinding or with its user, only after
\* its authorisation was revoked with Apple: whoever binds one while a deletion
\* is under way stops the deletion.
AppleGoesRevoked ==
  [][\A b \in Bindings :
       binding[b].state = "bound" /\ Provider(b) = Apple /\ binding'[b].state = "gone"
         => b \in revoked]_vars
=============================================================================
