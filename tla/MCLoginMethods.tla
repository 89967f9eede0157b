--------------------------- MODULE MCLoginMethods ---------------------------
(***************************************************************************)
(* Instances of LoginMethods for TLC.  A play says who takes part and how  *)
(* many codes, tickets and flows there are for them.                       *)
(***************************************************************************)
EXTENDS LoginMethods, TLC

MCTypeOf == "a@x" :> "email" @@ "b@x" :> "email" @@ "+1" :> "mobile"
MCProviderOf == "apple1" :> "apple" @@ "github1" :> "github"
MCEmailOf == "apple1" :> "a@x" @@ "github1" :> None

\* The App can send public codes where a play asks for some.
Play(us, vs, ss, ps, cs, ts, fs) ==
  [users |-> us, values |-> vs, subjects |-> ss, purposes |-> ps,
   channels |-> IF ps \cap Public = {} THEN {} ELSE {TypeOf[v] : v \in vs},
   codes |-> 1 .. cs, tickets |-> 1 .. ts, flows |-> 1 .. fs]

\* One user who replaces an address by another, who gives up an address and a
\* number at the same time, who is asked for every kind of code, and one who
\* registers and sets a password.
Replaces == Play({"u"}, {"a@x", "b@x"}, {}, {"bind", "step_up"}, 2, 1, 0)
GivesUp == Play({"u"}, {"a@x", "+1"}, {}, {"bind"}, 1, 2, 0)
AnyCode == Play({"u"}, {"a@x"}, {}, Purposes, 2, 0, 0)
SetsPassword == Play({"u"}, {"a@x"}, {}, {"registration", "step_up"}, 2, 1, 0)

\* One who binds an account of GitHub and unbinds it while the address goes, and
\* one who binds an Apple account, unbinds it and leaves.
WithGitHub == Play({"u"}, {"a@x"}, {"github1"}, {}, 0, 3, 1)
WithApple == Play({"u"}, {"a@x"}, {"apple1"}, {}, 0, 2, 2)

\* Two who are after the same address, two who are after the same account.
SameValue == Play({"u", "v"}, {"a@x"}, {}, {"registration", "bind"}, 2, 1, 0)
SameAccount == Play({"u", "v"}, {"a@x"}, {"apple1"}, {}, 0, 0, 2)

MCPlays == {Replaces, GivesUp, AnyCode, SetsPassword, WithGitHub, WithApple, SameValue,
            SameAccount}
=============================================================================
