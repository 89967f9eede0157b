-------------------------- MODULE MCAdministration --------------------------
(***************************************************************************)
(* Instances of Administration for TLC.  A play says how many rows of each *)
(* kind there is room for; the core menus are a directory and a page.      *)
(***************************************************************************)
EXTENDS Administration, TLC

MCCoreParent == "core1" :> None @@ "core2" :> "core1"

Play(work, us, xs, qs, rs, ms) ==
  [work |-> work, users |-> us, units |-> xs, positions |-> qs, roles |-> rs, menus |-> ms]

\* Three trees on their own, what joins them, and the members.
Forest == Play({"organisation"}, {"u"}, {"x", "y", "z"}, {}, {}, {})
Hierarchy == Play({"access"}, {"u"}, {}, {}, {"r", "s", "t"}, {})
Console == Play({"access"}, {"u"}, {}, {}, {}, {"m", "n", "o"})
Placed == Play({"organisation", "staff"}, {"u", "v"}, {"x", "y"}, {"q"}, {}, {})
Scoped == Play({"organisation", "access"}, {"u"}, {"x"}, {}, {"r"}, {"m", "core1"})
Staff == Play({"staff", "access"}, {"u", "v", "w"}, {}, {}, {"r"}, {})

MCPlays == {Forest, Hierarchy, Console, Placed, Scoped, Staff}
=============================================================================
