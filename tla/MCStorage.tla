----------------------------- MODULE MCStorage -----------------------------
(***************************************************************************)
(* Instances of Erasure for TLC: two uploads of two users.  A plan says    *)
(* what the uploads are, whose and whether their contents are equal, which *)
(* decides about the deduplication.                                        *)
(***************************************************************************)
EXTENDS Erasure, StorageClaims, TLC

Two(k, o, n, l, p, m) ==
  "one" :> [kind |-> k, owner |-> o, content |-> n]
    @@ "two" :> [kind |-> l, owner |-> p, content |-> m]

\* One avatar replaces the other, two users share one, a user has the avatar
\* that another has as a file or the reverse, two screenshots, a screenshot and
\* an avatar with the same bytes, two users with the same file.
Replaced == Two("avatar", "a", 1, "avatar", "a", 2)
Shared == Two("avatar", "a", 1, "avatar", "b", 1)
Borrowed == Two("file", "a", 1, "avatar", "b", 1)
Lent == Two("avatar", "a", 1, "file", "b", 1)
Screenshots == Two("feedback", "a", 1, "feedback", "a", 1)
Mixed == Two("feedback", "a", 1, "avatar", "a", 1)
Files == Two("file", "a", 1, "file", "b", 1)

FilePlans == {Replaced, Shared, Borrowed, Lent, Screenshots, Mixed, Files}
ScreenshotPlans == {Screenshots}

\* Two users with the same avatar, of whom one takes another.
MovedOn ==
  "one" :> [kind |-> "avatar", owner |-> "a", content |-> 1]
    @@ "two" :> [kind |-> "avatar", owner |-> "b", content |-> 1]
    @@ "three" :> [kind |-> "avatar", owner |-> "b", content |-> 2]
AvatarPlans == {MovedOn}
=============================================================================
