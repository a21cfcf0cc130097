----------------------------- MODULE MCEventHub -----------------------------
(***************************************************************************)
(* Instances of EventHub for TLC: a slow and a reading connection of one   *)
(* user, and operations of that user and of another one.                   *)
(***************************************************************************)
EXTENDS EventHub, TLC

CONSTANTS u1, u2, c1, c2, o1, o2

Owner == (c1 :> u1 @@ c2 :> u1)

By(u, kind) == [user |-> u, kind |-> kind]

\* Two operations of the user, or one of it and one of the other.
AllChanges ==
    {(o1 :> By(u1, "security") @@ o2 :> By(u1, k)) : k \in Kinds}
    \cup {(o1 :> By(u1, "all") @@ o2 :> By(u2, "all"))}
=============================================================================
