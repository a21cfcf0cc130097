----------------------------- MODULE MCIndexer -----------------------------
(***************************************************************************)
(* Instances of Indexer for TLC: payments p1 and p2 in transactions of     *)
(* their own.                                                              *)
(***************************************************************************)
EXTENDS Indexer, TLC

CONSTANTS p1, p2, u1, u2, w1, w2, c1, t1, t2

Payment(route, tx, holder) ==
    [route |-> route, tx |-> tx, sender |-> w1, holder |-> holder, commitment |-> c1,
     user |-> u1]

\* A payment to a clone beside one to the shared vault.
CloneAndVault == (p1 :> Payment("clone", t1, w1)) @@ (p2 :> Payment("vault", t2, w1))

\* A payment through the vault's depositFor, for a wallet of its own, beside a
\* transfer that is none of the indexer's business.
PrivateAndOther == (p1 :> Payment("private", t1, w2)) @@ (p2 :> Payment("other", t2, w1))

\* A user's payment through depositFor from the wallet they have linked.
OwnPrivate == (p1 :> Payment("private", t1, w1)) @@ (p2 :> Payment("legacy", t2, w1))

Clones == (p1 :> Payment("clone", t1, w1)) @@ (p2 :> Payment("clone", t2, w1))

Symmetry == Permutations(Instances) \cup Permutations(Operators)
=============================================================================
