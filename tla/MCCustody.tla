----------------------------- MODULE MCCustody ------------------------------
(***************************************************************************)
(* Instances of Custody for TLC: one account whose requests interleave,    *)
(* and one whose clone the node never answers for.                         *)
(***************************************************************************)
EXTENDS Custody, TLC

CONSTANTS u1, u2, w1, w2, r1, r2, zero

WalletOf == (u1 :> w1 @@ u2 :> w2)

Ask(op, addr) == [op |-> op, user |-> u1, addr |-> addr]
Deposit == Ask("deposit", zero)
Claim(addr) == Ask("claim", addr)
Designate(addr) == Ask("setRecovery", addr)
Quick == {Ask("custody", zero), Ask("recovery", zero), Ask("prepareClaim", w1), Designate(zero)}

Pair(a, others) == {(r1 :> a @@ r2 :> b) : b \in others}

\* Two requests at a time: a deployment or a claim with what may overtake it,
\* and what reads or is refused beside a request that is refused.
AllWorkloads ==
    Pair(Deposit, {Deposit, Claim(w1)})
    \cup Pair(Claim(w1), {Claim(w2), Designate(w2)})
    \cup Pair(Claim(zero), Quick)

\* The starts that matter to them: deployments where there is no clone, two
\* claims while the platform holds the seat, a designation with any clone.
MCInit ==
    /\ Init
    /\ body[r1] = Deposit => clone[u1].owner = zero
    /\ body[r2] = Claim(w2) => clone[u1].owner = Platform
    /\ body[r2] = Designate(w2) => clone[u1].owner # zero

MCSpec == MCInit /\ [][Next]_vars /\ WF_vars(Reconcile)

OldestFirst == (u1 :> 2 @@ u2 :> 1)
=============================================================================
