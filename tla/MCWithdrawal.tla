---------------------------- MODULE MCWithdrawal ----------------------------
(***************************************************************************)
(* Instances of Withdrawal for TLC.  Amounts are in a scale of their own:  *)
(* above 3 is time-locked, 2 kobo buy 1 base unit.                         *)
(***************************************************************************)
EXTENDS Withdrawal, TLC

CONSTANTS d1, d2, k1, k2, nokey

Body(amount, dest, key, signed) ==
    [amount |-> amount, dest |-> dest, key |-> key, signed |-> signed]

\* Time-locked requests with the user's signature, which compete for the one
\* place of a sweep, and an immediate one that competes for balance and nonce.
SignedLocked ==
    {Body(4, d1, k1, TRUE), Body(4, d2, nokey, TRUE), Body(2, d1, k2, TRUE)}

\* A time-locked request the platform signs, and an immediate one.
UnsignedLocked == {Body(4, d1, k1, FALSE)}
ImmediateRetry == {Body(2, d1, k1, FALSE)}

\* A time-locked request, its unsigned twin without a key, and an immediate
\* one under the first one's key.
SafetyBodies ==
    {Body(4, d1, k1, TRUE), Body(4, d1, nokey, FALSE), Body(2, d1, k1, TRUE)}

CallSymmetry == Permutations(Calls)
Symmetry == CallSymmetry \cup Permutations(Sweepers)
=============================================================================
