---------------------------- MODULE MCVaultClone ----------------------------
(***************************************************************************)
(* Instances of VaultClone for TLC.                                        *)
(***************************************************************************)
EXTENDS VaultClone

CONSTANTS a, b, MaxNonce

Intent(kind, signer, to, amount, n, deadline) ==
    [kind |-> kind, signer |-> signer, to |-> to, amount |-> amount,
     nonce |-> n, deadline |-> deadline]

\* Signatures of both wallets for the first MaxNonce nonces, some of which
\* expire while the clone is in use.
MCSignable ==
    {Intent("WithdrawRequest", x, b, 1, n, d) :
        x \in {a, b}, n \in 0 .. MaxNonce - 1, d \in {1, MaxTime}}
    \cup {Intent(k, x, y, 0, n, MaxTime) :
        k \in {"TransferOwnership", "SetRecovery"}, x \in {a, b}, y \in {a, b},
        n \in 0 .. MaxNonce - 1}
    \cup {Intent("TransferOwnership", a, Zero, 0, 0, MaxTime)}
=============================================================================
