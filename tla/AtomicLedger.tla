---------------------------- MODULE AtomicLedger ----------------------------
(***************************************************************************)
(* What the money services promise a client that retries: a request takes  *)
(* effect in one indivisible step, an idempotency key takes effect at most *)
(* once, and an answer names a transaction that is in the ledger.  The     *)
(* detailed specification Ledger implements this one.                      *)
(***************************************************************************)
EXTENDS LedgerOps

CONSTANTS Pending, Failed, InitLedger

VARIABLES
    req,     \* the body of each request
    txns,    \* requests whose transaction is in the ledger
    ledger,  \* credits minus debits of every account
    reply    \* the answer: Pending, Failed, or the transaction returned

vars == <<req, txns, ledger, reply>>

Init ==
    /\ req \in [Requests -> Inputs]
    /\ txns = {}
    /\ ledger = InitLedger
    /\ reply = [r \in Requests |-> Pending]

Applied(key) == key # NoKey /\ \E t \in txns : req[t].key = key

\* The transaction takes effect.  The client may see an error all the same:
\* the connection can break after the commit.
Execute(r) ==
    /\ reply[r] = Pending
    /\ r \notin txns
    /\ ~Applied(req[r].key)
    /\ txns' = txns \cup {r}
    /\ ledger' = [a \in Accounts |-> ledger[a] + Effect(req[r])[a]]
    /\ \E answer \in {r, Failed} : reply' = [reply EXCEPT ![r] = answer]
    /\ UNCHANGED req

\* A request whose key was applied is answered with the original.
Replay(r) ==
    /\ reply[r] = Pending
    /\ r \notin txns
    /\ req[r].key # NoKey
    /\ \E t \in txns : /\ req[t].key = req[r].key
                       /\ reply' = [reply EXCEPT ![r] = t]
    /\ UNCHANGED <<req, txns, ledger>>

Fail(r) ==
    /\ reply[r] = Pending
    /\ r \notin txns
    /\ reply' = [reply EXCEPT ![r] = Failed]
    /\ UNCHANGED <<req, txns, ledger>>

Next == \E r \in Requests : Execute(r) \/ Replay(r) \/ Fail(r)

Spec == Init /\ [][Next]_vars
=============================================================================
