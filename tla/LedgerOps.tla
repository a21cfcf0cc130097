----------------------------- MODULE LedgerOps -----------------------------
(***************************************************************************)
(* The vocabulary of the money services: what a request asks for and which *)
(* ledger entries it posts.  Deposit, Withdraw, WithdrawExternal, Transfer *)
(* and Convert (services/money.go) each write one transaction row, one     *)
(* entry on a "from" account and at most one further net entry on a "to"   *)
(* account; they differ in the signs, the fee and the order of their reads.*)
(*                                                                         *)
(* An account stands for a row of the accounts table (user, kind and       *)
(* currency); Platform is the fee account of the platform pseudo-user that *)
(* migration 0012 seeds.  Amounts are integer minor units.                 *)
(***************************************************************************)
EXTENDS Integers

CONSTANTS
    Requests,   \* the concurrent service calls
    Accounts,   \* the rows the accounts table may hold
    Platform,   \* the platform fee account
    NoAccount,  \* "no destination account" (an empty ToKind)
    Keys,       \* idempotency keys
    NoKey,      \* the empty idempotency key
    Instances,  \* the server processes
    Inputs      \* the request bodies that may arrive

Ops == {"Deposit", "VaultDeposit", "Withdraw", "WithdrawExternal",
        "Transfer", "Convert"}

(***************************************************************************)
(* A request body.  out is the quoted output of a conversion and quoted    *)
(* says whether a rate was available.  VaultDeposit is Deposit called by   *)
(* the indexer under the per-user lock of the process it runs in, at.      *)
(***************************************************************************)
InputType ==
    [op : Ops, key : Keys \cup {NoKey}, from : Accounts,
     to : Accounts \cup {NoAccount}, amount : Int, fee : Int, out : Int,
     quoted : BOOLEAN, at : Instances]

ASSUME LedgerOpsAssumption ==
    /\ Platform \in Accounts
    /\ NoAccount \notin Accounts
    /\ NoKey \notin Keys
    /\ Inputs \subseteq InputType
    /\ \A q \in Inputs :
         /\ q.from # Platform   \* user endpoints never name the fee account
         /\ q.to # q.from
         /\ q.to = Platform <=> q.op = "WithdrawExternal"
         /\ q.op \in {"Deposit", "VaultDeposit", "Withdraw"} => q.to = NoAccount
         /\ q.op = "Convert" => q.to \in Accounts

IsCredit(q) == q.op \in {"Deposit", "VaultDeposit"}

\* Calls that go through LedgerService.move.
IsMove(q) == q.op \in {"Deposit", "VaultDeposit", "Withdraw"}

\* What the source must hold for a debit to be accepted.
Required(q) == IF q.op = "Convert" THEN q.amount ELSE q.amount + q.fee

\* Net entry on the source account: a conversion's fee stays inside out.
FromDelta(q) == IF IsCredit(q) THEN q.amount ELSE - Required(q)

\* Net entry on the destination account.
ToDelta(q) == CASE q.op = "WithdrawExternal" -> q.fee
                [] q.op = "Convert" -> q.out
                [] OTHER -> q.amount

\* Whether the request posts to a destination account at all.
HasTo(q) == IF q.op = "WithdrawExternal" THEN q.fee > 0 ELSE q.to # NoAccount

\* The entries one committed transaction adds to each account.
Effect(q) ==
    [a \in Accounts |-> IF a = q.from THEN FromDelta(q)
                        ELSE IF HasTo(q) /\ a = q.to THEN ToDelta(q)
                        ELSE 0]

\* The argument checks that reject a request before any write.
ValidRequest(q) ==
    CASE IsCredit(q) -> q.amount > 0
      [] q.op = "Withdraw" -> q.amount + q.fee > 0
      [] q.op = "WithdrawExternal" -> q.amount > 0 /\ q.fee >= 0
      [] q.op = "Transfer" -> q.amount > 0
      [] q.op = "Convert" -> q.amount > 0 /\ q.quoted
=============================================================================
