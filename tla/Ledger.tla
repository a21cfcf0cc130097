------------------------------- MODULE Ledger -------------------------------
(***************************************************************************)
(* The money services as concurrent database transactions.                 *)
(*                                                                         *)
(* Every call of LedgerService.move (services/ledger.go) and of            *)
(* MoneyService.WithdrawExternal, Transfer and Convert (services/money.go) *)
(* runs its statements one by one, interleaved with the statements of the  *)
(* others.  RunInTx (storage/postgres/postgres.go) opens a transaction at  *)
(* the default isolation level, READ COMMITTED: a SELECT sees what was     *)
(* committed when the statement began, plus the transaction's own writes.  *)
(* What one transaction makes another wait for is                          *)
(*   - the unique index on idempotency_key: an insert waits for an         *)
(*     uncommitted row with the same key;                                  *)
(*   - the balances row SetBalance upserts, locked until commit;           *)
(*   - the accounts row EnsureAccount upserts for the platform fee account.*)
(* All three are held until the transaction ends, so who holds what is a   *)
(* function of pc.  A statement that neither reads shared state nor can    *)
(* wait is part of the step of its neighbour.                              *)
(***************************************************************************)
EXTENDS LedgerOps, Functions

CONSTANTS
    Pending, Failed,  \* answers that name no transaction
    InitLedger,       \* balances the accounts start with
    InitAccounts,     \* accounts that exist at the start
    MaxMinor,         \* largest value of an int64 amount
    MaxFaults         \* bound on database failures

ASSUME LedgerAssumption ==
    /\ Pending \notin Requests
    /\ Failed \notin Requests
    /\ Pending # Failed
    /\ InitLedger \in [Accounts -> Nat]
    /\ InitAccounts \subseteq Accounts
    /\ Platform \in InitAccounts
    /\ MaxMinor \in Nat
    /\ MaxFaults \in Nat

VARIABLES
    req,       \* request |-> its body
    pc,        \* request |-> the statement it is about to run
    txns,      \* requests with a committed row in transactions
    ledger,    \* account |-> SUM over committed ledger_entries
    balances,  \* account |-> committed row of the balances projection
    accounts,  \* committed rows of accounts
    fromBal,   \* request |-> source balance it read
    toBal,     \* request |-> destination balance it read
    reply,     \* request |-> its answer
    notices,   \* transaction |-> inbox notifications filed about it
    faults     \* database failures so far

vars == <<req, pc, txns, ledger, balances, accounts, fromBal, toBal, reply,
          notices, faults>>

db == <<txns, ledger, balances, accounts>>
locals == <<fromBal, toBal>>

Steps == {"new", "lock", "check", "ensure", "lookup", "begin", "readOut",
          "insert", "writeFrom", "ensureFee", "readTo", "writeTo", "commit",
          "conflict", "notify", "done"}

TypeOK ==
    /\ req \in [Requests -> Inputs]
    /\ pc \in [Requests -> Steps]
    /\ txns \subseteq Requests
    /\ ledger \in [Accounts -> Int]
    /\ balances \in [Accounts -> Int]
    /\ accounts \subseteq Accounts
    /\ fromBal \in [Requests -> Int]
    /\ toBal \in [Requests -> Int]
    /\ reply \in [Requests -> Requests \cup {Pending, Failed}]
    /\ notices \in [Requests -> Nat]
    /\ faults \in 0 .. MaxFaults

Init ==
    /\ req \in [Requests -> Inputs]
    /\ pc = [r \in Requests |-> "new"]
    /\ txns = {}
    /\ ledger = InitLedger
    /\ balances = InitLedger
    /\ accounts = InitAccounts
    /\ fromBal = [r \in Requests |-> 0]
    /\ toBal = [r \in Requests |-> 0]
    /\ reply = [r \in Requests |-> Pending]
    /\ notices = [r \in Requests |-> 0]
    /\ faults = 0

-----------------------------------------------------------------------------
(* What an open transaction holds.                                         *)

\* The row of transactions it inserted, not yet committed.
Inserted(r) ==
    pc[r] \in {"writeFrom", "ensureFee", "readTo", "writeTo", "commit"}

\* The balances rows SetBalance has written.
HoldsBalance(r, a) ==
    \/ a = req[r].from /\ Inserted(r) /\ pc[r] # "writeFrom"
    \/ HasTo(req[r]) /\ a = req[r].to /\ pc[r] = "commit"

\* The accounts row EnsureAccount has written for the fee account.
HoldsFeeAccount(r) ==
    /\ req[r].op = "WithdrawExternal"
    /\ HasTo(req[r])
    /\ pc[r] \in {"readTo", "writeTo", "commit"}

\* Mutant: the mutex is never unlocked.
HoldsUserLockForever(r) ==
    req[r].op = "VaultDeposit" /\ pc[r] \notin {"new", "lock"}

\* It holds a mutex of lockFor(userID), around Deposit only.
HoldsUserLock(r) ==
    req[r].op = "VaultDeposit" /\ pc[r] \notin {"new", "lock", "done"}

\* Two vault deposits ask for the same mutex: userLocks is a map of the
\* VaultService, so each process has its own.  Vault deposits always credit
\* the user's available account: one user, one account.
SameUserLock(r, s) == req[r].at = req[s].at /\ req[r].from = req[s].from

\* Mutant: an empty key is looked up like any other.
CommittedEvenEmpty(key) == {t \in txns : req[t].key = key}

\* The committed transaction a lookup by idempotency key finds.
Committed(key) == {t \in txns : key # NoKey /\ req[t].key = key}

Goto(r, step) == pc' = [pc EXCEPT ![r] = step]

Answer(r, step, a) ==
    /\ reply' = [reply EXCEPT ![r] = a]
    /\ Goto(r, step)

Reject(r) ==
    /\ Answer(r, "done", Failed)
    /\ UNCHANGED <<req, db, locals, notices, faults>>

Advance(r, step) ==
    /\ Goto(r, step)
    /\ UNCHANGED <<req, db, locals, reply, notices, faults>>

-----------------------------------------------------------------------------
(* Before the transaction.                                                 *)

\* The call arrives.  Transfer, WithdrawExternal and Convert check their
\* arguments first; Deposit and Withdraw look for a replay first.
Start(r) ==
    /\ pc[r] = "new"
    /\ \/ req[r].op = "VaultDeposit" /\ Advance(r, "lock")
       \/ req[r].op \in {"Deposit", "Withdraw"} /\ Advance(r, "check")
       \/ ~IsMove(req[r]) /\ ~ValidRequest(req[r]) /\ Reject(r)
       \/ req[r].op = "Convert" /\ ValidRequest(req[r]) /\ Advance(r, "ensure")
       \/ /\ req[r].op \in {"WithdrawExternal", "Transfer"}
          /\ ValidRequest(req[r])
          /\ Advance(r, "lookup")

\* Mutant: the mutex is not taken.
LockNobody(r) ==
    /\ pc[r] = "lock"
    /\ Advance(r, "check")

\* An indexer worker takes the user's mutex in its own process
\* (creditTransfer, handleVaultDeposit, AttributeDeposit).
LockUser(r) ==
    /\ pc[r] = "lock"
    /\ \A s \in Requests \ {r} : HoldsUserLock(s) => ~SameUserLock(r, s)
    /\ Advance(r, "check")

\* Deposit's and Withdraw's own replay check, then Credit's or Debit's
\* amount check.
CheckReplay(r) ==
    /\ pc[r] = "check"
    /\ \/ /\ \E t \in Committed(req[r].key) : Answer(r, "done", t)
          /\ UNCHANGED <<req, db, locals, notices, faults>>
       \/ Committed(req[r].key) = {} /\ ~ValidRequest(req[r]) /\ Reject(r)
       \/ Committed(req[r].key) = {} /\ ValidRequest(req[r]) /\ Advance(r, "lookup")

\* Convert creates both accounts, each in a statement that commits alone.
EnsureAccounts(r) ==
    /\ pc[r] = "ensure"
    /\ req[r].op = "Convert"
    /\ accounts' = accounts \cup {req[r].from, req[r].to}
    /\ Goto(r, "lookup")
    /\ UNCHANGED <<req, txns, ledger, balances, locals, reply, notices, faults>>

\* The fast-path lookup.  When move finds the key, Deposit and Withdraw get a
\* transaction without an error and go on to notify.
Lookup(r) ==
    /\ pc[r] = "lookup"
    /\ \/ /\ \E t \in Committed(req[r].key) :
               Answer(r, IF IsMove(req[r]) THEN "notify" ELSE "done", t)
          /\ UNCHANGED <<req, db, locals, notices, faults>>
       \/ Committed(req[r].key) = {} /\ Advance(r, "begin")

-----------------------------------------------------------------------------
(* Inside RunInTx.                                                         *)

\* FindByUserAndKind, or the rules of sufficiency and overflow, say no.  The
\* overflow rule asks for a sum below zero: it also refuses a deposit that
\* leaves an overdrawn account overdrawn.
Refused(r) ==
    LET q == req[r]
        current == ledger[q.from]
        sum == current + (IF IsCredit(q) THEN q.amount ELSE Required(q))
    IN  \/ q.from \notin accounts
        \/ q.op = "Convert" /\ q.to \notin accounts
        \/ ~IsCredit(q) /\ current < Required(q)
        \/ IsMove(q) /\ (sum > MaxMinor \/ sum < 0)

\* SumBalanceByAccount of the source, no row lock.
ReadFrom(r) ==
    /\ pc[r] = "begin"
    /\ \/ Refused(r) /\ Reject(r)
       \/ /\ ~Refused(r)
          /\ fromBal' = [fromBal EXCEPT ![r] = ledger[req[r].from]]
          /\ Goto(r, IF req[r].op = "Convert" THEN "readOut" ELSE "insert")
          /\ UNCHANGED <<req, db, toBal, reply, notices, faults>>

\* Convert reads the sum of its output account before it writes anything.
ReadOut(r) ==
    /\ pc[r] = "readOut"
    /\ req[r].op = "Convert"
    /\ toBal' = [toBal EXCEPT ![r] = ledger[req[r].to]]
    /\ Goto(r, "insert")
    /\ UNCHANGED <<req, db, fromBal, reply, notices, faults>>

\* CreateTransaction waits for an uncommitted row with its key.
InsertWaitsFor(r) ==
    {s \in Requests \ {r} : req[r].key # NoKey /\ req[s].key = req[r].key /\ Inserted(s)}

\* Mutant: the index on idempotency_key is not unique.
InsertTxnNoIndex(r) ==
    /\ pc[r] = "insert"
    /\ Advance(r, "writeFrom")

\* CreateTransaction against the unique index on idempotency_key.
InsertTxn(r) ==
    /\ pc[r] = "insert"
    /\ InsertWaitsFor(r) = {}
    /\ Advance(r, IF Committed(req[r].key) = {} THEN "writeFrom" ELSE "conflict")

AfterFrom(q) ==
    CASE ~HasTo(q) -> "commit"
      [] HasTo(q) /\ q.op = "WithdrawExternal" -> "ensureFee"
      [] HasTo(q) /\ q.op = "Convert" -> "writeTo"
      [] OTHER -> "readTo"

BalanceWaitsFor(r, a) == {s \in Requests \ {r} : HoldsBalance(s, a)}

\* InsertEntry and SetBalance on the source account (a transfer's fee entry
\* updates the row it already holds).
WriteFrom(r) ==
    /\ pc[r] = "writeFrom"
    /\ BalanceWaitsFor(r, req[r].from) = {}
    /\ Advance(r, AfterFrom(req[r]))

\* Mutant: EnsureAccount is a plain SELECT that locks nothing.
EnsureFeeAccountNoLock(r) ==
    /\ pc[r] = "ensureFee"
    /\ Advance(r, "readTo")

\* EnsureAccount of the fee account: the upsert locks the accounts row.
EnsureFeeAccount(r) ==
    /\ pc[r] = "ensureFee"
    /\ \A s \in Requests \ {r} : ~HoldsFeeAccount(s)
    /\ Advance(r, "readTo")

\* SumBalanceByAccount of the destination.
ReadTo(r) ==
    /\ pc[r] = "readTo"
    /\ \/ req[r].to \notin accounts /\ Reject(r)
       \/ /\ req[r].to \in accounts
          /\ toBal' = [toBal EXCEPT ![r] = ledger[req[r].to]]
          /\ Goto(r, "writeTo")
          /\ UNCHANGED <<req, db, fromBal, reply, notices, faults>>

\* InsertEntry and SetBalance on the destination account.
WriteTo(r) ==
    /\ pc[r] = "writeTo"
    /\ BalanceWaitsFor(r, req[r].to) = {}
    /\ Advance(r, "commit")

\* Mutant: the destination's entry is forgotten, its balances row is not.
ApplyWritesOneEntry(r) ==
    LET q == req[r] IN
    /\ txns' = txns \cup {r}
    /\ ledger' = [ledger EXCEPT ![q.from] = @ + FromDelta(q)]
    /\ balances' = [a \in Accounts |->
                      IF a = q.from THEN fromBal[r] + FromDelta(q)
                      ELSE IF HasTo(q) /\ a = q.to THEN toBal[r] + ToDelta(q)
                      ELSE balances[a]]
    /\ UNCHANGED <<req, accounts, locals, notices>>

\* Commit makes the transaction row, its entries and the balances rows
\* visible together.  The balances are the ones computed from the earlier
\* reads.
ApplyWrites(r) ==
    LET q == req[r] IN
    /\ txns' = txns \cup {r}
    /\ ledger' = [a \in Accounts |-> ledger[a] + Effect(q)[a]]
    /\ balances' = [a \in Accounts |->
                      IF a = q.from THEN fromBal[r] + FromDelta(q)
                      ELSE IF HasTo(q) /\ a = q.to THEN toBal[r] + ToDelta(q)
                      ELSE balances[a]]
    /\ UNCHANGED <<req, accounts, locals, notices>>

\* WithdrawExternal files no inbox notice.
Commit(r) ==
    /\ pc[r] = "commit"
    /\ ApplyWrites(r)
    /\ Answer(r, IF req[r].op = "WithdrawExternal" THEN "done" ELSE "notify", r)
    /\ UNCHANGED faults

\* Mutant: the original is not looked up, a nil transaction is returned.
ConflictReturnsNil(r) ==
    /\ pc[r] = "conflict"
    /\ Answer(r, "done", NoAccount)
    /\ UNCHANGED <<req, db, locals, notices, faults>>

\* The unique index refused the insert and the transaction was rolled back.
\* move, Transfer and Convert return the original; WithdrawExternal returns
\* the error.
Conflict(r) ==
    /\ pc[r] = "conflict"
    /\ \/ req[r].op = "WithdrawExternal" /\ Reject(r)
       \/ /\ req[r].op # "WithdrawExternal"
          /\ \E t \in Committed(req[r].key) :
               Answer(r, IF IsMove(req[r]) THEN "notify" ELSE "done", t)
          /\ UNCHANGED <<req, db, locals, notices, faults>>

-----------------------------------------------------------------------------
(* After the transaction, and failures.                                    *)

\* notify files an inbox notice about the returned transaction.
Notify(r) ==
    /\ pc[r] = "notify"
    /\ notices' = [notices EXCEPT ![reply[r]] = @ + 1]
    /\ Goto(r, "done")
    /\ UNCHANGED <<req, db, locals, reply, faults>>

CountFault == faults < MaxFaults /\ faults' = faults + 1

\* A statement fails or the caller's context ends: the transaction is rolled
\* back and the call returns an error.
StatementFails(r) ==
    /\ pc[r] \in Steps \ {"new", "lock", "notify", "done"}
    /\ CountFault
    /\ Answer(r, "done", Failed)
    /\ UNCHANGED <<req, db, locals, notices>>

\* The commit takes effect but its acknowledgement is lost.
CommitAckLost(r) ==
    /\ pc[r] = "commit"
    /\ CountFault
    /\ ApplyWrites(r)
    /\ Answer(r, "done", Failed)

\* notify is best-effort: a failed insert is only logged.
NotifyFails(r) ==
    /\ pc[r] = "notify"
    /\ CountFault
    /\ Goto(r, "done")
    /\ UNCHANGED <<req, db, locals, reply, notices>>

\* The transactions a waiting transaction waits for.
WaitsFor(r) ==
    CASE pc[r] = "insert" -> InsertWaitsFor(r)
      [] pc[r] = "writeFrom" -> BalanceWaitsFor(r, req[r].from)
      [] pc[r] = "writeTo" -> BalanceWaitsFor(r, req[r].to)
      [] pc[r] = "ensureFee" -> {s \in Requests \ {r} : HoldsFeeAccount(s)}
      [] OTHER -> {}

\* Postgres breaks a cycle of waiting transactions by aborting one of them.
\* Each waits for at most one other, so a set in which everybody waits for,
\* and is waited for by, a member consists of cycles.
DeadlockVictim(r) ==
    /\ WaitsFor(r) # {}
    /\ \E C \in SUBSET Requests :
         /\ r \in C
         /\ \A s \in C : WaitsFor(s) \cap C # {} /\ (\E u \in C : s \in WaitsFor(u))
    /\ Reject(r)

Step(r) ==
    \/ Start(r) \/ LockUser(r) \/ CheckReplay(r) \/ EnsureAccounts(r) \/ Lookup(r)
    \/ ReadFrom(r) \/ ReadOut(r) \/ InsertTxn(r) \/ WriteFrom(r)
    \/ EnsureFeeAccount(r) \/ ReadTo(r) \/ WriteTo(r) \/ Commit(r) \/ Conflict(r) \/ Notify(r)
    \/ DeadlockVictim(r)

Fault(r) == StatementFails(r) \/ CommitAckLost(r) \/ NotifyFails(r)

\* Every call has returned.
Quiet ==
    /\ \A r \in Requests : pc[r] = "done"
    /\ UNCHANGED vars

Next == (\E r \in Requests : Step(r) \/ Fault(r)) \/ Quiet

Spec == Init /\ [][Next]_vars

\* Goroutines and Postgres sessions are scheduled, locks are granted to
\* somebody, and the deadlock detector runs; nothing makes a failure happen.
FairSpec == Spec /\ \A r \in Requests : WF_vars(Step(r))

-----------------------------------------------------------------------------
(* Properties.                                                             *)

\* An idempotency key is applied at most once, whatever the interleaving of
\* duplicate calls (ledger.go 79: "the unique index is the authoritative
\* guard").
OneTransactionPerKey ==
    \A t, u \in txns : req[t].key # NoKey /\ req[t].key = req[u].key => t = u

\* An answer without an error names a committed transaction, and a replay the
\* original with the same key (ledger.go 159-166).
RepliesAreCommitted ==
    \A r \in Requests :
        reply[r] \in Requests =>
            /\ reply[r] \in txns
            /\ reply[r] # r => req[r].key # NoKey /\ req[reply[r]].key = req[r].key

\* The fee account's projection always equals its ledger sum: EnsureAccount
\* locks the accounts row before the sum is read (money.go 260-282), so no
\* fee settlement is lost to a concurrent one.
PlatformProjection == balances[Platform] = ledger[Platform]

\* Only vault deposits run by one process reach the account.
OneCrediter(a) ==
    LET touching == {r \in Requests : a \in {req[r].from, req[r].to}}
    IN  \A r, s \in touching : req[r].op = "VaultDeposit" /\ req[r].at = req[s].at

\* An account that only the vault deposits of one process reach keeps its
\* balances row equal to its ledger sum: the user's mutex (lockFor, vault.go
\* 176) covers the read of the sum, the write of the row and the commit.
\* User calls take no mutex and another process takes its own, so nothing of
\* the kind holds of an account they also move.
VaultProjection == \A a \in Accounts : OneCrediter(a) => balances[a] = ledger[a]

\* Every committed transaction has posted each of its entries exactly once
\* and nothing else moves a balance: the ledger is the opening balance plus
\* the effects of the committed transactions (RunInTx, postgres.go 103-116).
LedgerExplained ==
    \A a \in Accounts :
        ledger[a] = InitLedger[a] + SumFunction([t \in txns |-> Effect(req[t])[a]])

\* No account is debited below zero ("Checked inside the transaction to avoid
\* race conditions", ledger.go 104 and money.go 217).
NoOverdraft == \A a \in Accounts : ledger[a] >= 0

\* An open transaction reserves its key: nobody else holds or has committed it.
KeyReserved ==
    \A r \in Requests :
        Inserted(r) /\ req[r].key # NoKey =>
            /\ Committed(req[r].key) = {}
            /\ \A s \in Requests \ {r} : Inserted(s) => req[s].key # req[r].key

\* A call that has not ended has neither committed nor answered.
Unsettled ==
    \A r \in Requests :
        pc[r] \notin {"notify", "done"} => r \notin txns /\ reply[r] = Pending

\* One transaction at a time holds the fee account's row, and the fee balance
\* it has read is still the committed one.
FeeAccountHeld ==
    \A r \in Requests :
        HoldsFeeAccount(r) =>
            /\ \A s \in Requests \ {r} : ~HoldsFeeAccount(s)
            /\ pc[r] # "readTo" => toBal[r] = ledger[Platform]

\* The inductive invariant behind the theorems of LedgerProofs.
IInv ==
    /\ TypeOK
    /\ KeyReserved
    /\ Unsettled
    /\ FeeAccountHeld
    /\ OneTransactionPerKey
    /\ RepliesAreCommitted
    /\ PlatformProjection

\* Every call returns.  Calls wait for each other's keys, balance rows, the
\* fee account and the user mutex; conversions in opposite directions lock
\* their balance rows in opposite orders.
EveryCallReturns == \A r \in Requests : <>(pc[r] = "done")

\* The abstract ledger the services promise; this module implements it.
Atomic == INSTANCE AtomicLedger
ImplementsAtomicLedger == Atomic!Spec
=============================================================================
