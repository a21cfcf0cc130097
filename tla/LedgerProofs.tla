---------------------------- MODULE LedgerProofs ----------------------------
(***************************************************************************)
(* Proofs about Ledger for every set of requests, accounts and keys.       *)
(***************************************************************************)
EXTENDS Ledger, FiniteSetTheorems, WellFoundedInduction, TLAPS

USE LedgerOpsAssumption, LedgerAssumption

\* What the data of a request looks like.
LEMMA InputFacts ==
    ASSUME NEW q \in Inputs
    PROVE  /\ q.from \in Accounts
           /\ q.key \in Keys \cup {NoKey}
           /\ HasTo(q) => q.to \in Accounts
           /\ FromDelta(q) \in Int
           /\ ToDelta(q) \in Int
           /\ Effect(q) \in [Accounts -> Int]
<1>1. q \in InputType
  OBVIOUS
<1>2. /\ q.from \in Accounts /\ q.key \in Keys \cup {NoKey}
      /\ q.amount \in Int /\ q.fee \in Int /\ q.out \in Int
      /\ q.to \in Accounts \cup {NoAccount}
  BY <1>1 DEF InputType
<1>3. HasTo(q) => q.to \in Accounts
  <2>1. CASE q.op = "WithdrawExternal"
    BY <2>1
  <2>2. CASE q.op # "WithdrawExternal"
    BY <1>2, <2>2 DEF HasTo
  <2> QED BY <2>1, <2>2
<1>4. FromDelta(q) \in Int /\ ToDelta(q) \in Int
  BY <1>2 DEF FromDelta, ToDelta, Required
<1>5. QED
  BY <1>2, <1>3, <1>4 DEF Effect

-----------------------------------------------------------------------------
(* Type correctness.                                                       *)

LEMMA RejectType ==
    ASSUME TypeOK, NEW r \in Requests, Reject(r)
    PROVE  TypeOK'
BY DEF TypeOK, Reject, Answer, Goto, db, locals, Steps

LEMMA AdvanceType ==
    ASSUME TypeOK, NEW r \in Requests, NEW s \in Steps, Advance(r, s)
    PROVE  TypeOK'
BY DEF TypeOK, Advance, Goto, db, locals

LEMMA AnswerType ==
    ASSUME TypeOK, NEW r \in Requests, NEW s \in Steps, NEW t \in txns,
           Answer(r, s, t), UNCHANGED <<req, db, locals, notices, faults>>
    PROVE  TypeOK'
BY DEF TypeOK, Answer, Goto, db, locals

LEMMA ApplyWritesType ==
    ASSUME TypeOK, NEW r \in Requests, ApplyWrites(r)
    PROVE  /\ req' \in [Requests -> Inputs]
           /\ txns' \subseteq Requests
           /\ ledger' \in [Accounts -> Int]
           /\ balances' \in [Accounts -> Int]
           /\ accounts' \subseteq Accounts
           /\ fromBal' \in [Requests -> Int]
           /\ toBal' \in [Requests -> Int]
           /\ notices' \in [Requests -> Nat]
<1>1. /\ FromDelta(req[r]) \in Int /\ ToDelta(req[r]) \in Int
      /\ Effect(req[r]) \in [Accounts -> Int]
  BY InputFacts DEF TypeOK
<1>2. ledger' \in [Accounts -> Int]
  BY <1>1 DEF ApplyWrites, TypeOK
<1>3. balances' \in [Accounts -> Int]
  BY <1>1 DEF ApplyWrites, TypeOK
<1>4. QED
  BY <1>2, <1>3 DEF ApplyWrites, TypeOK, locals

LEMMA StepType ==
    ASSUME TypeOK, NEW r \in Requests, Step(r)
    PROVE  TypeOK'
<1> USE DEF Steps
<1>0. req[r] \in Inputs
  BY DEF TypeOK
<1>1. CASE Start(r)
  BY <1>1, RejectType, AdvanceType DEF Start
<1>2. CASE LockUser(r)
  BY <1>2, AdvanceType DEF LockUser
<1>3. CASE CheckReplay(r)
  BY <1>3, RejectType, AdvanceType, AnswerType DEF CheckReplay, Committed
<1>4. CASE EnsureAccounts(r)
  <2>1. req[r].from \in Accounts /\ req[r].to \in Accounts
    BY <1>0 , <1>4, InputFacts DEF EnsureAccounts
  <2> QED
    BY <1>4, <2>1 DEF EnsureAccounts, TypeOK, Goto, locals
<1>5. CASE Lookup(r)
  <2>1. CASE \E t \in Committed(req[r].key) :
               Answer(r, IF IsMove(req[r]) THEN "notify" ELSE "done", t)
             /\ UNCHANGED <<req, db, locals, notices, faults>>
    BY <2>1, AnswerType DEF Committed
  <2>2. CASE Advance(r, "begin")
    BY <2>2, AdvanceType
  <2> QED
    BY <1>5, <2>1, <2>2 DEF Lookup
<1>6. CASE ReadFrom(r)
  <2>1. CASE Reject(r)
    BY <2>1, RejectType
  <2>2. CASE ~Reject(r)
    <3>1. ledger[req[r].from] \in Int
      BY <1>0, InputFacts DEF TypeOK
    <3> QED
      BY <1>6, <2>2, <3>1 DEF ReadFrom, TypeOK, Goto, db
  <2> QED BY <2>1, <2>2
<1>7. CASE InsertTxn(r)
  BY <1>7, AdvanceType DEF InsertTxn
<1>8. CASE WriteFrom(r)
  <2>1. AfterFrom(req[r]) \in Steps
    BY DEF AfterFrom
  <2> QED
    BY <1>8, <2>1, AdvanceType DEF WriteFrom
<1>9. CASE EnsureFeeAccount(r)
  BY <1>9, AdvanceType DEF EnsureFeeAccount
<1>10. CASE ReadTo(r)
  <2>1. CASE Reject(r)
    BY <2>1, RejectType
  <2>2. CASE ~Reject(r)
    BY <1>10, <2>2 DEF ReadTo, TypeOK, Goto, db
  <2> QED BY <2>1, <2>2
<1>11. CASE WriteTo(r)
  BY <1>11, AdvanceType DEF WriteTo
<1>12. CASE Commit(r)
  BY <1>12, ApplyWritesType DEF Commit, TypeOK, Answer, Goto
<1>13. CASE Conflict(r)
  <2>1. CASE Reject(r)
    BY <2>1, RejectType
  <2>2. CASE ~Reject(r)
    BY <1>13, <2>2, AnswerType DEF Conflict, Committed
  <2> QED BY <2>1, <2>2
<1>14. CASE Notify(r)
  <2>1. notices' \in [Requests -> Nat]
    <3>1. CASE reply[r] \in Requests
      <4>1. notices[reply[r]] + 1 \in Nat
        BY <3>1 DEF TypeOK
      <4> QED
        BY <1>14, <4>1 DEF Notify, TypeOK
    <3>2. CASE reply[r] \notin Requests
      <4>1. notices' = notices
        BY <1>14, <3>2 DEF Notify, TypeOK
      <4> QED
        BY <4>1 DEF TypeOK
    <3> QED BY <3>1, <3>2
  <2> QED
    BY <1>14, <2>1 DEF Notify, TypeOK, Goto, db, locals
<1>15. CASE DeadlockVictim(r)
  BY <1>15, RejectType DEF DeadlockVictim
<1>16. CASE ReadOut(r)
  <2>1. ledger[req[r].to] \in Int
    BY <1>0, <1>16 DEF ReadOut, TypeOK
  <2> QED
    BY <1>16, <2>1 DEF ReadOut, TypeOK, Goto, db
<1> QED
  BY <1>1, <1>2, <1>3, <1>4, <1>5, <1>6, <1>7, <1>8, <1>9, <1>10, <1>11,
     <1>12, <1>13, <1>14, <1>15, <1>16 DEF Step

LEMMA FaultType ==
    ASSUME TypeOK, NEW r \in Requests, Fault(r)
    PROVE  TypeOK'
<1> USE DEF Steps, CountFault, Answer, Goto
<1>1. CASE StatementFails(r)
  BY <1>1 DEF StatementFails, TypeOK, db, locals
<1>2. CASE CommitAckLost(r)
  BY <1>2, ApplyWritesType DEF CommitAckLost, TypeOK
<1>3. CASE NotifyFails(r)
  BY <1>3 DEF NotifyFails, TypeOK, db, locals
<1> QED
  BY <1>1, <1>2, <1>3 DEF Fault

LEMMA NextType == TypeOK /\ [Next]_vars => TypeOK'
<1> SUFFICES ASSUME TypeOK, [Next]_vars
             PROVE  TypeOK'
  OBVIOUS
<1>1. CASE \E r \in Requests : Step(r) \/ Fault(r)
  BY <1>1, StepType, FaultType
<1>2. CASE UNCHANGED vars
  BY <1>2 DEF TypeOK, vars
<1> QED
  BY <1>1, <1>2 DEF Next, Quiet

\* The reads, the writes and the answers of every call stay within their
\* types, for any number of calls, accounts and keys.
THEOREM TypeCorrect == Spec => []TypeOK
<1>1. Init => TypeOK
  BY DEF Init, TypeOK, Steps
<1>2. QED
  BY <1>1, NextType, PTL DEF Spec

-----------------------------------------------------------------------------
(* The inductive invariant.                                                *)

\* A call ends without a commit: its locks and its key are released.
LEMMA EndPreserves ==
    ASSUME IInv, TypeOK', NEW r \in Requests, NEW s \in {"notify", "done"}, NEW a,
           Answer(r, s, a),
           a = Failed \/ (a \in Committed(req[r].key)),
           UNCHANGED <<req, txns, ledger, balances, toBal>>
    PROVE  IInv'
<1> USE DEF IInv, TypeOK, Answer, Goto
<1>1. KeyReserved'
  BY DEF KeyReserved, Inserted, Committed
<1>2. Unsettled'
  BY DEF Unsettled
<1>3. FeeAccountHeld'
  BY DEF FeeAccountHeld, HoldsFeeAccount, HasTo
<1>4. OneTransactionPerKey'
  BY DEF OneTransactionPerKey
<1>5. RepliesAreCommitted'
  BY DEF RepliesAreCommitted, Committed
<1>6. PlatformProjection'
  BY DEF PlatformProjection
<1> QED
  BY <1>1, <1>2, <1>3, <1>4, <1>5, <1>6

\* A call moves on before it has inserted its transaction row.
LEMMA EarlyPreserves ==
    ASSUME IInv, TypeOK', NEW r \in Requests,
           NEW s \in {"lock", "check", "ensure", "lookup", "begin", "readOut",
                  "insert", "conflict"},
           pc[r] \notin {"notify", "done"},
           Goto(r, s),
           \A t \in Requests \ {r} : toBal'[t] = toBal[t],
           UNCHANGED <<req, txns, ledger, balances, reply>>
    PROVE  IInv'
<1> USE DEF IInv, TypeOK, Goto
<1>1. KeyReserved'
  BY DEF KeyReserved, Inserted, Committed
<1>2. Unsettled'
  BY DEF Unsettled
<1>3. FeeAccountHeld'
  BY DEF FeeAccountHeld, HoldsFeeAccount, HasTo
<1>4. OneTransactionPerKey'
  BY DEF OneTransactionPerKey
<1>5. RepliesAreCommitted'
  BY DEF RepliesAreCommitted
<1>6. PlatformProjection'
  BY DEF PlatformProjection
<1> QED
  BY <1>1, <1>2, <1>3, <1>4, <1>5, <1>6

\* The insert succeeds: the key becomes this transaction's own.
LEMMA InsertPreserves ==
    ASSUME IInv, TypeOK', NEW r \in Requests, pc[r] = "insert",
           InsertWaitsFor(r) = {}, Committed(req[r].key) = {},
           Advance(r, "writeFrom")
    PROVE  IInv'
<1> USE DEF IInv, TypeOK, Advance, Goto, db, locals
<1>1. KeyReserved'
  <2>1. \A s \in Requests \ {r} :
          req[r].key # NoKey /\ Inserted(s) => req[s].key # req[r].key
    BY DEF InsertWaitsFor
  <2> QED
    BY <2>1 DEF KeyReserved, Inserted, Committed
<1>2. Unsettled'
  BY DEF Unsettled
<1>3. FeeAccountHeld'
  BY DEF FeeAccountHeld, HoldsFeeAccount, HasTo
<1>4. OneTransactionPerKey' /\ RepliesAreCommitted' /\ PlatformProjection'
  BY DEF OneTransactionPerKey, RepliesAreCommitted, PlatformProjection
<1> QED
  BY <1>1, <1>2, <1>3, <1>4

\* A statement inside the open transaction.
LEMMA InsidePreserves ==
    ASSUME IInv, TypeOK', NEW r \in Requests, Inserted(r),
           NEW s \in {"ensureFee", "readTo", "writeTo", "commit"},
           Goto(r, s),
           \A t \in Requests \ {r} : toBal'[t] = toBal[t],
           UNCHANGED <<req, txns, ledger, balances, reply>>,
           FeeAccountHeld'
    PROVE  IInv'
<1> USE DEF IInv, TypeOK, Goto
<1>1. KeyReserved'
  BY DEF KeyReserved, Inserted, Committed
<1>2. Unsettled'
  BY DEF Unsettled, Inserted
<1>3. OneTransactionPerKey' /\ RepliesAreCommitted' /\ PlatformProjection'
  BY DEF OneTransactionPerKey, RepliesAreCommitted, PlatformProjection
<1> QED
  BY <1>1, <1>2, <1>3

\* The commit, whether or not its acknowledgement arrives.
LEMMA CommitPreserves ==
    ASSUME IInv, TypeOK', NEW r \in Requests, pc[r] = "commit",
           ApplyWrites(r), NEW s \in {"notify", "done"}, NEW a \in {r, Failed},
           Answer(r, s, a)
    PROVE  IInv'
<1> USE DEF IInv, TypeOK, Answer, Goto
<1>0. /\ req[r] \in Inputs
      /\ txns' = txns \cup {r}
      /\ req' = req /\ toBal' = toBal
      /\ Inserted(r)
      /\ r \notin txns
  BY DEF ApplyWrites, locals, Inserted, Unsettled
<1>1. KeyReserved'
  <2> SUFFICES ASSUME NEW u \in Requests, Inserted(u)', req[u].key # NoKey
               PROVE  /\ Committed(req[u].key)' = {}
                      /\ \A v \in Requests \ {u} : Inserted(v)' => req[v].key # req[u].key
    BY <1>0 DEF KeyReserved
  <2>1. u # r /\ Inserted(u)
    BY DEF Inserted
  <2>2. Committed(req[u].key) = {} /\ req[r].key # req[u].key
    BY <1>0, <2>1 DEF KeyReserved
  <2>3. Committed(req[u].key)' = {}
    BY <1>0, <2>2 DEF Committed
  <2>4. \A v \in Requests \ {u} : Inserted(v)' => Inserted(v)
    BY DEF Inserted
  <2> QED
    BY <2>1, <2>3, <2>4 DEF KeyReserved
<1>2. Unsettled'
  BY <1>0 DEF Unsettled
<1>3. OneTransactionPerKey'
  <2>1. req[r].key # NoKey => \A t \in txns : req[t].key # req[r].key
    BY <1>0 DEF KeyReserved, Committed
  <2> QED
    BY <1>0, <2>1 DEF OneTransactionPerKey
<1>4. RepliesAreCommitted'
  BY <1>0 DEF RepliesAreCommitted
<1>5. req[r].from # Platform /\ (req[r].to = Platform <=> req[r].op = "WithdrawExternal")
  BY <1>0
<1>6. CASE HoldsFeeAccount(r)
  <2>1. HasTo(req[r]) /\ req[r].to = Platform
    BY <1>5, <1>6 DEF HoldsFeeAccount
  <2>2. toBal[r] = ledger[Platform]
    BY <1>6 DEF FeeAccountHeld
  <2>3. balances'[Platform] = ledger'[Platform]
    BY <1>5, <2>1, <2>2 DEF ApplyWrites, Effect
  <2>4. FeeAccountHeld'
    <3>1. \A t \in Requests : ~HoldsFeeAccount(t)'
      BY <1>0, <1>6 DEF FeeAccountHeld, HoldsFeeAccount
    <3> QED
      BY <3>1 DEF FeeAccountHeld
  <2> QED
    BY <1>1, <1>2, <1>3, <1>4, <2>3, <2>4 DEF PlatformProjection
<1>7. CASE ~HoldsFeeAccount(r)
  <2>1. ~(HasTo(req[r]) /\ req[r].to = Platform)
    BY <1>5, <1>7 DEF HoldsFeeAccount
  <2>2. ledger'[Platform] = ledger[Platform] /\ balances'[Platform] = balances[Platform]
    BY <1>5, <2>1 DEF ApplyWrites, Effect
  <2>3. \A t \in Requests : HoldsFeeAccount(t)' => HoldsFeeAccount(t) /\ pc'[t] = pc[t]
    BY <1>0 DEF HoldsFeeAccount
  <2>4. FeeAccountHeld'
    BY <1>0, <2>2, <2>3 DEF FeeAccountHeld
  <2> QED
    BY <1>1, <1>2, <1>3, <1>4, <2>2, <2>4 DEF PlatformProjection
<1> QED
  BY <1>6, <1>7

LEMMA StepPreserves ==
    ASSUME IInv, NEW r \in Requests, Step(r)
    PROVE  IInv'
<1>0. TypeOK' /\ req[r] \in Inputs
  BY StepType DEF IInv, TypeOK
<1>a. ASSUME Reject(r)
      PROVE  IInv'
  BY <1>0, <1>a, EndPreserves DEF Reject, db, locals
<1>b. ASSUME NEW s \in {"lock", "check", "ensure", "lookup", "begin", "conflict"},
             pc[r] \notin {"notify", "done"}, Advance(r, s)
      PROVE  IInv'
  BY <1>0, <1>b, EarlyPreserves DEF Advance, db, locals
<1>c. ASSUME NEW s \in {"notify", "done"},
             \E t \in Committed(req[r].key) : Answer(r, s, t),
             UNCHANGED <<req, db, locals, notices, faults>>
      PROVE  IInv'
  BY <1>0, <1>c, EndPreserves DEF db, locals
<1>1. CASE Start(r)
  BY <1>1, <1>a, <1>b DEF Start
<1>2. CASE LockUser(r)
  BY <1>2, <1>b DEF LockUser
<1>3. CASE CheckReplay(r)
  BY <1>3, <1>a, <1>b, <1>c DEF CheckReplay
<1>4. CASE EnsureAccounts(r)
  BY <1>0, <1>4, EarlyPreserves DEF EnsureAccounts, locals
<1>5. CASE Lookup(r)
  BY <1>5, <1>b, <1>c DEF Lookup
<1>6. CASE ReadFrom(r)
  <2>1. CASE Reject(r)
    BY <2>1, <1>a
  <2>2. CASE ~Reject(r)
    BY <1>0, <1>6, <2>2, EarlyPreserves DEF ReadFrom, db
  <2> QED BY <2>1, <2>2
<1>7. CASE InsertTxn(r)
  BY <1>0, <1>7, <1>b, InsertPreserves DEF InsertTxn
<1>8. CASE WriteFrom(r)
  <2>1. AfterFrom(req[r]) \in {"ensureFee", "readTo", "writeTo", "commit"}
    BY DEF AfterFrom
  <2>2. ~HoldsFeeAccount(r) /\ ~HoldsFeeAccount(r)'
    BY <1>8 DEF WriteFrom, Advance, Goto, AfterFrom, HoldsFeeAccount, IInv, TypeOK
  <2>3. FeeAccountHeld'
    BY <1>8, <2>2 DEF WriteFrom, Advance, Goto, HoldsFeeAccount, FeeAccountHeld,
                      IInv, TypeOK, db, locals
  <2> QED
    BY <1>0, <1>8, <2>1, <2>3, InsidePreserves DEF WriteFrom, Advance, Inserted, db, locals
<1>9. CASE EnsureFeeAccount(r)
  <2>1. FeeAccountHeld'
    BY <1>9 DEF EnsureFeeAccount, Advance, Goto, HoldsFeeAccount, FeeAccountHeld,
                IInv, TypeOK, db, locals
  <2> QED
    BY <1>0, <1>9, <2>1, InsidePreserves DEF EnsureFeeAccount, Advance, Inserted, db, locals
<1>10. CASE ReadTo(r)
  <2>1. CASE Reject(r)
    BY <2>1, <1>a
  <2>2. CASE ~Reject(r)
    <3>1. /\ toBal' = [toBal EXCEPT ![r] = ledger[req[r].to]]
          /\ Goto(r, "writeTo") /\ pc[r] = "readTo"
          /\ UNCHANGED <<req, db, reply>>
      BY <1>10, <2>2 DEF ReadTo
    <3>2. req[r].op = "WithdrawExternal" => req[r].to = Platform
      BY <1>0
    <3>3. FeeAccountHeld'
      BY <3>1, <3>2 DEF Goto, HoldsFeeAccount, FeeAccountHeld, IInv, TypeOK, db
    <3> QED
      BY <1>0, <3>1, <3>3, InsidePreserves DEF Inserted, db, IInv, TypeOK
  <2> QED BY <2>1, <2>2
<1>11. CASE WriteTo(r)
  <2>1. FeeAccountHeld'
    BY <1>11 DEF WriteTo, Advance, Goto, HoldsFeeAccount, FeeAccountHeld,
                IInv, TypeOK, db, locals
  <2> QED
    BY <1>0, <1>11, <2>1, InsidePreserves DEF WriteTo, Advance, Inserted, db, locals
<1>12. CASE Commit(r)
  BY <1>0, <1>12, CommitPreserves DEF Commit
<1>13. CASE Conflict(r)
  BY <1>13, <1>a, <1>c DEF Conflict
<1>14. CASE Notify(r)
  <2> USE <1>14 DEF Notify, Goto, IInv, TypeOK, db, locals
  <2>1. KeyReserved'
    BY DEF KeyReserved, Inserted, Committed
  <2>2. Unsettled'
    BY DEF Unsettled
  <2>3. FeeAccountHeld'
    BY DEF FeeAccountHeld, HoldsFeeAccount
  <2>4. OneTransactionPerKey' /\ RepliesAreCommitted' /\ PlatformProjection'
    BY DEF OneTransactionPerKey, RepliesAreCommitted, PlatformProjection
  <2> QED
    BY <1>0, <2>1, <2>2, <2>3, <2>4
<1>15. CASE DeadlockVictim(r)
  BY <1>15, <1>a DEF DeadlockVictim
<1>16. CASE ReadOut(r)
  <2>1. \A t \in Requests \ {r} : toBal'[t] = toBal[t]
    BY <1>16 DEF ReadOut, IInv, TypeOK
  <2> QED
    BY <1>0, <1>16, <2>1, EarlyPreserves DEF ReadOut, db
<1> QED
  BY <1>1, <1>2, <1>3, <1>4, <1>5, <1>6, <1>7, <1>8, <1>9, <1>10, <1>11,
     <1>12, <1>13, <1>14, <1>15, <1>16 DEF Step

LEMMA FaultPreserves ==
    ASSUME IInv, NEW r \in Requests, Fault(r)
    PROVE  IInv'
<1>0. TypeOK'
  BY FaultType DEF IInv
<1>1. CASE StatementFails(r)
  BY <1>0, <1>1, EndPreserves DEF StatementFails, db, locals
<1>2. CASE CommitAckLost(r)
  BY <1>0, <1>2, CommitPreserves DEF CommitAckLost
<1>3. CASE NotifyFails(r)
  <2> USE <1>3 DEF NotifyFails, Goto, IInv, TypeOK, db, locals
  <2>1. KeyReserved'
    BY DEF KeyReserved, Inserted, Committed
  <2>2. Unsettled'
    BY DEF Unsettled
  <2>3. FeeAccountHeld'
    BY DEF FeeAccountHeld, HoldsFeeAccount
  <2>4. OneTransactionPerKey' /\ RepliesAreCommitted' /\ PlatformProjection'
    BY DEF OneTransactionPerKey, RepliesAreCommitted, PlatformProjection
  <2> QED
    BY <1>0, <2>1, <2>2, <2>3, <2>4
<1> QED
  BY <1>1, <1>2, <1>3 DEF Fault

LEMMA InitInv == Init => IInv
<1> SUFFICES ASSUME Init
             PROVE  IInv
  OBVIOUS
<1>1. TypeOK
  BY DEF Init, TypeOK, Steps
<1>2. KeyReserved /\ Unsettled /\ FeeAccountHeld
  BY DEF Init, KeyReserved, Unsettled, FeeAccountHeld, Inserted, HoldsFeeAccount
<1>3. OneTransactionPerKey /\ RepliesAreCommitted /\ PlatformProjection
  BY DEF Init, OneTransactionPerKey, RepliesAreCommitted, PlatformProjection
<1> QED
  BY <1>1, <1>2, <1>3 DEF IInv

LEMMA NextInv == IInv /\ [Next]_vars => IInv'
<1> SUFFICES ASSUME IInv, [Next]_vars
             PROVE  IInv'
  OBVIOUS
<1>1. CASE \E r \in Requests : Step(r) \/ Fault(r)
  BY <1>1, StepPreserves, FaultPreserves
<1>2. CASE UNCHANGED vars
  BY <1>2 DEF IInv, vars, TypeOK, KeyReserved, Unsettled, FeeAccountHeld,
              Inserted, HoldsFeeAccount, Committed, OneTransactionPerKey,
              RepliesAreCommitted, PlatformProjection
<1> QED
  BY <1>1, <1>2 DEF Next, Quiet

\* The inductive invariant holds: a key is reserved from the insert to the
\* commit, the fee account's row from the upsert to the commit.
THEOREM InvariantHolds == Spec => []IInv
BY InitInv, NextInv, PTL DEF Spec

\* A key is applied at most once, for any number of concurrent duplicates.
THEOREM KeysAreAppliedOnce == Spec => []OneTransactionPerKey
<1>1. IInv => OneTransactionPerKey
  BY DEF IInv
<1> QED
  BY <1>1, InvariantHolds, PTL

\* An answer names a committed transaction, a replay the original.
THEOREM RepliesNameTheOriginal == Spec => []RepliesAreCommitted
<1>1. IInv => RepliesAreCommitted
  BY DEF IInv
<1> QED
  BY <1>1, InvariantHolds, PTL

\* No concurrent withdrawal loses another's fee: the projection of the fee
\* account is its ledger sum in every committed state.
THEOREM NoFeeIsLost == Spec => []PlatformProjection
<1>1. IInv => PlatformProjection
  BY DEF IInv
<1> QED
  BY <1>1, InvariantHolds, PTL

-----------------------------------------------------------------------------
(* The projection of accounts that one process's vault deposits reach.      *)

\* One vault deposit at a time holds a mutex.
UserLockHeld ==
    \A r, s \in Requests :
        HoldsUserLock(r) /\ HoldsUserLock(s) /\ SameUserLock(r, s) => r = s

\* The balance it has read under the mutex is still the committed one, unless
\* user calls or another process move the account too.
VaultReadIsCurrent ==
    \A r \in Requests :
        /\ OneCrediter(req[r].from)
        /\ pc[r] \in {"insert", "writeFrom", "ensureFee", "readTo", "writeTo", "commit"}
        => fromBal[r] = ledger[req[r].from]

VaultInv == UserLockHeld /\ VaultReadIsCurrent /\ VaultProjection

\* What a step of a call does to the mutex and to the balances: it takes the
\* mutex when nobody has it, reads the source balance, or commits.
LockStep(r) ==
    \E step \in Steps :
        /\ pc' = [pc EXCEPT ![r] = step] /\ UNCHANGED req /\ pc[r] # "done"
        /\ req[r].op = "VaultDeposit" /\ pc[r] \in {"new", "lock"}
              => \/ step \in {"lock", "done"}
                 \/ \A s \in Requests \ {r} : HoldsUserLock(s) => ~SameUserLock(r, s)
        /\ \/ step \in {"notify", "done"} /\ UNCHANGED <<ledger, balances, fromBal>>
           \/ pc[r] = "commit" /\ ApplyWrites(r) /\ step \in {"notify", "done"}
           \/ /\ UNCHANGED <<ledger, balances, fromBal>>
              /\ \/ step \in {"lock", "check", "ensure", "lookup", "begin", "conflict"}
                 \/ req[r].op = "Convert" /\ pc[r] = "readOut"
                 \/ pc[r] \in {"insert", "writeFrom", "ensureFee", "readTo", "writeTo", "commit"}
           \/ /\ fromBal' = [fromBal EXCEPT ![r] = ledger[req[r].from]]
              /\ UNCHANGED <<ledger, balances>>

LEMMA LockSteps ==
    ASSUME TypeOK, NEW r \in Requests, Step(r) \/ Fault(r) PROVE LockStep(r)
<1> USE DEF Steps, Goto
<1>a. ASSUME Reject(r), pc[r] # "done" PROVE LockStep(r)
  BY <1>a DEF LockStep, Reject, Answer, db, locals
<1>b. ASSUME NEW s \in Steps, Advance(r, s), pc[r] # "done",
             req[r].op = "VaultDeposit" /\ pc[r] \in {"new", "lock"} =>
               s = "lock" \/ \A t \in Requests \ {r} : HoldsUserLock(t) => ~SameUserLock(r, t),
             \/ s \in {"lock", "check", "ensure", "lookup", "begin", "conflict"}
             \/ pc[r] \in {"insert", "writeFrom", "ensureFee", "readTo", "writeTo", "commit"}
      PROVE  LockStep(r)
  BY <1>b DEF LockStep, Advance, db, locals
<1>c. ASSUME NEW s \in {"notify", "done"}, NEW t, Answer(r, s, t), pc[r] \notin {"new", "lock", "done"},
             UNCHANGED <<req, db, locals>>
      PROVE  LockStep(r)
  BY <1>c DEF LockStep, Answer, db, locals
<1>1. CASE Start(r)
  BY <1>1, <1>a, <1>b DEF Start, IsMove
<1>2. CASE LockUser(r)
  BY <1>2, <1>b DEF LockUser
<1>3. CASE CheckReplay(r)
  BY <1>3, <1>a, <1>b, <1>c DEF CheckReplay
<1>4. CASE EnsureAccounts(r)
  BY <1>4 DEF EnsureAccounts, LockStep, locals
<1>5. CASE Lookup(r)
  BY <1>5, <1>b, <1>c DEF Lookup
<1>6. CASE ReadFrom(r)
  <2>1. CASE Reject(r)
    BY <1>6, <2>1, <1>a DEF ReadFrom
  <2>2. CASE ~Reject(r)
    BY <1>6, <2>2 DEF ReadFrom, LockStep, db
  <2> QED BY <2>1, <2>2
<1>7. CASE ReadOut(r)
  BY <1>7 DEF ReadOut, LockStep, db
<1>8. CASE InsertTxn(r)
  BY <1>8, <1>b DEF InsertTxn
<1>9. CASE WriteFrom(r)
  <2>1. AfterFrom(req[r]) \in Steps
    BY DEF AfterFrom
  <2> QED
    BY <1>9, <2>1, <1>b DEF WriteFrom
<1>10. CASE EnsureFeeAccount(r)
  BY <1>10, <1>b DEF EnsureFeeAccount
<1>11. CASE ReadTo(r)
  <2>1. CASE Reject(r)
    BY <1>11, <2>1, <1>a DEF ReadTo
  <2>2. CASE ~Reject(r)
    BY <1>11, <2>2 DEF ReadTo, LockStep, db
  <2> QED BY <2>1, <2>2
<1>12. CASE WriteTo(r)
  BY <1>12, <1>b DEF WriteTo
<1>13. CASE Commit(r)
  BY <1>13 DEF Commit, LockStep, Answer, ApplyWrites
<1>14. CASE Conflict(r)
  BY <1>14, <1>a, <1>c DEF Conflict
<1>15. CASE Notify(r)
  BY <1>15 DEF Notify, LockStep, db, locals
<1>16. CASE DeadlockVictim(r)
  <2>1. pc[r] # "done"
    BY <1>16 DEF DeadlockVictim, WaitsFor
  <2> QED
    BY <1>16, <2>1, <1>a DEF DeadlockVictim
<1>17. CASE StatementFails(r)
  BY <1>17, <1>c DEF StatementFails
<1>18. CASE CommitAckLost(r)
  BY <1>18 DEF CommitAckLost, LockStep, Answer, ApplyWrites
<1>19. CASE NotifyFails(r)
  BY <1>19 DEF NotifyFails, LockStep, db, locals
<1> QED
  BY <1>1, <1>2, <1>3, <1>4, <1>5, <1>6, <1>7, <1>8, <1>9, <1>10, <1>11, <1>12, <1>13, <1>14,
     <1>15, <1>16, <1>17, <1>18, <1>19 DEF Step, Fault

\* A vault deposit writes the balance it read under the mutex; no other call
\* touches an account that only vault deposits reach.
LEMMA VaultStep == ASSUME TypeOK, VaultInv, [Next]_vars PROVE VaultInv'
<1>1. ASSUME NEW r \in Requests, LockStep(r) PROVE VaultInv'
  <2>1. PICK step \in Steps : LockStep(r)!(step)
    BY <1>1 DEF LockStep
  <2>2. /\ req' = req /\ pc'[r] = step /\ \A s \in Requests \ {r} : pc'[s] = pc[s]
        /\ \A s \in Requests : req[s] \in Inputs
    BY <2>1 DEF TypeOK
  <2>3. UserLockHeld'
    <3>1. \A s \in Requests \ {r} : HoldsUserLock(s)' = HoldsUserLock(s)
      BY <2>2 DEF HoldsUserLock
    <3>2. \A s \in Requests \ {r} : HoldsUserLock(r)' /\ HoldsUserLock(s) => ~SameUserLock(r, s)
      BY <2>1, <2>2 DEF HoldsUserLock, VaultInv, UserLockHeld, SameUserLock
    <3> QED
      <4> SUFFICES ASSUME NEW s \in Requests, NEW t \in Requests, HoldsUserLock(s)', HoldsUserLock(t)',
                          SameUserLock(s, t)
                   PROVE  s = t
        BY <2>2 DEF UserLockHeld, SameUserLock
      <4>1. CASE s # r /\ t # r
        BY <2>2, <3>1, <4>1 DEF VaultInv, UserLockHeld, SameUserLock
      <4>2. CASE s = r \/ t = r
        BY <3>1, <3>2, <4>2 DEF SameUserLock
      <4> QED
        BY <4>1, <4>2
  <2>4. ASSUME NEW a \in Accounts, OneCrediter(a), NEW s \in Requests
        PROVE  /\ req[s].to # a
               /\ req[s].from = a => req[s].op = "VaultDeposit" /\ ~HasTo(req[s])
    <3>1. a \in {req[s].from, req[s].to} => req[s].op = "VaultDeposit" /\ req[s].to = NoAccount
      BY <2>2, <2>4 DEF OneCrediter
    <3>2. NoAccount # a
      BY DEF LedgerOpsAssumption
    <3> QED
      BY <3>1, <3>2 DEF HasTo
  <2>5. \A a : OneCrediter(a)' = OneCrediter(a)
    BY <2>2 DEF OneCrediter
  <2>6. CASE UNCHANGED <<ledger, balances>>
    <3>1. ASSUME NEW s \in Requests, OneCrediter(req[s].from),
                 pc'[s] \in {"insert", "writeFrom", "ensureFee", "readTo", "writeTo", "commit"}
          PROVE  fromBal'[s] = ledger[req[s].from]
      <4>1. CASE s # r
        BY <2>1, <2>2, <2>6, <3>1, <4>1 DEF VaultInv, VaultReadIsCurrent, TypeOK, ApplyWrites, locals
      <4>2. CASE s = r
        <5>1. req[r].op = "VaultDeposit"
          BY <3>1, <4>2 DEF OneCrediter
        <5> QED
          BY <2>1, <2>2, <3>1, <4>2, <5>1 DEF VaultInv, VaultReadIsCurrent, TypeOK
      <4> QED
        BY <4>1, <4>2
    <3>2. VaultReadIsCurrent'
      BY <2>2, <2>5, <2>6, <3>1 DEF VaultReadIsCurrent
    <3>3. VaultProjection'
      BY <2>5, <2>6 DEF VaultInv, VaultProjection
    <3> QED
      BY <2>3, <3>2, <3>3 DEF VaultInv
  <2>7. CASE pc[r] = "commit" /\ ApplyWrites(r) /\ step \in {"notify", "done"}
    <3> DEFINE q == req[r]
    <3>0. /\ q \in Inputs /\ FromDelta(q) \in Int /\ q.from \in Accounts
          /\ ledger' = [a \in Accounts |-> ledger[a] + Effect(q)[a]]
          /\ balances' = [a \in Accounts |->
                            IF a = q.from THEN fromBal[r] + FromDelta(q)
                            ELSE IF HasTo(q) /\ a = q.to THEN toBal[r] + ToDelta(q)
                            ELSE balances[a]]
          /\ fromBal' = fromBal
      BY <2>2, <2>7, InputFacts DEF ApplyWrites, locals
    <3>1. ASSUME NEW a \in Accounts, OneCrediter(a), a # q.from
          PROVE  ledger'[a] = ledger[a] /\ balances'[a] = balances[a]
      <4>1. Effect(q)[a] = 0 /\ q.to # a /\ ledger[a] \in Int
        BY <2>4, <3>1 DEF Effect, TypeOK
      <4> HIDE DEF q
      <4> QED
        BY <3>0, <3>1, <4>1
    <3>2. ASSUME OneCrediter(q.from) PROVE balances'[q.from] = ledger'[q.from]
      <4>1. fromBal[r] = ledger[q.from]
        BY <2>7, <3>2 DEF VaultInv, VaultReadIsCurrent
      <4>2. Effect(q)[q.from] = FromDelta(q)
        BY <3>0 DEF Effect
      <4> HIDE DEF q
      <4> QED
        BY <3>0, <4>1, <4>2
    <3>3. VaultProjection'
      <4>1. \A a \in Accounts : OneCrediter(a) => balances'[a] = ledger'[a]
        BY <3>1, <3>2 DEF VaultInv, VaultProjection, OneCrediter
      <4> QED
        BY <2>2, <4>1 DEF VaultProjection, OneCrediter
    <3>4. ASSUME NEW s \in Requests, OneCrediter(req[s].from),
                 pc'[s] \in {"insert", "writeFrom", "ensureFee", "readTo", "writeTo", "commit"}
          PROVE  fromBal'[s] = ledger'[req[s].from]
      <4>1. s # r /\ pc[s] = pc'[s] /\ req[s].from \in Accounts
        BY <2>2, <2>7, <3>4, InputFacts
      <4>2. fromBal[s] = ledger[req[s].from]
        BY <3>4, <4>1 DEF VaultInv, VaultReadIsCurrent
      <4>3. req[s].op = "VaultDeposit" /\ HoldsUserLock(s)
        BY <3>4, <4>1 DEF OneCrediter, HoldsUserLock
      <4>4. req[s].from # q.from
        <5> SUFFICES ASSUME req[s].from = q.from PROVE FALSE
          OBVIOUS
        <5>1. HoldsUserLock(r)
          BY <2>7, <3>4 DEF OneCrediter, HoldsUserLock
        <5> QED
          BY <2>2, <3>4, <4>1, <4>3, <5>1 DEF VaultInv, UserLockHeld, OneCrediter, SameUserLock
      <4> QED
        BY <3>0, <3>1, <3>4, <4>1, <4>2, <4>4
    <3>5. VaultReadIsCurrent'
      BY <2>2, <2>5, <3>4 DEF VaultReadIsCurrent
    <3> QED
      BY <2>3, <3>3, <3>5 DEF VaultInv
  <2> QED
    BY <2>1, <2>6, <2>7
<1>2. CASE UNCHANGED vars
  BY <1>2 DEF vars, VaultInv, UserLockHeld, VaultReadIsCurrent, VaultProjection, OneCrediter, HoldsUserLock, SameUserLock
<1>3. CASE \E r \in Requests : Step(r) \/ Fault(r)
  BY <1>1, <1>3, LockSteps
<1> QED
  BY <1>2, <1>3 DEF Next, Quiet

\* The user's mutex spans the read of the sum, the write of the balances row
\* and the commit, so the projection of an account that only the vault
\* deposits of one process reach is its ledger sum in every committed state,
\* for any number of deposits, users and processes.
THEOREM NoVaultDepositIsLost == Spec => []VaultProjection
<1>1. Init => VaultInv
  BY DEF Init, VaultInv, UserLockHeld, VaultReadIsCurrent, VaultProjection, HoldsUserLock
<1>2. TypeOK /\ VaultInv /\ [Next]_vars => VaultInv'
  BY VaultStep
<1>3. VaultInv => VaultProjection
  BY DEF VaultInv
<1> QED
  BY <1>1, <1>2, <1>3, TypeCorrect, PTL DEF Spec

-----------------------------------------------------------------------------
(* The implementation of the atomic ledger.                                *)

\* The abstract module computes the same entries.
LEMMA SameEffect == \A q : Atomic!Effect(q) = Effect(q)
BY DEF Atomic!Effect, Atomic!FromDelta, Atomic!ToDelta, Atomic!HasTo, Atomic!IsCredit,
       Atomic!Required, Effect, FromDelta, ToDelta, HasTo, IsCredit, Required

\* Only a commit changes the abstract ledger; an answer without a commit is a
\* replay or a failure; every other step is invisible to the client.
LEMMA StepRefines ==
    ASSUME IInv, [Next]_vars
    PROVE  [Atomic!Next]_(Atomic!vars)
<1> USE DEF Atomic!vars
<1>1. ASSUME NEW r \in Requests, ApplyWrites(r), pc[r] = "commit",
             NEW s \in Steps, NEW a \in {r, Failed}, Answer(r, s, a)
      PROVE  Atomic!Next
  <2>1. reply[r] = Pending /\ r \notin txns
    BY <1>1 DEF IInv, Unsettled
  <2>2. ~Atomic!Applied(req[r].key)
    BY <1>1 DEF IInv, KeyReserved, Inserted, Committed, Atomic!Applied
  <2>3. /\ txns' = txns \cup {r}
        /\ ledger' = [acc \in Accounts |-> ledger[acc] + Atomic!Effect(req[r])[acc]]
        /\ req' = req
        /\ reply' = [reply EXCEPT ![r] = a]
    BY <1>1, SameEffect DEF ApplyWrites, Answer
  <2>4. Atomic!Execute(r)
    BY <2>1, <2>2, <2>3 DEF Atomic!Execute
  <2> QED
    BY <2>4 DEF Atomic!Next
<1>2. ASSUME NEW r \in Requests, NEW s \in Steps, NEW a \in Committed(req[r].key),
             pc[r] \notin {"notify", "done"}, Answer(r, s, a), UNCHANGED <<req, db>>
      PROVE  Atomic!Next
  <2>1. reply[r] = Pending /\ r \notin txns
    BY <1>2 DEF IInv, Unsettled
  <2>2. Atomic!Replay(r)
    BY <1>2, <2>1 DEF Atomic!Replay, Committed, Answer, db
  <2> QED
    BY <2>2 DEF Atomic!Next
<1>3. ASSUME NEW r \in Requests, NEW s \in Steps,
             pc[r] \notin {"notify", "done"}, Answer(r, s, Failed), UNCHANGED <<req, db>>
      PROVE  Atomic!Next
  <2>1. reply[r] = Pending /\ r \notin txns
    BY <1>3 DEF IInv, Unsettled
  <2>2. Atomic!Fail(r)
    BY <1>3, <2>1 DEF Atomic!Fail, Answer, db
  <2> QED
    BY <2>2 DEF Atomic!Next
<1>4. ASSUME NEW r \in Requests, pc[r] \notin {"notify", "done"}, Reject(r)
      PROVE  Atomic!Next
  BY <1>3, <1>4 DEF Reject, Steps
<1>5. ASSUME NEW r \in Requests, NEW s, Advance(r, s)
      PROVE  UNCHANGED Atomic!vars
  BY <1>5 DEF Advance, db
<1>6. ASSUME NEW r \in Requests, Step(r)
      PROVE  [Atomic!Next]_(Atomic!vars)
  <2>1. CASE Start(r)
    BY <2>1, <1>4, <1>5 DEF Start
  <2>2. CASE LockUser(r)
    BY <2>2, <1>5 DEF LockUser
  <2>3. CASE CheckReplay(r)
    BY <2>3, <1>2, <1>4, <1>5 DEF CheckReplay, Steps
  <2>4. CASE EnsureAccounts(r)
    BY <2>4 DEF EnsureAccounts
  <2>5. CASE Lookup(r)
    BY <2>5, <1>2, <1>5 DEF Lookup, Steps
  <2>6. CASE ReadFrom(r)
    BY <2>6, <1>4 DEF ReadFrom, db
  <2>7. CASE InsertTxn(r)
    BY <2>7, <1>5 DEF InsertTxn
  <2>8. CASE WriteFrom(r)
    BY <2>8, <1>5 DEF WriteFrom
  <2>9. CASE EnsureFeeAccount(r)
    BY <2>9, <1>5 DEF EnsureFeeAccount
  <2>10. CASE ReadTo(r)
    BY <2>10, <1>4 DEF ReadTo, db
  <2>11. CASE WriteTo(r)
    BY <2>11, <1>5 DEF WriteTo
  <2>12. CASE Commit(r)
    BY <2>12, <1>1 DEF Commit, Steps
  <2>13. CASE Conflict(r)
    BY <2>13, <1>2, <1>4 DEF Conflict, Steps
  <2>14. CASE Notify(r)
    BY <2>14 DEF Notify, db
  <2>15. CASE DeadlockVictim(r)
    <3>1. pc[r] \notin {"notify", "done"}
      BY <2>15 DEF DeadlockVictim, WaitsFor
    <3> QED
      BY <2>15, <3>1, <1>4 DEF DeadlockVictim
  <2>16. CASE ReadOut(r)
    BY <2>16 DEF ReadOut, db
  <2> QED
    BY <1>6, <2>1, <2>2, <2>3, <2>4, <2>5, <2>6, <2>7, <2>8, <2>9, <2>10,
       <2>11, <2>12, <2>13, <2>14, <2>15, <2>16 DEF Step
<1>7. ASSUME NEW r \in Requests, Fault(r)
      PROVE  [Atomic!Next]_(Atomic!vars)
  <2>1. CASE StatementFails(r)
    BY <2>1, <1>3 DEF StatementFails, Steps
  <2>2. CASE CommitAckLost(r)
    BY <2>2, <1>1 DEF CommitAckLost, Steps
  <2>3. CASE NotifyFails(r)
    BY <2>3 DEF NotifyFails, db
  <2> QED
    BY <1>7, <2>1, <2>2, <2>3 DEF Fault
<1>8. CASE UNCHANGED vars
  BY <1>8 DEF vars
<1> QED
  BY <1>6, <1>7, <1>8 DEF Next, Quiet

\* The services implement the atomic ledger: to a client, every call either
\* takes effect in one step, returns the transaction of its key, or fails.
THEOREM ServicesImplementAtomicLedger == Spec => ImplementsAtomicLedger
<1>1. Init => Atomic!Init
  BY DEF Init, Atomic!Init
<1>2. IInv /\ [Next]_vars => [Atomic!Next]_(Atomic!vars)
  BY StepRefines
<1> QED
  BY <1>1, <1>2, InvariantHolds, PTL DEF Spec, ImplementsAtomicLedger, Atomic!Spec

-----------------------------------------------------------------------------
(* The ledger as a sum.                                                    *)

\* G gives each subset of f's domain a number that grows by f[x] when x is
\* added: what a sum does, whatever the order of its terms.
Additive(f, G) ==
    /\ G \in [SUBSET DOMAIN f -> Int] /\ G[{}] = 0 /\ \A x \in DOMAIN f : f[x] \in Int
    /\ \A T \in SUBSET DOMAIN f : \A x \in DOMAIN f \ T : G[T \cup {x}] = f[x] + G[T]

\* A sum is what every such function says it is: there is no smallest subset
\* on which they differ.
LEMMA SumIsAdditive ==
    ASSUME NEW f, IsFiniteSet(DOMAIN f), NEW G, Additive(f, G)
    PROVE  SumFunction(f) = G[DOMAIN f]
<1> DEFINE S == DOMAIN f
           Pick(T) == CHOOSE x \in T : TRUE
           Unfold(h) == [T \in SUBSET S |-> IF T = {} THEN 0 ELSE f[Pick(T)] + h[T \ {Pick(T)}]]
           sum == CHOOSE h : h = Unfold(h)
<1>1. SumFunction(f) = sum[S]
  BY Zenon DEF SumFunction, SumFunctionOnSet, FoldFunctionOnSet, MapThenFoldSet
<1> HIDE DEF S
<1>2. ASSUME NEW T \in SUBSET S, T # {}
      PROVE  Pick(T) \in T /\ T \ {Pick(T)} \in SUBSET S /\ G[T] = f[Pick(T)] + G[T \ {Pick(T)}]
  <2>1. Pick(T) \in T
    BY <1>2
  <2> HIDE DEF Pick
  <2> DEFINE U == T \ {Pick(T)}
  <2>2. T = U \cup {Pick(T)} /\ Pick(T) \in S \ U /\ U \in SUBSET S
    BY <2>1
  <2> HIDE DEF U
  <2>3. G[U \cup {Pick(T)}] = f[Pick(T)] + G[U]
    BY <2>2 DEF Additive, S
  <2> QED
    BY <2>1, <2>2, <2>3 DEF U
<1> HIDE DEF Pick
<1>3. G = Unfold(G)
  <2>1. G \in [SUBSET S -> Int] /\ G[{}] = 0
    BY DEF Additive, S
  <2> QED
    BY <1>2, <2>1
<1>4. sum = Unfold(sum)
  <2> HIDE DEF Unfold
  <2> QED
    BY <1>3, Zenon
<1> HIDE DEF sum
<1>5. ASSUME NEW T \in SUBSET S, T # {}, sum[T \ {Pick(T)}] = G[T \ {Pick(T)}] PROVE sum[T] = G[T]
  BY <1>2, <1>4, <1>5
<1>6. sum[{}] = G[{}]
  BY <1>4 DEF Additive, S
<1>7. ASSUME NEW T \in SUBSET S, sum[T] # G[T] PROVE FALSE
  <2> DEFINE Bad == {U \in SUBSET S : sum[U] # G[U]}
  <2>1. FiniteSubsetsOf(S) = SUBSET S /\ IsWellFoundedOn(StrictSubsetOrdering(S), FiniteSubsetsOf(S))
    BY FS_FiniteSubsetsOfFinite, FS_StrictSubsetOrderingWellFounded DEF S
  <2>2. PICK U \in Bad : \A V \in Bad : <<V, U>> \notin StrictSubsetOrdering(S)
    <3>1. Bad # {} /\ Bad \subseteq FiniteSubsetsOf(S)
      BY <1>7, <2>1
    <3> HIDE DEF Bad
    <3> QED
      BY <2>1, <3>1, WFMin
  <2>3. U # {} /\ Pick(U) \in U /\ U \ {Pick(U)} \in SUBSET S
    BY <1>2, <1>6
  <2>4. <<U \ {Pick(U)}, U>> \in StrictSubsetOrdering(S)
    BY <2>3 DEF StrictSubsetOrdering
  <2> QED
    BY <1>5, <2>2, <2>3, <2>4
<1> QED
  BY <1>1, <1>7 DEF S

\* One more term adds its value.
LEMMA TermAdds ==
    ASSUME NEW S, NEW f, DOMAIN f = S, NEW G, Additive(f, G), NEW x, x \notin S,
           NEW h, DOMAIN h = S \cup {x}, h[x] \in Int, \A y \in S : h[y] = f[y]
    PROVE  \E H : Additive(h, H) /\ H[S \cup {x}] = G[S] + h[x]
<1> DEFINE H == [T \in SUBSET DOMAIN h |-> IF x \in T THEN G[T \ {x}] + h[x] ELSE G[T]]
<1>1. /\ G \in [SUBSET S -> Int] /\ G[{}] = 0 /\ x \notin S /\ DOMAIN h = S \cup {x}
      /\ \A y \in DOMAIN h : h[y] \in Int
      /\ \A T \in SUBSET S : \A y \in S \ T : G[T \cup {y}] = h[y] + G[T]
  BY DEF Additive
<1>2. \A T \in SUBSET DOMAIN h : T \ {x} \in SUBSET S /\ (x \notin T => T \in SUBSET S)
  BY <1>1
<1>3. H \in [SUBSET DOMAIN h -> Int] /\ H[{}] = 0
  BY <1>1, <1>2
<1>4. ASSUME NEW T \in SUBSET DOMAIN h, NEW y \in DOMAIN h \ T
      PROVE  H[T \cup {y}] = h[y] + H[T]
  <2>1. T \cup {y} \in SUBSET DOMAIN h
    OBVIOUS
  <2>2. CASE y = x
    <3>1. (T \cup {y}) \ {x} = T /\ T \in SUBSET S
      BY <1>2, <2>2
    <3>2. H[T \cup {y}] = G[T] + h[x] /\ H[T] = G[T] /\ G[T] \in Int
      BY <1>1, <2>1, <2>2, <3>1
    <3> QED
      BY <2>2, <3>2
  <2>3. CASE y # x /\ x \in T
    <3> DEFINE U == T \ {x}
    <3>1. (T \cup {y}) \ {x} = U \cup {y} /\ U \in SUBSET S /\ y \in S \ U
      BY <1>1, <1>2, <2>3
    <3>2. H[T \cup {y}] = G[U \cup {y}] + h[x] /\ H[T] = G[U] + h[x]
      BY <2>1, <2>3, <3>1
    <3> HIDE DEF U, H
    <3>3. G[U \cup {y}] = h[y] + G[U] /\ G[U] \in Int /\ h[y] \in Int
      BY <1>1, <3>1
    <3> QED
      BY <3>2, <3>3
  <2>4. CASE y # x /\ x \notin T
    <3>1. T \in SUBSET S /\ y \in S \ T /\ x \notin T \cup {y}
      BY <1>1, <1>2, <2>4
    <3> QED
      BY <1>1, <2>1, <3>1
  <2> QED
    BY <2>2, <2>3, <2>4
<1>5. Additive(h, H)
  BY <1>3, <1>4 DEF Additive
<1>6. H[S \cup {x}] = G[S] + h[x]
  <2>1. DOMAIN h \ {x} = S /\ x \in DOMAIN h
    BY <1>1
  <2> QED
    BY <2>1
<1> QED
  BY <1>5, <1>6

\* The entries of the committed transactions on an account.
Entries(a) == [t \in txns |-> Effect(req[t])[a]]

\* LedgerExplained with the sum's values for all sets of transactions.
Explained ==
    /\ IsFiniteSet(txns)
    /\ \A a \in Accounts :
          \E G : Additive(Entries(a), G) /\ ledger[a] = InitLedger[a] + G[txns]

\* The atomic ledger adds to its sums what it adds to its balances, so the
\* services that implement it do.
LEMMA ExplainedStep == ASSUME IInv, Explained, [Next]_vars PROVE Explained'
<1>1. [Atomic!Next]_(Atomic!vars)
  BY StepRefines
<1>2. ASSUME NEW r \in Requests, Atomic!Execute(r) PROVE Explained'
  <2>1. /\ r \notin txns /\ txns' = txns \cup {r} /\ req' = req
        /\ ledger' = [a \in Accounts |-> ledger[a] + Effect(req[r])[a]]
    BY <1>2, SameEffect DEF Atomic!Execute
  <2>2. IsFiniteSet(txns')
    BY <2>1, FS_AddElement DEF Explained
  <2>3. ASSUME NEW a \in Accounts
        PROVE  \E G : Additive(Entries(a)', G) /\ ledger'[a] = InitLedger[a] + G[txns']
    <3> DEFINE f == Entries(a)
               h == [t \in txns \cup {r} |-> Effect(req[t])[a]]
    <3>1. PICK G : Additive(f, G) /\ ledger[a] = InitLedger[a] + G[txns]
      BY DEF Explained
    <3>2. DOMAIN f = txns /\ DOMAIN h = txns \cup {r} /\ h[r] = Effect(req[r])[a]
          /\ \A t \in txns : h[t] = f[t]
      BY DEF Entries
    <3>3. h[r] \in Int
      <4>1. req[r] \in Inputs
        BY DEF IInv, TypeOK
      <4>2. Effect(req[r]) \in [Accounts -> Int]
        BY <4>1, InputFacts
      <4> QED
        BY <3>2, <4>2
    <3>4. Entries(a)' = h
      BY <2>1 DEF Entries
    <3>5. G[txns] \in Int /\ InitLedger[a] \in Int
      BY <3>1, <3>2 DEF Additive
    <3> HIDE DEF f, h
    <3>6. PICK H : Additive(h, H) /\ H[txns \cup {r}] = G[txns] + h[r]
      <4>1. DOMAIN f = txns /\ Additive(f, G) /\ r \notin txns
        BY <2>1, <3>1, <3>2
      <4>2. DOMAIN h = txns \cup {r} /\ h[r] \in Int /\ \A t \in txns : h[t] = f[t]
        BY <3>2, <3>3
      <4> QED
        BY <4>1, <4>2, TermAdds, SMTT(30)
    <3>7. ledger'[a] = ledger[a] + h[r]
      BY <2>1, <3>2
    <3>8. ledger'[a] = InitLedger[a] + H[txns']
      BY <2>1, <3>1, <3>2, <3>3, <3>5, <3>6, <3>7
    <3> QED
      BY <3>4, <3>6, <3>8
  <2> QED
    BY <2>2, <2>3 DEF Explained
<1>3. CASE UNCHANGED <<req, txns, ledger>>
  <2>1. \A a \in Accounts : Entries(a)' = Entries(a)
    BY <1>3 DEF Entries
  <2> QED
    BY <1>3, <2>1 DEF Explained
<1> QED
  BY <1>1, <1>2, <1>3 DEF Atomic!Next, Atomic!Replay, Atomic!Fail, Atomic!vars

LEMMA ExplainedInit == Init => Explained
<1> SUFFICES ASSUME Init PROVE Explained
  OBVIOUS
<1>1. IsFiniteSet(txns) /\ txns = {}
  BY FS_EmptySet DEF Init
<1>2. ASSUME NEW a \in Accounts
      PROVE  \E G : Additive(Entries(a), G) /\ ledger[a] = InitLedger[a] + G[txns]
  <2> DEFINE G == [T \in {{}} |-> 0]
  <2>1. DOMAIN Entries(a) = {} /\ SUBSET {} = {{}}
    BY <1>1 DEF Entries
  <2>2. Additive(Entries(a), G)
    BY <2>1 DEF Additive
  <2>3. ledger[a] = InitLedger[a] + G[txns]
    BY <1>1 DEF Init
  <2> QED
    BY <2>2, <2>3
<1> QED
  BY <1>1, <1>2 DEF Explained

\* The ledger is explained by its transactions: each committed one has posted
\* its entries once and nothing else moves a balance, for any number of calls,
\* accounts and failures.
THEOREM EntriesExplainTheLedger == Spec => []LedgerExplained
<1>1. Explained => LedgerExplained
  <2> SUFFICES ASSUME Explained, NEW a \in Accounts
               PROVE  ledger[a] = InitLedger[a] + SumFunction(Entries(a))
    BY DEF LedgerExplained, Entries
  <2>1. PICK G : Additive(Entries(a), G) /\ ledger[a] = InitLedger[a] + G[txns]
    BY DEF Explained
  <2>2. DOMAIN Entries(a) = txns
    BY DEF Entries
  <2>3. SumFunction(Entries(a)) = G[txns]
    BY <2>1, <2>2, SumIsAdditive DEF Explained
  <2> QED
    BY <2>1, <2>3
<1>2. IInv /\ Explained /\ [Next]_vars => Explained'
  BY ExplainedStep
<1> QED
  BY <1>1, <1>2, ExplainedInit, InvariantHolds, PTL DEF Spec

=============================================================================
