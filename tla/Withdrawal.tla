----------------------------- MODULE Withdrawal -----------------------------
(***************************************************************************)
(* On-chain withdrawals of one user (services/vault.go): the immediate     *)
(* path, the time-locked elevations kept in withdrawal_elevations, the     *)
(* sweepers that release them, and the custody claim.  Calls and sweepers  *)
(* of several server instances run the same broadcast-then-debit sequence  *)
(* (executeWithdrawal) interleaved statement by statement.                 *)
(*                                                                         *)
(* The chain is external: a broadcast puts a transaction in the mempool    *)
(* and returns at once; it is mined later, when the clone's rules (module  *)
(* VaultClone) accept or revert it, or it is dropped.  The ledger debit is *)
(* one step here; module Ledger models what happens inside it.             *)
(***************************************************************************)
EXTENDS Integers, FiniteSets, FiniteSetsExt

CONSTANTS
    Calls,                 \* requests to withdraw; a row is named by its call
    Sweepers,              \* sweeper goroutines, one per server instance
    Nobody,                \* "no job"
    Bodies,                \* request bodies
    NoKey,                 \* the empty idempotency key
    InitCustody,           \* who may own the clone at the start, if there is one
    RequireUserSignature,  \* GLOBMINT_REQUIRE_USER_SIGNATURE
    Threshold,             \* WithdrawElevationThresholdMinor
    DailyCap,              \* WithdrawDailyCapMinor
    Fee,                   \* the fee on any amount
    Delay,                 \* WithdrawElevationDelay
    Lifetime,              \* defaultSignatureLifetime
    RelayLifetime,         \* deadline of a relay the platform signs itself
    Batch,                 \* rows one sweep takes, of all users
    FaultKinds,            \* the failures that may happen
    RateMinor, BaseUnits,  \* USDC base units = kobo * BaseUnits / RateMinor
    InitBalance,           \* the user's available NGN
    InitToken,             \* USDC held by the clone
    MaxTime,               \* bound on the clock
    MaxQuoteTime,          \* bound on when a call may arrive
    MaxFaults, MaxSends    \* bounds on failures, and on broadcasts per call

Custody == {"none", "platform", "user"}
Statuses == {"none", "pending", "broadcasting", "broadcast", "cancelled", "expired"}
Workers == Calls \cup Sweepers

ASSUME WithdrawalAssumption ==
    /\ Calls \cap Sweepers = {}
    /\ Nobody \notin Calls
    /\ \A b \in Bodies : b.amount \in Nat /\ b.signed \in BOOLEAN
    /\ InitCustody \subseteq Custody
    /\ RequireUserSignature \in BOOLEAN
    /\ {Threshold, DailyCap, Fee, Delay, Lifetime, RelayLifetime, Batch, BaseUnits, InitBalance,
        InitToken, MaxTime, MaxQuoteTime, MaxFaults, MaxSends} \subseteq Nat
    /\ RateMinor \in Nat \ {0}

VARIABLES
    body,          \* call |-> what it asks for
    pc,            \* worker |-> its next step
    job,           \* sweeper |-> the row it has claimed
    due,           \* sweeper |-> rows of its last FindDuePending still to visit
    quote,         \* call |-> nonce and deadline its signature covers
    status,        \* call |-> status of the row it created
    releaseAfter,  \* call |-> release_after of that row
    relay,         \* worker |-> the relay it has built
    balance,       \* available NGN, kobo
    debits,        \* call |-> withdrawal transactions recorded for it
    sends,         \* call |-> broadcasts made for it
    moved,         \* call |-> broadcasts that moved USDC
    mempool,       \* transactions waiting to be mined
    nonce,         \* the clone's nonce
    custody,       \* the clone's owner
    token,         \* USDC the clone holds
    now,
    faults         \* failures so far

vars == <<body, pc, job, due, quote, status, releaseAfter, relay, balance, debits,
          sends, moved, mempool, nonce, custody, token, now, faults>>
row == <<status, releaseAfter>>
ledger == <<balance, debits>>
chain == <<sends, moved, mempool, nonce, custody, token>>

Steps == {"new", "submit", "find", "create", "replay", "precheck", "build", "send",
          "debit", "done", "idle", "claim", "release", "mark", "giveUp"}

NoRelay == [signer |-> "none", nonce |-> 0, deadline |-> 0]
Relays == [signer : Custody, nonce : Nat, deadline : Nat]

\* What the mempool may hold: a withdrawal relay (its job, its number among the
\* job's broadcasts) or an ownership transfer (job = Nobody).
Pooled == [job : Calls \cup {Nobody}, n : Nat, relay : Relays]

TypeOK ==
    /\ body \in [Calls -> Bodies]
    /\ pc \in [Workers -> Steps]
    /\ job \in [Sweepers -> Calls \cup {Nobody}]
    /\ due \in [Sweepers -> SUBSET Calls]
    /\ quote \in [Calls -> [nonce : Nat, deadline : Nat]]
    /\ status \in [Calls -> Statuses]
    /\ releaseAfter \in [Calls -> Nat]
    /\ relay \in [Workers -> Relays]
    /\ balance \in Int
    /\ debits \in [Calls -> Nat]
    /\ sends \in [Calls -> Nat]
    /\ moved \in [Calls -> Nat]
    /\ mempool \subseteq Pooled
    /\ nonce \in Nat
    /\ custody \in Custody
    /\ token \in Nat
    /\ now \in Nat
    /\ faults \in Nat

Init ==
    /\ body \in [Calls -> Bodies]
    /\ pc = [w \in Workers |-> IF w \in Calls THEN "new" ELSE "idle"]
    /\ job = [s \in Sweepers |-> Nobody]
    /\ due = [s \in Sweepers |-> {}]
    /\ quote = [c \in Calls |-> [nonce |-> 0, deadline |-> 0]]
    /\ status = [c \in Calls |-> "none"]
    /\ releaseAfter = [c \in Calls |-> 0]
    /\ relay = [w \in Workers |-> NoRelay]
    /\ balance = InitBalance
    /\ debits = [c \in Calls |-> 0]
    /\ sends = [c \in Calls |-> 0]
    /\ moved = [c \in Calls |-> 0]
    /\ mempool = {}
    /\ nonce \in {0, 1}
    /\ custody \in InitCustody
    /\ token = InitToken
    /\ now = 1
    /\ faults = 0

-----------------------------------------------------------------------------
(* Helpers.                                                                *)

\* The withdrawal a worker is about.
Job(w) == IF w \in Sweepers THEN job[w] ELSE w

Total(c) == body[c].amount + Fee

\* withdrawUSDCBase: integer division rounds down.
UsdcBase(c) == (body[c].amount * BaseUnits) \div RateMinor

Elevated(c) == Threshold > 0 /\ body[c].amount > Threshold

\* SumWithdrawalsSince over the day the model covers.
WithdrawnToday == MapThenSumSet(LAMBDA c : debits[c] * body[c].amount, Calls)

\* A recorded transaction with the key.
Recorded(key) == key # NoKey /\ \E c \in Calls : debits[c] > 0 /\ body[c].key = key

\* FindPendingByContent, and the unique index idx_elevations_one_pending.
PendingTwin(c) ==
    \E d \in Calls : /\ status[d] = "pending"
                     /\ body[d].amount = body[c].amount
                     /\ body[d].dest = body[c].dest

Goto(w, step) == pc' = [pc EXCEPT ![w] = step]

\* executeWithdrawal returns an error: the caller gets it, the sweeper gives
\* its claim back.
Errs(w) == Goto(w, IF w \in Sweepers THEN "giveUp" ELSE "done")

Succeeds(w) == Goto(w, IF w \in Sweepers THEN "mark" ELSE "done")

OnlyPc == UNCHANGED <<body, job, due, quote, row, relay, ledger, chain, now, faults>>

-----------------------------------------------------------------------------
(* A call to withdraw.                                                     *)

\* validateWithdrawalRequest: amount bounds and the daily cap.
Valid(c) ==
    /\ body[c].amount > 0
    /\ DailyCap > 0 => WithdrawnToday + body[c].amount <= DailyCap

\* PrepareSignedWithdrawal, then the wallet signs what it was quoted.
Quote(c) ==
    /\ pc[c] = "new"
    /\ now <= MaxQuoteTime
    /\ \/ ~body[c].signed /\ Goto(c, "submit") /\ OnlyPc
       \/ /\ body[c].signed
          /\ ~Valid(c) \/ custody = "none"
          /\ Goto(c, "done")
          /\ OnlyPc
       \/ /\ body[c].signed
          /\ Valid(c)
          /\ custody # "none"
          /\ quote' = [quote EXCEPT ![c] = [nonce |-> nonce, deadline |-> now + Lifetime]]
          /\ Goto(c, "submit")
          /\ UNCHANGED <<body, job, due, row, relay, ledger, chain, now, faults>>

\* handleVaultWithdraw: a wrong PIN ends the call; withdraw validates it, then
\* elevates or executes.
Submit(c) ==
    /\ pc[c] = "submit"
    /\ \/ Goto(c, "done")
       \/ /\ Valid(c)
          /\ Goto(c, IF Elevated(c) THEN "find" ELSE "replay")
    /\ OnlyPc

\* validateSignatureFresh: only a deadline that has already passed is refused.
Fresh(c) == quote[c].deadline > 0 /\ quote[c].deadline >= now

\* requestElevation: an identical pending row is returned; a doomed request
\* is rejected.
FindPending(c) ==
    /\ pc[c] = "find"
    /\ LET refused == balance < Total(c) \/ (body[c].signed /\ ~Fresh(c))
       IN  Goto(c, IF PendingTwin(c) \/ refused THEN "done" ELSE "create")
    /\ OnlyPc

\* Create: when the unique pending index fires, the other row is returned.
CreateElevation(c) ==
    /\ pc[c] = "create"
    /\ Goto(c, "done")
    /\ \/ PendingTwin(c) /\ UNCHANGED row
       \/ /\ ~PendingTwin(c)
          /\ status' = [status EXCEPT ![c] = "pending"]
          /\ releaseAfter' = [releaseAfter EXCEPT ![c] = now + Delay]
    /\ UNCHANGED <<body, job, due, quote, relay, ledger, chain, now, faults>>

\* Mutant: a row that is being broadcast may be cancelled too.
CancelOpen(c) ==
    /\ status[c] \in {"pending", "broadcasting"}
    /\ status' = [status EXCEPT ![c] = "cancelled"]
    /\ UNCHANGED <<body, pc, job, due, quote, releaseAfter, relay, ledger, chain, now, faults>>

\* CancelPending: only a pending row.
Cancel(c) ==
    /\ status[c] = "pending"
    /\ status' = [status EXCEPT ![c] = "cancelled"]
    /\ UNCHANGED <<body, pc, job, due, quote, releaseAfter, relay, ledger, chain, now, faults>>

-----------------------------------------------------------------------------
(* executeWithdrawal, run by a call or by a sweeper.                       *)

\* A key that already produced a withdrawal returns it.
Replay(w) ==
    /\ pc[w] = "replay"
    /\ IF Recorded(body[Job(w)].key) THEN Succeeds(w) ELSE Goto(w, "precheck")
    /\ OnlyPc

\* hasSufficientNGN and the converted amount.
Precheck(w) ==
    /\ pc[w] = "precheck"
    /\ IF balance >= Total(Job(w)) /\ UsdcBase(Job(w)) > 0 THEN Goto(w, "build") ELSE Errs(w)
    /\ OnlyPc

\* buildUserSignedRelay.  A stored nonce of 0 means "the current one", and the
\* signature then matches only if the two agree.
UserRelay(c) ==
    LET n == IF quote[c].nonce = 0 THEN nonce ELSE quote[c].nonce
    IN  IF Fresh(c) /\ custody = "user" /\ n = quote[c].nonce
        THEN {[signer |-> "user", nonce |-> n, deadline |-> quote[c].deadline]}
        ELSE {}

\* buildPlatformSignedRelay: the current nonce and a deadline of its own; or
\* the shared signer's plain transfer for an account without a clone.
PlatformRelay ==
    IF RequireUserSignature \/ custody = "user" THEN {}
    ELSE {[signer |-> custody, nonce |-> nonce, deadline |-> now + RelayLifetime]}

Build(w) ==
    /\ pc[w] = "build"
    /\ LET c == Job(w)
           built == IF body[c].signed THEN UserRelay(c) ELSE PlatformRelay
       IN  \/ built = {} /\ Errs(w) /\ UNCHANGED relay
           \/ \E b \in built : relay' = [relay EXCEPT ![w] = b] /\ Goto(w, "send")
    /\ UNCHANGED <<body, job, due, quote, row, ledger, chain, now, faults>>

\* TransferToken and sendTx return once the node has the transaction; no
\* receipt is awaited.
Broadcast(w) ==
    LET c == Job(w) IN
    /\ pc[w] = "send"
    /\ sends[c] < MaxSends
    /\ sends' = [sends EXCEPT ![c] = @ + 1]
    /\ mempool' = mempool \cup {[job |-> c, n |-> sends[c] + 1, relay |-> relay[w]]}
    /\ UNCHANGED <<body, job, due, quote, row, relay, ledger, moved, nonce, custody, token, now>>

Send(w) ==
    /\ Broadcast(w)
    /\ Goto(w, "debit")
    /\ UNCHANGED faults

\* Mutant: the key is not looked up before the debit.
ApplyAgain(w) ==
    LET c == Job(w) IN
    /\ pc[w] = "debit"
    /\ balance >= Total(c)
    /\ balance' = balance - Total(c)
    /\ debits' = [debits EXCEPT ![c] = @ + 1]
    /\ UNCHANGED <<body, job, due, quote, row, relay, chain, now>>

\* WithdrawExternal: principal and fee, once per key.
Apply(w) ==
    LET c == Job(w) IN
    /\ pc[w] = "debit"
    /\ ~Recorded(body[c].key)
    /\ balance >= Total(c)
    /\ balance' = balance - Total(c)
    /\ debits' = [debits EXCEPT ![c] = @ + 1]
    /\ UNCHANGED <<body, job, due, quote, row, relay, chain, now>>

Debit(w) ==
    \/ Apply(w) /\ Succeeds(w) /\ UNCHANGED faults
    \/ pc[w] = "debit" /\ Recorded(body[Job(w)].key) /\ Succeeds(w) /\ OnlyPc
    \/ /\ pc[w] = "debit"
       /\ ~Recorded(body[Job(w)].key)
       /\ balance < Total(Job(w))
       /\ Errs(w)
       /\ OnlyPc

-----------------------------------------------------------------------------
(* The sweeper.                                                            *)

\* The next sweep is to visit these rows.
Visit(s, rows) ==
    /\ pc[s] = "idle"
    /\ due' = [due EXCEPT ![s] = rows]
    /\ Goto(s, "claim")
    /\ UNCHANGED <<body, job, quote, row, relay, ledger, chain, now, faults>>

\* Mutant: release_after is not looked at.
FindAnyPending(s) ==
    \E rows \in SUBSET {c \in Calls : status[c] = "pending"} :
        rows # {} /\ Cardinality(rows) <= Batch /\ Visit(s, rows)

\* The rows FindDuePending's WHERE clause holds of.
Due == {c \in Calls : status[c] = "pending" /\ releaseAfter[c] <= now}

\* FindDuePending: a snapshot of the rows that have been due longest, at most
\* Batch of them, visited row by row.  The query is over all users: older
\* rows of others may take any number of the places, and all of them.
FindDue(s) ==
    /\ Due # {}
    /\ \E rows \in SUBSET Due :
         /\ Cardinality(rows) <= Batch
         /\ \A c \in rows, d \in Due \ rows : releaseAfter[c] <= releaseAfter[d]
         /\ Visit(s, rows)

\* Mutant: the UPDATE is not conditional on the status.
AlwaysClaimable(c) == status[c] # "none"

\* ClaimForBroadcast's UPDATE changes the row only if it is still pending.
Claimable(c) == status[c] = "pending"

\* The next row of the snapshot, or the end of the sweep.
Claim(s) ==
    /\ pc[s] = "claim"
    /\ \/ due[s] = {} /\ Goto(s, "idle") /\ UNCHANGED <<status, job, due>>
       \/ \E c \in due[s] :
            /\ due' = [due EXCEPT ![s] = @ \ {c}]
            /\ \/ ~Claimable(c) /\ UNCHANGED <<pc, status, job>>
               \/ /\ Claimable(c)
                  /\ status' = [status EXCEPT ![c] = "broadcasting"]
                  /\ job' = [job EXCEPT ![s] = c]
                  /\ Goto(s, "release")
    /\ UNCHANGED <<body, quote, releaseAfter, relay, ledger, chain, now, faults>>

\* The row goes to a status and the sweeper to its next row.
Finish(s, c, st) ==
    /\ status' = [status EXCEPT ![c] = st]
    /\ job' = [job EXCEPT ![s] = Nobody]
    /\ Goto(s, "claim")
    /\ UNCHANGED <<body, due, quote, releaseAfter, relay, ledger, chain, now>>

\* A signed intent that can no longer be relayed.
Dead(c) ==
    /\ body[c].signed
    /\ \/ quote[c].deadline < now
       \/ quote[c].nonce > 0 /\ nonce # quote[c].nonce

\* releaseElevation: MarkExpired, or go on to execute.
Release(s) ==
    /\ pc[s] = "release"
    /\ \/ Dead(job[s]) /\ Finish(s, job[s], "expired") /\ UNCHANGED faults
       \/ ~Dead(job[s]) /\ Goto(s, "replay") /\ OnlyPc

\* MarkBroadcast.
Mark(s) ==
    /\ pc[s] = "mark"
    /\ Finish(s, job[s], "broadcast")
    /\ UNCHANGED faults

\* Mutant: a failed row is not released.
GiveUpKeepsClaim(s) ==
    /\ pc[s] = "giveUp"
    /\ Finish(s, job[s], status[job[s]])
    /\ UNCHANGED faults

\* ReleaseClaim puts the row back to pending; its error is ignored.  The
\* unique pending index refuses it when an identical request was made meanwhile.
GiveUp(s) ==
    /\ pc[s] = "giveUp"
    /\ Finish(s, job[s], IF PendingTwin(job[s]) THEN status[job[s]] ELSE "pending")
    /\ UNCHANGED faults

-----------------------------------------------------------------------------
(* Custody and the chain.                                                  *)

\* ClaimCustody: the platform signs the clone over to the user's wallet.
ClaimCustody ==
    /\ custody = "platform"
    /\ \A t \in mempool : t.job # Nobody
    /\ mempool' = mempool \cup
         {[job |-> Nobody, n |-> 0,
           relay |-> [signer |-> "platform", nonce |-> nonce, deadline |-> now + Lifetime]]}
    /\ UNCHANGED <<body, pc, job, due, quote, row, relay, ledger, sends, moved, nonce,
                   custody, token, now, faults>>

\* Mutant: the clone does not compare the nonce.
AcceptedAnyNonce(t) ==
    IF t.relay.signer = "none" THEN TRUE
    ELSE /\ t.relay.deadline >= now
         /\ t.relay.signer = custody

\* The clone's checks when the transaction is mined; a shared transfer has none.
Accepted(t) ==
    IF t.relay.signer = "none" THEN TRUE
    ELSE /\ t.relay.nonce = nonce
         /\ t.relay.deadline >= now
         /\ t.relay.signer = custody

\* A transaction is mined: it takes effect or reverts.
Mine(t) ==
    /\ mempool' = mempool \ {t}
    /\ LET funded == t.job # Nobody /\ token >= UsdcBase(t.job)
           ok == Accepted(t) /\ (t.job = Nobody \/ funded)
       IN  /\ moved' = IF ok /\ t.job # Nobody
                       THEN [moved EXCEPT ![t.job] = @ + 1] ELSE moved
           /\ token' = IF ok /\ t.job # Nobody THEN token - UsdcBase(t.job) ELSE token
           /\ nonce' = IF ok /\ t.relay.signer # "none" THEN nonce + 1 ELSE nonce
           /\ custody' = IF ok /\ t.job = Nobody THEN "user" ELSE custody
    /\ UNCHANGED <<body, pc, job, due, quote, row, relay, ledger, sends, now, faults>>

\* The bounded clock does not stop before a pending row is due and its
\* signature has expired.
Tick ==
    /\ \/ now < MaxTime
       \/ \E c \in Calls :
            /\ status[c] \in {"pending", "broadcasting"}
            /\ now < releaseAfter[c] \/ now <= quote[c].deadline
    /\ now' = now + 1
    /\ UNCHANGED <<body, pc, job, due, quote, row, relay, ledger, chain, faults>>

-----------------------------------------------------------------------------
(* Failures.                                                               *)

Fails(kind) ==
    /\ kind \in FaultKinds
    /\ faults < MaxFaults
    /\ faults' = faults + 1

\* A database or node call of executeWithdrawal, or the lookup of the clone
\* before the nonce is compared, fails without effect.
StepFails(w) ==
    /\ \/ pc[w] \in {"precheck", "build", "send", "debit"}
       \/ pc[w] = "release" /\ body[Job(w)].signed /\ quote[Job(w)].nonce > 0
    /\ Fails("step")
    /\ Errs(w)
    /\ UNCHANGED <<body, job, due, quote, row, relay, ledger, chain, now>>

\* The lookup of the key fails: executeWithdrawal takes it for a new one.
ReplayUnreadable(w) ==
    /\ pc[w] = "replay"
    /\ Fails("step")
    /\ Goto(w, "precheck")
    /\ UNCHANGED <<body, job, due, quote, row, relay, ledger, chain, now>>

\* The node has the transaction, or the database the debit, but the answer
\* is lost.
AnswerLost(w) ==
    /\ Broadcast(w) \/ Apply(w)
    /\ Fails("answer")
    /\ Errs(w)

\* The nonce of a signed row cannot be read: releaseElevation marks it expired.
NonceUnreadable(s) ==
    /\ pc[s] = "release"
    /\ body[job[s]].signed /\ quote[job[s]].nonce > 0
    /\ Fails("nonce")
    /\ Finish(s, job[s], "expired")

\* MarkBroadcast, MarkExpired or ReleaseClaim fails; the error is only logged.
UpdateLost(s) ==
    /\ pc[s] \in {"mark", "giveUp"} \/ (pc[s] = "release" /\ Dead(job[s]))
    /\ Fails("update")
    /\ Finish(s, job[s], status[job[s]])

\* The instance of a worker stops; its sweeper starts over.
Crash(w) ==
    /\ pc[w] \notin {"new", "done", "idle"}
    /\ Fails("crash")
    /\ Goto(w, IF w \in Sweepers THEN "idle" ELSE "done")
    /\ job' = IF w \in Sweepers THEN [job EXCEPT ![w] = Nobody] ELSE job
    /\ due' = IF w \in Sweepers THEN [due EXCEPT ![w] = {}] ELSE due
    /\ UNCHANGED <<body, quote, row, relay, ledger, chain, now>>

\* A transaction is replaced or evicted from the mempool.
Drop(t) ==
    /\ Fails("drop")
    /\ mempool' = mempool \ {t}
    /\ UNCHANGED <<body, pc, job, due, quote, row, relay, ledger, sends, moved, nonce,
                   custody, token, now>>

-----------------------------------------------------------------------------
CallStep(c) ==
    Quote(c) \/ Submit(c) \/ FindPending(c) \/ CreateElevation(c)

Execute(w) ==
    Replay(w) \/ Precheck(w) \/ Build(w) \/ Send(w) \/ Debit(w)

Sweep(s) == FindDue(s) \/ Claim(s) \/ Release(s) \/ Mark(s) \/ GiveUp(s)

WorkerStep(w) ==
    \/ w \in Calls /\ CallStep(w)
    \/ w \in Sweepers /\ Sweep(w)
    \/ Execute(w)

Fault ==
    \/ \E w \in Workers : StepFails(w) \/ ReplayUnreadable(w) \/ AnswerLost(w) \/ Crash(w)
    \/ \E s \in Sweepers : NonceUnreadable(s) \/ UpdateLost(s)
    \/ \E t \in mempool : Drop(t)

Next ==
    \/ \E w \in Workers : WorkerStep(w)
    \/ \E c \in Calls : Cancel(c)
    \/ ClaimCustody
    \/ \E t \in mempool : Mine(t)
    \/ Tick
    \/ Fault

Spec == Init /\ [][Next]_vars

\* Workers are scheduled and time passes; nothing makes the chain mine, a
\* user cancel or claim, or a failure happen.
FairSpec == Spec /\ WF_vars(Tick) /\ \A w \in Workers : WF_vars(WorkerStep(w))

-----------------------------------------------------------------------------
(* Properties.                                                             *)

\* A row is being released by at most one sweeper, and only while it is
\* marked broadcasting (ClaimForBroadcast, "another instance won the claim").
ClaimIsExclusive ==
    \A s \in Sweepers :
        job[s] # Nobody =>
            /\ status[job[s]] = "broadcasting"
            /\ \A t \in Sweepers \ {s} : job[t] # job[s]

\* A withdrawal the user signed moves USDC at most once, however often it is
\* relayed: retries by the sweeper, lost answers and crashes included.
SignedMovesOnce == \A c \in Calls : body[c].signed => moved[c] <= 1

\* One idempotency key is debited at most once, and a withdrawal is never
\* debited more often than it was broadcast.
DebitsAreBacked ==
    \A c \in Calls :
        /\ debits[c] <= sends[c]
        /\ body[c].key # NoKey /\ debits[c] > 0 =>
             /\ debits[c] = 1
             /\ \A d \in Calls \ {c} : body[d].key = body[c].key => debits[d] = 0

\* Nothing above the threshold is broadcast before its time-lock is over.
NoEarlyRelease ==
    [][\A c \in Calls :
         sends'[c] # sends[c] /\ Elevated(c) => status[c] # "none" /\ now >= releaseAfter[c]]_vars

\* What is settled stays settled: a row that was cancelled, has expired or was
\* broadcast keeps its status, and no worker broadcasts or debits anything for
\* it, whatever it read before.  MarkBroadcast does not compare the status, so
\* this rests on the claim.
SettledIsFinal ==
    [][\A c \in Calls :
         status[c] \in {"broadcast", "cancelled", "expired"} =>
             status'[c] = status[c] /\ sends'[c] = sends[c] /\ debits'[c] = debits[c]]_vars

\* Sweeps do not pass the row over for ever: a row that is due again and
\* again is taken again and again.  The LIMIT of FindDuePending does not
\* ensure it.
NotStarved(c) == []<>(c \in Due) => []<>(\E s \in Sweepers : c \in due[s])

\* A time-locked withdrawal the user signed is settled in the end: broadcast,
\* cancelled or expired, never retried for ever (releaseElevation, "rather
\* than being retried forever"), if sweeps do not pass it over for ever and
\* the identical request is not made again.
SignedElevationsSettle ==
    \A c \in Calls :
        NotStarved(c) =>
            (status[c] = "pending" /\ body[c].signed
                ~> \/ status[c] \in {"broadcast", "cancelled", "expired"}
                   \/ \E d \in Calls \ {c} :
                        /\ status[d] # "none"
                        /\ body[d].amount = body[c].amount /\ body[d].dest = body[c].dest)

\* "the claim-guard stops double broadcasts" (README 902).
ElevationBroadcastOnce == \A c \in Calls : Elevated(c) => sends[c] <= 1

\* "if this idempotency key already produced a withdrawal, return the recorded
\* transaction without touching the chain" (vault.go 1145-1146).
KeyMovesOnce ==
    \A c, d \in Calls :
        moved[c] > 0 /\ moved[d] > 0 /\ body[c].key = body[d].key /\ body[c].key # NoKey => c = d
=============================================================================
