-------------------------- MODULE WithdrawalProofs --------------------------
(***************************************************************************)
(* Proofs about Withdrawal for any number of calls, sweepers and request   *)
(* bodies, any limits, delays and rates, and any number of failures.       *)
(***************************************************************************)
EXTENDS Withdrawal, TLAPS

USE WithdrawalAssumption

\* executeWithdrawal's steps, and a sweeper's steps with a row in hand.
Executing == {"replay", "precheck", "build", "send", "debit"}
Holding == Executing \cup {"release", "mark", "giveUp"}

\* A sweeper has a row exactly between its claim and its last update; a call
\* makes its row in its last step.
Discipline ==
    /\ \A s \in Sweepers : /\ pc[s] \in Holding \cup {"idle", "claim"}
                           /\ pc[s] \in Holding <=> job[s] # Nobody
    /\ \A c \in Calls : /\ pc[c] \in Executing \cup {"new", "submit", "find", "create", "done"}
                        /\ pc[c] # "done" => status[c] = "none"

\* A worker about to debit has made a broadcast that is not debited yet.
DebitIsDue(w) == pc[w] = "debit" => debits[Job(w)] < sends[Job(w)]

\* A signed withdrawal's relays all carry the signer and the nonce that the
\* signature covers; once one has moved USDC the clone's nonce is past it.
SignedAs(c, r) == r.signer = "user" /\ r.nonce = quote[c].nonce

SignedRelays ==
    /\ \A c \in Calls : /\ pc[c] \in {"new", "submit", "find", "create"} => sends[c] = 0
                        /\ moved[c] > 0 => sends[c] > 0
    /\ \A t \in mempool : t.job # Nobody =>
         /\ sends[t.job] > 0
         /\ body[t.job].signed => SignedAs(t.job, t.relay)
    /\ \A w \in Workers : pc[w] = "send" /\ body[Job(w)].signed => SignedAs(Job(w), relay[w])
    /\ \A c \in Calls : body[c].signed /\ moved[c] > 0 => moved[c] = 1 /\ nonce > quote[c].nonce

\* The rows of a sweep are due, and a call above the threshold does not
\* execute anything itself.
RowsAreDue ==
    /\ \A s \in Sweepers : \A c \in due[s] : status[c] # "none" /\ releaseAfter[c] <= now
    /\ \A s \in Sweepers : job[s] # Nobody => releaseAfter[job[s]] <= now
    /\ \A c \in Calls : Elevated(c) => pc[c] \notin Executing
-----------------------------------------------------------------------------
(* What a step does, by the state it changes.                              *)

rest == <<body, job, due, quote, row, relay, ledger, chain, now>>

\* A worker goes on and changes nothing else but the count of failures.
Asking == {"new", "submit", "find", "create"}

Advance(w) ==
    /\ Goto(w, pc'[w])
    /\ pc'[w] \notin {"send", "debit", "new"}
    /\ w \in Calls => /\ pc[w] # "done"
                      /\ pc'[w] \in Executing \cup Asking \cup {"done"}
                      /\ pc'[w] \in Asking => pc[w] \in Asking
                      /\ pc'[w] \in Executing => pc[w] \in Executing \/ ~Elevated(w)
    /\ w \in Sweepers => \/ pc[w] \in Holding /\ pc'[w] \in Holding
                         \/ pc[w] = "claim" /\ pc'[w] = "idle"
    /\ faults' \in {faults, faults + 1}
    /\ UNCHANGED rest

\* Where executeWithdrawal goes when it ends.
Ends(w) ==
    /\ Goto(w, pc'[w])
    /\ w \in Calls => pc'[w] = "done"
    /\ w \in Sweepers => pc'[w] \in {"mark", "giveUp"}
    /\ faults' \in {faults, faults + 1}

Signs(c) ==
    /\ pc[c] = "new" /\ Goto(c, "submit")
    /\ quote' = [quote EXCEPT ![c] = [nonce |-> nonce, deadline |-> now + Lifetime]]
    /\ UNCHANGED <<body, job, due, row, relay, ledger, chain, now, faults>>

Builds(w) ==
    /\ pc[w] = "build" /\ Goto(w, "send")
    /\ relay' = [relay EXCEPT ![w] = relay'[w]]
    /\ relay'[w] \in Relays
    /\ body[Job(w)].signed => SignedAs(Job(w), relay'[w])
    /\ UNCHANGED <<body, job, due, quote, row, ledger, chain, now, faults>>

Sends(w) ==
    /\ Broadcast(w)
    /\ \/ Goto(w, "debit") /\ UNCHANGED faults
       \/ Ends(w)

Debits(w) == Apply(w) /\ Ends(w)

Skips(s) ==
    /\ due' = [due EXCEPT ![s] = due'[s]] /\ due'[s] \subseteq due[s]
    /\ UNCHANGED <<body, pc, job, quote, row, relay, ledger, chain, now, faults>>

Takes(s, c) ==
    /\ pc[s] = "claim" /\ c \in due[s] /\ status[c] = "pending"
    /\ due' = [due EXCEPT ![s] = @ \ {c}]
    /\ status' = [status EXCEPT ![c] = "broadcasting"]
    /\ job' = [job EXCEPT ![s] = c]
    /\ Goto(s, "release")
    /\ UNCHANGED <<body, quote, releaseAfter, relay, ledger, chain, now, faults>>

Settles(s) ==
    /\ pc[s] \in Holding
    /\ \E st \in Statuses \ {"none"} : Finish(s, job[s], st)
    /\ faults' \in {faults, faults + 1}

WorkerEffect(w) ==
    \/ Advance(w) \/ Builds(w) \/ Sends(w) \/ Debits(w) \/ Crash(w)
    \/ w \in Calls /\ (Signs(w) \/ CreateElevation(w))
    \/ w \in Sweepers /\ (FindDue(w) \/ Skips(w) \/ (\E c \in Calls : Takes(w, c)) \/ Settles(w))

Effect ==
    \/ \E w \in Workers : WorkerEffect(w)
    \/ \E c \in Calls : Cancel(c)
    \/ ClaimCustody
    \/ \E t \in mempool : Mine(t) \/ Drop(t)
    \/ Tick
    \/ UNCHANGED vars

\* The withdrawal of a worker that executes or holds a row is a call's.
LEMMA JobIsCall ==
    ASSUME TypeOK, Discipline, NEW w \in Workers, pc[w] \in Holding
    PROVE  /\ Job(w) \in Calls
           /\ w \in Calls => w \notin Sweepers /\ Job(w) = w /\ pc[w] \in Executing
           /\ w \in Sweepers => Job(w) = job[w]
BY DEF TypeOK, Discipline, Job, Workers, Holding, Executing

LEMMA WorkerKinds ==
    ASSUME NEW w \in Workers
    PROVE  (w \in Calls /\ w \notin Sweepers) \/ (w \in Sweepers /\ w \notin Calls)
BY DEF Workers

\* The end of executeWithdrawal is a step of the worker.
LEMMA EndsType ==
    ASSUME TypeOK, NEW w \in Workers, Ends(w)
    PROVE  pc' \in [Workers -> Steps] /\ faults' \in Nat
<1>1. pc'[w] \in Steps
  BY WorkerKinds DEF Ends, Steps
<1>2. pc' \in [Workers -> Steps]
  BY <1>1 DEF Ends, Goto, TypeOK
<1> QED
  BY <1>2 DEF Ends, TypeOK

\* Every step has one of these effects.
LEMMA Effects ==
    ASSUME TypeOK, Discipline, ClaimIsExclusive, [Next]_vars
    PROVE  Effect
<1>1. ASSUME NEW w \in Calls, CallStep(w)
      PROVE  WorkerEffect(w)
  <2>0. w \in Workers /\ w \notin Sweepers /\ pc[w] \in Steps
    BY DEF Workers, TypeOK
  <2>1. CASE Quote(w)
    <3>1. CASE ~body[w].signed \/ ~Valid(w) \/ custody = "none"
      <4>1. pc[w] = "new" /\ OnlyPc /\ \E s \in {"submit", "done"} : Goto(w, s)
        BY <2>1, <3>1 DEF Quote
      <4>2. Advance(w)
        BY <2>0, <4>1 DEF Advance, Goto, OnlyPc, rest, Executing, Asking, TypeOK
      <4> QED
        BY <4>2 DEF WorkerEffect
    <3>2. CASE body[w].signed /\ Valid(w) /\ custody # "none"
      BY <2>1, <3>2 DEF Quote, WorkerEffect, Signs
    <3> QED
      BY <3>1, <3>2
  <2>2. CASE Submit(w)
    <3>1. PICK s \in {"done", "find", "replay"} : Goto(w, s) /\ (s = "replay" => ~Elevated(w))
      BY <2>2 DEF Submit
    <3>2. pc[w] = "submit" /\ OnlyPc
      BY <2>2 DEF Submit
    <3>3. Advance(w)
      BY <2>0, <3>1, <3>2 DEF Advance, Goto, OnlyPc, rest, Executing, Asking, TypeOK
    <3> QED
      BY <3>3 DEF WorkerEffect
  <2>3. CASE FindPending(w)
    <3>1. pc[w] = "find" /\ OnlyPc /\ \E s \in {"done", "create"} : Goto(w, s)
      BY <2>3 DEF FindPending
    <3>2. Advance(w)
      BY <2>0, <3>1 DEF Advance, Goto, OnlyPc, rest, Executing, Asking, TypeOK
    <3> QED
      BY <3>2 DEF WorkerEffect
  <2>4. CASE CreateElevation(w)
    BY <2>4 DEF WorkerEffect
  <2> QED
    BY <1>1, <2>1, <2>2, <2>3, <2>4 DEF CallStep
<1>2. ASSUME NEW w \in Workers, Execute(w)
      PROVE  WorkerEffect(w)
  <2>0. /\ pc[w] \in Executing /\ pc[w] \in Holding /\ pc[w] \in Steps
        /\ Job(w) \in Calls
        /\ (w \in Calls /\ w \notin Sweepers) \/ (w \in Sweepers /\ w \notin Calls)
    <3>1. pc[w] \in Executing
      BY <1>2 DEF Execute, Replay, Precheck, Build, Send, Broadcast, Debit, Apply, Executing
    <3> QED
      BY <3>1, JobIsCall, WorkerKinds DEF Holding, TypeOK
  \* Going on within executeWithdrawal, or to its end, changes nothing else.
  <2>1. ASSUME Goto(w, "precheck") \/ Goto(w, "build") \/ Succeeds(w) \/ Errs(w),
               faults' \in {faults, faults + 1}, UNCHANGED rest
        PROVE  WorkerEffect(w)
    <3>1. PICK s \in {"precheck", "build", "mark", "done", "giveUp"} :
            /\ Goto(w, s)
            /\ w \in Sweepers => s # "done"
            /\ w \in Calls => s \notin {"mark", "giveUp"}
      BY <2>0, <2>1 DEF Succeeds, Errs
    <3>2. Advance(w)
      BY <2>0, <2>1, <3>1 DEF Advance, Goto, Executing, Holding, Asking, TypeOK
    <3> QED
      BY <3>2 DEF WorkerEffect
  <2>2. CASE Replay(w) \/ Precheck(w)
    BY <2>1, <2>2 DEF Replay, Precheck, OnlyPc, rest
  <2>3. CASE Build(w)
    <3>1. CASE Errs(w) /\ UNCHANGED relay
      BY <2>1, <2>3, <3>1 DEF Build, rest
    <3>2. CASE ~(Errs(w) /\ UNCHANGED relay)
      <4> DEFINE c == Job(w)
                 built == IF body[c].signed THEN UserRelay(c) ELSE PlatformRelay
      <4>1. PICK b \in built : relay' = [relay EXCEPT ![w] = b] /\ Goto(w, "send")
        BY <2>3, <3>2 DEF Build
      <4>2. body[c].signed => b \in Relays /\ SignedAs(c, b)
        BY <2>0, <4>1 DEF UserRelay, SignedAs, Relays, TypeOK, Custody
      <4>3. ~body[c].signed => b \in Relays
        BY <2>0, <4>1 DEF PlatformRelay, Relays, TypeOK
      <4>4. relay'[w] = b
        BY <4>1 DEF TypeOK
      <4> QED
        BY <2>3, <4>1, <4>2, <4>3, <4>4 DEF Build, Builds, WorkerEffect
    <3> QED
      BY <3>1, <3>2
  <2>4. CASE Send(w)
    BY <2>4 DEF Send, Sends, WorkerEffect
  <2>5. CASE Debit(w)
    <3>1. CASE Apply(w) /\ Succeeds(w) /\ UNCHANGED faults
      BY <2>0, <3>1 DEF Succeeds, Debits, Ends, Goto, WorkerEffect, TypeOK
    <3>2. CASE ~(Apply(w) /\ Succeeds(w) /\ UNCHANGED faults)
      BY <2>1, <2>5, <3>2 DEF Debit, OnlyPc, rest
    <3> QED
      BY <3>1, <3>2
  <2> QED
    BY <1>2, <2>2, <2>3, <2>4, <2>5 DEF Execute
<1>3. ASSUME NEW w \in Sweepers, Sweep(w)
      PROVE  WorkerEffect(w)
  <2>0. w \in Workers /\ w \notin Calls /\ pc[w] \in Steps
    BY DEF Workers, TypeOK
  <2>1. CASE FindDue(w)
    BY <2>1 DEF WorkerEffect
  <2>2. CASE Claim(w)
    <3>1. CASE due[w] = {} /\ Goto(w, "idle") /\ UNCHANGED <<status, job, due>>
      <4>1. Advance(w)
        BY <2>0, <2>2, <3>1 DEF Claim, Advance, Goto, rest, row, TypeOK
      <4> QED
        BY <4>1 DEF WorkerEffect
    <3>2. CASE ~(due[w] = {} /\ Goto(w, "idle") /\ UNCHANGED <<status, job, due>>)
      <4>1. PICK c \in due[w] :
              /\ due' = [due EXCEPT ![w] = @ \ {c}]
              /\ \/ ~Claimable(c) /\ UNCHANGED <<pc, status, job>>
                 \/ /\ Claimable(c)
                    /\ status' = [status EXCEPT ![c] = "broadcasting"]
                    /\ job' = [job EXCEPT ![w] = c]
                    /\ Goto(w, "release")
        BY <2>2, <3>2 DEF Claim
      <4>2. c \in Calls
        BY <4>1 DEF TypeOK
      <4>3. CASE Claimable(c)
        <5>1. Takes(w, c)
          BY <2>2, <4>1, <4>3 DEF Claim, Claimable, Takes
        <5> QED
          BY <4>2, <5>1 DEF WorkerEffect
      <4>4. CASE ~Claimable(c)
        <5>1. Skips(w)
          BY <2>2, <4>1, <4>4 DEF Claim, Skips, row, TypeOK
        <5> QED
          BY <5>1 DEF WorkerEffect
      <4> QED
        BY <4>3, <4>4
    <3> QED
      BY <3>1, <3>2
  <2>3. CASE Release(w)
    <3>1. CASE Dead(job[w]) /\ Finish(w, job[w], "expired") /\ UNCHANGED faults
      <4>1. Settles(w)
        BY <2>3, <3>1 DEF Release, Settles, Statuses, Holding
      <4> QED
        BY <4>1 DEF WorkerEffect
    <3>2. CASE ~Dead(job[w]) /\ Goto(w, "replay") /\ OnlyPc
      <4>1. Advance(w)
        BY <2>0, <2>3, <3>2 DEF Release, Advance, Goto, OnlyPc, rest, Holding, Executing, TypeOK
      <4> QED
        BY <4>1 DEF WorkerEffect
    <3> QED
      BY <2>3, <3>1, <3>2 DEF Release
  <2>4. CASE Mark(w)
    <3>1. Settles(w)
      BY <2>4 DEF Mark, Settles, Statuses, Holding
    <3> QED
      BY <3>1 DEF WorkerEffect
  <2>5. CASE GiveUp(w)
    <3>1. pc[w] \in Holding /\ job[w] # Nobody /\ status[job[w]] = "broadcasting"
      BY <2>0, <2>5 DEF GiveUp, Holding, Discipline, ClaimIsExclusive
    <3>2. Settles(w)
      BY <2>5, <3>1 DEF GiveUp, Settles, Statuses
    <3> QED
      BY <3>2 DEF WorkerEffect
  <2> QED
    BY <1>3, <2>1, <2>2, <2>3, <2>4, <2>5 DEF Sweep
<1>4. ASSUME NEW w \in Workers, StepFails(w) \/ ReplayUnreadable(w)
      PROVE  WorkerEffect(w)
  <2>1. /\ pc[w] \in Executing \cup {"release"}
        /\ Errs(w) \/ Goto(w, "precheck")
        /\ faults' = faults + 1 /\ UNCHANGED rest
        /\ pc[w] = "release" => Errs(w)
    BY <1>4 DEF StepFails, ReplayUnreadable, Executing, Fails, rest
  <2>2. (w \in Calls /\ w \notin Sweepers) \/ (w \in Sweepers /\ w \notin Calls)
    BY WorkerKinds
  <2>3. w \in Calls => pc[w] \in Executing
    BY <2>1, <2>2, JobIsCall DEF Holding
  <2>4. PICK s \in {"precheck", "done", "giveUp"} :
            /\ Goto(w, s)
            /\ w \in Sweepers => s # "done"
            /\ w \in Calls => s # "giveUp"
    BY <2>1, <2>2 DEF Errs
  <2>5. Advance(w)
    BY <2>1, <2>2, <2>3, <2>4 DEF Advance, Goto, Executing, Holding, Asking, TypeOK
  <2> QED
    BY <2>5 DEF WorkerEffect
<1>5. ASSUME NEW w \in Workers, AnswerLost(w)
      PROVE  WorkerEffect(w)
  <2>1. (w \in Calls /\ w \notin Sweepers) \/ (w \in Sweepers /\ w \notin Calls)
    BY WorkerKinds
  <2>2. Ends(w)
    BY <1>5, <2>1 DEF AnswerLost, Fails, Errs, Ends, Goto, TypeOK
  <2> QED
    BY <1>5, <2>2 DEF AnswerLost, Sends, Debits, WorkerEffect
<1>6. ASSUME NEW s \in Sweepers, NonceUnreadable(s) \/ UpdateLost(s)
      PROVE  WorkerEffect(s)
  <2>1. pc[s] \in Holding
    BY <1>6 DEF NonceUnreadable, UpdateLost, Holding
  <2>2. job[s] # Nobody /\ status[job[s]] = "broadcasting"
    BY <2>1 DEF Discipline, ClaimIsExclusive
  <2>3. Settles(s)
    BY <1>6, <2>1, <2>2 DEF NonceUnreadable, UpdateLost, Fails, Settles, Statuses
  <2> QED
    BY <2>3 DEF WorkerEffect
<1>7. ASSUME NEW w \in Workers, WorkerStep(w)
      PROVE  WorkerEffect(w)
  BY <1>1, <1>2, <1>3, <1>7 DEF WorkerStep
<1>8. ASSUME Fault
      PROVE  Effect
  <2>1. ASSUME NEW w \in Workers, StepFails(w) \/ ReplayUnreadable(w) \/ AnswerLost(w) \/ Crash(w)
        PROVE  WorkerEffect(w)
    BY <1>4, <1>5, <2>1 DEF WorkerEffect
  <2>2. \A s \in Sweepers : s \in Workers
    BY DEF Workers
  <2> QED
    BY <1>6, <1>8, <2>1, <2>2 DEF Fault, Effect
<1> QED
  BY <1>7, <1>8 DEF Next, Effect
-----------------------------------------------------------------------------
(* Types.                                                                  *)

LEMMA ConstantsAreNat ==
    /\ Threshold \in Nat /\ DailyCap \in Nat /\ Fee \in Nat /\ Delay \in Nat /\ Lifetime \in Nat
    /\ RelayLifetime \in Nat /\ BaseUnits \in Nat /\ InitBalance \in Nat /\ InitToken \in Nat
BY DEF Workers

\* The conversion to USDC is an integer.
LEMMA UsdcIsInt ==
    ASSUME TypeOK, NEW c \in Calls
    PROVE  UsdcBase(c) \in Int /\ Total(c) \in Int
<1>1. body[c].amount \in Nat
  BY DEF TypeOK
<1>2. body[c].amount * BaseUnits \in Int
  BY <1>1, ConstantsAreNat
<1> QED
  BY <1>1, <1>2, ConstantsAreNat DEF UsdcBase, Total

LEMMA TypeStep ==
    ASSUME TypeOK, Discipline, Effect
    PROVE  TypeOK'
<1> USE DEF TypeOK
<1>1. ASSUME NEW w \in Workers, WorkerEffect(w)
      PROVE  TypeOK'
  <2>1. CASE Advance(w)
    <3>1. pc'[w] \in Steps
      BY <2>1, WorkerKinds DEF Advance, Steps, Executing, Asking, Holding
    <3> QED
      BY <2>1, <3>1 DEF Advance, Goto, rest, row, ledger, chain
  <2>2. CASE Builds(w)
    BY <2>2 DEF Builds, Goto, Steps, row, ledger, chain
  <2>3. CASE Sends(w)
    <3>1. pc[w] = "send" /\ Job(w) \in Calls
      BY <2>3, JobIsCall DEF Sends, Broadcast, Holding, Executing
    <3>2. sends' \in [Calls -> Nat] /\ mempool' \subseteq Pooled
      BY <2>3, <3>1 DEF Sends, Broadcast, Pooled
    <3>3. pc' \in [Workers -> Steps] /\ faults' \in Nat
      <4>1. CASE Goto(w, "debit") /\ UNCHANGED faults
        BY <4>1 DEF Goto, Steps
      <4>2. CASE Ends(w)
        BY <4>2, EndsType
      <4> QED
        BY <2>3, <4>1, <4>2 DEF Sends
    <3> QED
      BY <2>3, <3>2, <3>3 DEF Sends, Broadcast, row, ledger
  <2>4. CASE Debits(w)
    <3>1. pc[w] = "debit" /\ Job(w) \in Calls
      BY <2>4, JobIsCall DEF Debits, Apply, Holding, Executing
    <3>2. balance' \in Int /\ debits' \in [Calls -> Nat]
      BY <2>4, <3>1, UsdcIsInt DEF Debits, Apply
    <3>3. pc' \in [Workers -> Steps] /\ faults' \in Nat
      BY <2>4, EndsType DEF Debits
    <3> QED
      BY <2>4, <3>2, <3>3 DEF Debits, Apply, row, chain
  <2>5. CASE Crash(w)
    BY <2>5 DEF Crash, Fails, Goto, Steps, row, ledger, chain
  <2>6. CASE w \in Calls /\ Signs(w)
    <3>1. [nonce |-> nonce, deadline |-> now + Lifetime] \in [nonce : Nat, deadline : Nat]
      BY ConstantsAreNat
    <3>2. quote' \in [Calls -> [nonce : Nat, deadline : Nat]]
      BY <2>6, <3>1 DEF Signs
    <3> QED
      BY <2>6, <3>2 DEF Signs, Goto, Steps, row, ledger, chain
  <2>7. CASE w \in Calls /\ CreateElevation(w)
    <3>1. now + Delay \in Nat
      BY ConstantsAreNat
    <3>2. \/ UNCHANGED <<status, releaseAfter>>
          \/ /\ status' = [status EXCEPT ![w] = "pending"]
             /\ releaseAfter' = [releaseAfter EXCEPT ![w] = now + Delay]
      BY <2>7 DEF CreateElevation, row
    <3>3. "pending" \in Statuses
      BY DEF Statuses
    <3>4. status' \in [Calls -> Statuses] /\ releaseAfter' \in [Calls -> Nat]
      <4>1. CASE UNCHANGED <<status, releaseAfter>>
        BY <4>1
      <4>2. CASE /\ status' = [status EXCEPT ![w] = "pending"]
                 /\ releaseAfter' = [releaseAfter EXCEPT ![w] = now + Delay]
        BY <4>2, <3>1, <3>3
      <4> QED
        BY <3>2, <4>1, <4>2
    <3> QED
      BY <2>7, <3>4 DEF CreateElevation, Goto, Steps, ledger, chain
  <2>8. CASE w \in Sweepers /\ FindDue(w)
    <3>1. PICK rows \in SUBSET Calls : Visit(w, rows)
      BY <2>8 DEF FindDue, Due
    <3>2. due' \in [Sweepers -> SUBSET Calls] /\ pc' \in [Workers -> Steps]
      BY <2>8, <3>1 DEF Visit, Goto, Steps
    <3> QED
      BY <3>1, <3>2 DEF Visit, row, ledger, chain
  <2>9. CASE w \in Sweepers /\ Skips(w)
    BY <2>9 DEF Skips, row, ledger, chain
  <2>10. ASSUME w \in Sweepers, NEW c \in Calls, Takes(w, c)
        PROVE  TypeOK'
    BY <2>10 DEF Takes, Goto, Steps, Statuses, ledger, chain
  <2>11. CASE w \in Sweepers /\ Settles(w)
    <3>1. PICK st \in Statuses \ {"none"} : Finish(w, job[w], st)
      BY <2>11 DEF Settles
    <3>2. status' \in [Calls -> Statuses] /\ job' \in [Sweepers -> Calls \cup {Nobody}]
      BY <3>1 DEF Finish
    <3>3. pc' \in [Workers -> Steps] /\ faults' \in Nat
      BY <2>11, <3>1 DEF Settles, Finish, Goto, Steps
    <3> QED
      BY <3>1, <3>2, <3>3 DEF Finish, ledger, chain
  <2> QED
    BY <1>1, <2>1, <2>2, <2>3, <2>4, <2>5, <2>6, <2>7, <2>8, <2>9, <2>10, <2>11 DEF WorkerEffect
<1>2. ASSUME NEW c \in Calls, Cancel(c)
      PROVE  TypeOK'
  BY <1>2 DEF Cancel, Statuses, ledger, chain
<1>3. CASE ClaimCustody
  <2>1. now + Lifetime \in Nat
    BY ConstantsAreNat
  <2>2. mempool' \subseteq Pooled
    BY <1>3, <2>1 DEF ClaimCustody, Pooled, Relays, Custody
  <2> QED
    BY <1>3, <2>2 DEF ClaimCustody, row, ledger
<1>4. ASSUME NEW t \in mempool, Mine(t)
      PROVE  TypeOK'
  <2>1. t.job \in Calls \cup {Nobody}
    BY DEF Pooled
  <2>2. moved' \in [Calls -> Nat]
    BY <1>4, <2>1 DEF Mine
  <2>3. token' \in Nat
    BY <1>4, <2>1, UsdcIsInt DEF Mine
  <2>4. nonce' \in Nat /\ custody' \in Custody /\ mempool' \subseteq Pooled
    BY <1>4 DEF Mine, Custody
  <2> QED
    BY <1>4, <2>2, <2>3, <2>4 DEF Mine, row, ledger
<1>5. ASSUME NEW t \in mempool, Drop(t)
      PROVE  TypeOK'
  BY <1>5 DEF Drop, Fails, row, ledger
<1>6. CASE Tick
  BY <1>6 DEF Tick, row, ledger, chain
<1>7. CASE UNCHANGED vars
  BY <1>7 DEF vars, row, ledger, chain
<1> QED
  BY <1>1, <1>2, <1>3, <1>4, <1>5, <1>6, <1>7 DEF Effect

-----------------------------------------------------------------------------
(* Claims.                                                                 *)

LEMMA ClaimStep ==
    ASSUME TypeOK, Discipline, ClaimIsExclusive, Effect
    PROVE  Discipline' /\ ClaimIsExclusive'
<1>1. ASSUME NEW w \in Workers, WorkerEffect(w)
      PROVE  Discipline' /\ ClaimIsExclusive'
  <2>0. (w \in Calls /\ w \notin Sweepers) \/ (w \in Sweepers /\ w \notin Calls)
    BY WorkerKinds
  <2>1. CASE Advance(w) \/ Builds(w) \/ Sends(w) \/ Debits(w)
    <3>1. UNCHANGED <<job, status>> /\ Goto(w, pc'[w])
      BY <2>1 DEF Advance, Builds, Sends, Debits, Broadcast, Apply, Ends, Goto, rest, row, TypeOK
    <3>2. w \in Calls => pc[w] # "done" /\ pc'[w] \in Executing \cup Asking \cup {"done"}
      BY <2>0, <2>1 DEF Advance, Builds, Sends, Debits, Broadcast, Apply, Ends, Goto, Executing, TypeOK
    <3>3. w \in Sweepers => \/ pc[w] \in Holding /\ pc'[w] \in Holding
                            \/ pc[w] = "claim" /\ pc'[w] = "idle"
      BY <2>0, <2>1 DEF Advance, Builds, Sends, Debits, Broadcast, Apply, Ends, Goto, Executing, Holding, TypeOK
    <3>4. Discipline'
      BY <2>0, <3>1, <3>2, <3>3 DEF Discipline, Goto, TypeOK, Workers, Asking, Holding, Executing
    <3>5. ClaimIsExclusive'
      BY <3>1 DEF ClaimIsExclusive
    <3> QED
      BY <3>4, <3>5
  <2>2. CASE Crash(w)
    <3>1. /\ pc' = [pc EXCEPT ![w] = IF w \in Sweepers THEN "idle" ELSE "done"]
          /\ job' = IF w \in Sweepers THEN [job EXCEPT ![w] = Nobody] ELSE job
          /\ status' = status
      BY <2>2 DEF Crash, Goto, row
    <3>2. Discipline'
      BY <2>0, <3>1 DEF Discipline, TypeOK, Workers, Holding, Executing
    <3>3. ClaimIsExclusive'
      BY <2>0, <3>1 DEF ClaimIsExclusive, TypeOK
    <3> QED
      BY <3>2, <3>3
  <2>3. CASE w \in Calls /\ Signs(w)
    BY <2>0, <2>3 DEF Signs, Discipline, ClaimIsExclusive, Goto, row, TypeOK, Workers
  <2>4. CASE w \in Calls /\ CreateElevation(w)
    <3>1. /\ pc[w] = "create" /\ pc' = [pc EXCEPT ![w] = "done"] /\ job' = job
          /\ status' = status \/ status' = [status EXCEPT ![w] = "pending"]
      BY <2>4 DEF CreateElevation, Goto, row
    <3>2. status[w] = "none"
      BY <2>4, <3>1 DEF Discipline
    <3>3. \A s \in Sweepers : job[s] # w
      BY <2>4, <3>2 DEF ClaimIsExclusive
    <3>4. Discipline'
      BY <2>0, <2>4, <3>1 DEF Discipline, TypeOK, Workers
    <3>5. ClaimIsExclusive'
      BY <2>4, <3>1, <3>3 DEF ClaimIsExclusive, TypeOK
    <3> QED
      BY <3>4, <3>5
  <2>5. CASE w \in Sweepers /\ (FindDue(w) \/ Skips(w))
    <3>1. UNCHANGED <<job, status>> /\ (pc' = pc \/ (pc[w] = "idle" /\ pc' = [pc EXCEPT ![w] = "claim"]))
      BY <2>5 DEF FindDue, Visit, Skips, Goto, row
    <3> QED
      BY <2>0, <2>5, <3>1, SMTT(30) DEF Discipline, ClaimIsExclusive, TypeOK, Workers, Holding, Executing
  <2>6. ASSUME w \in Sweepers, NEW c \in Calls, Takes(w, c)
        PROVE  Discipline' /\ ClaimIsExclusive'
    <3>1. /\ status[c] = "pending" /\ status' = [status EXCEPT ![c] = "broadcasting"]
          /\ job' = [job EXCEPT ![w] = c] /\ pc' = [pc EXCEPT ![w] = "release"]
      BY <2>6 DEF Takes, Goto
    <3>2. \A s \in Sweepers : job[s] # c
      BY <3>1 DEF ClaimIsExclusive
    <3>3. Discipline'
      BY <2>0, <2>6, <3>1 DEF Discipline, TypeOK, Workers, Holding
    <3>4. ClaimIsExclusive'
      BY <2>6, <3>1, <3>2 DEF ClaimIsExclusive, TypeOK
    <3> QED
      BY <3>3, <3>4
  <2>7. CASE w \in Sweepers /\ Settles(w)
    <3>1. PICK st \in Statuses \ {"none"} : Finish(w, job[w], st)
      BY <2>7 DEF Settles
    <3>2. /\ status' = [status EXCEPT ![job[w]] = st]
          /\ job' = [job EXCEPT ![w] = Nobody] /\ pc' = [pc EXCEPT ![w] = "claim"]
      BY <3>1 DEF Finish, Goto
    <3>3. job[w] \in Calls /\ status[job[w]] = "broadcasting"
      BY <2>7 DEF Settles, Discipline, ClaimIsExclusive, TypeOK
    <3>4. Discipline'
      BY <2>0, <2>7, <3>2, <3>3 DEF Discipline, TypeOK, Workers, Holding, Executing
    <3>5. ClaimIsExclusive'
      BY <2>7, <3>2, <3>3 DEF ClaimIsExclusive, TypeOK
    <3> QED
      BY <3>4, <3>5
  <2> QED
    BY <1>1, <2>1, <2>2, <2>3, <2>4, <2>5, <2>6, <2>7 DEF WorkerEffect
<1>2. ASSUME NEW c \in Calls, Cancel(c)
      PROVE  Discipline' /\ ClaimIsExclusive'
  BY <1>2 DEF Cancel, Discipline, ClaimIsExclusive, TypeOK
<1>3. CASE ClaimCustody \/ Tick \/ (\E t \in mempool : Mine(t) \/ Drop(t)) \/ UNCHANGED vars
  <2>1. UNCHANGED <<pc, job, status>>
    BY <1>3 DEF ClaimCustody, Tick, Mine, Drop, vars, row
  <2> QED
    BY <2>1 DEF Discipline, ClaimIsExclusive
<1> QED
  BY <1>1, <1>2, <1>3 DEF Effect

LEMMA InitInvariants ==
    ASSUME Init
    PROVE  TypeOK /\ Discipline /\ ClaimIsExclusive
<1>1. TypeOK
  BY ConstantsAreNat DEF Init, TypeOK, Workers, Steps, Statuses, NoRelay, Relays, Custody
<1>2. Discipline /\ ClaimIsExclusive
  BY DEF Init, Discipline, ClaimIsExclusive, Workers, Holding, Executing
<1> QED
  BY <1>1, <1>2

LEMMA Claims == Spec => [](TypeOK /\ Discipline /\ ClaimIsExclusive)
<1>1. Init => TypeOK /\ Discipline /\ ClaimIsExclusive
  BY InitInvariants
<1>2. TypeOK /\ Discipline /\ ClaimIsExclusive /\ [Next]_vars
        => (TypeOK /\ Discipline /\ ClaimIsExclusive)'
  BY Effects, TypeStep, ClaimStep
<1> QED
  BY <1>1, <1>2, PTL DEF Spec

\* Rows, counters and transactions keep their types; in particular the clone's
\* USDC is never overdrawn, whatever is relayed.
THEOREM TypeCorrect == Spec => []TypeOK
BY Claims, PTL

\* However many sweepers there are, a row is released by one of them at a time,
\* and only while it is marked broadcasting.
THEOREM ClaimsAreExclusive == Spec => []ClaimIsExclusive
BY Claims, PTL
-----------------------------------------------------------------------------
(* Debits.                                                                 *)

\* A withdrawal is executed by one worker at a time: its call, which ends
\* before the row exists, or the sweeper that has claimed the row.
LEMMA SoleWorker ==
    ASSUME TypeOK, Discipline, ClaimIsExclusive,
           NEW w \in Workers, NEW v \in Workers,
           pc[w] \in Holding, pc[v] \in Holding, Job(w) = Job(v)
    PROVE  w = v
<1>1. /\ (w \in Calls /\ w \notin Sweepers) \/ (w \in Sweepers /\ w \notin Calls)
      /\ (v \in Calls /\ v \notin Sweepers) \/ (v \in Sweepers /\ v \notin Calls)
  BY WorkerKinds
<1>2. \A c \in Calls : pc[c] \in Holding => status[c] = "none"
  BY DEF Discipline, Holding, Executing
<1>3. \A s \in Sweepers : pc[s] \in Holding => status[job[s]] = "broadcasting" /\ job[s] # Nobody
  BY DEF Discipline, ClaimIsExclusive
<1> QED
  BY <1>1, <1>2, <1>3 DEF Job, ClaimIsExclusive

\* The steps that neither broadcast nor debit.
LEMMA OtherEffects ==
    ASSUME TypeOK, Discipline, Effect, \A w \in Workers : ~Sends(w) /\ ~Debits(w)
    PROVE  /\ UNCHANGED <<body, debits, sends>>
           /\ \A v \in Workers : pc'[v] = "debit" => pc[v] = "debit" /\ Job(v)' = Job(v)
<1>1. ASSUME NEW w \in Workers, WorkerEffect(w)
      PROVE  /\ UNCHANGED <<body, debits, sends>>
             /\ \A v \in Workers : pc'[v] = "debit" => pc[v] = "debit" /\ Job(v)' = Job(v)
  <2>1. UNCHANGED <<body, debits, sends>>
    BY <1>1 DEF WorkerEffect, Advance, Builds, Crash, Signs, CreateElevation, FindDue, Visit, Skips,
                Takes, Settles, Finish, rest, ledger, chain
  <2>2. pc'[w] = "debit" => pc[w] = "debit" /\ job' = job
    BY <1>1 DEF WorkerEffect, Advance, Builds, Crash, Signs, CreateElevation, FindDue, Visit, Skips,
                Takes, Settles, Finish, Goto, TypeOK
  <2>3. \A v \in Workers \ {w} : pc'[v] = pc[v]
    BY <1>1 DEF WorkerEffect, Advance, Builds, Crash, Signs, CreateElevation, FindDue, Visit, Skips,
                Takes, Settles, Finish, Goto, TypeOK
  <2>4. \A v \in Sweepers \ {w} : job'[v] = job[v]
    BY <1>1 DEF WorkerEffect, Advance, Builds, Crash, Signs, CreateElevation, FindDue, Visit, Skips,
                Takes, Settles, Finish, rest, TypeOK
  <2> QED
    BY <2>1, <2>2, <2>3, <2>4 DEF Job
<1>2. CASE \/ (\E c \in Calls : Cancel(c)) \/ ClaimCustody \/ Tick
           \/ (\E t \in mempool : Mine(t) \/ Drop(t)) \/ UNCHANGED vars
  <2>1. UNCHANGED <<body, debits, sends, pc, job>>
    BY <1>2 DEF Cancel, ClaimCustody, Tick, Mine, Drop, vars, ledger, chain
  <2> QED
    BY <2>1 DEF Job
<1> QED
  BY <1>1, <1>2 DEF Effect

LEMMA DebitStep ==
    ASSUME TypeOK, Discipline, ClaimIsExclusive, DebitsAreBacked,
           \A w \in Workers : DebitIsDue(w), Effect
    PROVE  DebitsAreBacked' /\ \A w \in Workers : DebitIsDue(w)'
<1>1. CASE \A w \in Workers : ~Sends(w) /\ ~Debits(w)
  BY <1>1, OtherEffects DEF DebitsAreBacked, DebitIsDue
<1>2. ASSUME NEW w \in Workers, Sends(w)
      PROVE  DebitsAreBacked' /\ \A v \in Workers : DebitIsDue(v)'
  <2>1. pc[w] = "send" /\ Job(w) \in Calls
    BY <1>2, JobIsCall DEF Sends, Broadcast, Holding, Executing
  <2>2. /\ sends' = [sends EXCEPT ![Job(w)] = @ + 1]
        /\ UNCHANGED <<body, job, debits>>
        /\ \A v \in Workers \ {w} : pc'[v] = pc[v]
    BY <1>2 DEF Sends, Broadcast, Ends, Goto, ledger, TypeOK
  <2>3. \A v \in Workers : Job(v)' = Job(v)
    BY <2>2 DEF Job
  <2>4. \A c \in Calls : sends[c] <= sends'[c] /\ sends[c] \in Nat /\ sends'[c] \in Nat
                         /\ debits[c] \in Nat
    BY <2>1, <2>2 DEF TypeOK
  <2>5. DebitsAreBacked'
    BY <2>2, <2>4 DEF DebitsAreBacked
  <2>6. ASSUME NEW v \in Workers, pc'[v] = "debit"
        PROVE  debits'[Job(v)'] < sends'[Job(v)']
    <3>1. CASE v = w
      BY <2>1, <2>2, <2>3, <2>4, <3>1 DEF DebitsAreBacked, TypeOK
    <3>2. CASE v # w
      <4>1. pc[v] = "debit" /\ Job(v) \in Calls
        BY <2>2, <2>6, <3>2, JobIsCall DEF Holding, Executing
      <4> QED
        BY <2>2, <2>3, <2>4, <4>1 DEF DebitIsDue
    <3> QED
      BY <3>1, <3>2
  <2> QED
    BY <2>5, <2>6 DEF DebitIsDue
<1>3. ASSUME NEW w \in Workers, Debits(w)
      PROVE  DebitsAreBacked' /\ \A v \in Workers : DebitIsDue(v)'
  <2>1. pc[w] = "debit" /\ Job(w) \in Calls
    BY <1>3, JobIsCall DEF Debits, Apply, Holding, Executing
  <2>2. /\ debits' = [debits EXCEPT ![Job(w)] = @ + 1]
        /\ ~Recorded(body[Job(w)].key)
        /\ UNCHANGED <<body, job, sends>>
        /\ \A v \in Workers \ {w} : pc'[v] = pc[v]
        /\ pc'[w] # "debit"
    BY <1>3, WorkerKinds DEF Debits, Apply, Ends, Goto, chain, TypeOK
  <2>3. \A v \in Workers : Job(v)' = Job(v)
    BY <2>2 DEF Job
  <2>4. \A c \in Calls : sends[c] \in Nat /\ debits[c] \in Nat
    BY DEF TypeOK
  <2>5. debits[Job(w)] < sends[Job(w)]
    BY <2>1 DEF DebitIsDue
  <2>6. \A c \in Calls : debits'[c] = IF c = Job(w) THEN debits[c] + 1 ELSE debits[c]
    BY <2>2 DEF TypeOK
  <2>7. \A c \in Calls : debits'[c] <= sends'[c]
    BY <2>1, <2>2, <2>4, <2>5, <2>6 DEF DebitsAreBacked
  <2>8. \A d \in Calls : body[Job(w)].key # NoKey /\ body[d].key = body[Job(w)].key => debits[d] = 0
    BY <2>2, <2>4 DEF Recorded
  <2>9. DebitsAreBacked'
    <3> SUFFICES ASSUME NEW c \in Calls, body[c].key # NoKey, debits'[c] > 0
                 PROVE  /\ debits'[c] = 1
                        /\ \A d \in Calls \ {c} : body[d].key = body[c].key => debits'[d] = 0
      BY <2>2, <2>7 DEF DebitsAreBacked
    <3>1. CASE c = Job(w)
      BY <2>1, <2>6, <2>8, <3>1
    <3>2. CASE c # Job(w)
      BY <2>1, <2>4, <2>6, <2>8, <3>2 DEF DebitsAreBacked
    <3> QED
      BY <3>1, <3>2
  <2>10. ASSUME NEW v \in Workers, pc'[v] = "debit"
         PROVE  debits'[Job(v)'] < sends'[Job(v)']
    <3>1. v # w /\ pc[v] = "debit"
      BY <2>2, <2>10
    <3>2. Job(v) # Job(w) /\ Job(v) \in Calls
      BY <2>1, <3>1, SoleWorker, JobIsCall DEF Holding, Executing
    <3> QED
      BY <2>2, <2>3, <2>6, <3>1, <3>2 DEF DebitIsDue
  <2> QED
    BY <2>9, <2>10 DEF DebitIsDue
<1> QED
  BY <1>1, <1>2, <1>3

\* One idempotency key is debited at most once, and no withdrawal is debited
\* more often than it was broadcast, whoever executes it, whatever answer is
\* lost and whichever instance crashes.
THEOREM DebitsAreAlwaysBacked == Spec => []DebitsAreBacked
<1> DEFINE Inv == DebitsAreBacked /\ \A w \in Workers : DebitIsDue(w)
<1>1. Init => Inv
  BY DEF Init, DebitsAreBacked, DebitIsDue
<1>2. (TypeOK /\ Discipline /\ ClaimIsExclusive) /\ Inv /\ [Next]_vars => Inv'
  BY Effects, DebitStep
<1>3. Inv => DebitsAreBacked
  OBVIOUS
<1> HIDE DEF Inv
<1> QED
  BY <1>1, <1>2, <1>3, Claims, PTL DEF Spec
-----------------------------------------------------------------------------
(* Signed withdrawals.                                                     *)

\* Nobody executes the withdrawal of a call that is still asking for it.
LEMMA AskingIsAlone ==
    ASSUME TypeOK, Discipline, ClaimIsExclusive, NEW c \in Calls, pc[c] \in Asking,
           NEW w \in Workers, pc[w] \in Holding
    PROVE  Job(w) # c
<1>1. (w \in Calls /\ w \notin Sweepers) \/ (w \in Sweepers /\ w \notin Calls)
  BY WorkerKinds
<1>2. status[c] = "none"
  BY DEF Discipline, Asking
<1>3. w \in Sweepers => job[w] # c
  BY <1>2 DEF Discipline, ClaimIsExclusive
<1>4. w \in Calls => w # c
  BY DEF Asking, Holding, Executing
<1> QED
  BY <1>1, <1>3, <1>4 DEF Job

\* A step of one worker that leaves the chain and the quotes alone.
LEMMA QuietStep ==
    ASSUME TypeOK, SignedRelays, NEW w \in Workers,
           UNCHANGED <<body, quote, chain>>,
           \A v \in Workers \ {w} : pc'[v] = pc[v] /\ relay'[v] = relay[v],
           \A v \in Sweepers \ {w} : job'[v] = job[v],
           pc'[w] \in Asking => pc[w] \in Asking,
           pc'[w] = "send" => (body[Job(w)].signed => SignedAs(Job(w), relay'[w])) /\ job' = job
    PROVE  SignedRelays'
<1>1. \A c \in Calls : pc'[c] \in Asking => pc[c] \in Asking
  BY DEF Workers
<1>2. ASSUME NEW v \in Workers, pc'[v] = "send", body[Job(v)'].signed
      PROVE  SignedAs(Job(v)', relay'[v])
  <2>1. CASE v = w
    BY <1>2, <2>1 DEF Job
  <2>2. CASE v # w
    <3>1. Job(v)' = Job(v)
      BY <2>2 DEF Job
    <3> QED
      BY <1>2, <2>2, <3>1 DEF SignedRelays
  <2> QED
    BY <2>1, <2>2
<1> QED
  BY <1>1, <1>2 DEF SignedRelays, SignedAs, Asking, chain

LEMMA SignedStep ==
    ASSUME TypeOK, Discipline, ClaimIsExclusive, SignedRelays, Effect
    PROVE  SignedRelays'
<1>1. ASSUME NEW w \in Workers, WorkerEffect(w)
      PROVE  SignedRelays'
  <2>1. CASE Advance(w) \/ Builds(w) \/ Debits(w)
    <3>1. /\ UNCHANGED <<body, quote, chain, job>>
          /\ \A v \in Workers \ {w} : pc'[v] = pc[v] /\ relay'[v] = relay[v]
      BY <2>1 DEF Advance, Builds, Debits, Apply, Ends, Goto, rest, TypeOK
    <3>2. pc'[w] \in Asking => pc[w] \in Asking
      BY <2>1, WorkerKinds DEF Advance, Builds, Debits, Apply, Ends, Goto, Asking, Holding, Executing, TypeOK
    <3>3. pc'[w] = "send" => (body[Job(w)].signed => SignedAs(Job(w), relay'[w]))
      BY <2>1, WorkerKinds DEF Advance, Builds, Debits, Ends
    <3> QED
      BY <3>1, <3>2, <3>3, QuietStep
  <2>2. CASE Crash(w) \/ (w \in Calls /\ CreateElevation(w))
             \/ (w \in Sweepers /\ (FindDue(w) \/ Skips(w) \/ (\E c \in Calls : Takes(w, c)) \/ Settles(w)))
    <3>1. /\ UNCHANGED <<body, quote, chain, relay>>
          /\ \A v \in Workers \ {w} : pc'[v] = pc[v]
          /\ \A v \in Sweepers \ {w} : job'[v] = job[v]
      BY <2>2 DEF Crash, CreateElevation, FindDue, Visit, Skips, Takes, Settles, Finish, Goto, TypeOK
    <3>2. (pc'[w] = pc[w] /\ job' = job) \/ pc'[w] \in {"idle", "done", "claim", "release"}
      BY <2>2 DEF Crash, CreateElevation, FindDue, Visit, Skips, Takes, Settles, Finish, Goto, TypeOK
    <3>3. pc'[w] \in Asking => pc[w] \in Asking
      BY <3>2 DEF Asking
    <3>4. pc'[w] = "send" => (body[Job(w)].signed => SignedAs(Job(w), relay'[w])) /\ job' = job
      BY <3>1, <3>2 DEF SignedRelays
    <3> QED
      BY <3>1, <3>3, <3>4, QuietStep
  <2>3. CASE w \in Calls /\ Signs(w)
    <3>1. /\ pc[w] = "new" /\ pc' = [pc EXCEPT ![w] = "submit"]
          /\ UNCHANGED <<body, job, relay, sends, moved, mempool, nonce>>
          /\ \A c \in Calls \ {w} : quote'[c] = quote[c]
      BY <2>3 DEF Signs, Goto, chain, TypeOK
    <3>2. sends[w] = 0 /\ moved[w] = 0
      BY <2>3, <3>1, SMTT(30) DEF SignedRelays, TypeOK
    <3>3. \A t \in mempool : t.job # Nobody => t.job # w
      BY <3>2 DEF SignedRelays
    <3>4. \A v \in Workers : pc[v] = "send" => Job(v) # w
      BY <2>3, <3>1, AskingIsAlone DEF Asking, Holding, Executing
    <3>5. \A v \in Workers : Job(v)' = Job(v) /\ (pc'[v] = "send" => pc[v] = "send")
      BY <3>1 DEF Job, TypeOK
    <3>6. \A c \in Calls : pc'[c] \in Asking => pc[c] \in Asking
      BY <3>1 DEF Asking, TypeOK, Workers
    <3>7. \A t \in mempool : t.job # Nobody => t.job \in Calls
      BY DEF TypeOK, Pooled
    <3>8. \A v \in Workers : pc[v] = "send" => Job(v) \in Calls
      BY JobIsCall DEF Holding, Executing
    <3>9. \A t \in mempool' : t.job # Nobody =>
             sends'[t.job] > 0 /\ (body'[t.job].signed => SignedAs(t.job, t.relay)')
      BY <3>1, <3>3, <3>7 DEF SignedRelays, SignedAs
    <3>10. \A v \in Workers : pc'[v] = "send" /\ body'[Job(v)'].signed
                                 => SignedAs(Job(v), relay[v])'
      BY <3>1, <3>4, <3>5, <3>8 DEF SignedRelays, SignedAs
    <3>11. \A c \in Calls : body'[c].signed /\ moved'[c] > 0 => moved'[c] = 1 /\ nonce' > quote'[c].nonce
      BY <3>1, <3>2 DEF SignedRelays
    <3> QED
      BY <3>1, <3>6, <3>9, <3>10, <3>11 DEF SignedRelays, Asking
  <2>4. CASE Sends(w)
    <3> DEFINE j == Job(w)
               tx == [job |-> j, n |-> sends[j] + 1, relay |-> relay[w]]
    <3>1. pc[w] = "send" /\ j \in Calls
      BY <2>4, JobIsCall DEF Sends, Broadcast, Holding, Executing
    <3>2. /\ sends' = [sends EXCEPT ![j] = @ + 1]
          /\ mempool' = mempool \cup {tx}
          /\ UNCHANGED <<body, job, quote, relay, moved, nonce>>
      BY <2>4 DEF Sends, Broadcast
    <3>3. /\ \A v \in Workers \ {w} : pc'[v] = pc[v]
          /\ pc'[w] \notin Asking \cup {"send"}
      BY <2>4, WorkerKinds DEF Sends, Ends, Goto, Asking, TypeOK
    <3>4. \A c \in Calls : sends'[c] \in Nat /\ sends'[c] >= sends[c] /\ (c # j => sends'[c] = sends[c])
      BY <3>2 DEF TypeOK
    <3>5. sends'[j] > 0
      BY <3>1, <3>2 DEF TypeOK
    <3>6. \A c \in Calls : pc[c] \in Asking => c # j
      BY <3>1, AskingIsAlone DEF Holding, Executing
    <3>7. \A c \in Calls : /\ pc'[c] \in Asking => sends'[c] = 0
                           /\ moved'[c] > 0 => sends'[c] > 0
      <4>1. \A c \in Calls : pc'[c] \in Asking => pc[c] \in Asking
        BY <3>3 DEF Workers
      <4>2. \A c \in Calls : pc[c] \in Asking => sends[c] = 0
        BY DEF SignedRelays, Asking
      <4> QED
        BY <3>2, <3>4, <3>5, <3>6, <4>1, <4>2 DEF SignedRelays, TypeOK
    <3>8. ASSUME NEW t \in mempool', t.job # Nobody
          PROVE  sends'[t.job] > 0 /\ (body'[t.job].signed => SignedAs(t.job, t.relay)')
      <4>1. CASE t = tx
        BY <3>1, <3>2, <3>5, <4>1 DEF SignedRelays, SignedAs
      <4>2. CASE t \in mempool
        <5>1. t.job \in Calls /\ sends[t.job] > 0 /\ sends[t.job] \in Nat
          BY <3>8, <4>2 DEF SignedRelays, TypeOK, Pooled
        <5>2. sends'[t.job] > 0
          BY <3>4, <5>1
        <5> QED
          BY <3>2, <3>8, <4>2, <5>2 DEF SignedRelays, SignedAs
      <4> QED
        BY <3>2, <4>1, <4>2
    <3>9. \A v \in Workers : pc'[v] = "send" => pc[v] = "send" /\ Job(v)' = Job(v)
      BY <3>2, <3>3 DEF Job
    <3>10. \A v \in Workers : pc'[v] = "send" /\ body'[Job(v)'].signed => SignedAs(Job(v), relay[v])'
      BY <3>2, <3>9 DEF SignedRelays, SignedAs
    <3>11. \A c \in Calls : body'[c].signed /\ moved'[c] > 0 => moved'[c] = 1 /\ nonce' > quote'[c].nonce
      BY <3>2 DEF SignedRelays
    <3> QED
      BY <3>7, <3>8, <3>10, <3>11 DEF SignedRelays, Asking
  <2> QED
    BY <1>1, <2>1, <2>2, <2>3, <2>4 DEF WorkerEffect
<1>2. ASSUME NEW t \in mempool, Mine(t)
      PROVE  SignedRelays'
  <2>1. /\ UNCHANGED <<body, pc, job, quote, relay, sends>> /\ mempool' \subseteq mempool
        /\ nonce' \in {nonce, nonce + 1}
    BY <1>2 DEF Mine
  <2>2. t.job \in Calls \cup {Nobody}
    BY DEF TypeOK, Pooled
  <2>3. CASE moved' = moved
    <3>1. \A c \in Calls : nonce > quote[c].nonce => nonce' > quote[c].nonce
      BY <2>1 DEF TypeOK
    <3> QED
      BY <2>1, <2>3, <3>1 DEF SignedRelays, SignedAs, Job
  <2>4. CASE moved' # moved
    <3>1. /\ t.job \in Calls /\ Accepted(t)
          /\ moved' = [moved EXCEPT ![t.job] = @ + 1]
          /\ t.relay.signer # "none" => nonce' = nonce + 1
      BY <1>2, <2>2, <2>4 DEF Mine
    <3>2. sends[t.job] > 0 /\ (body[t.job].signed => SignedAs(t.job, t.relay))
      BY <3>1 DEF SignedRelays
    <3>3. body[t.job].signed => nonce = quote[t.job].nonce /\ nonce' = nonce + 1
      BY <3>1, <3>2 DEF Accepted, SignedAs
    <3>4. \A c \in Calls : quote[c].nonce \in Nat /\ moved[c] \in Nat
      BY DEF TypeOK
    <3>5. body[t.job].signed => moved[t.job] = 0
      BY <3>1, <3>3, <3>4 DEF SignedRelays
    <3>6. \A c \in Calls : moved'[c] = IF c = t.job THEN moved[c] + 1 ELSE moved[c]
      BY <3>1 DEF TypeOK
    <3>7. \A c \in Calls : body[c].signed /\ moved'[c] > 0 => moved'[c] = 1 /\ nonce' > quote[c].nonce
      BY <2>1, <3>3, <3>4, <3>5, <3>6 DEF SignedRelays, TypeOK
    <3>8. \A c \in Calls : moved'[c] > 0 => sends[c] > 0
      BY <3>2, <3>6 DEF SignedRelays
    <3> QED
      BY <2>1, <3>7, <3>8 DEF SignedRelays, SignedAs, Job
  <2> QED
    BY <2>3, <2>4
<1>3. CASE ClaimCustody
  <2>1. /\ UNCHANGED <<body, pc, job, quote, relay, sends, moved, nonce>>
        /\ \A t \in mempool' : t \in mempool \/ t.job = Nobody
    BY <1>3 DEF ClaimCustody
  <2> QED
    BY <2>1 DEF SignedRelays, SignedAs, Job
<1>4. CASE (\E c \in Calls : Cancel(c)) \/ Tick \/ (\E t \in mempool : Drop(t)) \/ UNCHANGED vars
  <2>1. /\ UNCHANGED <<body, pc, job, quote, relay, sends, moved, nonce>>
        /\ mempool' \subseteq mempool
    BY <1>4 DEF Cancel, Tick, Drop, vars, chain
  <2> QED
    BY <2>1 DEF SignedRelays, SignedAs, Job
<1> QED
  BY <1>1, <1>2, <1>3, <1>4 DEF Effect

\* A withdrawal the user signed moves USDC at most once: every relay of it
\* carries the one nonce the signature covers, and the clone consumes it.
THEOREM SignedWithdrawalsMoveOnce == Spec => []SignedMovesOnce
<1>1. Init => SignedRelays
  BY DEF Init, SignedRelays, Workers
<1>2. (TypeOK /\ Discipline /\ ClaimIsExclusive) /\ SignedRelays /\ [Next]_vars => SignedRelays'
  BY Effects, SignedStep
<1>3. (TypeOK /\ Discipline /\ ClaimIsExclusive) /\ SignedRelays => SignedMovesOnce
  BY DEF TypeOK, SignedRelays, SignedMovesOnce
<1> QED
  BY <1>1, <1>2, <1>3, Claims, PTL DEF Spec
-----------------------------------------------------------------------------
(* Time-locks.                                                             *)

\* A step after which a row that was made is still made and as due as before.
LEMMA StaysDue ==
    ASSUME TypeOK, RowsAreDue, NEW s \in Sweepers,
           due'[s] \subseteq due[s], job'[s] \in {job[s], Nobody} \cup due[s],
           \A c \in Calls \cap (due[s] \cup {job[s]}) :
              /\ status[c] # "none" => status'[c] # "none"
              /\ releaseAfter[c] <= now => releaseAfter'[c] <= now'
    PROVE  /\ \A c \in due'[s] : status'[c] # "none" /\ releaseAfter'[c] <= now'
           /\ job'[s] # Nobody => releaseAfter'[job'[s]] <= now'
BY DEF RowsAreDue, TypeOK

LEMMA DueStep ==
    ASSUME TypeOK, Discipline, ClaimIsExclusive, RowsAreDue, Effect
    PROVE  RowsAreDue'
<1>1. ASSUME NEW w \in Workers, WorkerEffect(w)
      PROVE  RowsAreDue'
  <2>0. (w \in Calls /\ w \notin Sweepers) \/ (w \in Sweepers /\ w \notin Calls)
    BY WorkerKinds
  <2>1. \A c \in Calls : Elevated(c)' => pc'[c] \notin Executing
    <3>1. \A c \in Calls : Elevated(c)' = Elevated(c)
      BY <1>1 DEF WorkerEffect, Advance, Builds, Sends, Broadcast, Debits, Apply, Crash, Signs,
           CreateElevation, FindDue, Visit, Skips, Takes, Settles, Finish, rest, Elevated
    <3>2. \A c \in Calls \ {w} : pc'[c] = pc[c]
      BY <1>1 DEF WorkerEffect, Advance, Builds, Sends, Broadcast, Debits, Apply, Ends, Crash, Signs,
           CreateElevation, FindDue, Visit, Skips, Takes, Settles, Finish, Goto, TypeOK, Workers
    <3>3. w \in Calls /\ pc'[w] \in Executing => pc[w] \in Executing \/ ~Elevated(w)
      BY <1>1, <2>0 DEF WorkerEffect, Advance, Builds, Sends, Broadcast, Debits, Apply, Ends, Crash, Signs,
           CreateElevation, Goto, TypeOK, Workers, Executing
    <3> QED
      BY <3>1, <3>2, <3>3 DEF RowsAreDue
  <2>2. CASE Advance(w) \/ Builds(w) \/ Sends(w) \/ Debits(w) \/ Crash(w)
             \/ (w \in Calls /\ Signs(w)) \/ (w \in Sweepers /\ Skips(w))
    <3>1. /\ UNCHANGED <<status, releaseAfter, now>>
          /\ \A s \in Sweepers : due'[s] \subseteq due[s] /\ job'[s] \in {job[s], Nobody}
      BY <2>2 DEF Advance, Builds, Sends, Broadcast, Debits, Apply, Crash, Signs, Skips, rest, row, TypeOK
    <3> QED
      BY <2>1, <3>1, StaysDue DEF RowsAreDue
  <2>3. CASE w \in Calls /\ CreateElevation(w)
    <3>1. /\ pc[w] = "create" /\ UNCHANGED <<job, due, now>>
          /\ \/ UNCHANGED <<status, releaseAfter>>
             \/ /\ status' = [status EXCEPT ![w] = "pending"]
                /\ releaseAfter' = [releaseAfter EXCEPT ![w] = now + Delay]
      BY <2>3 DEF CreateElevation, row
    <3>2. status[w] = "none"
      BY <2>3, <3>1 DEF Discipline
    <3>3. \A s \in Sweepers : w \notin due[s] /\ job[s] # w
      BY <2>3, <3>2 DEF RowsAreDue, ClaimIsExclusive
    <3>4. \A s \in Sweepers : \A c \in Calls \cap (due[s] \cup {job[s]}) :
            status'[c] = status[c] /\ releaseAfter'[c] = releaseAfter[c]
      BY <3>1, <3>3 DEF TypeOK
    <3> QED
      BY <2>1, <3>1, <3>4, StaysDue DEF RowsAreDue
  <2>4. CASE w \in Sweepers /\ FindDue(w)
    <3>1. PICK rows \in SUBSET Due : Visit(w, rows)
      BY <2>4 DEF FindDue
    <3>2. UNCHANGED <<status, releaseAfter, now, job>> /\ due' = [due EXCEPT ![w] = rows]
      BY <3>1 DEF Visit, row
    <3>3. \A c \in rows : status[c] = "pending" /\ releaseAfter[c] <= now
      BY DEF Due
    <3> QED
      BY <2>1, <2>4, <3>2, <3>3 DEF RowsAreDue, TypeOK
  <2>5. ASSUME w \in Sweepers, NEW c \in Calls, Takes(w, c)
        PROVE  RowsAreDue'
    <3>1. /\ UNCHANGED <<releaseAfter, now>> /\ c \in due[w]
          /\ status' = [status EXCEPT ![c] = "broadcasting"]
          /\ due' = [due EXCEPT ![w] = @ \ {c}]
          /\ job' = [job EXCEPT ![w] = c]
      BY <2>5 DEF Takes
    <3>2. \A s \in Sweepers : due'[s] \subseteq due[s] /\ job'[s] \in {job[s], Nobody} \cup due[s]
      BY <3>1 DEF TypeOK
    <3>3. \A d : status[d] # "none" => status'[d] # "none" \/ d \notin Calls
      BY <3>1 DEF TypeOK
    <3>4. \A s \in Sweepers : \A d \in due'[s] : status'[d] # "none" /\ releaseAfter'[d] <= now'
      BY <3>1, <3>2, <3>3 DEF RowsAreDue, TypeOK
    <3>5. \A s \in Sweepers : job'[s] # Nobody => releaseAfter'[job'[s]] <= now'
      BY <3>1, <3>2 DEF RowsAreDue
    <3> QED
      BY <2>1, <3>4, <3>5 DEF RowsAreDue
  <2>6. CASE w \in Sweepers /\ Settles(w)
    <3>1. PICK st \in Statuses \ {"none"} : Finish(w, job[w], st)
      BY <2>6 DEF Settles
    <3>2. /\ UNCHANGED <<releaseAfter, now, due>>
          /\ status' = [status EXCEPT ![job[w]] = st]
          /\ job' = [job EXCEPT ![w] = Nobody]
      BY <3>1 DEF Finish
    <3>3. \A s \in Sweepers : \A d \in due'[s] : status'[d] # "none" /\ releaseAfter'[d] <= now'
      BY <3>2 DEF RowsAreDue, TypeOK
    <3>4. \A s \in Sweepers : job'[s] # Nobody => releaseAfter'[job'[s]] <= now'
      BY <3>2 DEF RowsAreDue, TypeOK
    <3> QED
      BY <2>1, <3>3, <3>4 DEF RowsAreDue
  <2> QED
    BY <1>1, <2>2, <2>3, <2>4, <2>5, <2>6 DEF WorkerEffect
<1>2. ASSUME NEW c \in Calls, Cancel(c)
      PROVE  RowsAreDue'
  <2>1. /\ UNCHANGED <<body, pc, job, due, releaseAfter, now>>
        /\ status' = [status EXCEPT ![c] = "cancelled"]
    BY <1>2 DEF Cancel
  <2>2. \A s \in Sweepers : \A d \in due[s] : status'[d] # "none"
    BY <2>1 DEF RowsAreDue, TypeOK
  <2> QED
    BY <2>1, <2>2 DEF RowsAreDue, Elevated
<1>3. CASE ClaimCustody \/ Tick \/ (\E t \in mempool : Mine(t) \/ Drop(t)) \/ UNCHANGED vars
  <2>1. UNCHANGED <<body, pc, job, due, status, releaseAfter>> /\ (now' = now \/ now' = now + 1)
    BY <1>3 DEF ClaimCustody, Tick, Mine, Drop, vars, row
  <2>2. \A c \in Calls : releaseAfter[c] <= now => releaseAfter[c] <= now'
    BY <2>1 DEF TypeOK
  <2>3. \A s \in Sweepers : due[s] \subseteq Calls /\ job[s] \in Calls \cup {Nobody}
    BY DEF TypeOK
  <2> QED
    BY <2>1, <2>2, <2>3 DEF RowsAreDue, Elevated
<1> QED
  BY <1>1, <1>2, <1>3 DEF Effect

\* Nothing above the threshold is broadcast unless its row exists and its
\* time-lock is over, whichever sweeper or call takes the step.
THEOREM TimeLockIsKept == Spec => NoEarlyRelease
<1> DEFINE Held == \A c \in Calls :
         sends'[c] # sends[c] /\ Elevated(c) => status[c] # "none" /\ now >= releaseAfter[c]
<1>1. Init => RowsAreDue
  BY DEF Init, RowsAreDue, Workers, Executing
<1>2. (TypeOK /\ Discipline /\ ClaimIsExclusive) /\ RowsAreDue /\ [Next]_vars => RowsAreDue'
  BY Effects, DueStep
<1>3. (TypeOK /\ Discipline /\ ClaimIsExclusive) /\ RowsAreDue /\ [Next]_vars => [Held]_vars
  <2> SUFFICES ASSUME TypeOK, Discipline, ClaimIsExclusive, RowsAreDue, [Next]_vars,
                      NEW c \in Calls, sends'[c] # sends[c], Elevated(c)
               PROVE  status[c] # "none" /\ now >= releaseAfter[c]
    OBVIOUS
  <2>1. Effect
    BY Effects
  <2>2. PICK w \in Workers : Sends(w)
    BY <2>1, OtherEffects DEF Debits, Apply, chain
  <2>3. pc[w] = "send" /\ Job(w) \in Calls /\ sends' = [sends EXCEPT ![Job(w)] = @ + 1]
    BY <2>2, JobIsCall DEF Sends, Broadcast, Holding, Executing
  <2>4. Job(w) = c
    BY <2>3 DEF TypeOK
  <2>5. w \in Sweepers
    BY <2>3, <2>4, WorkerKinds DEF Job, RowsAreDue, Executing
  <2>6. job[w] = c /\ status[c] = "broadcasting" /\ releaseAfter[c] <= now
    BY <2>4, <2>5 DEF Job, ClaimIsExclusive, RowsAreDue
  <2> QED
    BY <2>6 DEF TypeOK
<1> QED
  BY <1>1, <1>2, <1>3, Claims, PTL DEF Spec, NoEarlyRelease
-----------------------------------------------------------------------------
(* Settled rows.                                                           *)

\* Who executes for a row has claimed it: nobody does for a settled one.
LEMMA SettledIsLeftAlone ==
    ASSUME TypeOK, Discipline, ClaimIsExclusive, NEW w \in Workers, pc[w] \in Holding,
           NEW c \in Calls, status[c] \in {"broadcast", "cancelled", "expired"}
    PROVE  Job(w) # c
<1>1. CASE w \in Sweepers
  <2>1. Job(w) = job[w] /\ job[w] # Nobody
    BY <1>1, JobIsCall DEF Discipline
  <2> QED
    BY <1>1, <2>1 DEF ClaimIsExclusive
<1>2. CASE w \in Calls
  <2>1. Job(w) = w /\ pc[w] # "done"
    BY <1>2, JobIsCall DEF Executing
  <2> QED
    BY <1>2, <2>1 DEF Discipline
<1> QED
  BY <1>1, <1>2, WorkerKinds

\* A cancelled, expired or broadcast row never changes, and nothing is
\* broadcast or debited for it, for any number of sweepers and failures.
THEOREM SettledRowsAreFinal == Spec => SettledIsFinal
<1> DEFINE Final == \A c \in Calls :
         status[c] \in {"broadcast", "cancelled", "expired"} =>
             status'[c] = status[c] /\ sends'[c] = sends[c] /\ debits'[c] = debits[c]
<1>1. (TypeOK /\ Discipline /\ ClaimIsExclusive) /\ [Next]_vars => [Final]_vars
  <2> SUFFICES ASSUME TypeOK, Discipline, ClaimIsExclusive, [Next]_vars, NEW c \in Calls,
                      status[c] \in {"broadcast", "cancelled", "expired"}
               PROVE  status'[c] = status[c] /\ sends'[c] = sends[c] /\ debits'[c] = debits[c]
    OBVIOUS
  <2>1. Effect
    BY Effects
  <2>2. ASSUME NEW w \in Workers, WorkerEffect(w)
        PROVE  status'[c] = status[c] /\ sends'[c] = sends[c] /\ debits'[c] = debits[c]
    <3>1. CASE Advance(w) \/ Builds(w) \/ Crash(w) \/ Signs(w) \/ FindDue(w) \/ Skips(w)
      BY <3>1 DEF Advance, Builds, Crash, Signs, FindDue, Visit, Skips, rest, row, ledger, chain
    <3>2. CASE Sends(w)
      <4>1. pc[w] \in Holding /\ UNCHANGED <<status, debits>>
            /\ sends' = [sends EXCEPT ![Job(w)] = @ + 1]
        BY <3>2 DEF Sends, Broadcast, Holding, Executing, row, ledger
      <4> QED
        BY <4>1, SettledIsLeftAlone DEF TypeOK
    <3>3. CASE Debits(w)
      <4>1. pc[w] \in Holding /\ UNCHANGED <<status, sends>>
            /\ debits' = [debits EXCEPT ![Job(w)] = @ + 1]
        BY <3>3 DEF Debits, Apply, Holding, Executing, row, chain
      <4> QED
        BY <4>1, SettledIsLeftAlone DEF TypeOK
    <3>4. CASE w \in Calls /\ CreateElevation(w)
      <4>1. UNCHANGED <<sends, debits>> /\ status[w] = "none"
            /\ status' \in {status, [status EXCEPT ![w] = "pending"]}
        BY <3>4 DEF CreateElevation, Discipline, row, ledger, chain
      <4> QED
        BY <4>1 DEF TypeOK
    <3>5. ASSUME NEW d \in Calls, Takes(w, d)
          PROVE  status'[c] = status[c] /\ sends'[c] = sends[c] /\ debits'[c] = debits[c]
      BY <3>5 DEF Takes, TypeOK, ledger, chain
    <3>6. CASE w \in Sweepers /\ Settles(w)
      <4>1. PICK st \in Statuses : Finish(w, job[w], st)
        BY <3>6 DEF Settles
      <4>2. /\ UNCHANGED <<sends, debits>>
            /\ status' = [status EXCEPT ![job[w]] = st]
        BY <4>1 DEF Finish, ledger, chain
      <4>3. job[w] # c
        BY <3>6, SettledIsLeftAlone DEF Settles, Job
      <4> QED
        BY <4>2, <4>3 DEF TypeOK
    <3> QED
      BY <2>2, <3>1, <3>2, <3>3, <3>4, <3>5, <3>6 DEF WorkerEffect
  <2>3. ASSUME NEW d \in Calls, Cancel(d)
        PROVE  status'[c] = status[c] /\ sends'[c] = sends[c] /\ debits'[c] = debits[c]
    BY <2>3 DEF Cancel, TypeOK, ledger, chain
  <2>4. CASE ClaimCustody \/ Tick \/ (\E t \in mempool : Mine(t) \/ Drop(t)) \/ UNCHANGED vars
    BY <2>4 DEF ClaimCustody, Tick, Mine, Drop, vars, row, ledger, chain
  <2> QED
    BY <2>1, <2>2, <2>3, <2>4 DEF Effect
<1> QED
  BY <1>1, Claims, PTL DEF Spec, SettledIsFinal
=============================================================================
