--------------------------- MODULE IndexerProofs ----------------------------
(***************************************************************************)
(* Proofs about Indexer for any number of instances, operators, payments   *)
(* and users, any confirmation window, and any number of failures.         *)
(***************************************************************************)
EXTENDS Indexer, WellFoundedInduction, TLAPS

USE IndexerAssumption

-----------------------------------------------------------------------------
(* What the operators of the model return.                                 *)

\* A bounded set of numbers has a largest one, and Max is it.
LEMMA MaxIsMember ==
    ASSUME NEW S \in SUBSET Nat, S # {}, NEW B \in Nat, \A x \in S : x <= B
    PROVE  Max(S) \in S
<1> DEFINE Gaps == {n \in Nat : B - n \in S}
           Less == OpToRel(<, Nat)
<1>1. IsWellFoundedOn(Less, Nat)
  BY NatLessThanWellFounded
<1>2. \A m, n \in Nat : m < n => <<m, n>> \in Less
  BY DEF OpToRel
<1>3. Gaps # {}
  <2>1. PICK x \in S : TRUE
    OBVIOUS
  <2>2. B - x \in Nat /\ B - (B - x) = x
    BY <2>1
  <2> QED
    BY <2>1, <2>2
<1>4. PICK g \in Gaps : \A n \in Gaps : <<n, g>> \notin Less
  <2> HIDE DEF Less, Gaps
  <2>1. Gaps \subseteq Nat
    BY DEF Gaps
  <2> QED
    BY <1>1, <1>3, <2>1, WFMin
<1>5. ASSUME NEW y \in S PROVE B - g >= y
  <2>1. B - y \in Nat /\ B - (B - y) = y
    BY <1>5
  <2>2. ~(B - y < g)
    BY <1>2, <1>4, <2>1
  <2> QED
    BY <2>1, <2>2
<1>6. \E x \in S : \A y \in S : x >= y
  BY <1>4, <1>5
<1> QED
  BY <1>6 DEF Max

\* The fields of a log and of its payment.
LEMMA LogFields ==
    ASSUME NEW l \in Logs
    PROVE  /\ l.pay \in Payments /\ l.kind \in {"transfer", "event"}
           /\ Pay[l.pay].tx \in Txs /\ Pay[l.pay].sender \in Wallets
           /\ Pay[l.pay].holder \in Wallets /\ Pay[l.pay].commitment \in Commitments
           /\ Pay[l.pay].user \in Users /\ Pay[l.pay].route \in Routes
<1>1. l.pay \in Payments /\ l.kind \in {"transfer", "event"}
  BY DEF Logs
<1>2. Pay[l.pay] \in PayType
  BY <1>1
<1> QED
  BY <1>1, <1>2 DEF PayType

\* Keys are keys, and logs are logs.
LEMMA KeyTypes ==
    /\ \A l \in Logs : Key(l) \in Keys /\ VaultKey(l) \in Keys /\ From(l) \in Addresses
    /\ \A p \in Payments : LogsOf(p) \subseteq Logs /\ \A l \in LogsOf(p) : l.pay = p
<1>1. ASSUME NEW l \in Logs
      PROVE  Key(l) \in Keys /\ VaultKey(l) \in Keys /\ From(l) \in Addresses
  BY LogFields DEF Key, VaultKey, Keys, From, Addresses
<1>2. ASSUME NEW p \in Payments
      PROVE  LogsOf(p) \subseteq Logs /\ \A l \in LogsOf(p) : l.pay = p
  BY DEF LogsOf, Log, Logs
<1> QED
  BY <1>1, <1>2

\* Whoever a log is credited to is a user.
LEMMA RoutedToUsers ==
    ASSUME TypeOK, NEW i \in Instances, NEW l \in Logs
    PROVE  RoutedTo(i, l) \subseteq Users
<1>1. \A w \in Wallets : SenderUser(i, w) \subseteq Users
  BY DEF SenderUser, OwnerIn, TypeOK
<1> QED
  BY <1>1, LogFields DEF RoutedTo, OwnerIn

LEMMA TypeInit == Init => TypeOK
<1> SUFFICES ASSUME Init PROVE TypeOK
  OBVIOUS
<1> QED
  BY DEF Init, TypeOK, NoLinks, NoCache

LEMMA TypeTake ==
    ASSUME TypeOK, NEW i \in Instances, NEW l \in batch[i], NEW written, Take(i, l, written),
           faults' \in 0 .. MaxFaults
    PROVE  TypeOK'
<1>1. l \in Logs
  BY DEF TypeOK
<1>2. UNCHANGED <<chain, cursor, election, pc, mem, next, resolved, credits, link, linked,
                  operating, links, baselines, failed>>
  BY DEF Take
<1>3. batch' \in [Instances -> SUBSET Logs]
  BY DEF Take, TypeOK
<1>4. orphaned' \subseteq Logs
  BY <1>1 DEF Take, TypeOK
<1>5. events' \in [Logs -> {"none", "deposited", "unattributed"}]
  <2>1. events' \in {events, [events EXCEPT ![l] = "unattributed"], [events EXCEPT ![l] = "deposited"]}
    BY DEF Take
  <2> QED
    BY <1>1, <2>1 DEF TypeOK
<1>6. open' \in [Instances -> SUBSET Credits] /\ cache' \in [Instances -> [Wallets -> Users \cup {Nobody}]]
  <2>1. CASE UNCHANGED <<open, cache>>
    BY <2>1 DEF TypeOK
  <2>2. CASE \E u \in RoutedTo(i, l) :
               /\ open' = [open EXCEPT ![i] = @ \cup {[key |-> Key(l), user |-> u, log |-> l]}]
               /\ cache' = [cache EXCEPT ![i] =
                              [w \in Wallets |-> IF w \in LookedUp(l) THEN u ELSE @[w]]]
    <3>1. PICK u \in RoutedTo(i, l) :
               /\ open' = [open EXCEPT ![i] = @ \cup {[key |-> Key(l), user |-> u, log |-> l]}]
               /\ cache' = [cache EXCEPT ![i] =
                              [w \in Wallets |-> IF w \in LookedUp(l) THEN u ELSE @[w]]]
      BY <2>2
    <3>2. u \in Users
      BY <1>1, RoutedToUsers
    <3>3. [key |-> Key(l), user |-> u, log |-> l] \in Credits
      BY <1>1, <3>2, KeyTypes DEF Credits
    <3> QED
      BY <3>1, <3>2, <3>3 DEF TypeOK
  <2> QED
    BY <2>1, <2>2 DEF Take
<1> QED
  BY <1>2, <1>3, <1>4, <1>5, <1>6 DEF TypeOK, chain, election, operating

LEMMA TypeDeposit ==
    ASSUME TypeOK, NEW c \in Credits, Deposit(c) PROVE credits' \subseteq Credits
  BY DEF Deposit, TypeOK

LEMMA TypeInstance ==
    ASSUME TypeOK, NEW i \in Instances, InstanceStep(i) PROVE TypeOK'
<1>1. CASE Start(i)
  BY <1>1 DEF Start, TypeOK, chain, election, operating, history, NoCache
<1>2. CASE Elect(i)
  BY <1>2 DEF Elect, TypeOK, chain, scanning, routing, operating, history
<1>3. CASE Baseline(i)
  BY <1>3 DEF Baseline, TakeBaseline, TypeOK, chain, election, routing, operating
<1>4. CASE Scan(i)
  <2> DEFINE found == {p \in Payments : block[p] \in mem[i] .. ConfirmedHead}
             starts == {mem[i]} \cup {block[p] + 1 : p \in found}
  <2>1. /\ batch' = [batch EXCEPT ![i] = UNION {LogsOf(p) : p \in found}]
        /\ next' = [next EXCEPT ![i] = Max(starts)]
    BY <1>4 DEF Scan
  <2>2. UNION {LogsOf(p) : p \in found} \subseteq Logs
    BY KeyTypes
  <2>3. /\ mem[i] \in Nat /\ ConfirmedHead + 1 \in Nat /\ mem[i] <= ConfirmedHead
        /\ block \in [Payments -> Nat] /\ ConfirmedHead \in Int
    BY <1>4 DEF Scan, TypeOK, ConfirmedHead
  <2>4. starts \subseteq Nat /\ starts # {} /\ \A x \in starts : x <= ConfirmedHead + 1
    BY <2>3
  <2>5. Max(starts) \in Nat
    <3> HIDE DEF starts
    <3> QED
      BY <2>3, <2>4, MaxIsMember
  <2>6. batch' \in [Instances -> SUBSET Logs] /\ next' \in [Instances -> Nat]
    <3> HIDE DEF found, starts
    <3> QED
      BY <2>1, <2>2, <2>5 DEF TypeOK
  <2>7. pc' = [pc EXCEPT ![i] = "transfers"]
        /\ UNCHANGED <<chain, cursor, election, mem, open, routing, events, credits, link, linked,
                       operating, links, faults, history>>
    BY <1>4 DEF Scan
  <2> QED
    BY <2>6, <2>7 DEF TypeOK, chain, election, routing, operating, history
<1>5. ASSUME NEW l \in batch[i], Route(i, l) PROVE TypeOK'
  BY <1>5, TypeTake DEF Route, TypeOK
<1>6. ASSUME NEW c \in open[i], Credit(i, c) PROVE TypeOK'
  <2>1. c \in Credits
    BY DEF TypeOK
  <2>2. credits' \subseteq Credits
    BY <1>6, <2>1, TypeDeposit DEF Credit
  <2> QED
    BY <1>6, <2>2 DEF Credit, TypeOK, chain, election, routing, operating, history
<1>7. CASE LoadCommitments(i)
  BY <1>7 DEF LoadCommitments, TypeOK, chain, election, scanning, operating, history
<1>8. CASE Persist(i)
  BY <1>8 DEF Persist, Advance, TypeOK, chain, election, routing, operating, history
<1> QED
  BY <1>1, <1>2, <1>3, <1>4, <1>5, <1>6, <1>7, <1>8 DEF InstanceStep

LEMMA TargetFields ==
    ASSUME TypeOK, NEW o \in Operators
    PROVE  target[o][1] \in Logs /\ target[o][2] \in Users
  BY DEF TypeOK

LEMMA TypeOperator ==
    ASSUME TypeOK, NEW o \in Operators, OperatorStep(o) PROVE TypeOK'
<1>0. target[o][1] \in Logs /\ target[o][2] \in Users
  BY TargetFields
<1>1. CASE Find(o)
  BY <1>1 DEF Find, OpGoto, TypeOK, chain, election, scanning, routing, history
<1>2. CASE ClaimAddress(o)
  <2>1. link' \in [Users -> Addresses \cup {NoAddress}] /\ linked' \subseteq Users \X Addresses
    <3>1. From(target[o][1]) \in Addresses
      BY <1>0, KeyTypes
    <3>2. \/ /\ link' = [link EXCEPT ![target[o][2]] = From(target[o][1])]
             /\ linked' = linked \cup {<<target[o][2], From(target[o][1])>>}
          \/ link' = link /\ linked' = linked
      BY <1>2 DEF ClaimAddress, SetAddress
    <3>3. link \in [Users -> Addresses \cup {NoAddress}] /\ linked \subseteq Users \X Addresses
      BY DEF TypeOK
    <3>4. ASSUME NEW u \in Users, NEW a \in Addresses
          PROVE  /\ [link EXCEPT ![u] = a] \in [Users -> Addresses \cup {NoAddress}]
                 /\ linked \cup {<<u, a>>} \subseteq Users \X Addresses
      BY <3>3
    <3> QED
      BY <1>0, <3>1, <3>2, <3>3, <3>4
  <2>2. opc' = [opc EXCEPT ![o] = "credit"] \/ opc' = [opc EXCEPT ![o] = "done"]
    BY <1>2 DEF ClaimAddress, OpGoto
  <2>3. UNCHANGED <<chain, cursor, election, pc, scanning, routing, target, links, history,
                    events, credits, faults>>
    BY <1>2 DEF ClaimAddress, OpGoto
  <2> QED
    BY <2>1, <2>2, <2>3 DEF TypeOK, chain, election, scanning, routing, history
<1>3. CASE Attribute(o)
  <2>1. [key |-> VaultKey(target[o][1]), user |-> target[o][2], log |-> target[o][1]] \in Credits
    BY <1>0, KeyTypes DEF Credits
  <2>2. credits' \subseteq Credits
    BY <1>3, <2>1, TypeDeposit DEF Attribute
  <2> QED
    BY <1>3, <2>2 DEF Attribute, OpGoto, TypeOK, chain, election, scanning, routing, history
<1>4. CASE MarkAttributed(o)
  BY <1>0, <1>4 DEF MarkAttributed, OpGoto, TypeOK, chain, election, scanning, routing, history
<1> QED
  BY <1>1, <1>2, <1>3, <1>4 DEF OperatorStep

LEMMA TypeFault == TypeOK /\ Fault => TypeOK'
<1> SUFFICES ASSUME TypeOK, Fault PROVE TypeOK'
  OBVIOUS
<1>a. ASSUME NEW kind, Fails(kind) PROVE faults' \in 0 .. MaxFaults
  BY <1>a DEF Fails, TypeOK
<1>0. faults' \in 0 .. MaxFaults
  BY <1>a DEF Fault, ResumeFails, PersistFails, CommitmentsLost, Crash, RouteFails, RowLost,
         CreditFails, OperatorFails, SessionLost, ChainReorg
<1>1. ASSUME NEW i \in Instances, ResumeFails(i) PROVE TypeOK'
  BY <1>0, <1>1 DEF ResumeFails, TypeOK, chain, election, operating, history, NoCache
<1>2. ASSUME NEW i \in Instances, PersistFails(i) PROVE TypeOK'
  <2>1. CASE Advance(i)
    BY <1>0, <1>2, <2>1 DEF PersistFails, Advance, TypeOK, chain, election, routing, operating, history
  <2>2. CASE TakeBaseline(i)
    BY <1>0, <1>2, <2>2 DEF PersistFails, TakeBaseline, TypeOK, chain, election, routing, operating
  <2> QED
    BY <1>2, <2>1, <2>2 DEF PersistFails
<1>3. ASSUME NEW i \in Instances, CommitmentsLost(i) PROVE TypeOK'
  BY <1>0, <1>3 DEF CommitmentsLost, TypeOK, chain, election, routing, operating
<1>4. ASSUME NEW i \in Instances, Crash(i) PROVE TypeOK'
  BY <1>0, <1>4 DEF Crash, TypeOK, chain, routing, operating, history
<1>5. ASSUME NEW i \in Instances, NEW l \in batch[i], RouteFails(i, l) PROVE TypeOK'
  BY <1>0, <1>5 DEF RouteFails, TypeOK, chain, election, routing, operating
<1>6. ASSUME NEW i \in Instances, NEW l \in batch[i], RowLost(i, l) PROVE TypeOK'
  BY <1>0, <1>6, TypeTake DEF RowLost
<1>7. ASSUME NEW i \in Instances, NEW c \in open[i], CreditFails(i, c) PROVE TypeOK'
  <2>1. c.log \in Logs
    BY DEF TypeOK, Credits
  <2> QED
    BY <1>0, <1>7, <2>1 DEF CreditFails, TypeOK, chain, election, routing, operating
<1>8. ASSUME NEW o \in Operators, OperatorFails(o) PROVE TypeOK'
  BY <1>0, <1>8 DEF OperatorFails, OpGoto, TypeOK, chain, election, scanning, routing, history
<1>9. CASE SessionLost
  BY <1>0, <1>9 DEF SessionLost, TypeOK, chain, scanning, routing, operating, history
<1>10. CASE ChainReorg
  <2>0. PICK k \in 1 .. MinConfirmations :
          k < head /\ \E f \in [Payments -> (head - k + 1 .. head) \cup {0}] : Reorg(k, f)
    BY <1>10 DEF ChainReorg
  <2>1. PICK f \in [Payments -> (head - k + 1 .. head) \cup {0}] : Reorg(k, f)
    BY <2>0
  <2>2. \A p \in Payments : f[p] \in Nat
    BY <2>0, <2>1 DEF TypeOK
  <2>3. block' \in [Payments -> Nat]
    BY <2>1, <2>2 DEF Reorg, TypeOK
  <2> QED
    BY <1>0, <2>1, <2>3 DEF Reorg, TypeOK, election, scanning, routing, operating, history
<1> QED
  BY <1>1, <1>2, <1>3, <1>4, <1>5, <1>6, <1>7, <1>8, <1>9, <1>10 DEF Fault

LEMMA TypeStep == TypeOK /\ [Next]_vars => TypeOK'
<1> SUFFICES ASSUME TypeOK, [Next]_vars PROVE TypeOK'
  OBVIOUS
<1>1. ASSUME NEW u \in Users, NEW w \in Wallets, Relink(u, w) PROVE TypeOK'
  BY <1>1 DEF Relink, SetAddress, Addresses, TypeOK, chain, election, scanning, routing,
              operating, history
<1>2. ASSUME NEW S \in SUBSET {p \in Payments : block[p] = 0}, Mine(S) PROVE TypeOK'
  BY <1>2 DEF Mine, TypeOK, election, scanning, routing, operating, history
<1>3. CASE UNCHANGED vars
  BY <1>3 DEF vars, TypeOK
<1> QED
  BY <1>1, <1>2, <1>3, TypeInstance, TypeOperator, TypeFault DEF Next

\* Every value has its type, whatever crashes, is reorganised or fails to be
\* written (RunIndexer, scan, handleDeposit, AttributeDeposit).
THEOREM TypeCorrect == Spec => []TypeOK
<1>1. Init => TypeOK
  BY TypeInit
<1>2. TypeOK /\ [Next]_vars => TypeOK'
  BY TypeStep
<1> QED
  BY <1>1, <1>2, PTL DEF Spec

-----------------------------------------------------------------------------
(* The inductive invariants.                                               *)

\* A transfer to a clone has a key that AttributeDeposit does not use.
ToClone(l) == l.kind = "transfer" /\ Pay[l.pay].route = "clone"

\* Every credit of a transfer carries the one key of that transfer: a clone's
\* transfers are never flagged, so no operator gets to attribute them.
KeysAgree ==
    /\ \A i \in Instances : \A c \in open[i] : c.key = Key(c.log)
    /\ \A c \in credits : c.log.kind = "transfer" => c.key = Key(c.log)
    /\ \A c, d \in credits : c.key = d.key => c = d
    /\ \A l \in Logs : events[l] = "unattributed" => ~ToClone(l)
    /\ \A o \in Operators : opc[o] \in {"set", "credit"} => ~ToClone(target[o][1])

\* No reorganisation reaches the log's block.
Final(l) == 0 < block[l.pay] /\ block[l.pay] <= ConfirmedHead

\* Whatever the indexer, the table and the operators hold is final.
SeenIsFinal ==
    /\ \A i \in Instances : (\A l \in batch[i] : Final(l)) /\ \A c \in open[i] : Final(c.log)
    /\ \A l \in Logs : events[l] # "none" => Final(l)
    /\ \A c \in credits : Final(c.log)
    /\ \A o \in Operators : opc[o] \in {"set", "credit", "mark"} => Final(target[o][1])

\* An operator marks a row only after the credit.
MarkIsCredited ==
    \A o \in Operators :
        opc[o] = "mark" => \E c \in credits : c.key = VaultKey(target[o][1])

Done(l) == Handled(l) \/ l \in orphaned

\* The payments below block n that a scan had to look at.
Due(p, n) == 0 < block[p] /\ block[p] < n /\ \A b \in baselines : b <= block[p]

Passed(n) == \A p \in Payments : Due(p, n) => \A l \in LogsOf(p) : Done(l)

\* A position is in the confirmed part of the chain or is a baseline: no
\* payment lands below it that is Due.
Reached(n) == n <= ConfirmedHead + 1 \/ \E b \in baselines : n <= b

\* The log is done, or the scan under way still holds it.
Held(i, l) == Done(l) \/ l \in batch[i] \/ \E c \in open[i] : c.log = l

\* The stored cursor, and each instance's own, have passed only what is done;
\* newCursor, only what is done or what the scan under way still holds.
Positions ==
    /\ StartBlock \in baselines
    /\ Passed(cursor) /\ Reached(cursor)
    /\ \A i \in Instances : pc[i] # "down" => Passed(mem[i]) /\ Reached(mem[i])
    /\ \A i \in Instances : pc[i] \in {"transfers", "events"} =>
          /\ Reached(next[i])
          /\ \A p \in Payments : Due(p, next[i]) =>
                \A l \in LogsOf(p) : Held(i, l)

-----------------------------------------------------------------------------
(* The kinds of steps, by what they do to the state the invariants are about. *)

chainAndRows == <<head, block, events, credits>>
positions == <<cursor, pc, mem, next, baselines>>
outcome == <<failed, orphaned>>
calls == <<opc, target>>

\* Elections, lost sessions, links.
Quiet == UNCHANGED <<chainAndRows, positions, batch, open, outcome, calls>>

\* A process starts, from the stored cursor or from StartBlock.
Begins(i) ==
    /\ pc[i] = "down"
    /\ pc' = [pc EXCEPT ![i] = "idle"]
    /\ mem' = [mem EXCEPT ![i] = cursor] \/ mem' = [mem EXCEPT ![i] = StartBlock]
    /\ UNCHANGED <<chainAndRows, cursor, next, baselines, batch, open, outcome, calls>>

\* The head is taken as a baseline, stored or not.
Rebases(i) ==
    /\ mem' = [mem EXCEPT ![i] = head]
    /\ baselines' = baselines \cup {head}
    /\ cursor' = cursor \/ cursor' = head
    /\ UNCHANGED <<chainAndRows, pc, next, batch, open, outcome, calls>>

\* A worker takes a log.
Takes(i, l) ==
    /\ l \in batch[i]
    /\ batch' = [batch EXCEPT ![i] = @ \ {l}]
    /\ \/ Pay[l.pay].route = "other" /\ UNCHANGED <<open, events, orphaned>>
       \/ /\ RoutedTo(i, l) = {}
          /\ events' = IF events[l] = "none" THEN [events EXCEPT ![l] = "unattributed"] ELSE events
          /\ orphaned' = orphaned \cup IF events[l] = "deposited" THEN {l} ELSE {}
          /\ UNCHANGED open
       \/ /\ events' = events \/ (events[l] = "none" /\ events' = [events EXCEPT ![l] = "deposited"])
          /\ \E u \in Users :
                open' = [open EXCEPT ![i] = @ \cup {[key |-> Key(l), user |-> u, log |-> l]}]
          /\ UNCHANGED orphaned
    /\ UNCHANGED <<head, block, credits, positions, failed, calls>>

\* Logs are given up with an error.
GivesUp(i, F) ==
    /\ F \subseteq batch[i]
    /\ batch' = [batch EXCEPT ![i] = @ \ F]
    /\ failed' = failed \cup F
    /\ UNCHANGED <<chainAndRows, positions, open, orphaned, calls>>

\* A scan is over: the cursor moves in memory and perhaps in the table.
Ends(i) ==
    /\ pc[i] \in {"transfers", "events"} /\ batch[i] = {} /\ open[i] = {}
    /\ mem' = [mem EXCEPT ![i] = next[i]]
    /\ pc' = [pc EXCEPT ![i] = "idle"]
    /\ cursor' = cursor \/ cursor' = next[i]
    /\ UNCHANGED <<chainAndRows, next, baselines, batch, open, outcome, calls>>

\* An operator's call moves on without a credit: it ends, or it goes on with a
\* deposit that was flagged when it looked.
Calls(o) ==
    /\ \/ opc' = [opc EXCEPT ![o] = "done"]
       \/ /\ opc' = [opc EXCEPT ![o] = "set"] \/ opc' = [opc EXCEPT ![o] = "credit"]
          /\ opc[o] = "set" \/ events[target[o][1]] = "unattributed"
    /\ UNCHANGED <<chainAndRows, positions, batch, open, outcome, target>>

\* Every step is one of these.
Effect ==
    \/ Quiet
    \/ \E i \in Instances :
         \/ Begins(i) \/ Rebases(i) \/ Scan(i) \/ LoadCommitments(i) \/ Ends(i) \/ Crash(i)
         \/ \E l \in Logs : Takes(i, l)
         \/ \E F \in SUBSET Logs : GivesUp(i, F)
         \/ \E c \in Credits : Credit(i, c) \/ CreditFails(i, c)
    \/ \E o \in Operators : Calls(o) \/ Attribute(o) \/ MarkAttributed(o)
    \/ \E S \in SUBSET {p \in Payments : block[p] = 0} : Mine(S)
    \/ ChainReorg

LEMMA TakeEffect ==
    ASSUME TypeOK, NEW i \in Instances, NEW l \in batch[i], NEW written \in BOOLEAN,
           Take(i, l, written), written \/ RoutedTo(i, l) # {}
    PROVE  l \in Logs /\ Takes(i, l)
<1>1. l \in Logs /\ RoutedTo(i, l) \subseteq Users
  BY RoutedToUsers DEF TypeOK
<1>2. batch' = [batch EXCEPT ![i] = @ \ {l}]
      /\ UNCHANGED <<head, block, credits, positions, failed, calls>>
  BY DEF Take, chain, positions, calls, operating
<1>3. CASE Pay[l.pay].route = "other" /\ UNCHANGED <<open, cache, events, orphaned>>
  BY <1>1, <1>2, <1>3 DEF Takes
<1>4. CASE /\ RoutedTo(i, l) = {}
           /\ events' = IF events[l] = "none" /\ written THEN [events EXCEPT ![l] = "unattributed"] ELSE events
           /\ orphaned' = orphaned \cup IF events[l] = "deposited" THEN {l} ELSE {}
           /\ UNCHANGED <<open, cache>>
  BY <1>1, <1>2, <1>4 DEF Takes
<1>5. CASE \E u \in RoutedTo(i, l) :
             /\ events' = IF events[l] = "none" /\ written THEN [events EXCEPT ![l] = "deposited"] ELSE events
             /\ open' = [open EXCEPT ![i] = @ \cup {[key |-> Key(l), user |-> u, log |-> l]}]
             /\ UNCHANGED orphaned
  BY <1>1, <1>2, <1>5 DEF Takes
<1> QED
  BY <1>1, <1>3, <1>4, <1>5 DEF Take

LEMMA Effects == TypeOK /\ [Next]_vars => Effect
<1> SUFFICES ASSUME TypeOK, [Next]_vars PROVE Effect
  OBVIOUS
<1> USE DEF chainAndRows, positions, outcome, calls
<1>1. ASSUME NEW i \in Instances, InstanceStep(i) PROVE Effect
  <2>1. CASE Start(i)
    <3>1. Begins(i)
      BY <2>1 DEF Start, Begins, chain, operating, history
    <3> QED
      BY <3>1 DEF Effect
  <2>2. CASE Elect(i)
    BY <2>2 DEF Elect, Quiet, Effect, chain, scanning, operating, history
  <2>3. CASE Baseline(i)
    <3>1. Rebases(i)
      BY <2>3 DEF Baseline, TakeBaseline, Rebases, chain, operating
    <3> QED
      BY <3>1 DEF Effect
  <2>4. ASSUME NEW l \in batch[i], Route(i, l) PROVE Effect
    <3>1. l \in Logs /\ Takes(i, l)
      BY <2>4, TakeEffect DEF Route
    <3> QED
      BY <3>1 DEF Effect
  <2>5. ASSUME NEW c \in open[i], Credit(i, c) PROVE Effect
    BY <2>5 DEF Effect, TypeOK
  <2>6. CASE Persist(i)
    <3>1. Ends(i)
      BY <2>6 DEF Persist, Advance, TurnOver, Ends, chain, operating, history
    <3> QED
      BY <3>1 DEF Effect
  <2> QED
    BY <1>1, <2>1, <2>2, <2>3, <2>4, <2>5, <2>6 DEF InstanceStep, Effect
<1>2. ASSUME NEW o \in Operators, OperatorStep(o) \/ OperatorFails(o) PROVE Effect
  <2>1. CASE Find(o)
    <3>1. Calls(o)
      BY <2>1, TargetFields DEF Find, OpGoto, Calls, chain, scanning, history, TypeOK
    <3> QED
      BY <3>1 DEF Effect
  <2>2. CASE ClaimAddress(o)
    <3>1. Calls(o)
      BY <2>2 DEF ClaimAddress, OpGoto, Calls, chain, scanning, history
    <3> QED
      BY <3>1 DEF Effect
  <2>3. CASE OperatorFails(o)
    <3>1. Calls(o)
      BY <2>3 DEF OperatorFails, OpGoto, Calls, chain, scanning, history
    <3> QED
      BY <3>1 DEF Effect
  <2> QED
    BY <1>2, <2>1, <2>2, <2>3 DEF OperatorStep, Effect
<1>3. ASSUME NEW u \in Users, NEW w \in Wallets, Relink(u, w) PROVE Effect
  BY <1>3 DEF Relink, Quiet, Effect, chain, scanning, operating, history
<1>4. CASE UNCHANGED vars
  BY <1>4 DEF vars, Quiet, Effect
<1>5. CASE SessionLost
  BY <1>5 DEF SessionLost, Quiet, Effect, chain, scanning, operating, history
<1>6. ASSUME NEW i \in Instances, ResumeFails(i) PROVE Effect
  <2>1. Begins(i)
    BY <1>6 DEF ResumeFails, Begins, chain, operating, history
  <2> QED
    BY <2>1 DEF Effect
<1>7. ASSUME NEW i \in Instances, PersistFails(i) PROVE Effect
  <2>1. CASE Advance(i)
    <3>1. Ends(i)
      BY <1>7, <2>1 DEF PersistFails, Advance, TurnOver, Ends, chain, operating, history
    <3> QED
      BY <3>1 DEF Effect
  <2>2. CASE TakeBaseline(i)
    <3>1. Rebases(i)
      BY <1>7, <2>2 DEF PersistFails, TakeBaseline, Rebases, chain, operating
    <3> QED
      BY <3>1 DEF Effect
  <2> QED
    BY <1>7, <2>1, <2>2 DEF PersistFails
<1>8. ASSUME NEW i \in Instances, CommitmentsLost(i) PROVE Effect
  <2>1. GivesUp(i, batch[i]) /\ batch[i] \in SUBSET Logs
    BY <1>8 DEF CommitmentsLost, GivesUp, TypeOK, chain, operating
  <2> QED
    BY <2>1 DEF Effect
<1>9. ASSUME NEW i \in Instances, NEW l \in batch[i], RouteFails(i, l) PROVE Effect
  <2>1. GivesUp(i, {l}) /\ {l} \in SUBSET Logs
    BY <1>9 DEF RouteFails, GivesUp, TypeOK, chain, operating
  <2> QED
    BY <2>1 DEF Effect
<1>10. ASSUME NEW i \in Instances, NEW l \in batch[i], RowLost(i, l) PROVE Effect
  <2>1. l \in Logs /\ Takes(i, l)
    BY <1>10, TakeEffect DEF RowLost
  <2> QED
    BY <2>1 DEF Effect
<1>11. ASSUME NEW i \in Instances, NEW c \in open[i], CreditFails(i, c) PROVE Effect
  BY <1>11 DEF Effect, TypeOK
<1>12. CASE Fault
  BY <1>12, <1>2, <1>5, <1>6, <1>7, <1>8, <1>9, <1>10, <1>11 DEF Fault, Effect
<1> QED
  BY <1>1, <1>2, <1>3, <1>4, <1>12 DEF Next, Effect

-----------------------------------------------------------------------------
(* A transfer is credited once.                                            *)

\* The two paths of the ledger use the same key for a transfer that is not to
\* a clone.
LEMMA OneKey ==
    ASSUME NEW l \in Logs, l.kind = "transfer", ~ToClone(l) PROVE Key(l) = VaultKey(l)
  BY DEF Key, ToClone

\* Deposit adds at most its own credit, and only under a new key.
LEMMA DepositAdds ==
    ASSUME NEW c, Deposit(c)
    PROVE  /\ credits \subseteq credits' /\ credits' \subseteq credits \cup {c}
           /\ c \in credits' => c \in credits \/ \A d \in credits : d.key # c.key
           /\ \E d \in credits' : d.key = c.key
  BY DEF Deposit

LEMMA KeysInit == Init => KeysAgree
  BY DEF Init, KeysAgree

LEMMA KeysStep == TypeOK /\ KeysAgree /\ [Next]_vars => KeysAgree'
<1> SUFFICES ASSUME TypeOK, KeysAgree, Effect PROVE KeysAgree'
  BY Effects
<1> USE DEF chainAndRows, positions, outcome, calls
<1>0. ASSUME UNCHANGED <<events, credits, opc, target>>,
             \A i \in Instances : open'[i] \subseteq open[i]
      PROVE  KeysAgree'
  BY <1>0 DEF KeysAgree
<1>1. CASE Quiet
  BY <1>0, <1>1 DEF Quiet
<1>2. ASSUME NEW i \in Instances,
             Begins(i) \/ Rebases(i) \/ Scan(i) \/ LoadCommitments(i) \/ Ends(i)
      PROVE  KeysAgree'
  BY <1>0, <1>2 DEF Begins, Rebases, Scan, LoadCommitments, Ends, operating, scanning
<1>3. ASSUME NEW i \in Instances, Crash(i) PROVE KeysAgree'
  BY <1>0, <1>3 DEF Crash, operating, TypeOK
<1>4. ASSUME NEW i \in Instances, NEW F \in SUBSET Logs, GivesUp(i, F) PROVE KeysAgree'
  BY <1>0, <1>4 DEF GivesUp
<1>5. ASSUME NEW i \in Instances, NEW c \in Credits, CreditFails(i, c) PROVE KeysAgree'
  BY <1>0, <1>5 DEF CreditFails, operating, TypeOK
<1>6. ASSUME NEW i \in Instances, NEW l \in Logs, Takes(i, l) PROVE KeysAgree'
  <2>1. UNCHANGED <<credits, opc, target>>
    BY <1>6 DEF Takes
  <2>2. \A j \in Instances : \A c \in open'[j] : c.key = Key(c.log)
    <3>1. CASE UNCHANGED open
      BY <3>1 DEF KeysAgree
    <3>2. CASE \E u \in Users :
                 open' = [open EXCEPT ![i] = @ \cup {[key |-> Key(l), user |-> u, log |-> l]}]
      BY <3>2 DEF KeysAgree, TypeOK
    <3> QED
      BY <1>6, <3>1, <3>2 DEF Takes
  <2>3. ASSUME NEW m \in Logs, events'[m] = "unattributed" PROVE ~ToClone(m)
    <3>1. CASE events[m] = "unattributed"
      BY <3>1 DEF KeysAgree
    <3>2. CASE events[m] # "unattributed"
      <4>1. m = l /\ RoutedTo(i, l) = {}
        BY <1>6, <2>3, <3>2 DEF Takes, TypeOK
      <4> QED
        BY <4>1 DEF RoutedTo, ToClone
    <3> QED
      BY <3>1, <3>2
  <2> QED
    BY <2>1, <2>2, <2>3 DEF KeysAgree, ToClone
<1>7. ASSUME NEW i \in Instances, NEW c \in Credits, Credit(i, c) PROVE KeysAgree'
  <2>1. /\ c \in open[i] /\ Deposit(c) /\ UNCHANGED <<events, opc, target>>
        /\ \A j \in Instances : open'[j] \subseteq open[j]
    BY <1>7 DEF Credit, operating, TypeOK
  <2>2. c.key = Key(c.log)
    BY <2>1 DEF KeysAgree
  <2>3. \A d \in credits' : d.log.kind = "transfer" => d.key = Key(d.log)
    BY <2>1, <2>2, DepositAdds DEF KeysAgree
  <2>4. \A d, e \in credits' : d.key = e.key => d = e
    BY <2>1, DepositAdds DEF KeysAgree
  <2> QED
    BY <2>1, <2>3, <2>4 DEF KeysAgree
<1>8. ASSUME NEW o \in Operators, Calls(o) PROVE KeysAgree'
  <2>1. UNCHANGED <<events, credits, open, target>>
    BY <1>8 DEF Calls
  <2>2. ASSUME NEW q \in Operators, opc'[q] \in {"set", "credit"} PROVE ~ToClone(target[q][1])
    <3>1. CASE q = o
      <4>1. opc[o] = "set" \/ events[target[o][1]] = "unattributed"
        BY <1>8, <2>2, <3>1 DEF Calls, TypeOK
      <4> QED
        BY <3>1, <4>1, TargetFields DEF KeysAgree
    <3>2. CASE q # o
      <4>1. opc'[q] = opc[q]
        BY <1>8, <3>2 DEF Calls, TypeOK
      <4> QED
        BY <2>2, <4>1 DEF KeysAgree
    <3> QED
      BY <3>1, <3>2
  <2> QED
    BY <2>1, <2>2 DEF KeysAgree
<1>9. ASSUME NEW o \in Operators, Attribute(o) PROVE KeysAgree'
  <2> DEFINE l == target[o][1]
             c == [key |-> VaultKey(l), user |-> target[o][2], log |-> l]
  <2>1. /\ opc[o] = "credit" /\ Deposit(c) /\ opc' = [opc EXCEPT ![o] = "mark"]
        /\ UNCHANGED <<events, open, target>>
    BY <1>9 DEF Attribute, OpGoto, scanning
  <2>2. l \in Logs /\ ~ToClone(l)
    BY <2>1, TargetFields DEF KeysAgree
  <2>3. c.log.kind = "transfer" => c.key = Key(c.log)
    BY <2>2, OneKey
  <2>4. \A d \in credits' : d.log.kind = "transfer" => d.key = Key(d.log)
    <3> HIDE DEF c
    <3> QED
      BY <2>1, <2>3, DepositAdds DEF KeysAgree
  <2>5. \A d, e \in credits' : d.key = e.key => d = e
    <3> HIDE DEF c
    <3> QED
      BY <2>1, DepositAdds DEF KeysAgree
  <2>6. \A q \in Operators : opc'[q] \in {"set", "credit"} => opc[q] = opc'[q]
    BY <2>1 DEF TypeOK
  <2> QED
    BY <2>1, <2>4, <2>5, <2>6 DEF KeysAgree
<1>10. ASSUME NEW o \in Operators, MarkAttributed(o) PROVE KeysAgree'
  <2>1. /\ events' = [events EXCEPT ![target[o][1]] = "deposited"]
        /\ opc' = [opc EXCEPT ![o] = "done"] /\ UNCHANGED <<credits, open, target>>
    BY <1>10 DEF MarkAttributed, OpGoto, scanning
  <2>2. \A m \in Logs : events'[m] = "unattributed" => events[m] = "unattributed"
    BY <2>1 DEF TypeOK
  <2>3. \A q \in Operators : opc'[q] \in {"set", "credit"} => opc[q] = opc'[q]
    BY <2>1 DEF TypeOK
  <2> QED
    BY <2>1, <2>2, <2>3 DEF KeysAgree
<1>11. ASSUME NEW S \in SUBSET {p \in Payments : block[p] = 0}, Mine(S) PROVE KeysAgree'
  BY <1>0, <1>11 DEF Mine, operating, scanning
<1>12. CASE ChainReorg
  BY <1>0, <1>12 DEF ChainReorg, Reorg, operating, scanning
<1> QED
  BY <1>1, <1>2, <1>3, <1>4, <1>5, <1>6, <1>7, <1>8, <1>9, <1>10, <1>11, <1>12 DEF Effect

\* Whatever is scanned again after crashes, lost cursors and failovers, by one
\* leader or two, and whatever operators attribute meanwhile, a transfer is
\* credited at most once (handleDeposit, AttributeDeposit, MoneyService.Deposit).
THEOREM TransfersAreCreditedOnce == Spec => []TransferCreditedOnce
<1>1. Init => TypeOK /\ KeysAgree
  BY TypeInit, KeysInit
<1>2. TypeOK /\ KeysAgree /\ [Next]_vars => TypeOK' /\ KeysAgree'
  BY TypeStep, KeysStep
<1>3. KeysAgree => TransferCreditedOnce
  BY DEF KeysAgree, TransferCreditedOnce
<1> QED
  BY <1>1, <1>2, <1>3, PTL DEF Spec

-----------------------------------------------------------------------------
(* What is credited stays on the chain.                                    *)

\* A block that is confirmed never changes, and what changes does not become
\* confirmed: MinConfirmations bounds the reorganisations.
LEMMA BlocksMove ==
    ASSUME TypeOK, Effect
    PROVE  /\ ConfirmedHead \in Int /\ ConfirmedHead' \in Int /\ ConfirmedHead <= ConfirmedHead'
           /\ \A p \in Payments :
                \/ block'[p] = block[p]
                \/ /\ block[p] = 0 \/ block[p] > ConfirmedHead
                   /\ block'[p] = 0 \/ block'[p] > ConfirmedHead
<1>1. ASSUME UNCHANGED <<head, block>>
      PROVE  /\ ConfirmedHead \in Int /\ ConfirmedHead' \in Int /\ ConfirmedHead <= ConfirmedHead'
             /\ \A p \in Payments : block'[p] = block[p]
  BY <1>1 DEF ConfirmedHead, TypeOK
<1>2. ASSUME NEW S \in SUBSET {p \in Payments : block[p] = 0}, Mine(S)
      PROVE  /\ ConfirmedHead \in Int /\ ConfirmedHead' \in Int /\ ConfirmedHead <= ConfirmedHead'
             /\ \A p \in Payments :
                  \/ block'[p] = block[p]
                  \/ block[p] = 0 /\ block'[p] > ConfirmedHead
  BY <1>2 DEF Mine, ConfirmedHead, TypeOK
<1>3. CASE ChainReorg
  <2>1. PICK k \in 1 .. MinConfirmations :
          k < head /\ \E f \in [Payments -> (head - k + 1 .. head) \cup {0}] : Reorg(k, f)
    BY <1>3 DEF ChainReorg
  <2>2. PICK f \in [Payments -> (head - k + 1 .. head) \cup {0}] : Reorg(k, f)
    BY <2>1
  <2>3. /\ head' = head /\ ConfirmedHead \in Int /\ ConfirmedHead' \in Int
        /\ ConfirmedHead = ConfirmedHead' /\ head \in Nat /\ k \in Nat /\ ConfirmedHead <= head - k
    BY <2>1, <2>2 DEF Reorg, ConfirmedHead, TypeOK
  <2>4. ASSUME NEW p \in Payments, block'[p] # block[p]
        PROVE  block[p] > ConfirmedHead /\ (block'[p] = 0 \/ block'[p] > ConfirmedHead)
    <3>1. block[p] > head - k /\ block'[p] = f[p] /\ block[p] \in Nat
      BY <2>2, <2>4 DEF Reorg, TypeOK
    <3>2. f[p] = 0 \/ f[p] \in head - k + 1 .. head
      BY <2>2
    <3> QED
      BY <2>3, <3>1, <3>2
  <2> QED
    BY <2>3, <2>4
<1>4. CASE UNCHANGED <<head, block>>
  BY <1>1, <1>4
<1>5. UNCHANGED <<head, block>> \/ ChainReorg
        \/ \E S \in SUBSET {p \in Payments : block[p] = 0} : Mine(S)
  <2>1. ASSUME NEW i \in Instances, Begins(i) \/ Rebases(i) \/ Scan(i) \/ LoadCommitments(i) \/ Ends(i)
        PROVE  UNCHANGED <<head, block>>
    BY <2>1 DEF Begins, Rebases, Scan, LoadCommitments, Ends, chain, chainAndRows
  <2>2. ASSUME NEW i \in Instances,
               \/ Crash(i) \/ (\E l \in Logs : Takes(i, l)) \/ (\E F \in SUBSET Logs : GivesUp(i, F))
               \/ \E c \in Credits : Credit(i, c) \/ CreditFails(i, c)
        PROVE  UNCHANGED <<head, block>>
    BY <2>2 DEF Crash, Takes, GivesUp, Credit, CreditFails, chain, chainAndRows
  <2>3. ASSUME NEW o \in Operators, Calls(o) \/ Attribute(o) \/ MarkAttributed(o)
        PROVE  UNCHANGED <<head, block>>
    BY <2>3 DEF Calls, Attribute, MarkAttributed, OpGoto, chain, chainAndRows
  <2>4. Quiet => UNCHANGED <<head, block>>
    BY DEF Quiet, chainAndRows
  <2> QED
    BY <2>1, <2>2, <2>3, <2>4 DEF Effect
<1> QED
  BY <1>2, <1>3, <1>4, <1>5

LEMMA FinalStays ==
    ASSUME TypeOK, Effect, NEW l \in Logs, Final(l) PROVE Final(l)'
<1>1. l.pay \in Payments /\ block[l.pay] \in Nat
  BY LogFields DEF TypeOK
<1>2. block'[l.pay] = block[l.pay] /\ ConfirmedHead \in Int /\ ConfirmedHead' \in Int
      /\ ConfirmedHead <= ConfirmedHead'
  BY <1>1, BlocksMove DEF Final
<1> QED
  BY <1>1, <1>2 DEF Final

LEMMA FinalInit == Init => SeenIsFinal
  BY DEF Init, SeenIsFinal

\* Everything a worker or an operator holds comes from a scan, and a scan looks
\* at confirmed blocks only.
LEMMA FinalStep == TypeOK /\ SeenIsFinal /\ [Next]_vars => SeenIsFinal'
<1> SUFFICES ASSUME TypeOK, SeenIsFinal, Effect PROVE SeenIsFinal'
  BY Effects
<1> USE DEF chainAndRows, positions, outcome, calls
\* It is enough that what a step adds was final before it.
<1>0. ASSUME \A i \in Instances : \A l \in batch'[i] : l \in Logs /\ Final(l),
             \A i \in Instances : \A c \in open'[i] : c.log \in Logs /\ Final(c.log),
             \A l \in Logs : events'[l] # "none" => Final(l),
             \A c \in credits' : c.log \in Logs /\ Final(c.log),
             \A o \in Operators : opc'[o] \in {"set", "credit", "mark"} => Final(target'[o][1]),
             target' = target
      PROVE  SeenIsFinal'
  <2>1. \A l \in Logs : Final(l) => Final(l)'
    BY FinalStays
  <2> QED
    BY <1>0, <2>1, TargetFields DEF SeenIsFinal, Final
<1>a. /\ \A i \in Instances : \A l \in batch[i] : l \in Logs /\ Final(l)
      /\ \A i \in Instances : \A c \in open[i] : c.log \in Logs /\ Final(c.log)
      /\ \A l \in Logs : events[l] # "none" => Final(l)
      /\ \A c \in credits : c.log \in Logs /\ Final(c.log)
      /\ \A o \in Operators : opc[o] \in {"set", "credit", "mark"} => Final(target[o][1])
  BY DEF SeenIsFinal, TypeOK, Credits
<1>1. CASE Quiet
  BY <1>0, <1>a, <1>1 DEF Quiet
<1>2. ASSUME NEW i \in Instances,
             Begins(i) \/ Rebases(i) \/ LoadCommitments(i) \/ Ends(i)
      PROVE  SeenIsFinal'
  BY <1>0, <1>a, <1>2 DEF Begins, Rebases, LoadCommitments, Ends, operating, scanning
<1>b. ASSUME NEW i \in Instances, Scan(i) PROVE SeenIsFinal'
  <2>1. /\ batch' = [batch EXCEPT ![i] = UNION {LogsOf(p) : p \in
                       {p \in Payments : block[p] \in mem[i] .. ConfirmedHead}}]
        /\ mem[i] > 0 /\ UNCHANGED <<open, events, credits, opc, target>>
    BY <1>b DEF Scan, operating
  <2>2. ASSUME NEW p \in Payments, block[p] \in mem[i] .. ConfirmedHead, NEW l \in LogsOf(p)
        PROVE  l \in Logs /\ Final(l)
    <3>1. l \in Logs /\ l.pay = p
      BY KeyTypes
    <3>2. mem[i] \in Nat /\ block[p] \in Nat /\ ConfirmedHead \in Int
      BY DEF TypeOK, ConfirmedHead
    <3> QED
      BY <2>1, <2>2, <3>1, <3>2 DEF Final
  <2>3. \A j \in Instances : \A l \in batch'[j] : l \in Logs /\ Final(l)
    BY <1>a, <2>1, <2>2 DEF TypeOK
  <2> QED
    BY <1>0, <1>a, <2>1, <2>3
<1>3. ASSUME NEW i \in Instances, Crash(i) PROVE SeenIsFinal'
  BY <1>0, <1>a, <1>3 DEF Crash, operating, TypeOK
<1>4. ASSUME NEW i \in Instances, NEW F \in SUBSET Logs, GivesUp(i, F) PROVE SeenIsFinal'
  BY <1>0, <1>a, <1>4 DEF GivesUp, TypeOK
<1>5. ASSUME NEW i \in Instances, NEW c \in Credits, CreditFails(i, c) PROVE SeenIsFinal'
  BY <1>0, <1>a, <1>5 DEF CreditFails, operating, TypeOK
<1>6. ASSUME NEW i \in Instances, NEW l \in Logs, Takes(i, l) PROVE SeenIsFinal'
  <2>1. UNCHANGED <<credits, opc, target>> /\ Final(l)
    BY <1>6, <1>a DEF Takes
  <2>2. \A j \in Instances : \A c \in open'[j] : c.log \in Logs /\ Final(c.log)
    <3>1. CASE UNCHANGED open
      BY <1>a, <3>1
    <3>2. CASE \E u \in Users :
                 open' = [open EXCEPT ![i] = @ \cup {[key |-> Key(l), user |-> u, log |-> l]}]
      BY <1>a, <2>1, <3>2 DEF TypeOK
    <3> QED
      BY <1>6, <3>1, <3>2 DEF Takes
  <2>3. \A m \in Logs : events'[m] # "none" => Final(m)
    BY <1>6, <1>a, <2>1 DEF Takes, TypeOK
  <2>4. \A j \in Instances : \A m \in batch'[j] : m \in Logs /\ Final(m)
    BY <1>6, <1>a DEF Takes, TypeOK
  <2> QED
    BY <1>0, <1>a, <2>1, <2>2, <2>3, <2>4
<1>7. ASSUME NEW i \in Instances, NEW c \in Credits, Credit(i, c) PROVE SeenIsFinal'
  <2>1. /\ c \in open[i] /\ Deposit(c) /\ UNCHANGED <<events, opc, target, batch>>
        /\ \A j \in Instances : open'[j] \subseteq open[j]
    BY <1>7 DEF Credit, operating, TypeOK
  <2>2. \A d \in credits' : d.log \in Logs /\ Final(d.log)
    BY <1>a, <2>1, DepositAdds
  <2> QED
    BY <1>0, <1>a, <2>1, <2>2
<1>8. ASSUME NEW o \in Operators, Calls(o) PROVE SeenIsFinal'
  <2>1. UNCHANGED <<events, credits, open, batch, target>>
    BY <1>8 DEF Calls
  <2>2. ASSUME NEW q \in Operators, opc'[q] \in {"set", "credit", "mark"} PROVE Final(target[q][1])
    <3>1. CASE q = o
      <4>1. opc[o] = "set" \/ events[target[o][1]] = "unattributed"
        BY <1>8, <2>2, <3>1 DEF Calls, TypeOK
      <4> QED
        BY <1>a, <3>1, <4>1, TargetFields
    <3>2. CASE q # o
      <4>1. opc'[q] = opc[q]
        BY <1>8, <3>2 DEF Calls, TypeOK
      <4> QED
        BY <1>a, <2>2, <4>1
    <3> QED
      BY <3>1, <3>2
  <2> QED
    BY <1>0, <1>a, <2>1, <2>2
<1>9. ASSUME NEW o \in Operators, Attribute(o) PROVE SeenIsFinal'
  <2> DEFINE l == target[o][1]
             c == [key |-> VaultKey(l), user |-> target[o][2], log |-> l]
  <2>1. /\ opc[o] = "credit" /\ Deposit(c) /\ opc' = [opc EXCEPT ![o] = "mark"]
        /\ UNCHANGED <<events, open, batch, target>>
    BY <1>9 DEF Attribute, OpGoto, scanning
  <2>2. c.log \in Logs /\ Final(c.log)
    BY <1>a, <2>1, TargetFields
  <2>3. \A d \in credits' : d.log \in Logs /\ Final(d.log)
    <3> HIDE DEF c
    <3> QED
      BY <1>a, <2>1, <2>2, DepositAdds
  <2>4. \A q \in Operators : opc'[q] \in {"set", "credit", "mark"} => opc[q] \in {"set", "credit", "mark"}
    BY <2>1 DEF TypeOK
  <2> QED
    BY <1>0, <1>a, <2>1, <2>3, <2>4
<1>10. ASSUME NEW o \in Operators, MarkAttributed(o) PROVE SeenIsFinal'
  <2>1. /\ opc[o] = "mark" /\ events' = [events EXCEPT ![target[o][1]] = "deposited"]
        /\ opc' = [opc EXCEPT ![o] = "done"] /\ UNCHANGED <<credits, open, batch, target>>
    BY <1>10 DEF MarkAttributed, OpGoto, scanning
  <2>2. \A m \in Logs : events'[m] # "none" => Final(m)
    BY <1>a, <2>1 DEF TypeOK
  <2>3. \A q \in Operators : opc'[q] \in {"set", "credit", "mark"} => opc[q] \in {"set", "credit", "mark"}
    BY <2>1 DEF TypeOK
  <2> QED
    BY <1>0, <1>a, <2>1, <2>2, <2>3
<1>11. ASSUME NEW S \in SUBSET {p \in Payments : block[p] = 0}, Mine(S) PROVE SeenIsFinal'
  BY <1>0, <1>a, <1>11 DEF Mine, operating, scanning
<1>12. CASE ChainReorg
  BY <1>0, <1>a, <1>12 DEF ChainReorg, Reorg, operating, scanning
<1> QED
  BY <1>1, <1>2, <1>b, <1>3, <1>4, <1>5, <1>6, <1>7, <1>8, <1>9, <1>10, <1>11, <1>12 DEF Effect

\* A credited payment is in a block that no reorganisation of fewer than
\* MinConfirmations blocks reaches, so it stays on the chain (scan's
\* confirmedHead, handleDeposit, AttributeDeposit).
THEOREM CreditsStayConfirmed == Spec => []CreditsAreConfirmed
<1>1. Init => TypeOK /\ SeenIsFinal
  BY TypeInit, FinalInit
<1>2. TypeOK /\ SeenIsFinal /\ [Next]_vars => TypeOK' /\ SeenIsFinal'
  BY TypeStep, FinalStep
<1>3. TypeOK /\ SeenIsFinal => CreditsAreConfirmed
  <2> SUFFICES ASSUME TypeOK, SeenIsFinal, NEW c \in credits PROVE block[c.log.pay] > 0
    BY DEF CreditsAreConfirmed
  <2>1. c.log \in Logs /\ Final(c.log)
    BY DEF SeenIsFinal, TypeOK, Credits
  <2>2. block[c.log.pay] \in Nat
    BY <2>1, LogFields DEF TypeOK
  <2> QED
    BY <2>1, <2>2 DEF Final
<1> QED
  BY <1>1, <1>2, <1>3, PTL DEF Spec

-----------------------------------------------------------------------------
(* The cursor skips nothing.                                               *)

LEMMA MarkStep == TypeOK /\ MarkIsCredited /\ [Next]_vars => MarkIsCredited'
<1> SUFFICES ASSUME TypeOK, MarkIsCredited, Effect PROVE MarkIsCredited'
  BY Effects
<1> USE DEF chainAndRows, positions, outcome, calls
<1>1. ASSUME credits \subseteq credits', target' = target,
             \A o \in Operators : opc'[o] = "mark" => opc[o] = "mark"
      PROVE  MarkIsCredited'
  BY <1>1 DEF MarkIsCredited, VaultKey
<1>2. ASSUME NEW o \in Operators, Attribute(o) PROVE MarkIsCredited'
  <2> DEFINE c == [key |-> VaultKey(target[o][1]), user |-> target[o][2], log |-> target[o][1]]
  <2>1. Deposit(c) /\ opc' = [opc EXCEPT ![o] = "mark"] /\ target' = target
    BY <1>2 DEF Attribute, OpGoto
  <2>2. credits \subseteq credits' /\ \E d \in credits' : d.key = c.key
    <3> HIDE DEF c
    <3> QED
      BY <2>1, DepositAdds
  <2>3. \A q \in Operators : q # o => opc'[q] = opc[q]
    BY <2>1 DEF TypeOK
  <2> QED
    BY <2>1, <2>2, <2>3 DEF MarkIsCredited, VaultKey
<1>3. ASSUME NEW i \in Instances, NEW c \in Credits, Credit(i, c) PROVE MarkIsCredited'
  BY <1>1, <1>3, DepositAdds DEF Credit, operating
<1>4. ASSUME NEW o \in Operators, Calls(o) \/ MarkAttributed(o) PROVE MarkIsCredited'
  <2>1. credits' = credits /\ target' = target
    BY <1>4 DEF Calls, MarkAttributed, OpGoto
  <2>2. \A q \in Operators : opc'[q] = "mark" => opc[q] = "mark"
    BY <1>4 DEF Calls, MarkAttributed, OpGoto, TypeOK
  <2> QED
    BY <1>1, <2>1, <2>2
<1>5. CASE UNCHANGED <<credits, opc, target>>
  BY <1>1, <1>5
<1>6. \/ UNCHANGED <<credits, opc, target>>
      \/ \E i \in Instances : \E c \in Credits : Credit(i, c)
      \/ \E o \in Operators : Calls(o) \/ Attribute(o) \/ MarkAttributed(o)
  <2>1. ASSUME NEW i \in Instances, Begins(i) \/ Rebases(i) \/ Scan(i) \/ LoadCommitments(i) \/ Ends(i)
        PROVE  UNCHANGED <<credits, opc, target>>
    BY <2>1 DEF Begins, Rebases, Scan, LoadCommitments, Ends, operating
  <2>2. ASSUME NEW i \in Instances,
               \/ Crash(i) \/ (\E l \in Logs : Takes(i, l)) \/ (\E F \in SUBSET Logs : GivesUp(i, F))
               \/ \E c \in Credits : CreditFails(i, c)
        PROVE  UNCHANGED <<credits, opc, target>>
    BY <2>2 DEF Crash, Takes, GivesUp, CreditFails, operating
  <2>3. Quiet => UNCHANGED <<credits, opc, target>>
    BY DEF Quiet
  <2>4. (\E S \in SUBSET {p \in Payments : block[p] = 0} : Mine(S)) \/ ChainReorg
          => UNCHANGED <<credits, opc, target>>
    BY DEF Mine, ChainReorg, Reorg, operating
  <2> QED
    BY <2>1, <2>2, <2>3, <2>4 DEF Effect
<1> QED
  BY <1>2, <1>3, <1>4, <1>5, <1>6

\* What is done stays done: rows are never overwritten but by an operator who
\* credited the deposit, and nothing leaves the ledger.
LEMMA DoneStays ==
    ASSUME TypeOK, MarkIsCredited, Effect, NEW l \in Logs, Done(l) PROVE Done(l)'
<1> USE DEF chainAndRows, positions, outcome, calls
<1>1. failed \subseteq failed' /\ orphaned \subseteq orphaned'
  <2>1. ASSUME NEW i \in Instances, Begins(i) \/ Rebases(i) \/ Scan(i) \/ LoadCommitments(i) \/ Ends(i)
        PROVE  failed \subseteq failed' /\ orphaned \subseteq orphaned'
    BY <2>1 DEF Begins, Rebases, Scan, LoadCommitments, Ends, history
  <2>2. ASSUME NEW i \in Instances,
               \/ Crash(i) \/ (\E m \in Logs : Takes(i, m)) \/ (\E F \in SUBSET Logs : GivesUp(i, F))
               \/ \E c \in Credits : Credit(i, c) \/ CreditFails(i, c)
        PROVE  failed \subseteq failed' /\ orphaned \subseteq orphaned'
    BY <2>2 DEF Crash, Takes, GivesUp, Credit, CreditFails, history
  <2>3. ASSUME NEW o \in Operators, Calls(o) \/ Attribute(o) \/ MarkAttributed(o)
        PROVE  failed \subseteq failed' /\ orphaned \subseteq orphaned'
    BY <2>3 DEF Calls, Attribute, MarkAttributed, OpGoto, history
  <2>4. Quiet => failed \subseteq failed' /\ orphaned \subseteq orphaned'
    BY DEF Quiet
  <2>5. (\E S \in SUBSET {p \in Payments : block[p] = 0} : Mine(S)) \/ ChainReorg
          => failed \subseteq failed' /\ orphaned \subseteq orphaned'
    BY DEF Mine, ChainReorg, Reorg, history
  <2> QED
    BY <2>1, <2>2, <2>3, <2>4, <2>5 DEF Effect
<1>2. credits \subseteq credits'
  <2>1. ASSUME NEW i \in Instances,
               \/ Begins(i) \/ Rebases(i) \/ Scan(i) \/ LoadCommitments(i) \/ Ends(i) \/ Crash(i)
               \/ (\E m \in Logs : Takes(i, m)) \/ (\E F \in SUBSET Logs : GivesUp(i, F))
        PROVE  credits' = credits
    BY <2>1 DEF Begins, Rebases, Scan, LoadCommitments, Ends, Crash, Takes, GivesUp
  <2>2. ASSUME NEW i \in Instances, NEW c \in Credits, Credit(i, c) \/ CreditFails(i, c)
        PROVE  credits \subseteq credits'
    BY <2>2, DepositAdds DEF Credit, CreditFails
  <2>3. ASSUME NEW o \in Operators, Calls(o) \/ Attribute(o) \/ MarkAttributed(o)
        PROVE  credits \subseteq credits'
    BY <2>3, DepositAdds DEF Calls, Attribute, MarkAttributed, OpGoto
  <2>4. Quiet => credits' = credits
    BY DEF Quiet
  <2>5. (\E S \in SUBSET {p \in Payments : block[p] = 0} : Mine(S)) \/ ChainReorg
          => credits' = credits
    BY DEF Mine, ChainReorg, Reorg
  <2> QED
    BY <2>1, <2>2, <2>3, <2>4, <2>5 DEF Effect
<1>3. ASSUME events[l] = "unattributed", events'[l] # "unattributed"
      PROVE  \E c \in credits' : c.key = VaultKey(l)
  <2>1. CASE \E o \in Operators : MarkAttributed(o)
    <3>1. PICK o \in Operators : MarkAttributed(o)
      BY <2>1
    <3>2. opc[o] = "mark" /\ events' = [events EXCEPT ![target[o][1]] = "deposited"]
      BY <3>1 DEF MarkAttributed
    <3>3. l = target[o][1]
      BY <1>3, <3>2 DEF TypeOK
    <3> QED
      BY <1>2, <3>2, <3>3 DEF MarkIsCredited
  <2>2. CASE \E i \in Instances : \E m \in Logs : Takes(i, m)
    BY <1>3, <2>2 DEF Takes, TypeOK
  <2>3. CASE UNCHANGED events
    BY <1>3, <2>3
  <2> QED
    BY <2>1, <2>2, <2>3
       DEF Effect, Quiet, Begins, Rebases, Scan, LoadCommitments, Ends, Crash, GivesUp,
           Credit, CreditFails, Calls, Attribute, OpGoto, Mine, ChainReorg, Reorg
<1> QED
  BY <1>1, <1>2, <1>3 DEF Done, Handled, Key, VaultKey

\* Due, Passed, Reached and Held in the next state, for a position that may
\* itself be one of the next state.
DueNext(p, n) == 0 < block'[p] /\ block'[p] < n /\ \A b \in baselines' : b <= block'[p]
PassedNext(n) == \A p \in Payments : DueNext(p, n) => \A l \in LogsOf(p) : Done(l)'
ReachedNext(n) == n <= ConfirmedHead' + 1 \/ \E b \in baselines' : n <= b
HeldNext(i, l) == Done(l)' \/ l \in batch'[i] \/ \E c \in open'[i] : c.log = l

LEMMA BaselinesStay == ASSUME Effect PROVE baselines \subseteq baselines'
<1>1. ASSUME NEW i \in Instances,
             \/ Begins(i) \/ Rebases(i) \/ Scan(i) \/ LoadCommitments(i) \/ Ends(i) \/ Crash(i)
             \/ \E l \in Logs : Takes(i, l)
             \/ \E F \in SUBSET Logs : GivesUp(i, F)
             \/ \E c \in Credits : Credit(i, c) \/ CreditFails(i, c)
      PROVE  baselines \subseteq baselines'
  <2>1. CASE Begins(i) \/ Rebases(i) \/ Scan(i) \/ LoadCommitments(i) \/ Ends(i) \/ Crash(i)
    BY <2>1 DEF Begins, Rebases, Scan, LoadCommitments, Ends, Crash, history
  <2>2. CASE ~(Begins(i) \/ Rebases(i) \/ Scan(i) \/ LoadCommitments(i) \/ Ends(i) \/ Crash(i))
    BY <1>1, <2>2 DEF Takes, GivesUp, Credit, CreditFails, positions, history
  <2> QED
    BY <2>1, <2>2
<1>2. ASSUME NEW o \in Operators, Calls(o) \/ Attribute(o) \/ MarkAttributed(o)
      PROVE  baselines \subseteq baselines'
  BY <1>2 DEF Calls, Attribute, MarkAttributed, OpGoto, positions, history
<1>3. CASE Quiet \/ (\E S \in SUBSET {p \in Payments : block[p] = 0} : Mine(S)) \/ ChainReorg
  BY <1>3 DEF Quiet, Mine, ChainReorg, Reorg, positions, history
<1> QED
  BY <1>1, <1>2, <1>3 DEF Effect

\* No payment appears below a position that was reached, unless a baseline is
\* above it.
LEMMA DueStays ==
    ASSUME TypeOK, TypeOK', Effect, NEW n \in Nat, Reached(n)
    PROVE  /\ ReachedNext(n)
           /\ \A p \in Payments : DueNext(p, n) => Due(p, n)
<1>0. /\ ConfirmedHead \in Int /\ ConfirmedHead' \in Int /\ ConfirmedHead <= ConfirmedHead'
      /\ baselines \subseteq baselines' /\ baselines' \subseteq Nat
  BY BlocksMove, BaselinesStay DEF TypeOK
<1>1. ReachedNext(n)
  <2>1. CASE n <= ConfirmedHead + 1
    <3>1. \A x, y \in Int : n <= x + 1 /\ x <= y => n <= y + 1
      OBVIOUS
    <3> QED
      BY <1>0, <2>1, <3>1, Zenon DEF ReachedNext
  <2>2. CASE \E b \in baselines : n <= b
    BY <1>0, <2>2 DEF ReachedNext
  <2> QED
    BY <2>1, <2>2 DEF Reached
<1>2. ASSUME NEW p \in Payments, DueNext(p, n) PROVE Due(p, n)
  <2>0. block[p] \in Nat /\ block'[p] \in Nat
    BY DEF TypeOK
  <2>1. CASE block'[p] = block[p]
    BY <1>0, <1>2, <2>1 DEF DueNext, Due
  <2>2. CASE block'[p] > ConfirmedHead
    <3>1. ~(n <= ConfirmedHead + 1)
      BY <1>0, <1>2, <2>0, <2>2 DEF DueNext
    <3>2. PICK b \in baselines : n <= b
      BY <3>1 DEF Reached
    <3>3. b \in Nat /\ b <= block'[p]
      BY <1>0, <1>2, <3>2 DEF DueNext
    <3> QED
      BY <1>2, <2>0, <3>2, <3>3 DEF DueNext
  <2>3. CASE block'[p] = 0
    BY <1>2, <2>3 DEF DueNext
  <2> QED
    BY <2>1, <2>2, <2>3, BlocksMove
<1> QED
  BY <1>1, <1>2

LEMMA PassedStays ==
    ASSUME TypeOK, TypeOK', MarkIsCredited, Effect, NEW n \in Nat, Passed(n), Reached(n)
    PROVE  PassedNext(n) /\ ReachedNext(n)
<1>1. \A l \in Logs : Done(l) => Done(l)'
  BY DoneStays
<1> QED
  BY <1>1, DueStays, KeyTypes DEF Passed, PassedNext

\* A scan that holds what it has not done goes on doing so.
LEMMA ScanStays ==
    ASSUME TypeOK, TypeOK', MarkIsCredited, Effect, Positions,
           NEW i \in Instances, pc[i] \in {"transfers", "events"},
           \A l \in Logs : Held(i, l) => HeldNext(i, l)
    PROVE  /\ ReachedNext(next[i])
           /\ \A p \in Payments : DueNext(p, next[i]) => \A l \in LogsOf(p) : HeldNext(i, l)
<1>1. next[i] \in Nat /\ Reached(next[i])
  BY DEF Positions, TypeOK
<1>2. /\ ReachedNext(next[i])
      /\ \A p \in Payments : DueNext(p, next[i]) => Due(p, next[i])
  BY <1>1, DueStays
<1> QED
  BY <1>2, KeyTypes DEF Positions

\* What a worker or a failure does to the logs a scan holds.
LEMMA HeldStays ==
    ASSUME TypeOK, KeysAgree, MarkIsCredited, Effect, NEW i \in Instances, NEW l \in Logs, Held(i, l),
           ~Scan(i), ~Crash(i)
    PROVE  HeldNext(i, l)
<1> USE DEF chainAndRows, positions, outcome, calls
<1>0. Done(l) => Done(l)'
  BY DoneStays
<1>1. ASSUME batch'[i] = batch[i], open'[i] = open[i] PROVE HeldNext(i, l)
  BY <1>0, <1>1 DEF Held, HeldNext
<1>2. ASSUME NEW j \in Instances, NEW m \in Logs, Takes(j, m) PROVE HeldNext(i, l)
  <2>1. CASE j = i /\ m = l
    <3>1. CASE Pay[l.pay].route = "other"
      BY <3>1 DEF HeldNext, Done, Handled
    <3>2. CASE /\ events' = IF events[l] = "none" THEN [events EXCEPT ![l] = "unattributed"] ELSE events
               /\ orphaned' = orphaned \cup IF events[l] = "deposited" THEN {l} ELSE {}
      <4>1. events'[l] = "unattributed" \/ l \in orphaned'
        BY <3>2 DEF TypeOK
      <4> QED
        BY <4>1 DEF HeldNext, Done, Handled
    <3>3. CASE \E u \in Users :
                 open' = [open EXCEPT ![i] = @ \cup {[key |-> Key(l), user |-> u, log |-> l]}]
      <4>1. PICK u \in Users :
                 open' = [open EXCEPT ![i] = @ \cup {[key |-> Key(l), user |-> u, log |-> l]}]
        BY <3>3
      <4>2. [key |-> Key(l), user |-> u, log |-> l] \in open'[i]
        BY <4>1 DEF TypeOK
      <4> QED
        BY <4>2 DEF HeldNext
    <3> QED
      BY <1>2, <2>1, <3>1, <3>2, <3>3 DEF Takes
  <2>2. CASE ~(j = i /\ m = l)
    <3>1. l \in batch[i] => l \in batch'[i]
      BY <1>2, <2>2 DEF Takes, TypeOK
    <3>2. open[i] \subseteq open'[i]
      BY <1>2 DEF Takes, TypeOK
    <3> QED
      BY <1>0, <3>1, <3>2 DEF Held, HeldNext
  <2> QED
    BY <2>1, <2>2
<1>3. ASSUME NEW j \in Instances, NEW F \in SUBSET Logs, GivesUp(j, F) PROVE HeldNext(i, l)
  <2>1. open' = open /\ (l \in batch[i] => l \in batch'[i] \/ l \in failed')
    BY <1>3 DEF GivesUp, TypeOK
  <2> QED
    BY <1>0, <2>1 DEF Held, HeldNext, Done, Handled
<1>4. ASSUME NEW j \in Instances, NEW c \in Credits, Credit(j, c) PROVE HeldNext(i, l)
  <2>1. batch' = batch /\ open' = [open EXCEPT ![j] = @ \ {c}] /\ c \in open[j] /\ Deposit(c)
    BY <1>4 DEF Credit
  <2>2. c.key = Key(c.log) /\ \E d \in credits' : d.key = c.key
    BY <2>1, DepositAdds DEF KeysAgree
  <2>3. c.log = l => Done(l)'
    BY <2>2 DEF Done, Handled, Key, VaultKey
  <2>4. \A d \in open[i] : d \in open'[i] \/ d = c
    BY <2>1 DEF TypeOK
  <2> QED
    BY <1>0, <2>1, <2>3, <2>4 DEF Held, HeldNext
<1>5. ASSUME NEW j \in Instances, NEW c \in Credits, CreditFails(j, c) PROVE HeldNext(i, l)
  <2>1. batch' = batch /\ open' = [open EXCEPT ![j] = @ \ {c}] /\ c.log \in failed'
    BY <1>5 DEF CreditFails
  <2>2. c.log = l => Done(l)'
    BY <2>1 DEF Done, Handled
  <2>3. \A d \in open[i] : d \in open'[i] \/ d = c
    BY <2>1 DEF TypeOK
  <2> QED
    BY <1>0, <2>1, <2>2, <2>3 DEF Held, HeldNext
<1>6. ASSUME NEW j \in Instances, Scan(j) \/ Crash(j) PROVE HeldNext(i, l)
  <2>1. j # i
    BY <1>6
  <2>2. batch'[i] = batch[i] /\ open'[i] = open[i]
    BY <1>6, <2>1 DEF Scan, Crash, TypeOK
  <2> QED
    BY <1>1, <2>2
<1>7. CASE UNCHANGED <<batch, open>>
  BY <1>1, <1>7
<1> QED
  BY <1>2, <1>3, <1>4, <1>5, <1>6, <1>7
     DEF Effect, Quiet, Begins, Rebases, LoadCommitments, Ends, Calls, Attribute, MarkAttributed,
         OpGoto, Mine, ChainReorg, Reorg, scanning

\* newCursor is where the scan began, or one past a block it fetched.
LEMMA ScanNext ==
    ASSUME TypeOK, NEW i \in Instances, Scan(i)
    PROVE  /\ next'[i] \in Nat /\ mem[i] \in Nat /\ next'[i] <= ConfirmedHead + 1
           /\ \A p \in Payments :
                block[p] \in mem[i] .. ConfirmedHead => LogsOf(p) \subseteq batch'[i]
<1> DEFINE found == {p \in Payments : block[p] \in mem[i] .. ConfirmedHead}
           starts == {mem[i]} \cup {block[p] + 1 : p \in found}
<1>1. /\ batch' = [batch EXCEPT ![i] = UNION {LogsOf(p) : p \in found}]
      /\ next' = [next EXCEPT ![i] = Max(starts)]
  BY DEF Scan
<1>2. /\ mem[i] \in Nat /\ ConfirmedHead + 1 \in Nat /\ mem[i] <= ConfirmedHead
      /\ block \in [Payments -> Nat] /\ ConfirmedHead \in Int
  BY DEF Scan, TypeOK, ConfirmedHead
<1>3. starts \subseteq Nat /\ starts # {} /\ \A x \in starts : x <= ConfirmedHead + 1
  BY <1>2
<1>4. Max(starts) \in starts
  <2> HIDE DEF starts
  <2> QED
    BY <1>2, <1>3, MaxIsMember
<1>5. next'[i] = Max(starts) /\ batch'[i] = UNION {LogsOf(p) : p \in found}
  <2> HIDE DEF starts, found
  <2> QED
    BY <1>1 DEF TypeOK
<1>6. next'[i] \in Nat /\ next'[i] <= ConfirmedHead + 1
  <2> HIDE DEF starts
  <2> QED
    BY <1>3, <1>4, <1>5
<1> QED
  BY <1>2, <1>5, <1>6

LEMMA PositionsInit == Init => Positions /\ MarkIsCredited
<1> SUFFICES ASSUME Init PROVE Positions /\ MarkIsCredited
  OBVIOUS
<1>1. \A n \in Nat : Passed(n)
  BY DEF Init, Passed, Due
<1>2. Reached(cursor) /\ cursor \in Nat /\ StartBlock \in baselines
  BY DEF Init, Reached
<1> QED
  BY <1>1, <1>2 DEF Init, Positions, MarkIsCredited

LEMMA PositionsStep ==
    TypeOK /\ TypeOK' /\ KeysAgree /\ MarkIsCredited /\ Positions /\ [Next]_vars => Positions'
<1> SUFFICES ASSUME TypeOK, TypeOK', KeysAgree, MarkIsCredited, Positions, Effect PROVE Positions'
  BY Effects
<1> USE DEF chainAndRows, positions, outcome, calls
<1> DEFINE Good(n) == PassedNext(n) /\ ReachedNext(n)
           Scans(i) == /\ ReachedNext(next'[i])
                       /\ \A p \in Payments : DueNext(p, next'[i]) =>
                             \A l \in LogsOf(p) : HeldNext(i, l)
<1>0. ASSUME Good(cursor'),
             \A i \in Instances : pc'[i] # "down" => Good(mem'[i]),
             \A i \in Instances : pc'[i] \in {"transfers", "events"} => Scans(i)
      PROVE  Positions'
  <2>1. StartBlock \in baselines'
    BY BaselinesStay DEF Positions
  <2> QED
    BY <1>0, <2>1 DEF Positions, Passed, PassedNext, Due, DueNext, Reached, ReachedNext, Held, HeldNext
<1>1. Good(cursor) /\ \A i \in Instances : pc[i] # "down" => Good(mem[i])
  BY PassedStays DEF Positions, TypeOK
<1>2. ASSUME NEW b \in baselines' PROVE Good(b)
  <2>1. b \in Nat /\ \A p \in Payments : block'[p] \in Nat
    BY DEF TypeOK
  <2> QED
    BY <2>1 DEF PassedNext, DueNext, ReachedNext
<1>3. ASSUME NEW i \in Instances, pc[i] \in {"transfers", "events"}, next'[i] = next[i],
             ~Scan(i), ~Crash(i)
      PROVE  Scans(i)
  BY <1>3, HeldStays, ScanStays
<1> HIDE DEF Good, Scans
<1>4. ASSUME UNCHANGED <<cursor, pc, mem, next>>, \A i \in Instances : ~Scan(i) /\ ~Crash(i)
      PROVE  Positions'
  BY <1>0, <1>1, <1>3, <1>4
<1>5. ASSUME NEW i \in Instances, Begins(i) PROVE Positions'
  <2>1. pc[i] = "down" /\ \A j \in Instances : ~Scan(j) /\ ~Crash(j)
    <3>1. pc[i] = "down" /\ pc' = [pc EXCEPT ![i] = "idle"]
      BY <1>5 DEF Begins
    <3>2. ASSUME NEW j \in Instances, Scan(j) PROVE FALSE
      <4>1. pc[j] = "idle" /\ pc'[j] = "transfers"
        BY <3>2 DEF Scan, TypeOK
      <4> QED
        BY <3>1, <4>1 DEF TypeOK
    <3>3. ASSUME NEW j \in Instances, Crash(j) PROVE FALSE
      <4>1. pc[j] # "down" /\ pc'[j] = "down"
        BY <3>3 DEF Crash, TypeOK
      <4> QED
        BY <3>1, <4>1 DEF TypeOK
    <3> QED
      BY <3>1, <3>2, <3>3
  <2>2. cursor' = cursor /\ next' = next /\ pc' = [pc EXCEPT ![i] = "idle"]
    BY <1>5 DEF Begins
  <2>3. ASSUME NEW j \in Instances, pc'[j] # "down" PROVE Good(mem'[j])
    <3>1. CASE j = i
      <4>1. mem'[i] = cursor \/ mem'[i] = StartBlock
        BY <1>5 DEF Begins, TypeOK
      <4>2. StartBlock \in baselines'
        BY BaselinesStay DEF Positions
      <4> QED
        BY <1>1, <1>2, <3>1, <4>1, <4>2
    <3>2. CASE j # i
      BY <1>1, <1>5, <2>3, <3>2 DEF Begins, TypeOK
    <3> QED
      BY <3>1, <3>2
  <2>4. ASSUME NEW j \in Instances, pc'[j] \in {"transfers", "events"} PROVE Scans(j)
    BY <1>3, <2>1, <2>2, <2>4 DEF TypeOK
  <2> QED
    BY <1>0, <1>1, <2>2, <2>3, <2>4
<1>6. ASSUME NEW i \in Instances, Rebases(i) PROVE Positions'
  <2>1. /\ head \in baselines' /\ next' = next /\ pc' = pc /\ mem' = [mem EXCEPT ![i] = head]
        /\ cursor' = cursor \/ cursor' = head
    BY <1>6 DEF Rebases
  <2>2. Good(cursor') /\ \A j \in Instances : pc'[j] # "down" => Good(mem'[j])
    BY <1>1, <1>2, <2>1 DEF TypeOK
  <2>3. ASSUME NEW j \in Instances, pc'[j] \in {"transfers", "events"} PROVE Scans(j)
    <3>1. ~Scan(j) /\ ~Crash(j)
      BY <2>1, <2>3 DEF Scan, Crash, TypeOK
    <3> QED
      BY <1>3, <2>1, <2>3, <3>1
  <2> QED
    BY <1>0, <2>2, <2>3
<1>7. ASSUME NEW i \in Instances, Scan(i) PROVE Positions'
  <2>1. /\ UNCHANGED <<head, block, cursor, mem, open, events, credits, baselines, failed, orphaned>>
        /\ pc[i] = "idle" /\ pc' = [pc EXCEPT ![i] = "transfers"]
        /\ \A j \in Instances : j # i => next'[j] = next[j]
    BY <1>7 DEF Scan, chain, history, TypeOK
  <2>2. Good(cursor') /\ \A j \in Instances : pc'[j] # "down" => Good(mem'[j])
    BY <1>1, <2>1 DEF TypeOK
  <2>3. ASSUME NEW j \in Instances, j # i, pc'[j] \in {"transfers", "events"} PROVE Scans(j)
    <3>1. pc[j] = pc'[j] /\ ~Scan(j) /\ ~Crash(j)
      BY <2>1, <2>3 DEF Scan, Crash, TypeOK
    <3> QED
      BY <1>3, <2>1, <2>3, <3>1
  <2>4. Scans(i)
    <3>1. /\ next'[i] \in Nat /\ mem[i] \in Nat /\ next'[i] <= ConfirmedHead + 1
          /\ \A p \in Payments :
               block[p] \in mem[i] .. ConfirmedHead => LogsOf(p) \subseteq batch'[i]
      BY <1>7, ScanNext
    <3>2. ConfirmedHead' = ConfirmedHead /\ ConfirmedHead \in Int
      BY <2>1 DEF ConfirmedHead, TypeOK
    <3>3. ReachedNext(next'[i])
      BY <3>1, <3>2 DEF ReachedNext
    <3>4. ASSUME NEW p \in Payments, DueNext(p, next'[i]), NEW l \in LogsOf(p) PROVE HeldNext(i, l)
      <4>0. block[p] \in Nat /\ block' = block /\ baselines' = baselines
        BY <2>1 DEF TypeOK
      <4>1. CASE block[p] < mem[i]
        <5>1. DueNext(p, mem[i])
          BY <3>4, <4>0, <4>1 DEF DueNext
        <5>2. PassedNext(mem[i])
          BY <1>1, <2>1 DEF Good
        <5> QED
          BY <5>1, <5>2 DEF PassedNext, HeldNext
      <4>2. CASE block[p] >= mem[i]
        <5>1. block[p] \in mem[i] .. ConfirmedHead
          BY <3>1, <3>2, <3>4, <4>0, <4>2 DEF DueNext
        <5> QED
          BY <3>1, <5>1 DEF HeldNext
      <4> QED
        BY <3>1, <4>0, <4>1, <4>2
    <3> QED
      BY <3>3, <3>4 DEF Scans
  <2> QED
    BY <1>0, <2>2, <2>3, <2>4
<1>8. ASSUME NEW i \in Instances, LoadCommitments(i) PROVE Positions'
  <2>1. /\ UNCHANGED <<cursor, mem, next>> /\ pc[i] = "transfers" /\ pc' = [pc EXCEPT ![i] = "events"]
    BY <1>8 DEF LoadCommitments, scanning
  <2>2. Good(cursor') /\ \A j \in Instances : pc'[j] # "down" => Good(mem'[j])
    BY <1>1, <2>1 DEF TypeOK
  <2>3. ASSUME NEW j \in Instances, pc'[j] \in {"transfers", "events"} PROVE Scans(j)
    <3>1. pc[j] \in {"transfers", "events"} /\ ~Scan(j) /\ ~Crash(j)
      BY <2>1, <2>3 DEF Scan, Crash, TypeOK
    <3> QED
      BY <1>3, <2>1, <3>1
  <2> QED
    BY <1>0, <2>2, <2>3
<1>9. ASSUME NEW i \in Instances, Ends(i) PROVE Positions'
  <2>1. /\ next' = next /\ pc' = [pc EXCEPT ![i] = "idle"] /\ mem' = [mem EXCEPT ![i] = next[i]]
        /\ cursor' = cursor \/ cursor' = next[i]
        /\ pc[i] \in {"transfers", "events"} /\ batch[i] = {} /\ open[i] = {}
    BY <1>9 DEF Ends
  <2>2. Good(next[i])
    <3>1. next[i] \in Nat /\ Reached(next[i]) /\ Passed(next[i])
      BY <2>1 DEF Positions, Passed, Held, TypeOK
    <3> QED
      BY <3>1, PassedStays DEF Good
  <2>3. Good(cursor') /\ \A j \in Instances : pc'[j] # "down" => Good(mem'[j])
    BY <1>1, <2>1, <2>2 DEF TypeOK
  <2>4. ASSUME NEW j \in Instances, pc'[j] \in {"transfers", "events"} PROVE Scans(j)
    <3>1. pc[j] = pc'[j] /\ ~Scan(j) /\ ~Crash(j)
      BY <2>1, <2>4 DEF Scan, Crash, TypeOK
    <3> QED
      BY <1>3, <2>1, <2>4, <3>1
  <2> QED
    BY <1>0, <2>3, <2>4
<1>10. ASSUME NEW i \in Instances, Crash(i) PROVE Positions'
  <2>1. UNCHANGED <<cursor, mem, next>> /\ pc' = [pc EXCEPT ![i] = "down"]
    BY <1>10 DEF Crash
  <2>2. Good(cursor') /\ \A j \in Instances : pc'[j] # "down" => Good(mem'[j])
    BY <1>1, <2>1 DEF TypeOK
  <2>3. ASSUME NEW j \in Instances, pc'[j] \in {"transfers", "events"} PROVE Scans(j)
    <3>1. pc[j] = pc'[j] /\ ~Scan(j) /\ ~Crash(j)
      BY <2>1, <2>3 DEF Scan, Crash, TypeOK
    <3> QED
      BY <1>3, <2>1, <2>3, <3>1
  <2> QED
    BY <1>0, <2>2, <2>3
<1>11. CASE UNCHANGED <<cursor, pc, mem, next>>
  <2>1. \A i \in Instances : ~Scan(i) /\ ~Crash(i)
    BY <1>11 DEF Scan, Crash, TypeOK
  <2> QED
    BY <1>4, <1>11, <2>1
<1>12. \/ UNCHANGED <<cursor, pc, mem, next>>
       \/ \E i \in Instances :
            Begins(i) \/ Rebases(i) \/ Scan(i) \/ LoadCommitments(i) \/ Ends(i) \/ Crash(i)
  <2>1. ASSUME NEW i \in Instances,
               \/ (\E l \in Logs : Takes(i, l)) \/ (\E F \in SUBSET Logs : GivesUp(i, F))
               \/ \E c \in Credits : Credit(i, c) \/ CreditFails(i, c)
        PROVE  UNCHANGED <<cursor, pc, mem, next>>
    BY <2>1 DEF Takes, GivesUp, Credit, CreditFails, scanning
  <2>2. ASSUME NEW o \in Operators, Calls(o) \/ Attribute(o) \/ MarkAttributed(o)
        PROVE  UNCHANGED <<cursor, pc, mem, next>>
    BY <2>2 DEF Calls, Attribute, MarkAttributed, OpGoto, scanning
  <2>3. Quiet => UNCHANGED <<cursor, pc, mem, next>>
    BY DEF Quiet
  <2>4. (\E S \in SUBSET {p \in Payments : block[p] = 0} : Mine(S)) \/ ChainReorg
          => UNCHANGED <<cursor, pc, mem, next>>
    BY DEF Mine, ChainReorg, Reorg, scanning
  <2> QED
    BY <2>1, <2>2, <2>3, <2>4 DEF Effect
<1> QED
  BY <1>5, <1>6, <1>7, <1>8, <1>9, <1>10, <1>11, <1>12

\* Whatever crashes, fails over, is reorganised or is not stored, the stored
\* cursor never passes a payment above every baseline that was not handled or
\* orphaned: a restart misses nothing (scan, resumeCursor, processTransfers).
THEOREM CursorNeverSkips == Spec => []CursorSkipsNothing
<1> DEFINE IInv == TypeOK /\ KeysAgree /\ MarkIsCredited /\ Positions
<1>1. Init => IInv
  BY TypeInit, KeysInit, PositionsInit
<1>2. IInv /\ [Next]_vars => IInv'
  BY TypeStep, KeysStep, MarkStep, PositionsStep
<1>3. IInv => CursorSkipsNothing
  <2> SUFFICES ASSUME IInv, NEW p \in Payments, block[p] > 0, block[p] < cursor,
                      \A b \in baselines : b <= block[p], NEW l \in LogsOf(p)
               PROVE  Handled(l) \/ l \in orphaned
    BY DEF CursorSkipsNothing
  <2>1. 0 < block[p]
    BY DEF TypeOK
  <2> QED
    BY <2>1 DEF Positions, Passed, Due, Done
<1> QED
  BY <1>1, <1>2, <1>3, PTL DEF Spec

-----------------------------------------------------------------------------
(* Credits go to owners.                                                   *)

\* Whatever was read from the links, and whenever, was a link once: in the
\* table, in addressUser, in the commitments of a scan, by a worker about to
\* credit and by an operator.
ReadsWereLinks ==
    /\ \A u \in Users : link[u] # NoAddress => <<u, link[u]>> \in linked
    /\ \A i \in Instances, u \in Users :
          resolved[i][u] # NoAddress => <<u, resolved[i][u]>> \in linked
    /\ \A i \in Instances, w \in Wallets : cache[i][w] # Nobody => <<cache[i][w], w>> \in linked
    /\ \A i \in Instances : \A c \in open[i] : Theirs(c.user, c.log)
    /\ \A o \in Operators :
          opc[o] = "credit" => <<target[o][2], From(target[o][1])>> \in linked
    /\ CreditsGoToOwners

\* What a step may do to them.
OwnEffect ==
    /\ linked \subseteq linked' /\ target' = target
    /\ \A u \in Users : link'[u] = link[u] \/ <<u, link'[u]>> \in linked'
    /\ \A i \in Instances, u \in Users : resolved'[i][u] = resolved[i][u] \/ resolved'[i][u] = link[u]
    /\ \A i \in Instances, w \in Wallets :
          \/ cache'[i][w] = cache[i][w] \/ cache'[i][w] = Nobody
          \/ <<cache'[i][w], w>> \in linked
    /\ \A i \in Instances : \A c \in open'[i] : c \in open[i] \/ Theirs(c.user, c.log)
    /\ \A o \in Operators :
          opc'[o] = "credit" => opc[o] = "credit" \/ <<target[o][2], From(target[o][1])>> \in linked'
    /\ \A c \in credits' : c \in credits \/ Theirs(c.user, c.log)

LEMMA ReadsStay == ASSUME ReadsWereLinks, OwnEffect PROVE ReadsWereLinks'
<1>1. \A u, l : Theirs(u, l) => Theirs(u, l)'
  BY DEF OwnEffect, Theirs, Payer, From
<1>2. \A u \in Users : link'[u] # NoAddress => <<u, link'[u]>> \in linked'
  BY DEF OwnEffect, ReadsWereLinks
<1>3. \A i \in Instances, u \in Users : resolved'[i][u] # NoAddress => <<u, resolved'[i][u]>> \in linked'
  BY DEF OwnEffect, ReadsWereLinks
<1>4. \A i \in Instances, w \in Wallets : cache'[i][w] # Nobody => <<cache'[i][w], w>> \in linked'
  BY DEF OwnEffect, ReadsWereLinks
<1>5. \A i \in Instances : \A c \in open'[i] : Theirs(c.user, c.log)'
  BY <1>1 DEF OwnEffect, ReadsWereLinks
<1>6. \A o \in Operators : opc'[o] = "credit" => <<target'[o][2], From(target'[o][1])>> \in linked'
  BY DEF OwnEffect, ReadsWereLinks
<1>7. CreditsGoToOwners'
  BY <1>1 DEF OwnEffect, ReadsWereLinks, CreditsGoToOwners
<1> QED
  BY <1>2, <1>3, <1>4, <1>5, <1>6, <1>7 DEF ReadsWereLinks, From

\* A log is credited to somebody it belongs, or belonged, to, and so is what
\* the lookup leaves in addressUser.
LEMMA RoutedToTheirs ==
    ASSUME TypeOK, ReadsWereLinks, NEW i \in Instances, NEW l \in Logs, NEW u \in RoutedTo(i, l)
    PROVE  Theirs(u, l) /\ \A w \in LookedUp(l) : <<u, w>> \in linked
<1>1. ASSUME NEW w \in Wallets, u \in SenderUser(i, w) PROVE <<u, w>> \in linked
  <2>1. w # NoAddress
    BY DEF Addresses
  <2>2. CASE cache[i][w] # Nobody
    BY <1>1, <2>2 DEF SenderUser, ReadsWereLinks
  <2>3. CASE cache[i][w] = Nobody
    <3>1. u \in Users /\ link[u] = w
      BY <1>1, <2>3 DEF SenderUser, OwnerIn
    <3> QED
      BY <2>1, <3>1 DEF ReadsWereLinks
  <2> QED
    BY <2>2, <2>3
<1>2. ASSUME NEW w \in Wallets, u \in OwnerIn(resolved[i], w) PROVE <<u, w>> \in linked
  <2>1. w # NoAddress /\ u \in Users /\ resolved[i][u] = w
    BY <1>2 DEF Addresses, OwnerIn
  <2> QED
    BY <2>1 DEF ReadsWereLinks
<1> DEFINE p == Pay[l.pay]
<1>3. p.sender \in Wallets /\ p.holder \in Wallets /\ l.kind \in {"transfer", "event"}
  BY LogFields
<1> HIDE DEF p
<1>4. CASE l.kind = "transfer" /\ p.route = "clone"
  <2>1. u = p.user
    BY <1>4 DEF RoutedTo, p
  <2>2. LookedUp(l) = {}
    BY <1>4 DEF LookedUp, p
  <2> QED
    BY <1>4, <2>1, <2>2 DEF Theirs, p
<1>5. CASE l.kind = "transfer" /\ p.route # "clone"
  <2>1. u \in SenderUser(i, p.sender)
    BY <1>5 DEF RoutedTo, p
  <2>2. LookedUp(l) = {p.sender} /\ Payer(l) = p.sender
    BY <1>5 DEF LookedUp, Payer, p
  <2>3. <<u, p.sender>> \in linked
    BY <1>1, <1>3, <2>1
  <2> QED
    BY <1>5, <2>2, <2>3 DEF Theirs, p
<1>6. CASE l.kind = "event" /\ p.route = "private"
  <2>1. u \in OwnerIn(resolved[i], p.holder)
    BY <1>6 DEF RoutedTo, p
  <2>2. LookedUp(l) = {} /\ Payer(l) = p.holder
    BY <1>6 DEF LookedUp, Payer, p
  <2>3. <<u, p.holder>> \in linked
    BY <1>2, <1>3, <2>1
  <2> QED
    BY <1>6, <2>2, <2>3 DEF Theirs, p
<1>7. CASE l.kind = "event" /\ p.route # "private"
  <2>1. u \in SenderUser(i, p.holder)
    BY <1>7 DEF RoutedTo, p
  <2>2. LookedUp(l) \subseteq {p.holder} /\ Payer(l) = p.holder
    BY <1>7 DEF LookedUp, Payer, p
  <2>3. <<u, p.holder>> \in linked
    BY <1>1, <1>3, <2>1
  <2> QED
    BY <1>7, <2>2, <2>3 DEF Theirs, p
<1> QED
  BY <1>3, <1>4, <1>5, <1>6, <1>7

LEMMA OwnTake ==
    ASSUME TypeOK, ReadsWereLinks, NEW i \in Instances, NEW l \in batch[i], NEW written,
           Take(i, l, written)
    PROVE  OwnEffect
<1>1. l \in Logs
  BY DEF TypeOK
<1>2. UNCHANGED <<resolved, credits, link, linked, opc, target>>
  BY DEF Take, operating
<1>3. CASE UNCHANGED <<open, cache>>
  BY <1>2, <1>3 DEF OwnEffect
<1>4. ASSUME NEW u \in RoutedTo(i, l),
             open' = [open EXCEPT ![i] = @ \cup {[key |-> Key(l), user |-> u, log |-> l]}],
             cache' = [cache EXCEPT ![i] =
                         [w \in Wallets |-> IF w \in LookedUp(l) THEN u ELSE @[w]]]
      PROVE  OwnEffect
  <2>1. Theirs(u, l) /\ \A w \in LookedUp(l) : <<u, w>> \in linked
    BY <1>1, RoutedToTheirs
  <2>2. \A j \in Instances : \A c \in open'[j] : c \in open[j] \/ Theirs(c.user, c.log)
    BY <1>4, <2>1 DEF TypeOK
  <2>3. \A j \in Instances, w \in Wallets :
           cache'[j][w] = cache[j][w] \/ <<cache'[j][w], w>> \in linked
    BY <1>4, <2>1 DEF TypeOK
  <2> QED
    BY <1>2, <2>2, <2>3 DEF OwnEffect
<1> QED
  BY <1>3, <1>4 DEF Take

LEMMA OwnInstance ==
    ASSUME TypeOK, ReadsWereLinks, NEW i \in Instances, InstanceStep(i) PROVE OwnEffect
<1> USE DEF operating, routing
<1>1. CASE Start(i)
  <2>1. UNCHANGED <<resolved, credits, link, linked, opc, target, open>>
        /\ cache' = [cache EXCEPT ![i] = NoCache]
    BY <1>1 DEF Start
  <2>2. \A j \in Instances, w \in Wallets : cache'[j][w] = cache[j][w] \/ cache'[j][w] = Nobody
    BY <2>1 DEF NoCache, TypeOK
  <2> QED
    BY <2>1, <2>2 DEF OwnEffect
<1>2. CASE Elect(i) \/ Baseline(i) \/ Scan(i) \/ Persist(i)
  <2>1. UNCHANGED <<resolved, cache, credits, link, linked, opc, target, open>>
    BY <1>2 DEF Elect, Baseline, TakeBaseline, Scan, Persist, Advance, scanning
  <2> QED
    BY <2>1 DEF OwnEffect
<1>3. ASSUME NEW l \in batch[i], Route(i, l) PROVE OwnEffect
  BY <1>3, OwnTake DEF Route
<1>4. ASSUME NEW c \in open[i], Credit(i, c) PROVE OwnEffect
  <2>1. UNCHANGED <<resolved, cache, link, linked, opc, target>>
        /\ open' = [open EXCEPT ![i] = @ \ {c}] /\ credits' \subseteq credits \cup {c}
    BY <1>4, DepositAdds DEF Credit
  <2>2. \A j \in Instances : open'[j] \subseteq open[j]
    BY <2>1 DEF TypeOK
  <2>3. Theirs(c.user, c.log)
    BY DEF ReadsWereLinks
  <2> QED
    BY <2>1, <2>2, <2>3 DEF OwnEffect
<1>5. CASE LoadCommitments(i)
  <2>1. UNCHANGED <<cache, credits, link, linked, opc, target, open>>
        /\ resolved' = [resolved EXCEPT ![i] = link]
    BY <1>5 DEF LoadCommitments, scanning
  <2>2. \A j \in Instances, u \in Users : resolved'[j][u] = resolved[j][u] \/ resolved'[j][u] = link[u]
    BY <2>1 DEF TypeOK
  <2> QED
    BY <2>1, <2>2 DEF OwnEffect
<1> QED
  BY <1>1, <1>2, <1>3, <1>4, <1>5 DEF InstanceStep

\* An address gets a user, and the history says so.
LEMMA OwnSet ==
    ASSUME TypeOK, NEW u \in Users, NEW a, SetAddress(u, a)
    PROVE  /\ linked \subseteq linked' /\ <<u, a>> \in linked'
           /\ \A v \in Users : link'[v] = link[v] \/ <<v, link'[v]>> \in linked'
  BY DEF SetAddress, TypeOK

LEMMA OwnOperator ==
    ASSUME TypeOK, KeysAgree, ReadsWereLinks, NEW o \in Operators,
           OperatorStep(o) \/ OperatorFails(o)
    PROVE  OwnEffect
<1> DEFINE l == target[o][1]
           u == target[o][2]
<1>0. l \in Logs /\ u \in Users /\ From(l) # NoAddress
  BY TargetFields, KeyTypes
<1> HIDE DEF l, u
<1>1. UNCHANGED <<resolved, cache, target, open>> /\ \E st : opc' = [opc EXCEPT ![o] = st]
  BY DEF OperatorStep, OperatorFails, Find, ClaimAddress, Attribute, MarkAttributed, OpGoto,
         routing, scanning
<1>2. \A q \in Operators \ {o} : opc'[q] = opc[q]
  BY <1>1 DEF TypeOK
<1>3. CASE Find(o)
  <2>1. UNCHANGED <<credits, link, linked>>
    BY <1>3 DEF Find
  <2>2. ASSUME opc'[o] = "credit" PROVE <<u, From(l)>> \in linked
    <3>1. OwnerIn(link, From(l)) \subseteq {u} /\ OwnerIn(link, From(l)) # {}
      BY <1>3, <2>2 DEF Find, OpGoto, TypeOK, l, u
    <3>2. link[u] = From(l)
      BY <3>1 DEF OwnerIn
    <3> QED
      BY <1>0, <3>2 DEF ReadsWereLinks
  <2> QED
    BY <1>1, <1>2, <2>1, <2>2 DEF OwnEffect, l, u
<1>4. CASE ClaimAddress(o)
  <2>1. UNCHANGED credits
    BY <1>4 DEF ClaimAddress
  <2>2. CASE SetAddress(u, From(l))
    BY <1>0, <1>1, <1>2, <2>1, <2>2, OwnSet DEF OwnEffect, l, u
  <2>3. CASE OpGoto(o, "done") /\ UNCHANGED <<link, linked>>
    <3>1. opc'[o] = "done"
      BY <2>3 DEF OpGoto, TypeOK
    <3> QED
      BY <1>1, <1>2, <2>1, <2>3, <3>1 DEF OwnEffect
  <2> QED
    BY <1>4, <2>2, <2>3 DEF ClaimAddress, l, u
<1>5. CASE Attribute(o)
  <2> DEFINE c == [key |-> VaultKey(l), user |-> u, log |-> l]
  <2>1. /\ UNCHANGED <<link, linked>> /\ opc[o] = "credit" /\ opc'[o] = "mark"
        /\ Deposit(c)
    BY <1>5 DEF Attribute, OpGoto, TypeOK, l, u
  <2>2. credits' \subseteq credits \cup {c}
    BY <2>1, DepositAdds
  <2>3. ~ToClone(l) /\ <<u, From(l)>> \in linked
    BY <2>1 DEF KeysAgree, ReadsWereLinks, l, u
  <2>4. Theirs(u, l)
    BY <2>3 DEF Theirs, ToClone
  <2>5. \A d \in credits' : d \in credits \/ Theirs(d.user, d.log)
    BY <2>2, <2>4
  <2> QED
    BY <1>1, <1>2, <2>1, <2>5 DEF OwnEffect
<1>6. CASE MarkAttributed(o) \/ OperatorFails(o)
  <2>1. UNCHANGED <<credits, link, linked>> /\ opc'[o] = "done"
    BY <1>6 DEF MarkAttributed, OperatorFails, OpGoto, TypeOK
  <2> QED
    BY <1>1, <1>2, <2>1 DEF OwnEffect
<1> QED
  BY <1>3, <1>4, <1>5, <1>6 DEF OperatorStep

LEMMA OwnStep == ASSUME TypeOK, KeysAgree, ReadsWereLinks, [Next]_vars PROVE OwnEffect
<1> USE DEF operating, routing
<1>1. ASSUME NEW u \in Users, NEW w \in Wallets, Relink(u, w) PROVE OwnEffect
  <2>1. UNCHANGED <<resolved, cache, credits, opc, target, open>> /\ SetAddress(u, w)
    BY <1>1 DEF Relink, scanning
  <2> QED
    BY <2>1, OwnSet DEF OwnEffect
<1>2. CASE (\E S \in SUBSET {p \in Payments : block[p] = 0} : Mine(S)) \/ ChainReorg \/ SessionLost
           \/ UNCHANGED vars
  <2>1. UNCHANGED <<resolved, cache, credits, link, linked, opc, target, open>>
    BY <1>2 DEF Mine, ChainReorg, Reorg, SessionLost, scanning, vars
  <2> QED
    BY <2>1 DEF OwnEffect
<1>3. ASSUME NEW i \in Instances, ResumeFails(i) PROVE OwnEffect
  <2>1. UNCHANGED <<resolved, credits, link, linked, opc, target, open>>
        /\ cache' = [cache EXCEPT ![i] = NoCache]
    BY <1>3 DEF ResumeFails
  <2>2. \A j \in Instances, w \in Wallets : cache'[j][w] = cache[j][w] \/ cache'[j][w] = Nobody
    BY <2>1 DEF NoCache, TypeOK
  <2> QED
    BY <2>1, <2>2 DEF OwnEffect
<1>4. ASSUME NEW i \in Instances,
             PersistFails(i) \/ CommitmentsLost(i) \/ \E l \in batch[i] : RouteFails(i, l)
      PROVE  OwnEffect
  <2>1. UNCHANGED <<resolved, cache, credits, link, linked, opc, target, open>>
    BY <1>4 DEF PersistFails, Advance, TakeBaseline, CommitmentsLost, RouteFails
  <2> QED
    BY <2>1 DEF OwnEffect
<1>5. ASSUME NEW i \in Instances, Crash(i) \/ \E c \in open[i] : CreditFails(i, c)
      PROVE  OwnEffect
  <2>1. UNCHANGED <<resolved, cache, credits, link, linked, opc, target>>
        /\ \E S \in SUBSET open[i] : open' = [open EXCEPT ![i] = S]
    BY <1>5 DEF Crash, CreditFails
  <2>2. \A j \in Instances : open'[j] \subseteq open[j]
    BY <2>1 DEF TypeOK
  <2> QED
    BY <2>1, <2>2 DEF OwnEffect
<1>6. ASSUME NEW i \in Instances, NEW l \in batch[i], RowLost(i, l) PROVE OwnEffect
  BY <1>6, OwnTake DEF RowLost
<1>7. CASE Fault
  BY <1>2, <1>3, <1>4, <1>5, <1>6, <1>7, OwnOperator DEF Fault
<1> QED
  BY <1>1, <1>2, <1>7, OwnInstance, OwnOperator DEF Next

\* A deposit is credited to the user whose clone it came to or to whom the
\* paying address is or was linked, for any number of users, relinks, stale
\* caches, operators and failures (senderUserID, AttributeDeposit).
THEOREM NoStrangerIsCredited == Spec => []CreditsGoToOwners
<1>1. Init => KeysAgree /\ ReadsWereLinks
  <2>1. Init => ReadsWereLinks
    BY DEF Init, ReadsWereLinks, CreditsGoToOwners, NoLinks, NoCache
  <2> QED
    BY <2>1, KeysInit
<1>2. TypeOK /\ (KeysAgree /\ ReadsWereLinks) /\ [Next]_vars => (KeysAgree /\ ReadsWereLinks)'
  BY KeysStep, OwnStep, ReadsStay
<1>3. ReadsWereLinks => CreditsGoToOwners
  BY DEF ReadsWereLinks
<1> QED
  BY <1>1, <1>2, <1>3, TypeCorrect, PTL DEF Spec
=============================================================================
