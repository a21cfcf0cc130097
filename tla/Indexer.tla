------------------------------ MODULE Indexer ------------------------------
(***************************************************************************)
(* The deposit indexer (services/vault.go, RunIndexer and below): server   *)
(* instances elect a leader with a Postgres advisory lock, scan confirmed  *)
(* blocks, credit each deposit through MoneyService.Deposit, flag what     *)
(* they cannot attribute and persist a cursor; operators attribute flagged *)
(* deposits; users change the wallet they have linked.                     *)
(*                                                                         *)
(* A payment is one on-chain transaction's transfer of USDC.  Its ERC-20   *)
(* Transfer is the log "transfer"; a payment through the shared vault's    *)
(* depositFor or deposit also emits the log "event".  The chain is         *)
(* external: blocks are mined and, within the confirmation window,         *)
(* reorganised.  Deposit is one step here, idempotent by key; module       *)
(* Ledger models what happens inside it.                                   *)
(***************************************************************************)
EXTENDS Integers, FiniteSets, FiniteSetsExt

CONSTANTS
    Instances,         \* server processes that run the indexer
    Operators,         \* calls of the operator's attribute-deposit endpoint
    Nobody,            \* no instance, no user
    Payments,          \* on-chain payments
    Pay,               \* payment |-> its content, a member of PayType
    Users,
    Wallets,           \* wallet addresses users may link
    Commitments,       \* keccak256(address, salt) values, as event addresses
    NoAddress,
    Txs,               \* transaction hashes
    PrivacyMode,       \* GLOBMINT_PRIVACY_MODE
    MinConfirmations,
    StartBlock,        \* first block to scan, 0 = from the head
    FaultKinds,        \* the failures that may happen
    MaxHead,           \* bound on the chain's height
    MaxLinks,          \* bound on the links users change
    MaxFaults          \* bound on failures

Routes == {"clone", "vault", "private", "legacy", "other"}
Addresses == Wallets \cup Commitments

\* clone: to user's clone.  vault: a plain transfer to the shared vault.
\* private, legacy: depositFor and deposit on the shared vault, whose event
\* names a commitment of holder or holder itself.  other: any other transfer.
PayType == [route : Routes, tx : Txs, sender : Wallets, holder : Wallets,
            commitment : Commitments, user : Users]

Logs == [pay : Payments, kind : {"transfer", "event"}]

\* The keys of MoneyService.Deposit; only an event's key has its log index.
Keys == [path : {"clone", "vault", "event"}, tx : Txs, log : Logs \cup {Nobody}]

Credits == [key : Keys, user : Users, log : Logs]

ASSUME IndexerAssumption ==
    /\ Pay \in [Payments -> PayType]
    /\ Wallets \cap Commitments = {}
    /\ NoAddress \notin Addresses
    /\ Nobody \notin Instances \cup Users \cup Logs
    /\ PrivacyMode \in BOOLEAN
    /\ {MinConfirmations, StartBlock, MaxHead, MaxLinks, MaxFaults} \subseteq Nat

VARIABLES
    head,       \* height of the chain
    block,      \* payment |-> the block it is in, 0 = not mined
    cursor,     \* indexer_state.last_block
    lock,       \* holder of the advisory lock
    leader,     \* instance |-> whether it takes itself for the leader
    pc,         \* instance |-> where its indexer is
    mem,        \* instance |-> lastBlock in memory
    next,       \* instance |-> newCursor of the scan under way
    batch,      \* instance |-> fetched logs no worker has taken yet
    open,       \* instance |-> credits its workers are about to make
    cache,      \* instance |-> addressUser: wallet |-> user
    resolved,   \* instance |-> commitmentUserMap of the scan under way
    events,     \* log |-> event_type of its indexer_events row
    credits,    \* deposits recorded in the ledger
    link,       \* user |-> deposit address
    opc,        \* operator call |-> its next step
    target,     \* operator call |-> the log and the user it names
    links,      \* links changed so far
    faults,     \* failures so far
    baselines,  \* history: blocks that were taken as a baseline
    failed,     \* history: logs whose handling returned an error
    linked,     \* history: <<user, address>> that were ever linked
    orphaned    \* history: logs without a user that had a "deposited" row already

vars == <<head, block, cursor, lock, leader, pc, mem, next, batch, open, cache, resolved,
          events, credits, link, opc, target, links, faults, baselines, failed,
          linked, orphaned>>
chain == <<head, block>>
election == <<lock, leader>>
scanning == <<mem, next, batch, open>>
routing == <<cache, resolved>>
operating == <<opc, target>>
history == <<baselines, failed, orphaned>>

TypeOK ==
    /\ head \in Nat
    /\ block \in [Payments -> Nat]
    /\ cursor \in Nat
    /\ lock \in Instances \cup {Nobody}
    /\ leader \in [Instances -> BOOLEAN]
    /\ pc \in [Instances -> {"down", "idle", "transfers", "events"}]
    /\ mem \in [Instances -> Nat]
    /\ next \in [Instances -> Nat]
    /\ batch \in [Instances -> SUBSET Logs]
    /\ open \in [Instances -> SUBSET Credits]
    /\ cache \in [Instances -> [Wallets -> Users \cup {Nobody}]]
    /\ resolved \in [Instances -> [Users -> Addresses \cup {NoAddress}]]
    /\ events \in [Logs -> {"none", "deposited", "unattributed"}]
    /\ credits \subseteq Credits
    /\ link \in [Users -> Addresses \cup {NoAddress}]
    /\ opc \in [Operators -> {"find", "set", "credit", "mark", "done"}]
    /\ target \in [Operators -> Logs \X Users]
    /\ links \in 0 .. MaxLinks
    /\ faults \in 0 .. MaxFaults
    /\ baselines \subseteq Nat
    /\ failed \subseteq Logs
    /\ linked \subseteq Users \X Addresses
    /\ orphaned \subseteq Logs

NoLinks == [u \in Users |-> NoAddress]
NoCache == [w \in Wallets |-> Nobody]

Init ==
    /\ head = 1
    /\ block = [p \in Payments |-> 0]
    /\ cursor = 0
    /\ lock = Nobody
    /\ leader = [i \in Instances |-> FALSE]
    /\ pc = [i \in Instances |-> "down"]
    /\ mem = [i \in Instances |-> 0]
    /\ next = [i \in Instances |-> 0]
    /\ batch = [i \in Instances |-> {}]
    /\ open = [i \in Instances |-> {}]
    /\ cache = [i \in Instances |-> NoCache]
    /\ resolved = [i \in Instances |-> NoLinks]
    /\ events = [l \in Logs |-> "none"]
    /\ credits = {}
    /\ link = NoLinks
    /\ linked = {}
    /\ opc = [o \in Operators |-> "find"]
    /\ target \in [Operators -> Logs \X Users]
    /\ links = 0
    /\ faults = 0
    /\ baselines = {StartBlock}
    /\ failed = {}
    /\ orphaned = {}

-----------------------------------------------------------------------------
(* Keys, routes and links.                                                 *)

Log(p, k) == [pay |-> p, kind |-> k]

\* The logs a mined payment emits, of those the indexer handles.
LogsOf(p) ==
    {Log(p, "transfer")}
    \cup (IF PrivacyMode /\ Pay[p].route \in {"private", "legacy"}
          THEN {Log(p, "event")} ELSE {})

\* The key AttributeDeposit uses, and the transfer path of the shared vault.
VaultKey(l) == [path |-> "vault", tx |-> Pay[l.pay].tx, log |-> Nobody]

Key(l) ==
    CASE l.kind = "event" -> [path |-> "event", tx |-> Pay[l.pay].tx, log |-> l]
      [] l.kind = "transfer" /\ Pay[l.pay].route = "clone" ->
            [path |-> "clone", tx |-> Pay[l.pay].tx, log |-> Nobody]
      [] OTHER -> VaultKey(l)

\* The from_addr of a log's row.
From(l) == IF l.kind = "event" THEN Pay[l.pay].commitment ELSE Pay[l.pay].sender

\* OwnerOf, in the current table or in a snapshot of it.
OwnerIn(table, a) == {u \in Users : table[u] = a}

\* senderUserID: the cache first, which nothing ever clears.
SenderUser(i, w) == IF cache[i][w] # Nobody THEN {cache[i][w]} ELSE OwnerIn(link, w)

\* The user a log is credited to, {} if there is none.
RoutedTo(i, l) ==
    LET p == Pay[l.pay] IN
    CASE l.kind = "transfer" /\ p.route = "clone" -> {p.user}
      [] l.kind = "transfer" /\ p.route # "clone" -> SenderUser(i, p.sender)
      [] l.kind = "event" /\ p.route = "private" -> OwnerIn(resolved[i], p.holder)
      [] OTHER -> SenderUser(i, p.holder)

\* The wallet whose owner senderUserID looked up, if it was called.
LookedUp(l) ==
    LET p == Pay[l.pay] IN
    CASE l.kind = "transfer" /\ p.route # "clone" -> {p.sender}
      [] l.kind = "event" /\ p.route = "legacy" -> {p.holder}
      [] OTHER -> {}

\* Deposit: a key that was credited returns the recorded transaction.
Deposit(c) ==
    credits' = IF \E d \in credits : d.key = c.key THEN credits ELSE credits \cup {c}

-----------------------------------------------------------------------------
(* The leader's scan.                                                      *)

\* resumeCursor: read once, when the process starts.
Start(i) ==
    /\ pc[i] = "down"
    /\ pc' = [pc EXCEPT ![i] = "idle"]
    /\ mem' = [mem EXCEPT ![i] = IF cursor > 0 THEN cursor ELSE StartBlock]
    /\ cache' = [cache EXCEPT ![i] = NoCache]
    /\ UNCHANGED <<chain, cursor, election, next, batch, open, resolved, events, credits,
                   link, linked, operating, links, faults, history>>

\* TryAcquireIndexerLeadership.
Elect(i) ==
    /\ pc[i] = "idle"
    /\ ~leader[i]
    /\ lock = Nobody
    /\ lock' = i
    /\ leader' = [leader EXCEPT ![i] = TRUE]
    /\ UNCHANGED <<chain, cursor, pc, scanning, routing, events, credits, link, linked, operating,
                   links, faults, history>>

\* Mutant: the confirmation window is ignored.
LatestHead == head

ConfirmedHead == head - MinConfirmations

\* No position yet: take the head as the baseline and skip what is below it.
TakeBaseline(i) ==
    /\ pc[i] = "idle"
    /\ leader[i]
    /\ MinConfirmations > 0 => head > MinConfirmations
    /\ mem[i] = 0
    /\ mem' = [mem EXCEPT ![i] = head]
    /\ baselines' = baselines \cup {head}
    /\ UNCHANGED <<chain, election, pc, next, batch, open, routing, events, credits, link, linked,
                   operating, links, failed, orphaned>>

Baseline(i) ==
    /\ TakeBaseline(i)
    /\ cursor' = head
    /\ UNCHANGED faults

\* Mutant: a window of one block counts as empty.
ScanTwoBlocks(i) ==
    /\ pc[i] = "idle"
    /\ leader[i]
    /\ mem[i] > 0
    /\ ConfirmedHead > mem[i]
    /\ LET found == {p \in Payments : block[p] \in mem[i] .. ConfirmedHead}
       IN  /\ batch' = [batch EXCEPT ![i] = UNION {LogsOf(p) : p \in found}]
           /\ next' = [next EXCEPT ![i] = Max({mem[i]} \cup {block[p] + 1 : p \in found})]
    /\ pc' = [pc EXCEPT ![i] = "transfers"]
    /\ UNCHANGED <<chain, cursor, election, mem, open, routing, events, credits, link, linked,
                   operating, links, faults, history>>

\* Fetch the logs of the confirmed window.  The new cursor is one past the
\* last block with a log; it does not move when there is none.
Scan(i) ==
    /\ pc[i] = "idle"
    /\ leader[i]
    /\ mem[i] > 0
    /\ ConfirmedHead >= mem[i]
    /\ LET found == {p \in Payments : block[p] \in mem[i] .. ConfirmedHead}
       IN  /\ batch' = [batch EXCEPT ![i] = UNION {LogsOf(p) : p \in found}]
           /\ next' = [next EXCEPT ![i] = Max({mem[i]} \cup {block[p] + 1 : p \in found})]
    /\ pc' = [pc EXCEPT ![i] = "transfers"]
    /\ UNCHANGED <<chain, cursor, election, mem, open, routing, events, credits, link, linked,
                   operating, links, faults, history>>

\* Transfers are all handled before the vault events.
Turn(i) == {l \in batch[i] : l.kind = IF pc[i] = "transfers" THEN "transfer" ELSE "event"}

\* A worker takes a log: skip it, flag it, or write the event row and go on
\* to credit it.  The row is inserted ON CONFLICT DO NOTHING; when the write
\* of a deposited row fails, the error is logged and the credit follows.  A
\* flag that meets a deposited row, written before a crash, changes nothing.
Take(i, l, written) ==
    /\ l \in Turn(i)
    /\ batch' = [batch EXCEPT ![i] = @ \ {l}]
    /\ LET to == RoutedTo(i, l)
           row(type) == IF events[l] = "none" /\ written
                        THEN [events EXCEPT ![l] = type] ELSE events
       IN  \/ /\ Pay[l.pay].route = "other"
              /\ UNCHANGED <<open, cache, events, orphaned>>
           \/ /\ Pay[l.pay].route # "other"
              /\ to = {}
              /\ events' = row("unattributed")
              /\ orphaned' = orphaned \cup IF events[l] = "deposited" THEN {l} ELSE {}
              /\ UNCHANGED <<open, cache>>
           \/ /\ Pay[l.pay].route # "other"
              /\ \E u \in to :
                   /\ events' = row("deposited")
                   /\ open' = [open EXCEPT ![i] =
                                 @ \cup {[key |-> Key(l), user |-> u, log |-> l]}]
                   /\ cache' = [cache EXCEPT ![i] =
                                 [w \in Wallets |-> IF w \in LookedUp(l) THEN u ELSE @[w]]]
              /\ UNCHANGED orphaned
    /\ UNCHANGED <<chain, cursor, election, pc, mem, next, resolved, credits, link, linked,
                   operating, links, baselines, failed>>

Route(i, l) == Take(i, l, TRUE) /\ UNCHANGED faults

\* The worker credits the user.
Credit(i, c) ==
    /\ c \in open[i]
    /\ Deposit(c)
    /\ open' = [open EXCEPT ![i] = @ \ {c}]
    /\ UNCHANGED <<chain, cursor, election, pc, mem, next, batch, routing, events, link, linked,
                   operating, links, faults, history>>

\* Mutant: the workers are not waited for.
TurnGivenOut(i) == Turn(i) = {}

\* The workers are done (wg.Wait).
TurnOver(i) == Turn(i) = {} /\ open[i] = {}

\* processVaultDeposits loads the commitments once.
LoadCommitments(i) ==
    /\ pc[i] = "transfers"
    /\ TurnOver(i)
    /\ batch[i] # {}
    /\ resolved' = [resolved EXCEPT ![i] = link]
    /\ pc' = [pc EXCEPT ![i] = "events"]
    /\ UNCHANGED <<chain, cursor, election, scanning, cache, events, credits, link, linked,
                   operating, links, faults, history>>

\* The scan is over: move the cursor and persist it.
Advance(i) ==
    /\ pc[i] \in {"transfers", "events"}
    /\ TurnOver(i)
    /\ batch[i] = {}
    /\ mem' = [mem EXCEPT ![i] = next[i]]
    /\ pc' = [pc EXCEPT ![i] = "idle"]
    /\ UNCHANGED <<chain, election, next, batch, open, routing, events, credits, link, linked,
                   operating, links, history>>

Persist(i) ==
    /\ Advance(i)
    /\ cursor' = IF next[i] > mem[i] THEN next[i] ELSE cursor
    /\ UNCHANGED faults

-----------------------------------------------------------------------------
(* Users and operators.                                                    *)

\* Set: one address per user, and an address has one user.
SetAddress(u, a) ==
    /\ OwnerIn(link, a) \subseteq {u}
    /\ link' = [link EXCEPT ![u] = a]
    /\ linked' = linked \cup {<<u, a>>}

\* SetDepositAddress.
Relink(u, w) ==
    /\ links < MaxLinks
    /\ links' = links + 1
    /\ link[u] # w
    /\ SetAddress(u, w)
    /\ UNCHANGED <<chain, cursor, election, pc, scanning, routing, events, credits,
                   operating, faults, history>>

OpGoto(o, step) ==
    /\ opc' = [opc EXCEPT ![o] = step]
    /\ UNCHANGED <<chain, cursor, election, pc, scanning, routing, target, links, history>>

\* Mutant: an address that belongs to somebody else is taken as claimed.
FindAnyOwner(o) ==
    LET l == target[o][1] IN
    /\ opc[o] = "find"
    /\ events[l] # "none"
    /\ OpGoto(o, IF events[l] = "deposited" THEN "done"
                 ELSE IF OwnerIn(link, From(l)) = {} THEN "set" ELSE "credit")
    /\ UNCHANGED <<events, credits, link, linked, faults>>

\* AttributeDeposit: find the row and the owner of its address.
Find(o) ==
    LET l == target[o][1]
        owner == OwnerIn(link, From(l))
    IN  /\ opc[o] = "find"
        /\ events[l] # "none"
        /\ OpGoto(o, IF events[l] = "deposited" \/ ~(owner \subseteq {target[o][2]})
                     THEN "done" ELSE IF owner = {} THEN "set" ELSE "credit")
        /\ UNCHANGED <<events, credits, link, linked, faults>>

\* Claim the address; the unique index refuses one that was taken meanwhile.
ClaimAddress(o) ==
    LET a == From(target[o][1]) IN
    /\ opc[o] = "set"
    /\ \/ SetAddress(target[o][2], a) /\ OpGoto(o, "credit")
       \/ ~(OwnerIn(link, a) \subseteq {target[o][2]}) /\ OpGoto(o, "done")
          /\ UNCHANGED <<link, linked>>
    /\ UNCHANGED <<events, credits, faults>>

\* Mutant: the operator's credit has a key of its own.
AttributeOwnKey(o) ==
    LET l == target[o][1] IN
    /\ opc[o] = "credit"
    /\ Deposit([key |-> [path |-> "event", tx |-> Pay[l.pay].tx, log |-> l],
                user |-> target[o][2], log |-> l])
    /\ OpGoto(o, "mark")
    /\ UNCHANGED <<events, link, linked, faults>>

Attribute(o) ==
    LET l == target[o][1] IN
    /\ opc[o] = "credit"
    /\ Deposit([key |-> VaultKey(l), user |-> target[o][2], log |-> l])
    /\ OpGoto(o, "mark")
    /\ UNCHANGED <<events, link, linked, faults>>

MarkAttributed(o) ==
    /\ opc[o] = "mark"
    /\ events' = [events EXCEPT ![target[o][1]] = "deposited"]
    /\ OpGoto(o, "done")
    /\ UNCHANGED <<credits, link, linked, faults>>

-----------------------------------------------------------------------------
(* The chain.                                                              *)

\* A block with some of the payments that were sent.
Mine(S) ==
    /\ head < MaxHead
    /\ head' = head + 1
    /\ block' = [p \in Payments |-> IF p \in S THEN head + 1 ELSE block[p]]
    /\ UNCHANGED <<cursor, election, pc, scanning, routing, events, credits, link, linked,
                   operating, links, faults, history>>

\* The last k blocks are replaced; their payments may land elsewhere in the
\* new ones, or nowhere yet.
Reorg(k, f) ==
    /\ block' = [p \in Payments |-> IF block[p] > head - k THEN f[p] ELSE block[p]]
    /\ UNCHANGED <<head, cursor, election, pc, scanning, routing, events, credits, link, linked,
                   operating, links, history>>

-----------------------------------------------------------------------------
(* Failures.                                                               *)

Fails(kind) ==
    /\ kind \in FaultKinds
    /\ faults < MaxFaults
    /\ faults' = faults + 1

\* The stored cursor cannot be read: the error is logged, the indexer runs.
ResumeFails(i) ==
    /\ Fails("resume")
    /\ pc[i] = "down"
    /\ pc' = [pc EXCEPT ![i] = "idle"]
    /\ mem' = [mem EXCEPT ![i] = StartBlock]
    /\ cache' = [cache EXCEPT ![i] = NoCache]
    /\ UNCHANGED <<chain, cursor, election, next, batch, open, resolved, events, credits,
                   link, linked, operating, links, history>>

\* The event row of a deposit is not written.
RowLost(i, l) ==
    /\ Fails("row")
    /\ RoutedTo(i, l) # {}
    /\ Take(i, l, FALSE)

\* A worker's lookup of the sender, or its insert of an unattributed row,
\* fails: the log is ignored and the scan goes on.
RouteFails(i, l) ==
    /\ Fails("route")
    /\ l \in Turn(i)
    /\ Pay[l.pay].route # "other"
    /\ LookedUp(l) # {} \/ RoutedTo(i, l) = {}
    /\ batch' = [batch EXCEPT ![i] = @ \ {l}]
    /\ failed' = failed \cup {l}
    /\ UNCHANGED <<chain, cursor, election, pc, mem, next, open, routing, events, credits,
                   link, linked, operating, links, baselines, orphaned>>

\* The commitments cannot be loaded: the events of the scan are ignored.
CommitmentsLost(i) ==
    /\ Fails("commitments")
    /\ pc[i] = "transfers"
    /\ TurnOver(i)
    /\ batch[i] # {}
    /\ batch' = [batch EXCEPT ![i] = {}]
    /\ failed' = failed \cup batch[i]
    /\ UNCHANGED <<chain, cursor, election, pc, mem, next, open, routing, events, credits,
                   link, linked, operating, links, baselines, orphaned>>

\* Deposit fails, or there is no market rate: the log is ignored too.
CreditFails(i, c) ==
    /\ Fails("credit")
    /\ c \in open[i]
    /\ open' = [open EXCEPT ![i] = @ \ {c}]
    /\ failed' = failed \cup {c.log}
    /\ UNCHANGED <<chain, cursor, election, pc, mem, next, batch, routing, events, credits,
                   link, linked, operating, links, baselines, orphaned>>

\* The cursor, or the baseline, is not persisted: only logged.
PersistFails(i) ==
    /\ Fails("persist")
    /\ Advance(i) \/ TakeBaseline(i)
    /\ UNCHANGED cursor

\* The connection that holds the advisory lock breaks; the leader flag stays.
SessionLost ==
    /\ Fails("session")
    /\ lock # Nobody
    /\ lock' = Nobody
    /\ UNCHANGED <<chain, cursor, leader, pc, scanning, routing, events, credits, link, linked,
                   operating, links, history>>

\* The process stops; its session ends with it.
Crash(i) ==
    /\ Fails("crash")
    /\ pc[i] # "down"
    /\ pc' = [pc EXCEPT ![i] = "down"]
    /\ lock' = IF lock = i THEN Nobody ELSE lock
    /\ leader' = [leader EXCEPT ![i] = FALSE]
    /\ batch' = [batch EXCEPT ![i] = {}]
    /\ open' = [open EXCEPT ![i] = {}]
    /\ UNCHANGED <<chain, cursor, mem, next, routing, events, credits, link, linked, operating,
                   links, history>>

\* An operator's call fails between two of its steps.
OperatorFails(o) ==
    /\ Fails("operator")
    /\ opc[o] \in {"set", "credit", "mark"}
    /\ OpGoto(o, "done")
    /\ UNCHANGED <<events, credits, link, linked>>

ChainReorg ==
    /\ Fails("reorg")
    /\ \E k \in 1 .. MinConfirmations :
         /\ k < head
         /\ \E f \in [Payments -> (head - k + 1 .. head) \cup {0}] : Reorg(k, f)

-----------------------------------------------------------------------------
InstanceStep(i) ==
    \/ Start(i) \/ Elect(i) \/ Baseline(i) \/ Scan(i)
    \/ \E l \in batch[i] : Route(i, l)
    \/ \E c \in open[i] : Credit(i, c)
    \/ LoadCommitments(i) \/ Persist(i)

OperatorStep(o) == Find(o) \/ ClaimAddress(o) \/ Attribute(o) \/ MarkAttributed(o)

Fault ==
    \/ \E i \in Instances :
         \/ ResumeFails(i) \/ PersistFails(i) \/ CommitmentsLost(i) \/ Crash(i)
         \/ \E l \in batch[i] : RouteFails(i, l) \/ RowLost(i, l)
         \/ \E c \in open[i] : CreditFails(i, c)
    \/ \E o \in Operators : OperatorFails(o)
    \/ SessionLost
    \/ ChainReorg

Next ==
    \/ \E i \in Instances : InstanceStep(i)
    \/ \E o \in Operators : OperatorStep(o)
    \/ \E u \in Users, w \in Wallets : Relink(u, w)
    \/ \E S \in SUBSET {p \in Payments : block[p] = 0} : Mine(S)
    \/ Fault

Spec == Init /\ [][Next]_vars

\* Processes are restarted and scheduled, and their tickers tick.
FairSpec == Spec /\ \A i \in Instances : WF_vars(InstanceStep(i))

-----------------------------------------------------------------------------
(* Properties.                                                             *)

\* A transfer is credited at most once: rescans after a crash, a lost cursor
\* or a failover, two instances that both take themselves for the leader, and
\* an operator's attribution in between all meet the same key.
TransferCreditedOnce ==
    \A c, d \in credits : c.log = d.log /\ c.log.kind = "transfer" => c = d

\* A credit, a flag, or an error that was logged.
Handled(l) ==
    \/ Pay[l.pay].route = "other"
    \/ l \in failed
    \/ events[l] = "unattributed"
    \/ \E c \in credits : c.key \in {Key(l), VaultKey(l)}

\* The persisted cursor never passes a payment that was not handled, unless it
\* was below a baseline: a restart resumes from it and looks at nothing earlier
\* (scan, "Persist the cursor only after the batch is processed").  The one
\* hole is an orphaned row: a crash between the row and its credit, and a link
\* that changed before the rescan.
CursorSkipsNothing ==
    \A p \in Payments :
        /\ block[p] > 0
        /\ block[p] < cursor
        /\ \A b \in baselines : b <= block[p]
        => \A l \in LogsOf(p) : Handled(l) \/ l \in orphaned

\* What is credited stays on the chain ("so a reorg cannot reverse a credited
\* deposit", vault.go 361-363).
CreditsAreConfirmed == \A c \in credits : block[c.log.pay] > 0

\* The address whose owner the indexer looks for.
Payer(l) == IF l.kind = "event" THEN Pay[l.pay].holder ELSE Pay[l.pay].sender

\* The deposit came to the user's clone, or from an address that is or was
\* theirs.
Theirs(u, l) ==
    IF l.kind = "transfer" /\ Pay[l.pay].route = "clone"
    THEN u = Pay[l.pay].user
    ELSE \E a \in {Payer(l), From(l)} : <<u, a>> \in linked

\* Nobody is credited with a stranger's money: a link read long ago
\* (addressUser, the commitments of the scan, an operator's lookup) may be a
\* former one when it is used, never somebody else's.
CreditsGoToOwners == \A c \in credits : Theirs(c.user, c.log)

\* A confirmed payment above every baseline is handled in the end, whatever
\* crashes; unless a new baseline skips it.
ConfirmedIsHandled ==
    \A p \in Payments :
        /\ block[p] > 0
        /\ block[p] <= ConfirmedHead
        ~> \/ \E b \in baselines : b > block[p]
           \/ \A l \in LogsOf(p) : Handled(l) \/ l \in orphaned

\* "Flag it durably so an operator can attribute it -- never silently drop
\* money" (handleDeposit): an orphaned log was credited after all.
NeverDropped ==
    \A l \in orphaned : \E c \in credits : c.key \in {Key(l), VaultKey(l)}

\* "the others stay ready to take over if the leader dies" (vault.go 282): a
\* failover skips no payment.
FailoverSkipsNothing ==
    \A p \in Payments :
        /\ block[p] > 0
        /\ block[p] < cursor
        /\ \E b \in baselines : b > 0 /\ b <= block[p]
        => \A l \in LogsOf(p) : Handled(l)

\* "Privacy mode credits deposits from the vault's own DepositedPrivate events
\* ... instead of raw USDC transfers" (vault.go 409-411): one payment is
\* credited once.
PaymentCreditedOnce ==
    \A c, d \in credits : c.log.pay = d.log.pay => c = d
=============================================================================
