------------------------------ MODULE Custody -------------------------------
(***************************************************************************)
(* The per-user clones as the backend keeps them (services/vault.go):      *)
(* deployment on demand, the custody claim, the recovery address, the two  *)
(* status reads and the reconciler.  Every read of the node, every         *)
(* statement on user_vault_clones and every broadcast is a step of its     *)
(* own, so requests interleave with each other, with the reconciler and    *)
(* with the chain.                                                         *)
(*                                                                         *)
(* The node is external.  All transactions come from the platform's signer *)
(* account and are mined in the order of its account nonces ("slots");     *)
(* they may be dropped or replaced, a clone's own rules (module            *)
(* VaultClone) may revert them, and a development node may be reset.       *)
(***************************************************************************)
EXTENDS Integers, FiniteSets, FiniteSetsExt

CONSTANTS
    Users,        \* accounts
    Broken,       \* accounts whose clone the node never answers for
    Requests,     \* requests to the API
    Workloads,    \* what the requests may ask: request |-> [op, user, addr]
    Created,      \* user |-> when the row was or will be created
    Reconciler,   \* the reconciler goroutine
    Addr,         \* addresses, Platform (the signer) and Zero among them
    Callees,      \* those that calls of others name
    Platform, Zero,
    None, NoRow,  \* the empty string; an account without a row
    Wallet,       \* user |-> the wallet the account links and signs with
    FaultKinds,   \* the failures that may happen
    MaxFaults,    \* bound on them
    MaxEvents     \* bound on them and the calls of others, together

Ops == {"deposit", "prepareClaim", "claim", "setRecovery", "custody", "recovery"}
Workers == Requests \cup {Reconciler}

ASSUME CustodyAssumption ==
    /\ Broken \subseteq Users
    /\ Reconciler \notin Requests
    /\ {Platform, Zero} \subseteq Addr /\ Platform # Zero /\ None \notin Addr
    /\ Callees \subseteq Addr \ {Zero}
    /\ Wallet \in [Users -> Addr \ {Platform, Zero}]
    /\ Workloads \subseteq [Requests -> [op : Ops, user : Users, addr : Addr]]
    /\ Created \in [Users -> Nat]
    /\ {MaxFaults, MaxEvents} \subseteq Nat

VARIABLES
    body,      \* request |-> what it asks
    pc,        \* worker |-> its next step
    seen,      \* worker |-> what it has read from the node so far
    slot,      \* worker |-> account nonce of the transaction it is about to send
    todo,      \* clones the reconciler has still to visit in this tick
    current,   \* the clone it is visiting
    reply,     \* request |-> what it answered
    quote,     \* request |-> nonce its signature covers, or None
    row,       \* user |-> the row of user_vault_clones: cached snapshot, or NoRow
    link,      \* user |-> linked wallet, or None
    clone,     \* user |-> the clone on the chain
    mempool,   \* transactions of the signer account not yet mined
    mined,     \* transactions of it that are
    lost,      \* user |-> a deployment was dropped, replaced or wiped
    wallet,    \* calls made by others than the service
    own,       \* the deployments, transfers and designations among them
    faults

workers == <<pc, seen, slot, todo, current, reply, quote>>
db == <<row, link>>
chain == <<clone, mempool, mined, lost, wallet, own>>
vars == <<body, workers, db, chain, faults>>

Steps == {"start", "lookup", "link", "owner", "address", "delay", "requested", "nonce",
          "slot", "send", "ensure", "cache", "done", "idle", "next"}

\* domain.CloneRecovery, with the clone's nonce.  Delay and start of a recovery
\* are only ever compared with 0.
View == [owner : Addr \cup {None}, address : Addr \cup {None},
         armed : BOOLEAN, pending : BOOLEAN]
Blank == [owner |-> None, address |-> None, armed |-> FALSE, pending |-> FALSE]
Unread == [view |-> Blank, nonce |-> 0]
NoClone == [owner |-> Zero, address |-> None, armed |-> FALSE, pending |-> FALSE, nonce |-> 0]
Deployed(u) == clone[u].owner # Zero

Txs == [kind : {"create", "transfer", "recovery"}, user : Users, addr : Addr,
        signer : Addr, nonce : Nat, slot : Nat]

\* A transfer or a designation by the owner, or a deployment (by nobody's leave).
Acts == [kind : {"create", "transfer", "designate"}, user : Users, by : Addr, addr : Addr]

Clones == [owner : Addr, address : Addr \cup {None}, armed : BOOLEAN, pending : BOOLEAN,
           nonce : Nat]
Replies == {"none", "ok", "error", "empty", "chain", "cache"}

ASSUME NoRowAssumption == NoRow \notin View

TypeOK ==
    /\ body \in Workloads
    /\ pc \in [Workers -> Steps]
    /\ seen \in [Workers -> [view : View, nonce : Nat]]
    /\ slot \in [Workers -> Nat]
    /\ todo \subseteq Users /\ current \in Users \cup {None}
    /\ reply \in [Requests -> Replies]
    /\ quote \in [Requests -> Nat \cup {None}]
    /\ row \in [Users -> View \cup {NoRow}]
    /\ link \in [Users -> Addr \cup {None}]
    /\ clone \in [Users -> Clones]
    /\ \A u \in Users : clone[u].pending => clone[u].armed
    /\ mempool \in SUBSET Txs /\ IsFiniteSet(mempool)
    /\ \A t1, t2 \in mempool : t1.slot = t2.slot => t1 = t2
    /\ mined \in Nat /\ \A t \in mempool : t.slot >= mined
    /\ lost \in [Users -> BOOLEAN]
    /\ wallet \in Nat /\ own \subseteq Acts
    /\ faults \in Nat

\* An account starts without a clone, with one that holds the platform's seat
\* for it, or with one deployed for its linked wallet and armed since.
Init ==
    /\ body \in Workloads
    /\ pc = [w \in Workers |-> IF w = Reconciler THEN "idle" ELSE "start"]
    /\ seen = [w \in Workers |-> Unread]
    /\ slot = [w \in Workers |-> 0]
    /\ todo = {} /\ current = None
    /\ reply = [r \in Requests |-> "none"]
    /\ quote = [r \in Requests |-> None]
    /\ \E first \in [Users -> {Zero, Platform} \cup {Wallet[u] : u \in Users}] :
         /\ \A u \in Users : first[u] \in IF u \in Broken THEN {Platform} ELSE {Zero, Platform, Wallet[u]}
         /\ row = [u \in Users |-> IF first[u] = Zero THEN NoRow ELSE Blank]
         /\ link = [u \in Users |-> IF first[u] = Wallet[u] THEN Wallet[u] ELSE None]
         /\ clone = [u \in Users |-> [NoClone EXCEPT !.owner = first[u],
                                                    !.armed = first[u] = Wallet[u]]]
    /\ mempool = {} /\ mined = 0
    /\ lost = [u \in Users |-> FALSE]
    /\ wallet = 0 /\ own = {}
    /\ faults = 0

-----------------------------------------------------------------------------
(* Steps of a worker.                                                      *)

User(w) == IF w = Reconciler THEN current ELSE body[w].user
Op(w) == IF w = Reconciler THEN "reconcile" ELSE body[w].op

Goto(w, step) == pc' = [pc EXCEPT ![w] = step]
Note(w, s) == seen' = [seen EXCEPT ![w] = s]

Answer(w, from) ==
    /\ Goto(w, "done")
    /\ reply' = [reply EXCEPT ![w] = from]
    /\ quote' = [quote EXCEPT ![w] = None]
    /\ Note(w, Unread)
    /\ slot' = [slot EXCEPT ![w] = 0]
    /\ UNCHANGED <<body, todo, current>>

Moves(w, step) == Goto(w, step) /\ UNCHANGED <<body, seen, slot, todo, current, reply, quote>>

\* A failure, counted.
Fault(kind) ==
    /\ kind \in FaultKinds
    /\ faults < MaxFaults /\ faults + wallet < MaxEvents
    /\ faults' = faults + 1

\* CloneAddress: the account's row, if it has one.
HasClone(r) == row[User(r)] # NoRow

\* A status request of an account without a clone gets an empty status.
StatusRequest(r) ==
    /\ pc[r] = "start" /\ Op(r) \in {"custody", "recovery"}
    /\ IF HasClone(r) THEN Moves(r, "owner") ELSE Answer(r, "empty")
    /\ UNCHANGED <<db, chain, faults>>

\* A claim, or the quote for one, names the wallet that takes the seat.
ClaimRequest(r) ==
    /\ pc[r] = "start" /\ Op(r) \in {"prepareClaim", "claim"}
    /\ IF HasClone(r) /\ body[r].addr # Zero THEN Moves(r, "owner") ELSE Answer(r, "error")
    /\ UNCHANGED <<db, chain, faults>>

\* A designation is made twice: unsigned for the quote (PrepareRecovery), then
\* with the wallet's signature over it (SetRecoveryAddressBySig), fresh or not.
RecoveryRequest(r) ==
    /\ pc[r] = "start" /\ Op(r) = "setRecovery"
    /\ \/ HasClone(r) /\ body[r].addr # Zero /\ Moves(r, "owner") /\ UNCHANGED faults
       \/ (~HasClone(r) \/ body[r].addr = Zero) /\ Answer(r, "error") /\ UNCHANGED faults
       \/ quote[r] # None /\ Fault("expire") /\ Answer(r, "error")
    /\ UNCHANGED <<db, chain>>

-----------------------------------------------------------------------------
(* Deployment (EnsureClone).  When it fails, the deposit request shows the *)
(* shared vault address instead; "error" stands for that answer.           *)

DepositRequest(r) ==
    /\ pc[r] = "start" /\ Op(r) = "deposit"
    /\ Moves(r, IF HasClone(r) THEN "lookup" ELSE "link")
    /\ UNCHANGED <<db, chain, faults>>

\* CloneByUserKey: a row whose clone is gone is stale and is deployed again.
Lookup(r) ==
    /\ pc[r] = "lookup"
    /\ IF Deployed(User(r)) THEN Answer(r, "ok") ELSE Moves(r, "link")
    /\ UNCHANGED <<db, chain, faults>>

\* Mutant: an account without a linked wallet gets no owner.
NewOwnerLinked(u) == link[u]

\* The owner of the new clone: the linked wallet, else the platform's signer.
NewOwner(u) == IF link[u] # None THEN link[u] ELSE Platform

ResolveOwner(r) ==
    /\ pc[r] = "link"
    /\ Note(r, [seen[r] EXCEPT !.view.owner = NewOwner(User(r))])
    /\ Goto(r, "slot")
    /\ UNCHANGED <<body, slot, todo, current, reply, quote, db, chain, faults>>

\* Ensure: INSERT ... ON CONFLICT (user_id) DO NOTHING.
Ensure(r) ==
    /\ pc[r] = "ensure"
    /\ Answer(r, "ok")
    /\ row' = [row EXCEPT ![User(r)] = IF @ = NoRow THEN Blank ELSE @]
    /\ UNCHANGED <<link, chain, faults>>

-----------------------------------------------------------------------------
(* Reads of a clone, one eth_call each.  An address without code answers   *)
(* with no bytes: owner 0x0, nothing set.                                  *)

Answers(w) == User(w) \notin Broken

\* isCustodyClaimed, with a platform signer configured.
IsCustodyClaimed(owner) == owner # None /\ owner # Platform

\* PrepareCustodyClaim and ClaimCustody: the platform must hold the seat, and
\* the new owner differ.
Claimable(owner, addr) == ~IsCustodyClaimed(owner) /\ owner # addr

\* PrepareRecovery quotes for any owner but the address itself.
Quotable(owner, addr) == owner # addr

\* SetRecoveryAddressBySig: the signature must be the owner's.  A signed nonce
\* other than 0 is relayed as it is.
Relayable(w, owner) == Quotable(owner, body[w].addr) /\ owner = Wallet[User(w)]

\* What follows once the owner is known.
AfterOwner(w, owner) ==
    CASE Op(w) \in {"recovery", "reconcile"} -> "address"
      [] Op(w) = "custody" -> "nonce"
      [] Op(w) \in {"prepareClaim", "claim"} /\ Claimable(owner, body[w].addr) -> "nonce"
      [] Op(w) = "setRecovery" /\ quote[w] = None /\ Quotable(owner, body[w].addr) -> "nonce"
      [] Op(w) = "setRecovery" /\ quote[w] # None /\ Relayable(w, owner) ->
           IF quote[w] = 0 THEN "nonce" ELSE "slot"
      [] OTHER -> "done"

CloneOwner(w) ==
    /\ pc[w] = "owner" /\ Answers(w)
    /\ LET owner == clone[User(w)].owner
           step == AfterOwner(w, owner)
       IN  IF step = "done" THEN Answer(w, "error")
           ELSE /\ Note(w, [view |-> [Blank EXCEPT !.owner = owner],
                            nonce |-> IF step = "slot" THEN quote[w] ELSE 0])
                /\ Goto(w, step)
                /\ UNCHANGED <<body, slot, todo, current, reply, quote>>
    /\ UNCHANGED <<db, chain, faults>>

CloneRecoveryAddress(w) ==
    /\ pc[w] = "address" /\ Answers(w)
    /\ Note(w, [seen[w] EXCEPT !.view.address = clone[User(w)].address])
    /\ Goto(w, "delay")
    /\ UNCHANGED <<body, slot, todo, current, reply, quote, db, chain, faults>>

CloneRecoveryDelay(w) ==
    /\ pc[w] = "delay" /\ Answers(w)
    /\ Note(w, [seen[w] EXCEPT !.view.armed = clone[User(w)].armed])
    /\ Goto(w, "requested")
    /\ UNCHANGED <<body, slot, todo, current, reply, quote, db, chain, faults>>

CloneRecoveryRequestedAt(w) ==
    /\ pc[w] = "requested" /\ Answers(w)
    /\ Note(w, [seen[w] EXCEPT !.view.pending = clone[User(w)].pending])
    /\ Goto(w, "cache")
    /\ UNCHANGED <<body, slot, todo, current, reply, quote, db, chain, faults>>

\* CloneNonce.  A setRecovery request reads it twice: to quote the message the
\* wallet signs (PrepareRecovery), and again when the signed nonce is 0.
CloneNonce(w) ==
    /\ pc[w] = "nonce" /\ Answers(w)
    /\ LET n == clone[User(w)].nonce IN
       CASE Op(w) = "prepareClaim" -> Answer(w, "ok")
         [] Op(w) = "setRecovery" /\ quote[w] = None ->
              /\ quote' = [quote EXCEPT ![w] = n]
              /\ Goto(w, "start")
              /\ UNCHANGED <<body, seen, slot, todo, current, reply>>
         [] OTHER ->
              /\ Note(w, [seen[w] EXCEPT !.nonce = n])
              /\ Goto(w, IF Op(w) = "custody" THEN "cache" ELSE "slot")
              /\ UNCHANGED <<body, slot, todo, current, reply, quote>>
    /\ UNCHANGED <<db, chain, faults>>

-----------------------------------------------------------------------------
(* Broadcasting (sendTx).  The account nonce is read first and nothing     *)
(* keeps two requests from reading the same one.                           *)

\* PendingNonceAt: the first account nonce not mined or waiting.
FirstFree == Min({s \in mined .. mined + Cardinality(mempool) :
                    \A t \in mempool : t.slot # s})

PendingNonceAt(w) ==
    /\ pc[w] = "slot"
    /\ slot' = [slot EXCEPT ![w] = FirstFree]
    /\ Goto(w, "send")
    /\ UNCHANGED <<body, seen, todo, current, reply, quote, db, chain, faults>>

\* createClone(userKey, owner), transferOwnershipBySig signed by the platform,
\* setRecoveryAddressBySig signed by the wallet.  A signature with nonce 0 is
\* sent with the nonce just read; it covers that nonce only if they agree.
Tx(w) ==
    [kind |-> CASE Op(w) = "deposit" -> "create"
                [] Op(w) = "claim" -> "transfer"
                [] Op(w) = "setRecovery" -> "recovery",
     user |-> User(w),
     addr |-> IF Op(w) = "deposit" THEN seen[w].view.owner ELSE body[w].addr,
     signer |-> IF Op(w) = "setRecovery" THEN Wallet[User(w)] ELSE Platform,
     nonce |-> seen[w].nonce,
     slot |-> slot[w]]

SignatureCovers(w) == Op(w) = "setRecovery" => seen[w].nonce = quote[w]

Rivals(w) == {t \in mempool : t.slot = slot[w]}

AfterSend(w) == Goto(w, IF Op(w) = "deposit" THEN "ensure" ELSE "cache")

\* The node takes the transaction, in place of one with the same account nonce
\* if the gas price has risen in between.
Send(w) ==
    /\ pc[w] = "send" /\ SignatureCovers(w)
    /\ slot[w] >= mined
    /\ IF Rivals(w) = {} THEN UNCHANGED faults ELSE Fault("replace")
    /\ mempool' = (mempool \ Rivals(w)) \cup {Tx(w)}
    /\ lost' = [u \in Users |-> lost[u] \/ \E t \in Rivals(w) : t.kind = "create" /\ t.user = u]
    /\ AfterSend(w)
    /\ UNCHANGED <<body, seen, slot, todo, current, reply, quote, db, clone, mined, wallet, own>>

\* Mutant: the error of the broadcast is lost and the row is stored anyway.
NotSentUnseen(w) == IF Op(w) = "deposit" THEN Moves(w, "ensure") ELSE Answer(w, "error")

NotSent(w) == Answer(w, "error")

\* Nonce too low, replacement underpriced; or the recovered signer differs.
SendRefused(w) ==
    /\ pc[w] = "send"
    /\ slot[w] < mined \/ Rivals(w) # {} \/ ~SignatureCovers(w)
    /\ NotSent(w)
    /\ UNCHANGED <<db, chain, faults>>

-----------------------------------------------------------------------------
(* The cache (CacheRecovery): one UPDATE of all four columns.              *)

\* What a worker writes: the status read and the reconciler what they read, a
\* custody read or a claim the owner alone, a designation its new address.
Snapshot(w) ==
    CASE Op(w) \in {"recovery", "reconcile", "custody"} -> seen[w].view
      [] Op(w) = "claim" -> [Blank EXCEPT !.owner = body[w].addr]
      [] Op(w) = "setRecovery" -> [seen[w].view EXCEPT !.address = body[w].addr]

CacheRecovery(w) == row' = [row EXCEPT ![User(w)] = IF @ = NoRow THEN @ ELSE Snapshot(w)]

\* A status request shows what it read.
Shown(r) == IF Op(r) \in {"custody", "recovery"} THEN Answer(r, "chain")
                                                 ELSE Answer(r, "ok")

WriteThrough(r) ==
    /\ r \in Requests /\ pc[r] = "cache"
    /\ CacheRecovery(r)
    /\ Shown(r)
    /\ UNCHANGED <<link, chain, faults>>

\* recoveryStatusFromCache, custodyStatusFromCache.
Fallback(r) == Answer(r, "cache")

-----------------------------------------------------------------------------
(* The reconciler.                                                         *)

Tick ==
    /\ pc[Reconciler] = "idle"
    /\ todo' = {u \in Users : row[u] # NoRow}
    /\ Goto(Reconciler, "next")
    /\ UNCHANGED <<body, seen, slot, current, reply, quote, db, chain, faults>>

NextClone ==
    /\ pc[Reconciler] = "next"
    /\ \/ /\ todo = {}
          /\ current' = None
          /\ Goto(Reconciler, "idle")
          /\ UNCHANGED todo
       \/ \E u \in todo : /\ \A v \in todo : Created[u] <= Created[v]
                          /\ current' = u
                          /\ todo' = todo \ {u}
                          /\ Goto(Reconciler, "owner")
    /\ UNCHANGED <<body, seen, slot, reply, quote, db, chain, faults>>

Refresh ==
    /\ pc[Reconciler] = "cache"
    /\ CacheRecovery(Reconciler)
    /\ Goto(Reconciler, "next")
    /\ Note(Reconciler, Unread)
    /\ UNCHANGED <<body, slot, todo, current, reply, quote, link, chain, faults>>

\* Mutant: an error ends the tick.
NextAfterErrorStops == todo' = {} /\ Goto(Reconciler, "next")

\* reconcileRecoveryCache logs the error and goes on with the other clones.
NextAfterError == Goto(Reconciler, "next") /\ UNCHANGED todo

ReconcileFails ==
    /\ NextAfterError
    /\ Note(Reconciler, Unread)
    /\ UNCHANGED <<body, slot, current, reply, quote>>

-----------------------------------------------------------------------------
(* Failures.                                                               *)

Reads == {"lookup", "owner", "address", "delay", "requested", "nonce"}

\* The node does not answer.  A deposit trusts its row, the status reads fall
\* back on the cache, a nonce that cannot be read is shown as 0.
ReadFails(w) ==
    /\ pc[w] \in Reads
    /\ CASE Op(w) = "reconcile" -> ReconcileFails
         [] Op(w) = "deposit" -> Answer(w, "ok")
         [] Op(w) = "recovery" \/ (Op(w) = "custody" /\ pc[w] = "owner") -> Fallback(w)
         [] Op(w) = "custody" /\ pc[w] = "nonce" -> Moves(w, "cache")
         [] OTHER -> Answer(w, "error")
    /\ UNCHANGED <<db, chain>>

NodeSilent(w) == pc[w] \in Reads \ {"lookup"} /\ ~Answers(w) /\ ReadFails(w) /\ UNCHANGED faults

ReadOutage(w) == Fault("read") /\ Answers(w) /\ ReadFails(w)

\* A statement fails: the write-through is only logged, the rest is an error
\* (after the broadcast, in the case of Ensure).
StatementFails(w) ==
    /\ Fault("db")
    /\ \/ /\ w \in Requests /\ pc[w] = "cache"
          /\ Shown(w)
       \/ w \in Requests /\ pc[w] \in {"start", "ensure"} /\ Answer(w, "error")
       \/ w = Reconciler /\ pc[w] = "cache" /\ ReconcileFails
    /\ UNCHANGED <<db, chain>>

SendFails(w) ==
    /\ Fault("send")
    /\ pc[w] = "send"
    /\ NotSent(w)
    /\ UNCHANGED <<db, chain>>

-----------------------------------------------------------------------------
(* The chain and the wallets.                                              *)

\* Mutant: the clone does not compare the signer with its owner.
AcceptedFromAnyone(t) ==
    LET c == clone[t.user] IN
    IF t.kind = "create" THEN c.owner = Zero
    ELSE /\ c.owner # Zero /\ c.nonce = t.nonce
         /\ t.addr # Zero /\ t.addr # c.owner

\* The factory creates a clone once; the clone takes its owner's signature
\* over its current nonce.
Accepted(t) ==
    LET c == clone[t.user] IN
    IF t.kind = "create" THEN c.owner = Zero
    ELSE /\ c.owner # Zero /\ c.nonce = t.nonce /\ c.owner = t.signer
         /\ t.addr # Zero /\ t.addr # c.owner

Effect(t, c) ==
    CASE t.kind = "create" -> [NoClone EXCEPT !.owner = t.addr]
      [] t.kind = "transfer" -> [c EXCEPT !.owner = t.addr, !.nonce = @ + 1]
      [] t.kind = "recovery" -> [c EXCEPT !.address = t.addr, !.pending = FALSE, !.nonce = @ + 1]

SetClone(u, c) == clone' = [clone EXCEPT ![u] = c]

Rest == UNCHANGED <<body, workers, db>>

\* The next transaction of the signer account is mined: it takes effect, or it
\* reverts, also because its deadline is over.
Mine ==
    \E t \in mempool :
        /\ t.slot = mined
        /\ mempool' = mempool \ {t}
        /\ mined' = mined + 1
        /\ \/ /\ Accepted(t)
              /\ SetClone(t.user, Effect(t, clone[t.user]))
              /\ lost' = [lost EXCEPT ![t.user] = @ /\ t.kind # "create"]
              /\ UNCHANGED faults
           \/ /\ Accepted(t) => t.kind # "create" /\ Fault("expire")
              /\ ~Accepted(t) => UNCHANGED faults
              /\ UNCHANGED <<clone, lost>>
        /\ UNCHANGED <<wallet, own>>
        /\ Rest

DropTx ==
    \E t \in mempool :
        /\ Fault("drop")
        /\ mempool' = mempool \ {t}
        /\ lost' = [lost EXCEPT ![t.user] = @ \/ t.kind = "create"]
        /\ UNCHANGED <<clone, mined, wallet, own>>
        /\ Rest

\* "a dev node reset erases CREATE2 deployments while the DB row survives".
NodeReset ==
    /\ Fault("reset")
    /\ clone' = [u \in Users |-> NoClone]
    /\ mempool' = {} /\ mined' = 0
    /\ lost' = [u \in Users |-> TRUE]
    /\ UNCHANGED <<wallet, own>>
    /\ Rest

Does(u, kind, by, a) == own' = own \cup {[kind |-> kind, user |-> u, by |-> by, addr |-> a]}

\* createClone has no caller check: anyone deploys a clone for any owner.
CreateCall(u) ==
    /\ ~Deployed(u)
    /\ \E a \in Callees : /\ SetClone(u, [NoClone EXCEPT !.owner = a])
                         /\ Does(u, "create", Zero, a)

\* The owner hands the clone over by a signature it relays itself, or names a
\* recovery address by such a signature or in a direct call.  The platform,
\* as owner, signs claims and withdrawals only.
OwnerCall(u) ==
    LET c == clone[u] IN
    /\ c.owner \notin {Zero, Platform}
    /\ \E a \in Callees \ {c.owner} :
         \/ /\ SetClone(u, [c EXCEPT !.owner = a, !.nonce = @ + 1])
            /\ Does(u, "transfer", c.owner, a)
         \/ \E n \in {c.nonce, c.nonce + 1} :
              /\ SetClone(u, [c EXCEPT !.address = a, !.pending = FALSE, !.nonce = n])
              /\ Does(u, "designate", c.owner, a)

\* Anybody arms or disarms recovery through the factory, which has no caller
\* check either; the owner or the recovery address begins one, the owner
\* cancels it, anybody executes it after the window; a signed withdrawal is
\* relayed.
OtherCall(u) ==
    LET c == clone[u] IN
    /\ Deployed(u)
    /\ \/ SetClone(u, [c EXCEPT !.armed = TRUE])
       \/ SetClone(u, [c EXCEPT !.armed = FALSE, !.pending = FALSE])
       \/ c.address # None /\ c.armed /\ SetClone(u, [c EXCEPT !.pending = TRUE])
       \/ c.pending /\ c.owner # Platform /\ SetClone(u, [c EXCEPT !.pending = FALSE])
       \/ /\ c.address # None /\ c.pending
          /\ SetClone(u, [c EXCEPT !.owner = c.address, !.pending = FALSE, !.armed = FALSE])
       \/ SetClone(u, [c EXCEPT !.nonce = @ + 1])
    /\ UNCHANGED own

\* A call of the clone or the factory that the service has no part in, and that
\* changes something.
WalletCall(u) ==
    /\ u \notin Broken
    /\ faults + wallet < MaxEvents
    /\ wallet' = wallet + 1
    /\ CreateCall(u) \/ OwnerCall(u) \/ OtherCall(u)
    /\ clone' # clone
    /\ UNCHANGED <<mempool, mined, lost, faults>>
    /\ Rest

\* SetDepositAddress: the account links its wallet.
LinkWallet(u) ==
    /\ link[u] = None /\ u \notin Broken
    /\ faults + wallet < MaxEvents
    /\ wallet' = wallet + 1
    /\ link' = [link EXCEPT ![u] = Wallet[u]]
    /\ UNCHANGED <<body, workers, row, clone, mempool, mined, lost, own, faults>>

-----------------------------------------------------------------------------
Request(r) ==
    \/ StatusRequest(r) \/ ClaimRequest(r) \/ RecoveryRequest(r) \/ DepositRequest(r)
    \/ Lookup(r) \/ ResolveOwner(r) \/ Ensure(r)
    \/ PendingNonceAt(r) \/ Send(r) \/ SendRefused(r) \/ WriteThrough(r) \/ SendFails(r)

Read(w) ==
    \/ CloneOwner(w) \/ CloneRecoveryAddress(w) \/ CloneRecoveryDelay(w)
    \/ CloneRecoveryRequestedAt(w) \/ CloneNonce(w) \/ NodeSilent(w)

Failure(w) == ReadOutage(w) \/ StatementFails(w)

Reconcile == Tick \/ NextClone \/ Refresh \/ Read(Reconciler)

Environment ==
    \/ Mine \/ DropTx \/ NodeReset
    \/ \E u \in Users : WalletCall(u) \/ LinkWallet(u)

Next ==
    \/ \E r \in Requests : Request(r) \/ Read(r)
    \/ \E w \in Workers : Failure(w)
    \/ Reconcile
    \/ Environment

Spec == Init /\ [][Next]_vars

\* The reconciler's ticker never stops.  Nothing makes the node mine what it
\* holds or a request arrive.
FairSpec == Spec /\ WF_vars(Reconcile)

-----------------------------------------------------------------------------
(* Properties.                                                             *)

\* EnsureClone stores a row only after its createClone was broadcast: a row
\* whose clone is not on the chain has its deployment waiting, or the chain
\* lost it.  An account never gets a deposit address that nobody deploys.
RowsAreBacked ==
    \A u \in Users :
        row[u] # NoRow =>
            \/ Deployed(u) \/ lost[u]
            \/ \E t \in mempool : t.kind = "create" /\ t.user = u

\* Successors somebody has named: the platform in the claims it was asked to
\* sign and the wallets in the designations they signed for the service to
\* relay, and owners by themselves.
Asked(op) == {r \in Requests : body[r].op = op}
ByThemselves(kind) == {<<q.user, q.by, q.addr>> : q \in {p \in own : p.kind = kind}}
Transfers ==
    {<<body[r].user, Platform, body[r].addr>> : r \in Asked("claim")} \cup ByThemselves("transfer")
Designations ==
    {<<body[r].user, Wallet[body[r].user], body[r].addr>> : r \in Asked("setRecovery")}
        \cup ByThemselves("designate")

\* Owners somebody deploys clones for: the platform and the linked wallet, in
\* the service's transactions.
Deployments ==
    {<<u, Platform>> : u \in Users} \cup {<<u, link[u]>> : u \in {v \in Users : link[v] # None}}
        \cup {<<q.user, q.addr>> : q \in {p \in own : p.kind = "create"}}

Seat == INSTANCE OwnerSeat WITH
            seat <- [u \in Users |-> clone[u].owner],
            heir <- [u \in Users |-> clone[u].address],
            deployments <- Deployments,
            transfers <- Transfers,
            designations <- Designations

\* A claim checks the owner, reads the nonce and signs, while other claims,
\* designations and recoveries are mined and owners act by themselves: the
\* owner seat still moves only as OwnerSeat allows, never by the signature of
\* one who no longer holds it (ClaimCustody, SetRecoveryAddressBySig).
ImplementsOwnerSeat == Seat!SeatSpec

\* The write-throughs guess (a claim not mined yet, a designation without its
\* delay) and a custody read wipes the recovery columns, but the reconciler
\* corrects them all: once nothing changes, the cache of every clone the node
\* answers for shows the chain, whatever happens to the other clones.
CacheConverges ==
    <>[](\A u \in Users \ Broken :
            row[u] # NoRow =>
                row[u] = [owner |-> clone[u].owner, address |-> clone[u].address,
                          armed |-> clone[u].armed, pending |-> clone[u].pending])
=============================================================================
