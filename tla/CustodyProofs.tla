--------------------------- MODULE CustodyProofs ----------------------------
(***************************************************************************)
(* Proofs about Custody for any number of accounts, requests and addresses, *)
(* and any number of failures and transactions: type correctness, that     *)
(* every stored clone is backed, and that Custody implements OwnerSeat.    *)
(***************************************************************************)
EXTENDS Custody, FiniteSetTheorems, WellFoundedInduction, TLAPS

USE CustodyAssumption

-----------------------------------------------------------------------------
(* The inductive invariant.                                                *)

\* The steps a worker takes, by what it is doing.
StepsOf(op) ==
    CASE op = "deposit" -> {"start", "lookup", "link", "slot", "send", "ensure", "done"}
      [] op = "prepareClaim" -> {"start", "owner", "nonce", "done"}
      [] op \in {"claim", "setRecovery"} ->
           {"start", "owner", "nonce", "slot", "send", "cache", "done"}
      [] op = "custody" -> {"start", "owner", "nonce", "cache", "done"}
      [] op = "recovery" -> {"start", "owner", "address", "delay", "requested", "cache", "done"}
      [] op = "reconcile" -> {"idle", "next", "owner", "address", "delay", "requested", "cache"}

\* An address EnsureClone may make the owner of an account's new clone.
Named(u, a) == a = Platform \/ (a = Wallet[u] /\ link[u] = Wallet[u])

\* A request at a step, having read s: it belongs there, a status request has a
\* row to fall back on, a deployment has an owner.
Fits(r, step, s) ==
    /\ step \in StepsOf(Op(r))
    /\ Op(r) \in {"custody", "recovery"} /\ step \notin {"start", "done"} => row[User(r)] # NoRow
    /\ Op(r) = "deposit" /\ step \in {"slot", "send"} => Named(User(r), s.view.owner)

Flow ==
    /\ \A r \in Requests : Fits(r, pc[r], seen[r])
    /\ pc[Reconciler] \in StepsOf("reconcile")
    /\ pc[Reconciler] \notin {"idle", "next"} => current \in Users
    /\ \A u \in Users : link[u] \in {None, Wallet[u]}

\* A request of this kind names the address for the account.
Names(op, u, a) == \E r \in Asked(op) : body[r].user = u /\ body[r].addr = a

\* A transaction of the signer account carries what an account asked for.
AskedFor(t) ==
    CASE t.kind = "create" -> Named(t.user, t.addr)
      [] t.kind = "transfer" -> t.signer = Platform /\ Names("claim", t.user, t.addr)
      [] t.kind = "recovery" -> /\ t.signer = Wallet[t.user]
                                /\ Names("setRecovery", t.user, t.addr)

\* Nobody signs for a seat that is not theirs: the platform signs the claims it
\* was asked for, an account its own designations, and a deployment names the
\* platform or the linked wallet.  A recovery never empties a seat.
Seats == (\A t \in mempool : AskedFor(t)) /\ \A u \in Users : clone[u].address # Zero

\* The account's clone is deployed, about to be, or was lost by the chain.
Backed(u) ==
    \/ Deployed(u) \/ lost[u]
    \/ \E t \in mempool : t.kind = "create" /\ t.user = u

\* A row is stored, or about to be, only for a clone that is backed.
Backing ==
    /\ \A u \in Users : row[u] # NoRow => Backed(u)
    /\ \A r \in Requests : pc[r] = "ensure" => Backed(User(r))

-----------------------------------------------------------------------------
(* Account nonces.                                                         *)

LEMMA MinIsMember ==
    ASSUME NEW S \in SUBSET Nat, S # {} PROVE Min(S) \in S
<1> DEFINE Less == OpToRel(<, Nat)
<1>1. IsWellFoundedOn(Less, Nat)
  BY NatLessThanWellFounded
<1>2. \A m, n \in Nat : m < n => <<m, n>> \in Less
  BY DEF OpToRel
<1>3. PICK x \in S : \A y \in S : <<y, x>> \notin Less
  <2> HIDE DEF Less
  <2> QED
    BY <1>1, WFMin
<1>4. ASSUME NEW y \in S PROVE x <= y
  <2>1. x \in Nat /\ y \in Nat /\ ~(y < x)
    BY <1>2, <1>3
  <2> QED
    BY <2>1
<1> QED
  BY <1>3, <1>4 DEF Min

\* The signer account always has a next nonce: more candidates than
\* transactions waiting.
LEMMA FirstFreeIsNat == ASSUME TypeOK PROVE FirstFree \in Nat
<1> DEFINE n == Cardinality(mempool)
           I == mined .. mined + n
           free == {s \in I : \A t \in mempool : t.slot # s}
<1>1. IsFiniteSet(mempool) /\ n \in Nat /\ mined \in Nat
  BY FS_CardinalityType DEF TypeOK
<1>2. Cardinality(I) = n + 1
  <2>1. mined \in Int /\ mined + n \in Int /\ ~(mined > mined + n) /\ (mined + n) - mined + 1 = n + 1
    BY <1>1
  <2> HIDE DEF n
  <2> QED
    BY <2>1, FS_Interval
<1>4. \E s \in I : \A t \in mempool : t.slot # s
  <2> SUFFICES ASSUME \A s \in I : \E t \in mempool : t.slot = s PROVE FALSE
    OBVIOUS
  <2> DEFINE f == [s \in I |-> CHOOSE t \in mempool : t.slot = s]
  <2>1. \A s \in I : f[s] \in mempool /\ f[s].slot = s
    OBVIOUS
  <2>2. f \in [I -> mempool]
    BY <2>1
  <2>3. f \in Injection(I, mempool)
    <3> HIDE DEF f, I
    <3> QED
      BY <2>1, <2>2 DEF Injection, IsInjective
  <2>4. Cardinality(I) <= n
    <3> HIDE DEF f, I
    <3> QED
      BY <1>1, <2>3, FS_Injection
  <2> QED
    <3> HIDE DEF n, I
    <3> QED
      BY <1>1, <1>2, <2>4
<1>5. free # {} /\ free \subseteq Nat
  <2>1. I \subseteq Nat
    BY <1>1
  <2> HIDE DEF n, I
  <2> QED
    BY <1>4, <2>1
<1>6. Min(free) \in free
  <2> HIDE DEF free
  <2> QED
    BY <1>5, MinIsMember
<1> QED
  BY <1>5, <1>6 DEF FirstFree

-----------------------------------------------------------------------------
(* What a step of a request does.                                          *)

Seen == [view : View, nonce : Nat]

\* The request goes to a step, having read s, and touches no other worker.
Works(r, step, s) ==
    /\ pc' = [pc EXCEPT ![r] = step]
    /\ seen' = [seen EXCEPT ![r] = s]
    /\ slot' \in [Workers -> Nat] /\ reply' \in [Requests -> Replies]
    /\ quote' \in [Requests -> Nat \cup {None}]
    /\ UNCHANGED <<body, todo, current>>

\* It writes the row of an account that has one or whose clone it deployed.
Stores(r) ==
    /\ row[User(r)] # NoRow \/ pc[r] = "ensure"
    /\ \E v \in View : row' = [row EXCEPT ![User(r)] = v]
    /\ UNCHANGED <<link, chain>>

\* It broadcasts a transaction, perhaps in place of another.
Sends(r) ==
    /\ pc[r] = "send" /\ slot[r] >= mined
    /\ mempool' = (mempool \ Rivals(r)) \cup {Tx(r)}
    /\ lost' = [u \in Users |-> lost[u] \/ \E t \in Rivals(r) : t.kind = "create" /\ t.user = u]
    /\ UNCHANGED <<db, clone, mined, wallet, own>>

RequestEffect(r) ==
    /\ faults' \in Nat
    /\ \E step \in Steps, s \in Seen :
         /\ Works(r, step, s) /\ Fits(r, step, s)
         /\ \/ UNCHANGED <<db, chain>> /\ step # "ensure"
            \/ Stores(r) /\ step = "done"
            \/ Sends(r)

LEMMA RequestFields ==
    ASSUME TypeOK, NEW r \in Requests
    PROVE  /\ Op(r) = body[r].op /\ Op(r) \in Ops /\ User(r) = body[r].user /\ User(r) \in Users
           /\ body[r].addr \in Addr /\ r \in Workers /\ r # Reconciler /\ seen[r] \in Seen
           /\ Wallet[User(r)] \in Addr /\ quote[r] \in Nat \cup {None} /\ slot[r] \in Nat
<1>1. body[r] \in [op : Ops, user : Users, addr : Addr] /\ r # Reconciler /\ r \in Workers
  BY DEF TypeOK, Workers
<1>2. User(r) = body[r].user /\ Op(r) = body[r].op
  BY <1>1 DEF User, Op
<1> QED
  BY <1>1, <1>2 DEF TypeOK, Seen

LEMMA ViewFacts ==
    /\ Blank \in View /\ Unread \in Seen
    /\ \A v \in View, a \in Addr \cup {None}, b \in BOOLEAN :
         /\ [v EXCEPT !.owner = a] \in View /\ [v EXCEPT !.address = a] \in View
         /\ [v EXCEPT !.armed = b] \in View /\ [v EXCEPT !.pending = b] \in View
    /\ \A v \in View, n \in Nat : [view |-> v, nonce |-> n] \in Seen
  BY DEF Blank, Unread, View, Seen

\* A request that answers is done.
LEMMA AnswerWorks ==
    ASSUME TypeOK, NEW r \in Requests,
           NEW from \in {"none", "ok", "error", "empty", "chain", "cache"}, Answer(r, from)
    PROVE  Works(r, "done", Unread) /\ Fits(r, "done", Unread)
<1>1. /\ slot' \in [Workers -> Nat] /\ reply' \in [Requests -> Replies]
      /\ quote' \in [Requests -> Nat \cup {None}]
  BY RequestFields DEF Answer, TypeOK, Replies
<1>2. Works(r, "done", Unread)
  BY <1>1 DEF Works, Answer, Goto, Note, TypeOK
<1>3. Fits(r, "done", Unread)
  BY RequestFields DEF Fits, StepsOf, Ops
<1> QED
  BY <1>2, <1>3

LEMMA AnswerEffect ==
    ASSUME TypeOK, NEW r \in Requests,
           NEW from \in {"none", "ok", "error", "empty", "chain", "cache"}, Answer(r, from),
           faults' \in Nat, UNCHANGED <<db, chain>> \/ Stores(r)
    PROVE  RequestEffect(r)
<1>1. Works(r, "done", Unread) /\ Fits(r, "done", Unread) /\ Unread \in Seen /\ "done" \in Steps
  BY AnswerWorks, ViewFacts DEF Steps
<1> QED
  BY <1>1 DEF RequestEffect

\* A request that reads or decides, and goes on.
LEMMA MovesEffect ==
    ASSUME TypeOK, NEW r \in Requests, NEW step \in Steps, NEW s \in Seen, Fits(r, step, s),
           step # "ensure", Goto(r, step), seen' = [seen EXCEPT ![r] = s],
           slot' \in [Workers -> Nat], quote' \in [Requests -> Nat \cup {None}],
           UNCHANGED <<body, todo, current, reply, db, chain>>, faults' \in Nat
    PROVE  RequestEffect(r)
<1>1. Works(r, step, s)
  BY DEF Works, Goto, TypeOK
<1> QED
  BY <1>1 DEF RequestEffect

LEMMA PlainMove ==
    ASSUME TypeOK, NEW r \in Requests, NEW step \in Steps, Fits(r, step, seen[r]),
           step # "ensure", Moves(r, step), UNCHANGED <<db, chain>>, faults' \in Nat
    PROVE  RequestEffect(r)
<1>1. seen[r] \in Seen /\ r \in Workers
  BY RequestFields
<1>2. seen' = [seen EXCEPT ![r] = seen[r]] /\ slot' \in [Workers -> Nat]
      /\ quote' \in [Requests -> Nat \cup {None}] /\ Goto(r, step)
      /\ UNCHANGED <<body, todo, current, reply>>
  BY <1>1 DEF Moves, TypeOK
<1> QED
  BY <1>1, <1>2, MovesEffect

LEMMA FaultCounts == ASSUME TypeOK, NEW kind, Fault(kind) PROVE faults' \in Nat
  BY DEF Fault, TypeOK

\* The handlers of the API, to the point where they read a clone.
LEMMA RequestSteps ==
    ASSUME TypeOK, Flow, NEW r \in Requests, Request(r) PROVE RequestEffect(r)
<1>0. /\ Op(r) \in Ops /\ User(r) \in Users /\ r \in Workers /\ seen[r] \in Seen /\ Fits(r, pc[r], seen[r])
      /\ Blank \in View /\ faults \in Nat /\ row[User(r)] \in View \cup {NoRow}
  BY RequestFields, ViewFacts DEF Flow, TypeOK
<1>a. ASSUME UNCHANGED faults PROVE faults' \in Nat
  BY <1>a, <1>0
<1>1. CASE StatusRequest(r)
  <2>1. CASE HasClone(r) /\ Moves(r, "owner")
    <3>1. Fits(r, "owner", seen[r])
      BY <1>1, <2>1 DEF StatusRequest, Fits, StepsOf, HasClone
    <3> QED
      BY <1>1, <1>a, <2>1, <3>1, PlainMove DEF StatusRequest, Steps
  <2>2. CASE Answer(r, "empty")
    BY <1>0, <1>1, <1>a, <2>2, AnswerEffect DEF StatusRequest
  <2> QED
    BY <1>1, <2>1, <2>2 DEF StatusRequest
<1>2. CASE ClaimRequest(r)
  <2>1. CASE Moves(r, "owner")
    <3>1. Fits(r, "owner", seen[r])
      BY <1>2, <2>1 DEF ClaimRequest, Fits, StepsOf
    <3> QED
      BY <1>2, <1>a, <2>1, <3>1, PlainMove DEF ClaimRequest, Steps
  <2>2. CASE Answer(r, "error")
    BY <1>0, <1>2, <1>a, <2>2, AnswerEffect DEF ClaimRequest
  <2> QED
    BY <1>2, <2>1, <2>2 DEF ClaimRequest
<1>3. CASE RecoveryRequest(r)
  <2>0. faults' \in Nat /\ UNCHANGED <<db, chain>>
    BY <1>3, <1>a, FaultCounts DEF RecoveryRequest
  <2>1. CASE Moves(r, "owner")
    <3>1. Fits(r, "owner", seen[r])
      BY <1>3, <2>1 DEF RecoveryRequest, Fits, StepsOf
    <3> QED
      BY <2>0, <2>1, <3>1, PlainMove DEF Steps
  <2>2. CASE Answer(r, "error")
    BY <1>0, <2>0, <2>2, AnswerEffect
  <2> QED
    BY <1>3, <2>1, <2>2 DEF RecoveryRequest
<1>4. CASE DepositRequest(r)
  <2>1. PICK step \in {"lookup", "link"} : Moves(r, step)
    BY <1>4 DEF DepositRequest
  <2>2. Fits(r, step, seen[r]) /\ step \in Steps /\ step # "ensure"
    BY <1>4, <2>1 DEF DepositRequest, Fits, StepsOf, Steps
  <2> QED
    BY <1>4, <1>a, <2>1, <2>2, PlainMove DEF DepositRequest
<1>5. CASE Lookup(r)
  <2>0. Op(r) = "deposit"
    BY <1>0, <1>5 DEF Lookup, Fits, StepsOf, Ops
  <2>1. CASE Moves(r, "link")
    <3>1. Fits(r, "link", seen[r])
      BY <2>0 DEF Fits, StepsOf
    <3> QED
      BY <1>5, <1>a, <2>1, <3>1, PlainMove DEF Lookup, Steps
  <2>2. CASE Answer(r, "ok")
    BY <1>0, <1>5, <1>a, <2>2, AnswerEffect DEF Lookup
  <2> QED
    BY <1>5, <2>1, <2>2 DEF Lookup
<1>6. CASE ResolveOwner(r)
  <2>0. Op(r) = "deposit"
    BY <1>0, <1>6 DEF ResolveOwner, Fits, StepsOf, Ops
  <2> DEFINE o == NewOwner(User(r))
             s == [seen[r] EXCEPT !.view.owner = o]
  <2>1. o \in Addr /\ Named(User(r), o)
    BY <1>0 DEF NewOwner, Named, Flow
  <2>2. s \in Seen /\ s.view.owner = o
    <3> HIDE DEF o
    <3> QED
      BY <1>0, <2>1 DEF Seen, View
  <2>3. Fits(r, "slot", s)
    <3> HIDE DEF o, s
    <3> QED
      BY <2>0, <2>1, <2>2 DEF Fits, StepsOf
  <2>4. /\ Goto(r, "slot") /\ seen' = [seen EXCEPT ![r] = s]
        /\ UNCHANGED <<body, slot, todo, current, reply, quote, db, chain, faults>>
    BY <1>6 DEF ResolveOwner, Note
  <2> QED
    <3> HIDE DEF o, s
    <3>1. slot' \in [Workers -> Nat] /\ quote' \in [Requests -> Nat \cup {None}]
      BY <2>4 DEF TypeOK
    <3> QED
      BY <1>a, <2>2, <2>3, <2>4, <3>1, MovesEffect DEF Steps
<1>7. CASE Ensure(r)
  <2>1. \E v \in View : row' = [row EXCEPT ![User(r)] = v]
    BY <1>0, <1>7 DEF Ensure, TypeOK
  <2>2. Stores(r) /\ Answer(r, "ok") /\ UNCHANGED faults
    BY <1>7, <2>1 DEF Ensure, Stores
  <2> QED
    BY <1>0, <1>a, <2>2, AnswerEffect
<1>8. CASE PendingNonceAt(r)
  <2>1. Fits(r, "send", seen[r])
    BY <1>0, <1>8 DEF PendingNonceAt, Fits, StepsOf, Ops
  <2>2. /\ Goto(r, "send") /\ seen' = seen /\ slot' = [slot EXCEPT ![r] = FirstFree]
        /\ UNCHANGED <<body, todo, current, reply, quote, db, chain, faults>>
    BY <1>8 DEF PendingNonceAt
  <2>3. /\ slot' \in [Workers -> Nat] /\ quote' \in [Requests -> Nat \cup {None}]
        /\ seen' = [seen EXCEPT ![r] = seen[r]]
    BY <1>0, <2>2, FirstFreeIsNat DEF TypeOK
  <2> QED
    BY <1>0, <1>a, <2>1, <2>2, <2>3, MovesEffect DEF Steps
<1>9. CASE Send(r)
  <2>0. Op(r) \in {"deposit", "claim", "setRecovery"} /\ pc[r] = "send"
    BY <1>0, <1>9 DEF Send, Fits, StepsOf, Ops
  <2>1. Sends(r) /\ faults' \in Nat
    BY <1>9, <1>a, FaultCounts DEF Send, Sends
  <2>2. PICK step \in {"ensure", "cache"} :
          /\ Goto(r, step) /\ (Op(r) = "deposit" <=> step = "ensure")
          /\ UNCHANGED <<body, seen, slot, todo, current, reply, quote>>
    BY <1>9 DEF Send, AfterSend
  <2>3. Fits(r, step, seen[r]) /\ step \in Steps
    BY <2>0, <2>2 DEF Fits, StepsOf, Steps
  <2>4. Works(r, step, seen[r])
    BY <1>0, <2>2 DEF Works, Goto, TypeOK
  <2> QED
    BY <1>0, <2>1, <2>3, <2>4 DEF RequestEffect
<1>10. CASE SendRefused(r)
  BY <1>0, <1>10, <1>a, AnswerEffect DEF SendRefused, NotSent
<1>11. CASE WriteThrough(r)
  <2>0. Op(r) \in {"claim", "setRecovery", "custody", "recovery"}
    BY <1>0, <1>11 DEF WriteThrough, Fits, StepsOf, Ops
  <2>1. Snapshot(r) \in View
    BY <1>0, <2>0, RequestFields, ViewFacts DEF Snapshot, Seen
  <2>2. UNCHANGED <<db, chain>> \/ Stores(r)
    <3>1. CASE row[User(r)] = NoRow
      <4>1. row' = row
        BY <1>0, <1>11, <3>1 DEF WriteThrough, CacheRecovery, TypeOK
      <4> QED
        BY <1>11, <4>1 DEF WriteThrough, db
    <3>2. CASE row[User(r)] # NoRow
      BY <1>11, <2>1, <3>2 DEF WriteThrough, CacheRecovery, Stores
    <3> QED
      BY <3>1, <3>2
  <2>3. \/ Answer(r, "ok")
        \/ Answer(r, "chain")
    BY <1>11 DEF WriteThrough, Shown
  <2> QED
    BY <1>0, <1>11, <1>a, <2>2, <2>3, AnswerEffect DEF WriteThrough
<1>12. CASE SendFails(r)
  BY <1>0, <1>12, FaultCounts, AnswerEffect DEF SendFails, NotSent
<1> QED
  BY <1>1, <1>2, <1>3, <1>4, <1>5, <1>6, <1>7, <1>8, <1>9, <1>10, <1>11, <1>12 DEF Request

\* The reads of a clone, one at a time, and what a request does when one fails.
LEMMA ReadSteps ==
    ASSUME TypeOK, Flow, NEW r \in Requests, Read(r) \/ Failure(r) PROVE RequestEffect(r)
<1>0. /\ Op(r) \in Ops /\ User(r) \in Users /\ r \in Workers /\ r # Reconciler /\ seen[r] \in Seen
      /\ Fits(r, pc[r], seen[r]) /\ Blank \in View /\ faults \in Nat
      /\ row[User(r)] \in View \cup {NoRow} /\ clone[User(r)] \in Clones
      /\ quote[r] \in Nat \cup {None}
  BY RequestFields, ViewFacts DEF Flow, TypeOK
<1>a. ASSUME UNCHANGED faults PROVE faults' \in Nat
  BY <1>a, <1>0
<1>b. ASSUME NEW step \in Steps \ {"ensure"}, NEW s \in Seen, Fits(r, step, s), Goto(r, step), Note(r, s),
             UNCHANGED <<body, slot, todo, current, reply, quote, db, chain, faults>>
      PROVE  RequestEffect(r)
  <2>1. slot' \in [Workers -> Nat] /\ quote' \in [Requests -> Nat \cup {None}]
    BY <1>b DEF TypeOK
  <2> QED
    BY <1>a, <1>b, <2>1, MovesEffect DEF Note
<1>1. CASE CloneOwner(r)
  <2> DEFINE owner == clone[User(r)].owner
             step == AfterOwner(r, owner)
             s == [view |-> [Blank EXCEPT !.owner = owner],
                   nonce |-> IF step = "slot" THEN quote[r] ELSE 0]
  <2>0. /\ pc[r] = "owner" /\ Op(r) \in Ops \ {"deposit"}
        /\ Op(r) \in {"custody", "recovery"} => row[User(r)] # NoRow
    BY <1>0, <1>1 DEF CloneOwner, Fits, StepsOf, Ops
  <2>1. /\ step \in {"address", "nonce", "slot", "done"}
        /\ step \in StepsOf(Op(r))
        /\ step = "slot" => quote[r] \in Nat
    BY <1>0, <2>0 DEF AfterOwner, StepsOf, Ops
  <2>2. owner \in Addr
    BY <1>0 DEF Clones
  <2>3. CASE step = "done"
    <3>1. Answer(r, "error") /\ UNCHANGED <<db, chain, faults>>
      BY <1>1, <2>3 DEF CloneOwner
    <3> QED
      BY <1>0, <1>a, <3>1, AnswerEffect
  <2>4. CASE step # "done"
    <3>1. /\ Note(r, s) /\ Goto(r, step)
          /\ UNCHANGED <<body, slot, todo, current, reply, quote, db, chain, faults>>
      BY <1>1, <2>4 DEF CloneOwner
    <3>2. s \in Seen
      <4> HIDE DEF owner, step
      <4>1. [Blank EXCEPT !.owner = owner] \in View
        BY <1>0, <2>2, ViewFacts
      <4> QED
        BY <2>1, <4>1, ViewFacts
    <3>3. Fits(r, step, s) /\ step \in Steps \ {"ensure"}
      <4> HIDE DEF owner, step, s
      <4> QED
        BY <2>0, <2>1 DEF Fits, Steps
    <3> HIDE DEF owner, step, s
    <3> QED
      BY <1>b, <3>1, <3>2, <3>3
  <2> QED
    BY <2>3, <2>4
<1>2. CASE CloneRecoveryAddress(r)
  <2> DEFINE s == [seen[r] EXCEPT !.view.address = clone[User(r)].address]
  <2>1. s \in Seen
    BY <1>0 DEF Seen, View, Clones
  <2>2. Fits(r, "delay", s)
    BY <1>0, <1>2 DEF CloneRecoveryAddress, Fits, StepsOf, Ops
  <2>3. /\ Note(r, s) /\ Goto(r, "delay")
        /\ UNCHANGED <<body, slot, todo, current, reply, quote, db, chain, faults>>
    BY <1>2 DEF CloneRecoveryAddress
  <2> HIDE DEF s
  <2> QED
    BY <1>b, <2>1, <2>2, <2>3 DEF Steps
<1>3. CASE CloneRecoveryDelay(r)
  <2> DEFINE s == [seen[r] EXCEPT !.view.armed = clone[User(r)].armed]
  <2>1. s \in Seen
    BY <1>0 DEF Seen, View, Clones
  <2>2. Fits(r, "requested", s)
    BY <1>0, <1>3 DEF CloneRecoveryDelay, Fits, StepsOf, Ops
  <2>3. /\ Note(r, s) /\ Goto(r, "requested")
        /\ UNCHANGED <<body, slot, todo, current, reply, quote, db, chain, faults>>
    BY <1>3 DEF CloneRecoveryDelay
  <2> HIDE DEF s
  <2> QED
    BY <1>b, <2>1, <2>2, <2>3 DEF Steps
<1>4. CASE CloneRecoveryRequestedAt(r)
  <2> DEFINE s == [seen[r] EXCEPT !.view.pending = clone[User(r)].pending]
  <2>1. s \in Seen
    BY <1>0 DEF Seen, View, Clones
  <2>2. Fits(r, "cache", s)
    BY <1>0, <1>4 DEF CloneRecoveryRequestedAt, Fits, StepsOf, Ops
  <2>3. /\ Note(r, s) /\ Goto(r, "cache")
        /\ UNCHANGED <<body, slot, todo, current, reply, quote, db, chain, faults>>
    BY <1>4 DEF CloneRecoveryRequestedAt
  <2> HIDE DEF s
  <2> QED
    BY <1>b, <2>1, <2>2, <2>3 DEF Steps
<1>5. CASE CloneNonce(r)
  <2> DEFINE n == clone[User(r)].nonce
  <2>0. n \in Nat /\ pc[r] = "nonce" /\ Op(r) \in Ops \ {"deposit", "recovery"}
        /\ (Op(r) = "custody" => row[User(r)] # NoRow)
    BY <1>0, <1>5 DEF CloneNonce, Clones, Fits, StepsOf, Ops
  <2>1. CASE Op(r) = "prepareClaim"
    BY <1>0, <1>5, <1>a, <2>1, AnswerEffect DEF CloneNonce
  <2>2. CASE Op(r) = "setRecovery" /\ quote[r] = None
    <3>1. /\ quote' = [quote EXCEPT ![r] = n] /\ Goto(r, "start")
          /\ UNCHANGED <<body, seen, slot, todo, current, reply, db, chain, faults>>
      BY <1>5, <2>2 DEF CloneNonce
    <3>2. Fits(r, "start", seen[r])
      BY <2>2 DEF Fits, StepsOf
    <3>3. /\ slot' \in [Workers -> Nat] /\ quote' \in [Requests -> Nat \cup {None}]
          /\ seen' = [seen EXCEPT ![r] = seen[r]]
      BY <1>0, <2>0, <3>1 DEF TypeOK
    <3> QED
      BY <1>0, <1>a, <3>1, <3>2, <3>3, MovesEffect DEF Steps
  <2>3. CASE Op(r) # "prepareClaim" /\ ~(Op(r) = "setRecovery" /\ quote[r] = None)
    <3> DEFINE s == [seen[r] EXCEPT !.nonce = n]
    <3>1. PICK step \in {"cache", "slot"} :
            /\ Op(r) = "custody" <=> step = "cache"
            /\ Note(r, s) /\ Goto(r, step)
            /\ UNCHANGED <<body, slot, todo, current, reply, quote, db, chain, faults>>
      BY <1>5, <2>3 DEF CloneNonce
    <3>2. s \in Seen
      BY <1>0, <2>0 DEF Seen
    <3>3. Fits(r, step, s) /\ step \in Steps \ {"ensure"}
      BY <2>0, <2>3, <3>1 DEF Fits, StepsOf, Ops, Steps
    <3> HIDE DEF s
    <3> QED
      BY <1>b, <3>1, <3>2, <3>3
  <2> QED
    BY <2>1, <2>2, <2>3
<1>6. ASSUME ReadFails(r), faults' \in Nat PROVE RequestEffect(r)
  <2>0. pc[r] \in Reads /\ UNCHANGED <<db, chain>> /\ Op(r) # "reconcile"
    BY <1>0, <1>6 DEF ReadFails, Ops
  <2>1. CASE \E from \in {"ok", "error"} : Answer(r, from)
    BY <1>0, <1>6, <2>0, <2>1, AnswerEffect
  <2>2. CASE Fallback(r)
    BY <1>6, <2>0, <2>2, AnswerEffect DEF Fallback
  <2>3. CASE Moves(r, "cache") /\ Op(r) = "custody"
    <3>1. Fits(r, "cache", seen[r])
      BY <1>0, <2>0, <2>3 DEF Fits, StepsOf, Reads
    <3> QED
      BY <1>6, <2>0, <2>3, <3>1, PlainMove DEF Steps
  <2> QED
    BY <1>6, <2>0, <2>1, <2>2, <2>3 DEF ReadFails
<1>7. CASE NodeSilent(r)
  BY <1>a, <1>6, <1>7 DEF NodeSilent
<1>8. CASE ReadOutage(r)
  BY <1>6, <1>8, FaultCounts DEF ReadOutage
<1>9. CASE StatementFails(r)
  <2>1. faults' \in Nat /\ UNCHANGED <<db, chain>>
    BY <1>9, FaultCounts DEF StatementFails
  <2>2. \/ Answer(r, "ok") \/ Answer(r, "error")
        \/ Answer(r, "chain")
    BY <1>0, <1>9 DEF StatementFails, Shown
  <2> QED
    BY <1>0, <2>1, <2>2, AnswerEffect
<1> QED
  BY <1>1, <1>2, <1>3, <1>4, <1>5, <1>7, <1>8, <1>9 DEF Read, Failure

-----------------------------------------------------------------------------
(* What a step of the reconciler does.                                     *)

\* It moves on, having read s, and writes at most the row of the clone it is
\* visiting, which has one.
ReconcilerEffect ==
    /\ faults' \in Nat
    /\ \E step \in StepsOf("reconcile"), s \in Seen :
         /\ pc' = [pc EXCEPT ![Reconciler] = step]
         /\ seen' = [seen EXCEPT ![Reconciler] = s]
         /\ step \notin {"idle", "next"} => current' \in Users
    /\ todo' \subseteq Users /\ current' \in Users \cup {None}
    /\ \/ UNCHANGED row
       \/ /\ current \in Users /\ row[current] # NoRow
          /\ \E v \in View : row' = [row EXCEPT ![current] = v]
    /\ UNCHANGED <<body, slot, reply, quote, link, chain>>

LEMMA ReconcilerSteps ==
    ASSUME TypeOK, Flow, Reconcile \/ Failure(Reconciler) PROVE ReconcilerEffect
<1> DEFINE w == Reconciler
           here == <<body, slot, reply, quote, db, chain>>
<1>0. /\ Op(w) = "reconcile" /\ User(w) = current /\ w \in Workers /\ w \notin Requests /\ seen[w] \in Seen
      /\ pc[w] \in StepsOf("reconcile") /\ faults \in Nat /\ Unread \in Seen
      /\ pc[w] \notin {"idle", "next"} => current \in Users /\ clone[current] \in Clones
      /\ StepsOf("reconcile") = {"idle", "next", "owner", "address", "delay", "requested", "cache"}
      /\ todo \subseteq Users /\ current \in Users \cup {None}
  BY ViewFacts DEF Flow, TypeOK, Op, User, Workers, StepsOf, Seen
<1>a. ASSUME NEW step \in StepsOf("reconcile"), NEW s \in Seen, Goto(w, step), Note(w, s), faults' \in Nat,
             pc[w] \notin {"idle", "next"}, UNCHANGED <<todo, current>>, UNCHANGED here
      PROVE  ReconcilerEffect
  BY <1>0, <1>a DEF ReconcilerEffect, Goto, Note, db
<1>1. CASE Tick
  <2>1. /\ pc' = [pc EXCEPT ![w] = "next"] /\ seen' = [seen EXCEPT ![w] = seen[w]]
        /\ todo' \subseteq Users /\ current' = current /\ faults' = faults /\ row' = row
        /\ UNCHANGED <<body, slot, reply, quote, link, chain>>
    BY <1>0, <1>1 DEF Tick, Goto, db, TypeOK
  <2> QED
    BY <1>0, <2>1 DEF ReconcilerEffect
<1>2. CASE NextClone
  <2>1. /\ seen' = [seen EXCEPT ![w] = seen[w]] /\ faults' = faults /\ row' = row
        /\ UNCHANGED <<body, slot, reply, quote, link, chain>>
    BY <1>0, <1>2 DEF NextClone, db, TypeOK
  <2>2. CASE todo' = todo /\ current' = None /\ Goto(w, "idle")
    BY <1>0, <2>1, <2>2 DEF ReconcilerEffect, Goto
  <2>3. CASE \E u \in todo : current' = u /\ todo' = todo \ {u} /\ Goto(w, "owner")
    BY <1>0, <2>1, <2>3 DEF ReconcilerEffect, Goto
  <2> QED
    BY <1>2, <2>2, <2>3 DEF NextClone
<1>3. CASE Refresh
  <2>1. Snapshot(w) \in View
    BY <1>0 DEF Snapshot, Seen
  <2>2. \/ UNCHANGED row
        \/ row[current] # NoRow /\ \E v \in View : row' = [row EXCEPT ![current] = v]
    <3>1. CASE row[current] = NoRow
      BY <1>0, <1>3, <3>1 DEF Refresh, CacheRecovery, TypeOK
    <3>2. CASE row[current] # NoRow
      BY <1>0, <1>3, <2>1, <3>2 DEF Refresh, CacheRecovery
    <3> QED
      BY <3>1, <3>2
  <2>3. /\ pc' = [pc EXCEPT ![w] = "next"] /\ seen' = [seen EXCEPT ![w] = Unread]
        /\ UNCHANGED <<body, slot, todo, current, reply, quote, link, chain, faults>>
    BY <1>3 DEF Refresh, Goto, Note
  <2>4. current \in Users
    BY <1>0, <1>3 DEF Refresh
  <2> QED
    BY <1>0, <2>2, <2>3, <2>4 DEF ReconcilerEffect
<1>4. ASSUME ReconcileFails, UNCHANGED <<db, chain>>, faults' \in Nat, pc[w] \notin {"idle", "next"}
      PROVE  ReconcilerEffect
  BY <1>0, <1>4, <1>a DEF ReconcileFails, NextAfterError
<1>5. CASE Read(w)
  <2>1. CASE CloneOwner(w)
    <3> DEFINE s == [view |-> [Blank EXCEPT !.owner = clone[current].owner], nonce |-> 0]
    <3>1. AfterOwner(w, clone[current].owner) = "address"
      BY <1>0 DEF AfterOwner
    <3>2. s \in Seen
      BY <1>0, <2>1, ViewFacts DEF CloneOwner, Clones
    <3>3. /\ Note(w, s) /\ Goto(w, "address") /\ pc[w] = "owner"
          /\ UNCHANGED <<body, slot, todo, current, reply, quote, db, chain, faults>>
      BY <1>0, <2>1, <3>1 DEF CloneOwner
    <3> HIDE DEF s
    <3> QED
      BY <1>0, <1>a, <3>2, <3>3
  <2>2. CASE CloneRecoveryAddress(w)
    <3> DEFINE s == [seen[w] EXCEPT !.view.address = clone[current].address]
    <3>1. s \in Seen
      BY <1>0, <2>2 DEF CloneRecoveryAddress, Seen, View, Clones
    <3>2. /\ Note(w, s) /\ Goto(w, "delay") /\ pc[w] = "address"
          /\ UNCHANGED <<body, slot, todo, current, reply, quote, db, chain, faults>>
      BY <1>0, <2>2 DEF CloneRecoveryAddress
    <3> HIDE DEF s
    <3> QED
      BY <1>0, <1>a, <3>1, <3>2
  <2>3. CASE CloneRecoveryDelay(w)
    <3> DEFINE s == [seen[w] EXCEPT !.view.armed = clone[current].armed]
    <3>1. s \in Seen
      BY <1>0, <2>3 DEF CloneRecoveryDelay, Seen, View, Clones
    <3>2. /\ Note(w, s) /\ Goto(w, "requested") /\ pc[w] = "delay"
          /\ UNCHANGED <<body, slot, todo, current, reply, quote, db, chain, faults>>
      BY <1>0, <2>3 DEF CloneRecoveryDelay
    <3> HIDE DEF s
    <3> QED
      BY <1>0, <1>a, <3>1, <3>2
  <2>4. CASE CloneRecoveryRequestedAt(w)
    <3> DEFINE s == [seen[w] EXCEPT !.view.pending = clone[current].pending]
    <3>1. s \in Seen
      BY <1>0, <2>4 DEF CloneRecoveryRequestedAt, Seen, View, Clones
    <3>2. /\ Note(w, s) /\ Goto(w, "cache") /\ pc[w] = "requested"
          /\ UNCHANGED <<body, slot, todo, current, reply, quote, db, chain, faults>>
      BY <1>0, <2>4 DEF CloneRecoveryRequestedAt
    <3> HIDE DEF s
    <3> QED
      BY <1>0, <1>a, <3>1, <3>2
  <2>5. ~CloneNonce(w)
    BY <1>0 DEF CloneNonce
  <2>6. CASE NodeSilent(w)
    BY <1>0, <1>4, <2>6 DEF NodeSilent, ReadFails, Reads
  <2> QED
    BY <1>5, <2>1, <2>2, <2>3, <2>4, <2>5, <2>6 DEF Read
<1>6. CASE Failure(w)
  <2>1. faults' \in Nat
    BY <1>6, FaultCounts DEF Failure, ReadOutage, StatementFails
  <2>2. ReconcileFails /\ UNCHANGED <<db, chain>> /\ pc[w] \notin {"idle", "next"}
    BY <1>0, <1>6 DEF Failure, ReadOutage, ReadFails, StatementFails, Reads
  <2> QED
    BY <1>4, <2>1, <2>2
<1> QED
  BY <1>1, <1>2, <1>3, <1>5, <1>6 DEF Reconcile

-----------------------------------------------------------------------------
(* Every step preserves the invariant.                                     *)

LEMMA NextEffect ==
    ASSUME TypeOK, Flow, Next
    PROVE  \/ \E r \in Requests : RequestEffect(r)
           \/ ReconcilerEffect
           \/ Mine \/ DropTx \/ NodeReset
           \/ \E u \in Users : WalletCall(u) \/ LinkWallet(u)
<1>1. ASSUME NEW w \in Workers, Failure(w)
      PROVE  ReconcilerEffect \/ \E r \in Requests : RequestEffect(r)
  BY <1>1, ReadSteps, ReconcilerSteps DEF Workers
<1> QED
  BY <1>1, RequestSteps, ReadSteps, ReconcilerSteps DEF Next, Environment

\* What a request broadcasts is a transaction, and its account asked for it.
LEMMA TxFacts ==
    ASSUME TypeOK, Flow, NEW r \in Requests, pc[r] = "send"
    PROVE  /\ Tx(r) \in Txs /\ AskedFor(Tx(r)) /\ Tx(r).slot = slot[r]
           /\ Op(r) = "deposit" => Tx(r).kind = "create" /\ Tx(r).user = User(r)
<1>0. /\ Op(r) \in {"deposit", "claim", "setRecovery"} /\ User(r) \in Users
      /\ Op(r) = "deposit" => Named(User(r), seen[r].view.owner)
    BY RequestFields DEF Flow, Fits, StepsOf, Ops
<1>1. /\ Op(r) = body[r].op /\ User(r) = body[r].user /\ body[r].addr \in Addr /\ slot[r] \in Nat
      /\ seen[r].nonce \in Nat /\ Wallet[User(r)] \in Addr
  BY RequestFields DEF Seen
<1>2. /\ Tx(r).user = User(r) /\ Tx(r).slot = slot[r] /\ Tx(r).nonce = seen[r].nonce
      /\ Tx(r).addr = IF Op(r) = "deposit" THEN seen[r].view.owner ELSE body[r].addr
      /\ Tx(r).signer = IF Op(r) = "setRecovery" THEN Wallet[User(r)] ELSE Platform
      /\ Op(r) = "deposit" => Tx(r).kind = "create"
      /\ Op(r) = "claim" => Tx(r).kind = "transfer"
      /\ Op(r) = "setRecovery" => Tx(r).kind = "recovery"
  BY DEF Tx
<1>3. Tx(r).addr \in Addr
  BY <1>0, <1>1, <1>2 DEF Named
<1>4. Tx(r) \in Txs
  BY <1>0, <1>1, <1>3 DEF Tx, Txs
<1>5. Names(Op(r), User(r), body[r].addr)
  BY <1>1 DEF Names, Asked
<1>6. AskedFor(Tx(r))
  BY <1>0, <1>1, <1>2, <1>5 DEF AskedFor
<1> QED
  BY <1>2, <1>4, <1>6

\* What a transaction makes of a clone, field by field.
LEMMA EffectFacts ==
    ASSUME NEW t \in Txs, NEW c \in Clones, c.pending => c.armed
    PROVE  /\ Effect(t, c) \in Clones /\ (Effect(t, c).pending => Effect(t, c).armed)
           /\ t.kind = "create" => Effect(t, c).owner = t.addr /\ Effect(t, c).address = None
           /\ t.kind = "transfer" => Effect(t, c).owner = t.addr /\ Effect(t, c).address = c.address
           /\ t.kind = "recovery" => Effect(t, c).owner = c.owner /\ Effect(t, c).address = t.addr
<1>0. /\ t.kind \in {"create", "transfer", "recovery"} /\ t.addr \in Addr
      /\ NoClone \in Clones /\ ~NoClone.pending /\ NoClone.address = None
  BY DEF Txs, NoClone, Clones
<1>n. PICK n \in Nat : n = c.nonce + 1
  BY DEF Clones
<1>1. CASE t.kind = "create"
  <2>1. Effect(t, c) = [NoClone EXCEPT !.owner = t.addr]
    BY <1>1 DEF Effect
  <2> QED
    BY <1>0, <1>1, <2>1 DEF Clones, NoClone
<1>2. CASE t.kind = "transfer"
  <2>1. Effect(t, c) = [c EXCEPT !.owner = t.addr, !.nonce = n]
    BY <1>2, <1>n DEF Effect
  <2>2. /\ Effect(t, c).owner = t.addr /\ Effect(t, c).address = c.address
        /\ Effect(t, c).pending = c.pending /\ Effect(t, c).armed = c.armed
    BY <2>1 DEF Clones
  <2>3. Effect(t, c) \in Clones
    BY <1>0, <1>n, <2>1 DEF Clones
  <2> QED
    BY <1>2, <2>2, <2>3
<1>3. CASE t.kind = "recovery"
  <2>1. Effect(t, c) = [c EXCEPT !.address = t.addr, !.pending = FALSE, !.nonce = n]
    BY <1>3, <1>n DEF Effect
  <2>2. /\ Effect(t, c).owner = c.owner /\ Effect(t, c).address = t.addr
        /\ ~Effect(t, c).pending
    BY <2>1 DEF Clones
  <2>3. Effect(t, c) \in Clones
    BY <1>0, <1>n, <2>1 DEF Clones
  <2> QED
    BY <1>3, <2>2, <2>3
<1> QED
  BY <1>0, <1>1, <1>2, <1>3

\* A call of others names an address: the owner of a new clone, the owner's
\* successor, or a recovery address.
Chooses(u, c, a) ==
    \/ /\ clone[u].owner = Zero /\ c.owner = a /\ c.address = None
       /\ Does(u, "create", Zero, a)
    \/ /\ clone[u].owner # Zero /\ c.owner = a /\ c.address = clone[u].address
       /\ Does(u, "transfer", clone[u].owner, a)
    \/ /\ clone[u].owner # Zero /\ c.owner = clone[u].owner /\ c.address = a
       /\ Does(u, "designate", clone[u].owner, a)

\* Or it names none, and moves the seat to the recovery address at most.
Serves(u, c) ==
    /\ clone[u].owner # Zero /\ c.address = clone[u].address /\ own' = own
    /\ c.owner = clone[u].owner \/ (c.owner = clone[u].address /\ clone[u].address # None)

\* What a call of others makes of a clone.
LEMMA WalletFacts ==
    ASSUME TypeOK, NEW u \in Users, WalletCall(u)
    PROVE  \E c \in Clones :
             /\ clone' = [clone EXCEPT ![u] = c] /\ (c.pending => c.armed)
             /\ Serves(u, c) \/ \E a \in Callees : Chooses(u, c, a)
<1>0. /\ clone[u] \in Clones /\ (clone[u].pending => clone[u].armed)
      /\ clone[u].address # None => clone[u].address \in Addr
      /\ \A a \in Callees : a \in Addr /\ a # Zero
  BY DEF TypeOK, Clones
<1>n. PICK n1 \in Nat : n1 = clone[u].nonce + 1
  BY <1>0 DEF Clones
<1>1. CASE CreateCall(u)
  <2>1. PICK a \in Callees : SetClone(u, [NoClone EXCEPT !.owner = a]) /\ Does(u, "create", Zero, a)
    BY <1>1 DEF CreateCall
  <2>2. PICK c : c = [NoClone EXCEPT !.owner = a]
    OBVIOUS
  <2>3. c \in Clones /\ ~c.pending /\ c.owner = a /\ c.address = None
    BY <1>0, <2>2 DEF NoClone, Clones
  <2>4. Chooses(u, c, a)
    BY <1>1, <2>1, <2>3 DEF Chooses, CreateCall, Deployed
  <2> QED
    BY <2>1, <2>2, <2>3, <2>4 DEF SetClone
<1>2. CASE OwnerCall(u)
  <2>0. clone[u].owner # Zero
    BY <1>2 DEF OwnerCall
  <2>1. PICK a \in Callees :
          \/ /\ SetClone(u, [clone[u] EXCEPT !.owner = a, !.nonce = n1])
             /\ Does(u, "transfer", clone[u].owner, a)
          \/ \E n \in {clone[u].nonce, n1} :
               /\ SetClone(u, [clone[u] EXCEPT !.address = a, !.pending = FALSE, !.nonce = n])
               /\ Does(u, "designate", clone[u].owner, a)
    BY <1>2, <1>n DEF OwnerCall
  <2>2. CASE /\ SetClone(u, [clone[u] EXCEPT !.owner = a, !.nonce = n1])
             /\ Does(u, "transfer", clone[u].owner, a)
    <3>1. PICK c : c = [clone[u] EXCEPT !.owner = a, !.nonce = n1]
      OBVIOUS
    <3>2. /\ c \in Clones /\ c.pending = clone[u].pending /\ c.armed = clone[u].armed
          /\ c.owner = a /\ c.address = clone[u].address
      BY <1>0, <3>1 DEF Clones
    <3>3. Chooses(u, c, a)
      BY <2>0, <2>2, <3>2 DEF Chooses
    <3> QED
      BY <1>0, <2>2, <3>1, <3>2, <3>3 DEF SetClone
  <2>3. ASSUME NEW n \in {clone[u].nonce, n1},
               SetClone(u, [clone[u] EXCEPT !.address = a, !.pending = FALSE, !.nonce = n]),
               Does(u, "designate", clone[u].owner, a)
        PROVE  \E c \in Clones :
                 /\ clone' = [clone EXCEPT ![u] = c] /\ (c.pending => c.armed)
                 /\ \E b \in Callees : Chooses(u, c, b)
    <3>0. n \in Nat
      BY <1>0 DEF Clones
    <3>1. PICK c : c = [clone[u] EXCEPT !.address = a, !.pending = FALSE, !.nonce = n]
      OBVIOUS
    <3>2. /\ c \in Clones /\ ~c.pending /\ c.owner = clone[u].owner /\ c.address = a
      BY <1>0, <3>0, <3>1 DEF Clones
    <3>3. Chooses(u, c, a)
      BY <2>0, <2>3, <3>2 DEF Chooses
    <3> QED
      BY <2>3, <3>1, <3>2, <3>3 DEF SetClone
  <2> QED
    BY <2>1, <2>2, <2>3
<1>3. CASE OtherCall(u)
  <2>0. clone[u].owner # Zero /\ own' = own
    BY <1>3 DEF OtherCall, Deployed
  <2>a. ASSUME NEW c \in Clones, SetClone(u, c), c.pending => c.armed,
               c.address = clone[u].address,
               c.owner = clone[u].owner \/ (c.owner = clone[u].address /\ clone[u].address # None)
        PROVE  \E d \in Clones :
                 clone' = [clone EXCEPT ![u] = d] /\ (d.pending => d.armed) /\ Serves(u, d)
    BY <2>0, <2>a DEF SetClone, Serves
  <2> DEFINE c1 == [clone[u] EXCEPT !.armed = TRUE]
             c2 == [clone[u] EXCEPT !.armed = FALSE, !.pending = FALSE]
             c3 == [clone[u] EXCEPT !.pending = TRUE]
             c4 == [clone[u] EXCEPT !.pending = FALSE]
             c5 == [clone[u] EXCEPT !.owner = clone[u].address, !.pending = FALSE, !.armed = FALSE]
             c6 == [clone[u] EXCEPT !.nonce = n1]
  <2>1. CASE SetClone(u, c1)
    <3>1. c1 \in Clones /\ c1.armed /\ c1.address = clone[u].address /\ c1.owner = clone[u].owner
      BY <1>0 DEF Clones
    <3> QED
      BY <2>1, <2>a, <3>1
  <2>2. CASE SetClone(u, c2)
    <3>1. c2 \in Clones /\ ~c2.pending /\ c2.address = clone[u].address /\ c2.owner = clone[u].owner
      BY <1>0 DEF Clones
    <3> QED
      BY <2>2, <2>a, <3>1
  <2>3. CASE clone[u].armed /\ SetClone(u, c3)
    <3>1. c3 \in Clones /\ c3.armed /\ c3.address = clone[u].address /\ c3.owner = clone[u].owner
      BY <1>0, <2>3 DEF Clones
    <3> QED
      BY <2>3, <2>a, <3>1
  <2>4. CASE SetClone(u, c4)
    <3>1. c4 \in Clones /\ ~c4.pending /\ c4.address = clone[u].address /\ c4.owner = clone[u].owner
      BY <1>0 DEF Clones
    <3> QED
      BY <2>4, <2>a, <3>1
  <2>5. CASE clone[u].address # None /\ SetClone(u, c5)
    <3>1. /\ c5 \in Clones /\ ~c5.pending /\ c5.address = clone[u].address
          /\ c5.owner = clone[u].address
      BY <1>0, <2>5 DEF Clones
    <3> QED
      BY <2>5, <2>a, <3>1
  <2>6. CASE SetClone(u, c6)
    <3>1. /\ c6 \in Clones /\ c6.pending = clone[u].pending /\ c6.armed = clone[u].armed
          /\ c6.address = clone[u].address /\ c6.owner = clone[u].owner
      BY <1>0 DEF Clones
    <3> QED
      BY <1>0, <2>6, <2>a, <3>1
  <2> QED
    BY <1>3, <1>n, <2>1, <2>2, <2>3, <2>4, <2>5, <2>6 DEF OtherCall
<1> QED
  BY <1>1, <1>2, <1>3 DEF WalletCall

LEMMA TypeStep == ASSUME TypeOK, Flow, [Next]_vars PROVE TypeOK'
<1>1. CASE UNCHANGED vars
  BY <1>1 DEF TypeOK, vars, workers, db, chain, Deployed
<1>2. ASSUME NEW r \in Requests, RequestEffect(r) PROVE TypeOK'
  <2>1. PICK step \in Steps, s \in Seen :
          /\ Works(r, step, s)
          /\ UNCHANGED <<db, chain>> \/ Stores(r) \/ Sends(r)
    BY <1>2 DEF RequestEffect
  <2>2. /\ body' \in Workloads /\ pc' \in [Workers -> Steps] /\ seen' \in [Workers -> Seen]
        /\ slot' \in [Workers -> Nat] /\ todo' \subseteq Users /\ current' \in Users \cup {None}
        /\ reply' \in [Requests -> Replies] /\ quote' \in [Requests -> Nat \cup {None}]
    BY <2>1 DEF Works, TypeOK, Seen
  <2>3. /\ row' \in [Users -> View \cup {NoRow}] /\ link' = link /\ clone' = clone /\ mined' = mined
        /\ wallet' = wallet /\ own' = own
    BY <2>1 DEF Stores, Sends, db, chain, TypeOK
  <2>4. /\ mempool' \in SUBSET Txs /\ IsFiniteSet(mempool') /\ lost' \in [Users -> BOOLEAN]
        /\ \A t1, t2 \in mempool' : t1.slot = t2.slot => t1 = t2
        /\ \A t \in mempool' : t.slot >= mined
    <3>1. CASE UNCHANGED chain
      BY <3>1 DEF chain, TypeOK
    <3>2. CASE Sends(r)
      <4> DEFINE tx == Tx(r)
      <4>1. /\ tx \in Txs /\ tx.slot = slot[r] /\ slot[r] >= mined
            /\ mempool' = (mempool \ Rivals(r)) \cup {tx}
        BY <3>2, TxFacts DEF Sends
      <4>2. IsFiniteSet(mempool')
        <5>1. mempool' \subseteq mempool \cup {tx}
          BY <4>1
        <5>2. IsFiniteSet(mempool \cup {tx})
          BY FS_AddElement DEF TypeOK
        <5> QED
          BY <5>1, <5>2, FS_Subset
      <4>3. \A t \in mempool' : t = tx \/ (t \in mempool /\ t.slot # slot[r])
        BY <4>1 DEF Rivals
      <4>4. lost' \in [Users -> BOOLEAN]
        BY <3>2 DEF Sends, TypeOK
      <4> HIDE DEF tx
      <4> QED
        BY <4>1, <4>2, <4>3, <4>4 DEF TypeOK
    <3> QED
      BY <2>1, <3>1, <3>2 DEF Stores
  <2>5. faults' \in Nat
    BY <1>2 DEF RequestEffect
  <2> QED
    BY <2>2, <2>3, <2>4, <2>5 DEF TypeOK, Seen
<1>3. CASE ReconcilerEffect
  <2>1. PICK step \in StepsOf("reconcile"), s \in Seen :
          pc' = [pc EXCEPT ![Reconciler] = step] /\ seen' = [seen EXCEPT ![Reconciler] = s]
    BY <1>3 DEF ReconcilerEffect
  <2>2. step \in Steps
    BY DEF StepsOf, Steps
  <2>3. pc' \in [Workers -> Steps] /\ seen' \in [Workers -> Seen]
    BY <2>1, <2>2 DEF TypeOK, Seen
  <2>4. row' \in [Users -> View \cup {NoRow}]
    BY <1>3 DEF ReconcilerEffect, TypeOK
  <2>5. /\ faults' \in Nat /\ todo' \subseteq Users /\ current' \in Users \cup {None}
        /\ UNCHANGED <<body, slot, reply, quote, link, clone, mempool, mined, lost, wallet, own>>
    BY <1>3 DEF ReconcilerEffect, chain
  <2> QED
    BY <2>3, <2>4, <2>5 DEF TypeOK, Seen
<1>4. CASE Mine
  <2>1. PICK t \in mempool : Mine!(t)
    BY <1>4 DEF Mine
  <2>2. t \in Txs /\ clone[t.user] \in Clones /\ t.user \in Users /\ t.addr \in Addr /\ t.nonce \in Nat
    BY DEF TypeOK, Txs
  <2>3. /\ Effect(t, clone[t.user]) \in Clones
        /\ Effect(t, clone[t.user]).pending => Effect(t, clone[t.user]).armed
    <3>1. clone[t.user].pending => clone[t.user].armed
      BY <2>2 DEF TypeOK
    <3> QED
      BY <2>2, <3>1, EffectFacts
  <2>4. /\ clone' \in [Users -> Clones] /\ \A u \in Users : clone'[u].pending => clone'[u].armed
        /\ lost' \in [Users -> BOOLEAN] /\ faults' \in Nat
    <3>1. CASE UNCHANGED <<clone, lost>>
      BY <2>1, <3>1, FaultCounts DEF TypeOK
    <3>2. CASE /\ SetClone(t.user, Effect(t, clone[t.user]))
               /\ lost' = [lost EXCEPT ![t.user] = @ /\ t.kind # "create"]
               /\ UNCHANGED faults
      <4> DEFINE c == Effect(t, clone[t.user])
      <4>1. clone' = [clone EXCEPT ![t.user] = c] /\ c \in Clones /\ (c.pending => c.armed)
        BY <2>3, <3>2 DEF SetClone
      <4> HIDE DEF c
      <4> QED
        BY <2>2, <3>2, <4>1 DEF TypeOK
    <3> QED
      BY <2>1, <3>1, <3>2
  <2>5. mempool' \in SUBSET Txs /\ IsFiniteSet(mempool') /\ mined' \in Nat
        /\ (\A t1, t2 \in mempool' : t1.slot = t2.slot => t1 = t2)
        /\ \A t1 \in mempool' : t1.slot >= mined'
    <3>1. IsFiniteSet(mempool')
      BY <2>1, FS_Subset DEF TypeOK
    <3>2. mined \in Nat /\ mined' = mined + 1 /\ mempool' \subseteq mempool /\ mempool \subseteq Txs
      BY <2>1 DEF TypeOK
    <3>3. \A t1 \in mempool' : t1.slot >= mined'
      <4> SUFFICES ASSUME NEW t1 \in mempool' PROVE t1.slot >= mined'
        OBVIOUS
      <4>1. t1 \in mempool /\ t1 # t /\ t1 \in Txs /\ t.slot = mined
        BY <2>1, <3>2
      <4>2. t1.slot \in Nat /\ t1.slot >= mined /\ t1.slot # mined
        BY <4>1 DEF TypeOK, Txs
      <4> QED
        <5>1. \A n \in Nat : n >= mined /\ n # mined => n >= mined + 1
          BY <3>2
        <5> QED
          BY <3>2, <4>2, <5>1
    <3>4. \A t1, t2 \in mempool' : t1.slot = t2.slot => t1 = t2
      BY <3>2 DEF TypeOK
    <3> QED
      BY <3>1, <3>2, <3>3, <3>4
  <2>6. UNCHANGED <<body, pc, seen, slot, todo, current, reply, quote, row, link, wallet, own>>
    BY <2>1 DEF Rest, workers, db
  <2> QED
    BY <2>4, <2>5, <2>6 DEF TypeOK
<1>5. CASE DropTx
  <2>1. PICK t \in mempool : DropTx!(t)
    BY <1>5 DEF DropTx
  <2>2. /\ UNCHANGED <<body, pc, seen, slot, todo, current, reply, quote, row, link, wallet, own, clone, mined>>
        /\ faults' \in Nat
    BY <2>1, FaultCounts DEF Rest, workers, db
  <2>3. /\ mempool' \in SUBSET mempool /\ IsFiniteSet(mempool') /\ lost' \in [Users -> BOOLEAN]
    BY <2>1, FS_Subset DEF TypeOK
  <2> QED
    BY <2>2, <2>3 DEF TypeOK
<1>6. CASE NodeReset
  <2>1. /\ UNCHANGED <<body, pc, seen, slot, todo, current, reply, quote, row, link, wallet, own>>
        /\ faults' \in Nat /\ mempool' = {} /\ mined' = 0 /\ clone' = [u \in Users |-> NoClone]
        /\ lost' \in [Users -> BOOLEAN]
    BY <1>6, FaultCounts DEF NodeReset, Rest, workers, db
  <2>2. NoClone \in Clones /\ ~NoClone.pending /\ IsFiniteSet({})
    BY FS_EmptySet DEF NoClone, Clones
  <2> QED
    BY <2>1, <2>2 DEF TypeOK
<1>7. ASSUME NEW u \in Users, WalletCall(u) PROVE TypeOK'
  <2>1. /\ UNCHANGED <<body, pc, seen, slot, todo, current, reply, quote, row, link, faults, mempool, mined, lost>>
        /\ wallet' \in Nat
    BY <1>7 DEF WalletCall, Rest, workers, db, TypeOK
  <2>3. PICK c \in Clones :
          /\ clone' = [clone EXCEPT ![u] = c] /\ (c.pending => c.armed)
          /\ Serves(u, c) \/ \E a \in Callees : Chooses(u, c, a)
    BY <1>7, WalletFacts
  <2>4. clone' \in [Users -> Clones] /\ \A v \in Users : clone'[v].pending => clone'[v].armed
    BY <2>3 DEF TypeOK
  <2>5. own' \subseteq Acts
    <3>1. \A a \in Callees : a \in Addr
      OBVIOUS
    <3>2. clone[u].owner \in Addr /\ Zero \in Addr /\ own \subseteq Acts
      BY DEF TypeOK, Clones
    <3> QED
      BY <2>3, <3>1, <3>2 DEF Serves, Chooses, Does, Acts
  <2> QED
    BY <2>1, <2>4, <2>5 DEF TypeOK
<1>8. ASSUME NEW u \in Users, LinkWallet(u) PROVE TypeOK'
  <2>1. /\ UNCHANGED <<body, pc, seen, slot, todo, current, reply, quote, row, faults, clone, mempool, mined, lost, own>>
        /\ wallet' \in Nat /\ link' \in [Users -> Addr \cup {None}]
    BY <1>8 DEF LinkWallet, workers, TypeOK
  <2> QED
    BY <2>1 DEF TypeOK
<1> QED
  BY <1>1, <1>2, <1>3, <1>4, <1>5, <1>6, <1>7, <1>8, NextEffect

\* Nothing takes a row or a link away, what a request asks stays the same, and
\* what others have done stays done.
LEMMA Kept ==
    ASSUME TypeOK, Flow, [Next]_vars
    PROVE  /\ UNCHANGED body /\ own \subseteq own'
           /\ \A u \in Users : /\ row[u] # NoRow => row'[u] # NoRow
                               /\ link'[u] \in {link[u], Wallet[u]}
                               /\ link[u] = Wallet[u] => link'[u] = Wallet[u]
<1>0. NoRow \notin View
  BY NoRowAssumption
<1>1. CASE UNCHANGED vars
  BY <1>1 DEF vars, db, chain
<1>2. ASSUME NEW r \in Requests, RequestEffect(r)
      PROVE  UNCHANGED <<body, link, own>> /\ \A u \in Users : row[u] # NoRow => row'[u] # NoRow
  <2>1. /\ UNCHANGED <<body, link, own>>
        /\ \/ UNCHANGED row
           \/ \E v \in View : row' = [row EXCEPT ![User(r)] = v]
    BY <1>2 DEF RequestEffect, Works, Stores, Sends, db, chain
  <2> QED
    BY <1>0, <2>1 DEF TypeOK
<1>3. CASE ReconcilerEffect
  BY <1>0, <1>3 DEF ReconcilerEffect, TypeOK, chain
<1>4. CASE Mine \/ DropTx \/ NodeReset
  BY <1>4 DEF Mine, DropTx, NodeReset, Rest, db
<1>7. CASE \E u \in Users : WalletCall(u)
  BY <1>7, WalletFacts DEF WalletCall, Serves, Chooses, Does, Rest, db
<1>5. ASSUME NEW u \in Users, LinkWallet(u)
      PROVE  UNCHANGED <<body, row, own>> /\ link' = [link EXCEPT ![u] = Wallet[u]]
  BY <1>5 DEF LinkWallet
<1>6. CASE \E u \in Users : LinkWallet(u)
  BY <1>5, <1>6 DEF TypeOK
<1> QED
  BY <1>1, <1>2, <1>3, <1>4, <1>6, <1>7, NextEffect

LEMMA FlowStep == ASSUME TypeOK, Flow, [Next]_vars PROVE Flow'
<1>0. /\ UNCHANGED body
      /\ \A u \in Users : /\ row[u] # NoRow => row'[u] # NoRow
                          /\ link'[u] \in {link[u], Wallet[u]}
                          /\ link[u] = Wallet[u] => link'[u] = Wallet[u]
  BY Kept
<1>1. ASSUME NEW r \in Requests, NEW step, NEW s, Fits(r, step, s), pc'[r] = step, seen'[r] = s
      PROVE  Fits(r, pc[r], seen[r])'
  <2>1. Op(r)' = Op(r) /\ User(r)' = User(r) /\ User(r) \in Users
    BY <1>0, RequestFields DEF Op, User
  <2>2. \A a : Named(User(r), a) => Named(User(r), a)'
    BY <1>0, <2>1 DEF Named
  <2> QED
    BY <1>0, <1>1, <2>1, <2>2 DEF Fits
<1>2. \A u \in Users : link'[u] \in {None, Wallet[u]}
  BY <1>0 DEF Flow
<1>3. ASSUME UNCHANGED workers PROVE Flow'
  <2>1. \A r \in Requests : Fits(r, pc[r], seen[r])'
    BY <1>1, <1>3 DEF Flow, workers
  <2>2. pc' = pc /\ current' = current
    BY <1>3 DEF workers
  <2> QED
    BY <1>2, <2>1, <2>2 DEF Flow
<1>4. ASSUME NEW r \in Requests, RequestEffect(r) PROVE Flow'
  <2>1. PICK step \in Steps, s \in Seen : Works(r, step, s) /\ Fits(r, step, s)
    BY <1>4 DEF RequestEffect
  <2>2. /\ pc'[r] = step /\ seen'[r] = s /\ UNCHANGED current
        /\ \A w \in Workers \ {r} : pc'[w] = pc[w] /\ seen'[w] = seen[w]
    BY <2>1, RequestFields DEF Works, TypeOK
  <2>3. \A q \in Requests : Fits(q, pc[q], seen[q])'
    <3> SUFFICES ASSUME NEW q \in Requests PROVE Fits(q, pc[q], seen[q])'
      OBVIOUS
    <3>1. CASE q = r
      BY <1>1, <2>1, <2>2, <3>1
    <3>2. CASE q # r
      BY <1>1, <2>2, <3>2, RequestFields DEF Flow
    <3> QED
      BY <3>1, <3>2
  <2>4. pc'[Reconciler] = pc[Reconciler]
    BY <2>2, RequestFields DEF Workers
  <2> QED
    BY <1>2, <2>2, <2>3, <2>4 DEF Flow
<1>5. CASE ReconcilerEffect
  <2>1. PICK step \in StepsOf("reconcile"), s \in Seen :
          /\ pc' = [pc EXCEPT ![Reconciler] = step] /\ seen' = [seen EXCEPT ![Reconciler] = s]
          /\ step \notin {"idle", "next"} => current' \in Users
    BY <1>5 DEF ReconcilerEffect
  <2>2. pc'[Reconciler] = step /\ \A r \in Requests : pc'[r] = pc[r] /\ seen'[r] = seen[r]
    BY <2>1, RequestFields DEF TypeOK, Workers
  <2>3. \A r \in Requests : Fits(r, pc[r], seen[r])'
    BY <1>1, <2>2 DEF Flow
  <2> QED
    BY <1>2, <2>1, <2>2, <2>3 DEF Flow
<1>6. CASE Mine \/ DropTx \/ NodeReset \/ \E u \in Users : WalletCall(u) \/ LinkWallet(u)
  BY <1>3, <1>6 DEF Mine, DropTx, NodeReset, WalletCall, LinkWallet, Rest
<1>7. CASE UNCHANGED vars
  BY <1>3, <1>7 DEF vars
<1> QED
  BY <1>4, <1>5, <1>6, <1>7, NextEffect

\* The signer account broadcasts only what was asked for, and no recovery
\* address is the zero address.
LEMMA SeatsStep == ASSUME TypeOK, Flow, Seats, [Next]_vars PROVE Seats'
<1>0. /\ \A op, u, a : Names(op, u, a)' <=> Names(op, u, a)
      /\ \A u \in Users : link[u] = Wallet[u] => link'[u] = Wallet[u]
  BY Kept DEF Names, Asked
<1>1. ASSUME NEW t \in Txs, AskedFor(t) PROVE AskedFor(t)'
  <2>1. t.user \in Users /\ t.kind \in {"create", "transfer", "recovery"}
    BY DEF Txs
  <2> QED
    BY <1>0, <1>1, <2>1 DEF AskedFor, Named
<1>2. ASSUME mempool' \subseteq mempool PROVE \A t \in mempool' : AskedFor(t)'
  BY <1>1, <1>2 DEF Seats, TypeOK
<1>3. ASSUME NEW u \in Users, NEW c \in Clones, c.address # Zero,
             clone' = [clone EXCEPT ![u] = c], mempool' \subseteq mempool
      PROVE  Seats'
  <2>1. \A v \in Users : clone'[v].address # Zero
    BY <1>3 DEF Seats, TypeOK
  <2> QED
    BY <1>2, <1>3, <2>1 DEF Seats
<1>4. ASSUME UNCHANGED clone, mempool' \subseteq mempool PROVE Seats'
  BY <1>2, <1>4 DEF Seats
<1>5. ASSUME NEW r \in Requests, RequestEffect(r) PROVE Seats'
  <2>1. CASE UNCHANGED chain
    BY <1>4, <2>1 DEF chain
  <2>2. CASE Sends(r)
    <3>1. mempool' = (mempool \ Rivals(r)) \cup {Tx(r)} /\ clone' = clone
      BY <2>2 DEF Sends
    <3>2. Tx(r) \in Txs /\ AskedFor(Tx(r))
      BY <2>2, TxFacts DEF Sends
    <3>3. \A t \in mempool' : t \in Txs /\ AskedFor(t)
      BY <3>1, <3>2 DEF Seats, TypeOK
    <3>4. \A t \in mempool' : AskedFor(t)'
      BY <1>1, <3>3
    <3> QED
      BY <3>1, <3>4 DEF Seats
  <2> QED
    BY <1>5, <2>1, <2>2 DEF RequestEffect, Stores
<1>6. CASE ReconcilerEffect
  BY <1>4, <1>6 DEF ReconcilerEffect, chain
<1>7. CASE Mine
  <2>1. PICK t \in mempool : Mine!(t)
    BY <1>7 DEF Mine
  <2>2. CASE UNCHANGED clone
    BY <1>4, <2>1, <2>2
  <2>3. CASE Accepted(t) /\ SetClone(t.user, Effect(t, clone[t.user]))
    <3>1. /\ t.user \in Users /\ t \in Txs /\ t.kind \in {"create", "transfer", "recovery"}
          /\ clone[t.user] \in Clones /\ (clone[t.user].pending => clone[t.user].armed)
          /\ clone[t.user].address # Zero /\ None # Zero
      BY DEF TypeOK, Txs, Seats
    <3>2. Effect(t, clone[t.user]) \in Clones /\ Effect(t, clone[t.user]).address # Zero
      <4>1. t.kind = "recovery" => t.addr # Zero
        BY <2>3 DEF Accepted
      <4> QED
        BY <3>1, <4>1, EffectFacts
    <3> QED
      BY <1>3, <2>1, <2>3, <3>1, <3>2 DEF SetClone
  <2> QED
    BY <2>1, <2>2, <2>3
<1>8. CASE DropTx
  BY <1>4, <1>8 DEF DropTx
<1>9. CASE NodeReset
  <2>1. mempool' = {} /\ \A u \in Users : clone'[u].address = None
    BY <1>9 DEF NodeReset, NoClone
  <2> QED
    BY <2>1 DEF Seats
<1>10. ASSUME NEW u \in Users, WalletCall(u) PROVE Seats'
  <2>1. PICK c \in Clones :
          /\ clone' = [clone EXCEPT ![u] = c]
          /\ Serves(u, c) \/ \E a \in Callees : Chooses(u, c, a)
    BY <1>10, WalletFacts
  <2>2. c.address # Zero
    BY <2>1 DEF Serves, Chooses, Seats
  <2> QED
    BY <1>3, <1>10, <2>1, <2>2 DEF WalletCall
<1>11. CASE \E u \in Users : LinkWallet(u)
  BY <1>4, <1>11 DEF LinkWallet
<1>12. CASE UNCHANGED vars
  BY <1>4, <1>12 DEF vars, chain
<1> QED
  BY <1>5, <1>6, <1>7, <1>8, <1>9, <1>10, <1>11, <1>12, NextEffect

\* A backed clone stays backed: a transaction leaves the mempool by taking
\* effect, by finding the clone deployed, or by being lost; and a seat that is
\* filled is never emptied but by a reset.
LEMMA BackedKept ==
    ASSUME TypeOK, Flow, Seats, [Next]_vars, NEW u \in Users, Backed(u) PROVE Backed(u)'
<1>1. ASSUME UNCHANGED <<clone, mempool, lost>> PROVE Backed(u)'
  BY <1>1 DEF Backed, Deployed
<1>2. ASSUME NEW r \in Requests, RequestEffect(r) PROVE Backed(u)'
  <2>1. CASE UNCHANGED chain
    BY <1>1, <2>1 DEF chain
  <2>2. CASE Sends(r)
    BY <2>2 DEF Sends, Backed, Deployed
  <2> QED
    BY <1>2, <2>1, <2>2 DEF RequestEffect, Stores
<1>3. CASE ReconcilerEffect
  BY <1>1, <1>3 DEF ReconcilerEffect, chain
<1>4. CASE Mine
  <2>1. PICK t \in mempool : Mine!(t)
    BY <1>4 DEF Mine
  <2>2. /\ t.user \in Users /\ t \in Txs /\ t.kind \in {"create", "transfer", "recovery"}
        /\ clone[t.user] \in Clones /\ (clone[t.user].pending => clone[t.user].armed) /\ AskedFor(t)
    BY DEF TypeOK, Txs, Seats
  <2>3. CASE /\ Accepted(t) /\ SetClone(t.user, Effect(t, clone[t.user]))
             /\ lost' = [lost EXCEPT ![t.user] = @ /\ t.kind # "create"]
    <3> DEFINE c == Effect(t, clone[t.user])
    <3>1. c.owner # Zero
      <4>1. CASE t.kind = "create"
        <5>1. t.addr # Zero /\ c.owner = t.addr
          BY <2>2, <4>1, EffectFacts DEF AskedFor, Named
        <5> QED
          BY <5>1
      <4>2. CASE t.kind # "create"
        <5>1. t.addr # Zero /\ clone[t.user].owner # Zero
          BY <2>3, <4>2 DEF Accepted
        <5> QED
          BY <2>2, <4>2, <5>1, EffectFacts
      <4> QED
        BY <4>1, <4>2
    <3>2. clone'[t.user] = c /\ \A v \in Users \ {t.user} : clone'[v] = clone[v] /\ lost'[v] = lost[v]
      BY <2>2, <2>3 DEF SetClone, TypeOK
    <3> HIDE DEF c
    <3>3. CASE u = t.user
      BY <3>1, <3>2, <3>3 DEF Backed, Deployed
    <3>4. CASE u # t.user
      BY <2>1, <3>2, <3>4 DEF Backed, Deployed
    <3> QED
      BY <3>3, <3>4
  <2>4. CASE UNCHANGED <<clone, lost>> /\ (Accepted(t) => t.kind # "create")
    <3>1. t.kind = "create" => Deployed(t.user)
      BY <2>4 DEF Accepted, Deployed
    <3> QED
      BY <2>1, <2>4, <3>1 DEF Backed, Deployed
  <2> QED
    BY <2>1, <2>3, <2>4
<1>5. CASE DropTx
  <2>1. PICK t \in mempool : DropTx!(t)
    BY <1>5 DEF DropTx
  <2>2. t.user \in Users
    BY DEF TypeOK, Txs
  <2> QED
    BY <2>1, <2>2 DEF Backed, Deployed, TypeOK
<1>6. CASE NodeReset
  BY <1>6 DEF NodeReset, Backed
<1>7. ASSUME NEW v \in Users, WalletCall(v) PROVE Backed(u)'
  <2>1. PICK c \in Clones :
          /\ clone' = [clone EXCEPT ![v] = c]
          /\ Serves(v, c) \/ \E a \in Callees : Chooses(v, c, a)
    BY <1>7, WalletFacts
  <2>2. c.owner # Zero /\ UNCHANGED <<mempool, lost>>
    BY <1>7, <2>1 DEF WalletCall, Serves, Chooses, Seats
  <2>3. Deployed(u) => Deployed(u)'
    BY <2>1, <2>2 DEF Deployed, TypeOK
  <2> QED
    BY <2>2, <2>3 DEF Backed
<1>8. CASE \E v \in Users : LinkWallet(v)
  BY <1>1, <1>8 DEF LinkWallet
<1>9. CASE UNCHANGED vars
  BY <1>1, <1>9 DEF vars, chain
<1> QED
  BY <1>2, <1>3, <1>4, <1>5, <1>6, <1>7, <1>8, <1>9, NextEffect

\* EnsureClone comes to its INSERT by way of its broadcast alone.
LEMMA BackingStep == ASSUME TypeOK, Flow, Seats, Backing, [Next]_vars PROVE Backing'
<1>0. /\ UNCHANGED body
      /\ \A u \in Users : Backed(u) => Backed(u)'
      /\ \A r \in Requests : User(r)' = User(r) /\ User(r) \in Users
  BY Kept, BackedKept, RequestFields DEF User
<1>1. ASSUME UNCHANGED <<pc, row>> PROVE Backing'
  BY <1>0, <1>1 DEF Backing
<1>2. ASSUME NEW r \in Requests, RequestEffect(r) PROVE Backing'
  <2>1. PICK step \in Steps, s \in Seen :
          /\ Works(r, step, s) /\ Fits(r, step, s)
          /\ \/ UNCHANGED <<db, chain>> /\ step # "ensure"
             \/ Stores(r) /\ step = "done"
             \/ Sends(r)
    BY <1>2 DEF RequestEffect
  <2>2. ASSUME NEW u \in Users, row'[u] # NoRow PROVE Backed(u)'
    <3>1. row[u] # NoRow \/ (Stores(r) /\ u = User(r) /\ (row[u] # NoRow \/ pc[r] = "ensure"))
      BY <2>1, <2>2 DEF Stores, Sends, db, TypeOK
    <3> QED
      BY <1>0, <3>1 DEF Backing
  <2>3. ASSUME NEW q \in Requests, pc'[q] = "ensure" PROVE Backed(User(q))'
    <3>1. CASE pc[q] = "ensure"
      BY <1>0, <3>1 DEF Backing
    <3>2. CASE pc[q] # "ensure"
      <4>1. q = r /\ step = "ensure"
        BY <2>1, <2>3, <3>2 DEF Works, TypeOK, Workers
      <4>2. Sends(r) /\ Op(r) = "deposit"
        BY <2>1, <4>1, RequestFields DEF Fits, StepsOf, Ops
      <4>3. Tx(r) \in mempool' /\ Tx(r).kind = "create" /\ Tx(r).user = User(r)
        BY <4>2, TxFacts DEF Sends
      <4> QED
        BY <1>0, <4>1, <4>3 DEF Backed
    <3> QED
      BY <3>1, <3>2
  <2> QED
    BY <2>2, <2>3 DEF Backing
<1>3. CASE ReconcilerEffect
  <2>1. ASSUME NEW u \in Users, row'[u] # NoRow PROVE row[u] # NoRow
    BY <1>3, <2>1 DEF ReconcilerEffect, TypeOK
  <2>2. \A r \in Requests : pc'[r] = pc[r]
    BY <1>3, RequestFields DEF ReconcilerEffect, TypeOK
  <2> QED
    BY <1>0, <2>1, <2>2 DEF Backing
<1>4. CASE Mine \/ DropTx \/ NodeReset \/ \E u \in Users : WalletCall(u) \/ LinkWallet(u)
  BY <1>1, <1>4 DEF Mine, DropTx, NodeReset, WalletCall, LinkWallet, Rest, db, workers
<1>5. CASE UNCHANGED vars
  BY <1>1, <1>5 DEF vars, workers, db
<1> QED
  BY <1>2, <1>3, <1>4, <1>5, NextEffect

-----------------------------------------------------------------------------
(* The theorems.                                                           *)

LEMMA InitiallyCustody == ASSUME Init PROVE TypeOK /\ Flow /\ Seats /\ Backing
<1>1. PICK first \in [Users -> {Zero, Platform} \cup {Wallet[u] : u \in Users}] :
        /\ \A u \in Users : first[u] \in {Zero, Platform, Wallet[u]}
        /\ row = [u \in Users |-> IF first[u] = Zero THEN NoRow ELSE Blank]
        /\ link = [u \in Users |-> IF first[u] = Wallet[u] THEN Wallet[u] ELSE None]
        /\ clone = [u \in Users |-> [NoClone EXCEPT !.owner = first[u],
                                                   !.armed = first[u] = Wallet[u]]]
  BY DEF Init
<1>2. \A u \in Users : /\ Wallet[u] \in Addr \ {Platform, Zero} /\ first[u] \in Addr
                       /\ clone[u].owner = first[u] /\ clone[u].address = None /\ ~clone[u].pending
  BY <1>1 DEF NoClone
<1>3. TypeOK
  <2>1. Blank \in View /\ Unread \in Seen /\ IsFiniteSet({})
    BY ViewFacts, FS_EmptySet
  <2>2. clone \in [Users -> Clones]
    BY <1>1, <1>2 DEF NoClone, Clones
  <2>3. row \in [Users -> View \cup {NoRow}] /\ link \in [Users -> Addr \cup {None}]
    BY <1>1, <1>2, <2>1
  <2>5. /\ seen \in [Workers -> [view : View, nonce : Nat]] /\ pc \in [Workers -> Steps]
        /\ reply \in [Requests -> Replies]
    BY <2>1 DEF Init, Steps, Seen, Replies
  <2> QED
    BY <1>2, <2>1, <2>2, <2>3, <2>5 DEF Init, TypeOK
<1>4. Flow
  <2>1. \A r \in Requests : pc[r] = "start" /\ Op(r) \in Ops
    BY <1>3, RequestFields DEF Init
  <2>2. \A r \in Requests : Fits(r, pc[r], seen[r])
    BY <2>1 DEF Fits, StepsOf, Ops
  <2>3. pc[Reconciler] = "idle"
    BY DEF Init, Workers
  <2> QED
    BY <1>1, <2>2, <2>3 DEF Flow, StepsOf
<1>5. Seats
  <2>1. None # Zero /\ mempool = {}
    BY DEF Init
  <2> QED
    BY <1>2, <2>1 DEF Seats
<1>6. Backing
  <2>1. \A r \in Requests : pc[r] # "ensure"
    BY <1>3, RequestFields DEF Init
  <2>2. \A u \in Users : row[u] # NoRow => Deployed(u)
    BY <1>1, <1>2 DEF Deployed
  <2> QED
    BY <2>1, <2>2 DEF Backing, Backed
<1> QED
  BY <1>3, <1>4, <1>5, <1>6

\* The inductive invariant: requests and the reconciler are where their code puts
\* them, the signer account's transactions carry what was asked for, signed by the
\* one they speak for, and what is stored, or about to be, is backed.
THEOREM InvariantHolds == Spec => [](TypeOK /\ Flow /\ Seats /\ Backing)
<1>1. Init => TypeOK /\ Flow /\ Seats /\ Backing
  BY InitiallyCustody
<1>2. TypeOK /\ Flow /\ Seats /\ Backing /\ [Next]_vars => (TypeOK /\ Flow /\ Seats /\ Backing)'
  BY TypeStep, FlowStep, SeatsStep, BackingStep
<1> QED
  BY <1>1, <1>2, PTL DEF Spec

\* Every variable of the deployment, claim, recovery and reconciler code keeps
\* its type, whatever interleaves; the signer account's transactions have
\* distinct nonces, none of them mined, and a recovery is pending only while armed.
THEOREM TypeCorrect == Spec => []TypeOK
  BY InvariantHolds, PTL

\* EnsureClone stores a clone's row only after createClone was broadcast, so a
\* row has its clone on the chain, its deployment waiting, or was let down by
\* the chain.
THEOREM RowsAreAlwaysBacked == Spec => []RowsAreBacked
<1>1. Backing => RowsAreBacked
  BY DEF Backing, Backed, RowsAreBacked
<1> QED
  BY <1>1, InvariantHolds, PTL

-----------------------------------------------------------------------------
(* The refinement of OwnerSeat.                                            *)

\* A mined deployment fills a seat for the platform or the linked wallet, a
\* mined claim moves the platform's, a mined designation names the heir of the
\* wallet that signed it; what others do is their own: each step of the backend
\* or the chain is a step of OwnerSeat or leaves seats and heirs alone.
LEMMA SeatStep == ASSUME TypeOK, Flow, Seats, [Next]_vars PROVE [Seat!SeatNext]_(Seat!seatVars)
<1> DEFINE owners == [u \in Users |-> clone[u].owner]
           heirs == [u \in Users |-> clone[u].address]
<1>0. UNCHANGED body /\ own \subseteq own'
      /\ \A u \in Users : link[u] # None => link'[u] = link[u]
  BY Kept DEF Flow
<1>1. Seat!Asked
  <2>1. Deployments \subseteq Deployments'
    BY <1>0 DEF Deployments
  <2>2. Transfers \subseteq Transfers' /\ Designations \subseteq Designations'
    BY <1>0 DEF Transfers, Designations, ByThemselves, Asked
  <2> QED
    BY <2>1, <2>2 DEF Seat!Asked
<1>2. ASSUME UNCHANGED clone PROVE Seat!SeatNext
  BY <1>1, <1>2 DEF Seat!SeatNext
<1>3. ASSUME NEW u \in Users, NEW c \in Clones, clone' = [clone EXCEPT ![u] = c]
      PROVE  /\ owners' = [owners EXCEPT ![u] = c.owner] /\ owners[u] = clone[u].owner
             /\ heirs' = [heirs EXCEPT ![u] = c.address] /\ heirs[u] = clone[u].address
             /\ c.owner = clone[u].owner => owners' = owners
             /\ c.address = clone[u].address => heirs' = heirs
  BY <1>3 DEF TypeOK
<1> HIDE DEF owners, heirs
<1>4. ASSUME NEW u \in Users, NEW c \in Clones, clone' = [clone EXCEPT ![u] = c],
             clone[u].owner = Zero, <<u, c.owner>> \in Deployments', c.address = None
      PROVE  Seat!SeatNext
  <2>1. Seat!Fill(u, c.owner)
    BY <1>3, <1>4 DEF Seat!Fill, owners, heirs
  <2>2. c.owner \in Addr
    BY DEF Clones
  <2> QED
    BY <1>1, <2>1, <2>2 DEF Seat!SeatNext
<1>5. ASSUME NEW u \in Users, NEW c \in Clones, clone' = [clone EXCEPT ![u] = c],
             clone[u].owner # Zero, <<u, clone[u].owner, c.owner>> \in Transfers',
             c.address = clone[u].address
      PROVE  Seat!SeatNext
  <2>1. Seat!Transfer(u, c.owner)
    BY <1>3, <1>5 DEF Seat!Transfer, owners, heirs
  <2>2. c.owner \in Addr
    BY DEF Clones
  <2> QED
    BY <1>1, <2>1, <2>2 DEF Seat!SeatNext
<1>6. ASSUME NEW u \in Users, NEW c \in Clones, clone' = [clone EXCEPT ![u] = c],
             clone[u].owner # Zero, <<u, clone[u].owner, c.address>> \in Designations',
             c.address \in Addr, c.owner = clone[u].owner
      PROVE  Seat!SeatNext
  <2>1. Seat!Designate(u, c.address)
    BY <1>3, <1>6 DEF Seat!Designate, owners, heirs
  <2> QED
    BY <1>1, <1>6, <2>1 DEF Seat!SeatNext
<1>7. CASE Mine
  <2>1. PICK t \in mempool : Mine!(t)
    BY <1>7 DEF Mine
  <2>2. CASE Accepted(t) /\ SetClone(t.user, Effect(t, clone[t.user]))
    <3>1. PICK u \in Users, c \in Clones : /\ u = t.user /\ c = Effect(t, clone[t.user])
                                          /\ clone' = [clone EXCEPT ![u] = c]
      <4>1. t.user \in Users /\ t \in Txs /\ clone[t.user] \in Clones
            /\ (clone[t.user].pending => clone[t.user].armed)
        BY DEF TypeOK, Txs
      <4>2. Effect(t, clone[t.user]) \in Clones
        BY <4>1, EffectFacts
      <4> QED
        BY <2>2, <4>1, <4>2 DEF SetClone
    <3>2. /\ t \in Txs /\ t.addr \in Addr /\ t.kind \in {"create", "transfer", "recovery"}
          /\ clone[u] \in Clones /\ (clone[u].pending => clone[u].armed) /\ AskedFor(t)
      BY DEF TypeOK, Txs, Seats
    <3>3. CASE t.kind = "create"
      <4>1. /\ c.owner = t.addr /\ c.address = None /\ clone[u].owner = Zero
            /\ t.addr = Platform \/ (t.addr = link[u] /\ link[u] # None)
        BY <2>2, <3>1, <3>2, <3>3, EffectFacts DEF Accepted, AskedFor, Named
      <4>2. <<u, c.owner>> \in Deployments'
        BY <1>0, <4>1 DEF Deployments
      <4> QED
        BY <1>4, <3>1, <4>1, <4>2
    <3>4. CASE t.kind = "transfer"
      <4>1. /\ c.owner = t.addr /\ c.address = clone[u].address /\ clone[u].owner = Platform
            /\ Names("claim", u, t.addr)
        BY <2>2, <3>1, <3>2, <3>4, EffectFacts DEF Accepted, AskedFor
      <4>2. <<u, clone[u].owner, c.owner>> \in Transfers'
        BY <1>0, <4>1 DEF Transfers, Names, Asked
      <4> QED
        BY <1>5, <3>1, <4>1, <4>2
    <3>5. CASE t.kind = "recovery"
      <4>1. /\ c.owner = clone[u].owner /\ c.address = t.addr /\ clone[u].owner = Wallet[u]
            /\ Names("setRecovery", u, t.addr)
        BY <2>2, <3>1, <3>2, <3>5, EffectFacts DEF Accepted, AskedFor
      <4>2. <<u, clone[u].owner, c.address>> \in Designations'
        BY <1>0, <4>1 DEF Designations, Names, Asked
      <4> QED
        BY <1>6, <3>1, <3>2, <4>1, <4>2
    <3> QED
      BY <3>2, <3>3, <3>4, <3>5
  <2> QED
    BY <1>2, <2>1, <2>2
<1>8. CASE NodeReset
  <2>1. owners' = [u \in Users |-> Zero] /\ heirs' = [u \in Users |-> None]
    BY <1>8 DEF NodeReset, NoClone, owners, heirs
  <2> QED
    BY <1>1, <2>1 DEF Seat!SeatNext, Seat!Reset, owners, heirs
<1>9. ASSUME NEW u \in Users, WalletCall(u) PROVE Seat!SeatNext
  <2>1. PICK c \in Clones :
          /\ clone' = [clone EXCEPT ![u] = c]
          /\ Serves(u, c) \/ \E a \in Callees : Chooses(u, c, a)
    BY <1>9, WalletFacts
  <2>2. CASE Serves(u, c)
    <3>1. CASE c.owner = clone[u].owner
      <4>1. owners' = owners /\ heirs' = heirs
        BY <1>3, <2>1, <2>2, <3>1 DEF Serves
      <4> QED
        BY <1>1, <4>1 DEF Seat!SeatNext, owners, heirs
    <3>2. CASE c.owner = clone[u].address /\ clone[u].address # None
      <4>1. /\ owners[u] # Zero /\ heirs[u] # None
            /\ owners' = [owners EXCEPT ![u] = heirs[u]] /\ heirs' = heirs
        <5>1. /\ owners' = [owners EXCEPT ![u] = c.owner] /\ owners[u] = clone[u].owner
              /\ heirs[u] = clone[u].address
              /\ c.address = clone[u].address => heirs' = heirs
          BY <1>3, <2>1
        <5>2. c.address = clone[u].address /\ clone[u].owner # Zero
          BY <2>2 DEF Serves
        <5> QED
          BY <3>2, <5>1, <5>2
      <4>2. Seat!Recover(u)
        BY <4>1 DEF Seat!Recover, owners, heirs
      <4> QED
        BY <1>1, <4>2 DEF Seat!SeatNext
    <3> QED
      BY <2>2, <3>1, <3>2 DEF Serves
  <2>3. ASSUME NEW a \in Callees, Chooses(u, c, a) PROVE Seat!SeatNext
    <3>0. a \in Addr
      OBVIOUS
    <3>1. CASE clone[u].owner = Zero
      <4>1. c.owner = a /\ c.address = None /\ Does(u, "create", Zero, a)
        BY <2>3, <3>1 DEF Chooses
      <4>2. <<u, c.owner>> \in Deployments'
        <5>1. PICK q : q = [kind |-> "create", user |-> u, by |-> Zero, addr |-> a]
          OBVIOUS
        <5>2. q \in own' /\ q.kind = "create" /\ q.user = u /\ q.addr = c.owner
          BY <4>1, <5>1 DEF Does
        <5> QED
          BY <5>2, Zenon DEF Deployments
      <4> QED
        BY <1>4, <2>1, <3>1, <4>1, <4>2
    <3>2. CASE /\ clone[u].owner # Zero /\ c.owner = a /\ c.address = clone[u].address
               /\ Does(u, "transfer", clone[u].owner, a)
      <4>1. <<u, clone[u].owner, c.owner>> \in Transfers'
        <5>1. PICK q : q = [kind |-> "transfer", user |-> u, by |-> clone[u].owner, addr |-> a]
          OBVIOUS
        <5>2. /\ q \in own' /\ q.kind = "transfer" /\ q.user = u /\ q.by = clone[u].owner
              /\ q.addr = c.owner
          BY <3>2, <5>1 DEF Does
        <5> QED
          BY <5>2, Zenon DEF Transfers, ByThemselves
      <4> QED
        BY <1>5, <2>1, <3>2, <4>1
    <3>3. CASE /\ clone[u].owner # Zero /\ c.owner = clone[u].owner /\ c.address = a
               /\ Does(u, "designate", clone[u].owner, a)
      <4>1. <<u, clone[u].owner, c.address>> \in Designations'
        <5>1. PICK q : q = [kind |-> "designate", user |-> u, by |-> clone[u].owner, addr |-> a]
          OBVIOUS
        <5>2. /\ q \in own' /\ q.kind = "designate" /\ q.user = u /\ q.by = clone[u].owner
              /\ q.addr = c.address
          BY <3>3, <5>1 DEF Does
        <5> QED
          BY <5>2, Zenon DEF Designations, ByThemselves
      <4> QED
        BY <1>6, <2>1, <3>0, <3>3, <4>1
    <3> QED
      BY <2>3, <3>1, <3>2, <3>3 DEF Chooses
  <2> QED
    BY <2>1, <2>2, <2>3
<1>10. CASE \/ \E r \in Requests : RequestEffect(r)
            \/ ReconcilerEffect \/ DropTx \/ \E u \in Users : LinkWallet(u)
  <2>1. UNCHANGED clone
    BY <1>10 DEF RequestEffect, Stores, Sends, ReconcilerEffect, DropTx, LinkWallet, chain
  <2> QED
    BY <1>2, <2>1
<1>11. CASE UNCHANGED vars
  BY <1>2, <1>11 DEF vars, chain
<1> QED
  BY <1>7, <1>8, <1>9, <1>10, <1>11, NextEffect

\* Claims check the owner, read the nonce and sign while other claims,
\* designations and recoveries are mined, anybody deploys clones and owners call
\* theirs themselves; and still the seat of every clone moves only as OwnerSeat
\* allows: by the signature of the one who holds it at that moment, or to an heir
\* named by one who held it.
THEOREM CustodyImplementsOwnerSeat == Spec => ImplementsOwnerSeat
<1>1. Init => Seat!SeatInit
  <2> SUFFICES ASSUME Init PROVE Seat!SeatInit
    OBVIOUS
  <2>1. PICK first \in [Users -> {Zero, Platform} \cup {Wallet[u] : u \in Users}] :
          /\ \A u \in Users : first[u] \in {Zero, Platform, Wallet[u]}
          /\ link = [u \in Users |-> IF first[u] = Wallet[u] THEN Wallet[u] ELSE None]
          /\ clone = [u \in Users |-> [NoClone EXCEPT !.owner = first[u],
                                                     !.armed = first[u] = Wallet[u]]]
    BY DEF Init
  <2>2. \A u \in Users : /\ clone[u].owner = first[u] /\ clone[u].address = None
                         /\ first[u] = Wallet[u] => link[u] = Wallet[u] /\ Wallet[u] # None
    BY <2>1 DEF NoClone
  <2>3. \A u \in Users : clone[u].owner = Zero \/ <<u, clone[u].owner>> \in Deployments
    <3> SUFFICES ASSUME NEW u \in Users, clone[u].owner # Zero
                 PROVE  <<u, clone[u].owner>> \in Deployments
      OBVIOUS
    <3>1. clone[u].owner = Platform \/ (link[u] # None /\ clone[u].owner = link[u])
      BY <2>1, <2>2
    <3> QED
      BY <3>1 DEF Deployments
  <2> QED
    BY <2>2, <2>3 DEF Seat!SeatInit
<1>2. TypeOK /\ Flow /\ Seats /\ [Next]_vars => [Seat!SeatNext]_(Seat!seatVars)
  BY SeatStep
<1> QED
  BY <1>1, <1>2, InvariantHolds, PTL DEF Spec, ImplementsOwnerSeat, Seat!SeatSpec
=============================================================================
