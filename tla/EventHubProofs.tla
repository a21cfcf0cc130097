--------------------------- MODULE EventHubProofs ---------------------------
(***************************************************************************)
(* Proofs about EventHub for any number of users, connections, operations  *)
(* and restarts, and any size of the channels.                             *)
(***************************************************************************)
EXTENDS EventHub, FiniteSetTheorems, TLAPS

USE EventHubAssumption

\* A handler that is past Subscribe is registered until it returns.
Registered == \A c \in Connections : step[c] \in {"announce", "loop"} => c \in subs

-----------------------------------------------------------------------------
(* Sequences as channels.                                                  *)

\* Taking the first element leaves the others.
LEMMA TakeFirst ==
    ASSUME NEW S, NEW q \in Seq(S), q # <<>>
    PROVE  /\ Head(q) \in S /\ Tail(q) \in Seq(S) /\ Len(Tail(q)) = Len(q) - 1
           /\ ToSet(q) \subseteq {Head(q)} \cup ToSet(Tail(q))
<1>1. Len(q) \in Nat \ {0} /\ Head(q) = q[1] /\ Head(q) \in S
  OBVIOUS
<1>2. /\ Tail(q) \in Seq(S) /\ Len(Tail(q)) = Len(q) - 1
      /\ \A i \in 1 .. Len(q) - 1 : Tail(q)[i] = q[i + 1]
  OBVIOUS
<1>3. ASSUME NEW i \in 1 .. Len(q), i # 1
      PROVE  q[i] \in ToSet(Tail(q))
  <2>1. i - 1 \in 1 .. Len(q) - 1 /\ (i - 1) + 1 = i
    BY <1>1, <1>3
  <2>2. Tail(q)[i - 1] = q[i] /\ i - 1 \in DOMAIN Tail(q)
    BY <1>2, <2>1
  <2> QED
    BY <2>2 DEF ToSet
<1> QED
  BY <1>1, <1>2, <1>3 DEF ToSet

\* Adding an element at the end.
LEMMA AddLast ==
    ASSUME NEW S, NEW q \in Seq(S), NEW x \in S
    PROVE  /\ Append(q, x) \in Seq(S) /\ Len(Append(q, x)) = Len(q) + 1
           /\ ToSet(q) \cup {x} \subseteq ToSet(Append(q, x))
<1>1. /\ Append(q, x) \in Seq(S) /\ Len(Append(q, x)) = Len(q) + 1 /\ Len(q) \in Nat
      /\ Append(q, x)[Len(q) + 1] = x
      /\ \A i \in 1 .. Len(q) : Append(q, x)[i] = q[i]
  OBVIOUS
<1> QED
  BY <1>1 DEF ToSet

\* Whatever order the map gives the channels in, all of them are there.
LEMMA AllChannels ==
    ASSUME NEW C \in SUBSET Connections, NEW to \in SetToSeqs(C)
    PROVE  to \in Seq(Connections) /\ ToSet(to) = C
<1> DEFINE D == 1 .. Cardinality(C)
<1>1. IsFiniteSet(C) /\ Cardinality(C) \in Nat
  BY FS_Subset, FS_CardinalityType
<1>2. to \in [D -> C] /\ \A i, j \in D : i # j => to[i] # to[j]
  BY DEF SetToSeqs
<1>3. to \in Injection(D, C)
  BY <1>2 DEF Injection, IsInjective
<1>4. Cardinality(D) = Cardinality(C)
  BY <1>1, FS_Interval
<1>5. to \in Surjection(D, C)
  BY <1>1, <1>3, <1>4, FS_Injection
<1>6. \A c \in C : \E i \in D : to[i] = c
  BY <1>5 DEF Surjection
<1>7. to \in Seq(Connections)
  BY <1>1, <1>2
<1> QED
  BY <1>2, <1>6, <1>7 DEF ToSet

-----------------------------------------------------------------------------
(* The type invariant, with Registered: a channel is served only if its     *)
(* connection is one.                                                       *)

LEMMA TopicIs ==
    ASSUME TypeOK, NEW o \in Operations
    PROVE  /\ Topic(o) \in Topics /\ change[o].user \in Users /\ change[o].kind \in Kinds
           /\ Topic(o) \in Covers(change[o].kind) /\ Covers(change[o].kind) \subseteq Topics
<1>1. change \in [Operations -> [user : Users, kind : Kinds]]
  BY DEF TypeOK
<1> QED
  BY <1>1 DEF Topic, Covers, Topics, Kinds

LEMMA TypeInit == Init => TypeOK /\ Registered
<1> SUFFICES ASSUME Init PROVE TypeOK /\ Registered
  OBVIOUS
<1>1. \A c \in Connections : buffer[c] = <<>> /\ buffer[c] \in Seq(Kinds) /\ Len(buffer[c]) = 0
  BY DEF Init
<1>2. \A c \in Connections, t \in Topics : view[c][t] <= version[UserOf[c]][t]
  BY DEF Init
<1> QED
  BY <1>1, <1>2 DEF Init, TypeOK, Registered, Handling

LEMMA TypeStep == TypeOK /\ Registered /\ [Next]_vars => TypeOK' /\ Registered'
<1> SUFFICES ASSUME TypeOK, Registered, [Next]_vars PROVE TypeOK' /\ Registered'
  OBVIOUS
<1>1. ASSUME NEW o \in Operations, Commit(o) \/ CommitUnpublished(o) PROVE TypeOK' /\ Registered'
  <2>0. Changed(o)
    BY <1>1 DEF Commit, CommitUnpublished
  <2>1. version' \in [Users -> [Topics -> Nat]]
    BY <2>0, TopicIs DEF Changed, TypeOK
  <2>2. \A u \in Users, t \in Topics : version[u][t] <= version'[u][t]
    BY <2>0, TopicIs DEF Changed, TypeOK
  <2>3. \A c \in Connections, t \in Topics : view[c][t] <= version'[UserOf[c]][t]
    <3> SUFFICES ASSUME NEW c \in Connections, NEW t \in Topics
                 PROVE  view[c][t] <= version'[UserOf[c]][t]
      OBVIOUS
    <3>1. /\ UserOf[c] \in Users /\ view[c][t] \in Nat /\ view[c][t] <= version[UserOf[c]][t]
          /\ version[UserOf[c]][t] \in Nat /\ version'[UserOf[c]][t] \in Nat
      BY <2>1 DEF TypeOK
    <3> QED
      BY <3>1, <2>2
  <2>4. gap' \in [Connections -> SUBSET Topics]
    BY <1>1, TopicIs DEF Commit, CommitUnpublished, TypeOK
  <2>5. /\ pc' \in [Operations -> {"commit", "publish", "deliver", "done"}]
        /\ \A p \in Operations : pc'[p] = "deliver" <=> chs[p] # <<>>
    BY <1>1 DEF Commit, CommitUnpublished, TypeOK
  <2>6. UNCHANGED <<change, chs, step, subs, buffer, stream, view, joined>>
    BY <1>1 DEF Commit, CommitUnpublished
  <2> QED
    BY <2>1, <2>3, <2>4, <2>5, <2>6 DEF TypeOK, Registered
<1>2. ASSUME NEW o \in Operations, Publish(o) PROVE TypeOK' /\ Registered'
  <2>1. PICK to \in SetToSeqs(Subscribers(change[o].user)) :
          /\ chs' = [chs EXCEPT ![o] = to]
          /\ pc' = [pc EXCEPT ![o] = IF to = <<>> THEN "done" ELSE "deliver"]
    BY <1>2 DEF Publish
  <2>2. to \in Seq(Connections)
    BY AllChannels DEF Subscribers, TypeOK
  <2> QED
    BY <1>2, <2>1, <2>2 DEF Publish, TypeOK, Registered
<1>3. ASSUME NEW o \in Operations, Deliver(o) PROVE TypeOK' /\ Registered'
  <2> DEFINE c == Head(chs[o])
  <2>1. c \in Connections /\ Tail(chs[o]) \in Seq(Connections)
    BY <1>3, TakeFirst DEF Deliver, TypeOK
  <2>2. /\ chs' \in [Operations -> Seq(Connections)]
        /\ pc' \in [Operations -> {"commit", "publish", "deliver", "done"}]
        /\ \A p \in Operations : pc'[p] = "deliver" <=> chs'[p] # <<>>
    BY <1>3, <2>1 DEF Deliver, TypeOK
  <2>3. buffer' \in [Connections -> Seq(Kinds)] /\ \A d \in Connections : Len(buffer'[d]) <= SubBuffer
    <3>1. CASE HasRoom(c)
      <4>1. buffer' = [buffer EXCEPT ![c] = Append(@, change[o].kind)]
        BY <1>3, <3>1 DEF Deliver
      <4>2. /\ Append(buffer[c], change[o].kind) \in Seq(Kinds)
            /\ Len(Append(buffer[c], change[o].kind)) <= SubBuffer
        <5>1. buffer[c] \in Seq(Kinds) /\ Len(buffer[c]) \in Nat
          BY <2>1 DEF TypeOK
        <5> QED
          BY <5>1, <3>1, TopicIs, AddLast DEF HasRoom
      <4> QED
        BY <4>1, <4>2, <2>1 DEF TypeOK
    <3>2. CASE ~HasRoom(c)
      BY <1>3, <3>2 DEF Deliver, TypeOK
    <3> QED
      BY <3>1, <3>2
  <2>4. gap' \in [Connections -> SUBSET Topics]
    <3>1. CASE HasRoom(c)
      BY <1>3, <3>1 DEF Deliver, TypeOK
    <3>2. CASE ~HasRoom(c)
      <4>1. PICK D \in SUBSET Topics : gap' = [gap EXCEPT ![c] = D]
        BY <1>3, <2>1, <3>2, TopicIs DEF Deliver, TypeOK
      <4> QED
        BY <4>1, <2>1 DEF TypeOK
    <3> QED
      BY <3>1, <3>2
  <2> QED
    BY <1>3, <2>2, <2>3, <2>4 DEF Deliver, TypeOK, Registered
<1>4. ASSUME NEW c \in Connections, Subscribe(c) PROVE TypeOK' /\ Registered'
  <2>1. joined' \in [Connections -> [Topics -> Nat]]
    BY <1>4 DEF Subscribe, TypeOK
  <2> QED
    BY <1>4, <2>1 DEF Subscribe, ops, TypeOK, Registered, Handling
<1>5. ASSUME NEW c \in Connections, Announce(c) PROVE TypeOK' /\ Registered'
  BY <1>5 DEF Announce, Announced, Covers, Topics, ops, TypeOK, Registered, Handling
<1>6. ASSUME NEW c \in Connections, WriteSSE(c) PROVE TypeOK' /\ Registered'
  <2>1. buffer[c] \in Seq(Kinds) /\ buffer[c] # <<>> /\ Len(buffer[c]) \in Nat
    BY <1>6 DEF WriteSSE, TypeOK
  <2>2. /\ Head(buffer[c]) \in Kinds /\ Tail(buffer[c]) \in Seq(Kinds)
        /\ Len(Tail(buffer[c])) = Len(buffer[c]) - 1
    BY <2>1, TakeFirst
  <2>3. Covers(Head(buffer[c])) \subseteq Topics
    BY <2>2 DEF Covers, Kinds, Topics
  <2>4. buffer' \in [Connections -> Seq(Kinds)] /\ \A d \in Connections : Len(buffer'[d]) <= SubBuffer
    BY <1>6, <2>1, <2>2 DEF WriteSSE, TypeOK
  <2> QED
    BY <1>6, <2>3, <2>4 DEF WriteSSE, ops, TypeOK, Registered
<1>7. ASSUME NEW c \in Connections, NEW t \in Topics, Fetch(c, t) PROVE TypeOK' /\ Registered'
  <2>1. /\ view' = [view EXCEPT ![c][t] = version[UserOf[c]][t]]
        /\ stream' = [stream EXCEPT ![c] = @ \ {t}]
        /\ gap' = [gap EXCEPT ![c] = @ \ {t}]
        /\ UNCHANGED <<ops, step, subs, buffer, joined>>
    BY <1>7 DEF Fetch
  <2>2. UserOf[c] \in Users /\ version[UserOf[c]][t] \in Nat
    BY <2>1 DEF TypeOK
  <2>3. view' \in [Connections -> [Topics -> Nat]]
    BY <2>1, <2>2 DEF TypeOK
  <2>4. \A d \in Connections, s \in Topics : view'[d][s] <= version[UserOf[d]][s]
    BY <2>1, <2>2 DEF TypeOK
  <2> QED
    BY <2>1, <2>3, <2>4 DEF ops, TypeOK, Registered
<1>11. ASSUME NEW c \in Connections, NEW t \in Topics, FetchFails(c, t) PROVE TypeOK' /\ Registered'
  BY <1>11 DEF FetchFails, ops, TypeOK, Registered
<1>12. ASSUME NEW c \in Connections, RefreshPoll(c) PROVE TypeOK' /\ Registered'
  BY <1>12 DEF RefreshPoll, Topics, ops, TypeOK, Registered
<1>8. ASSUME NEW c \in Connections, Close(c) PROVE TypeOK' /\ Registered'
  BY <1>8 DEF Close, Live, Gone, ops, TypeOK, Registered, Handling
<1>9. CASE Crash
  <2>1. /\ chs' \in [Operations -> Seq(Connections)] /\ buffer' \in [Connections -> Seq(Kinds)]
        /\ \A c \in Connections : Len(buffer'[c]) = 0
        /\ \A c \in Connections, t \in Topics : view'[c][t] = 0
        /\ view' \in [Connections -> [Topics -> Nat]] /\ joined' \in [Connections -> [Topics -> Nat]]
    BY <1>9 DEF Crash, Gone
  <2>2. \A c \in Connections, t \in Topics : version[UserOf[c]][t] \in Nat
    BY DEF TypeOK
  <2> QED
    BY <1>9, <2>1, <2>2 DEF Crash, Gone, TypeOK, Registered, Handling
<1>10. CASE UNCHANGED vars
  BY <1>10 DEF vars, ops, TypeOK, Registered
<1> QED
  BY <1>1, <1>2, <1>3, <1>4, <1>5, <1>6, <1>7, <1>8, <1>9, <1>10, <1>11, <1>12 DEF Next, Operate, Handle

\* Every value has its type: handleEvents, Publish and the client keep to
\* the shapes the hub relies on, and no channel holds more than subBuffer.
THEOREM TypeCorrect == Spec => []TypeOK
<1>1. Init => TypeOK /\ Registered
  BY TypeInit
<1>2. TypeOK /\ Registered /\ [Next]_vars => TypeOK' /\ Registered'
  BY TypeStep
<1> QED
  BY <1>1, <1>2, PTL DEF Spec

-----------------------------------------------------------------------------
(* No change is missed.                                                     *)

\* An operation will tell connection c about topic t.
Comes(o, c, t) ==
    /\ change[o].user = UserOf[c] /\ Topic(o) = t
    /\ pc[o] = "publish" \/ c \in ToSet(chs[o])

\* The client of connection c knows, or will, that topic t changed.
Told(c, t) ==
    \/ t \in stream[c] \/ t \in gap[c]
    \/ \E k \in ToSet(buffer[c]) : t \in Covers(k)
    \/ \E o \in Operations : Comes(o, c, t)

\* A connection that is registered and not announced yet is told of security
\* changes already; of money it will be when it is announced.
Hears(c, t) == step[c] = "loop" \/ (step[c] = "announce" /\ t = "security")

Informed == \A c \in Connections, t \in Topics : Hears(c, t) /\ Owed(c, t) => Told(c, t)

LEMMA InformedStep ==
    TypeOK /\ Registered /\ Informed /\ [Next]_vars => Informed'
<1> SUFFICES ASSUME TypeOK, Registered, Informed, [Next]_vars,
                    NEW c \in Connections, NEW t \in Topics,
                    Hears(c, t)', Owed(c, t)'
             PROVE  Told(c, t)'
  BY DEF Informed
<1>a. ASSUME Hears(c, t), Owed(c, t) PROVE Told(c, t)
  BY <1>a DEF Informed
<1>b. ASSUME UNCHANGED <<step, view, joined, version>> PROVE Told(c, t)
  BY <1>a, <1>b DEF Owed, Hears
<1>1. ASSUME NEW o \in Operations, Commit(o) \/ CommitUnpublished(o) PROVE Told(c, t)'
  <2>0. UNCHANGED <<change, chs, step, stream, view, joined, buffer>> /\ Changed(o) /\ pc[o] = "commit"
    BY <1>1 DEF Commit, CommitUnpublished
  <2>1. CASE change[o].user = UserOf[c] /\ Topic(o) = t
    <3>1. CASE Commit(o)
      <4>1. Comes(o, c, t)'
        BY <2>0, <2>1, <3>1 DEF Commit, Comes, Topic, TypeOK
      <4> QED
        BY <4>1 DEF Told
    <3>2. CASE CommitUnpublished(o)
      <4>1. t \in gap'[c]
        BY <2>0, <2>1, <3>2 DEF CommitUnpublished, Live, Hears
      <4> QED
        BY <4>1 DEF Told
    <3> QED
      BY <1>1, <3>1, <3>2
  <2>2. CASE ~(change[o].user = UserOf[c] /\ Topic(o) = t)
    <3>1. version'[UserOf[c]][t] = version[UserOf[c]][t]
      BY <2>0, <2>2, TopicIs DEF Changed, TypeOK
    <3>2. Told(c, t)
      BY <1>a, <3>1, <2>0 DEF Owed, Hears
    <3>3. \A p \in Operations : Comes(p, c, t) => Comes(p, c, t)'
      BY <1>1, <2>0 DEF Commit, CommitUnpublished, Comes, Topic, TypeOK
    <3>4. gap[c] \subseteq gap'[c]
      BY <1>1 DEF Commit, CommitUnpublished
    <3> QED
      BY <3>2, <3>3, <3>4, <2>0 DEF Told
  <2> QED
    BY <2>1, <2>2
<1>2. ASSUME NEW o \in Operations, Publish(o) PROVE Told(c, t)'
  <2>0. UNCHANGED <<change, version, step, subs, stream, view, joined, gap, buffer>>
    BY <1>2 DEF Publish
  <2>1. PICK to \in SetToSeqs(Subscribers(change[o].user)) :
          /\ chs' = [chs EXCEPT ![o] = to]
          /\ pc' = [pc EXCEPT ![o] = IF to = <<>> THEN "done" ELSE "deliver"]
    BY <1>2 DEF Publish
  <2>2. ToSet(to) = Subscribers(change[o].user)
    BY AllChannels DEF Subscribers, TypeOK
  <2>3. c \in subs
    BY <2>0 DEF Registered, Hears
  <2>4. ASSUME NEW p \in Operations, Comes(p, c, t) PROVE Comes(p, c, t)'
    <3>1. CASE p = o
      <4>1. c \in ToSet(to)
        BY <2>2, <2>3, <2>4, <3>1 DEF Subscribers, Comes
      <4>2. chs'[p] = to
        BY <2>1, <3>1 DEF TypeOK
      <4> QED
        BY <2>0, <2>4, <4>1, <4>2 DEF Comes, Topic
    <3>2. CASE p # o
      BY <2>0, <2>1, <2>4, <3>2 DEF Comes, Topic, TypeOK
    <3> QED
      BY <3>1, <3>2
  <2> QED
    BY <1>b, <2>0, <2>4 DEF Told
<1>3. ASSUME NEW o \in Operations, Deliver(o) PROVE Told(c, t)'
  <2> DEFINE h == Head(chs[o])
             k == change[o].kind
  <2>0. UNCHANGED <<change, version, step, subs, stream, view, joined>> /\ pc[o] = "deliver"
    BY <1>3 DEF Deliver
  <2>1. /\ h \in Connections /\ Tail(chs[o]) \in Seq(Connections)
        /\ ToSet(chs[o]) \subseteq {h} \cup ToSet(Tail(chs[o]))
    BY <2>0, TakeFirst DEF TypeOK
  <2>2. chs' = [chs EXCEPT ![o] = Tail(chs[o])] /\ \A p \in Operations : p # o => pc'[p] = pc[p]
    BY <1>3 DEF Deliver, TypeOK
  <2>3. ASSUME NEW p \in Operations, Comes(p, c, t), ~(p = o /\ c = h) PROVE Comes(p, c, t)'
    <3>1. CASE p = o
      <4>1. c \in ToSet(Tail(chs[o])) /\ chs'[p] = Tail(chs[o])
        BY <2>0, <2>1, <2>2, <2>3, <3>1 DEF Comes, TypeOK
      <4> QED
        BY <2>0, <2>3, <4>1 DEF Comes, Topic
    <3>2. CASE p # o
      BY <2>0, <2>2, <2>3, <3>2 DEF Comes, Topic, TypeOK
    <3> QED
      BY <3>1, <3>2
  <2>4. ToSet(buffer[c]) \subseteq ToSet(buffer'[c]) /\ gap[c] \subseteq gap'[c]
    <3>1. CASE HasRoom(h)
      <4>1. buffer' = [buffer EXCEPT ![h] = Append(@, k)] /\ gap' = gap
        BY <1>3, <3>1 DEF Deliver
      <4>2. ToSet(buffer[h]) \subseteq ToSet(Append(buffer[h], k))
        BY <2>1, AddLast, TopicIs, SMTT(30) DEF TypeOK
      <4> QED
        BY <4>1, <4>2, <2>1 DEF TypeOK
    <3>2. CASE ~HasRoom(h)
      <4>1. /\ buffer' = buffer
            /\ gap' = [gap EXCEPT ![h] = @ \cup {s \in Covers(k) : Live(h)}]
        BY <1>3, <3>2 DEF Deliver
      <4>2. c = h => gap'[c] = gap[c] \cup Covers(k)
        BY <2>0, <4>1 DEF TypeOK, Live, Hears
      <4>3. c # h => gap'[c] = gap[c]
        BY <2>0, <4>1 DEF TypeOK
      <4> QED
        BY <4>1, <4>2, <4>3
    <3> QED
      BY <3>1, <3>2
  <2>5. ASSUME c = h, Topic(o) = t
        PROVE  t \in gap'[c] \/ \E kind \in ToSet(buffer'[c]) : t \in Covers(kind)
    <3>0. t \in Covers(k)
      BY <2>5, TopicIs
    <3>1. CASE HasRoom(h)
      <4>1. buffer' = [buffer EXCEPT ![h] = Append(@, k)]
        BY <1>3, <3>1 DEF Deliver
      <4>2. k \in ToSet(Append(buffer[h], k))
        BY <2>1, AddLast, TopicIs, SMTT(30) DEF TypeOK
      <4>3. k \in ToSet(buffer'[c])
        BY <4>1, <4>2, <2>5, <2>1 DEF TypeOK
      <4> QED
        BY <4>3, <3>0
    <3>2. CASE ~HasRoom(h)
      <4>1. gap'[c] = gap[c] \cup Covers(k)
        BY <1>3, <2>0, <2>5, <3>2 DEF Deliver, TypeOK, Live, Hears
      <4> QED
        BY <4>1, <3>0
    <3> QED
      BY <3>1, <3>2
  <2>6. CASE c = h /\ Topic(o) = t
    BY <2>5, <2>6 DEF Told
  <2>7. CASE ~(c = h /\ Topic(o) = t)
    <3>1. \A p \in Operations : Comes(p, c, t) => Comes(p, c, t)'
      BY <2>3, <2>7 DEF Comes
    <3> QED
      BY <1>b, <2>0, <2>4, <3>1 DEF Told
  <2> QED
    BY <2>6, <2>7
<1>c. ASSUME ops' = ops PROVE \A o \in Operations : Comes(o, c, t) => Comes(o, c, t)'
  BY <1>c DEF ops, Comes, Topic
<1>4. ASSUME NEW d \in Connections, Subscribe(d) PROVE Told(c, t)'
  <2>0. UNCHANGED <<ops, buffer, stream, view, gap>>
    BY <1>4 DEF Subscribe
  \* Nothing has changed since it was registered.
  <2>1. c # d
    <3> SUFFICES ASSUME c = d PROVE FALSE
      OBVIOUS
    <3>1. t = "security" /\ joined'[c] = version[UserOf[c]]
      BY <1>4 DEF Subscribe, Hears, TypeOK
    <3>2. version[UserOf[c]][t] \in Nat
      BY DEF TypeOK
    <3> QED
      BY <2>0, <3>1, <3>2 DEF Owed, ops
  <2>2. step'[c] = step[c] /\ joined'[c] = joined[c]
    BY <1>4, <2>1 DEF Subscribe, TypeOK
  <2> QED
    BY <2>0, <2>2, <1>a, <1>c DEF Told, Owed, Hears, ops
<1>5. ASSUME NEW d \in Connections, Announce(d) PROVE Told(c, t)'
  <2>0. stream[c] \subseteq stream'[c] /\ UNCHANGED <<ops, buffer, view, joined, gap>>
    BY <1>5 DEF Announce, TypeOK
  <2>1. CASE t = "money" /\ c = d
    BY <1>5, <2>1 DEF Announce, Announced, Covers, Told, TypeOK
  <2>2. CASE ~(t = "money" /\ c = d)
    <3>1. Hears(c, t)
      BY <1>5, <2>2 DEF Announce, Hears, Topics, TypeOK
    <3>2. Told(c, t)
      BY <2>0, <3>1, <1>a DEF Owed, ops
    <3> QED
      BY <2>0, <3>2, <1>c DEF Told
  <2> QED
    BY <2>1, <2>2
<1>6. ASSUME NEW d \in Connections, WriteSSE(d) PROVE Told(c, t)'
  <2>0. UNCHANGED <<ops, step, subs, view, joined, gap>>
    BY <1>6 DEF WriteSSE
  <2>1. /\ Head(buffer[d]) \in Kinds /\ Tail(buffer[d]) \in Seq(Kinds)
        /\ ToSet(buffer[d]) \subseteq {Head(buffer[d])} \cup ToSet(Tail(buffer[d]))
    BY <1>6, TakeFirst DEF WriteSSE, TypeOK
  <2>2. Told(c, t)
    BY <1>b, <2>0 DEF ops
  <2>3. stream[c] \subseteq stream'[c]
    BY <1>6 DEF WriteSSE, TypeOK
  <2>4. ASSUME NEW k \in ToSet(buffer[c]), t \in Covers(k)
        PROVE  t \in stream'[c] \/ \E kind \in ToSet(buffer'[c]) : t \in Covers(kind)
    BY <1>6, <2>1, <2>4 DEF WriteSSE, TypeOK
  <2> QED
    BY <2>0, <2>2, <2>3, <2>4, <1>c DEF Told
<1>7. ASSUME NEW d \in Connections, NEW s \in Topics, Fetch(d, s) PROVE Told(c, t)'
  <2>1. /\ view' = [view EXCEPT ![d][s] = version[UserOf[d]][s]]
        /\ stream' = [stream EXCEPT ![d] = @ \ {s}]
        /\ gap' = [gap EXCEPT ![d] = @ \ {s}]
        /\ UNCHANGED <<ops, step, subs, buffer, joined>>
    BY <1>7 DEF Fetch
  <2>2. UserOf[c] \in Users /\ version[UserOf[c]][t] \in Nat /\ version' = version
    BY <2>1 DEF TypeOK, ops
  <2>3. ~(c = d /\ t = s)
    <3> SUFFICES ASSUME c = d, t = s PROVE FALSE
      OBVIOUS
    <3>1. view'[c][t] = version[UserOf[c]][t]
      BY <2>1, <2>2 DEF TypeOK
    <3> QED
      BY <3>1, <2>2 DEF Owed
  <2>4. view'[c][t] = view[c][t]
    BY <2>1, <2>2, <2>3 DEF TypeOK
  <2>5. Told(c, t)
    BY <2>1, <2>2, <2>4, <1>a DEF Owed, Hears
  <2>6. (t \in stream[c] => t \in stream'[c]) /\ (t \in gap[c] => t \in gap'[c])
    BY <2>1, <2>3 DEF TypeOK
  <2> QED
    BY <2>1, <2>5, <2>6, <1>c DEF Told
<1>8. ASSUME NEW d \in Connections, Close(d) PROVE Told(c, t)'
  <2>1. c # d /\ step'[c] = step[c] /\ UNCHANGED <<ops, buffer>>
    BY <1>8 DEF Close, Hears, TypeOK
  <2>2. stream'[c] = stream[c] /\ gap'[c] = gap[c] /\ view'[c] = view[c] /\ joined'[c] = joined[c]
    BY <1>8, <2>1 DEF Close, Gone
  <2> QED
    BY <2>1, <2>2, <1>a, <1>c DEF Told, Owed, Hears, ops
<1>11. ASSUME NEW d \in Connections, NEW s \in Topics, FetchFails(d, s) PROVE Told(c, t)'
  <2>1. UNCHANGED <<ops, step, buffer, view, joined>>
    BY <1>11 DEF FetchFails
  <2>2. /\ gap[c] \subseteq gap'[c]
        /\ t \in stream[c] => t \in stream'[c] \cup gap'[c]
    BY <1>11 DEF FetchFails, TypeOK
  <2>3. Told(c, t)
    BY <1>b, <2>1 DEF ops
  <2> QED
    BY <2>1, <2>2, <2>3, <1>c DEF Told
<1>12. ASSUME NEW d \in Connections, RefreshPoll(d) PROVE Told(c, t)'
  <2>1. UNCHANGED <<ops, step, buffer, view, joined, gap>> /\ stream[c] \subseteq stream'[c]
    BY <1>12 DEF RefreshPoll, TypeOK
  <2>2. Told(c, t)
    BY <1>b, <2>1 DEF ops
  <2> QED
    BY <2>1, <2>2, <1>c DEF Told
<1>9. CASE Crash
  BY <1>9 DEF Crash, Hears
<1>10. CASE UNCHANGED vars
  BY <1>10, <1>b, <1>c DEF vars, ops, Told
<1> QED
  BY <1>1, <1>2, <1>3, <1>4, <1>5, <1>6, <1>7, <1>8, <1>9, <1>10, <1>11, <1>12 DEF Next, Operate, Handle

\* However commits, publications, registrations, announcements, fetches, polls
\* and failures interleave, a connected client without the newest money, or
\* without a security change made while it was connected, has been told, will
\* be, or had an event dropped, a change not published or a fetch failed
\* (Publish, handleEvents, _onEvent).
THEOREM NoChangeIsMissed == Spec => []NoChangeMissed
<1>1. Init => TypeOK /\ Registered /\ Informed
  BY TypeInit DEF Init, Informed, Hears
<1>2. TypeOK /\ Registered /\ Informed /\ [Next]_vars => TypeOK' /\ Registered' /\ Informed'
  BY TypeStep, InformedStep
<1>3. Informed => NoChangeMissed
  BY DEF Informed, NoChangeMissed, Hears, Told, Comes
<1> QED
  BY <1>1, <1>2, <1>3, PTL DEF Spec
=============================================================================
