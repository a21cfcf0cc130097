------------------------------ MODULE EventHub ------------------------------
(***************************************************************************)
(* Change notifications (events/hub.go, httpapi/events_handler.go and the  *)
(* client's app_scaffold.dart): an operation commits, then publishes; the  *)
(* hub copies the event into the buffer of every connection of the user; a *)
(* handler per connection writes it to the stream; the client fetches      *)
(* again what it refreshes for an event of that kind.                      *)
(*                                                                         *)
(* A connection is used once: a client that reconnects is a new one, that  *)
(* may have seen nothing of what happened before.                          *)
(***************************************************************************)
EXTENDS Integers, Sequences, FiniteSets, SequencesExt

CONSTANTS
    Users,
    Connections,
    UserOf,        \* connection |-> its user
    Slow,          \* connections whose client may stop reading
    Operations,    \* operations that change data and publish
    Changes,       \* operation |-> [user, kind], one of several assignments
    SubBuffer,     \* subBuffer
    MaxFaults      \* bound on restarts, changes not published, failed fetches

Topics == {"money", "security"}
Kinds == {"all", "security"}

ASSUME EventHubAssumption ==
    /\ IsFiniteSet(Connections) /\ UserOf \in [Connections -> Users]
    /\ Slow \subseteq Connections
    /\ Changes \subseteq [Operations -> [user : Users, kind : Kinds]]
    /\ SubBuffer \in Nat \ {0} /\ MaxFaults \in Nat

VARIABLES
    change,     \* operation |-> what it changes
    pc,         \* operation |-> "commit", "publish", "deliver" or "done"
    chs,        \* operation |-> channels it has still to serve
    version,    \* user |-> topic |-> number of changes committed
    step,       \* connection |-> its handler's next step
    subs,       \* connections registered with the hub
    buffer,     \* connection |-> events in its channel
    stream,     \* connection |-> topics the client was told to fetch
    view,       \* connection |-> topic |-> version the client has
    joined,     \* connection |-> topic |-> version when it was registered
    gap,        \* connection |-> topics with an event dropped, a change not
                \* published or a fetch failed since the last fetch
    faults

ops == <<change, pc, chs, version>>
vars == <<ops, step, subs, buffer, stream, view, joined, gap, faults>>

Handling == {"subscribe", "announce", "loop", "closed"}

TypeOK ==
    /\ change \in Changes
    /\ pc \in [Operations -> {"commit", "publish", "deliver", "done"}]
    /\ chs \in [Operations -> Seq(Connections)]
    /\ \A o \in Operations : pc[o] = "deliver" <=> chs[o] # <<>>
    /\ version \in [Users -> [Topics -> Nat]]
    /\ step \in [Connections -> Handling]
    /\ subs \subseteq {c \in Connections : step[c] \in {"announce", "loop"}}
    /\ buffer \in [Connections -> Seq(Kinds)]
    /\ \A c \in Connections : Len(buffer[c]) <= SubBuffer
    /\ stream \in [Connections -> SUBSET Topics]
    /\ view \in [Connections -> [Topics -> Nat]]
    /\ \A c \in Connections, t \in Topics : view[c][t] <= version[UserOf[c]][t]
    /\ joined \in [Connections -> [Topics -> Nat]]
    /\ gap \in [Connections -> SUBSET Topics]

Init ==
    /\ change \in Changes
    /\ pc = [o \in Operations |-> "commit"]
    /\ chs = [o \in Operations |-> <<>>]
    /\ version = [u \in Users |-> [t \in Topics |-> 0]]
    /\ step = [c \in Connections |-> "subscribe"]
    /\ subs = {}
    /\ buffer = [c \in Connections |-> <<>>]
    /\ stream = [c \in Connections |-> {}]
    /\ view = [c \in Connections |-> [t \in Topics |-> 0]]
    /\ joined = [c \in Connections |-> [t \in Topics |-> 0]]
    /\ gap = [c \in Connections |-> {}]
    /\ faults = 0

\* What a client refreshes for an event of a kind (_onEvent): "all" is the
\* financial data, and only "security" the security centre and the devices.
Covers(kind) == IF kind = "all" THEN {"money"} ELSE {"security"}

Fault == faults < MaxFaults /\ faults' = faults + 1
Live(c) == step[c] \in {"announce", "loop"}

-----------------------------------------------------------------------------
(* Operations.                                                             *)

\* A money operation changes money and publishes "all", a security event
\* publishes "security"; either way after the commit.
Topic(o) == IF change[o].kind = "all" THEN "money" ELSE "security"

Changed(o) == version' = [version EXCEPT ![change[o].user][Topic(o)] = @ + 1]

Commit(o) ==
    /\ pc[o] = "commit"
    /\ Changed(o)
    /\ pc' = [pc EXCEPT ![o] = "publish"]
    /\ UNCHANGED <<change, chs, step, subs, buffer, stream, view, joined, gap, faults>>

\* The change is stored and the call returns an error before it publishes: the
\* commit's acknowledgement is lost, or a statement that follows fails, as
\* RevokeAllExcept after UpdatePassword.
CommitUnpublished(o) ==
    /\ Fault
    /\ pc[o] = "commit"
    /\ Changed(o)
    /\ pc' = [pc EXCEPT ![o] = "done"]
    /\ gap' = [c \in Connections |-> gap[c] \cup {t \in {Topic(o)} : Live(c) /\ UserOf[c] = change[o].user}]
    /\ UNCHANGED <<change, chs, step, subs, buffer, stream, view, joined>>

Subscribers(u) == {c \in subs : UserOf[c] = u}

\* Publish copies the user's channels under the lock, in whatever order the
\* map gives them, and serves them after it.
Publish(o) ==
    /\ pc[o] = "publish"
    /\ \E to \in SetToSeqs(Subscribers(change[o].user)) :
          /\ chs' = [chs EXCEPT ![o] = to]
          /\ pc' = [pc EXCEPT ![o] = IF to = <<>> THEN "done" ELSE "deliver"]
    /\ UNCHANGED <<change, version, step, subs, buffer, stream, view, joined, gap, faults>>

\* Mutant: a send waits for room in the channel.
SendsWaiting(c) == Len(buffer[c]) < SubBuffer

\* select with a default: a send never waits.
Sends(c) == TRUE

\* Mutant: a full channel takes one more.
HasRoomForOneMore(c) == Len(buffer[c]) <= SubBuffer

HasRoom(c) == Len(buffer[c]) < SubBuffer

\* The connection may be closed by then; nobody reads its channel any more.
Deliver(o) ==
    /\ pc[o] = "deliver"
    /\ LET c == Head(chs[o]) IN
       /\ Sends(c)
       /\ chs' = [chs EXCEPT ![o] = Tail(@)]
       /\ pc' = [pc EXCEPT ![o] = IF chs'[o] = <<>> THEN "done" ELSE @]
       /\ IF HasRoom(c)
          THEN buffer' = [buffer EXCEPT ![c] = Append(@, change[o].kind)] /\ UNCHANGED gap
          ELSE /\ gap' = [gap EXCEPT ![c] = @ \cup {t \in Covers(change[o].kind) : Live(c)}]
               /\ UNCHANGED buffer
    /\ UNCHANGED <<change, version, step, subs, stream, view, joined, faults>>

-----------------------------------------------------------------------------
(* A connection (handleEvents).                                            *)

Subscribe(c) ==
    /\ step[c] = "subscribe"
    /\ subs' = subs \cup {c}
    /\ step' = [step EXCEPT ![c] = "announce"]
    /\ joined' = [joined EXCEPT ![c] = version[UserOf[c]]]
    /\ UNCHANGED <<ops, buffer, stream, view, gap, faults>>

\* Mutant: a connection is not announced.
AnnouncedNothing == {}

\* The "connected" event is of kind "all".
Announced == Covers("all")

Announce(c) ==
    /\ step[c] = "announce"
    /\ stream' = [stream EXCEPT ![c] = @ \cup Announced]
    /\ step' = [step EXCEPT ![c] = "loop"]
    /\ UNCHANGED <<ops, subs, buffer, view, joined, gap, faults>>

WriteSSE(c) ==
    /\ step[c] = "loop" /\ buffer[c] # <<>>
    /\ stream' = [stream EXCEPT ![c] = @ \cup Covers(Head(buffer[c]))]
    /\ buffer' = [buffer EXCEPT ![c] = Tail(@)]
    /\ UNCHANGED <<ops, step, subs, view, joined, gap, faults>>

(* The client (_ScaffoldWithNavBarState).                                  *)

\* It fetches a topic.
Fetch(c, t) ==
    /\ t \in stream[c]
    /\ view' = [view EXCEPT ![c][t] = version[UserOf[c]][t]]
    /\ stream' = [stream EXCEPT ![c] = @ \ {t}]
    /\ gap' = [gap EXCEPT ![c] = @ \ {t}]
    /\ UNCHANGED <<ops, step, subs, buffer, joined, faults>>

\* The fetch fails, and is not tried again until the next refresh.
FetchFails(c, t) ==
    /\ Fault
    /\ t \in stream[c]
    /\ stream' = [stream EXCEPT ![c] = @ \ {t}]
    /\ gap' = [gap EXCEPT ![c] = @ \cup {t}]
    /\ UNCHANGED <<ops, step, subs, buffer, view, joined>>

\* _refreshPoll: every 30 seconds it refreshes the financial data anyway.
RefreshPoll(c) ==
    /\ Live(c) /\ "money" \notin stream[c]
    /\ stream' = [stream EXCEPT ![c] = @ \cup {"money"}]
    /\ UNCHANGED <<ops, step, subs, buffer, view, joined, gap, faults>>

\* What the clients of closed connections had is of no interest any more.
Gone(cs) ==
    /\ stream' = [c \in Connections |-> IF c \in cs THEN {} ELSE stream[c]]
    /\ view' = [c \in Connections |-> IF c \in cs THEN [t \in Topics |-> 0] ELSE view[c]]
    /\ joined' = [c \in Connections |-> IF c \in cs THEN [t \in Topics |-> 0] ELSE joined[c]]
    /\ gap' = [c \in Connections |-> IF c \in cs THEN {} ELSE gap[c]]

-----------------------------------------------------------------------------
\* The request's context ends; Unsubscribe is deferred.
Close(c) ==
    /\ Live(c)
    /\ step' = [step EXCEPT ![c] = "closed"]
    /\ subs' = subs \ {c}
    /\ Gone({c})
    /\ UNCHANGED <<ops, buffer, faults>>

\* The process ends: no connection survives, and nothing committed before is
\* published any more.
Crash ==
    /\ Fault
    /\ step' = [c \in Connections |-> IF step[c] = "subscribe" THEN "subscribe" ELSE "closed"]
    /\ subs' = {}
    /\ pc' = [o \in Operations |-> IF pc[o] = "commit" THEN "commit" ELSE "done"]
    /\ chs' = [o \in Operations |-> <<>>]
    /\ buffer' = [c \in Connections |-> <<>>]
    /\ Gone(Connections)
    /\ UNCHANGED <<change, version>>

Operate(o) == Publish(o) \/ Deliver(o)
Handle(c) == Announce(c) \/ WriteSSE(c)

Next ==
    \/ \E o \in Operations : Commit(o) \/ CommitUnpublished(o) \/ Operate(o)
    \/ \E c \in Connections :
          \/ Subscribe(c) \/ Handle(c) \/ RefreshPoll(c) \/ Close(c)
          \/ \E t \in Topics : Fetch(c, t) \/ FetchFails(c, t)
    \/ Crash

Spec == Init /\ [][Next]_vars

\* The runtime schedules every goroutine; a client that is not slow reads its
\* stream, fetches, and its timer fires.
FairSpec ==
    /\ Spec
    /\ \A o \in Operations : WF_vars(Operate(o))
    /\ \A c \in Connections \ Slow :
          /\ WF_vars(Handle(c)) /\ WF_vars(RefreshPoll(c))
          /\ \A t \in Topics : WF_vars(Fetch(c, t))

-----------------------------------------------------------------------------
(* Properties.                                                             *)

\* The client of connection c is to be told about topic t: it does not have
\* the newest money, or the newest of a security change made while connected.
Owed(c, t) ==
    /\ view[c][t] < version[UserOf[c]][t]
    /\ t = "money" \/ joined[c][t] < version[UserOf[c]][t]

\* Commits, the copying of the channels, registration and the "connected"
\* announcement interleave: a connected client that does not have the newest
\* money, whenever it changed, or the newest of the security data that changed
\* while it was connected, has been told, or will be by an event in its channel
\* or by an operation that is publishing, or an event found its channel full, a
\* change was not published or its fetch failed.
NoChangeMissed ==
    \A c \in Connections, t \in Topics :
        step[c] = "loop" /\ Owed(c, t) =>
            \/ t \in stream[c] \/ t \in gap[c]
            \/ \E k \in ToSet(buffer[c]) : t \in Covers(k)
            \/ \E o \in Operations :
                 /\ change[o].user = UserOf[c] /\ Topic(o) = t
                 /\ pc[o] = "publish" \/ c \in ToSet(chs[o])

\* "slow clients drop events rather than blocking publishers": a client that
\* reads its stream has in the end the newest money, whatever failed and
\* whatever the others do, and the newest of the security data that changed
\* while it was connected, unless its channel overflowed, that change was not
\* published or its fetch failed.
ReadersCatchUp ==
    <>[](\A c \in Connections \ Slow, t \in Topics :
            step[c] = "loop" => ~Owed(c, t) \/ (t = "security" /\ t \in gap[c]))
=============================================================================
