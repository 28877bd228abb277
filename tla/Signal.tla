------------------------------- MODULE Signal -------------------------------
(***************************************************************************)
(* One Signal<T> of src/base/src/base.rs, shared by several threads: the   *)
(* value behind its RwLock, the dirty flag, the list of subscribers behind *)
(* its mutex and the status queue of each subscriber.                      *)
(*                                                                         *)
(* The host's task is one of the threads and the only one that flushes     *)
(* (host.rs, handle_message).  Signal, SignalReader and SignalWriter all   *)
(* wrap one counted handle, and every handle that is dropped runs          *)
(* <Signal as Drop>::drop, so handles are counted per thread.              *)
(*                                                                         *)
(* The value is an integer that counts the writes: what is written does    *)
(* not matter, which write a subscriber has seen does.                     *)
(***************************************************************************)
EXTENDS BoundedChannel

CONSTANTS
    Subs,         \* the SignalSubscribers that may be created
    Threads,      \* the threads that hold handles
    Host,         \* the one that runs the host's task
    NoOne,        \* the owner of a free mutex
    MaxWrites,    \* bound on the number of writes
    MaxHandles    \* bound on the handles of one thread

ASSUME HostAssumption == Host \in Threads
ASSUME NamesAssumption == Threads \cap Subs = {} /\ NoOne \notin Threads \cup Subs
ASSUME BoundsAssumption == MaxWrites \in Nat /\ MaxHandles \in Nat \ {0}

VARIABLES
    value,        \* SignalRepr.data
    dirty,        \* SignalRepr.dirty
    subscribers,  \* SignalRepr.subscribers: whose Sender is in the list
    lock,         \* who holds the mutex around that list
    todo,         \* the subscribers the owner has yet to iterate over
    chan,         \* chan[s]: the status queue of subscriber s
    pc,           \* where each thread and each subscriber is
    held,         \* held[t]: the handles that thread t owns
    seen          \* seen[s]: the value s last read

vars == <<value, dirty, subscribers, lock, todo, chan, pc, held, seen>>

Procs == Threads \cup Subs
Statuses == {"Changed", "Destroyed"}

\* mpsc::channel(1)
StatusBuffer == 1

ThreadStates == {"idle", "written", "flushWait", "flushing", "dropping"}
SubStates == {"none", "reading", "waiting", "dropping", "closing", "gone"}

TypeOK ==
    /\ value \in 0..MaxWrites
    /\ dirty \in BOOLEAN
    /\ subscribers \subseteq Subs
    /\ lock \in Procs \cup {NoOne}
    /\ todo \subseteq Subs
    /\ chan \in [Subs -> Channels(Statuses, Subs)]
    /\ pc \in [Procs -> ThreadStates \cup SubStates]
    /\ \A t \in Threads : pc[t] \in ThreadStates
    /\ \A s \in Subs : pc[s] \in SubStates
    /\ held \in [Threads -> 0..MaxHandles]
    /\ seen \in [Subs -> 0..MaxWrites]

\* The subscriber exists and its owner is not letting go of it.
Live(s) == pc[s] \in {"reading", "waiting"}

\* Signal::new, in the model the host's task owns.
Init ==
    /\ value = 0
    /\ dirty = FALSE
    /\ subscribers = {}
    /\ lock = NoOne
    /\ todo = {}
    /\ chan = [s \in Subs |-> EmptyChannel]
    /\ pc = [p \in Procs |-> IF p \in Threads THEN "idle" ELSE "none"]
    /\ held = [t \in Threads |-> IF t = Host THEN 1 ELSE 0]
    /\ seen = [s \in Subs |-> 0]

-----------------------------------------------------------------------------
(* Handles and writes *)

\* Thread t clones a handle (Signal::clone, reader, writer, a getter) for u.
CloneHandle(t, u) ==
    /\ pc[t] = "idle" /\ held[t] > 0
    /\ held[u] < MaxHandles
    /\ held' = [held EXCEPT ![u] = @ + 1]
    /\ UNCHANGED <<value, dirty, subscribers, lock, todo, chan, pc, seen>>

\* SignalWriter::update: f runs under the write guard, which is released ...
WriteData(t) ==
    /\ pc[t] = "idle" /\ held[t] > 0
    /\ value < MaxWrites
    /\ value' = value + 1
    /\ pc' = [pc EXCEPT ![t] = "written"]
    /\ UNCHANGED <<dirty, subscribers, lock, todo, chan, held, seen>>

\* ... before the flag is set.
StoreDirty(t) ==
    /\ pc[t] = "written"
    /\ dirty' = TRUE
    /\ pc' = [pc EXCEPT ![t] = "idle"]
    /\ UNCHANGED <<value, subscribers, lock, todo, chan, held, seen>>

-----------------------------------------------------------------------------
(* The mutex around the subscribers *)

Acquire(p) == lock = NoOne /\ lock' = p /\ todo' = subscribers
Release(p) == lock = p /\ todo = {} /\ lock' = NoOne /\ UNCHANGED todo

\* One turn of a loop over the list: status m is offered to s, and a queue
\* that is full or closed drops it.  The code goes in list order; here the
\* order is free.
Notify(p, s, m) ==
    /\ lock = p /\ s \in todo
    /\ chan' = [chan EXCEPT ![s] = TrySend(@, s, m, StatusBuffer)]
    /\ todo' = todo \ {s}

\* FlushSignals::__flush, called by the host for every message it handled.
FlushSwap ==
    /\ pc[Host] = "idle" /\ held[Host] > 0
    /\ dirty
    /\ dirty' = FALSE
    /\ pc' = [pc EXCEPT ![Host] = "flushWait"]
    /\ UNCHANGED <<value, subscribers, lock, todo, chan, held, seen>>

FlushLock ==
    /\ pc[Host] = "flushWait"
    /\ Acquire(Host)
    /\ pc' = [pc EXCEPT ![Host] = "flushing"]
    /\ UNCHANGED <<value, dirty, subscribers, chan, held, seen>>

\* Mutant of FlushSend: a status that is dropped ends the loop.
FlushSendStops(s) ==
    /\ pc[Host] = "flushing"
    /\ lock = Host /\ s \in todo
    /\ chan' = [chan EXCEPT ![s] = TrySend(@, s, "Changed", StatusBuffer)]
    /\ todo' = IF CanSend(chan[s], s) THEN todo \ {s} ELSE {}
    /\ UNCHANGED <<value, dirty, subscribers, lock, pc, held, seen>>

FlushSend(s) ==
    /\ pc[Host] = "flushing"
    /\ Notify(Host, s, "Changed")
    /\ UNCHANGED <<value, dirty, subscribers, lock, pc, held, seen>>

\* Mutant of FlushRetain: the flag is cleared when the flush is over.
FlushRetainClears ==
    /\ pc[Host] = "flushing"
    /\ Release(Host)
    /\ subscribers' = {s \in subscribers : chan[s].open}
    /\ dirty' = FALSE
    /\ pc' = [pc EXCEPT ![Host] = "idle"]
    /\ UNCHANGED <<value, chan, held, seen>>

\* Mutant of FlushRetain: a queue that is full is taken for a closed one.
FlushRetainNotFull ==
    /\ pc[Host] = "flushing"
    /\ Release(Host)
    /\ subscribers' = {s \in subscribers : CanSend(chan[s], s)}
    /\ pc' = [pc EXCEPT ![Host] = "idle"]
    /\ UNCHANGED <<value, dirty, chan, held, seen>>

FlushRetain ==
    /\ pc[Host] = "flushing"
    /\ Release(Host)
    /\ subscribers' = {s \in subscribers : chan[s].open}
    /\ pc' = [pc EXCEPT ![Host] = "idle"]
    /\ UNCHANGED <<value, dirty, chan, held, seen>>

\* Mutant of DropLock: a handle is dropped once more than it was cloned.
DropLockTwice(p) ==
    /\ IF p \in Threads THEN pc[p] = "idle" ELSE Live(p)
    /\ Acquire(p)
    /\ pc' = [pc EXCEPT ![p] = "dropping"]
    /\ UNCHANGED <<value, dirty, subscribers, chan, held, seen>>

\* <Signal as Drop>::drop, for a handle of a thread or the reader that is the
\* first field of a SignalSubscriber.
DropLock(p) ==
    /\ IF p \in Threads THEN pc[p] = "idle" /\ held[p] > 0 ELSE Live(p)
    /\ Acquire(p)
    /\ pc' = [pc EXCEPT ![p] = "dropping"]
    /\ UNCHANGED <<value, dirty, subscribers, chan, held, seen>>

DropSend(p, s) ==
    /\ pc[p] = "dropping"
    /\ Notify(p, s, "Destroyed")
    /\ UNCHANGED <<value, dirty, subscribers, lock, pc, held, seen>>

DropUnlock(p) ==
    /\ pc[p] = "dropping"
    /\ Release(p)
    /\ pc' = [pc EXCEPT ![p] = IF p \in Threads THEN "idle" ELSE "closing"]
    /\ held' = [t \in Threads |-> IF t = p THEN held[t] - 1 ELSE held[t]]
    /\ UNCHANGED <<value, dirty, subscribers, chan, seen>>

-----------------------------------------------------------------------------
(* Subscribers *)

\* Signal::subscribe.  Nothing but pushing the Sender happens under the mutex.
Subscribe(t, s) ==
    /\ pc[t] = "idle" /\ held[t] > 0
    /\ pc[s] = "none"
    /\ lock = NoOne
    /\ subscribers' = subscribers \cup {s}
    /\ chan' = [chan EXCEPT ![s] = EmptyChannel]
    /\ pc' = [pc EXCEPT ![s] = "reading"]
    /\ UNCHANGED <<value, dirty, lock, todo, held, seen>>

\* SignalSubscriber::read, and then SignalSubscriber::recv_status is awaited.
Read(s) ==
    /\ pc[s] = "reading"
    /\ seen' = [seen EXCEPT ![s] = value]
    /\ pc' = [pc EXCEPT ![s] = "waiting"]
    /\ UNCHANGED <<value, dirty, subscribers, lock, todo, chan, held>>

\* recv_status returns: whatever the status, the subscriber looks again.
Recv(s) ==
    /\ pc[s] = "waiting"
    /\ chan[s].msgs # <<>>
    /\ chan' = [chan EXCEPT ![s] = Pop(@)]
    /\ pc' = [pc EXCEPT ![s] = "reading"]
    /\ UNCHANGED <<value, dirty, subscribers, lock, todo, held, seen>>

\* Drop of status_rx, the field after the reader.
CloseRx(s) ==
    /\ pc[s] = "closing"
    /\ chan' = [chan EXCEPT ![s] = CloseChannel(@)]
    /\ pc' = [pc EXCEPT ![s] = "gone"]
    /\ UNCHANGED <<value, dirty, subscribers, lock, todo, held, seen>>

-----------------------------------------------------------------------------
FlushStep == FlushSwap \/ FlushLock \/ (\E s \in Subs : FlushSend(s)) \/ FlushRetain

Next ==
    \/ \E t, u \in Threads : CloneHandle(t, u)
    \/ \E t \in Threads : WriteData(t) \/ StoreDirty(t)
    \/ FlushStep
    \/ \E p \in Procs : DropLock(p) \/ DropUnlock(p)
    \/ \E p \in Procs, s \in Subs : DropSend(p, s)
    \/ \E t \in Threads, s \in Subs : Subscribe(t, s)
    \/ \E s \in Subs : Read(s) \/ Recv(s) \/ CloseRx(s)

Spec == Init /\ [][Next]_vars

-----------------------------------------------------------------------------
(* Properties *)

\* A subscriber that nobody has let go of stays in the list with its queue
\* open, whatever flushes and drops run: retain removes closed queues only,
\* never one that is merely full (base.rs, __flush).
LiveSubscribersAttached ==
    \A s \in Subs : Live(s) => s \in subscribers /\ chan[s].open

\* Somebody is about to tell s: the flag is set or about to be, or a flush has
\* taken the flag and has not reached s yet.
Underway(s) ==
    \/ dirty
    \/ \E t \in Threads : pc[t] = "written"
    \/ pc[Host] = "flushWait"
    \/ pc[Host] = "flushing" /\ s \in todo

NewsUnderway(s) == chan[s].msgs # <<>> \/ Underway(s)

\* No update is lost: a subscriber that waits in recv_status and has not seen
\* the latest value has news underway, though a full queue drops statuses, a
\* flush coalesces writes and a write may come between the swap of the flag
\* and the sends (base.rs, SignalWriter::update against __flush).
NoLostUpdate ==
    \A s \in Subs : pc[s] = "waiting" /\ seen[s] < value => NewsUnderway(s)

\* What the lock, the flag, the list and the queues come to for those who watch:
\* a write is owed to every subscriber from the write of the value until a flush
\* reaches that subscriber, a subscriber was told while its queue has a status or
\* it has taken one, and nobody is forgotten in between (base.rs, Signal and
\* SignalSubscriber).
Listening == {s \in Subs : Live(s)}
Owed(s) == Live(s) /\ Underway(s)
Told(s) == Live(s) /\ (pc[s] = "reading" \/ chan[s].msgs # <<>>)

WatchOf == INSTANCE Watch WITH
    Watchers <- Subs,
    listening <- Listening,
    value <- [s \in Subs |-> value],
    owed <- [s \in Subs |-> Owed(s)],
    told <- [s \in Subs |-> Told(s)]
ImplementsWatch == WatchOf!Spec

\* "Destroyed" is said of a signal that is gone: when a live subscriber finds it
\* in its queue, no thread owns a handle but the one that is in drop
\* (base.rs, SignalStatus and <Signal as Drop>::drop).
DestroyedMeansDestroyed ==
    \A s \in Subs : \A i \in DOMAIN chan[s].msgs :
        Live(s) /\ chan[s].msgs[i] = "Destroyed" =>
            \A t \in Threads : held[t] = IF pc[t] = "dropping" THEN 1 ELSE 0
=============================================================================
