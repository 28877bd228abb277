---------------------------- MODULE SignalProofs ----------------------------
(***************************************************************************)
(* No update of a signal is lost, for any number of threads, subscribers,  *)
(* handles and writes.                                                     *)
(***************************************************************************)
EXTENDS Signal, BoundedChannelProofs

\* The queue of every subscriber parks as many senders as it overflows.
QueuesOK == \A s \in Subs : WellFormed(chan[s], StatusBuffer)

\* Whoever iterates over the subscribers holds the mutex, so a list that is
\* being iterated over is nobody else's.
LockOwner == \A p \in Procs : pc[p] \in {"flushing", "dropping"} => lock = p

\* A thread that runs drop still owns the handle it drops.
HandleOwned == \A t \in Threads : pc[t] = "dropping" => held[t] > 0

IInv ==
    /\ TypeOK
    /\ QueuesOK
    /\ LockOwner
    /\ HandleOwned
    /\ LiveSubscribersAttached
    /\ NoLostUpdate

-----------------------------------------------------------------------------

\* The initial states satisfy the invariant.
LEMMA InitIInv == Init => IInv
  <1> SUFFICES ASSUME Init PROVE IInv
    OBVIOUS
  <1> USE DEF Init
  <1>1. TypeOK
    <2>1. EmptyChannel \in Channels(Statuses, Subs)
      BY EmptyChannelFacts
    <2>2. pc \in [Procs -> ThreadStates \cup SubStates]
      BY DEF ThreadStates, SubStates
    <2>3. /\ \A t \in Threads : pc[t] \in ThreadStates
          /\ \A s \in Subs : pc[s] \in SubStates
      BY NamesAssumption DEF ThreadStates, SubStates, Procs
    <2>4. held \in [Threads -> 0..MaxHandles]
      BY BoundsAssumption
    <2>5. value \in 0..MaxWrites /\ seen \in [Subs -> 0..MaxWrites]
      BY BoundsAssumption
    <2>6. chan \in [Subs -> Channels(Statuses, Subs)]
      BY <2>1
    <2>7. /\ dirty \in BOOLEAN /\ subscribers \subseteq Subs
          /\ lock \in Procs \cup {NoOne} /\ todo \subseteq Subs
      OBVIOUS
    <2> QED
      BY <2>2, <2>3, <2>4, <2>5, <2>6, <2>7, Zenon DEF TypeOK
  <1>2. QueuesOK
    BY EmptyChannelFacts DEF QueuesOK, StatusBuffer
  <1>3. LockOwner /\ HandleOwned
    BY NamesAssumption DEF LockOwner, HandleOwned, Procs
  <1>4. LiveSubscribersAttached /\ NoLostUpdate
    BY NamesAssumption DEF LiveSubscribersAttached, NoLostUpdate, Live, Procs
  <1> QED
    BY <1>1, <1>2, <1>3, <1>4 DEF IInv

\* A step that replaces one queue by a well-formed one keeps all of them so.
LEMMA ChanUpdate ==
    ASSUME chan \in [Subs -> Channels(Statuses, Subs)], QueuesOK,
           NEW s \in Subs, NEW c \in Channels(Statuses, Subs),
           WellFormed(c, StatusBuffer),
           chan' = [chan EXCEPT ![s] = c]
    PROVE  /\ chan' \in [Subs -> Channels(Statuses, Subs)]
           /\ QueuesOK'
           /\ chan'[s] = c
           /\ \A r \in Subs \ {s} : chan'[r] = chan[r]
  BY DEF QueuesOK, StatusBuffer

\* Cloning a handle disturbs nothing but the count.
LEMMA CloneHandleStep ==
    ASSUME IInv, NEW t \in Threads, NEW u \in Threads, CloneHandle(t, u)
    PROVE  IInv'
  <1> USE DEF IInv, CloneHandle
  <1>1. TypeOK'
    BY BoundsAssumption DEF TypeOK
  <1>2. QueuesOK' /\ LockOwner'
    BY DEF QueuesOK, LockOwner
  <1>3. HandleOwned'
    BY DEF HandleOwned, TypeOK
  <1>4. LiveSubscribersAttached' /\ NoLostUpdate'
    BY DEF LiveSubscribersAttached, Live, NoLostUpdate, NewsUnderway, Underway
  <1> QED
    BY <1>1, <1>2, <1>3, <1>4

\* A writer that has written is about to set the flag.
LEMMA WriteDataStep ==
    ASSUME IInv, NEW t \in Threads, WriteData(t)
    PROVE  IInv'
  <1> USE DEF IInv, WriteData
  <1>1. TypeOK'
    BY BoundsAssumption, NamesAssumption DEF TypeOK, Procs, ThreadStates
  <1>2. QueuesOK' /\ LockOwner' /\ HandleOwned'
    BY DEF QueuesOK, LockOwner, HandleOwned, TypeOK, Procs
  <1>3. LiveSubscribersAttached'
    BY NamesAssumption DEF LiveSubscribersAttached, Live, TypeOK, Procs
  <1>4. NoLostUpdate'
    BY DEF NoLostUpdate, NewsUnderway, Underway, TypeOK, Procs
  <1> QED
    BY <1>1, <1>2, <1>3, <1>4

\* With the flag set, every subscriber has news underway.
LEMMA StoreDirtyStep ==
    ASSUME IInv, NEW t \in Threads, StoreDirty(t)
    PROVE  IInv'
  <1> USE DEF IInv, StoreDirty
  <1>1. TypeOK'
    BY NamesAssumption DEF TypeOK, Procs, ThreadStates
  <1>2. QueuesOK' /\ LockOwner' /\ HandleOwned'
    BY DEF QueuesOK, LockOwner, HandleOwned, TypeOK, Procs
  <1>3. LiveSubscribersAttached'
    BY NamesAssumption DEF LiveSubscribersAttached, Live, TypeOK, Procs
  <1>4. NoLostUpdate'
    BY DEF NoLostUpdate, NewsUnderway, Underway
  <1> QED
    BY <1>1, <1>2, <1>3, <1>4

\* The host that takes the flag is on its way to tell everybody.
LEMMA FlushSwapStep ==
    ASSUME IInv, FlushSwap
    PROVE  IInv'
  <1> USE HostAssumption DEF IInv, FlushSwap
  <1>1. TypeOK'
    BY NamesAssumption DEF TypeOK, Procs, ThreadStates
  <1>2. QueuesOK' /\ LockOwner' /\ HandleOwned'
    BY DEF QueuesOK, LockOwner, HandleOwned, TypeOK, Procs
  <1>3. LiveSubscribersAttached'
    BY NamesAssumption DEF LiveSubscribersAttached, Live, TypeOK, Procs
  <1>4. NoLostUpdate'
    BY DEF NoLostUpdate, NewsUnderway, Underway, TypeOK, Procs
  <1> QED
    BY <1>1, <1>2, <1>3, <1>4

\* The flush sets out to tell every subscriber, a waiting one among them.
LEMMA FlushLockStep ==
    ASSUME IInv, FlushLock
    PROVE  IInv'
  <1> USE HostAssumption DEF IInv, FlushLock, Acquire
  <1>1. TypeOK'
    BY NamesAssumption DEF TypeOK, Procs, ThreadStates
  <1>2. QueuesOK' /\ LockOwner' /\ HandleOwned'
    BY NamesAssumption DEF QueuesOK, LockOwner, HandleOwned, TypeOK, Procs
  <1>3. LiveSubscribersAttached'
    BY NamesAssumption DEF LiveSubscribersAttached, Live, TypeOK, Procs
  <1>4. NoLostUpdate'
    <2> SUFFICES ASSUME NEW s \in Subs, (pc[s] = "waiting" /\ seen[s] < value)'
                 PROVE  NewsUnderway(s)'
      BY DEF NoLostUpdate
    <2>1. Live(s)
      BY NamesAssumption DEF Live, TypeOK, Procs
    <2>2. s \in todo'
      BY <2>1 DEF LiveSubscribersAttached
    <2> QED
      BY <2>2 DEF NewsUnderway, Underway, TypeOK, Procs
  <1> QED
    BY <1>1, <1>2, <1>3, <1>4

\* A turn of either loop: whoever is waiting ends up with a status to read, and
\* a status that was there stays.
LEMMA NotifyFacts ==
    ASSUME IInv, NEW p \in Procs, NEW s \in Subs, NEW m \in Statuses, Notify(p, s, m)
    PROVE  /\ chan' \in [Subs -> Channels(Statuses, Subs)]
           /\ QueuesOK'
           /\ \A r \in Subs : chan'[r].open = chan[r].open
           /\ \A r \in Subs : chan[r].msgs # <<>> => chan'[r].msgs # <<>>
           /\ chan[s].open => chan'[s].msgs # <<>>
  <1> DEFINE c == TrySend(chan[s], s, m, StatusBuffer)
  <1>1. /\ chan \in [Subs -> Channels(Statuses, Subs)]
        /\ chan[s] \in Channels(Statuses, Subs)
        /\ WellFormed(chan[s], StatusBuffer)
        /\ QueuesOK
    BY DEF IInv, TypeOK, QueuesOK
  <1>2. StatusBuffer \in Nat
    BY DEF StatusBuffer
  <1>3. /\ c \in Channels(Statuses, Subs)
        /\ WellFormed(c, StatusBuffer)
        /\ c.open = chan[s].open
        /\ chan[s].open => c.msgs # <<>>
        /\ chan[s].msgs # <<>> => c.msgs # <<>>
    <2>1. s \in Subs /\ m \in Statuses
      OBVIOUS
    <2> QED
      BY <1>1, <1>2, <2>1, TrySendFacts, SMTT(30)
  <1>4. chan' = [chan EXCEPT ![s] = c]
    BY DEF Notify
  <1> HIDE DEF c
  <1>5. /\ chan' \in [Subs -> Channels(Statuses, Subs)]
        /\ QueuesOK'
        /\ chan'[s] = c
        /\ \A r \in Subs \ {s} : chan'[r] = chan[r]
    BY <1>1, <1>3, <1>4, ChanUpdate
  <1> QED
    BY <1>3, <1>5

\* Once told, a subscriber has a status to read; the others are still to come.
LEMMA FlushSendStep ==
    ASSUME IInv, NEW s \in Subs, FlushSend(s)
    PROVE  IInv'
  <1> USE HostAssumption DEF IInv, FlushSend
  <1>1. /\ chan' \in [Subs -> Channels(Statuses, Subs)]
        /\ QueuesOK'
        /\ \A r \in Subs : chan'[r].open = chan[r].open
        /\ \A r \in Subs : chan[r].msgs # <<>> => chan'[r].msgs # <<>>
        /\ chan[s].open => chan'[s].msgs # <<>>
    BY NotifyFacts DEF Procs, Statuses
  <1>2. TypeOK'
    BY <1>1 DEF TypeOK, Notify
  <1>3. LockOwner' /\ HandleOwned'
    BY DEF LockOwner, HandleOwned
  <1>4. LiveSubscribersAttached'
    BY <1>1 DEF LiveSubscribersAttached, Live
  <1>5. NoLostUpdate'
    <2> SUFFICES ASSUME NEW r \in Subs, pc[r] = "waiting" /\ seen[r] < value
                 PROVE  NewsUnderway(r)'
      BY DEF NoLostUpdate
    <2>1. chan[r].open
      BY DEF LiveSubscribersAttached, Live
    <2>2. NewsUnderway(r)
      BY DEF NoLostUpdate
    <2>3. CASE r = s
      BY <1>1, <2>1, <2>3 DEF NewsUnderway, Underway
    <2>4. CASE r # s
      BY <1>1, <2>2, <2>4 DEF NewsUnderway, Underway, Notify
    <2> QED
      BY <2>3, <2>4
  <1> QED
    BY <1>1, <1>2, <1>3, <1>4, <1>5

\* retain throws out queues that are closed, and no live subscriber has one.
LEMMA FlushRetainStep ==
    ASSUME IInv, FlushRetain
    PROVE  IInv'
  <1> USE HostAssumption DEF IInv, FlushRetain, Release
  <1>1. TypeOK'
    BY NamesAssumption DEF TypeOK, Procs, ThreadStates
  <1>2. QueuesOK' /\ HandleOwned'
    BY DEF QueuesOK, HandleOwned, TypeOK, Procs
  <1>3. LockOwner'
    BY NamesAssumption DEF LockOwner, TypeOK, Procs
  <1>4. LiveSubscribersAttached'
    BY NamesAssumption DEF LiveSubscribersAttached, Live, TypeOK, Procs
  <1>5. NoLostUpdate'
    BY NamesAssumption DEF NoLostUpdate, NewsUnderway, Underway, TypeOK, Procs
  <1> QED
    BY <1>1, <1>2, <1>3, <1>4, <1>5

\* Beginning to drop a handle takes the mutex from nobody.
LEMMA DropLockStep ==
    ASSUME IInv, NEW p \in Procs, DropLock(p)
    PROVE  IInv'
  <1> USE DEF IInv, DropLock, Acquire
  <1>1. TypeOK'
    BY NamesAssumption DEF TypeOK, Procs, ThreadStates, SubStates
  <1>2. QueuesOK' /\ HandleOwned'
    BY DEF QueuesOK, HandleOwned, TypeOK, Procs
  <1>3. LockOwner'
    BY NamesAssumption DEF LockOwner, TypeOK, Procs
  <1>4. LiveSubscribersAttached'
    BY DEF LiveSubscribersAttached, Live, TypeOK, Procs
  <1>5. NoLostUpdate'
    BY HostAssumption, NamesAssumption DEF NoLostUpdate, NewsUnderway, Underway, LockOwner, TypeOK, Procs, Live
  <1> QED
    BY <1>1, <1>2, <1>3, <1>4, <1>5

\* "Destroyed" in a queue is news like any other.
LEMMA DropSendStep ==
    ASSUME IInv, NEW p \in Procs, NEW s \in Subs, DropSend(p, s)
    PROVE  IInv'
  <1> USE DEF IInv, DropSend
  <1>1. /\ chan' \in [Subs -> Channels(Statuses, Subs)]
        /\ QueuesOK'
        /\ \A r \in Subs : chan'[r].open = chan[r].open
        /\ \A r \in Subs : chan[r].msgs # <<>> => chan'[r].msgs # <<>>
    BY NotifyFacts DEF Statuses
  <1>2. TypeOK'
    BY <1>1 DEF TypeOK, Notify
  <1>3. LockOwner' /\ HandleOwned'
    BY DEF LockOwner, HandleOwned
  <1>4. LiveSubscribersAttached'
    BY <1>1 DEF LiveSubscribersAttached, Live
  <1>5. NoLostUpdate'
    <2>1. pc[Host] # "flushing"
      BY HostAssumption DEF LockOwner, Notify, Procs
    <2> QED
      BY <1>1, <2>1 DEF NoLostUpdate, NewsUnderway, Underway
  <1> QED
    BY <1>1, <1>2, <1>3, <1>4, <1>5

\* A thread that ends a drop has one handle less, a subscriber is on its way out.
LEMMA DropUnlockStep ==
    ASSUME IInv, NEW p \in Procs, DropUnlock(p)
    PROVE  IInv'
  <1> USE DEF IInv, DropUnlock, Release
  <1>1. TypeOK'
    <2>1. held' \in [Threads -> 0..MaxHandles]
      <3>1. \A t \in Threads : held[t] \in 0..MaxHandles /\ (t = p => held[t] > 0)
        BY DEF TypeOK, HandleOwned
      <3>2. \A t \in Threads : (IF t = p THEN held[t] - 1 ELSE held[t]) \in 0..MaxHandles
        BY <3>1, BoundsAssumption
      <3> QED
        BY <3>2
    <2>2. /\ pc' \in [Procs -> ThreadStates \cup SubStates]
          /\ \A t \in Threads : pc'[t] \in ThreadStates
          /\ \A s \in Subs : pc'[s] \in SubStates
      BY NamesAssumption DEF TypeOK, Procs, ThreadStates, SubStates
    <2> QED
      BY <2>1, <2>2 DEF TypeOK
  <1>2. QueuesOK'
    BY DEF QueuesOK
  <1>3. HandleOwned'
    BY DEF HandleOwned, TypeOK, Procs
  <1>4. LockOwner'
    BY NamesAssumption DEF LockOwner, TypeOK, Procs
  <1>5. LiveSubscribersAttached'
    BY NamesAssumption DEF LiveSubscribersAttached, Live, TypeOK, Procs
  <1>6. NoLostUpdate'
    BY HostAssumption, NamesAssumption DEF NoLostUpdate, NewsUnderway, Underway, LockOwner, TypeOK, Procs
  <1> QED
    BY <1>1, <1>2, <1>3, <1>4, <1>5, <1>6

\* A new subscriber is in the list with an open queue and reads first.
LEMMA SubscribeStep ==
    ASSUME IInv, NEW t \in Threads, NEW s \in Subs, Subscribe(t, s)
    PROVE  IInv'
  <1> USE DEF IInv, Subscribe
  <1>1. /\ EmptyChannel \in Channels(Statuses, Subs)
        /\ WellFormed(EmptyChannel, StatusBuffer)
        /\ EmptyChannel.open
    BY EmptyChannelFacts DEF StatusBuffer
  <1>2. /\ chan' \in [Subs -> Channels(Statuses, Subs)]
        /\ QueuesOK'
        /\ chan'[s] = EmptyChannel
        /\ \A r \in Subs \ {s} : chan'[r] = chan[r]
    BY <1>1, ChanUpdate DEF TypeOK
  <1>3. TypeOK'
    BY <1>2, NamesAssumption DEF TypeOK, Procs, SubStates
  <1>4. LockOwner' /\ HandleOwned'
    BY NamesAssumption DEF LockOwner, HandleOwned, TypeOK, Procs
  <1>5. LiveSubscribersAttached'
    BY <1>1, <1>2 DEF LiveSubscribersAttached, Live, TypeOK, Procs
  <1>6. NoLostUpdate'
    BY <1>2, HostAssumption, NamesAssumption DEF NoLostUpdate, NewsUnderway, Underway, TypeOK, Procs
  <1> QED
    BY <1>2, <1>3, <1>4, <1>5, <1>6

\* Whoever has just read has seen the latest value.
LEMMA ReadStep ==
    ASSUME IInv, NEW s \in Subs, Read(s)
    PROVE  IInv'
  <1> USE DEF IInv, Read
  <1>1. TypeOK'
    BY NamesAssumption DEF TypeOK, Procs, SubStates
  <1>2. QueuesOK' /\ LockOwner' /\ HandleOwned'
    BY NamesAssumption DEF QueuesOK, LockOwner, HandleOwned, TypeOK, Procs
  <1>3. LiveSubscribersAttached'
    BY DEF LiveSubscribersAttached, Live, TypeOK, Procs
  <1>4. NoLostUpdate'
    BY HostAssumption, NamesAssumption DEF NoLostUpdate, NewsUnderway, Underway, TypeOK, Procs
  <1> QED
    BY <1>1, <1>2, <1>3, <1>4

\* Whoever takes a status is about to read.
LEMMA RecvStep ==
    ASSUME IInv, NEW s \in Subs, Recv(s)
    PROVE  IInv'
  <1> USE DEF IInv, Recv
  <1>1. /\ Pop(chan[s]) \in Channels(Statuses, Subs)
        /\ WellFormed(Pop(chan[s]), StatusBuffer)
        /\ Pop(chan[s]).open = chan[s].open
    BY PopFacts DEF TypeOK, QueuesOK, StatusBuffer
  <1>2. /\ chan' \in [Subs -> Channels(Statuses, Subs)]
        /\ QueuesOK'
        /\ chan'[s] = Pop(chan[s])
        /\ \A r \in Subs \ {s} : chan'[r] = chan[r]
    BY <1>1, ChanUpdate DEF TypeOK
  <1>3. TypeOK'
    BY <1>2, NamesAssumption DEF TypeOK, Procs, SubStates
  <1>4. LockOwner' /\ HandleOwned'
    BY NamesAssumption DEF LockOwner, HandleOwned, TypeOK, Procs
  <1>5. LiveSubscribersAttached'
    BY <1>1, <1>2 DEF LiveSubscribersAttached, Live, TypeOK, Procs
  <1>6. NoLostUpdate'
    BY <1>2, HostAssumption, NamesAssumption DEF NoLostUpdate, NewsUnderway, Underway, TypeOK, Procs
  <1> QED
    BY <1>2, <1>3, <1>4, <1>5, <1>6

\* A queue is closed by a subscriber that is no longer live.
LEMMA CloseRxStep ==
    ASSUME IInv, NEW s \in Subs, CloseRx(s)
    PROVE  IInv'
  <1> USE DEF IInv, CloseRx
  <1>1. /\ CloseChannel(chan[s]) \in Channels(Statuses, Subs)
        /\ WellFormed(CloseChannel(chan[s]), StatusBuffer)
    BY CloseChannelFacts DEF StatusBuffer
  <1>2. /\ chan' \in [Subs -> Channels(Statuses, Subs)]
        /\ QueuesOK'
        /\ \A r \in Subs \ {s} : chan'[r] = chan[r]
    BY <1>1, ChanUpdate DEF TypeOK
  <1>3. TypeOK'
    BY <1>2, NamesAssumption DEF TypeOK, Procs, SubStates
  <1>4. LockOwner' /\ HandleOwned'
    BY NamesAssumption DEF LockOwner, HandleOwned, TypeOK, Procs
  <1>5. LiveSubscribersAttached'
    BY <1>2 DEF LiveSubscribersAttached, Live, TypeOK, Procs
  <1>6. NoLostUpdate'
    BY <1>2, HostAssumption, NamesAssumption DEF NoLostUpdate, NewsUnderway, Underway, TypeOK, Procs
  <1> QED
    BY <1>2, <1>3, <1>4, <1>5, <1>6

\* Every step, and every stutter, preserves the invariant.
LEMMA NextIInv == IInv /\ [Next]_vars => IInv'
  <1> SUFFICES ASSUME IInv, [Next]_vars PROVE IInv'
    OBVIOUS
  <1>1. CASE \E t, u \in Threads : CloneHandle(t, u)
    BY <1>1, CloneHandleStep
  <1>2. CASE \E t \in Threads : WriteData(t) \/ StoreDirty(t)
    BY <1>2, WriteDataStep, StoreDirtyStep
  <1>3. CASE FlushStep
    BY <1>3, FlushSwapStep, FlushLockStep, FlushSendStep, FlushRetainStep DEF FlushStep
  <1>4. CASE \E p \in Procs : DropLock(p) \/ DropUnlock(p)
    BY <1>4, DropLockStep, DropUnlockStep
  <1>5. CASE \E p \in Procs, s \in Subs : DropSend(p, s)
    BY <1>5, DropSendStep
  <1>6. CASE \E t \in Threads, s \in Subs : Subscribe(t, s)
    BY <1>6, SubscribeStep
  <1>7. CASE \E s \in Subs : Read(s) \/ Recv(s) \/ CloseRx(s)
    BY <1>7, ReadStep, RecvStep, CloseRxStep
  <1>8. CASE UNCHANGED vars
    BY <1>8 DEF vars, IInv, TypeOK, QueuesOK, LockOwner, HandleOwned,
                LiveSubscribersAttached, Live, NoLostUpdate, NewsUnderway, Underway
  <1> QED
    BY <1>1, <1>2, <1>3, <1>4, <1>5, <1>6, <1>7, <1>8 DEF Next

\* IInv is invariant.
LEMMA SpecIInv == Spec => []IInv
  BY InitIInv, NextIInv, PTL DEF Spec

\* The variables of a signal keep their types, whatever its threads do: no
\* handle is dropped more often than it was cloned.
THEOREM SignalTypeOK == Spec => []TypeOK
  BY SpecIInv, PTL DEF IInv

\* retain never throws out a subscriber that somebody still listens on.
THEOREM SignalLiveSubscribersAttached == Spec => []LiveSubscribersAttached
  BY SpecIInv, PTL DEF IInv

\* No update is lost between SignalWriter::update, __flush and recv_status.
THEOREM SignalNoLostUpdate == Spec => []NoLostUpdate
  BY SpecIInv, PTL DEF IInv

-----------------------------------------------------------------------------
(* The signal implements Watch.  Most of its steps change nothing for those  *)
(* who watch: what one of them takes from a subscriber that is owed a status *)
(* (the flag, the lock, the place in the list) it replaces at once.          *)

\* No subscriber is a thread.
LEMMA Apart == \A s \in Subs : s \notin Threads /\ s # Host
  BY NamesAssumption, HostAssumption

\* A step that leaves every subscriber as it was is none of Watch's.
LEMMA Unnoticed ==
    ASSUME value' = value, seen' = seen,
           \A s \in Subs : /\ Live(s)' = Live(s)
                          /\ Owed(s)' = Owed(s)
                          /\ Told(s)' = Told(s)
    PROVE  UNCHANGED WatchOf!vars
  <1>1. Listening' = Listening
    BY DEF Listening
  <1>2. /\ [s \in Subs |-> Owed(s)]' = [s \in Subs |-> Owed(s)]
        /\ [s \in Subs |-> Told(s)]' = [s \in Subs |-> Told(s)]
        /\ [s \in Subs |-> value]' = [s \in Subs |-> value]
    OBVIOUS
  <1> QED
    BY <1>1, <1>2 DEF WatchOf!vars

\* Handles are none of a subscriber's business.
LEMMA CloneHandleUnnoticed ==
    ASSUME IInv, NEW t \in Threads, NEW u \in Threads, CloneHandle(t, u)
    PROVE  UNCHANGED WatchOf!vars
  BY Unnoticed DEF CloneHandle, Live, Owed, Told, Underway

\* The flag is set in place of the writer that was about to set it.
LEMMA StoreDirtyUnnoticed ==
    ASSUME IInv, NEW t \in Threads, StoreDirty(t)
    PROVE  UNCHANGED WatchOf!vars
  <1>1. \A s \in Subs : pc'[s] = pc[s]
    BY Apart DEF StoreDirty, IInv, TypeOK, Procs
  <1>2. \A s \in Subs : Underway(s) /\ Underway(s)'
    BY DEF StoreDirty, Underway
  <1> QED
    BY <1>1, <1>2, Unnoticed DEF StoreDirty, Live, Owed, Told

\* The flush takes the place of the flag.
LEMMA FlushSwapUnnoticed ==
    ASSUME IInv, FlushSwap
    PROVE  UNCHANGED WatchOf!vars
  <1>1. \A s \in Subs : pc'[s] = pc[s]
    BY Apart DEF FlushSwap, IInv, TypeOK, Procs
  <1>2. \A s \in Subs : Underway(s) /\ Underway(s)'
    BY HostAssumption DEF FlushSwap, Underway, IInv, TypeOK, Procs
  <1> QED
    BY <1>1, <1>2, Unnoticed DEF FlushSwap, Live, Owed, Told

\* The list that is iterated over holds everybody who is owed a status.
LEMMA FlushLockUnnoticed ==
    ASSUME IInv, FlushLock
    PROVE  UNCHANGED WatchOf!vars
  <1>1. \A s \in Subs : pc'[s] = pc[s]
    BY Apart DEF FlushLock, IInv, TypeOK, Procs
  <1>2. \A s \in Subs : Underway(s)
    BY DEF FlushLock, Underway
  <1>3. \A s \in Subs : Live(s) => Underway(s)'
    BY HostAssumption DEF FlushLock, Acquire, Underway, IInv, TypeOK, Procs, LiveSubscribersAttached
  <1> QED
    BY <1>1, <1>2, <1>3, Unnoticed DEF FlushLock, Live, Owed, Told

\* At the end of a flush nobody is left to be told.
LEMMA FlushRetainUnnoticed ==
    ASSUME IInv, FlushRetain
    PROVE  UNCHANGED WatchOf!vars
  <1>1. \A s \in Subs : pc'[s] = pc[s]
    BY Apart DEF FlushRetain, IInv, TypeOK, Procs
  <1>2. \A s \in Subs : Underway(s)' = Underway(s)
    BY HostAssumption DEF FlushRetain, Release, Underway, IInv, TypeOK, Procs
  <1> QED
    BY <1>1, <1>2, Unnoticed DEF FlushRetain, Live, Owed, Told

\* A thread that begins to drop its handle finds no flush under way.
LEMMA DropLockUnnoticed ==
    ASSUME IInv, NEW p \in Threads, DropLock(p)
    PROVE  UNCHANGED WatchOf!vars
  <1>1. \A s \in Subs : pc'[s] = pc[s]
    BY Apart DEF DropLock, IInv, TypeOK, Procs
  <1>2. \A s \in Subs : Underway(s)' = Underway(s)
    BY HostAssumption, NamesAssumption DEF DropLock, Acquire, Underway, IInv, TypeOK, Procs, LockOwner
  <1> QED
    BY <1>1, <1>2, Unnoticed DEF DropLock, Live, Owed, Told

\* Whoever ends a drop is not flushing, and no longer listens.
LEMMA DropUnlockUnnoticed ==
    ASSUME IInv, NEW p \in Procs, DropUnlock(p)
    PROVE  UNCHANGED WatchOf!vars
  <1>1. \A s \in Subs : Live(s)' = Live(s) /\ (pc'[s] = "reading" <=> pc[s] = "reading")
    BY Apart DEF DropUnlock, Live, IInv, TypeOK, Procs
  <1>2. \A s \in Subs : Underway(s)' = Underway(s)
    BY HostAssumption, NamesAssumption DEF DropUnlock, Release, Underway, IInv, TypeOK, Procs, LockOwner
  <1> QED
    BY <1>1, <1>2, Unnoticed DEF DropUnlock, Owed, Told

\* A status that is taken was told, and is told until the subscriber reads.
LEMMA RecvUnnoticed ==
    ASSUME IInv, NEW s \in Subs, Recv(s)
    PROVE  UNCHANGED WatchOf!vars
  <1>1. \A r \in Subs : Live(r)' = Live(r) /\ (r # s => pc'[r] = pc[r] /\ chan'[r] = chan[r])
    BY DEF Recv, Live, IInv, TypeOK, Procs
  <1>2. \A r \in Subs : Underway(r)' = Underway(r)
    BY HostAssumption, Apart DEF Recv, Underway, IInv, TypeOK, Procs
  <1>3. \A r \in Subs : Told(r)' = Told(r)
    BY <1>1 DEF Recv, Told, Live, IInv, TypeOK, Procs
  <1> QED
    BY <1>1, <1>2, <1>3, Unnoticed DEF Recv, Owed

\* A queue is closed when its subscriber listens no more.
LEMMA CloseRxUnnoticed ==
    ASSUME IInv, NEW s \in Subs, CloseRx(s)
    PROVE  UNCHANGED WatchOf!vars
  <1>1. \A r \in Subs : Live(r)' = Live(r) /\ (r # s => pc'[r] = pc[r] /\ chan'[r] = chan[r])
    BY DEF CloseRx, Live, IInv, TypeOK, Procs
  <1>2. \A r \in Subs : Underway(r)' = Underway(r)
    BY HostAssumption, Apart DEF CloseRx, Underway, IInv, TypeOK, Procs
  <1>3. \A r \in Subs : Told(r)' = Told(r)
    BY <1>1 DEF CloseRx, Told, Live, IInv, TypeOK, Procs
  <1> QED
    BY <1>1, <1>2, <1>3, Unnoticed DEF CloseRx, Owed

\* From the write of the value on, every subscriber is owed a status.
LEMMA WriteDataWrites ==
    ASSUME IInv, NEW t \in Threads, WriteData(t)
    PROVE  WatchOf!Write(Subs)
  <1>1. \A s \in Subs : pc'[s] = pc[s]
    BY Apart DEF WriteData, IInv, TypeOK, Procs
  <1>2. \A s \in Subs : Live(s)' = Live(s) /\ Told(s)' = Told(s)
    BY <1>1 DEF WriteData, Live, Told
  <1>3. \A s \in Subs : Owed(s)' = (Owed(s) \/ s \in Subs \cap Listening)
    BY <1>2 DEF WriteData, Owed, Underway, Listening, IInv, TypeOK, Procs
  <1>4. Listening' = Listening
    BY <1>2 DEF Listening
  <1> QED
    BY <1>2, <1>3, <1>4 DEF WriteData, WatchOf!Write

\* A turn of a loop that reaches a live subscriber tells it, and does no more
\* if it takes nothing from the others.
LEMMA NotifyTells ==
    ASSUME IInv, NEW p \in Procs, NEW s \in Subs, NEW m \in Statuses, Notify(p, s, m),
           UNCHANGED <<value, pc, seen>>,
           \A r \in Subs \ {s} : Underway(r)' = Underway(r),
           Underway(s)' => Underway(s)
    PROVE  IF Live(s) THEN WatchOf!Tell(s) ELSE UNCHANGED WatchOf!vars
  <1>1. /\ Live(s) => chan'[s].msgs # <<>>
        /\ \A r \in Subs \ {s} : chan'[r] = chan[r]
    BY NotifyFacts DEF Notify, IInv, TypeOK, LiveSubscribersAttached
  <1>2. \A r \in Subs : Live(r)' = Live(r)
    BY DEF Live
  <1>3. \A r \in Subs \ {s} : Owed(r)' = Owed(r) /\ Told(r)' = Told(r)
    BY <1>1, <1>2 DEF Owed, Told
  <1>4. CASE Live(s)
    <2>1. Told(s)' = TRUE
      BY <1>1, <1>2, <1>4 DEF Told
    <2>2. Owed(s)' = Owed(s) \/ Owed(s)' = FALSE
      BY <1>2 DEF Owed
    <2>3. /\ [r \in Subs |-> Told(r)]' = [[r \in Subs |-> Told(r)] EXCEPT ![s] = TRUE]
          /\ [r \in Subs |-> Owed(r)]' \in
                {[r \in Subs |-> Owed(r)], [[r \in Subs |-> Owed(r)] EXCEPT ![s] = FALSE]}
      BY <1>3, <2>1, <2>2
    <2>4. s \in Listening /\ Listening' = Listening
      BY <1>2, <1>4 DEF Listening
    <2> QED
      BY <1>4, <2>3, <2>4 DEF WatchOf!Tell
  <1>5. CASE ~ Live(s)
    <2>1. Owed(s)' = Owed(s) /\ Told(s)' = Told(s)
      BY <1>2, <1>5 DEF Owed, Told
    <2> QED
      BY <1>2, <1>3, <1>5, <2>1, Unnoticed
  <1> QED
    BY <1>4, <1>5

\* A flush owes a status to those it has not reached.
LEMMA FlushSendTells ==
    ASSUME IInv, NEW s \in Subs, FlushSend(s)
    PROVE  IF Live(s) THEN WatchOf!Tell(s) ELSE UNCHANGED WatchOf!vars
  <1>1. /\ \A r \in Subs \ {s} : Underway(r)' = Underway(r)
        /\ Underway(s)' => Underway(s)
    BY DEF FlushSend, Notify, Underway
  <1> QED
    BY <1>1, NotifyTells, HostAssumption DEF FlushSend, Procs, Statuses

\* "Destroyed" is one more reason to look, and takes no status from anybody.
LEMMA DropSendTells ==
    ASSUME IInv, NEW p \in Procs, NEW s \in Subs, DropSend(p, s)
    PROVE  IF Live(s) THEN WatchOf!Tell(s) ELSE UNCHANGED WatchOf!vars
  <1>1. pc[Host] # "flushing"
    BY HostAssumption DEF IInv, LockOwner, DropSend, Notify, Procs
  <1>2. \A r \in Subs : Underway(r)' = Underway(r)
    BY <1>1 DEF DropSend, Underway
  <1> QED
    BY <1>2, NotifyTells DEF DropSend, Statuses

\* A subscriber that is dropped leaves before its status queue is closed.
LEMMA DropLockLeaves ==
    ASSUME IInv, NEW s \in Subs, DropLock(s)
    PROVE  WatchOf!Leave(s)
  <1>1. Live(s) /\ ~ Live(s)'
    BY Apart DEF DropLock, Live, IInv, TypeOK, Procs
  <1>2. \A r \in Subs \ {s} : pc'[r] = pc[r]
    BY DEF DropLock, IInv, TypeOK, Procs
  <1>3. \A r \in Subs : Underway(r)' = Underway(r)
    BY HostAssumption, NamesAssumption, Apart
       DEF DropLock, Acquire, Underway, IInv, TypeOK, Procs, LockOwner
  <1>4. \A r \in Subs \ {s} : Live(r)' = Live(r) /\ Owed(r)' = Owed(r) /\ Told(r)' = Told(r)
    BY <1>2, <1>3 DEF DropLock, Live, Owed, Told
  <1>5. Owed(s)' = FALSE /\ Told(s)' = FALSE
    BY <1>1 DEF Owed, Told
  <1>6. s \in Listening /\ Listening' = Listening \ {s}
    BY <1>1, <1>4 DEF Listening
  <1> QED
    BY <1>4, <1>5, <1>6 DEF DropLock, WatchOf!Leave

\* A new subscriber reads first.
LEMMA SubscribeJoins ==
    ASSUME IInv, NEW t \in Threads, NEW s \in Subs, Subscribe(t, s)
    PROVE  WatchOf!Join(s)
  <1>1. ~ Live(s) /\ Live(s)' /\ pc'[s] = "reading"
    BY DEF Subscribe, Live, IInv, TypeOK, Procs
  <1>2. \A r \in Subs \ {s} : pc'[r] = pc[r] /\ chan'[r] = chan[r]
    BY DEF Subscribe, IInv, TypeOK, Procs
  <1>3. \A r \in Subs : Underway(r)' = Underway(r)
    BY HostAssumption, Apart DEF Subscribe, Underway, IInv, TypeOK, Procs
  <1>4. \A r \in Subs \ {s} : Live(r)' = Live(r) /\ Owed(r)' = Owed(r) /\ Told(r)' = Told(r)
    BY <1>2, <1>3 DEF Live, Owed, Told
  <1>5. /\ Owed(s) = FALSE /\ Told(s)' = TRUE
        /\ Owed(s)' = TRUE \/ Owed(s)' = FALSE
    BY <1>1 DEF Owed, Told
  <1>6. s \notin Listening /\ Listening' = Listening \cup {s}
    BY <1>1, <1>4 DEF Listening
  <1>7. /\ [r \in Subs |-> Told(r)]' = [[r \in Subs |-> Told(r)] EXCEPT ![s] = TRUE]
        /\ [r \in Subs |-> Owed(r)]' \in
              {[r \in Subs |-> Owed(r)], [[r \in Subs |-> Owed(r)] EXCEPT ![s] = TRUE]}
    BY <1>4, <1>5
  <1> QED
    BY <1>6, <1>7 DEF Subscribe, WatchOf!Join

\* A subscriber that reads sees the latest value.
LEMMA ReadLooks ==
    ASSUME IInv, NEW s \in Subs, Read(s)
    PROVE  WatchOf!Look(s)
  <1>1. Live(s) /\ Told(s) /\ \A r \in Subs : Live(r)' = Live(r)
    BY DEF Read, Live, Told, IInv, TypeOK, Procs
  <1>2. \A r \in Subs \ {s} : pc'[r] = pc[r]
    BY DEF Read, IInv, TypeOK, Procs
  <1>3. \A r \in Subs : Underway(r)' = Underway(r)
    BY HostAssumption, Apart DEF Read, Underway, IInv, TypeOK, Procs
  <1>4. \A r \in Subs : Owed(r)' = Owed(r) /\ (r # s => Told(r)' = Told(r))
    BY <1>1, <1>2, <1>3 DEF Read, Owed, Told
  <1>5. Told(s)' = Told(s) \/ Told(s)' = FALSE
    BY <1>1 DEF Told
  <1>6. s \in Listening /\ Listening' = Listening
    BY <1>1 DEF Listening
  <1>7. /\ [r \in Subs |-> Owed(r)]' = [r \in Subs |-> Owed(r)]
        /\ [r \in Subs |-> Told(r)]' \in
              {[r \in Subs |-> Told(r)], [[r \in Subs |-> Told(r)] EXCEPT ![s] = FALSE]}
    BY <1>4, <1>5
  <1> QED
    BY <1>1, <1>6, <1>7 DEF Read, WatchOf!Look

\* A new signal has no subscribers.
LEMMA InitWatches == Init => WatchOf!Init
  <1> SUFFICES ASSUME Init PROVE WatchOf!Init
    OBVIOUS
  <1>1. \A s \in Subs : ~ Live(s)
    BY NamesAssumption DEF Init, Live, Procs
  <1>2. \A s \in Subs : Owed(s) = FALSE /\ Told(s) = FALSE
    BY <1>1 DEF Owed, Told
  <1>3. Listening = {}
    BY <1>1 DEF Listening
  <1> QED
    BY <1>2, <1>3 DEF Init, WatchOf!Init

\* Every step of the signal is a step of Watch, or none.
LEMMA StepWatches == IInv /\ [Next]_vars => [WatchOf!Next]_(WatchOf!vars)
  <1> SUFFICES ASSUME IInv, [Next]_vars
               PROVE WatchOf!Next \/ UNCHANGED WatchOf!vars
    OBVIOUS
  <1>1. CASE \E t, u \in Threads : CloneHandle(t, u)
    BY <1>1, CloneHandleUnnoticed
  <1>2. CASE \E t \in Threads : WriteData(t)
    BY <1>2, WriteDataWrites DEF WatchOf!Next
  <1>3. CASE \E t \in Threads : StoreDirty(t)
    BY <1>3, StoreDirtyUnnoticed
  <1>4. CASE FlushSwap \/ FlushLock \/ FlushRetain
    BY <1>4, FlushSwapUnnoticed, FlushLockUnnoticed, FlushRetainUnnoticed
  <1>5. CASE \E s \in Subs : FlushSend(s)
    BY <1>5, FlushSendTells DEF WatchOf!Next
  <1>6. CASE \E p \in Threads : DropLock(p)
    BY <1>6, DropLockUnnoticed
  <1>7. CASE \E s \in Subs : DropLock(s)
    BY <1>7, DropLockLeaves DEF WatchOf!Next
  <1>8. CASE \E p \in Procs : DropUnlock(p)
    BY <1>8, DropUnlockUnnoticed
  <1>9. CASE \E p \in Procs, s \in Subs : DropSend(p, s)
    BY <1>9, DropSendTells DEF WatchOf!Next
  <1>10. CASE \E t \in Threads, s \in Subs : Subscribe(t, s)
    BY <1>10, SubscribeJoins DEF WatchOf!Next
  <1>11. CASE \E s \in Subs : Read(s)
    BY <1>11, ReadLooks DEF WatchOf!Next
  <1>12. CASE \E s \in Subs : Recv(s) \/ CloseRx(s)
    BY <1>12, RecvUnnoticed, CloseRxUnnoticed
  <1>13. CASE UNCHANGED vars
    BY <1>13, Unnoticed DEF vars, Live, Owed, Told, Underway
  <1> QED
    BY <1>1, <1>2, <1>3, <1>4, <1>5, <1>6, <1>7, <1>8, <1>9, <1>10, <1>11, <1>12, <1>13
       DEF Next, FlushStep, Procs

\* A signal implements Watch: whoever watches it is owed every write until a
\* flush, or a drop, tells it to look, however writes, flushes, drops and
\* subscriptions interleave (base.rs, Signal and SignalSubscriber).
THEOREM SignalImplementsWatch == Spec => ImplementsWatch
  BY SpecIInv, InitWatches, StepWatches, PTL DEF Spec, ImplementsWatch, WatchOf!Spec
=============================================================================
