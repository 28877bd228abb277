----------------------------- MODULE HostProofs -----------------------------
(***************************************************************************)
(* Nobody reads a model that is half-way through an update, and what an    *)
(* update wrote is announced before the next message, for any signals,     *)
(* interceptors, readers and commands.                                     *)
(***************************************************************************)
EXTENDS Host, SequenceTheorems, TLAPS

\* As much of TypeOK as the proofs need.
SignalsTyped ==
    /\ toWrite \subseteq Signals
    /\ signals \in Seq(Signals)
    /\ version \in [Signals -> Nat]
    /\ hostVersion \in [Signals -> Nat]
    /\ flushed \in [Signals -> Nat]
    /\ dirty \in [Signals -> BOOLEAN]

\* An update that did not finish is running or has panicked, and nobody holds
\* a guard of the model while one runs or after one has poisoned the lock.
UpdateAlone ==
    /\ toWrite # {} => pc = "update" \/ (pc = "dead" /\ poisoned = Poisoning)
    /\ poisoned => pc = "dead"
    /\ pc = "update" \/ poisoned => readers = {}

\* A signal that update wrote since its last flush is dirty.
UnflushedDirty ==
    \A s \in Signals :
        /\ hostVersion[s] <= version[s]
        /\ dirty[s] \/ hostVersion[s] <= flushed[s]

Announced(s) == hostVersion[s] <= flushed[s]

\* What is yet to be announced is in the queue of signals to flush.
Pending ==
    /\ pc \in {"recv", "intercept"} => \A s \in Range(Getters) : Announced(s)
    /\ pc \in {"spawn", "flush"} =>
        \A s \in Range(Getters) : Announced(s) \/ s \in Range(signals)

IInv ==
    /\ SignalsTyped
    /\ UpdateAlone
    /\ UnflushedDirty
    /\ Pending

-----------------------------------------------------------------------------

LEMMA GettersAreSignals == Range(Getters) \subseteq Signals
  BY GettersAssumption DEF Range

LEMMA InitIInv == Init => IInv
  <1> SUFFICES ASSUME Init PROVE IInv
    OBVIOUS
  <1>1. SignalsTyped
    BY DEF Init, SignalsTyped
  <1>2. UpdateAlone
    BY DEF Init, UpdateAlone
  <1>3. UnflushedDirty
    BY DEF Init, UnflushedDirty
  <1>4. Pending
    BY GettersAreSignals DEF Init, Pending, Announced
  <1> QED
    BY <1>1, <1>2, <1>3, <1>4 DEF IInv

\* Steps that write no signal, flush none, and leave the host where it is.
LEMMA BystanderStep ==
  ASSUME IInv,
         UNCHANGED <<pc, toWrite, signals, poisoned, version, hostVersion, flushed, dirty>>,
         pc = "update" \/ poisoned => readers' \subseteq readers
  PROVE  IInv'
  <1>1. SignalsTyped' /\ UnflushedDirty' /\ Pending'
    BY DEF IInv, SignalsTyped, UnflushedDirty, Pending, Announced
  <1>2. UpdateAlone'
    BY DEF IInv, UpdateAlone
  <1> QED
    BY <1>1, <1>2 DEF IInv

\* The host goes on within the handling of a message.
LEMMA HostMoves ==
  ASSUME IInv,
         Recv \/ BeginUpdate \/ EndUpdate \/ SpawnCommand \/ FlushDone
  PROVE  IInv'
  <1>1. UNCHANGED <<signals, poisoned, readers, version, hostVersion, flushed, dirty>>
    BY DEF Recv, BeginUpdate, EndUpdate, SpawnCommand, FlushDone, model, signalVars, handling
  <1>2. SignalsTyped'
    BY <1>1 DEF IInv, SignalsTyped, Recv, BeginUpdate, EndUpdate, SpawnCommand, FlushDone, handling
  <1>3. UpdateAlone'
    BY <1>1 DEF IInv, UpdateAlone, Recv, BeginUpdate, EndUpdate, SpawnCommand, FlushDone, handling
  <1>4. UnflushedDirty'
    BY <1>1 DEF IInv, UnflushedDirty
  <1>5. Pending'
    <2>1. CASE Recv \/ BeginUpdate \/ EndUpdate
      BY <1>1, <2>1 DEF IInv, Pending, Announced, Recv, BeginUpdate, EndUpdate
    <2>2. CASE FlushDone
      BY <1>1, <2>2 DEF IInv, Pending, Announced, FlushDone, Range
    <2>3. CASE SpawnCommand
      BY <1>1, <2>3 DEF IInv, Pending, Announced, SpawnCommand
    <2> QED
      BY <2>1, <2>2, <2>3
  <1> QED
    BY <1>2, <1>3, <1>4, <1>5 DEF IInv

\* A signal is written, by update or by somebody else.
LEMMA WriteStep ==
  ASSUME IInv, NEW s \in Signals, WriteSignal(s) \/ WriteOutside(s)
  PROVE  IInv'
  <1>1. /\ UNCHANGED <<pc, signals, poisoned, readers, flushed>>
        /\ version' = [version EXCEPT ![s] = @ + 1]
        /\ dirty' = [dirty EXCEPT ![s] = TRUE]
        /\ toWrite' \subseteq toWrite
        /\ \/ hostVersion' = hostVersion
           \/ pc = "update" /\ hostVersion' = [hostVersion EXCEPT ![s] = version[s] + 1]
    BY DEF WriteSignal, WriteOutside, model, handling
  <1>2. SignalsTyped'
    <2>1. version[s] + 1 \in Nat
      BY DEF IInv, SignalsTyped
    <2>2. version' \in [Signals -> Nat]
      BY <1>1, <2>1 DEF IInv, SignalsTyped
    <2>3. hostVersion' \in [Signals -> Nat]
      <3>1. CASE hostVersion' = hostVersion
        BY <3>1 DEF IInv, SignalsTyped
      <3>2. CASE hostVersion' = [hostVersion EXCEPT ![s] = version[s] + 1]
        BY <3>2, <2>1 DEF IInv, SignalsTyped
      <3> QED
        BY <1>1, <3>1, <3>2
    <2>4. dirty' \in [Signals -> BOOLEAN]
      BY <1>1 DEF IInv, SignalsTyped
    <2> QED
      BY <1>1, <2>2, <2>3, <2>4 DEF IInv, SignalsTyped
  <1>3. UpdateAlone'
    BY <1>1 DEF IInv, UpdateAlone
  <1>4. UnflushedDirty'
    <2> SUFFICES ASSUME NEW t \in Signals
                 PROVE  /\ hostVersion'[t] <= version'[t]
                        /\ dirty'[t] \/ hostVersion'[t] <= flushed'[t]
      BY DEF UnflushedDirty
    <2>1. CASE t = s
      BY <1>1, <2>1 DEF IInv, SignalsTyped, UnflushedDirty
    <2>2. CASE t # s
      BY <1>1, <2>2 DEF IInv, SignalsTyped, UnflushedDirty
    <2> QED
      BY <2>1, <2>2
  <1>5. Pending'
    BY <1>1 DEF IInv, Pending, Announced
  <1> QED
    BY <1>2, <1>3, <1>4, <1>5 DEF IInv

LEMMA AccumulateStep ==
  ASSUME IInv, Accumulate
  PROVE  IInv'
  <1> USE DEF Accumulate, model, signalVars
  <1>1. signals' \in Seq(Signals) /\ Range(Getters) \subseteq Range(signals')
    <2>1. signals \in Seq(Signals) /\ Getters \in Seq(Signals)
      BY GettersAssumption DEF IInv, SignalsTyped
    <2>2. ASSUME NEW i \in DOMAIN Getters
          PROVE  /\ Len(signals) + i \in DOMAIN signals'
                 /\ signals'[Len(signals) + i] = Getters[i]
      BY <2>1, <2>2
    <2>3. Range(Getters) \subseteq Range(signals')
      BY <2>2 DEF Range
    <2> QED
      BY <2>1, <2>3
  <1>2. SignalsTyped'
    BY <1>1 DEF IInv, SignalsTyped
  <1>3. UpdateAlone'
    BY DEF IInv, UpdateAlone
  <1>4. UnflushedDirty'
    BY DEF IInv, UnflushedDirty
  <1>5. Pending'
    BY <1>1 DEF Pending, Announced
  <1> QED
    BY <1>2, <1>3, <1>4, <1>5 DEF IInv

\* The signal in front is announced, whether it was dirty or not.
LEMMA FlushSignalStep ==
  ASSUME IInv, FlushSignal
  PROVE  IInv'
  <1> DEFINE front == Head(signals)
  <1>1. front \in Signals /\ Tail(signals) \in Seq(Signals)
    BY DEF IInv, SignalsTyped, FlushSignal
  <1>2. /\ pc = "flush" /\ signals # <<>>
        /\ signals' = Tail(signals)
        /\ UNCHANGED <<pc, toWrite, poisoned, readers, version, hostVersion>>
    BY DEF FlushSignal, model
  <1>3. \/ /\ dirty[front]
           /\ dirty' = [dirty EXCEPT ![front] = FALSE]
           /\ flushed' = [flushed EXCEPT ![front] = version[front]]
        \/ ~dirty[front] /\ UNCHANGED <<dirty, flushed>>
    BY DEF FlushSignal
  <1> HIDE DEF front
  <1>4. SignalsTyped'
    BY <1>1, <1>2, <1>3 DEF IInv, SignalsTyped
  <1>5. UpdateAlone'
    BY <1>2 DEF IInv, UpdateAlone
  <1>6. UnflushedDirty' /\ \A s \in Signals : s = front \/ Announced(s) => Announced(s)'
    <2> SUFFICES ASSUME NEW s \in Signals
                 PROVE  /\ hostVersion'[s] <= version'[s]
                        /\ dirty'[s] \/ hostVersion'[s] <= flushed'[s]
                        /\ s = front \/ Announced(s) => Announced(s)'
      BY DEF UnflushedDirty
    <2>1. CASE s = front
      BY <1>2, <1>3, <2>1 DEF IInv, SignalsTyped, UnflushedDirty, Announced
    <2>2. CASE s # front
      BY <1>2, <1>3, <2>2 DEF IInv, SignalsTyped, UnflushedDirty, Announced
    <2> QED
      BY <2>1, <2>2
  <1>7. Pending'
    <2>1. ASSUME NEW s \in Range(signals) PROVE s = front \/ s \in Range(Tail(signals))
      <3>1. PICK i \in DOMAIN signals : signals[i] = s
        BY DEF Range
      <3>2. signals \in Seq(Signals) /\ signals # <<>>
        BY <1>2 DEF IInv, SignalsTyped
      <3>3. CASE i = 1
        BY <3>1, <3>2, <3>3 DEF front
      <3>4. CASE i # 1
        <4>1. i - 1 \in DOMAIN Tail(signals) /\ Tail(signals)[i - 1] = s
          BY <3>1, <3>2, <3>4
        <4> QED
          BY <4>1 DEF Range
      <3> QED
        BY <3>3, <3>4
    <2> QED
      BY <1>2, <1>6, <2>1, GettersAreSignals DEF IInv, Pending
  <1> QED
    BY <1>4, <1>5, <1>6, <1>7 DEF IInv

\* The host's task ends, in update or outside.
LEMMA DeathStep ==
  ASSUME IInv, UpdatePanics \/ HostEnds \/ SpawnPanics
  PROVE  IInv'
  <1>1. /\ pc' = "dead"
        /\ UNCHANGED <<toWrite, signals, readers, version, hostVersion, flushed, dirty>>
    BY DEF UpdatePanics, HostEnds, SpawnPanics, model, handling, signalVars
  <1>2. SignalsTyped' /\ UnflushedDirty' /\ Pending'
    BY <1>1 DEF IInv, SignalsTyped, UnflushedDirty, Pending
  <1>3. UpdateAlone'
    BY <1>1, PoisoningAssumption DEF IInv, UpdateAlone, UpdatePanics, HostEnds, SpawnPanics, model
  <1> QED
    BY <1>2, <1>3 DEF IInv

\* Everybody else, who takes a read guard only of a lock that is free and sound.
LEMMA OthersStep ==
  ASSUME IInv,
         \/ Intercept \/ SendMessage
         \/ \E m \in Messages : TaskStep(m) \/ TaskRead(m)
         \/ \E r \in Readers : ReadModel(r) \/ ReleaseModel(r)
         \/ \E s \in Signals : DropHandle(s) \/ Observe(s)
  PROVE  IInv'
  <1>1. /\ UNCHANGED <<pc, toWrite, signals, poisoned, version, hostVersion, flushed, dirty>>
        /\ pc = "update" \/ poisoned => readers' \subseteq readers
    BY DEF Intercept, SendMessage, TaskStep, TaskRelease, TaskSend, TaskEnd, TaskRead, ReadModel,
           ReleaseModel, DropHandle, Observe, WriteLocked, handling, model, signalVars
  <1> QED
    BY <1>1, BystanderStep

LEMMA NextIInv == IInv /\ [Next]_vars => IInv'
  <1> SUFFICES ASSUME IInv, [Next]_vars PROVE IInv'
    OBVIOUS
  <1>1. CASE Recv \/ BeginUpdate \/ EndUpdate \/ SpawnCommand \/ FlushDone
    BY <1>1, HostMoves
  <1>2. CASE \E s \in Signals : WriteSignal(s) \/ WriteOutside(s)
    BY <1>2, WriteStep
  <1>3. CASE Accumulate
    BY <1>3, AccumulateStep
  <1>4. CASE FlushSignal
    BY <1>4, FlushSignalStep
  <1>5. CASE UpdatePanics \/ HostEnds \/ SpawnPanics
    BY <1>5, DeathStep
  <1>6. CASE \/ Intercept \/ SendMessage
             \/ \E m \in Messages : TaskStep(m) \/ TaskRead(m)
             \/ \E r \in Readers : ReadModel(r) \/ ReleaseModel(r)
             \/ \E s \in Signals : DropHandle(s) \/ Observe(s)
    BY <1>6, OthersStep
  <1>7. CASE UNCHANGED vars
    BY <1>7, BystanderStep DEF vars, handling, model, signalVars
  <1> QED
    BY <1>1, <1>2, <1>3, <1>4, <1>5, <1>6, <1>7 DEF Next, HandleMessage

LEMMA SpecIInv == Spec => []IInv
  BY InitIInv, NextIInv, PTL DEF Spec

\* With locks that poison, no reader of the model ever sees an update half-way,
\* be it running or abandoned by a panic (host.rs, handle_message).
THEOREM HostNoTornRead ==
  ASSUME Poisoning
  PROVE  Spec => []NoTornRead
  <1>1. IInv => NoTornRead
    BY DEF IInv, UpdateAlone, NoTornRead
  <1> QED
    BY <1>1, SpecIInv, PTL

\* What update wrote to a signal with a getter is announced before the next
\* message is taken, though that signal is written by others meanwhile
\* (host.rs, handle_message).
THEOREM HostAnnouncedBeforeNext == Spec => []AnnouncedBeforeNext
  <1>1. IInv => AnnouncedBeforeNext
    BY DEF IInv, Pending, Announced, AnnouncedBeforeNext
  <1> QED
    BY <1>1, SpecIInv, PTL

-----------------------------------------------------------------------------
(* Refinement *)

\* The host is alive unless it is dead, and has taken no more than was accepted.
HostAlive ==
    /\ alive \in BOOLEAN /\ (alive <=> pc # "dead")
    /\ accepted \in Seq(Nat)
    /\ taken \in 0..Len(accepted)
    /\ pc \in HostStates
    /\ poisoned \in BOOLEAN

LEMMA NextHostAlive == HostAlive /\ [Next]_vars => HostAlive'
  <1> SUFFICES ASSUME HostAlive, [Next]_vars PROVE HostAlive'
    OBVIOUS
  <1> USE DEF HostAlive, HostStates
  <1>1. ASSUME UNCHANGED <<mailbox, poisoned>>, pc' \in HostStates, pc' = "dead" <=> pc = "dead"
        PROVE  HostAlive'
    BY <1>1 DEF mailbox
  <1>2. ASSUME Mailbox!Accept(Len(accepted) + 1), UNCHANGED <<pc, poisoned>>
        PROVE  HostAlive'
    <2>1. accepted' = Append(accepted, Len(accepted) + 1) /\ UNCHANGED <<taken, alive>>
      BY <1>2 DEF Mailbox!Accept
    <2>2. accepted' \in Seq(Nat) /\ Len(accepted') = Len(accepted) + 1
      BY <2>1
    <2> QED
      BY <1>2, <2>1, <2>2
  <1>3. CASE Recv
    <2>1. /\ UNCHANGED <<accepted, alive, poisoned>> /\ taken' = taken + 1
          /\ taken < Len(accepted)
          /\ pc = "recv" /\ pc' = "intercept"
      BY <1>3 DEF Recv, Mailbox!Take, model
    <2>2. taken' \in 0..Len(accepted)
      BY <2>1
    <2> QED
      BY <2>1, <2>2
  <1>4. ASSUME Mailbox!Die, pc' = "dead", poisoned' \in BOOLEAN
        PROVE  HostAlive'
    <2>1. accepted' = SubSeq(accepted, 1, taken) /\ taken' = taken /\ alive' = FALSE
      BY <1>4 DEF Mailbox!Die
    <2>2. accepted' \in Seq(Nat) /\ Len(accepted') = taken
      BY <2>1
    <2>3. taken' \in 0..Len(accepted')
      BY <2>1, <2>2
    <2> QED
      BY <1>4, <2>1, <2>2, <2>3
  <1>5. CASE UpdatePanics \/ HostEnds \/ SpawnPanics
    BY <1>4, <1>5, PoisoningAssumption DEF UpdatePanics, HostEnds, SpawnPanics, model
  <1>6. CASE \/ Intercept \/ BeginUpdate \/ EndUpdate \/ Accumulate \/ SpawnCommand
             \/ FlushSignal \/ FlushDone
             \/ \E s \in Signals : WriteSignal(s) \/ WriteOutside(s) \/ DropHandle(s) \/ Observe(s)
             \/ \E r \in Readers : ReadModel(r) \/ ReleaseModel(r)
             \/ \E m \in Messages : TaskRead(m) \/ TaskRelease(m) \/ TaskEnd(m)
    BY <1>1, <1>6 DEF Intercept, BeginUpdate, EndUpdate, Accumulate, SpawnCommand, FlushSignal,
        FlushDone, WriteSignal, WriteOutside, DropHandle, Observe, ReadModel, ReleaseModel,
        TaskRead, TaskRelease, TaskEnd, model, handling
  <1>7. CASE SendMessage \/ \E m \in Messages : TaskSend(m)
    BY <1>1, <1>2, <1>7 DEF SendMessage, TaskSend, model
  <1>8. CASE UNCHANGED vars
    BY <1>8 DEF vars, model, mailbox
  <1> QED
    BY <1>3, <1>5, <1>6, <1>7, <1>8 DEF Next, HandleMessage, TaskStep

\* The loop is built with nothing accepted, taken, read or owed.
LEMMA InitRefines == Init => MvuOf!Init
  <1> SUFFICES ASSUME Init PROVE MvuOf!Init
    OBVIOUS
  <1>1. Owed = {}
    BY GettersAreSignals DEF Init, Owed
  <1>2. Len(accepted) = 0 /\ taken = 0 /\ alive = TRUE
    BY DEF Init, Mailbox!Init
  <1> QED
    BY <1>1, <1>2 DEF Init, MvuOf!Init

\* Whoever waits for a message or has not given it to update owes nothing.
LEMMA NothingOwed ==
    ASSUME IInv, pc \in {"recv", "intercept", "update", "dead"}
    PROVE  Owed = {}
  <1>1. CASE pc \in {"update", "dead"}
    BY <1>1 DEF Owed
  <1>2. CASE pc \in {"recv", "intercept"}
    <2>1. \A s \in Range(Getters) : ~(hostVersion[s] > flushed[s])
      BY <1>2, GettersAreSignals DEF IInv, SignalsTyped, Pending, Announced
    <2> QED
      BY <2>1 DEF Owed
  <1> QED
    BY <1>1, <1>2

\* Steps that leave the mailbox, the model and the versions alone and the host
\* where it owes the same.
LEMMA QuietRefines ==
    ASSUME UNCHANGED <<mailbox, readers, poisoned>>,
           pc' \in {"intercept", "update"} <=> pc \in {"intercept", "update"},
           pc' \in {"accumulate", "spawn"} <=> pc \in {"accumulate", "spawn"},
           Owed' = Owed
    PROVE  UNCHANGED MvuOf!mvuVars
  BY DEF MvuOf!mvuVars, mailbox

\* The host's own steps: a message is taken, update returns, its command is
\* started, one signal is announced; the others change nothing that was promised.
LEMMA HostRefines ==
    ASSUME IInv, HostAlive, IInv', HandleMessage
    PROVE  MvuOf!Next \/ UNCHANGED MvuOf!mvuVars
  <1>1. CASE Recv
    <2>1. /\ UNCHANGED <<accepted, alive, readers, poisoned>> /\ taken' = taken + 1
          /\ alive /\ taken < Len(accepted)
          /\ pc = "recv" /\ pc' = "intercept"
      BY <1>1 DEF Recv, Mailbox!Take, model
    <2>2. Owed = {} /\ Owed' = {}
      <3>1. Owed = {}
        BY <2>1, NothingOwed
      <3>2. UNCHANGED <<hostVersion, flushed>>
        BY <1>1 DEF Recv, signalVars
      <3> QED
        BY <2>1, <3>1, <3>2 DEF Owed
    <2>3. MvuOf!Take
      BY <2>1, <2>2 DEF MvuOf!Take
    <2> QED
      BY <2>3 DEF MvuOf!Next
  <1>2. CASE EndUpdate
    <2>1. /\ UNCHANGED <<mailbox, readers, poisoned>>
          /\ pc = "update" /\ pc' = "accumulate"
      BY <1>2 DEF EndUpdate, model
    <2>2. readers = {} /\ alive
      BY <2>1 DEF IInv, UpdateAlone, HostAlive
    <2>3. Owed' \in SUBSET Range(Getters)
      BY <2>1 DEF Owed
    <2>4. MvuOf!Apply(Owed')
      BY <2>1, <2>2 DEF MvuOf!Apply, mailbox
    <2> QED
      BY <2>3, <2>4 DEF MvuOf!Next
  <1>3. CASE FlushSignal
    <2> DEFINE front == Head(signals)
    <2>1. /\ UNCHANGED <<mailbox, pc, readers, poisoned, hostVersion>>
          /\ pc = "flush" /\ alive
      BY <1>3 DEF FlushSignal, model, HostAlive
    <2>2. front \in Signals
      BY <1>3 DEF FlushSignal, IInv, SignalsTyped
    <2>3. \/ flushed' = [flushed EXCEPT ![front] = version[front]]
          \/ flushed' = flushed
      BY <1>3 DEF FlushSignal
    <2> HIDE DEF front
    <2>4. Owed' = Owed \/ Owed' = Owed \ {front}
      <3>1. CASE flushed' = flushed
        BY <2>1, <3>1 DEF Owed
      <3>2. CASE flushed' = [flushed EXCEPT ![front] = version[front]]
        <4>1. \A s \in Range(Getters) :
                s # front => (hostVersion'[s] > flushed'[s]) = (hostVersion[s] > flushed[s])
          BY <2>1, <3>2, GettersAreSignals DEF IInv, SignalsTyped
        <4>2. ~(hostVersion'[front] > flushed'[front])
          BY <2>1, <2>2, <3>2 DEF IInv, SignalsTyped, UnflushedDirty
        <4> QED
          BY <2>1, <4>1, <4>2 DEF Owed
      <3> QED
        BY <2>3, <3>1, <3>2
    <2>5. CASE Owed' = Owed
      BY <2>1, <2>5, QuietRefines
    <2>6. CASE Owed' = Owed \ {front} /\ front \in Owed
      <3>1. MvuOf!Announce(front)
        BY <2>1, <2>6 DEF MvuOf!Announce, mailbox
      <3>2. front \in Range(Getters)
        BY <2>6 DEF Owed
      <3> QED
        BY <3>1, <3>2 DEF MvuOf!Next
    <2> QED
      BY <2>4, <2>5, <2>6
  <1>4. CASE \/ Intercept \/ BeginUpdate \/ Accumulate \/ FlushDone
             \/ \E s \in Signals : WriteSignal(s)
    <2>1. /\ UNCHANGED <<mailbox, readers, poisoned, flushed>>
          /\ pc' \in {"intercept", "update"} <=> pc \in {"intercept", "update"}
          /\ pc' \in {"accumulate", "spawn"} <=> pc \in {"accumulate", "spawn"}
      BY <1>4 DEF Intercept, BeginUpdate, Accumulate, FlushDone, WriteSignal, model, signalVars
    <2>2. Owed' = Owed
      <3>1. CASE Intercept \/ Accumulate \/ FlushDone
        BY <3>1 DEF Intercept, Accumulate, FlushDone, Owed, signalVars
      <3>2. CASE BeginUpdate
        <4>1. pc = "intercept" /\ pc' = "update"
          BY <3>2 DEF BeginUpdate
        <4> QED
          BY <4>1, NothingOwed DEF Owed
      <3>3. CASE \E s \in Signals : WriteSignal(s)
        BY <3>3 DEF WriteSignal, Owed
      <3> QED
        BY <1>4, <3>1, <3>2, <3>3
    <2> QED
      BY <2>1, <2>2, QuietRefines
  <1>5. CASE SpawnCommand
    <2>1. /\ UNCHANGED <<mailbox, readers, poisoned, hostVersion, flushed>>
          /\ pc = "spawn" /\ pc' = "flush" /\ alive
      BY <1>5 DEF SpawnCommand, model, signalVars, HostAlive
    <2>2. Owed' = Owed
      BY <2>1 DEF Owed
    <2>3. MvuOf!Start
      BY <2>1, <2>2 DEF MvuOf!Start, mailbox
    <2> QED
      BY <2>3 DEF MvuOf!Next
  <1> QED
    BY <1>1, <1>2, <1>3, <1>4, <1>5 DEF HandleMessage

\* A host that dies owes nothing unless its spawner has just panicked, and only a
\* panic in update, which nobody reads beside, makes the model unreadable.
LEMMA DeathRefines ==
    ASSUME IInv, HostAlive, UpdatePanics \/ HostEnds \/ SpawnPanics
    PROVE  MvuOf!Next
  <1>1. /\ accepted' = SubSeq(accepted, 1, taken) /\ UNCHANGED <<taken, readers>>
        /\ alive /\ alive' = FALSE
        /\ pc \in {"recv", "intercept", "update", "spawn"} /\ pc' = "dead"
    BY DEF UpdatePanics, HostEnds, SpawnPanics, Mailbox!Die, model
  <1>2. Len(accepted') = taken
    BY <1>1 DEF HostAlive
  <1>3. Owed' = {} /\ (Owed = {} \/ pc \in {"accumulate", "spawn"})
    BY <1>1, NothingOwed DEF Owed
  <1>4. \/ poisoned' = poisoned
        \/ pc = "update" /\ readers = {} /\ (~poisoned)' = FALSE
    BY PoisoningAssumption
       DEF UpdatePanics, HostEnds, SpawnPanics, model, IInv, UpdateAlone, HostAlive
  <1>5. /\ (pc \in {"intercept", "update"})' = FALSE
        /\ (pc \in {"accumulate", "spawn"})' = FALSE
    BY <1>1
  <1>6. /\ (Len(accepted))' = taken
        /\ UNCHANGED <<taken, readers>>
    BY <1>1, <1>2
  <1>7. \/ UNCHANGED ~poisoned
        \/ pc \in {"intercept", "update"} /\ readers = {} /\ (~poisoned)' = FALSE
    BY <1>4
  <1>8. MvuOf!Die
    BY <1>1, <1>3, <1>5, <1>6, <1>7 DEF MvuOf!Die
  <1> QED
    BY <1>8 DEF MvuOf!Next

\* Everybody else sends, reads, lets go, or does what the promise says nothing of.
LEMMA OthersRefine ==
    ASSUME IInv, HostAlive,
           \/ SendMessage
           \/ \E m \in Messages : TaskStep(m) \/ TaskRead(m)
           \/ \E r \in Readers : ReadModel(r) \/ ReleaseModel(r)
           \/ \E s \in Signals : WriteOutside(s) \/ DropHandle(s) \/ Observe(s)
    PROVE  MvuOf!Next \/ UNCHANGED MvuOf!mvuVars
  <1>1. UNCHANGED <<pc, hostVersion, flushed, poisoned>>
    BY DEF SendMessage, TaskStep, TaskRelease, TaskSend, TaskEnd, TaskRead, ReadModel,
        ReleaseModel, WriteOutside, DropHandle, Observe, model, signalVars
  <1>2. Owed' = Owed
    BY <1>1 DEF Owed
  <1>3. ASSUME UNCHANGED <<mailbox, readers>>
        PROVE  UNCHANGED MvuOf!mvuVars
    BY <1>1, <1>2, <1>3, QuietRefines
  <1>4. ASSUME Mailbox!Accept(Len(accepted) + 1), UNCHANGED readers
        PROVE  MvuOf!Next
    <2>1. accepted' = Append(accepted, Len(accepted) + 1) /\ alive /\ UNCHANGED <<taken, alive>>
      BY <1>4 DEF Mailbox!Accept
    <2>2. Len(accepted') = Len(accepted) + 1
      BY <2>1 DEF HostAlive
    <2>3. MvuOf!Accept
      BY <1>1, <1>2, <1>4, <2>1, <2>2 DEF MvuOf!Accept
    <2> QED
      BY <2>3 DEF MvuOf!Next
  <1>5. ASSUME NEW r \in Readers \cup Messages, UNCHANGED mailbox,
               \/ ~poisoned /\ readers' = readers \cup {r}
               \/ readers' = readers \ {r}
        PROVE  MvuOf!Next
    <2>1. MvuOf!Read(r) \/ MvuOf!Release(r)
      BY <1>1, <1>2, <1>5 DEF MvuOf!Read, MvuOf!Release, mailbox
    <2> QED
      BY <2>1 DEF MvuOf!Next
  <1>6. CASE SendMessage
    BY <1>4, <1>6 DEF SendMessage, model
  <1>7. ASSUME NEW m \in Messages, TaskStep(m) \/ TaskRead(m)
        PROVE  MvuOf!Next \/ UNCHANGED MvuOf!mvuVars
    <2>1. CASE TaskRead(m)
      BY <1>3, <1>5, <2>1 DEF TaskRead
    <2>2. CASE TaskRelease(m)
      BY <1>5, <2>2 DEF TaskRelease
    <2>3. CASE TaskSend(m)
      BY <1>3, <1>4, <2>3 DEF TaskSend, model
    <2>4. CASE TaskEnd(m)
      BY <1>3, <2>4 DEF TaskEnd, model
    <2> QED
      BY <1>7, <2>1, <2>2, <2>3, <2>4 DEF TaskStep
  <1>8. ASSUME NEW r \in Readers, ReadModel(r) \/ ReleaseModel(r)
        PROVE  MvuOf!Next
    BY <1>5, <1>8 DEF ReadModel, ReleaseModel
  <1>9. CASE \E s \in Signals : WriteOutside(s) \/ DropHandle(s) \/ Observe(s)
    BY <1>3, <1>9 DEF WriteOutside, DropHandle, Observe, model
  <1> QED
    BY <1>6, <1>7, <1>8, <1>9

LEMMA StepRefines ==
    IInv /\ HostAlive /\ IInv' /\ [Next]_vars => [MvuOf!Next]_(MvuOf!mvuVars)
  <1> SUFFICES ASSUME IInv, HostAlive, IInv', [Next]_vars
               PROVE  MvuOf!Next \/ UNCHANGED MvuOf!mvuVars
    OBVIOUS
  <1>1. CASE UNCHANGED vars
    <2>1. Owed' = Owed
      BY <1>1 DEF vars, signalVars, Owed
    <2> QED
      BY <1>1, <2>1, QuietRefines DEF vars, model
  <1> QED
    BY <1>1, HostRefines, DeathRefines, OthersRefine DEF Next

\* The loop, the lock and the queue of signals keep what the architecture
\* promises, for any signals, readers, commands and interceptors: whole changes,
\* one at a time, each announced before the next; and all of it or, where its
\* command cannot be started, which ends the host, nothing of it.
THEOREM HostImplementsMvu == Spec => ImplementsMvu
  <1>1. ASSUME Init PROVE HostAlive
    <2>1. <<>> \in Seq(Nat) /\ Len(<<>>) = 0
      BY EmptySeq
    <2>2. accepted = <<>> /\ taken = 0 /\ alive = TRUE /\ pc = "recv" /\ poisoned = FALSE
      BY <1>1 DEF Init, Mailbox!Init
    <2>3. accepted \in Seq(Nat) /\ taken \in 0..Len(accepted)
      BY <2>1, <2>2
    <2> QED
      BY <2>2, <2>3 DEF HostAlive, HostStates
  <1>2. Spec => []HostAlive
    BY <1>1, NextHostAlive, PTL DEF Spec
  <1> QED
    BY <1>2, SpecIInv, InitRefines, StepRefines, PTL DEF Spec, ImplementsMvu, MvuOf!Spec
=============================================================================
