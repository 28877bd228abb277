--------------------------- MODULE HostTypeProofs ---------------------------
(***************************************************************************)
(* The host's variables keep their types and their bounds, for any         *)
(* signals, readers, interceptors and numbers of messages: what commands   *)
(* send back never adds up to more than was set aside for them, however    *)
(* many of them run, and no signal is written more often than there are    *)
(* messages taken and writes from outside.                                 *)
(***************************************************************************)
EXTENDS Host, FiniteSetTheorems, TLAPS

\* Messages are numbered in the order of their acceptance.
MailboxOK ==
    /\ alive \in BOOLEAN /\ (alive <=> pc # "dead")
    /\ accepted \in Seq(Messages)
    /\ \A i \in 1..Len(accepted) : accepted[i] = i
    /\ taken \in 0..Len(accepted)

\* The host handles the last message that it took.
HandlingOK ==
    /\ pc \in HostStates
    /\ cur \in Messages \cup {0}
    /\ pc \notin {"recv", "dead"} => cur = taken /\ taken > 0
    /\ intercepted \in 0..Interceptors
    /\ toWrite \subseteq Signals /\ wrote \subseteq Signals
    /\ command \in Messages \cup {0, NoCommand}
    /\ signals \in Seq(Signals)
    /\ readers \subseteq Readers \cup Messages
    /\ poisoned \in BOOLEAN

\* The command of this message is yet to be spawned.
Unspawned(m) ==
    \/ m > taken
    \/ m = taken /\ pc \in {"intercept", "update", "accumulate", "spawn"}

TasksOK ==
    /\ task \in [Messages -> TaskStates]
    /\ left \in [Messages -> 0..MaxMessages]
    /\ \A m \in Messages : Unspawned(m) => left[m] = 0
    /\ budget \in 0..MaxMessages
    /\ outside \in 0..MaxWrites

\* This message may still write s.
MayWrite(s) == pc = "intercept" \/ (pc = "update" /\ s \in toWrite)

\* A message writes each signal once, and nobody knows a version that is to come.
SignalsOK ==
    /\ version \in [Signals -> Nat] /\ hostVersion \in [Signals -> Nat]
    /\ flushed \in [Signals -> Nat] /\ seen \in [Signals -> Nat]
    /\ dirty \in [Signals -> BOOLEAN] /\ news \in [Signals -> BOOLEAN]
    /\ \A s \in Signals :
        /\ version[s] + (IF MayWrite(s) THEN 1 ELSE 0) <= taken + outside
        /\ hostVersion[s] <= version[s]
        /\ flushed[s] <= version[s]
        /\ seen[s] <= version[s]

\* What the commands that were spawned have yet to produce, one pair for each item.
Unsent == {p \in Messages \X Messages : p[2] <= left[p[1]]}

\* What the command that update has just returned will produce.
Returned == IF pc \in {"accumulate", "spawn"} /\ command # NoCommand THEN command ELSE 0

\* Every message is accepted, set aside for a command, or yet to be thought up.
WithinBudget == Len(accepted) + Cardinality(Unsent) + Returned + budget <= MaxMessages

IInv == MailboxOK /\ HandlingOK /\ TasksOK /\ SignalsOK /\ WithinBudget

-----------------------------------------------------------------------------
(* Counting what commands have yet to produce *)

\* There are finitely many items to produce.
LEMMA UnsentFinite == IsFiniteSet(Unsent) /\ Cardinality(Unsent) \in Nat
  <1>1. IsFiniteSet(Messages)
    BY BoundsAssumption, FS_Interval DEF Messages
  <1>2. IsFiniteSet(Messages \X Messages)
    BY <1>1, FS_Product
  <1>3. Unsent \subseteq Messages \X Messages
    BY DEF Unsent
  <1> QED
    BY <1>2, <1>3, FS_Subset, FS_CardinalityType

\* An item that is sent is one less to produce, and there was one.
LEMMA ItemSent ==
    ASSUME left \in [Messages -> 0..MaxMessages],
           NEW m \in Messages, left[m] > 0,
           left' = [left EXCEPT ![m] = @ - 1]
    PROVE  /\ Cardinality(Unsent) > 0
           /\ Cardinality(Unsent') = Cardinality(Unsent) - 1
  <1> DEFINE p == <<m, left[m]>>
  <1>1. left[m] \in Messages
    BY BoundsAssumption DEF Messages
  <1>2. p \in Unsent
    BY <1>1 DEF Unsent
  <1>3. Unsent' = Unsent \ {p}
    <2>1. ASSUME NEW q \in Messages \X Messages
          PROVE  q[2] <= left'[q[1]] <=> q[2] <= left[q[1]] /\ q # p
      <3>1. q[1] \in Messages /\ q[2] \in Nat /\ q = <<q[1], q[2]>>
        BY BoundsAssumption DEF Messages
      <3>2. CASE q[1] = m
        <4>1. left'[q[1]] = left[m] - 1 /\ left[q[1]] = left[m] /\ left[m] \in Nat
          BY <3>2, BoundsAssumption
        <4>2. q = p <=> q[2] = left[m]
          BY <3>1, <3>2
        <4> QED
          BY <3>1, <4>1, <4>2
      <3>3. CASE q[1] # m
        <4>1. left'[q[1]] = left[q[1]] /\ q # p
          BY <3>1, <3>3
        <4> QED
          BY <4>1
      <3> QED
        BY <3>2, <3>3
    <2> QED
      BY <2>1 DEF Unsent
  <1> HIDE DEF p
  <1>4. Unsent # {}
    BY <1>2
  <1>5. Cardinality(Unsent) # 0
    BY <1>4, UnsentFinite, FS_EmptySet
  <1> QED
    BY <1>2, <1>3, <1>5, UnsentFinite, FS_RemoveElement

\* A command that is spawned has all of its items to produce.
LEMMA CommandSpawned ==
    ASSUME left \in [Messages -> 0..MaxMessages],
           NEW m \in Messages, left[m] = 0,
           NEW n \in 0..MaxMessages,
           left' = [left EXCEPT ![m] = n]
    PROVE  Cardinality(Unsent') = Cardinality(Unsent) + n
  <1> DEFINE items == {m} \X (1..n)
  <1>1. IsFiniteSet(items) /\ Cardinality(items) = n
    <2>1. IsFiniteSet({m}) /\ Cardinality({m}) = 1
      BY FS_Singleton
    <2>2. IsFiniteSet(1..n) /\ Cardinality(1..n) = n
      BY BoundsAssumption, FS_Interval
    <2>3. Cardinality(items) = 1 * n /\ IsFiniteSet(items)
      BY <2>1, <2>2, FS_Product
    <2> QED
      BY <2>3
  <1>2. \A q \in Messages \X Messages : q \in items <=> q[1] = m /\ q[2] <= n
    BY BoundsAssumption DEF Messages
  <1>3. items \subseteq Messages \X Messages
    BY BoundsAssumption DEF Messages
  <1> HIDE DEF items
  <1>4. ASSUME NEW q \in Messages \X Messages
        PROVE  /\ q \in Unsent' <=> q \in Unsent \/ q \in items
               /\ ~(q \in Unsent /\ q \in items)
    <2>1. q[1] \in Messages /\ q[2] \in Nat /\ q[2] > 0
      BY BoundsAssumption DEF Messages
    <2>2. CASE q[1] = m
      <3>1. left'[q[1]] = n /\ left[q[1]] = 0
        BY <2>2
      <3> QED
        BY <1>2, <2>1, <2>2, <3>1 DEF Unsent
    <2>3. CASE q[1] # m
      <3>1. left'[q[1]] = left[q[1]]
        BY <2>1, <2>3
      <3> QED
        BY <1>2, <2>3, <3>1 DEF Unsent
    <2> QED
      BY <2>2, <2>3
  <1>5. Unsent \subseteq Messages \X Messages /\ Unsent' \subseteq Messages \X Messages
    BY DEF Unsent
  <1>6. Unsent' = Unsent \cup items /\ Unsent \cap items = {}
    BY <1>3, <1>4, <1>5
  <1>7. Cardinality(Unsent') = Cardinality(Unsent) + n - Cardinality({})
    BY <1>1, <1>6, UnsentFinite, FS_Union
  <1> QED
    BY <1>7, UnsentFinite, FS_EmptySet, BoundsAssumption

-----------------------------------------------------------------------------
(* The invariant *)

\* Nothing is accepted, handled or written when the loop is built.
LEMMA InitIInv == Init => IInv
  <1> SUFFICES ASSUME Init PROVE IInv
    OBVIOUS
  <1> USE BoundsAssumption, InterceptorsAssumption DEF Init
  <1>1. accepted = <<>> /\ taken = 0 /\ alive = TRUE
    BY DEF Mailbox!Init
  <1>2. MailboxOK
    BY <1>1 DEF MailboxOK
  <1>3. HandlingOK
    <2>1. signals \in Seq(Signals)
      OBVIOUS
    <2>2. pc \in HostStates
      BY DEF HostStates
    <2>3. intercepted \in 0..Interceptors
      OBVIOUS
    <2> QED
      BY <2>1, <2>2, <2>3 DEF HandlingOK
  <1>4. TasksOK
    BY DEF TasksOK, TaskStates
  <1>5. SignalsOK
    BY <1>1 DEF SignalsOK, MayWrite
  <1>6. Unsent = {}
    BY DEF Unsent, Messages
  <1>7. WithinBudget
    BY <1>1, <1>6, FS_EmptySet DEF WithinBudget, Returned
  <1> QED
    BY <1>2, <1>3, <1>4, <1>5, <1>7 DEF IInv

\* A message is accepted only if there is room for it.
LEMMA RoomToAccept ==
    ASSUME IInv, budget > 0 \/ \E m \in Messages : left[m] > 0
    PROVE  Len(accepted) + 1 \in Messages
  <1>1. Cardinality(Unsent) + budget > 0
    <2>1. CASE budget > 0
      BY <2>1, UnsentFinite DEF IInv, TasksOK
    <2>2. ASSUME NEW m \in Messages, left[m] > 0 PROVE Cardinality(Unsent) + budget > 0
      <3>1. left[m] \in Messages
        BY <2>2, BoundsAssumption DEF IInv, TasksOK, Messages
      <3>2. <<m, left[m]>> \in Unsent
        BY <3>1 DEF Unsent, Messages
      <3>3. Cardinality(Unsent) # 0
        BY <3>2, UnsentFinite, FS_EmptySet
      <3> QED
        BY <3>3, UnsentFinite DEF IInv, TasksOK
    <2> QED
      BY <2>1, <2>2
  <1>2. Returned \in Nat
    BY BoundsAssumption DEF IInv, HandlingOK, Returned, Messages
  <1>3. Len(accepted) \in Nat /\ budget \in Nat
    BY BoundsAssumption DEF IInv, MailboxOK, TasksOK
  <1>4. Len(accepted) + 1 <= MaxMessages
    BY <1>1, <1>2, <1>3, UnsentFinite, BoundsAssumption DEF IInv, WithinBudget
  <1> QED
    BY <1>3, <1>4 DEF Messages

\* What accepting a message does to the mailbox.
LEMMA AcceptFacts ==
    ASSUME MailboxOK, Mailbox!Accept(Len(accepted) + 1)
    PROVE  /\ accepted' = Append(accepted, Len(accepted) + 1)
           /\ Len(accepted') = Len(accepted) + 1
           /\ alive /\ UNCHANGED <<taken, alive>>
  BY DEF MailboxOK, Mailbox!Accept

\* A host that dies keeps what it has taken.
LEMMA DeathFacts ==
    ASSUME MailboxOK, Mailbox!Die
    PROVE  /\ accepted' = SubSeq(accepted, 1, taken)
           /\ Len(accepted') = taken
           /\ alive /\ alive' = FALSE /\ taken' = taken
  BY DEF MailboxOK, Mailbox!Die

\* Every step keeps the numbering of messages and takes no more than was accepted.
LEMMA MailboxStep == IInv /\ [Next]_vars => MailboxOK'
  <1> SUFFICES ASSUME IInv, [Next]_vars PROVE MailboxOK'
    OBVIOUS
  <1>1. MailboxOK
    BY DEF IInv
  <1>2. ASSUME UNCHANGED <<accepted, taken, alive>>, pc' = "dead" <=> pc = "dead"
        PROVE  MailboxOK'
    BY <1>1, <1>2 DEF MailboxOK
  <1>3. ASSUME Mailbox!Accept(Len(accepted) + 1), UNCHANGED pc,
               Len(accepted) + 1 \in Messages
        PROVE  MailboxOK'
    <2>1. /\ accepted' = Append(accepted, Len(accepted) + 1)
          /\ Len(accepted') = Len(accepted) + 1
          /\ UNCHANGED <<taken, alive, pc>>
      BY <1>1, <1>3, AcceptFacts
    <2>2. accepted' \in Seq(Messages) /\ taken' \in 0..Len(accepted')
      BY <1>1, <1>3, <2>1 DEF MailboxOK
    <2>3. \A i \in 1..Len(accepted') : accepted'[i] = i
      BY <1>1, <2>1 DEF MailboxOK
    <2> QED
      BY <1>1, <2>1, <2>2, <2>3 DEF MailboxOK
  <1>4. ASSUME Mailbox!Die, pc' = "dead"
        PROVE  MailboxOK'
    <2>1. /\ accepted' = SubSeq(accepted, 1, taken)
          /\ Len(accepted') = taken
          /\ alive' = FALSE /\ taken' = taken
      BY <1>1, <1>4, DeathFacts
    <2>2. accepted' \in Seq(Messages) /\ taken' \in 0..Len(accepted')
      BY <1>1, <2>1 DEF MailboxOK
    <2>3. \A i \in 1..Len(accepted') : accepted'[i] = i
      BY <1>1, <2>1 DEF MailboxOK
    <2> QED
      BY <1>4, <2>1, <2>2, <2>3 DEF MailboxOK
  <1>5. CASE Recv
    <2>1. /\ UNCHANGED <<accepted, alive>> /\ taken' = taken + 1
          /\ taken < Len(accepted)
          /\ pc = "recv" /\ pc' = "intercept"
      BY <1>5 DEF Recv, Mailbox!Take
    <2> QED
      BY <1>1, <2>1 DEF MailboxOK
  <1>6. CASE SendMessage
    BY <1>3, <1>6, RoomToAccept DEF SendMessage
  <1>7. ASSUME NEW m \in Messages, TaskSend(m) PROVE MailboxOK'
    BY <1>2, <1>3, <1>7, RoomToAccept DEF TaskSend, mailbox
  <1>8. CASE UpdatePanics \/ HostEnds \/ SpawnPanics
    BY <1>4, <1>8 DEF UpdatePanics, HostEnds, SpawnPanics
  <1>9. CASE \/ Intercept \/ BeginUpdate \/ EndUpdate \/ Accumulate \/ SpawnCommand
             \/ FlushSignal \/ FlushDone
             \/ \E s \in Signals : WriteSignal(s) \/ WriteOutside(s) \/ DropHandle(s) \/ Observe(s)
             \/ \E r \in Readers : ReadModel(r) \/ ReleaseModel(r)
             \/ \E m \in Messages : TaskRead(m) \/ TaskRelease(m) \/ TaskEnd(m)
    <2>1. UNCHANGED mailbox /\ (pc' = "dead" <=> pc = "dead")
      BY <1>9 DEF Intercept, BeginUpdate, EndUpdate, Accumulate, SpawnCommand, FlushSignal,
        FlushDone, WriteSignal, WriteOutside, DropHandle, Observe, ReadModel, ReleaseModel,
        TaskRead, TaskRelease, TaskEnd
    <2> QED
      BY <1>2, <2>1 DEF mailbox
  <1>10. CASE UNCHANGED vars
    BY <1>2, <1>10 DEF vars, mailbox
  <1> QED
    BY <1>5, <1>6, <1>7, <1>8, <1>9, <1>10 DEF Next, HandleMessage, TaskStep

\* Every step keeps the host at the last message that it took.
LEMMA HandlingStep == IInv /\ [Next]_vars => HandlingOK'
  <1> SUFFICES ASSUME IInv, [Next]_vars PROVE HandlingOK'
    OBVIOUS
  <1>1. HandlingOK
    BY DEF IInv
  <1> USE DEF handling, model, mailbox, HostStates
  <1>2. CASE Recv
    <2>1. /\ taken < Len(accepted) /\ taken' = taken + 1 /\ accepted[taken + 1] = taken + 1
          /\ taken \in Nat /\ taken + 1 \in Messages
      BY <1>2 DEF Recv, Mailbox!Take, IInv, MailboxOK
    <2>2. cur' = taken' /\ taken' > 0 /\ cur' \in Messages /\ pc' = "intercept"
      BY <1>2, <2>1 DEF Recv
    <2>3. /\ intercepted' = 0
          /\ UNCHANGED <<toWrite, wrote, command, signals, readers, poisoned>>
      BY <1>2 DEF Recv
    <2>4. intercepted' \in 0..Interceptors
      BY <2>3, InterceptorsAssumption
    <2> QED
      BY <1>1, <2>2, <2>3, <2>4 DEF HandlingOK
  <1>3. CASE Intercept
    BY <1>1, <1>3, InterceptorsAssumption DEF HandlingOK, Intercept
  <1>4. CASE \/ BeginUpdate \/ SpawnCommand \/ FlushDone
             \/ \E s \in Signals : WriteSignal(s)
    BY <1>1, <1>4 DEF HandlingOK, BeginUpdate, SpawnCommand, FlushDone, WriteSignal
  <1>5. CASE EndUpdate
    <2>1. command' \in Messages \cup {0, NoCommand}
      <3>1. budget \in 0..MaxMessages
        BY DEF IInv, TasksOK
      <3>2. \A n \in 0..budget : n \in Messages \cup {0}
        BY <3>1, BoundsAssumption DEF Messages
      <3> QED
        BY <1>5, <3>2 DEF EndUpdate
    <2> QED
      BY <1>1, <1>5, <2>1 DEF HandlingOK, EndUpdate
  <1>6. CASE Accumulate
    <2>1. signals' \in Seq(Signals)
      BY <1>1, <1>6, GettersAssumption DEF HandlingOK, Accumulate
    <2> QED
      BY <1>1, <1>6, <2>1 DEF HandlingOK, Accumulate
  <1>7. CASE FlushSignal
    <2>1. signals' \in Seq(Signals)
      BY <1>1, <1>7 DEF HandlingOK, FlushSignal
    <2> QED
      BY <1>1, <1>7, <2>1 DEF HandlingOK, FlushSignal
  <1>8. CASE UpdatePanics \/ HostEnds \/ SpawnPanics
    BY <1>1, <1>8, PoisoningAssumption DEF HandlingOK, UpdatePanics, HostEnds, SpawnPanics
  <1>9. ASSUME UNCHANGED <<taken, pc, handling, poisoned>>,
               readers' \subseteq Readers \cup Messages
        PROVE  HandlingOK'
    BY <1>1, <1>9 DEF HandlingOK
  <1>10. CASE SendMessage \/ \E m \in Messages : TaskSend(m) \/ TaskEnd(m)
    <2>1. UNCHANGED <<taken, pc, handling, model>>
      BY <1>10, AcceptFacts DEF SendMessage, TaskSend, TaskEnd, Mailbox!Accept
    <2> QED
      BY <1>1, <1>9, <2>1 DEF HandlingOK
  <1>11. CASE \/ \E s \in Signals : WriteOutside(s) \/ DropHandle(s) \/ Observe(s)
              \/ \E r \in Readers : ReadModel(r) \/ ReleaseModel(r)
              \/ \E m \in Messages : TaskRead(m) \/ TaskRelease(m)
    <2>1. UNCHANGED <<taken, pc, handling, poisoned>>
      BY <1>11 DEF WriteOutside, DropHandle, Observe, ReadModel, ReleaseModel, TaskRead, TaskRelease
    <2>2. readers' \subseteq Readers \cup Messages
      BY <1>1, <1>11 DEF HandlingOK, WriteOutside, DropHandle, Observe, ReadModel, ReleaseModel,
        TaskRead, TaskRelease
    <2> QED
      BY <1>9, <2>1, <2>2
  <1>12. CASE UNCHANGED vars
    BY <1>1, <1>9, <1>12 DEF vars, HandlingOK
  <1> QED
    BY <1>2, <1>3, <1>4, <1>5, <1>6, <1>7, <1>8, <1>10, <1>11, <1>12 DEF Next, HandleMessage, TaskStep

\* The steps by what they do to the mailbox.
LEMMA MailboxMoves ==
    ASSUME IInv, [Next]_vars
    PROVE  \/ Recv /\ taken' = taken + 1
           \/ UNCHANGED taken
  <1>1. CASE Recv
    BY <1>1 DEF Recv, Mailbox!Take
  <1>2. CASE UpdatePanics \/ HostEnds \/ SpawnPanics
    BY <1>2 DEF UpdatePanics, HostEnds, SpawnPanics, Mailbox!Die
  <1>3. CASE SendMessage \/ \E m \in Messages : TaskSend(m)
    BY <1>3 DEF SendMessage, TaskSend, Mailbox!Accept, mailbox
  <1>4. CASE \/ Intercept \/ BeginUpdate \/ EndUpdate \/ Accumulate \/ SpawnCommand
             \/ FlushSignal \/ FlushDone
             \/ \E s \in Signals : WriteSignal(s) \/ WriteOutside(s) \/ DropHandle(s) \/ Observe(s)
             \/ \E r \in Readers : ReadModel(r) \/ ReleaseModel(r)
             \/ \E m \in Messages : TaskRead(m) \/ TaskRelease(m) \/ TaskEnd(m)
             \/ UNCHANGED vars
    BY <1>4 DEF Intercept, BeginUpdate, EndUpdate, Accumulate, SpawnCommand, FlushSignal,
        FlushDone, WriteSignal, WriteOutside, DropHandle, Observe, ReadModel, ReleaseModel,
        TaskRead, TaskRelease, TaskEnd, vars, mailbox
  <1> QED
    BY <1>1, <1>2, <1>3, <1>4 DEF Next, HandleMessage, TaskStep

\* A command that was spawned is not spawned again.
LEMMA UnspawnedShrinks ==
    ASSUME IInv, [Next]_vars, NEW m \in Messages, Unspawned(m)'
    PROVE  Unspawned(m)
  <1>1. taken \in Nat /\ m \in Nat
    BY BoundsAssumption DEF IInv, MailboxOK, Messages
  <1>2. CASE Recv /\ taken' = taken + 1
    BY <1>1, <1>2 DEF Unspawned
  <1>3. CASE UNCHANGED taken /\ ~Recv
    <2>1. \/ pc' = pc \/ pc' \notin {"intercept", "update", "accumulate", "spawn"}
          \/ pc \in {"intercept", "update", "accumulate", "spawn"}
      BY <1>3 DEF Next, HandleMessage, Intercept, BeginUpdate, EndUpdate, Accumulate,
        SpawnCommand, FlushSignal, FlushDone, WriteSignal, WriteOutside, DropHandle, Observe,
        ReadModel, ReleaseModel, TaskStep, TaskRead, TaskRelease, TaskSend, TaskEnd,
        SendMessage, UpdatePanics, HostEnds, SpawnPanics, vars
    <2> QED
      BY <1>3, <2>1 DEF Unspawned
  <1>4. CASE UNCHANGED taken /\ Recv
    BY <1>1, <1>4 DEF Recv, Mailbox!Take
  <1> QED
    BY <1>2, <1>3, <1>4, MailboxMoves

\* Every step keeps the items of commands within bounds, of none before it is spawned.
LEMMA TasksStep == IInv /\ [Next]_vars => TasksOK'
  <1> SUFFICES ASSUME IInv, [Next]_vars PROVE TasksOK'
    OBVIOUS
  <1>1. TasksOK
    BY DEF IInv
  <1> USE DEF tasks, bounds, TaskStates
  <1>2. ASSUME UNCHANGED left, UNCHANGED bounds, task' \in [Messages -> TaskStates]
        PROVE  TasksOK'
    BY <1>1, <1>2, UnspawnedShrinks DEF TasksOK
  <1>3. CASE SpawnCommand
    <2>1. /\ pc = "spawn" /\ pc' = "flush" /\ UNCHANGED <<taken, budget, outside>>
          /\ cur \in Messages /\ cur = taken
      BY <1>3 DEF SpawnCommand, mailbox, IInv, HandlingOK
    <2>2. CASE command = NoCommand
      BY <1>1, <1>2, <1>3, <2>2 DEF SpawnCommand, TasksOK
    <2>3. CASE command # NoCommand
      <3>1. command \in 0..MaxMessages
        BY <2>3, BoundsAssumption DEF IInv, HandlingOK, Messages
      <3>2. /\ task' = [task EXCEPT ![cur] = "running"]
            /\ left' = [left EXCEPT ![cur] = command]
        BY <1>3, <2>3 DEF SpawnCommand
      <3>3. ASSUME NEW m \in Messages, Unspawned(m)' PROVE left'[m] = 0
        <4>1. m # cur
          BY <2>1, <3>3, BoundsAssumption DEF Unspawned, Messages
        <4>2. left[m] = 0
          BY <1>1, <3>3, UnspawnedShrinks DEF TasksOK
        <4> QED
          BY <1>1, <3>2, <4>1, <4>2 DEF TasksOK
      <3> QED
        BY <1>1, <2>1, <3>1, <3>2, <3>3 DEF TasksOK
    <2> QED
      BY <2>2, <2>3
  <1>4. ASSUME NEW m \in Messages, TaskSend(m) PROVE TasksOK'
    <2>1. /\ left[m] > 0 /\ UNCHANGED bounds /\ task' \in [Messages -> TaskStates]
          /\ left' = [left EXCEPT ![m] = @ - 1] \/ left' = left
      BY <1>1, <1>4 DEF TaskSend, TasksOK
    <2>2. CASE left' = left
      BY <1>2, <2>1, <2>2
    <2>3. CASE left' = [left EXCEPT ![m] = @ - 1]
      <3>1. left' \in [Messages -> 0..MaxMessages]
        BY <1>1, <2>1, <2>3, BoundsAssumption DEF TasksOK
      <3>2. ASSUME NEW n \in Messages, Unspawned(n)' PROVE left'[n] = 0
        <4>1. left[n] = 0
          BY <1>1, <3>2, UnspawnedShrinks DEF TasksOK
        <4> QED
          BY <1>1, <2>1, <2>3, <4>1 DEF TasksOK
      <3> QED
        BY <1>1, <2>1, <3>1, <3>2 DEF TasksOK
    <2> QED
      BY <2>1, <2>2, <2>3
  <1>5. CASE \/ EndUpdate \/ SendMessage \/ \E s \in Signals : WriteOutside(s)
    <2>1. budget' \in 0..MaxMessages /\ outside' \in 0..MaxWrites
      BY <1>1, <1>5, BoundsAssumption DEF TasksOK, EndUpdate, SendMessage, WriteOutside
    <2>2. UNCHANGED <<task, left>>
      BY <1>5 DEF EndUpdate, SendMessage, WriteOutside
    <2> QED
      BY <1>1, <2>1, <2>2, UnspawnedShrinks DEF TasksOK
  <1>6. CASE \E m \in Messages : TaskRead(m) \/ TaskRelease(m) \/ TaskEnd(m)
    BY <1>1, <1>2, <1>6 DEF TasksOK, TaskRead, TaskRelease, TaskEnd
  <1>7. CASE \/ Recv \/ Intercept \/ BeginUpdate \/ Accumulate \/ FlushSignal \/ FlushDone
             \/ UpdatePanics \/ HostEnds \/ SpawnPanics
             \/ \E s \in Signals : WriteSignal(s) \/ DropHandle(s) \/ Observe(s)
             \/ \E r \in Readers : ReadModel(r) \/ ReleaseModel(r)
             \/ UNCHANGED vars
    <2>1. UNCHANGED <<tasks, bounds>>
      BY <1>7 DEF Recv, Intercept, BeginUpdate, Accumulate, FlushSignal, FlushDone, UpdatePanics,
        HostEnds, SpawnPanics, WriteSignal, DropHandle, Observe, ReadModel, ReleaseModel, vars
    <2> QED
      BY <1>1, <1>2, <2>1 DEF TasksOK
  <1> QED
    BY <1>3, <1>4, <1>5, <1>6, <1>7 DEF Next, HandleMessage, TaskStep

\* Every step keeps versions within what was taken and written from outside.
LEMMA SignalsStep == IInv /\ [Next]_vars => SignalsOK'
  <1> SUFFICES ASSUME IInv, [Next]_vars PROVE SignalsOK'
    OBVIOUS
  <1>1. SignalsOK /\ taken \in Nat /\ outside \in Nat
    BY BoundsAssumption DEF IInv, MailboxOK, TasksOK
  <1> USE DEF signalVars
  <1>2. ASSUME UNCHANGED version, taken' \in Nat, outside' = outside,
               hostVersion' = hostVersion,
               flushed' \in [Signals -> Nat], seen' \in [Signals -> Nat],
               dirty' \in [Signals -> BOOLEAN], news' \in [Signals -> BOOLEAN],
               \A s \in Signals : flushed'[s] <= version[s] /\ seen'[s] <= version[s],
               \/ taken' = taken + 1
               \/ taken' = taken /\ \A s \in Signals : MayWrite(s)' => MayWrite(s)
        PROVE  SignalsOK'
    <2>1. ASSUME NEW s \in Signals
          PROVE  version[s] + (IF MayWrite(s)' THEN 1 ELSE 0) <= taken' + outside
      <3>1. version[s] \in Nat /\ version[s] + (IF MayWrite(s) THEN 1 ELSE 0) <= taken + outside
        BY <1>1 DEF SignalsOK
      <3> QED
        BY <1>1, <1>2, <3>1
    <2> QED
      BY <1>1, <1>2, <2>1 DEF SignalsOK
  <1>3. CASE Recv
    <2>1. taken' = taken + 1 /\ UNCHANGED <<signalVars, outside>>
      BY <1>3 DEF Recv, Mailbox!Take, bounds
    <2> QED
      BY <1>1, <1>2, <2>1 DEF SignalsOK
  <1>4. ASSUME NEW s \in Signals, WriteSignal(s) PROVE SignalsOK'
    <2>1. /\ version' = [version EXCEPT ![s] = @ + 1]
          /\ hostVersion' = [hostVersion EXCEPT ![s] = version[s] + 1]
          /\ dirty' = [dirty EXCEPT ![s] = TRUE]
          /\ UNCHANGED <<taken, outside, flushed, seen, news>>
          /\ pc = "update" /\ pc' = "update" /\ s \in toWrite /\ toWrite' = toWrite \ {s}
      BY <1>4 DEF WriteSignal, mailbox, bounds
    <2>2. /\ version' \in [Signals -> Nat] /\ hostVersion' \in [Signals -> Nat]
          /\ dirty' \in [Signals -> BOOLEAN]
      BY <1>1, <2>1 DEF SignalsOK
    <2>3. ASSUME NEW r \in Signals
          PROVE  /\ version'[r] + (IF MayWrite(r)' THEN 1 ELSE 0) <= taken' + outside'
                 /\ hostVersion'[r] <= version'[r]
                 /\ flushed'[r] <= version'[r]
                 /\ seen'[r] <= version'[r]
      <3>1. /\ version[r] \in Nat /\ flushed[r] \in Nat /\ seen[r] \in Nat /\ hostVersion[r] \in Nat
            /\ version[r] + (IF MayWrite(r) THEN 1 ELSE 0) <= taken + outside
            /\ hostVersion[r] <= version[r] /\ flushed[r] <= version[r] /\ seen[r] <= version[r]
        BY <1>1 DEF SignalsOK
      <3>2. CASE r = s
        <4>1. MayWrite(r) /\ ~MayWrite(r)'
          BY <2>1, <3>2 DEF MayWrite
        <4>2. version'[r] = version[r] + 1 /\ hostVersion'[r] = version[r] + 1
          BY <1>1, <2>1, <3>2 DEF SignalsOK
        <4> QED
          BY <1>1, <2>1, <3>1, <4>1, <4>2
      <3>3. CASE r # s
        <4>1. MayWrite(r)' => MayWrite(r)
          BY <2>1 DEF MayWrite
        <4>2. version'[r] = version[r] /\ hostVersion'[r] = hostVersion[r]
          BY <1>1, <2>1, <3>3 DEF SignalsOK
        <4> QED
          BY <1>1, <2>1, <3>1, <4>1, <4>2
      <3> QED
        BY <3>2, <3>3
    <2> QED
      BY <1>1, <2>1, <2>2, <2>3 DEF SignalsOK
  <1>5. ASSUME NEW s \in Signals, WriteOutside(s) PROVE SignalsOK'
    <2>1. /\ version' = [version EXCEPT ![s] = @ + 1]
          /\ dirty' = [dirty EXCEPT ![s] = TRUE]
          /\ outside' = outside + 1
          /\ UNCHANGED <<taken, pc, toWrite, hostVersion, flushed, seen, news>>
      BY <1>5 DEF WriteOutside, mailbox, handling
    <2>2. version' \in [Signals -> Nat] /\ dirty' \in [Signals -> BOOLEAN]
      BY <1>1, <2>1 DEF SignalsOK
    <2>3. ASSUME NEW r \in Signals
          PROVE  /\ version'[r] + (IF MayWrite(r)' THEN 1 ELSE 0) <= taken' + outside'
                 /\ hostVersion'[r] <= version'[r]
                 /\ flushed'[r] <= version'[r]
                 /\ seen'[r] <= version'[r]
      <3>1. /\ version[r] \in Nat /\ flushed[r] \in Nat /\ seen[r] \in Nat /\ hostVersion[r] \in Nat
            /\ version[r] + (IF MayWrite(r) THEN 1 ELSE 0) <= taken + outside
            /\ hostVersion[r] <= version[r] /\ flushed[r] <= version[r] /\ seen[r] <= version[r]
        BY <1>1 DEF SignalsOK
      <3>2. MayWrite(r)' <=> MayWrite(r)
        BY <2>1 DEF MayWrite
      <3>3. version'[r] = version[r] \/ version'[r] = version[r] + 1
        BY <1>1, <2>1 DEF SignalsOK
      <3> QED
        BY <1>1, <2>1, <3>1, <3>2, <3>3
    <2> QED
      BY <1>1, <2>1, <2>2, <2>3 DEF SignalsOK
  <1>6. CASE FlushSignal
    <2>1. /\ UNCHANGED <<taken, outside, pc, toWrite, version, hostVersion, seen>>
          /\ signals # <<>>
      BY <1>6 DEF FlushSignal, mailbox, bounds
    <2>2. Head(signals) \in Signals
      BY <2>1 DEF IInv, HandlingOK
    <2>3. \/ /\ flushed' = [flushed EXCEPT ![Head(signals)] = version[Head(signals)]]
             /\ dirty' = [dirty EXCEPT ![Head(signals)] = FALSE]
             /\ news' = [news EXCEPT ![Head(signals)] = TRUE]
          \/ UNCHANGED <<flushed, dirty, news>>
      BY <1>6 DEF FlushSignal
    <2>4. /\ flushed' \in [Signals -> Nat] /\ dirty' \in [Signals -> BOOLEAN]
          /\ news' \in [Signals -> BOOLEAN]
          /\ \A s \in Signals : flushed'[s] <= version[s]
      <3> DEFINE front == Head(signals)
      <3> HIDE DEF front
      <3>1. front \in Signals /\ version[front] \in Nat
        BY <1>1, <2>2 DEF SignalsOK, front
      <3>2. CASE /\ flushed' = [flushed EXCEPT ![front] = version[front]]
                 /\ dirty' = [dirty EXCEPT ![front] = FALSE]
                 /\ news' = [news EXCEPT ![front] = TRUE]
        BY <1>1, <3>1, <3>2 DEF SignalsOK
      <3>3. CASE UNCHANGED <<flushed, dirty, news>>
        BY <1>1, <3>3 DEF SignalsOK
      <3> QED
        BY <2>3, <3>2, <3>3 DEF front
    <2>5. \A s \in Signals : MayWrite(s)' => MayWrite(s)
      BY <2>1 DEF MayWrite
    <2> QED
      BY <1>1, <1>2, <2>1, <2>4, <2>5 DEF SignalsOK
  <1>7. ASSUME NEW s \in Signals, DropHandle(s) \/ Observe(s) PROVE SignalsOK'
    <2>1. /\ UNCHANGED <<taken, outside, pc, toWrite, version, hostVersion, flushed, dirty>>
          /\ news' \in [Signals -> BOOLEAN]
          /\ seen' \in [Signals -> Nat]
          /\ \A r \in Signals : seen'[r] <= version[r]
      <3>1. UNCHANGED <<taken, outside, pc, toWrite, version, hostVersion, flushed, dirty>>
        BY <1>7 DEF DropHandle, Observe, mailbox, bounds, handling
      <3>2. /\ news' = [news EXCEPT ![s] = TRUE] \/ news' = [news EXCEPT ![s] = FALSE]
            /\ seen' = seen \/ seen' = [seen EXCEPT ![s] = version[s]]
        BY <1>7 DEF DropHandle, Observe
      <3>3. news' \in [Signals -> BOOLEAN]
        BY <1>1, <3>2 DEF SignalsOK
      <3>4. seen' \in [Signals -> Nat] /\ \A r \in Signals : seen'[r] <= version[r]
        <4>1. CASE seen' = seen
          BY <1>1, <4>1 DEF SignalsOK
        <4>2. CASE seen' = [seen EXCEPT ![s] = version[s]]
          BY <1>1, <4>2 DEF SignalsOK
        <4> QED
          BY <3>2, <4>1, <4>2
      <3> QED
        BY <3>1, <3>3, <3>4
    <2>2. \A r \in Signals : MayWrite(r)' => MayWrite(r)
      BY <2>1 DEF MayWrite
    <2> QED
      BY <1>1, <1>2, <2>1, <2>2 DEF SignalsOK
  <1>8. CASE \/ Intercept \/ BeginUpdate \/ EndUpdate \/ Accumulate \/ SpawnCommand \/ FlushDone
             \/ UpdatePanics \/ HostEnds \/ SpawnPanics \/ SendMessage
             \/ \E r \in Readers : ReadModel(r) \/ ReleaseModel(r)
             \/ \E m \in Messages : TaskStep(m) \/ TaskRead(m)
             \/ UNCHANGED vars
    <2>1. UNCHANGED signalVars /\ outside' = outside
      BY <1>8 DEF Intercept, BeginUpdate, EndUpdate, Accumulate, SpawnCommand, FlushDone,
        UpdatePanics, HostEnds, SpawnPanics, SendMessage, ReadModel, ReleaseModel, TaskStep, TaskRead,
        TaskRelease, TaskSend, TaskEnd, vars, bounds
    <2>2. \A s \in Signals : MayWrite(s)' => MayWrite(s)
      BY <1>8 DEF Intercept, BeginUpdate, EndUpdate, Accumulate, SpawnCommand, FlushDone,
        UpdatePanics, HostEnds, SpawnPanics, SendMessage, ReadModel, ReleaseModel, TaskStep, TaskRead,
        TaskRelease, TaskSend, TaskEnd, vars, handling, MayWrite
    <2>3. taken' = taken \/ taken' = taken + 1
      BY MailboxMoves
    <2> QED
      BY <1>1, <1>2, <2>1, <2>2, <2>3 DEF SignalsOK
  <1> QED
    BY <1>3, <1>4, <1>5, <1>6, <1>7, <1>8 DEF Next, HandleMessage

\* The numbers that WithinBudget adds up.
LEMMA BudgetNumbers ==
    ASSUME IInv
    PROVE  /\ Len(accepted) \in Nat /\ taken \in Nat /\ taken <= Len(accepted)
           /\ Cardinality(Unsent) \in Nat
           /\ Returned \in Nat
           /\ budget \in Nat
           /\ MaxMessages \in Nat
  BY UnsentFinite, BoundsAssumption
     DEF IInv, MailboxOK, HandlingOK, TasksOK, Returned, Messages

\* Every step keeps within the budget: items move from update to command to queue.
LEMMA BudgetStep == IInv /\ [Next]_vars => WithinBudget'
  <1> SUFFICES ASSUME IInv, [Next]_vars PROVE WithinBudget'
    OBVIOUS
  <1>1. WithinBudget /\ MailboxOK
    BY DEF IInv
  <1>2. left' = left => Cardinality(Unsent') = Cardinality(Unsent)
    BY DEF Unsent
  <1> USE BudgetNumbers DEF WithinBudget, mailbox, tasks, bounds, handling
  <1>3. CASE SendMessage
    <2>1. /\ Len(accepted') = Len(accepted) + 1
          /\ budget' = budget - 1 /\ left' = left /\ Returned' = Returned
      BY <1>1, <1>3, AcceptFacts DEF SendMessage, Returned
    <2> QED
      BY <1>1, <1>2, <2>1
  <1>4. ASSUME NEW m \in Messages, TaskSend(m) PROVE WithinBudget'
    <2>1. budget' = budget /\ Returned' = Returned /\ left[m] > 0
      BY <1>4 DEF TaskSend, Returned
    <2>2. CASE alive
      <3>1. Len(accepted') = Len(accepted) + 1 /\ left' = [left EXCEPT ![m] = @ - 1]
        BY <1>1, <1>4, <2>2, AcceptFacts DEF TaskSend
      <3>2. Cardinality(Unsent') = Cardinality(Unsent) - 1
        BY <2>1, <3>1, ItemSent DEF IInv, TasksOK
      <3> QED
        BY <1>1, <2>1, <3>1, <3>2
    <2>3. CASE ~alive
      <3>1. UNCHANGED <<accepted, left>>
        BY <1>4, <2>3 DEF TaskSend
      <3> QED
        BY <1>1, <1>2, <2>1, <3>1
    <2> QED
      BY <2>2, <2>3
  <1>5. CASE EndUpdate
    <2>1. UNCHANGED <<accepted, left>> /\ Returned = 0
      BY <1>5 DEF EndUpdate, Returned
    <2>2. \/ budget' = budget /\ Returned' = 0
          \/ \E n \in 0..budget : budget' = budget - n /\ Returned' = n
      BY <1>5, NoCommandAssumption DEF EndUpdate, Returned
    <2> QED
      BY <1>1, <1>2, <2>1, <2>2
  <1>6. CASE SpawnCommand
    <2>1. /\ UNCHANGED <<accepted, budget>> /\ Returned' = 0
          /\ cur \in Messages /\ Unspawned(cur)
      BY <1>6 DEF SpawnCommand, Returned, IInv, HandlingOK, Unspawned
    <2>2. CASE command = NoCommand
      <3>1. left' = left
        BY <1>6, <2>2 DEF SpawnCommand
      <3> QED
        BY <1>1, <1>2, <2>1, <3>1
    <2>3. CASE command # NoCommand
      <3>1. command \in 0..MaxMessages /\ Returned = command
        BY <1>6, <2>3, BoundsAssumption DEF IInv, HandlingOK, Messages, Returned, SpawnCommand
      <3>2. left' = [left EXCEPT ![cur] = command] /\ left[cur] = 0
        BY <1>6, <2>1, <2>3 DEF SpawnCommand, IInv, TasksOK
      <3>3. Cardinality(Unsent') = Cardinality(Unsent) + command
        BY <2>1, <3>1, <3>2, CommandSpawned DEF IInv, TasksOK
      <3> QED
        BY <1>1, <2>1, <3>1, <3>3
    <2> QED
      BY <2>2, <2>3
  <1>7. CASE UpdatePanics \/ HostEnds \/ SpawnPanics
    <2>1. Len(accepted') = taken
      BY <1>1, <1>7, DeathFacts DEF UpdatePanics, HostEnds, SpawnPanics
    <2>2. UNCHANGED <<budget, left>> /\ Returned' = 0
      BY <1>7 DEF UpdatePanics, HostEnds, SpawnPanics, Returned
    <2> QED
      BY <1>1, <1>2, <2>1, <2>2
  <1>8. CASE \/ Recv \/ Intercept \/ BeginUpdate \/ Accumulate \/ FlushSignal \/ FlushDone
             \/ \E s \in Signals : WriteSignal(s) \/ WriteOutside(s) \/ DropHandle(s) \/ Observe(s)
             \/ \E r \in Readers : ReadModel(r) \/ ReleaseModel(r)
             \/ \E m \in Messages : TaskRead(m) \/ TaskRelease(m) \/ TaskEnd(m)
             \/ UNCHANGED vars
    <2>1. UNCHANGED <<accepted, left, budget>>
      BY <1>8 DEF Recv, Mailbox!Take, Intercept, BeginUpdate, Accumulate, FlushSignal, FlushDone,
        WriteSignal, WriteOutside, DropHandle, Observe, ReadModel, ReleaseModel, TaskRead,
        TaskRelease, TaskEnd, vars
    <2>2. Returned' = Returned
      BY <1>8 DEF Recv, Intercept, BeginUpdate, Accumulate, FlushSignal, FlushDone,
        WriteSignal, WriteOutside, DropHandle, Observe, ReadModel, ReleaseModel, TaskRead,
        TaskRelease, TaskEnd, vars, Returned
    <2> QED
      BY <1>1, <1>2, <2>1, <2>2
  <1> QED
    BY <1>3, <1>4, <1>5, <1>6, <1>7, <1>8 DEF Next, HandleMessage, TaskStep

\* IInv is invariant.
LEMMA SpecIInv == Spec => []IInv
  <1>1. IInv /\ [Next]_vars => IInv'
    BY MailboxStep, HandlingStep, TasksStep, SignalsStep, BudgetStep DEF IInv
  <1> QED
    BY <1>1, InitIInv, PTL DEF Spec

\* The host's variables keep their types and bounds: commands that run side by
\* side and feed the queue send no more than what was set aside for each when its
\* update returned, and a subscriber has never seen a version that was not written
\* (host.rs, handle_message).
THEOREM HostTypeOK == Spec => []TypeOK
  <1>1. ASSUME IInv PROVE TypeOK
    <2>1. Len(accepted) <= MaxMessages /\ taken \in 0..MaxMessages
      BY <1>1, BudgetNumbers DEF IInv, WithinBudget
    <2>2. outside \in 0..MaxWrites /\ outside \in Nat
      BY <1>1, BoundsAssumption DEF IInv, TasksOK
    <2>3. ASSUME NEW s \in Signals
          PROVE  /\ version[s] \in Versions /\ hostVersion[s] \in Versions
                 /\ flushed[s] \in Versions /\ seen[s] \in Versions
      <3>1. /\ version[s] \in Nat /\ hostVersion[s] \in Nat
            /\ flushed[s] \in Nat /\ seen[s] \in Nat
            /\ version[s] + (IF MayWrite(s) THEN 1 ELSE 0) <= taken + outside
            /\ hostVersion[s] <= version[s] /\ flushed[s] <= version[s] /\ seen[s] <= version[s]
        BY <1>1 DEF IInv, SignalsOK
      <3>2. version[s] <= MaxMessages + MaxWrites
        BY <2>1, <2>2, <3>1, BoundsAssumption
      <3> QED
        BY <3>1, <3>2, BoundsAssumption DEF Versions
    <2>4. /\ version \in [Signals -> Versions] /\ hostVersion \in [Signals -> Versions]
          /\ flushed \in [Signals -> Versions] /\ seen \in [Signals -> Versions]
          /\ dirty \in [Signals -> BOOLEAN] /\ news \in [Signals -> BOOLEAN]
      BY <1>1, <2>3 DEF IInv, SignalsOK
    <2>5. accepted \in Seq(Messages) /\ alive = (pc # "dead")
      BY <1>1 DEF IInv, MailboxOK
    <2> QED
      BY <1>1, <2>1, <2>2, <2>4, <2>5 DEF TypeOK, IInv, HandlingOK, TasksOK
  <1> QED
    BY <1>1, SpecIInv, PTL
=============================================================================
