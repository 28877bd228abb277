----------------------------- MODULE WorldProofs -----------------------------
(***************************************************************************)
(* The shared states for any number of tasks, states, threads and nested   *)
(* accesses: with std's locks nobody is given a half-written state, and    *)
(* who can be in whose way.                                                *)
(***************************************************************************)
EXTENDS World, FiniteSetTheorems, TLAPS

\* A guard that may write is the only one of its state.
Exclusive ==
    \A g, h \in guards : g.state = h.state /\ g.write => g = h

\* What is half-written is poisoned, and nobody is inside a poisoned lock.
HalfIsPoisoned ==
    lock = "std" => half \subseteq poisoned /\ \A g \in guards : g.state \notin poisoned

\* Who is done has no guard, nor has a task that a std build suspends.
GuardsOnThread ==
    \A g \in guards : /\ pc[g.task] \notin {"ended", "panicked"}
                      /\ lock = "std" => pc[g.task] # "off"

\* What is not thread-safe has one thread.
OneThread == lock = "cell" => threads = 1

\* Who waits has asked.
WaitingAsked ==
    \A t \in Tasks : pc[t] = "waiting" => steps[t] > 0 /\ want[t] \in Accesses

IInv ==
    /\ TypeOK
    /\ Exclusive
    /\ HalfIsPoisoned
    /\ GuardsOnThread
    /\ OneThread
    /\ WaitingAsked

-----------------------------------------------------------------------------
(* How many tasks are on a thread *)

\* The tasks on a thread are among the tasks.
LEMMA OnThreadFinite == IsFiniteSet(OnThread) /\ Cardinality(OnThread) \in Nat
  <1>1. OnThread \subseteq Tasks
    BY DEF OnThread
  <1> QED
    BY <1>1, TasksAssumption, FS_Subset, FS_CardinalityType

\* A step that puts nobody on a thread keeps within the threads.
LEMMA NobodyResumed ==
    ASSUME TypeOK, OnThread' \subseteq OnThread, UNCHANGED threads
    PROVE  Cardinality(OnThread') <= threads'
  <1>1. Cardinality(OnThread') <= Cardinality(OnThread)
    BY OnThreadFinite, FS_Subset
  <1>2. Cardinality(OnThread') \in Nat
    BY OnThreadFinite, FS_Subset, FS_CardinalityType
  <1> QED
    BY <1>1, <1>2, OnThreadFinite, BoundsAssumption DEF TypeOK

\* On a single thread there is no second task.
LEMMA AloneOnThread ==
    ASSUME TypeOK, threads = 1, NEW t \in OnThread, NEW u \in OnThread
    PROVE  t = u
  <1>1. Cardinality(OnThread) <= 1
    BY DEF TypeOK
  <1> SUFFICES ASSUME t # u PROVE FALSE
    OBVIOUS
  <1>2. /\ IsFiniteSet(OnThread \ {t})
        /\ Cardinality(OnThread \ {t}) = Cardinality(OnThread) - 1
    BY OnThreadFinite, FS_RemoveElement
  <1>3. Cardinality(OnThread \ {t}) = 0
    BY <1>1, <1>2, OnThreadFinite, FS_CardinalityType
  <1>4. OnThread \ {t} = {}
    BY <1>2, <1>3, FS_EmptySet
  <1> QED
    BY <1>4

-----------------------------------------------------------------------------
(* The invariant *)

\* Nothing is held and nobody runs when the host has been built.
LEMMA InitIInv == Init => IInv
  <1> SUFFICES ASSUME Init PROVE IInv
    OBVIOUS
  <1>1. OnThread = {}
    BY DEF Init, OnThread
  <1>2. Cardinality(OnThread) <= threads
    BY <1>1, FS_EmptySet, BoundsAssumption DEF Init
  <1>3. TypeOK
    BY <1>2, BoundsAssumption DEF Init, TypeOK
  <1> QED
    BY <1>3 DEF Init, IInv, Exclusive, HalfIsPoisoned, GuardsOnThread, OneThread, WaitingAsked

\* A panic drops the guards of its task and poisons what they might write.
LEMMA UnwindStep ==
    ASSUME IInv, NEW t \in Tasks, Unwind(t), pc[t] \in {"running", "waiting"},
           steps' \in [Tasks -> 0..MaxSteps],
           \A u \in Tasks \ {t} : steps'[u] = steps[u]
    PROVE  IInv'
  <1> DEFINE written == {g.state : g \in {h \in Of(t) : h.write}}
  <1> USE DEF IInv
  <1>1. /\ pc' = [pc EXCEPT ![t] = "panicked"]
        /\ guards' = guards \ Of(t)
        /\ poisoned' = IF lock = "std" THEN poisoned \cup written ELSE poisoned
        /\ want' = [want EXCEPT ![t] = NoAccess]
        /\ UNCHANGED <<lock, writersFirst, threads>>
    BY DEF Unwind, platform
  <1>2. PICK S \in SUBSET BeingWritten(t) : half' = half \cup S
    BY DEF Unwind
  <1>3. S \subseteq written
    BY DEF BeingWritten
  <1>4. Of(t) \subseteq guards /\ written \subseteq States
    BY DEF Of, TypeOK, Guards
  <1>5. OnThread' \subseteq OnThread
    BY <1>1 DEF OnThread, TypeOK
  <1>6. TypeOK'
    <2>1. Cardinality(OnThread') <= threads'
      BY <1>1, <1>5, NobodyResumed
    <2> QED
      BY <1>1, <1>2, <1>3, <1>4, <2>1 DEF TypeOK
  <1>7. Exclusive'
    BY <1>1 DEF Exclusive
  <1>8. HalfIsPoisoned'
    <2>1. ASSUME lock = "std", NEW g \in guards \ Of(t)
          PROVE  g.state \notin written
      BY <2>1, <1>4 DEF Exclusive, Of
    <2> QED
      BY <1>1, <1>2, <1>3, <2>1 DEF HalfIsPoisoned
  <1>9. GuardsOnThread'
    BY <1>1 DEF GuardsOnThread, Of, TypeOK
  <1>10. OneThread'
    BY <1>1 DEF OneThread
  <1>11. WaitingAsked'
    BY <1>1 DEF WaitingAsked, TypeOK
  <1> QED
    BY <1>6, <1>7, <1>8, <1>9, <1>10, <1>11

\* A guard is given on a lock that is free and not poisoned.
LEMMA AcquireStep ==
    ASSUME IInv, NEW t \in Tasks, Acquire(t)
    PROVE  IInv'
  <1> DEFINE g == [task |-> t, n |-> steps[t], state |-> want[t].state,
                   write |-> want[t].write, by |-> want[t].by]
  <1> USE DEF IInv
  <1>1. /\ pc[t] = "waiting" /\ pc' = [pc EXCEPT ![t] = "running"]
        /\ Holders(t) = {} /\ want[t].state \notin poisoned
        /\ guards' = guards \cup {g}
        /\ want' = [want EXCEPT ![t] = NoAccess]
        /\ UNCHANGED <<lock, writersFirst, threads, steps, half, poisoned>>
    BY DEF Acquire, Blockers, platform
  <1>2. g \in Guards
    BY <1>1, BoundsAssumption DEF TypeOK, WaitingAsked, Guards, Accesses, Keepers
  <1>3. OnThread' \subseteq OnThread
    BY <1>1 DEF OnThread, TypeOK
  <1>4. TypeOK'
    <2>1. Cardinality(OnThread') <= threads'
      BY <1>1, <1>3, NobodyResumed
    <2> QED
      BY <1>1, <1>2, <2>1 DEF TypeOK
  <1>5. \A h \in guards : h.state = g.state => ~h.write /\ ~g.write
    BY <1>1 DEF Holders
  <1>6. Exclusive'
    BY <1>1, <1>5 DEF Exclusive
  <1>7. HalfIsPoisoned'
    BY <1>1 DEF HalfIsPoisoned
  <1>8. GuardsOnThread'
    BY <1>1 DEF GuardsOnThread, TypeOK, Guards
  <1>9. OneThread' /\ WaitingAsked'
    BY <1>1 DEF OneThread, WaitingAsked, TypeOK
  <1> QED
    BY <1>4, <1>6, <1>7, <1>8, <1>9


\* A task that is put on a thread finds one free.
LEMMA ResumeStep ==
    ASSUME IInv, NEW t \in Tasks, Resume(t)
    PROVE  IInv'
  <1> USE DEF IInv
  <1>1. /\ pc[t] = "off" /\ pc' = [pc EXCEPT ![t] = "running"]
        /\ Cardinality(OnThread) < threads
        /\ UNCHANGED <<lock, writersFirst, threads, steps, want, guards, half, poisoned>>
    BY DEF Resume, platform
  <1>2. OnThread' = OnThread \cup {t} /\ t \notin OnThread
    BY <1>1 DEF OnThread, TypeOK
  <1>3. Cardinality(OnThread') = Cardinality(OnThread) + 1
    BY <1>2, OnThreadFinite, FS_AddElement
  <1>4. Cardinality(OnThread') <= threads'
    BY <1>1, <1>3, OnThreadFinite, BoundsAssumption DEF TypeOK
  <1>5. TypeOK'
    BY <1>1, <1>4 DEF TypeOK
  <1>6. WaitingAsked'
    BY <1>1 DEF WaitingAsked, TypeOK
  <1>7. Exclusive' /\ HalfIsPoisoned' /\ OneThread'
    BY <1>1 DEF Exclusive, HalfIsPoisoned, OneThread
  <1>8. GuardsOnThread'
    BY <1>1 DEF GuardsOnThread, TypeOK
  <1> QED
    BY <1>5, <1>6, <1>7, <1>8

\* A task leaves its thread, asks, or is told that there is no such state.
LEMMA TaskStep ==
    ASSUME IInv, NEW t \in Tasks,
           \/ Yield(t) \/ End(t) \/ UNCHANGED <<pc, want>>
           \/ \E a \in Accesses : Ask(t, a),
           UNCHANGED <<platform, guards, half, poisoned>>,
           pc[t] = "running",
           steps' \in [Tasks -> 0..MaxSteps],
           \A u \in Tasks : steps'[u] >= steps[u],
           pc'[t] = "waiting" => steps'[t] > 0
    PROVE  IInv'
  <1> USE DEF IInv
  <1>1. UNCHANGED <<lock, writersFirst, threads, guards, half, poisoned>>
    BY DEF platform
  <1>2. /\ pc' \in [Tasks -> {"off", "running", "waiting", "ended", "panicked"}]
        /\ want' \in [Tasks -> Accesses \cup {NoAccess}]
        /\ \A u \in Tasks \ {t} : pc'[u] = pc[u] /\ want'[u] = want[u]
    BY DEF Yield, End, Ask, TypeOK
  <1>3. OnThread' \subseteq OnThread
    BY <1>2 DEF OnThread
  <1>4. TypeOK'
    <2>1. Cardinality(OnThread') <= threads'
      BY <1>1, <1>3, NobodyResumed
    <2> QED
      BY <1>1, <1>2, <2>1 DEF TypeOK
  <1>5. WaitingAsked'
    <2> SUFFICES ASSUME NEW u \in Tasks, pc'[u] = "waiting"
                 PROVE  steps'[u] > 0 /\ want'[u] \in Accesses
      BY DEF WaitingAsked
    <2>1. CASE u = t
      BY <2>1 DEF Yield, End, Ask, TypeOK
    <2>2. CASE u # t
      BY <2>2, <1>2 DEF WaitingAsked, TypeOK
    <2> QED
      BY <2>1, <2>2
  <1>6. Exclusive' /\ HalfIsPoisoned' /\ OneThread'
    BY <1>1 DEF Exclusive, HalfIsPoisoned, OneThread
  <1>7. GuardsOnThread'
    <2> SUFFICES ASSUME NEW g \in guards
                 PROVE  /\ pc'[g.task] \notin {"ended", "panicked"}
                        /\ lock = "std" => pc'[g.task] # "off"
      BY <1>1 DEF GuardsOnThread
    <2>1. g.task \in Tasks
      BY DEF TypeOK, Guards
    <2>2. CASE g.task = t
      BY <2>2, <2>1 DEF Yield, End, Ask, Of, TypeOK
    <2>3. CASE g.task # t
      BY <2>1, <2>3, <1>2 DEF GuardsOnThread
    <2> QED
      BY <2>2, <2>3
  <1> QED
    BY <1>4, <1>5, <1>6, <1>7

\* Guards are dropped, or kept by the future instead of the closure.
LEMMA GuardStep ==
    ASSUME IInv, NEW t \in Tasks, Return(t) \/ Finish(t) \/ DropGuard(t)
    PROVE  IInv'
  <1> USE DEF IInv
  <1>1. UNCHANGED <<lock, writersFirst, threads, pc, steps, want, half, poisoned>>
    BY DEF Return, Finish, DropGuard, platform
  <1>2. PICK g \in guards :
            \/ guards' = guards \ {g}
            \/ guards' = (guards \ {g}) \cup {[g EXCEPT !.by = "future"]}
    BY DEF Return, Finish, DropGuard, Of
  <1> DEFINE f == [g EXCEPT !.by = "future"]
  <1>3. f \in Guards /\ f.task = g.task /\ f.state = g.state /\ f.write = g.write
    BY DEF TypeOK, Guards, Keepers
  <1> HIDE DEF f
  <1>4. \A h \in guards' : h \in guards \ {g} \/ h = f
    BY <1>2 DEF f
  <1>5. guards' \subseteq Guards
    BY <1>3, <1>4 DEF TypeOK
  <1>6. TypeOK'
    BY <1>1, <1>5 DEF TypeOK, OnThread
  <1>7. Exclusive'
    BY <1>3, <1>4 DEF Exclusive
  <1>8. HalfIsPoisoned'
    BY <1>1, <1>3, <1>4 DEF HalfIsPoisoned
  <1>9. GuardsOnThread'
    BY <1>1, <1>3, <1>4 DEF GuardsOnThread
  <1>10. OneThread' /\ WaitingAsked'
    BY <1>1 DEF OneThread, WaitingAsked
  <1> QED
    BY <1>6, <1>7, <1>8, <1>9, <1>10

\* Every step of every task keeps the invariant.
LEMMA NextIInv == IInv /\ [Next]_vars => IInv'
  <1> SUFFICES ASSUME IInv, [Next]_vars PROVE IInv'
    OBVIOUS
  <1> USE DEF IInv
  <1>1. ASSUME NEW t \in Tasks, Resume(t) PROVE IInv'
    BY <1>1, ResumeStep
  <1>2. ASSUME NEW t \in Tasks, Acquire(t) PROVE IInv'
    BY <1>2, AcquireStep
  <1>3. ASSUME NEW t \in Tasks, Return(t) \/ Finish(t) \/ DropGuard(t) PROVE IInv'
    BY <1>3, GuardStep
  <1>4. ASSUME NEW t \in Tasks, UnwrapPanics(t) \/ BorrowPanics(t) \/ Panic(t)
        PROVE  IInv'
    <2>1. Unwind(t) /\ pc[t] \in {"running", "waiting"} /\ steps' = steps
      BY <1>4 DEF UnwrapPanics, BorrowPanics, Panic
    <2> QED
      BY <2>1, UnwindStep DEF TypeOK
  <1>5. ASSUME NEW t \in Tasks, AskAbsent(t) PROVE IInv'
    <2>1. /\ pc[t] = "running"
          /\ steps' \in [Tasks -> 0..MaxSteps]
          /\ \A u \in Tasks : steps'[u] >= steps[u]
          /\ \A u \in Tasks \ {t} : steps'[u] = steps[u]
      BY <1>5, BoundsAssumption DEF AskAbsent, TypeOK
    <2>2. CASE Unwind(t)
      BY <2>1, <2>2, UnwindStep
    <2>3. CASE UNCHANGED <<platform, pc, want, guards, half, poisoned>>
      <3>1. pc'[t] # "waiting"
        BY <2>1, <2>3
      <3> QED
        BY <2>1, <2>3, <3>1, TaskStep
    <2> QED
      BY <1>5, <2>2, <2>3 DEF AskAbsent
  <1>6. ASSUME NEW t \in Tasks, NEW a \in Accesses, Ask(t, a) PROVE IInv'
    <2>1. /\ pc[t] = "running"
          /\ steps[t] < MaxSteps
          /\ steps' = [steps EXCEPT ![t] = @ + 1]
          /\ UNCHANGED <<platform, guards, half, poisoned>>
      BY <1>6 DEF Ask
    <2>2. /\ steps' \in [Tasks -> 0..MaxSteps]
          /\ \A u \in Tasks : steps'[u] >= steps[u]
          /\ steps'[t] > 0
      BY <2>1, BoundsAssumption DEF TypeOK
    <2> QED
      BY <1>6, <2>1, <2>2, TaskStep
  <1>7. ASSUME NEW t \in Tasks, Yield(t) \/ End(t) PROVE IInv'
    <2>1. /\ pc[t] = "running" /\ pc'[t] # "waiting"
          /\ UNCHANGED <<platform, guards, half, poisoned>>
          /\ steps' \in [Tasks -> 0..MaxSteps]
          /\ \A u \in Tasks : steps'[u] >= steps[u]
      BY <1>7, BoundsAssumption DEF Yield, End, TypeOK
    <2> QED
      BY <1>7, <2>1, TaskStep
  <1>8. CASE UNCHANGED vars
    BY <1>8 DEF vars, platform, TypeOK, OnThread, Exclusive, HalfIsPoisoned,
                GuardsOnThread, OneThread, WaitingAsked
  <1> QED
    BY <1>1, <1>2, <1>3, <1>4, <1>5, <1>6, <1>7, <1>8 DEF Next, Progress

\* IInv is invariant.
LEMMA SpecIInv == Spec => []IInv
  BY InitIInv, NextIInv, PTL DEF Spec

-----------------------------------------------------------------------------
(* What it gives *)

\* The variables keep their types, and no more tasks run than there are threads.
THEOREM WorldTypeOK == Spec => []TypeOK
  BY SpecIInv, PTL DEF IInv

\* With std's locks nobody is inside a state that a panic left half-written.
THEOREM WorldNoHalfWritten == Spec => []NoHalfWritten
  <1>1. IInv => NoHalfWritten
    BY DEF IInv, HalfIsPoisoned, NoHalfWritten
  <1> QED
    BY SpecIInv, <1>1, PTL

\* A suspended task is in nobody's way with std's locks, and with RefCell nobody
\* but a suspended task and oneself is.
THEOREM WorldInTheWay == Spec => []InTheWay
  <1>1. IInv => InTheWay
    <2> SUFFICES ASSUME IInv, NEW t \in Tasks, pc[t] = "waiting",
                        NEW u \in Holders(t) \ {t}
                 PROVE  /\ lock = "std" => pc[u] # "off"
                        /\ lock = "cell" => pc[u] = "off"
      BY DEF InTheWay
    <2> USE DEF IInv
    <2>1. PICK g \in guards : g.task = u
      BY DEF Holders
    <2>2. /\ u \in Tasks /\ pc[u] \notin {"ended", "panicked"}
          /\ lock = "std" => pc[u] # "off"
      BY <2>1 DEF TypeOK, Guards, GuardsOnThread
    <2>3. ASSUME lock = "cell", pc[u] # "off" PROVE FALSE
      <3>1. t \in OnThread /\ u \in OnThread
        BY <2>2, <2>3 DEF OnThread, TypeOK
      <3> QED
        BY <2>3, <3>1, AloneOnThread DEF OneThread
    <2> QED
      BY <2>2, <2>3
  <1> QED
    BY SpecIInv, <1>1, PTL
=============================================================================
