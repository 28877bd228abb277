------------------------------- MODULE World -------------------------------
(***************************************************************************)
(* The states that the commands of an application share, kept behind one   *)
(* lock each: src/base/src/host/world.rs over the locks of maybe.rs.       *)
(*                                                                         *)
(* A command is a task on one of the executor's threads.  It reaches a     *)
(* state in three ways: get, get_mut and their try_ forms run a closure    *)
(* under the guard; get_async and its siblings keep the guard while the    *)
(* closure's future is awaited; State::read and State::write hand the      *)
(* guard out.  What a state holds is abstracted to whether a panic may     *)
(* have left it half-written.                                              *)
(*                                                                         *)
(* The locks depend on the features: std's RwLock, spin's (thread-safe     *)
(* without std) or RefCell (not thread-safe).  std's guards are not Send,  *)
(* and a thread-safe command must be, so that none of them is kept across  *)
(* an await.                                                               *)
(***************************************************************************)
EXTENDS Naturals, FiniteSets

CONSTANTS
    Tasks,          \* the commands
    States,         \* the types of state that they ask for
    Added,          \* those given to HostBuilder::add_state
    NoAccess,       \* what a task wants that does not wait
    MaxThreads,     \* bound on the threads of the executor
    MaxSteps        \* bound on the accesses and awaits of one task

ASSUME TasksAssumption == IsFiniteSet(Tasks)
ASSUME AddedAssumption == Added \subseteq States
ASSUME BoundsAssumption == MaxThreads \in Nat /\ MaxSteps \in Nat

Locks == {"std", "spin", "cell"}

\* How a guard is kept: by a closure that runs, by the closure of an async
\* access, by the future that this closure returned, by the task itself.
Closures == {"closure", "async closure"}
Keepers == Closures \cup {"future", "guard"}

Accesses == [state : States, write : BOOLEAN, by : Keepers \ {"future"}]
Guards == [task : Tasks, n : 1..MaxSteps, state : States, write : BOOLEAN, by : Keepers]

ASSUME NoAccessAssumption == NoAccess \notin Accesses

VARIABLES
    lock,           \* the lock of this build
    writersFirst,   \* no reader gets in front of a waiting writer
    threads,        \* the threads of the executor
    pc,             \* pc[t]: where task t is; "off" is off its thread
    steps,          \* steps[t]: the accesses and awaits of t so far
    want,           \* want[t]: the access that t waits for, if it waits
    guards,         \* the guards there are
    half,           \* the states that a panic left half-written
    poisoned        \* the poisoned locks

platform == <<lock, writersFirst, threads>>
vars == <<platform, pc, steps, want, guards, half, poisoned>>

OnThread == {t \in Tasks : pc[t] \in {"running", "waiting"}}

TypeOK ==
    /\ lock \in Locks /\ writersFirst \in BOOLEAN
    /\ threads \in 1..MaxThreads
    /\ pc \in [Tasks -> {"off", "running", "waiting", "ended", "panicked"}]
    /\ steps \in [Tasks -> 0..MaxSteps]
    /\ want \in [Tasks -> Accesses \cup {NoAccess}]
    /\ guards \subseteq Guards
    /\ half \subseteq States /\ poisoned \subseteq States
    /\ Cardinality(OnThread) <= threads

\* The host has been built; the platform decides the rest: what is not
\* thread-safe has one thread, and only std's lock may prefer writers.
Init ==
    /\ lock \in Locks /\ writersFirst \in BOOLEAN /\ threads \in 1..MaxThreads
    /\ lock = "cell" => threads = 1
    /\ lock # "std" => ~writersFirst
    /\ pc = [t \in Tasks |-> "off"]
    /\ steps = [t \in Tasks |-> 0]
    /\ want = [t \in Tasks |-> NoAccess]
    /\ guards = {}
    /\ half = {} /\ poisoned = {}

Of(t) == {g \in guards : g.task = t}

InClosure(t) == \E g \in Of(t) : g.by \in Closures

\* Who holds a guard that excludes the one that t wants.
Holders(t) ==
    {g.task : g \in {h \in guards : h.state = want[t].state /\ (h.write \/ want[t].write)}}

\* Who waits to write what t wants to read, on a lock that lets writers first.
Ahead(t) ==
    {u \in Tasks \ {t} : /\ writersFirst /\ ~want[t].write
                         /\ pc[u] = "waiting"
                         /\ want[u].write /\ want[u].state = want[t].state}

Blockers(t) == Holders(t) \cup Ahead(t)

-----------------------------------------------------------------------------
(* The executor *)

Resume(t) ==
    /\ pc[t] = "off"
    /\ Cardinality(OnThread) < threads
    /\ pc' = [pc EXCEPT ![t] = "running"]
    /\ UNCHANGED <<platform, steps, want, guards, half, poisoned>>

\* Mutant of Yield: std's guards are Send.
YieldWithGuard(t) ==
    /\ pc[t] = "running"
    /\ steps[t] < MaxSteps
    /\ ~InClosure(t)
    /\ pc' = [pc EXCEPT ![t] = "off"]
    /\ steps' = [steps EXCEPT ![t] = @ + 1]
    /\ UNCHANGED <<platform, want, guards, half, poisoned>>

\* The task awaits something that is not ready: never inside a closure, and
\* never with a guard that must stay on its thread.
Yield(t) ==
    /\ pc[t] = "running"
    /\ steps[t] < MaxSteps
    /\ ~InClosure(t)
    /\ lock = "std" => Of(t) = {}
    /\ pc' = [pc EXCEPT ![t] = "off"]
    /\ steps' = [steps EXCEPT ![t] = @ + 1]
    /\ UNCHANGED <<platform, want, guards, half, poisoned>>

End(t) ==
    /\ pc[t] = "running"
    /\ Of(t) = {}
    /\ pc' = [pc EXCEPT ![t] = "ended"]
    /\ UNCHANGED <<platform, steps, want, guards, half, poisoned>>

\* What t may have half-written: the future of an async access cannot borrow
\* the state.
BeingWritten(t) == {g.state : g \in {h \in Of(t) : h.write /\ h.by # "future"}}

\* Mutant of Unwind: the guards of the panicked task stay.
UnwindWithGuards(t) ==
    /\ pc' = [pc EXCEPT ![t] = "panicked"]
    /\ poisoned' = IF lock = "std"
                   THEN poisoned \cup {g.state : g \in {h \in Of(t) : h.write}}
                   ELSE poisoned
    /\ \E S \in SUBSET BeingWritten(t) : half' = half \cup S
    /\ want' = [want EXCEPT ![t] = NoAccess]
    /\ UNCHANGED <<platform, guards>>

\* The task panics and its guards are dropped: std's lock is poisoned by the
\* ones that may write.
Unwind(t) ==
    /\ pc' = [pc EXCEPT ![t] = "panicked"]
    /\ guards' = guards \ Of(t)
    /\ poisoned' = IF lock = "std"
                   THEN poisoned \cup {g.state : g \in {h \in Of(t) : h.write}}
                   ELSE poisoned
    /\ \E S \in SUBSET BeingWritten(t) : half' = half \cup S
    /\ want' = [want EXCEPT ![t] = NoAccess]
    /\ UNCHANGED platform

\* A closure, or the task itself, panics.
Panic(t) == pc[t] = "running" /\ Unwind(t) /\ UNCHANGED steps

-----------------------------------------------------------------------------
(* Accesses *)

\* The task calls an accessor of World, or read or write of a State.  An async
\* one is awaited, so that it is not called in a closure; its future keeps the
\* guard, so that a task on std's locks has none.
Ask(t, a) ==
    /\ pc[t] = "running"
    /\ steps[t] < MaxSteps
    /\ a.state \in Added
    /\ a.by = "async closure" => lock # "std" /\ ~InClosure(t)
    /\ pc' = [pc EXCEPT ![t] = "waiting"]
    /\ steps' = [steps EXCEPT ![t] = @ + 1]
    /\ want' = [want EXCEPT ![t] = a]
    /\ UNCHANGED <<platform, guards, half, poisoned>>

\* A state that was never added: state panics, try_state gives the closure None.
AskAbsent(t) ==
    /\ pc[t] = "running"
    /\ steps[t] < MaxSteps
    /\ Added # States
    /\ steps' = [steps EXCEPT ![t] = @ + 1]
    /\ \/ Unwind(t)
       \/ UNCHANGED <<platform, pc, want, guards, half, poisoned>>

\* Mutant of Acquire: the poison is ignored.
AcquirePoisoned(t) ==
    /\ pc[t] = "waiting"
    /\ Blockers(t) = {}
    /\ pc' = [pc EXCEPT ![t] = "running"]
    /\ guards' = guards \cup {[task |-> t, n |-> steps[t], state |-> want[t].state,
                               write |-> want[t].write, by |-> want[t].by]}
    /\ want' = [want EXCEPT ![t] = NoAccess]
    /\ UNCHANGED <<platform, steps, half, poisoned>>

\* MaybeRwLock::read or write returns the guard.
Acquire(t) ==
    /\ pc[t] = "waiting"
    /\ Blockers(t) = {}
    /\ want[t].state \notin poisoned
    /\ pc' = [pc EXCEPT ![t] = "running"]
    /\ guards' = guards \cup {[task |-> t, n |-> steps[t], state |-> want[t].state,
                               write |-> want[t].write, by |-> want[t].by]}
    /\ want' = [want EXCEPT ![t] = NoAccess]
    /\ UNCHANGED <<platform, steps, half, poisoned>>

\* unwrap_lock!: a poisoned lock is acquired, and the unwrap panics.
UnwrapPanics(t) ==
    /\ pc[t] = "waiting"
    /\ Blockers(t) = {}
    /\ want[t].state \in poisoned
    /\ Unwind(t)
    /\ UNCHANGED steps

\* RefCell does not wait.
BorrowPanics(t) ==
    /\ pc[t] = "waiting"
    /\ lock = "cell"
    /\ Blockers(t) # {}
    /\ Unwind(t)
    /\ UNCHANGED steps

\* g belongs to the innermost accessor that t is in.
Innermost(t, g) == \A h \in Of(t) : h.by # "guard" => h.n <= g.n

\* The closure returns: its guard is dropped, or kept for the future.
Return(t) ==
    /\ pc[t] = "running"
    /\ \E g \in Of(t) :
        /\ g.by \in Closures /\ Innermost(t, g)
        /\ guards' = IF g.by = "closure"
                     THEN guards \ {g}
                     ELSE (guards \ {g}) \cup {[g EXCEPT !.by = "future"]}
    /\ UNCHANGED <<platform, pc, steps, want, half, poisoned>>

\* The future that an async access awaits is done.
Finish(t) ==
    /\ pc[t] = "running"
    /\ \E g \in Of(t) :
        /\ g.by = "future" /\ Innermost(t, g)
        /\ guards' = guards \ {g}
    /\ UNCHANGED <<platform, pc, steps, want, half, poisoned>>

\* Drop of a StateRef or StateMut.
DropGuard(t) ==
    /\ pc[t] = "running"
    /\ \E g \in Of(t) : g.by = "guard" /\ guards' = guards \ {g}
    /\ UNCHANGED <<platform, pc, steps, want, half, poisoned>>

-----------------------------------------------------------------------------
\* What a task does by itself once it is polled.
Progress(t) ==
    \/ Resume(t) \/ End(t)
    \/ Acquire(t) \/ UnwrapPanics(t) \/ BorrowPanics(t)
    \/ Return(t) \/ Finish(t) \/ DropGuard(t)

Next == \E t \in Tasks :
    \/ Progress(t) \/ Yield(t) \/ Panic(t) \/ AskAbsent(t)
    \/ \E a \in Accesses : Ask(t, a)

Spec == Init /\ [][Next]_vars

\* Every task that can go on goes on: the executor polls it, a lock that is free
\* is given to whoever waits for it, closures return and futures are done.
Fairness == \A t \in Tasks : WF_vars(Progress(t))

FairSpec == Spec /\ Fairness

-----------------------------------------------------------------------------
(* Properties *)

\* With std's locks nobody is ever given a state that a panic left half-written,
\* whichever guards the panicked task had and however deep it was nested
\* (maybe.rs, unwrap_lock).
NoHalfWritten == lock = "std" => \A g \in guards : g.state \notin half

\* Who can be in a task's way: with std's locks never a task that is suspended,
\* which has no thread to let go of its guard on; with RefCell, besides the task
\* itself, only such a task: a borrow panics on what is kept across an await
\* (world.rs, get_async and its siblings; State::read) or asked for twice.
InTheWay ==
    \A t \in Tasks : pc[t] = "waiting" =>
        \A u \in Holders(t) \ {t} :
            /\ lock = "std" => pc[u] # "off"
            /\ lock = "cell" => pc[u] = "off"

\* t waits for ever: all of D wait for one another, or for a suspended task that
\* D leaves no thread for.
Hopeless(t) ==
    \E D \in SUBSET Tasks :
        /\ t \in D
        /\ \A u \in D :
            /\ pc[u] = "waiting"
            /\ \E b \in Blockers(u) :
                b \in D \/ (pc[b] = "off" /\ Cardinality(D) = threads)

\* Every access ends, with its guard or with a panic, unless tasks wait for one
\* another in a circle (a closure that asks for its own state again, two tasks
\* that nest in opposite orders, a second read behind a waiting writer) or wait
\* on every thread for a guard that a suspended task keeps (world.rs, get_async).
AccessEnds ==
    \A t \in Tasks : pc[t] = "waiting" ~> (pc[t] # "waiting" \/ Hopeless(t))
=============================================================================
