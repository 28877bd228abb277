-------------------------------- MODULE Host --------------------------------
(***************************************************************************)
(* The host's loop of src/base/src/host.rs, with the model behind its      *)
(* lock, the signals in the model, the command tasks that the loop spawns  *)
(* and everybody else who sends messages, reads the model or writes a      *)
(* signal.                                                                 *)
(*                                                                         *)
(* The message queue is a Mailbox (Dispatcher implements it), and a signal *)
(* is a version that counts its writes, a dirty flag and whether its       *)
(* subscriber has a status to read (Signal has the steps in between).      *)
(* A message is its number in the order of acceptance.  What the update of *)
(* a message writes and whether it returns a command is free.              *)
(***************************************************************************)
EXTENDS Naturals, Sequences, Functions

CONSTANTS
    Signals,        \* the signals of the root model and of models nested in it
    Getters,        \* those with a getter in the root model, in declaration order
    Interceptors,   \* how many interceptors the host has
    Readers,        \* tasks that read the model through a ModelBaseReader
    MaxMessages,    \* bound on the messages accepted
    MaxWrites,      \* bound on writes through a SignalWriter outside update
    Poisoning,      \* the locks are std's: a panic under write() poisons them
    NoCommand       \* Command::none()

ASSUME GettersAssumption == Getters \in Seq(Signals)
ASSUME InterceptorsAssumption == Interceptors \in Nat
ASSUME BoundsAssumption == MaxMessages \in Nat /\ MaxWrites \in Nat
ASSUME PoisoningAssumption == Poisoning \in BOOLEAN
ASSUME NoCommandAssumption == NoCommand \notin Nat

Messages == 1..MaxMessages

VARIABLES
    accepted, taken, alive,  \* the mailbox
    pc,             \* where the host is in run_once
    cur,            \* the message it handles
    intercepted,    \* how many interceptors have seen it
    toWrite,        \* the signals that update has yet to write
    wrote,          \* the signals that update has written
    command,        \* what update returned: how many messages it will produce
    signals,        \* Host.signals: the signals to flush
    readers,        \* who holds a read guard of the model
    poisoned,       \* the model's lock is poisoned
    version,        \* version[s]: how often signal s was written
    hostVersion,    \* hostVersion[s]: its version after the last write by update
    flushed,        \* flushed[s]: its version when it was last flushed
    dirty,          \* SignalRepr.dirty
    news,           \* news[s]: its subscriber has a status to read
    seen,           \* seen[s]: the version its subscriber last read
    task,           \* task[m]: the task of the command of message m
    left,           \* left[m]: the messages that this command has yet to produce
    budget,         \* the messages that may still be thought up
    outside         \* the writes so far outside update

mailbox == <<accepted, taken, alive>>
model == <<readers, poisoned>>
signalVars == <<version, hostVersion, flushed, dirty, news, seen>>
handling == <<cur, intercepted, toWrite, wrote, command, signals>>
tasks == <<task, left>>
bounds == <<budget, outside>>
vars == <<mailbox, pc, handling, model, signalVars, tasks, bounds>>

Mailbox == INSTANCE Mailbox

Versions == 0..(MaxMessages + MaxWrites)
HostStates == {"recv", "intercept", "update", "accumulate", "spawn", "flush", "dead"}
TaskStates == {"none", "running", "reading", "ready", "ended"}

TypeOK ==
    /\ accepted \in Seq(Messages)
    /\ taken \in 0..MaxMessages
    /\ alive = (pc # "dead")
    /\ pc \in HostStates
    /\ cur \in Messages \cup {0}
    /\ intercepted \in 0..Interceptors
    /\ toWrite \subseteq Signals
    /\ wrote \subseteq Signals
    /\ command \in Messages \cup {0, NoCommand}
    /\ signals \in Seq(Signals)
    /\ readers \subseteq Readers \cup Messages
    /\ poisoned \in BOOLEAN
    /\ version \in [Signals -> Versions]
    /\ hostVersion \in [Signals -> Versions]
    /\ flushed \in [Signals -> Versions]
    /\ dirty \in [Signals -> BOOLEAN]
    /\ news \in [Signals -> BOOLEAN]
    /\ seen \in [Signals -> Versions]
    /\ task \in [Messages -> TaskStates]
    /\ left \in [Messages -> 0..MaxMessages]
    /\ budget \in 0..MaxMessages
    /\ outside \in 0..MaxWrites

Init ==
    /\ Mailbox!Init
    /\ pc = "recv"
    /\ cur = 0
    /\ intercepted = 0
    /\ toWrite = {} /\ wrote = {}
    /\ command = NoCommand
    /\ signals = <<>>
    /\ readers = {}
    /\ poisoned = FALSE
    /\ version = [s \in Signals |-> 0]
    /\ hostVersion = [s \in Signals |-> 0]
    /\ flushed = [s \in Signals |-> 0]
    /\ dirty = [s \in Signals |-> FALSE]
    /\ news = [s \in Signals |-> FALSE]
    /\ seen = [s \in Signals |-> 0]
    /\ task = [m \in Messages |-> "none"]
    /\ left = [m \in Messages |-> 0]
    /\ budget = MaxMessages
    /\ outside = 0

\* The write guard of the model is held for the length of update.
WriteLocked == pc = "update"

-----------------------------------------------------------------------------
(* Host::run_once and Host::handle_message *)

Recv ==
    /\ pc = "recv"
    /\ Mailbox!Take
    /\ cur' = accepted[taken + 1]
    /\ intercepted' = 0
    /\ pc' = "intercept"
    /\ UNCHANGED <<toWrite, wrote, command, signals, model, signalVars, tasks, bounds>>

\* Mutant of Intercept: the loop over the interceptors does not end in time.
InterceptAgain ==
    /\ pc = "intercept"
    /\ intercepted' = intercepted + 1
    /\ UNCHANGED <<mailbox, pc, cur, toWrite, wrote, command, signals, model, signalVars,
                   tasks, bounds>>

\* An interceptor is handed a reader of the model and the message.
Intercept ==
    /\ pc = "intercept"
    /\ intercepted < Interceptors
    /\ intercepted' = intercepted + 1
    /\ UNCHANGED <<mailbox, pc, cur, toWrite, wrote, command, signals, model, signalVars,
                   tasks, bounds>>

\* Mutant of BeginUpdate: the model is written under its readers.
BeginUpdateUnlocked ==
    /\ pc = "intercept"
    /\ intercepted = Interceptors
    /\ pc' = "update"
    /\ toWrite' \in SUBSET Signals
    /\ wrote' = {}
    /\ UNCHANGED <<mailbox, cur, intercepted, command, signals, model, signalVars, tasks,
                   bounds>>

\* ModelBase::write: the host waits until nobody reads the model.
BeginUpdate ==
    /\ pc = "intercept"
    /\ intercepted = Interceptors
    /\ readers = {}
    /\ pc' = "update"
    /\ toWrite' \in SUBSET Signals
    /\ wrote' = {}
    /\ UNCHANGED <<mailbox, cur, intercepted, command, signals, model, signalVars, tasks,
                   bounds>>

\* Mutant of WriteSignal: SignalWriter::write, which sets no flag, for update.
WriteSignalClean(s) ==
    /\ pc = "update"
    /\ s \in toWrite
    /\ toWrite' = toWrite \ {s}
    /\ wrote' = wrote \cup {s}
    /\ version' = [version EXCEPT ![s] = @ + 1]
    /\ hostVersion' = [hostVersion EXCEPT ![s] = version[s] + 1]
    /\ UNCHANGED <<mailbox, pc, cur, intercepted, command, signals, model, flushed, dirty,
                   news, seen, tasks, bounds>>

\* Model::update sets one signal.
WriteSignal(s) ==
    /\ pc = "update"
    /\ s \in toWrite
    /\ toWrite' = toWrite \ {s}
    /\ wrote' = wrote \cup {s}
    /\ version' = [version EXCEPT ![s] = @ + 1]
    /\ hostVersion' = [hostVersion EXCEPT ![s] = version[s] + 1]
    /\ dirty' = [dirty EXCEPT ![s] = TRUE]
    /\ UNCHANGED <<mailbox, pc, cur, intercepted, command, signals, model, flushed, news,
                   seen, tasks, bounds>>

\* Model::update returns with or without a command, and the write guard is
\* dropped.  What the command will produce is set aside from the budget.
EndUpdate ==
    /\ pc = "update"
    /\ toWrite = {}
    /\ \/ command' = NoCommand /\ UNCHANGED budget
       \/ \E n \in 0..budget : command' = n /\ budget' = budget - n
    /\ pc' = "accumulate"
    /\ UNCHANGED <<mailbox, cur, intercepted, toWrite, wrote, signals, model, signalVars,
                   tasks, outside>>

\* Mutant of Accumulate: the model forgets its last getter.
AccumulateButLast ==
    /\ pc = "accumulate"
    /\ signals' = signals \o SubSeq(Getters, 1, Len(Getters) - 1)
    /\ pc' = "spawn"
    /\ UNCHANGED <<mailbox, cur, intercepted, toWrite, wrote, command, model, signalVars,
                   tasks, bounds>>

\* __accumulate_signals, as the model macro generates it: one signal per getter
\* of the root model.
Accumulate ==
    /\ pc = "accumulate"
    /\ signals' = signals \o Getters
    /\ pc' = "spawn"
    /\ UNCHANGED <<mailbox, cur, intercepted, toWrite, wrote, command, model, signalVars,
                   tasks, bounds>>

SpawnCommand ==
    /\ pc = "spawn"
    /\ IF command = NoCommand
       THEN UNCHANGED tasks
       ELSE /\ task' = [task EXCEPT ![cur] = "running"]
            /\ left' = [left EXCEPT ![cur] = command]
    /\ pc' = "flush"
    /\ UNCHANGED <<mailbox, handling, model, signalVars, bounds>>

\* Mutant of FlushSignal: front() for pop_front().
FlushSignalFront ==
    /\ pc = "flush"
    /\ signals # <<>>
    /\ LET s == Head(signals) IN
       IF dirty[s]
       THEN /\ dirty' = [dirty EXCEPT ![s] = FALSE]
            /\ flushed' = [flushed EXCEPT ![s] = version[s]]
            /\ news' = [news EXCEPT ![s] = TRUE]
       ELSE UNCHANGED <<dirty, flushed, news>>
    /\ UNCHANGED <<mailbox, pc, handling, model, version, hostVersion, seen, tasks, bounds>>

\* FlushSignals::__flush of the signal in front.
FlushSignal ==
    /\ pc = "flush"
    /\ signals # <<>>
    /\ LET s == Head(signals) IN
       IF dirty[s]
       THEN /\ dirty' = [dirty EXCEPT ![s] = FALSE]
            /\ flushed' = [flushed EXCEPT ![s] = version[s]]
            /\ news' = [news EXCEPT ![s] = TRUE]
       ELSE UNCHANGED <<dirty, flushed, news>>
    /\ signals' = Tail(signals)
    /\ UNCHANGED <<mailbox, pc, cur, intercepted, toWrite, wrote, command, model, version,
                   hostVersion, seen, tasks, bounds>>

FlushDone ==
    /\ pc = "flush"
    /\ signals = <<>>
    /\ pc' = "recv"
    /\ UNCHANGED <<mailbox, handling, model, signalVars, tasks, bounds>>

-----------------------------------------------------------------------------
(* The end of the host's task *)

\* Mutant of UpdatePanics: the guard is dropped as if update had returned.
UpdatePanicsUnpoisoned ==
    /\ pc = "update"
    /\ Mailbox!Die
    /\ pc' = "dead"
    /\ UNCHANGED <<handling, model, signalVars, tasks, bounds>>

\* The write guard is dropped while update panics.
UpdatePanics ==
    /\ pc = "update"
    /\ Mailbox!Die
    /\ pc' = "dead"
    /\ poisoned' = Poisoning
    /\ UNCHANGED <<handling, readers, signalVars, tasks, bounds>>

\* The future of Host::run is dropped where it waits for a message; or an
\* interceptor panics, or a RefCell that somebody reads is asked for a write guard.
HostEnds ==
    /\ pc \in {"recv", "intercept"}
    /\ Mailbox!Die
    /\ pc' = "dead"
    /\ UNCHANGED <<handling, model, signalVars, tasks, bounds>>

\* The spawner panics, as tokio's does outside of a runtime: what update wrote is
\* there to be read, and nothing will flush it.
SpawnPanics ==
    /\ pc = "spawn"
    /\ command # NoCommand
    /\ Mailbox!Die
    /\ pc' = "dead"
    /\ UNCHANGED <<handling, model, signalVars, tasks, bounds>>

-----------------------------------------------------------------------------
(* Command tasks *)

\* Before it produces an item, or ends, the command may read the model through
\* its CommandContext; on a poisoned lock the task panics.
TaskRead(m) ==
    /\ task[m] = "running"
    /\ ~WriteLocked
    /\ IF poisoned
       THEN task' = [task EXCEPT ![m] = "ended"] /\ UNCHANGED readers
       ELSE task' = [task EXCEPT ![m] = "reading"] /\ readers' = readers \cup {m}
    /\ UNCHANGED <<mailbox, pc, handling, poisoned, signalVars, left, bounds>>

TaskRelease(m) ==
    /\ task[m] = "reading"
    /\ task' = [task EXCEPT ![m] = "ready"]
    /\ readers' = readers \ {m}
    /\ UNCHANGED <<mailbox, pc, handling, poisoned, signalVars, left, bounds>>

\* Mutant of TaskSend: a closed channel is waited for instead of given up.
TaskSendWaits(m) ==
    /\ task[m] \in {"running", "ready"}
    /\ left[m] > 0
    /\ Mailbox!Accept(Len(accepted) + 1)
    /\ left' = [left EXCEPT ![m] = @ - 1]
    /\ task' = [task EXCEPT ![m] = "running"]
    /\ UNCHANGED <<pc, handling, model, signalVars, bounds>>

\* Each item of the command's stream is sent to the host; once the host is gone
\* Updater::send panics.
TaskSend(m) ==
    /\ task[m] \in {"running", "ready"}
    /\ left[m] > 0
    /\ IF alive
       THEN /\ Mailbox!Accept(Len(accepted) + 1)
            /\ left' = [left EXCEPT ![m] = @ - 1]
            /\ task' = [task EXCEPT ![m] = "running"]
       ELSE /\ task' = [task EXCEPT ![m] = "ended"]
            /\ UNCHANGED <<mailbox, left>>
    /\ UNCHANGED <<pc, handling, model, signalVars, bounds>>

TaskEnd(m) ==
    /\ task[m] \in {"running", "ready"}
    /\ left[m] = 0
    /\ task' = [task EXCEPT ![m] = "ended"]
    /\ UNCHANGED <<mailbox, pc, handling, model, signalVars, left, bounds>>

-----------------------------------------------------------------------------
(* Everybody else *)

\* A message from outside, through an Updater.
SendMessage ==
    /\ budget > 0
    /\ Mailbox!Accept(Len(accepted) + 1)
    /\ budget' = budget - 1
    /\ UNCHANGED <<pc, handling, model, signalVars, tasks, outside>>

\* ModelBaseReader::read, which panics on a poisoned lock.
ReadModel(r) ==
    /\ r \notin readers
    /\ ~WriteLocked /\ ~poisoned
    /\ readers' = readers \cup {r}
    /\ UNCHANGED <<mailbox, pc, handling, poisoned, signalVars, tasks, bounds>>

ReleaseModel(r) ==
    /\ r \in readers
    /\ readers' = readers \ {r}
    /\ UNCHANGED <<mailbox, pc, handling, poisoned, signalVars, tasks, bounds>>

\* A signal is written through a SignalWriter from a getter's Signal, which
\* takes no lock of the model.
WriteOutside(s) ==
    /\ outside < MaxWrites
    /\ outside' = outside + 1
    /\ version' = [version EXCEPT ![s] = @ + 1]
    /\ dirty' = [dirty EXCEPT ![s] = TRUE]
    /\ UNCHANGED <<mailbox, pc, handling, model, hostVersion, flushed, news, seen, tasks,
                   budget>>

\* Any handle of a signal is dropped, often the writer that update has just
\* used: the subscriber is told a status, and will look at what there is.
DropHandle(s) ==
    /\ news' = [news EXCEPT ![s] = TRUE]
    /\ UNCHANGED <<mailbox, pc, handling, model, version, hostVersion, flushed, dirty, seen,
                   tasks, bounds>>

\* The subscriber takes the status and reads the signal.
Observe(s) ==
    /\ news[s]
    /\ news' = [news EXCEPT ![s] = FALSE]
    /\ seen' = [seen EXCEPT ![s] = version[s]]
    /\ UNCHANGED <<mailbox, pc, handling, model, version, hostVersion, flushed, dirty, tasks,
                   bounds>>

-----------------------------------------------------------------------------
HandleMessage ==
    \/ Recv \/ Intercept \/ BeginUpdate \/ EndUpdate \/ Accumulate \/ SpawnCommand
    \/ FlushSignal \/ FlushDone
    \/ \E s \in Signals : WriteSignal(s)

TaskStep(m) == TaskRelease(m) \/ TaskSend(m) \/ TaskEnd(m)

Next ==
    \/ HandleMessage
    \/ UpdatePanics \/ HostEnds \/ SpawnPanics
    \/ \E m \in Messages : TaskStep(m) \/ TaskRead(m)
    \/ SendMessage
    \/ \E r \in Readers : ReadModel(r) \/ ReleaseModel(r)
    \/ \E s \in Signals : WriteOutside(s) \/ DropHandle(s) \/ Observe(s)

Spec == Init /\ [][Next]_vars

\* The executor polls every task that can go on, and update and the interceptors
\* return.  A read guard is not kept for ever.  The host gets the write guard
\* though others keep reading: std's lock lets no new reader in front of a
\* waiting writer.  Nobody has to send, to write or to die.
Fairness ==
    /\ WF_vars(HandleMessage)
    /\ SF_vars(BeginUpdate)
    /\ \A m \in Messages : WF_vars(TaskStep(m))
    /\ \A r \in Readers : WF_vars(ReleaseModel(r))
    /\ \A s \in Signals : WF_vars(Observe(s))

FairSpec == Spec /\ Fairness

-----------------------------------------------------------------------------
(* Properties *)

\* Whoever reads the model through a guard sees whole updates: never one that
\* is half-way, not even one that panicked half-way, though the host's task is
\* gone by then and the model lives on in its readers (host.rs,
\* handle_message; maybe.rs, unwrap_lock).
NoTornRead == readers # {} => ~(wrote # {} /\ toWrite # {})

\* What update wrote to a signal with a getter is announced before the next
\* message is taken, whoever else writes that signal meanwhile.
AnnouncedBeforeNext ==
    pc = "recv" => \A s \in Range(Getters) : hostVersion[s] <= flushed[s]

\* What is owed to the subscribers: what the last update that finished wrote to
\* signals with a getter and what has not been flushed since.
Owed ==
    IF pc \in {"update", "dead"} THEN {}
    ELSE {s \in Range(Getters) : hostVersion[s] > flushed[s]}

\* The host's loop, the lock of the model and the queue of signals to flush
\* implement what the architecture promises: whole changes, one at a time, each
\* announced before the next message and before the host can end, except that a
\* command that cannot be started ends the host with nothing of its message
\* announced (host.rs, run_once, handle_message; spawner.rs).
MvuOf == INSTANCE Mvu WITH
    accepted <- Len(accepted),
    Signals <- Range(Getters),
    Readers <- Readers \cup Messages,
    pending <- pc \in {"intercept", "update"},
    starting <- pc \in {"accumulate", "spawn"},
    owed <- Owed,
    readable <- ~poisoned
ImplementsMvu == MvuOf!Spec

\* What update wrote to a signal with a getter reaches its subscriber, unless
\* the host dies.
UpdatesReachSubscribers ==
    \A s \in Range(Getters) : \A v \in Versions :
        (hostVersion[s] = v) ~> (seen[s] >= v \/ pc = "dead")

\* Every message is handled, however many the commands send back, unless the
\* host dies.
AcceptedIsHandled ==
    \A n \in Messages : (Len(accepted) = n) ~> (taken >= n \/ pc = "dead")

\* Every command ends that has nothing more to produce, with or without a host.
CommandsEnd == \A m \in Messages : task[m] \notin {"none", "ended"} ~> task[m] = "ended"
=============================================================================
