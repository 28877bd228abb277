----------------------------- MODULE Dispatcher -----------------------------
(***************************************************************************)
(* The updaters of src/base/src/dispatcher.rs and the host's end of their  *)
(* channel (src/base/src/host.rs): every Updater owns a Sender of one      *)
(* bounded channel, of which Host owns the Receiver, and one more Updater. *)
(*                                                                         *)
(* Updater::try_send is a future of two steps (SinkExt::send): the message *)
(* is fed to the channel once the sender is ready, and then the sender is  *)
(* flushed, which means that it is not, or no longer, parked.  The caller  *)
(* may drop the future in between.                                         *)
(*                                                                         *)
(* A message is the updater it is sent through and its number; the mapper  *)
(* that wraps it for the root model is fixed when the updater is made, so  *)
(* the updater stands for it.                                              *)
(***************************************************************************)
EXTENDS BoundedChannel, FiniteSets

CONSTANTS
    Updaters,       \* the updaters that may exist
    HostUpdater,    \* the one in Host.updater
    Buffers,        \* the values that HostBuilder.buffer_size may have
    MaxSends        \* bound on the messages sent through one updater

ASSUME UpdatersAssumption == IsFiniteSet(Updaters)
ASSUME HostUpdaterAssumption == HostUpdater \in Updaters
ASSUME BuffersAssumption == Buffers \subseteq Nat
ASSUME MaxSendsAssumption == MaxSends \in Nat

VARIABLES
    buffer,     \* HostBuilder.buffer_size, the buffer of the channel
    ch,         \* the channel between the updaters and Host.message_rx
    up,         \* up[u]: the state of updater u
    sent,       \* sent[u]: how many sends were started on u
    alive,      \* the host's task runs
    handled,    \* history: the messages the host took, in order
    lost,       \* history: the messages queued when the host died
    acked,      \* history: the messages whose try_send returned Ok
    failed      \* history: the messages whose try_send returned HostChannelClosed

vars == <<buffer, ch, up, sent, alive, handled, lost, acked, failed>>

Messages == [from : Updaters, n : 1..MaxSends]
UpdaterStates == {"none", "idle", "feeding", "flushing", "dropped"}

\* The message that u is sending, or sent last.
Current(u) == [from |-> u, n |-> sent[u]]

Sending(u) == up[u] \in {"feeding", "flushing"}

TypeOK ==
    /\ buffer \in Buffers
    /\ ch \in Channels(Messages, Updaters)
    /\ up \in [Updaters -> UpdaterStates]
    /\ sent \in [Updaters -> 0..MaxSends]
    /\ alive \in BOOLEAN
    /\ handled \in Seq(Messages)
    /\ lost \subseteq Messages
    /\ acked \subseteq Messages
    /\ failed \subseteq Messages

\* HostBuilder::build: the channel and the host's own updater.
Init ==
    /\ buffer \in Buffers
    /\ ch = EmptyChannel
    /\ up = [u \in Updaters |-> IF u = HostUpdater THEN "idle" ELSE "none"]
    /\ sent = [u \in Updaters |-> 0]
    /\ alive = TRUE
    /\ handled = <<>>
    /\ lost = {}
    /\ acked = {}
    /\ failed = {}

-----------------------------------------------------------------------------
(* Making and dropping updaters *)

\* Updater::clone, Host::updater, CommandContext::clone.  A clone's sender is
\* new: it is not parked, whatever its original waits for.  try_send borrows
\* its updater mutably, so one that is sending is not cloned.
CloneUpdater(u, v) ==
    /\ up[u] = "idle" /\ up[v] = "none"
    /\ up' = [up EXCEPT ![v] = "idle"]
    /\ UNCHANGED <<buffer, ch, sent, alive, handled, lost, acked, failed>>

\* Updater::zoom consumes its updater: the sender is cloned, then dropped.
Zoom(u, v) ==
    /\ u # HostUpdater
    /\ up[u] = "idle" /\ up[v] = "none"
    /\ up' = [up EXCEPT ![u] = "dropped", ![v] = "idle"]
    /\ UNCHANGED <<buffer, ch, sent, alive, handled, lost, acked, failed>>

DropUpdater(u) ==
    /\ u # HostUpdater
    /\ up[u] = "idle"
    /\ up' = [up EXCEPT ![u] = "dropped"]
    /\ UNCHANGED <<buffer, ch, sent, alive, handled, lost, acked, failed>>

-----------------------------------------------------------------------------
(* Updater::try_send and Updater::send *)

\* The host never sends through its own updater, it only clones it.
StartSend(u) ==
    /\ u # HostUpdater
    /\ up[u] = "idle"
    /\ sent[u] < MaxSends
    /\ sent' = [sent EXCEPT ![u] = @ + 1]
    /\ up' = [up EXCEPT ![u] = "feeding"]
    /\ UNCHANGED <<buffer, ch, alive, handled, lost, acked, failed>>

\* Mutant of Feed: the message is sent without waiting for poll_ready.
FeedUnready(u) ==
    /\ up[u] = "feeding"
    /\ ch.open
    /\ ch' = Push(ch, u, Current(u), buffer)
    /\ up' = [up EXCEPT ![u] = "flushing"]
    /\ UNCHANGED <<buffer, sent, alive, handled, lost, acked, failed>>

Feed(u) ==
    /\ up[u] = "feeding"
    /\ CanSend(ch, u)
    /\ ch' = Push(ch, u, Current(u), buffer)
    /\ up' = [up EXCEPT ![u] = "flushing"]
    /\ UNCHANGED <<buffer, sent, alive, handled, lost, acked, failed>>

\* Mutant of FeedClosed: the error is swallowed.
FeedClosedOk(u) ==
    /\ up[u] = "feeding"
    /\ ~ch.open
    /\ acked' = acked \cup {Current(u)}
    /\ \E next \in {"idle", "dropped"} : up' = [up EXCEPT ![u] = next]
    /\ UNCHANGED <<buffer, ch, sent, alive, handled, lost, failed>>

\* The host is gone: try_send returns HostChannelClosed and leaves the updater
\* usable, send panics and takes the updater with it.
FeedClosed(u) ==
    /\ up[u] = "feeding"
    /\ ~ch.open
    /\ failed' = failed \cup {Current(u)}
    /\ \E next \in {"idle", "dropped"} : up' = [up EXCEPT ![u] = next]
    /\ UNCHANGED <<buffer, ch, sent, alive, handled, lost, acked>>

\* Mutant of Flushed: a channel that closes during the flush is an error.
FlushedOrClosed(u) ==
    /\ up[u] = "flushing"
    /\ ~IsParked(ch, u)
    /\ IF ch.open
       THEN acked' = acked \cup {Current(u)} /\ UNCHANGED failed
       ELSE failed' = failed \cup {Current(u)} /\ UNCHANGED acked
    /\ up' = [up EXCEPT ![u] = "idle"]
    /\ UNCHANGED <<buffer, ch, sent, alive, handled, lost>>

\* The sender is not parked (any more), or the channel is closed, which counts
\* as flushed: Ok does not mean that the message was or will be handled.
Flushed(u) ==
    /\ up[u] = "flushing"
    /\ ~IsParked(ch, u)
    /\ acked' = acked \cup {Current(u)}
    /\ up' = [up EXCEPT ![u] = "idle"]
    /\ UNCHANGED <<buffer, ch, sent, alive, handled, lost, failed>>

\* Mutant of CancelSend: the caller's retry sends the same message once more.
CancelAndRetry(u) ==
    /\ Sending(u)
    /\ up' = [up EXCEPT ![u] = "feeding"]
    /\ UNCHANGED <<buffer, ch, sent, alive, handled, lost, acked, failed>>

\* The future is dropped, by a timeout or a select: before Feed the message is
\* gone, after it the message stays in the queue.
CancelSend(u) ==
    /\ Sending(u)
    /\ up' = [up EXCEPT ![u] = "idle"]
    /\ UNCHANGED <<buffer, ch, sent, alive, handled, lost, acked, failed>>

-----------------------------------------------------------------------------
(* The host *)

\* Mutant of Recv: the message is looked at and left in the queue.
RecvPeek ==
    /\ alive
    /\ ch.msgs # <<>>
    /\ handled' = Append(handled, Head(ch.msgs))
    /\ UNCHANGED <<buffer, ch, up, sent, alive, lost, acked, failed>>

\* Host::run_once, handle_message included.
Recv ==
    /\ alive
    /\ ch.msgs # <<>>
    /\ handled' = Append(handled, Head(ch.msgs))
    /\ ch' = Pop(ch)
    /\ UNCHANGED <<buffer, up, sent, alive, lost, acked, failed>>

\* Mutant of Die: the parked senders are not woken.
DieUnnoticed ==
    /\ alive
    /\ alive' = FALSE
    /\ lost' = Range(ch.msgs)
    /\ ch' = [ch EXCEPT !.msgs = <<>>, !.open = FALSE]
    /\ up' = [up EXCEPT ![HostUpdater] = "dropped"]
    /\ UNCHANGED <<buffer, sent, handled, acked, failed>>

\* The host's task ends: the future of Host::run is dropped, or update, an
\* interceptor or the spawner panics.  Host is dropped with its updater and the Receiver.
Die ==
    /\ alive
    /\ alive' = FALSE
    /\ lost' = Range(ch.msgs)
    /\ ch' = CloseChannel(ch)
    /\ up' = [up EXCEPT ![HostUpdater] = "dropped"]
    /\ UNCHANGED <<buffer, sent, handled, acked, failed>>

-----------------------------------------------------------------------------
Next ==
    \/ \E u, v \in Updaters : CloneUpdater(u, v) \/ Zoom(u, v)
    \/ \E u \in Updaters :
        \/ DropUpdater(u) \/ StartSend(u) \/ CancelSend(u)
        \/ Feed(u) \/ FeedClosed(u) \/ Flushed(u)
    \/ Recv
    \/ Die

Spec == Init /\ [][Next]_vars

\* The executor polls a task that can go on: a send that is neither waiting nor
\* dropped, and the host's loop, whose update always returns.  Nobody has to
\* start, cancel or drop anything.
Fairness ==
    /\ \A u \in Updaters : WF_vars(Feed(u)) /\ WF_vars(FeedClosed(u)) /\ WF_vars(Flushed(u))
    /\ WF_vars(Recv)

FairSpec == Spec /\ Fairness

-----------------------------------------------------------------------------
(* Properties *)

\* What the host took and what it will take if it lives.
Accepted == handled \o ch.msgs

\* Each sender gets one message past the buffer, so the queue is bounded by the
\* updaters that were ever made, and no sender is parked twice.
BackpressureBound ==
    /\ Len(ch.msgs) <= buffer + Cardinality({u \in Updaters : up[u] # "none"})
    /\ \A i, j \in DOMAIN ch.parked : ch.parked[i] = ch.parked[j] => i = j

\* Messages of one updater are handled in the order they were sent, none twice,
\* though sends are cancelled half-way and other updaters' messages are
\* queued in between (dispatcher.rs, Updater::try_send).
FifoPerUpdater ==
    \A i, j \in DOMAIN Accepted :
        i < j /\ Accepted[i].from = Accepted[j].from => Accepted[i].n < Accepted[j].n

\* Every message that ever entered the queue.
Known == Range(handled) \cup Range(ch.msgs) \cup lost

\* A send that returned Ok is handled, or waits to be, or was queued when the
\* host died.
AckedAccepted == acked \subseteq Known

\* A send that returned HostChannelClosed never reached the queue: whoever sends
\* it again duplicates nothing.
FailedNeverAccepted == failed \cap Known = {}

\* Every send ends: nobody starves among the parked senders, and a host that
\* dies releases them all.
EverySendEnds == \A u \in Updaters : Sending(u) ~> ~Sending(u)

\* The channel implements the mailbox.
MailboxOf == INSTANCE Mailbox WITH accepted <- Accepted, taken <- Len(handled)
ImplementsMailbox == MailboxOf!Spec

\* The host stops when nobody can send to it any more: with every updater that
\* was handed out dropped and the queue empty, the Receiver is at its end, so
\* that run_once breaks and "host is stopping" is logged (host.rs, run).
ReceiverAtEnd ==
    ch.msgs = <<>> /\ \A u \in Updaters : up[u] \in {"none", "dropped"}

StopsWhenUnused ==
    LET handedOut == {u \in Updaters \ {HostUpdater} : up[u] # "none"} IN
    /\ handedOut # {}
    /\ \A u \in handedOut : up[u] = "dropped"
    /\ ch.msgs = <<>>
    => ReceiverAtEnd
=============================================================================
