--------------------------- MODULE BoundedChannel ---------------------------
(***************************************************************************)
(* The bounded channel of futures::channel::mpsc, as emyu uses it: the     *)
(* host's message queue (host.rs, HostBuilder::build) and the status queue *)
(* of every signal subscriber (base.rs, Signal::subscribe).  The crate is  *)
(* not part of the repository; these operators state the contract the code *)
(* under src/ relies on.                                                   *)
(*                                                                         *)
(* A channel of mpsc::channel(buffer) holds at most buffer + #senders      *)
(* messages: a sender whose message overflows the buffer is parked until   *)
(* the receiver has taken one message for it, and a parked sender can      *)
(* neither send nor try_send.                                              *)
(***************************************************************************)
EXTENDS Naturals, Sequences, Functions

\* msgs: what was sent and not yet received, oldest first.
\* parked: the senders waiting for room, the first to be released first.
\* open: the receiver has been neither closed nor dropped.
Channels(Msg, Sender) ==
    [msgs : Seq(Msg), parked : Seq(Sender), open : BOOLEAN]

EmptyChannel == [msgs |-> <<>>, parked |-> <<>>, open |-> TRUE]

IsParked(ch, s) == s \in Range(ch.parked)

\* A message enters the queue; past the buffer its sender is parked.
Push(ch, s, m, buffer) ==
    [msgs |-> Append(ch.msgs, m),
     parked |-> IF Len(ch.msgs) >= buffer THEN Append(ch.parked, s) ELSE ch.parked,
     open |-> ch.open]

\* Sender::poll_ready.
CanSend(ch, s) == ch.open /\ ~IsParked(ch, s)

\* Sender::try_send with the error thrown away, as in `try_send(..).ok()`.
TrySend(ch, s, m, buffer) ==
    IF CanSend(ch, s) THEN Push(ch, s, m, buffer) ELSE ch

\* Receiver::next on a queue that is not empty: one parked sender is released.
Pop(ch) ==
    [msgs |-> Tail(ch.msgs),
     parked |-> IF ch.parked = <<>> THEN <<>> ELSE Tail(ch.parked),
     open |-> ch.open]

\* Drop of the Receiver: the channel closes, every parked sender is released
\* and what was queued is dropped.
CloseChannel(ch) == [msgs |-> <<>>, parked |-> <<>>, open |-> FALSE]

\* As many senders are parked as messages are queued past the buffer.
WellFormed(ch, buffer) ==
    Len(ch.parked) = IF Len(ch.msgs) > buffer THEN Len(ch.msgs) - buffer ELSE 0
=============================================================================
