-------------------------- MODULE DispatcherProofs --------------------------
(***************************************************************************)
(* Delivery through the host's channel, for any number of updaters, any    *)
(* buffer and any number of sends: what an updater is told about a send is *)
(* true, its messages keep their order, and the channel implements Mailbox.*)
(***************************************************************************)
EXTENDS Dispatcher, BoundedChannelProofs, SequenceTheorems, FunctionTheorems,
        FiniteSetTheorems

\* The channel is open as long as the host lives, and empty afterwards; only a
\* host that died has lost anything.
ChannelOfHost ==
    /\ WellFormed(ch, buffer)
    /\ ch.open = alive
    /\ ~alive => ch.msgs = <<>>
    /\ alive => lost = {}

\* A send that has begun has a number.
SendsNumbered == \A u \in Updaters : Sending(u) => sent[u] > 0

\* Whatever reached the queue, or was refused, is a send that was started, and
\* none of them is the one its updater is about to feed.
OnlyFinished ==
    \A m \in Known \cup failed :
        /\ m.n <= sent[m.from]
        /\ up[m.from] = "feeding" => m.n < sent[m.from]

\* An updater that flushes has its message in the queue, or had.
FlushingKnown == \A u \in Updaters : up[u] = "flushing" => Current(u) \in Known

IInv ==
    /\ TypeOK
    /\ ChannelOfHost
    /\ SendsNumbered
    /\ OnlyFinished
    /\ FlushingKnown
    /\ FifoPerUpdater
    /\ AckedAccepted
    /\ FailedNeverAccepted

-----------------------------------------------------------------------------
(* Sequences *)

\* What a sequence holds after a message is appended to it.
LEMMA RangeOfAppend ==
    ASSUME NEW S, NEW seq \in Seq(S), NEW m \in S
    PROVE  Range(Append(seq, m)) = Range(seq) \cup {m}
  <1>1. /\ Append(seq, m) \in Seq(S)
        /\ Len(Append(seq, m)) = Len(seq) + 1
        /\ \A i \in 1..Len(seq) : Append(seq, m)[i] = seq[i]
        /\ Append(seq, m)[Len(seq) + 1] = m
    BY AppendProperties
  <1>2. /\ DOMAIN seq = 1..Len(seq) /\ Len(seq) \in Nat
        /\ DOMAIN Append(seq, m) = 1..(Len(seq) + 1)
    BY <1>1, LenProperties
  <1> QED
    BY <1>1, <1>2 DEF Range

\* What a queue holds is its first message and the rest.
LEMMA RangeOfHeadTail ==
    ASSUME NEW S, NEW seq \in Seq(S), seq # <<>>
    PROVE  /\ Range(seq) = {Head(seq)} \cup Range(Tail(seq))
           /\ Head(seq) \in S
           /\ Tail(seq) \in Seq(S)
  <1>1. /\ Head(seq) \in S
        /\ Tail(seq) \in Seq(S)
        /\ Len(Tail(seq)) = Len(seq) - 1
        /\ \A i \in 1..Len(Tail(seq)) : Tail(seq)[i] = seq[i + 1]
    BY HeadTailProperties
  <1>2. /\ DOMAIN seq = 1..Len(seq)
        /\ Len(seq) \in Nat \ {0}
        /\ DOMAIN Tail(seq) = 1..(Len(seq) - 1)
    BY <1>1, LenProperties, EmptySeq
  <1>3. Head(seq) = seq[1]
    OBVIOUS
  <1>4. \A i \in 1..Len(seq) : i = 1 \/ (i - 1 \in 1..(Len(seq) - 1) /\ seq[i] = Tail(seq)[i - 1])
    BY <1>1, <1>2
  <1>5. Range(seq) \subseteq {Head(seq)} \cup Range(Tail(seq))
    <2> SUFFICES ASSUME NEW i \in 1..Len(seq)
                 PROVE  seq[i] = Head(seq) \/ \E j \in DOMAIN Tail(seq) : seq[i] = Tail(seq)[j]
      BY <1>2 DEF Range
    <2> QED
      BY <1>2, <1>3, <1>4
  <1>6. Range(Tail(seq)) \subseteq Range(seq)
    <2> SUFFICES ASSUME NEW j \in 1..(Len(seq) - 1)
                 PROVE  \E i \in DOMAIN seq : seq[i] = Tail(seq)[j]
      BY <1>2 DEF Range
    <2>1. j + 1 \in DOMAIN seq /\ Tail(seq)[j] = seq[j + 1]
      BY <1>1, <1>2
    <2> QED
      BY <2>1
  <1>7. Head(seq) \in Range(seq)
    <2>1. 1 \in DOMAIN seq
      BY <1>2
    <2> QED
      BY <1>3, <2>1 DEF Range
  <1> QED
    BY <1>1, <1>5, <1>6, <1>7

\* Appending to the second of two sequences appends to their concatenation.
LEMMA ConcatAppend ==
    ASSUME NEW S, NEW s \in Seq(S), NEW t \in Seq(S), NEW m \in S
    PROVE  s \o Append(t, m) = Append(s \o t, m)
  <1>1. <<m>> \in Seq(S) /\ s \o t \in Seq(S)
    BY ConcatProperties
  <1>2. Append(t, m) = t \o <<m>> /\ Append(s \o t, m) = (s \o t) \o <<m>>
    BY <1>1, AppendIsConcat
  <1> QED
    BY <1>1, <1>2, ConcatAssociative

\* Moving the head of one sequence to the end of another keeps the concatenation.
LEMMA ConcatMoveHead ==
    ASSUME NEW S, NEW s \in Seq(S), NEW t \in Seq(S), t # <<>>
    PROVE  Append(s, Head(t)) \o Tail(t) = s \o t
  <1>1. /\ Head(t) \in S /\ Tail(t) \in Seq(S) /\ Len(Tail(t)) = Len(t) - 1
        /\ \A i \in 1..Len(Tail(t)) : Tail(t)[i] = t[i + 1]
    BY HeadTailProperties
  <1>2. /\ Append(s, Head(t)) \in Seq(S)
        /\ Len(Append(s, Head(t))) = Len(s) + 1
        /\ \A i \in 1..Len(s) : Append(s, Head(t))[i] = s[i]
        /\ Append(s, Head(t))[Len(s) + 1] = Head(t)
    BY <1>1, AppendProperties
  <1>3. Len(s) \in Nat /\ Len(t) \in Nat \ {0} /\ Head(t) = t[1]
    BY LenProperties, EmptySeq
  <1> DEFINE a == Append(s, Head(t)) \o Tail(t)
             b == s \o t
  <1>4. /\ a \in Seq(S) /\ Len(a) = Len(s) + Len(t)
        /\ \A i \in 1..(Len(s) + Len(t)) :
             a[i] = IF i <= Len(s) + 1 THEN Append(s, Head(t))[i] ELSE Tail(t)[i - (Len(s) + 1)]
    <2>1. Len(Append(s, Head(t))) + Len(Tail(t)) = Len(s) + Len(t)
      BY <1>1, <1>2, <1>3
    <2> QED
      BY <1>1, <1>2, <2>1, ConcatProperties
  <1>5. /\ b \in Seq(S) /\ Len(b) = Len(s) + Len(t)
        /\ \A i \in 1..(Len(s) + Len(t)) : b[i] = IF i <= Len(s) THEN s[i] ELSE t[i - Len(s)]
    BY ConcatProperties
  <1> HIDE DEF a, b
  <1>6. \A i \in 1..Len(a) : a[i] = b[i]
    <2> SUFFICES ASSUME NEW i \in 1..(Len(s) + Len(t)) PROVE a[i] = b[i]
      BY <1>4
    <2>1. CASE i <= Len(s)
      BY <1>2, <1>3, <1>4, <1>5, <2>1
    <2>2. CASE i = Len(s) + 1
      BY <1>2, <1>3, <1>4, <1>5, <2>2
    <2>3. CASE i > Len(s) + 1
      <3>1. /\ i - (Len(s) + 1) \in 1..Len(Tail(t))
            /\ i - (Len(s) + 1) + 1 = i - Len(s)
        BY <1>1, <1>3, <2>3
      <3> QED
        BY <1>1, <1>3, <1>4, <1>5, <2>3, <3>1
    <2> QED
      BY <1>3, <2>1, <2>2, <2>3
  <1>7. a = b
    BY <1>4, <1>5, <1>6, SeqEqual
  <1> QED
    BY <1>7 DEF a, b

-----------------------------------------------------------------------------
(* The invariant *)

\* The host's end of the channel is open and empty before anything is sent.
LEMMA InitIInv == Init => IInv
  <1> SUFFICES ASSUME Init PROVE IInv
    OBVIOUS
  <1> USE DEF Init
  <1>1. /\ EmptyChannel \in Channels(Messages, Updaters)
        /\ WellFormed(EmptyChannel, buffer)
        /\ EmptyChannel.open
        /\ EmptyChannel.msgs = <<>>
    BY EmptyChannelFacts, BuffersAssumption DEF EmptyChannel
  <1>2. TypeOK
    BY <1>1, MaxSendsAssumption DEF TypeOK, UpdaterStates
  <1>3. Known = {} /\ failed = {} /\ acked = {}
    BY <1>1 DEF Known, Range
  <1>4. Accepted = <<>>
    BY <1>1, ConcatEmptySeq DEF Accepted
  <1>5. ChannelOfHost
    BY <1>1 DEF ChannelOfHost
  <1>6. SendsNumbered /\ FlushingKnown
    BY DEF SendsNumbered, FlushingKnown, Sending
  <1>7. OnlyFinished /\ AckedAccepted /\ FailedNeverAccepted
    BY <1>3 DEF OnlyFinished, AckedAccepted, FailedNeverAccepted
  <1>8. FifoPerUpdater
    BY <1>4 DEF FifoPerUpdater
  <1> QED
    BY <1>2, <1>5, <1>6, <1>7, <1>8 DEF IInv

\* Whatever was queued, handled, lost or refused is a message.
LEMMA KnownMessages ==
    ASSUME IInv
    PROVE  \A k \in Known \cup failed : k \in Messages /\ k.from \in Updaters /\ k.n \in Nat
  <1>1. /\ ch.msgs \in Seq(Messages) /\ handled \in Seq(Messages)
        /\ lost \subseteq Messages /\ failed \subseteq Messages
    BY DEF IInv, TypeOK, Channels
  <1>2. Range(ch.msgs) \subseteq Messages /\ Range(handled) \subseteq Messages
    BY <1>1, RangeOfSeq
  <1>3. Known \cup failed \subseteq Messages
    BY <1>1, <1>2 DEF Known
  <1> QED
    BY <1>3, MaxSendsAssumption DEF Messages

\* Steps that touch neither the queue nor the numbers and let no updater begin
\* to feed or to flush keep what the invariant says of the messages.
LEMMA QuietStep ==
    ASSUME IInv, TypeOK',
           UNCHANGED <<buffer, ch, sent, alive, handled, lost, failed>>,
           acked' = acked,
           \A u \in Updaters : up'[u] \in {up[u], "idle", "dropped"}
    PROVE  IInv'
  <1> USE DEF IInv
  <1>1. Known' = Known /\ Accepted' = Accepted
    BY DEF Known, Accepted
  <1>2. ChannelOfHost'
    BY DEF ChannelOfHost
  <1>3. SendsNumbered'
    BY DEF SendsNumbered, Sending
  <1>4. OnlyFinished'
    <2> SUFFICES ASSUME NEW m \in Known \cup failed
                 PROVE  m.n <= sent[m.from] /\ (up'[m.from] = "feeding" => m.n < sent[m.from])
      BY <1>1 DEF OnlyFinished
    <2>1. m.from \in Updaters
      BY KnownMessages
    <2> QED
      BY <2>1 DEF OnlyFinished
  <1>5. FlushingKnown'
    BY <1>1 DEF FlushingKnown, Current
  <1>6. FifoPerUpdater' /\ AckedAccepted' /\ FailedNeverAccepted'
    BY <1>1 DEF FifoPerUpdater, AckedAccepted, FailedNeverAccepted
  <1> QED
    BY <1>2, <1>3, <1>4, <1>5, <1>6

\* Updaters are made, zoomed, dropped and their sends cancelled without a
\* message entering or leaving the queue.
LEMMA UpdaterStep ==
    ASSUME IInv, NEW u \in Updaters, NEW v \in Updaters,
           CloneUpdater(u, v) \/ Zoom(u, v) \/ DropUpdater(u) \/ CancelSend(u)
    PROVE  IInv'
  <1>1. TypeOK'
    BY DEF IInv, TypeOK, CloneUpdater, Zoom, DropUpdater, CancelSend, UpdaterStates
  <1>2. \A w \in Updaters : up'[w] \in {up[w], "idle", "dropped"}
    BY DEF IInv, TypeOK, CloneUpdater, Zoom, DropUpdater, CancelSend
  <1>3. UNCHANGED <<buffer, ch, sent, alive, handled, lost, failed>> /\ acked' = acked
    BY DEF CloneUpdater, Zoom, DropUpdater, CancelSend
  <1> QED
    BY <1>1, <1>2, <1>3, QuietStep

\* A send takes a number that no message bears.
LEMMA StartSendStep ==
    ASSUME IInv, NEW u \in Updaters, StartSend(u)
    PROVE  IInv'
  <1> USE DEF IInv, StartSend
  <1>1. TypeOK'
    BY MaxSendsAssumption DEF TypeOK, UpdaterStates
  <1>2. Known' = Known /\ Accepted' = Accepted
    BY DEF Known, Accepted
  <1>3. ChannelOfHost'
    BY DEF ChannelOfHost
  <1>4. SendsNumbered'
    BY MaxSendsAssumption DEF SendsNumbered, Sending, TypeOK
  <1>5. OnlyFinished'
    <2> SUFFICES ASSUME NEW m \in Known \cup failed
                 PROVE  m.n <= sent'[m.from] /\ (up'[m.from] = "feeding" => m.n < sent'[m.from])
      BY <1>2 DEF OnlyFinished
    <2>1. m.from \in Updaters /\ m.n \in Nat
      BY KnownMessages
    <2>2. /\ m.n <= sent[m.from] /\ (up[m.from] = "feeding" => m.n < sent[m.from])
          /\ sent[m.from] \in Nat
      BY <2>1, MaxSendsAssumption DEF OnlyFinished, TypeOK
    <2> QED
      BY <2>1, <2>2 DEF TypeOK
  <1>6. FlushingKnown'
    BY <1>2 DEF FlushingKnown, Current, TypeOK
  <1>7. FifoPerUpdater' /\ AckedAccepted' /\ FailedNeverAccepted'
    BY <1>2 DEF FifoPerUpdater, AckedAccepted, FailedNeverAccepted
  <1> QED
    BY <1>1, <1>3, <1>4, <1>5, <1>6, <1>7

\* A send that is under way bears a proper message.
LEMMA CurrentMessage ==
    ASSUME IInv, NEW u \in Updaters, Sending(u)
    PROVE  Current(u) \in Messages
  BY MaxSendsAssumption DEF IInv, SendsNumbered, Current, Messages, TypeOK

\* The message that is fed is the last of its updater, so the order is kept;
\* it was neither queued nor refused before.
LEMMA FeedStep ==
    ASSUME IInv, NEW u \in Updaters, Feed(u)
    PROVE  /\ IInv'
           /\ Accepted' = Append(Accepted, Current(u))
           /\ Current(u) \in Messages
           /\ alive
  <1> USE DEF IInv
  <1> DEFINE m == Current(u)
  <1>1. m \in Messages
    BY CurrentMessage DEF Feed, Sending
  <1>2. /\ m.from = u /\ m.n = sent[u] /\ sent[u] \in Nat
    BY MaxSendsAssumption DEF Current, TypeOK
  <1>3. /\ ch \in Channels(Messages, Updaters) /\ WellFormed(ch, buffer)
        /\ ch.msgs \in Seq(Messages) /\ handled \in Seq(Messages)
    BY DEF TypeOK, ChannelOfHost, Channels
  <1>4. ch' = Push(ch, u, m, buffer) /\ ch.open /\ up[u] = "feeding"
    BY DEF Feed, CanSend
  <1> HIDE DEF m
  <1>5. /\ ch' \in Channels(Messages, Updaters)
        /\ WellFormed(ch', buffer)
        /\ ch'.open = ch.open
    <2>1. /\ Push(ch, u, m, buffer) \in Channels(Messages, Updaters)
          /\ WellFormed(Push(ch, u, m, buffer), buffer)
          /\ Push(ch, u, m, buffer).open = ch.open
      BY <1>1, <1>3, PushFacts, BuffersAssumption DEF TypeOK
    <2> QED
      BY <1>4, <2>1
  <1>6. ch'.msgs = Append(ch.msgs, m)
    BY <1>4 DEF Push
  <1>7. Known' = Known \cup {m}
    BY <1>1, <1>3, <1>6, RangeOfAppend DEF Known, Feed
  <1>8. Accepted' = Append(Accepted, m)
    BY <1>1, <1>3, <1>6, ConcatAppend DEF Accepted, Feed
  <1>9. Accepted \in Seq(Messages)
    BY <1>3, ConcatProperties DEF Accepted
  <1>10. /\ up' = [up EXCEPT ![u] = "flushing"]
         /\ UNCHANGED <<buffer, sent, alive, handled, lost, acked, failed>>
    BY DEF Feed
  <1>11. TypeOK'
    BY <1>5, <1>10 DEF TypeOK, UpdaterStates
  <1>12. ChannelOfHost' /\ alive
    BY <1>4, <1>5, <1>10 DEF ChannelOfHost
  <1>13. SendsNumbered'
    BY <1>4, <1>10 DEF SendsNumbered, Sending, TypeOK
  <1>14. \A k \in Known \cup failed : k \in Messages /\ k.from \in Updaters /\ k.n \in Nat
    BY KnownMessages
  <1>15. OnlyFinished'
    <2> SUFFICES ASSUME NEW k \in Known \cup failed \cup {m}
                 PROVE  k.n <= sent[k.from] /\ (up'[k.from] = "feeding" => k.n < sent[k.from])
      BY <1>7, <1>10 DEF OnlyFinished
    <2>1. CASE k = m
      BY <1>2, <1>10, <2>1 DEF TypeOK
    <2>2. CASE k \in Known \cup failed
      BY <1>10, <1>14, <2>2 DEF OnlyFinished, TypeOK
    <2> QED
      BY <2>1, <2>2
  <1>16. FlushingKnown'
    <2> SUFFICES ASSUME NEW v \in Updaters, up'[v] = "flushing" PROVE Current(v) \in Known'
      BY <1>10 DEF FlushingKnown, Current
    <2>1. CASE v = u
      BY <1>7, <2>1 DEF m
    <2>2. CASE v # u
      BY <1>7, <1>10, <2>2 DEF FlushingKnown, TypeOK
    <2> QED
      BY <2>1, <2>2
  <1>17. AckedAccepted'
    BY <1>7, <1>10 DEF AckedAccepted
  <1>18. \A k \in Known \cup failed : k.from = u => k.n < sent[u]
    BY <1>4 DEF OnlyFinished
  <1>19. FailedNeverAccepted'
    <2>1. m \notin failed
      BY <1>2, <1>18
    <2> QED
      BY <1>7, <1>10, <2>1 DEF FailedNeverAccepted
  <1>20. FifoPerUpdater'
    <2>1. /\ DOMAIN Accepted = 1..Len(Accepted) /\ Len(Accepted) \in Nat
          /\ DOMAIN Accepted' = 1..(Len(Accepted) + 1)
          /\ \A i \in 1..Len(Accepted) : Accepted'[i] = Accepted[i]
          /\ Accepted'[Len(Accepted) + 1] = m
      BY <1>1, <1>8, <1>9, AppendProperties, LenProperties
    <2>2. \A i \in DOMAIN Accepted : Accepted[i] \in Known
      <3>1. Range(Accepted) = Range(handled) \cup Range(ch.msgs)
        BY <1>3, RangeConcatenation DEF Accepted
      <3> QED
        BY <3>1 DEF Range, Known
    <2> SUFFICES ASSUME NEW i \in DOMAIN Accepted', NEW j \in DOMAIN Accepted',
                        i < j, Accepted'[i].from = Accepted'[j].from
                 PROVE  Accepted'[i].n < Accepted'[j].n
      BY DEF FifoPerUpdater
    <2>3. i \in DOMAIN Accepted /\ Accepted'[i] = Accepted[i]
      BY <2>1
    <2>4. CASE j \in DOMAIN Accepted
      BY <2>1, <2>3, <2>4 DEF FifoPerUpdater
    <2>5. CASE j = Len(Accepted) + 1
      BY <1>2, <1>18, <2>1, <2>2, <2>3, <2>5
    <2> QED
      BY <2>1, <2>4, <2>5
  <1> QED
    BY <1>1, <1>8, <1>11, <1>12, <1>13, <1>15, <1>16, <1>17, <1>19, <1>20 DEF m

\* A refused message is not in the queue and never was.
LEMMA FeedClosedStep ==
    ASSUME IInv, NEW u \in Updaters, FeedClosed(u)
    PROVE  IInv'
  <1> USE DEF IInv
  <1> DEFINE m == Current(u)
  <1>1. m \in Messages
    BY CurrentMessage DEF FeedClosed, Sending
  <1>2. /\ m.from = u /\ m.n = sent[u] /\ sent[u] \in Nat
    BY MaxSendsAssumption DEF Current, TypeOK
  <1>3. PICK next \in {"idle", "dropped"} : up' = [up EXCEPT ![u] = next]
    BY DEF FeedClosed
  <1>4. /\ up[u] = "feeding" /\ failed' = failed \cup {m}
        /\ UNCHANGED <<buffer, ch, sent, alive, handled, lost, acked>>
    BY DEF FeedClosed
  <1> HIDE DEF m
  <1>5. Known' = Known /\ Accepted' = Accepted
    BY <1>4 DEF Known, Accepted
  <1>6. TypeOK'
    BY <1>1, <1>3, <1>4 DEF TypeOK, UpdaterStates
  <1>7. ChannelOfHost'
    BY <1>4 DEF ChannelOfHost
  <1>8. SendsNumbered'
    BY <1>3, <1>4 DEF SendsNumbered, Sending, TypeOK
  <1>9. OnlyFinished'
    <2> SUFFICES ASSUME NEW k \in Known \cup failed \cup {m}
                 PROVE  k.n <= sent[k.from] /\ (up'[k.from] = "feeding" => k.n < sent[k.from])
      BY <1>4, <1>5 DEF OnlyFinished
    <2>1. CASE k = m
      BY <1>2, <1>3, <2>1 DEF TypeOK
    <2>2. CASE k \in Known \cup failed
      <3>1. k.from \in Updaters
        BY <2>2, KnownMessages
      <3> QED
        BY <1>3, <2>2, <3>1 DEF OnlyFinished, TypeOK
    <2> QED
      BY <2>1, <2>2
  <1>10. FlushingKnown'
    BY <1>3, <1>4, <1>5 DEF FlushingKnown, Current, TypeOK
  <1>11. FifoPerUpdater' /\ AckedAccepted'
    BY <1>4, <1>5 DEF FifoPerUpdater, AckedAccepted
  <1>12. FailedNeverAccepted'
    <2>1. m \notin Known
      BY <1>2, <1>4 DEF OnlyFinished
    <2> QED
      BY <1>4, <1>5, <2>1 DEF FailedNeverAccepted
  <1> QED
    BY <1>6, <1>7, <1>8, <1>9, <1>10, <1>11, <1>12

\* Ok is returned for a message that reached the queue.
LEMMA FlushedStep ==
    ASSUME IInv, NEW u \in Updaters, Flushed(u)
    PROVE  IInv'
  <1> USE DEF IInv
  <1>1. Current(u) \in Messages
    BY CurrentMessage DEF Flushed, Sending
  <1>2. Current(u) \in Known
    BY DEF FlushingKnown, Flushed
  <1>3. /\ up' = [up EXCEPT ![u] = "idle"] /\ acked' = acked \cup {Current(u)}
        /\ UNCHANGED <<buffer, ch, sent, alive, handled, lost, failed>>
    BY DEF Flushed
  <1>4. Known' = Known /\ Accepted' = Accepted
    BY <1>3 DEF Known, Accepted
  <1>5. TypeOK'
    BY <1>1, <1>3 DEF TypeOK, UpdaterStates
  <1>6. ChannelOfHost' /\ SendsNumbered'
    BY <1>3 DEF ChannelOfHost, SendsNumbered, Sending, TypeOK
  <1>7. OnlyFinished'
    <2> SUFFICES ASSUME NEW k \in Known \cup failed
                 PROVE  k.n <= sent[k.from] /\ (up'[k.from] = "feeding" => k.n < sent[k.from])
      BY <1>3, <1>4 DEF OnlyFinished
    <2>1. k.from \in Updaters
      BY KnownMessages
    <2> QED
      BY <1>3, <2>1 DEF OnlyFinished, TypeOK
  <1>8. FlushingKnown'
    BY <1>3, <1>4 DEF FlushingKnown, Current, TypeOK
  <1>9. FifoPerUpdater' /\ AckedAccepted' /\ FailedNeverAccepted'
    BY <1>2, <1>3, <1>4 DEF FifoPerUpdater, AckedAccepted, FailedNeverAccepted
  <1> QED
    BY <1>5, <1>6, <1>7, <1>8, <1>9

\* The host takes the oldest message: what is accepted does not change, one
\* more of it is handled.
LEMMA RecvStep ==
    ASSUME IInv, Recv
    PROVE  /\ IInv'
           /\ Accepted' = Accepted
           /\ Len(handled') = Len(handled) + 1
           /\ Len(handled) < Len(Accepted)
  <1> USE DEF IInv
  <1>1. /\ ch \in Channels(Messages, Updaters) /\ WellFormed(ch, buffer)
        /\ ch.msgs \in Seq(Messages) /\ handled \in Seq(Messages)
    BY DEF TypeOK, ChannelOfHost, Channels
  <1>2. /\ ch.msgs # <<>> /\ ch' = Pop(ch) /\ handled' = Append(handled, Head(ch.msgs))
        /\ UNCHANGED <<buffer, up, sent, alive, lost, acked, failed>>
    BY DEF Recv
  <1>3. /\ Pop(ch) \in Channels(Messages, Updaters)
        /\ WellFormed(Pop(ch), buffer)
        /\ Pop(ch).open = ch.open
    BY <1>1, <1>2, PopFacts, BuffersAssumption DEF TypeOK
  <1>4. ch'.msgs = Tail(ch.msgs)
    BY <1>2 DEF Pop
  <1>5. /\ Range(ch.msgs) = {Head(ch.msgs)} \cup Range(Tail(ch.msgs))
        /\ Head(ch.msgs) \in Messages
    BY <1>1, <1>2, RangeOfHeadTail
  <1>6. /\ handled' \in Seq(Messages)
        /\ Len(handled') = Len(handled) + 1
        /\ Range(handled') = Range(handled) \cup {Head(ch.msgs)}
    BY <1>1, <1>2, <1>5, AppendProperties, RangeOfAppend
  <1>7. Known' = Known
    BY <1>2, <1>4, <1>5, <1>6 DEF Known
  <1>8. Accepted' = Accepted
    BY <1>1, <1>2, <1>4, ConcatMoveHead DEF Accepted
  <1>9. Len(handled) < Len(Accepted)
    BY <1>1, <1>2, ConcatProperties, EmptySeq, LenProperties DEF Accepted
  <1>10. TypeOK'
    BY <1>2, <1>3, <1>6 DEF TypeOK
  <1>11. ChannelOfHost'
    BY <1>2, <1>3 DEF ChannelOfHost, Recv
  <1>12. SendsNumbered' /\ OnlyFinished' /\ FlushingKnown'
    BY <1>2, <1>7 DEF SendsNumbered, Sending, OnlyFinished, FlushingKnown, Current
  <1>13. FifoPerUpdater' /\ AckedAccepted' /\ FailedNeverAccepted'
    BY <1>2, <1>7, <1>8 DEF FifoPerUpdater, AckedAccepted, FailedNeverAccepted
  <1> QED
    BY <1>6, <1>8, <1>9, <1>10, <1>11, <1>12, <1>13

\* A host that dies loses what is queued, and nothing that it handled.
LEMMA DieStep ==
    ASSUME IInv, Die
    PROVE  /\ IInv'
           /\ Accepted' = SubSeq(Accepted, 1, Len(handled))
  <1> USE DEF IInv
  <1>1. /\ ch.msgs \in Seq(Messages) /\ handled \in Seq(Messages)
        /\ Len(handled) \in Nat /\ Len(ch.msgs) \in Nat
    BY LenProperties DEF TypeOK, Channels
  <1>2. /\ ch' = CloseChannel(ch) /\ alive' = FALSE /\ lost' = Range(ch.msgs)
        /\ up' = [up EXCEPT ![HostUpdater] = "dropped"]
        /\ UNCHANGED <<buffer, sent, handled, acked, failed>>
    BY DEF Die
  <1>3. /\ CloseChannel(ch) \in Channels(Messages, Updaters)
        /\ WellFormed(CloseChannel(ch), buffer)
    BY CloseChannelFacts, BuffersAssumption DEF TypeOK
  <1>4. ch'.msgs = <<>> /\ ch'.open = FALSE
    BY <1>2 DEF CloseChannel
  <1>5. Known' = Range(handled) \cup Range(ch.msgs)
    BY <1>2, <1>4 DEF Known, Range
  <1>6. Accepted' = handled
    BY <1>1, <1>2, <1>4, ConcatEmptySeq DEF Accepted
  <1>7. /\ Accepted \in Seq(Messages)
        /\ Len(Accepted) = Len(handled) + Len(ch.msgs)
        /\ \A i \in 1..Len(handled) : Accepted[i] = handled[i]
    BY <1>1, ConcatProperties DEF Accepted
  <1>8. handled = SubSeq(Accepted, 1, Len(handled))
    <2> DEFINE r == SubSeq(Accepted, 1, Len(handled))
    <2>1. \A i \in 1..Len(handled) : Accepted[i] \in Messages
      BY <1>1, <1>7, ElementOfSeq
    <2>2. /\ r \in Seq(Messages)
          /\ Len(r) = IF 1 <= Len(handled) THEN Len(handled) - 1 + 1 ELSE 0
          /\ \A i \in 1..(Len(handled) - 1 + 1) : r[i] = Accepted[1 + i - 1]
      BY <1>1, <2>1, SubSeqProperties
    <2> HIDE DEF r
    <2>3. Len(r) = Len(handled) /\ \A i \in 1..Len(handled) : r[i] = handled[i]
      BY <1>1, <1>7, <2>2
    <2>4. r = handled
      BY <1>1, <2>2, <2>3, SeqEqual
    <2> QED
      BY <2>4 DEF r
  <1>9. TypeOK'
    <2>1. Range(ch.msgs) \subseteq Messages
      BY <1>1, RangeOfSeq
    <2> QED
      BY <1>2, <1>3, <2>1 DEF TypeOK, UpdaterStates
  <1>10. ChannelOfHost'
    BY <1>2, <1>3, <1>4 DEF ChannelOfHost
  <1>11. Known' = Known
    BY <1>5 DEF Known, ChannelOfHost, Die
  <1>12. \A u \in Updaters : up'[u] \in {up[u], "dropped"}
    BY <1>2 DEF TypeOK
  <1>13. SendsNumbered' /\ FlushingKnown'
    BY <1>2, <1>11, <1>12 DEF SendsNumbered, Sending, FlushingKnown, Current
  <1>14. OnlyFinished'
    <2> SUFFICES ASSUME NEW k \in Known \cup failed
                 PROVE  k.n <= sent[k.from] /\ (up'[k.from] = "feeding" => k.n < sent[k.from])
      BY <1>2, <1>11 DEF OnlyFinished
    <2>1. k.from \in Updaters
      BY KnownMessages
    <2> QED
      BY <1>12, <2>1 DEF OnlyFinished
  <1>15. FifoPerUpdater'
    <2>1. \A i \in DOMAIN handled : i \in DOMAIN Accepted /\ Accepted[i] = handled[i]
      BY <1>1, <1>7, LenProperties
    <2> QED
      BY <1>6, <2>1 DEF FifoPerUpdater
  <1>16. AckedAccepted' /\ FailedNeverAccepted'
    BY <1>2, <1>11 DEF AckedAccepted, FailedNeverAccepted
  <1> QED
    BY <1>6, <1>8, <1>9, <1>10, <1>13, <1>14, <1>15, <1>16

\* Every step, and every stutter, preserves the invariant.
LEMMA NextIInv == IInv /\ [Next]_vars => IInv'
  <1> SUFFICES ASSUME IInv, [Next]_vars PROVE IInv'
    OBVIOUS
  <1>1. CASE \E u, v \in Updaters : CloneUpdater(u, v) \/ Zoom(u, v)
    BY <1>1, UpdaterStep
  <1>2. ASSUME NEW u \in Updaters,
               \/ DropUpdater(u) \/ StartSend(u) \/ CancelSend(u)
               \/ Feed(u) \/ FeedClosed(u) \/ Flushed(u)
        PROVE  IInv'
    BY <1>2, UpdaterStep, StartSendStep, FeedStep, FeedClosedStep, FlushedStep
  <1>3. CASE Recv
    BY <1>3, RecvStep
  <1>4. CASE Die
    BY <1>4, DieStep
  <1>5. CASE UNCHANGED vars
    BY <1>5 DEF vars, IInv, TypeOK, ChannelOfHost, SendsNumbered, Sending, OnlyFinished,
                FlushingKnown, Current, FifoPerUpdater, AckedAccepted, FailedNeverAccepted,
                Known, Accepted
  <1> QED
    BY <1>1, <1>2, <1>3, <1>4, <1>5 DEF Next

\* IInv is invariant.
LEMMA SpecIInv == Spec => []IInv
  BY InitIInv, NextIInv, PTL DEF Spec

\* The channel, the updaters and what is recorded of the sends keep their types.
THEOREM DispatcherTypeOK == Spec => []TypeOK
  BY SpecIInv, PTL DEF IInv

\* Messages of one updater are handled in the order they were sent, none twice.
THEOREM DispatcherFifoPerUpdater == Spec => []FifoPerUpdater
  BY SpecIInv, PTL DEF IInv

\* Ok is only ever returned for a message that reached the queue.
THEOREM DispatcherAckedAccepted == Spec => []AckedAccepted
  BY SpecIInv, PTL DEF IInv

\* HostChannelClosed is only ever returned for a message that never did.
THEOREM DispatcherFailedNeverAccepted == Spec => []FailedNeverAccepted
  BY SpecIInv, PTL DEF IInv

-----------------------------------------------------------------------------
(* Backpressure *)

\* Nobody is parked twice, and only updaters that were made are parked.
ParkedOnce ==
    /\ \A i, j \in DOMAIN ch.parked : ch.parked[i] = ch.parked[j] => i = j
    /\ \A i \in DOMAIN ch.parked : up[ch.parked[i]] # "none"

\* A sender that is not parked may be parked at the end of the line.
LEMMA AppendOnce ==
    ASSUME NEW S, NEW seq \in Seq(S), NEW u \in S, u \notin Range(seq),
           \A i, j \in DOMAIN seq : seq[i] = seq[j] => i = j
    PROVE  \A i, j \in DOMAIN Append(seq, u) : Append(seq, u)[i] = Append(seq, u)[j] => i = j
  <1>1. /\ Append(seq, u) \in Seq(S)
        /\ Len(Append(seq, u)) = Len(seq) + 1
        /\ \A i \in 1..Len(seq) : Append(seq, u)[i] = seq[i]
        /\ Append(seq, u)[Len(seq) + 1] = u
    BY AppendProperties
  <1>2. /\ DOMAIN seq = 1..Len(seq) /\ Len(seq) \in Nat
        /\ DOMAIN Append(seq, u) = 1..(Len(seq) + 1)
    BY <1>1, LenProperties
  <1>3. \A i \in 1..Len(seq) : seq[i] # u
    BY <1>2 DEF Range
  <1>4. \A i \in 1..(Len(seq) + 1) : i \in 1..Len(seq) \/ i = Len(seq) + 1
    BY <1>2
  <1> QED
    BY <1>1, <1>2, <1>3, <1>4

\* A sequence without repetitions is no longer than the set it draws from.
LEMMA DistinctLength ==
    ASSUME NEW S, NEW T, IsFiniteSet(T), NEW seq \in Seq(S),
           \A i \in DOMAIN seq : seq[i] \in T,
           \A i, j \in DOMAIN seq : seq[i] = seq[j] => i = j
    PROVE  Len(seq) <= Cardinality(T)
  <1>1. DOMAIN seq = 1..Len(seq) /\ Len(seq) \in Nat
    BY LenProperties
  <1>2. seq \in [1..Len(seq) -> T]
    BY <1>1
  <1>3. seq \in Injection(1..Len(seq), T)
    BY <1>1, <1>2, Fun_IsInj
  <1>4. Cardinality(1..Len(seq)) <= Cardinality(T)
    BY <1>3, FS_Injection
  <1>5. Cardinality(1..Len(seq)) = Len(seq)
    <2>1. 1 \in Int /\ Len(seq) \in Int
      BY <1>1
    <2>2. Cardinality(1..Len(seq)) = IF 1 > Len(seq) THEN 0 ELSE Len(seq) - 1 + 1
      BY <2>1, FS_Interval
    <2> QED
      BY <1>1, <2>2
  <1> QED
    BY <1>4, <1>5

\* Sending parks only a sender that was not parked, receiving and closing only
\* release.
LEMMA NextParkedOnce == TypeOK /\ ParkedOnce /\ [Next]_vars => ParkedOnce'
  <1> SUFFICES ASSUME TypeOK, ParkedOnce, [Next]_vars PROVE ParkedOnce'
    OBVIOUS
  <1>1. /\ ch.parked \in Seq(Updaters) /\ ch.msgs \in Seq(Messages)
        /\ up \in [Updaters -> UpdaterStates]
    BY DEF TypeOK, Channels
  <1>2. \A i \in DOMAIN ch.parked : ch.parked[i] \in Updaters
    BY <1>1
  <1>3. \A u \in Updaters : up[u] # "none" => up'[u] # "none"
    BY <1>1 DEF Next, vars, CloneUpdater, Zoom, DropUpdater, StartSend, CancelSend, Feed,
                FeedClosed, Flushed, Recv, Die
  <1>4. ASSUME ch'.parked = ch.parked
        PROVE  ParkedOnce'
    BY <1>2, <1>3, <1>4 DEF ParkedOnce
  <1>5. ASSUME NEW u \in Updaters, Feed(u)
        PROVE  ParkedOnce'
    <2>1. /\ u \notin Range(ch.parked) /\ up[u] = "feeding"
          /\ ch'.parked = IF Len(ch.msgs) >= buffer THEN Append(ch.parked, u) ELSE ch.parked
      BY <1>5 DEF Feed, CanSend, IsParked, Push
    <2>2. CASE ch'.parked = Append(ch.parked, u)
      <3>1. \A i, j \in DOMAIN ch'.parked : ch'.parked[i] = ch'.parked[j] => i = j
        <4> DEFINE p == ch.parked
        <4>1. p \in Seq(Updaters) /\ \A i, j \in DOMAIN p : p[i] = p[j] => i = j
          BY <1>1 DEF ParkedOnce
        <4>2. u \notin Range(p) /\ ch'.parked = Append(p, u)
          BY <2>1, <2>2
        <4> HIDE DEF p
        <4>3. \A i, j \in DOMAIN Append(p, u) : Append(p, u)[i] = Append(p, u)[j] => i = j
          BY <4>1, <4>2, AppendOnce
        <4> QED
          BY <4>2, <4>3
      <3>2. Range(ch'.parked) = Range(ch.parked) \cup {u}
        BY <1>1, <2>2, RangeOfAppend
      <3>3. \A v \in Range(ch.parked) : v \in Updaters /\ up[v] # "none"
        BY <1>2 DEF ParkedOnce, Range
      <3>4. \A v \in Range(ch'.parked) : up'[v] # "none"
        BY <1>3, <2>1, <3>2, <3>3
      <3> QED
        BY <3>1, <3>4 DEF ParkedOnce, Range
    <2> QED
      BY <1>4, <2>1, <2>2
  <1>6. CASE Recv
    <2>1. ch'.parked = IF ch.parked = <<>> THEN <<>> ELSE Tail(ch.parked)
      BY <1>6 DEF Recv, Pop
    <2>2. CASE ch.parked # <<>>
      <3>1. /\ Len(Tail(ch.parked)) = Len(ch.parked) - 1
            /\ Tail(ch.parked) \in Seq(Updaters)
            /\ \A i \in 1..Len(Tail(ch.parked)) : Tail(ch.parked)[i] = ch.parked[i + 1]
        BY <1>1, <2>2, HeadTailProperties
      <3>2. /\ DOMAIN ch.parked = 1..Len(ch.parked) /\ Len(ch.parked) \in Nat
            /\ DOMAIN ch'.parked = 1..(Len(ch.parked) - 1)
        BY <1>1, <2>1, <2>2, <3>1, LenProperties
      <3>3. \A i \in DOMAIN ch'.parked :
               i + 1 \in DOMAIN ch.parked /\ ch'.parked[i] = ch.parked[i + 1] /\ i \in Nat
        BY <2>1, <2>2, <3>1, <3>2
      <3>4. \A i \in DOMAIN ch'.parked : up'[ch'.parked[i]] # "none"
        BY <1>2, <1>3, <3>3 DEF ParkedOnce
      <3>5. ASSUME NEW i \in DOMAIN ch'.parked, NEW j \in DOMAIN ch'.parked,
                   ch'.parked[i] = ch'.parked[j]
            PROVE  i = j
        <4>1. i + 1 = j + 1
          BY <3>3, <3>5 DEF ParkedOnce
        <4> QED
          BY <3>3, <4>1
      <3> QED
        BY <3>4, <3>5 DEF ParkedOnce
    <2> QED
      BY <1>4, <2>1, <2>2
  <1>7. CASE Die
    <2>1. ch'.parked = <<>> /\ DOMAIN ch'.parked = {}
      BY <1>7 DEF Die, CloseChannel
    <2> QED
      BY <2>1 DEF ParkedOnce
  <1>8. CASE \/ \E u, v \in Updaters : CloneUpdater(u, v) \/ Zoom(u, v)
             \/ \E u \in Updaters : DropUpdater(u) \/ StartSend(u) \/ CancelSend(u)
                                    \/ FeedClosed(u) \/ Flushed(u)
             \/ UNCHANGED vars
    <2>1. ch' = ch
      BY <1>8 DEF CloneUpdater, Zoom, DropUpdater, StartSend, CancelSend, FeedClosed, Flushed,
                  vars
    <2> QED
      BY <1>4, <2>1
  <1> QED
    BY <1>5, <1>6, <1>7, <1>8 DEF Next

\* However many sends wait, are cancelled and are begun anew: each updater ever
\* made has at most one message in the queue past the buffer (dispatcher.rs,
\* Updater::clone, Updater::try_send), for any updaters and any buffer.
THEOREM DispatcherBackpressureBound == Spec => []BackpressureBound
  <1>1. Init => ParkedOnce
    <2>1. Init => ch.parked = <<>> /\ DOMAIN ch.parked = {}
      BY DEF Init, EmptyChannel
    <2> QED
      BY <2>1 DEF ParkedOnce
  <1>2. IInv => TypeOK
    BY DEF IInv
  <1>3. IInv /\ ParkedOnce => BackpressureBound
    <2> SUFFICES ASSUME IInv, ParkedOnce PROVE BackpressureBound
      OBVIOUS
    <2> DEFINE made == {u \in Updaters : up[u] # "none"}
    <2>1. /\ ch.parked \in Seq(Updaters) /\ ch.msgs \in Seq(Messages)
          /\ buffer \in Nat /\ WellFormed(ch, buffer)
      BY BuffersAssumption DEF IInv, TypeOK, ChannelOfHost, Channels
    <2>2. IsFiniteSet(made) /\ Cardinality(made) \in Nat
      <3>1. made \in SUBSET Updaters
        OBVIOUS
      <3>2. IsFiniteSet(made)
        BY <3>1, UpdatersAssumption, FS_Subset
      <3> QED
        BY <3>2, FS_CardinalityType
    <2>3. \A i \in DOMAIN ch.parked : ch.parked[i] \in made
      BY <2>1 DEF ParkedOnce
    <2>4. Len(ch.parked) <= Cardinality(made)
      <3> HIDE DEF made
      <3> QED
        BY <2>1, <2>2, <2>3, DistinctLength DEF ParkedOnce
    <2>5. Len(ch.msgs) \in Nat /\ Len(ch.parked) \in Nat
      BY <2>1, LenProperties
    <2>6. Len(ch.msgs) <= buffer + Cardinality(made)
      <3> HIDE DEF made
      <3> QED
        BY <2>1, <2>2, <2>4, <2>5, SMT DEF WellFormed
    <2> QED
      BY <2>6 DEF BackpressureBound, ParkedOnce
  <1> QED
    BY <1>1, <1>2, <1>3, SpecIInv, NextParkedOnce, PTL DEF Spec

-----------------------------------------------------------------------------
(* Refinement *)

\* A new channel is an empty mailbox.
LEMMA InitRefines == Init => MailboxOf!Init
  <1> SUFFICES ASSUME Init PROVE MailboxOf!Init
    OBVIOUS
  <1>1. Accepted = <<>>
    BY ConcatEmptySeq DEF Init, EmptyChannel, Accepted
  <1>2. Len(handled) = 0
    BY EmptySeq DEF Init
  <1> QED
    BY <1>1, <1>2 DEF Init, MailboxOf!Init

\* Feeding accepts a message, receiving takes it, and nothing but the host's
\* death drops one; every other step leaves the mailbox alone.
LEMMA StepRefines == IInv /\ [Next]_vars => [MailboxOf!Next]_(MailboxOf!mailboxVars)
  <1> SUFFICES ASSUME IInv, [Next]_vars
               PROVE  MailboxOf!Next \/ UNCHANGED MailboxOf!mailboxVars
    OBVIOUS
  <1>1. ASSUME UNCHANGED <<ch, handled, alive>>
        PROVE  UNCHANGED MailboxOf!mailboxVars
    BY <1>1 DEF MailboxOf!mailboxVars, Accepted
  <1>2. CASE \E u, v \in Updaters : CloneUpdater(u, v) \/ Zoom(u, v)
    BY <1>1, <1>2 DEF CloneUpdater, Zoom
  <1>3. CASE \E u \in Updaters : DropUpdater(u) \/ StartSend(u) \/ CancelSend(u)
                                 \/ FeedClosed(u) \/ Flushed(u)
    BY <1>1, <1>3 DEF DropUpdater, StartSend, CancelSend, FeedClosed, Flushed
  <1>4. ASSUME NEW u \in Updaters, Feed(u)
        PROVE  MailboxOf!Next
    <2>1. /\ Accepted' = Append(Accepted, Current(u)) /\ Current(u) \in Messages /\ alive
          /\ UNCHANGED <<handled, alive>>
      BY <1>4, FeedStep DEF Feed
    <2>2. MailboxOf!Accept(Current(u))
      BY <2>1 DEF MailboxOf!Accept
    <2> QED
      BY <2>1, <2>2 DEF MailboxOf!Next
  <1>5. CASE Recv
    <2>1. /\ Accepted' = Accepted /\ Len(handled') = Len(handled) + 1
          /\ Len(handled) < Len(Accepted) /\ alive /\ UNCHANGED alive
      BY <1>5, RecvStep DEF Recv
    <2>2. MailboxOf!Take
      BY <2>1 DEF MailboxOf!Take
    <2> QED
      BY <2>2 DEF MailboxOf!Next
  <1>6. CASE Die
    <2>1. /\ Accepted' = SubSeq(Accepted, 1, Len(handled))
          /\ alive /\ alive' = FALSE /\ UNCHANGED handled
      BY <1>6, DieStep DEF Die
    <2>2. MailboxOf!Die
      BY <2>1 DEF MailboxOf!Die
    <2> QED
      BY <2>2 DEF MailboxOf!Next
  <1>7. CASE UNCHANGED vars
    BY <1>1, <1>7 DEF vars
  <1> QED
    BY <1>2, <1>3, <1>4, <1>5, <1>6, <1>7 DEF Next

\* What the updaters and the host do with the channel is what a mailbox allows:
\* one queue in the order of acceptance, each message taken exactly once.
THEOREM DispatcherImplementsMailbox == Spec => ImplementsMailbox
  BY SpecIInv, InitRefines, StepRefines, PTL DEF Spec, ImplementsMailbox, MailboxOf!Spec
=============================================================================
