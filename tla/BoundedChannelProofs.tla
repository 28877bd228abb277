------------------------ MODULE BoundedChannelProofs ------------------------
(* What the operations on a bounded channel preserve. *)
EXTENDS BoundedChannel, TLAPS

\* A new channel is a channel, and nobody is parked on it.
LEMMA EmptyChannelFacts ==
    ASSUME NEW Msg, NEW Sender, NEW buffer \in Nat
    PROVE  /\ EmptyChannel \in Channels(Msg, Sender)
           /\ WellFormed(EmptyChannel, buffer)
           /\ EmptyChannel.open
  BY SMT DEF EmptyChannel, Channels, WellFormed

\* A sender is parked only on a queue that holds a message, so a sender that is
\* refused knows that its receiver has something to read.
LEMMA ParkedNonEmpty ==
    ASSUME NEW Msg, NEW Sender, NEW buffer \in Nat,
           NEW ch \in Channels(Msg, Sender), NEW s,
           WellFormed(ch, buffer), IsParked(ch, s)
    PROVE  ch.msgs # <<>>
  <1>1. PICK i \in DOMAIN ch.parked : ch.parked[i] = s
    BY DEF IsParked, Range
  <1>2. ch.parked \in Seq(Sender) /\ ch.msgs \in Seq(Msg)
    BY DEF Channels
  <1>3. Len(ch.parked) > 0
    BY <1>1, <1>2, SMT
  <1>4. Len(ch.msgs) > 0
    BY <1>2, <1>3, SMT DEF WellFormed
  <1> QED
    BY <1>2, <1>4, SMT

\* Sending one more message keeps the channel well formed.
LEMMA PushFacts ==
    ASSUME NEW Msg, NEW Sender, NEW buffer \in Nat,
           NEW ch \in Channels(Msg, Sender), NEW s \in Sender, NEW m \in Msg,
           WellFormed(ch, buffer)
    PROVE  /\ Push(ch, s, m, buffer) \in Channels(Msg, Sender)
           /\ WellFormed(Push(ch, s, m, buffer), buffer)
           /\ Push(ch, s, m, buffer).open = ch.open
           /\ Push(ch, s, m, buffer).msgs # <<>>
  <1> DEFINE p == IF Len(ch.msgs) >= buffer THEN Append(ch.parked, s) ELSE ch.parked
             q == Push(ch, s, m, buffer)
  <1>1. ch.msgs \in Seq(Msg) /\ ch.parked \in Seq(Sender) /\ ch.open \in BOOLEAN
    BY DEF Channels
  <1>2. q = [msgs |-> Append(ch.msgs, m), parked |-> p, open |-> ch.open]
    BY DEF Push
  <1>3. Append(ch.msgs, m) \in Seq(Msg) /\ Len(Append(ch.msgs, m)) = Len(ch.msgs) + 1
    BY <1>1, SMT
  <1>4. p \in Seq(Sender)
    BY <1>1, SMT
  <1>5. Len(p) = IF Len(ch.msgs) >= buffer THEN Len(ch.parked) + 1 ELSE Len(ch.parked)
    BY <1>1, SMT
  <1>6. Len(ch.msgs) \in Nat
    BY <1>1, SMT
  <1> QED
    BY <1>1, <1>2, <1>3, <1>4, <1>5, <1>6, SMT DEF Channels, WellFormed

\* A refused try_send changes nothing, an accepted one is a Push; either way a
\* channel that is open ends up with a message in it.
LEMMA TrySendFacts ==
    ASSUME NEW Msg, NEW Sender, NEW buffer \in Nat,
           NEW ch \in Channels(Msg, Sender), NEW s \in Sender, NEW m \in Msg,
           WellFormed(ch, buffer)
    PROVE  /\ TrySend(ch, s, m, buffer) \in Channels(Msg, Sender)
           /\ WellFormed(TrySend(ch, s, m, buffer), buffer)
           /\ TrySend(ch, s, m, buffer).open = ch.open
           /\ ch.open => TrySend(ch, s, m, buffer).msgs # <<>>
           /\ ch.msgs # <<>> => TrySend(ch, s, m, buffer).msgs # <<>>
  <1>1. CASE CanSend(ch, s)
    BY <1>1, PushFacts DEF TrySend
  <1>2. CASE ~CanSend(ch, s)
    <2>1. TrySend(ch, s, m, buffer) = ch
      BY <1>2 DEF TrySend
    <2>2. ch.open => ch.msgs # <<>>
      BY <1>2, ParkedNonEmpty DEF CanSend
    <2> QED
      BY <2>1, <2>2
  <1> QED
    BY <1>1, <1>2

\* Receiving a message releases one parked sender, if there is any.
LEMMA PopFacts ==
    ASSUME NEW Msg, NEW Sender, NEW buffer \in Nat,
           NEW ch \in Channels(Msg, Sender),
           WellFormed(ch, buffer), ch.msgs # <<>>
    PROVE  /\ Pop(ch) \in Channels(Msg, Sender)
           /\ WellFormed(Pop(ch), buffer)
           /\ Pop(ch).open = ch.open
  <1> DEFINE p == IF ch.parked = <<>> THEN <<>> ELSE Tail(ch.parked)
  <1>1. ch.msgs \in Seq(Msg) /\ ch.parked \in Seq(Sender) /\ ch.open \in BOOLEAN
    BY DEF Channels
  <1>2. Pop(ch) = [msgs |-> Tail(ch.msgs), parked |-> p, open |-> ch.open]
    BY DEF Pop
  <1>3. Tail(ch.msgs) \in Seq(Msg) /\ Len(Tail(ch.msgs)) = Len(ch.msgs) - 1
    BY <1>1, SMT
  <1>4. p \in Seq(Sender)
    BY <1>1, SMT
  <1>5. Len(p) = IF Len(ch.parked) = 0 THEN 0 ELSE Len(ch.parked) - 1
    BY <1>1, SMT
  <1>6. Len(ch.msgs) \in Nat /\ Len(ch.msgs) > 0 /\ Len(ch.parked) \in Nat
    BY <1>1, SMT
  <1> QED
    BY <1>1, <1>2, <1>3, <1>4, <1>5, <1>6, SMT DEF Channels, WellFormed

\* A dropped receiver leaves nobody parked.
LEMMA CloseChannelFacts ==
    ASSUME NEW Msg, NEW Sender, NEW buffer \in Nat, NEW ch
    PROVE  /\ CloseChannel(ch) \in Channels(Msg, Sender)
           /\ WellFormed(CloseChannel(ch), buffer)
  BY SMT DEF CloseChannel, Channels, WellFormed
=============================================================================
