------------------------------ MODULE Command ------------------------------
(***************************************************************************)
(* Commands, and the combinators of src/base/src/command.rs that build one *)
(* from others.  A command that is not none is a function that is called   *)
(* once, when the host spawns it, and returns a stream that the host polls *)
(* to its end (host.rs, handle_message).  What such a command does is the  *)
(* sequence of the events of that call and of the polls.                   *)
(*                                                                         *)
(* The state machine builds commands of any shape and keeps beside each    *)
(* what it is to produce: of a combinator, what its documentation says;    *)
(* of a stream, a future and done, the values they are given.  The         *)
(* documentation of oneshot and channel speaks only of what is fed to the  *)
(* sender.  Here as in the code, the result of their function comes first. *)
(***************************************************************************)
EXTENDS Naturals, SequencesExt

CONSTANTS
    Values,     \* what commands produce, before collect and map
    Nothing,    \* the value among them that stands for Option's None
    Streams,    \* the sequences of values that basic commands produce
    MaxSize     \* bound on the combinators applied

ASSUME NothingAssumption == Nothing \in Values
ASSUME StreamsAssumption == Streams \subseteq Seq(Values)

-----------------------------------------------------------------------------
(* Events.  Each belongs to the basic command numbered "of" that does it; 0  *)
(* is none in particular.                                                    *)

\* A function of the user is called with the context.
Call(i) == [kind |-> "call", of |-> i]
\* The stream is pending once: yield_now.
Yield(i) == [kind |-> "yield", of |-> i]
\* The stream produces an item.
Item(i, v) == [kind |-> "item", of |-> i, value |-> v]

Items(i, s) == [n \in DOMAIN s |-> Item(i, s[n])]
IsItem(e) == e.kind = "item"

\* What f makes of each element, one after the other.
Expand(s, f(_)) == FlattenSeq([n \in DOMAIN s |-> f(s[n])])

ValueOf(e) == IF IsItem(e) THEN <<e.value>> ELSE <<>>
ValuesOf(events) == Expand(events, ValueOf)

\* The events when the command's function is called, and when it is polled.
Some(call, poll) == [some |-> TRUE, call |-> call, poll |-> poll]
NoCommand == [some |-> FALSE, call |-> <<>>, poll |-> <<>>]
Run(c) == c.call \o c.poll
Produces(c) == ValuesOf(Run(c))

-----------------------------------------------------------------------------
(* Basic commands *)

\* Command::stream: the stream is made at once, and polled after a yield.
Stream(i, s) == Some(<<Call(i)>>, <<Yield(i)>> \o Items(i, s))
Future(i, v) == Stream(i, <<v>>)
Done(v) == Future(0, v)

\* Mutant of Oneshot: what is fed comes before the result of f.
OneshotFedFirst(i, result, fed) == Some(<<Call(i)>>, Items(i, fed) \o <<Item(i, result)>>)

\* oneshot: the result of f, then the value fed to the sender, if there is one.
Oneshot(i, result, fed) == Some(<<Call(i)>>, <<Item(i, result)>> \o Items(i, fed))

\* channel: the same with any number of values, and with a yield.
Channel(i, result, fed) == Stream(i, <<result>> \o fed)

-----------------------------------------------------------------------------
(* Combinators *)

\* flat_map with a function k from values to commands, each of which is called
\* when its turn comes.
OnBehalfOf(i, run) == [n \in DOMAIN run |-> [run[n] EXCEPT !.of = i]]
FlatMap(events, k) ==
    LET expand(e) == IF IsItem(e) THEN OnBehalfOf(e.of, Run(k[e.value])) ELSE <<e>>
    IN Expand(events, expand)

\* Mutant of Then: later items' commands get their turn first.
ThenUnordered(c, k) ==
    IF c = NoCommand THEN NoCommand ELSE Some(c.call, FlatMap(Reverse(c.poll), k))

Then(c, k) == IF c = NoCommand THEN NoCommand ELSE Some(c.call, FlatMap(c.poll, k))

\* Both functions are called when the chain is.
Chain(c, d) ==
    IF c = NoCommand THEN d
    ELSE IF d = NoCommand THEN c
    ELSE Some(c.call \o d.call, c.poll \o d.poll)

\* The ways to merge two sequences.
Merges(s, t) ==
    LET n == Len(s) + Len(t) IN
    {[i \in 1..n |-> LET before == Cardinality(ofS \cap 1..i) IN
                     IF i \in ofS THEN s[before] ELSE t[i - before]] :
        ofS \in kSubset(Len(s), 1..n)}

\* select_all of the commands there are: in what order they get ready is open.
Batch(c, d) ==
    IF c = NoCommand /\ d = NoCommand THEN {Some(<<>>, <<>>)}
    ELSE IF c = NoCommand THEN {d}
    ELSE IF d = NoCommand THEN {c}
    ELSE {Some(c.call \o d.call, poll) : poll \in Merges(c.poll, d.poll)}

\* Of what the stream does before its end, the items are not seen.
NoItem(e) == IF IsItem(e) THEN <<>> ELSE <<e>>

\* unfold gathers the items and produces them when the stream is at its end.
Collect(c) ==
    IF c = NoCommand THEN Done(<<>>)
    ELSE Some(c.call, <<Yield(0)>> \o Expand(c.poll, NoItem) \o <<Item(0, Produces(c))>>)

\* What the function given to then may return: discard drops, map keeps what it
\* makes of the value, and_then keeps what is something.
Continuations == {"drop", "keep", "twice", "something", "wrap"}

Continue(k, v) ==
    CASE k = "drop" -> NoCommand
      [] k = "keep" -> Done(v)
      [] k = "twice" -> Stream(0, <<v, v>>)
      [] k = "something" -> IF v = Nothing THEN NoCommand ELSE Done(v)
      [] k = "wrap" -> Done(<<v>>)

\* Such a function, on the values that the command c produces.
Continuation(k, c) == [v \in ToSet(Produces(c)) |-> Continue(k, v)]

-----------------------------------------------------------------------------
VARIABLES
    cmd,        \* the command built so far
    promised,   \* the sequences of values that it may produce
    chained,    \* <<i, j>>: j was chained to i, to be performed once i finishes
    size        \* how many combinators were applied

vars == <<cmd, promised, chained, size>>

Init ==
    /\ cmd = NoCommand
    /\ promised = {<<>>}
    /\ chained = {}
    /\ size = 0

\* A command that somebody makes to combine it with the one there is, and what it
\* is to produce.  A oneshot and a channel have a result and what is fed after it.
Basic(i) ==
    {[cmd |-> NoCommand, out |-> <<>>]}
    \cup {[cmd |-> Stream(i, s), out |-> s] : s \in Streams}
    \cup {[cmd |-> Oneshot(i, Head(s), Tail(s)), out |-> <<Head(s)>> \o Tail(s)] :
            s \in {t \in Streams : Len(t) \in 1..2}}
    \cup {[cmd |-> Channel(i, Head(s), Tail(s)), out |-> <<Head(s)>> \o Tail(s)] :
            s \in Streams \ {<<>>}}

MakesOf(c) == {e.of : e \in ToSet(Run(c))} \ {0}

DoThen(k) ==
    /\ cmd' = Then(cmd, Continuation(k, cmd))
    /\ promised' =
        LET out(v) == CASE k = "drop" -> <<>>
                        [] k = "keep" -> <<v>>
                        [] k = "twice" -> <<v, v>>
                        [] k = "something" -> IF v = Nothing THEN <<>> ELSE <<v>>
                        [] k = "wrap" -> << <<v>> >>
        IN {Expand(s, out) : s \in promised}
    /\ UNCHANGED chained

DoChain(b) ==
    /\ cmd' = Chain(cmd, b.cmd)
    /\ promised' = {s \o b.out : s \in promised}
    /\ chained' = chained \cup (MakesOf(cmd) \X MakesOf(b.cmd))

DoChainTo(b) ==
    /\ cmd' = Chain(b.cmd, cmd)
    /\ promised' = {b.out \o s : s \in promised}
    /\ chained' = chained \cup (MakesOf(b.cmd) \X MakesOf(cmd))

DoBatch(b) ==
    /\ cmd' \in Batch(cmd, b.cmd)
    /\ promised' = UNION {Merges(s, b.out) : s \in promised}
    /\ UNCHANGED chained

DoCollect ==
    /\ cmd' = Collect(cmd)
    /\ promised' = {<<s>> : s \in promised}
    /\ UNCHANGED chained

Next ==
    /\ size < MaxSize
    /\ size' = size + 1
    /\ \/ \E k \in Continuations : DoThen(k)
       \/ \E b \in Basic(size + 1) : DoChain(b) \/ DoChainTo(b) \/ DoBatch(b)
       \/ DoCollect

Spec == Init /\ [][Next]_vars

-----------------------------------------------------------------------------
(* Properties *)

\* A command produces what its parts produce, as its combinators say: batch keeps
\* the order of each part, chain appends, then replaces every value by what its
\* function makes of it, in order, and collect produces one vector, of nothing too
\* (command.rs, the documentation of each).  A part that is a oneshot or a channel
\* produces the result of its function before what is fed to the sender, as its
\* code does; its documentation leaves the result out (command.rs:280, :301).
OutputsAsPromised == Produces(cmd) \in promised

\* then is the monadic interface (command.rs:112): it does not matter how three
\* commands are put together, and a function that returns done(v) changes
\* nothing.
MonadicThen ==
    LET bind(c, k) == Then(c, Continuation(k, c))
        both(j, k) == [v \in ToSet(Produces(cmd)) |-> bind(Continue(j, v), k)]
    IN /\ Produces(bind(cmd, "keep")) = Produces(cmd)
       /\ \A j, k \in Continuations :
            Produces(bind(bind(cmd, j), k)) = Produces(Then(cmd, both(j, k)))

\* chain: "a new Command to be performed once the current one finishes
\* completely", its function included (command.rs, chain).
PerformedOnceFinished ==
    LET run == Run(cmd) IN
    \A p, q \in DOMAIN run : <<run[p].of, run[q].of>> \in chained => p < q
=============================================================================
