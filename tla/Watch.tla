-------------------------------- MODULE Watch --------------------------------
(***************************************************************************)
(* What a signal promises those who watch it, without locks, flags, lists  *)
(* and queues: a watcher that has not seen the last write is owed to be    *)
(* told or has been told, and a write is owed until the watcher is told or *)
(* no longer listens.  A watcher that was told looks, and finds the latest *)
(* value.  It may be told more often than there is news.                   *)
(***************************************************************************)
EXTENDS Naturals

CONSTANT Watchers

VARIABLES
    listening,  \* the watchers that there are
    value,      \* value[w]: how often what w watches was written
    owed,       \* owed[w]: w is to be told, and was not yet
    told,       \* told[w]: w was told, and has not looked yet
    seen        \* seen[w]: the value that w last saw

vars == <<listening, value, owed, told, seen>>

Init ==
    /\ listening \in SUBSET Watchers
    /\ value = [w \in Watchers |-> 0]
    /\ owed = [w \in Watchers |-> FALSE]
    /\ told = [w \in Watchers |-> FALSE]
    /\ seen = [w \in Watchers |-> 0]

\* What all of W watch is written.
Write(W) ==
    /\ value' = [w \in Watchers |-> IF w \in W THEN value[w] + 1 ELSE value[w]]
    /\ owed' = [w \in Watchers |-> owed[w] \/ w \in W \cap listening]
    /\ UNCHANGED <<listening, told, seen>>

\* w is told something, be it what it is owed or not.
Tell(w) ==
    /\ w \in listening
    /\ told' = [told EXCEPT ![w] = TRUE]
    /\ owed' \in {owed, [owed EXCEPT ![w] = FALSE]}
    /\ UNCHANGED <<listening, value, seen>>

\* w looks once it was told.  It may have been told twice.
Look(w) ==
    /\ w \in listening /\ told[w]
    /\ seen' = [seen EXCEPT ![w] = value[w]]
    /\ told' \in {told, [told EXCEPT ![w] = FALSE]}
    /\ UNCHANGED <<listening, value, owed>>

\* Who joins looks at once, and may be told of a write before that.
Join(w) ==
    /\ w \notin listening
    /\ listening' = listening \cup {w}
    /\ told' = [told EXCEPT ![w] = TRUE]
    /\ owed' \in {owed, [owed EXCEPT ![w] = TRUE]}
    /\ UNCHANGED <<value, seen>>

Leave(w) ==
    /\ w \in listening
    /\ listening' = listening \ {w}
    /\ told' = [told EXCEPT ![w] = FALSE]
    /\ owed' = [owed EXCEPT ![w] = FALSE]
    /\ UNCHANGED <<value, seen>>

Next ==
    \/ \E W \in SUBSET Watchers : Write(W)
    \/ \E w \in Watchers : Tell(w) \/ Look(w) \/ Join(w) \/ Leave(w)

Spec == Init /\ [][Next]_vars
=============================================================================
