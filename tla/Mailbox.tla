------------------------------ MODULE Mailbox ------------------------------
(***************************************************************************)
(* What the updaters and the host promise each other, with no channel in   *)
(* sight: one sequence of accepted messages, which the host takes one by   *)
(* one, in order, each exactly once, until it dies; what it had not taken  *)
(* by then is never taken.  Dispatcher implements it.                      *)
(***************************************************************************)
EXTENDS Naturals, Sequences

CONSTANT Messages

VARIABLES
    accepted,   \* the messages that will be handled if the host lives, in order
    taken,      \* how many of them the host has taken
    alive       \* the host's task has not ended

mailboxVars == <<accepted, taken, alive>>

Init == accepted = <<>> /\ taken = 0 /\ alive = TRUE

\* No message is accepted by a host that is dead.
Accept(m) ==
    /\ alive
    /\ accepted' = Append(accepted, m)
    /\ UNCHANGED <<taken, alive>>

Take ==
    /\ alive
    /\ taken < Len(accepted)
    /\ taken' = taken + 1
    /\ UNCHANGED <<accepted, alive>>

Die ==
    /\ alive
    /\ alive' = FALSE
    /\ accepted' = SubSeq(accepted, 1, taken)
    /\ UNCHANGED taken

Next == (\E m \in Messages : Accept(m)) \/ Take \/ Die

Spec == Init /\ [][Next]_mailboxVars
=============================================================================
