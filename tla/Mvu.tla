-------------------------------- MODULE Mvu --------------------------------
(***************************************************************************)
(* What the architecture promises an application, with no queue of signals *)
(* and few states of the host's loop in sight: messages change the model   *)
(* one at a time, in order and all at once, never under a reader; then the *)
(* message's command is started, and then every signal that it changed is  *)
(* announced, before the next message is looked at.  Announcing is all or  *)
(* nothing: only a command that cannot be started keeps a change           *)
(* unannounced, and then it is the host's last.  Host implements it.       *)
(***************************************************************************)
EXTENDS Naturals

CONSTANTS
    Signals,    \* the signals that the model answers for
    Readers     \* whoever may read the model

VARIABLES
    accepted,   \* how many messages will be handled if the host lives
    taken,      \* how many of them the host has taken
    alive,      \* the host's task has not ended
    pending,    \* the last one that it took has not changed the model yet
    starting,   \* its command, if it has one, was not started yet
    owed,       \* the signals that it changed and that were not announced yet
    readers,    \* who reads the model
    readable    \* the model was not given up half-way through a change

mvuVars == <<accepted, taken, alive, pending, starting, owed, readers, readable>>

Init ==
    /\ accepted = 0 /\ taken = 0 /\ alive = TRUE
    /\ pending = FALSE /\ starting = FALSE /\ owed = {}
    /\ readers = {} /\ readable = TRUE

\* Mailbox says in which order the messages are handled; here they are counted.
Accept ==
    /\ alive
    /\ accepted' = accepted + 1
    /\ UNCHANGED <<taken, alive, pending, starting, owed, readers, readable>>

Take ==
    /\ alive /\ taken < accepted
    /\ ~pending /\ ~starting /\ owed = {}
    /\ taken' = taken + 1
    /\ pending' = TRUE
    /\ UNCHANGED <<accepted, alive, starting, owed, readers, readable>>

\* The message changes the model and, with it, the signals in S.
Apply(S) ==
    /\ alive /\ pending
    /\ readers = {}
    /\ pending' = FALSE
    /\ starting' = TRUE
    /\ owed' = S
    /\ UNCHANGED <<accepted, taken, alive, readers, readable>>

Start ==
    /\ alive /\ starting
    /\ starting' = FALSE
    /\ UNCHANGED <<accepted, taken, alive, pending, owed, readers, readable>>

Announce(s) ==
    /\ alive /\ ~starting
    /\ s \in owed
    /\ owed' = owed \ {s}
    /\ UNCHANGED <<accepted, taken, alive, pending, starting, readers, readable>>

Read(r) ==
    /\ readable
    /\ readers' = readers \cup {r}
    /\ UNCHANGED <<accepted, taken, alive, pending, starting, owed, readable>>

Release(r) ==
    /\ readers' = readers \ {r}
    /\ UNCHANGED <<accepted, taken, alive, pending, starting, owed, readable>>

\* The host dies at rest; while a message changes the model, which may leave it
\* unreadable, with nobody reading it then; or at the start of a command, and what
\* is owed then is never announced.  It does not die between two announcements.
Die ==
    /\ alive
    /\ owed = {} \/ starting
    /\ alive' = FALSE
    /\ accepted' = taken
    /\ pending' = FALSE /\ starting' = FALSE /\ owed' = {}
    /\ \/ UNCHANGED readable
       \/ pending /\ readers = {} /\ readable' = FALSE
    /\ UNCHANGED <<taken, readers>>

Next ==
    \/ Accept \/ Take \/ Start
    \/ \E S \in SUBSET Signals : Apply(S)
    \/ \E s \in Signals : Announce(s)
    \/ \E r \in Readers : Read(r) \/ Release(r)
    \/ Die

Spec == Init /\ [][Next]_mvuVars
=============================================================================
