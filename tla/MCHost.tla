------------------------------- MODULE MCHost -------------------------------
(* Host on small sets. *)
EXTENDS Host

CONSTANTS name, age

\* README.md's model: two signals, each with a getter.
MCSignals == {name, age}
MCGetters == <<name, age>>

\* A smaller one for liveness.
MCOneSignal == {name}
MCOneGetter == <<name>>
=============================================================================
