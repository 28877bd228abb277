----------------------------- MODULE MCCommand -----------------------------
(* Command on a few short streams. *)
EXTENDS Command

CONSTANTS a, nothing

MCValues == {a, nothing}
MCStreams == {<<>>, <<a>>, <<nothing, a>>}
=============================================================================
