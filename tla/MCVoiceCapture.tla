--------------------------- MODULE MCVoiceCapture ---------------------------
(* Small instances of VoiceCapture for TLC. *)
EXTENDS VoiceCapture, TLC

CONSTANTS c1, c2, s1, s2

Symmetry == Permutations(Clients) \cup Permutations(Segments)
=============================================================================
