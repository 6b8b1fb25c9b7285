------------------------- MODULE MCLatentSyncSessions -------------------------
(* Two calls for the same one of two presets.                              *)
EXTENDS LatentSyncSessions

CONSTANTS small, quality, c1, c2

MCPresets == {small, quality}
MCCalls == {c1, c2}
MCPresetOf == [c \in MCCalls |-> small]
=============================================================================
