------------------------------ MODULE MCBatcher ------------------------------
(* Four requests for two voices.  The third asks for the other voice, so   *)
(* that batches of one, of two and cut short by the other voice arise, as  *)
(* requests come in any order.                                             *)
EXTENDS Batcher

CONSTANTS r1, r2, r3, r4, va, vb

MCRequests == {r1, r2, r3, r4}
MCVoices == {va, vb}
MCVoice == [r \in MCRequests |-> IF r = r3 THEN vb ELSE va]
=============================================================================
