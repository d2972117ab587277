------------------------------ MODULE SpeechLip ------------------------------
(***************************************************************************)
(* A speech session with a record of which flush was next when the cached  *)
(* lip result arrived.  The watchdog waits for ASR while the receive loop  *)
(* goes on reading faces, so a lip result may be cached under a flush that *)
(* took its batch before the faces were seen.                              *)
(***************************************************************************)
EXTENDS SpeechSession

VARIABLE early   \* the cached lip result came while a flush waited for ASR

LipInit == Init /\ early = FALSE

LipNext ==
  /\ Next
  /\ early' = (wpc = "asr" /\ (early \/ (rpc = "lip" /\ segs' # segs)))

LipSpec == LipInit /\ [][LipNext]_<<vars, early>>

-----------------------------------------------------------------------------
\* orchestrator.py:110 says the most recent lip result is fused with the next ASR
\* flush: the one that gives a FINAL did not begin before the lip result came.
LipJoinsNextFlush ==
  [][heard' # heard /\ lipCached /\ wpc = "asr" /\ wpc' = "sleep" => ~early]_<<vars, early>>
=============================================================================
