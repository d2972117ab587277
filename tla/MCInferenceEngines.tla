-------------------------- MODULE MCInferenceEngines ---------------------------
(* Two engines for the run: those of a SPEECH session or those of a SIGN session. *)
EXTENDS InferenceEngines

CONSTANTS e1, e2

MCEngines == {e1, e2}
MCClasses ==
  { [e \in MCEngines |-> IF e = e1 THEN "asr" ELSE "lip"],
    [e \in MCEngines |-> IF e = e1 THEN "tsl" ELSE "gloss"] }
================================================================================
