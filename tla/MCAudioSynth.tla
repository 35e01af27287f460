---------------------------- MODULE MCAudioSynth -----------------------------
(***************************************************************************)
(* AudioSynth with two workers, so that two frames of the synthesiser can  *)
(* be out together if the buffer protocol ever allowed it, and three       *)
(* frames: one whose tones sound, one worked on and one after it.          *)
(***************************************************************************)
EXTENDS AudioSynth

CONSTANTS w1, w2   \* worker threads, model values

TwoWorkers == {w1, w2}

=============================================================================
