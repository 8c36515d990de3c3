----------------------------- MODULE MCTranscripts -----------------------------
(* Small instances of Transcripts for TLC.                                  *)
EXTENDS Transcripts

CONSTANTS s1, s2, r1, r2, t1, t2
=============================================================================
