----------------------------- MODULE MCAudioRing -----------------------------
(* Small instances of AudioRing for TLC: two distinguishable samples, a ring
   of four, chunks of two, cursors that wrap after two laps. *)
EXTENDS AudioRing

CONSTANTS a, b, zero

MCSample == {a, b, zero}

\* One submit of every length from a single sample to one more than the ring.
MCSubmits == { <<a>>, <<b, a>>, <<a, b, b>>, <<b, a, a, b>>, <<a, a, a, a, a>> }
=============================================================================
