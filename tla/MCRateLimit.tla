---------------------------- MODULE MCRateLimit ----------------------------
(* One identifier, two grants per window of two seconds, two ticks to the   *)
(* second: long enough for three windows and for a refusal at every offset. *)
EXTENDS RateLimit

CONSTANTS k1
MCKeys == {k1}
MCInstants == 0..11
=============================================================================
