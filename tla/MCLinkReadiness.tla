--------------------------- MODULE MCLinkReadiness ---------------------------
(* Instances of LinkReadiness for TLC. *)
EXTENDS LinkReadiness, TLC

CONSTANTS t1, t2

\* The same drama twice, on two platforms.
TwoPlatforms == t1 :> "TOMATO" @@ t2 :> "JUBIAN"
=============================================================================
