---------------------------- MODULE MCForkChild ----------------------------
(* Model values and bounds for ForkChild. *)
EXTENDS ForkChild

CONSTANTS x, nl, nul, none

MCBytes     == {x, nl}
MCExitCodes == {0, 1}
MCSignals   == {19}
=============================================================================
