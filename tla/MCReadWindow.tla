--------------------------- MODULE MCReadWindow ---------------------------
(* ReadWindow with two ticks to the second and the tightest lags its        *)
(* assumption allows.                                                       *)
EXTENDS ReadWindow
=============================================================================
