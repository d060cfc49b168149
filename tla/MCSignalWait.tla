---------------------------- MODULE MCSignalWait ----------------------------
(* TLC instance of SignalWait: waits issued on one proxy as model values. *)
EXTENDS SignalWait

CONSTANTS w1, w2, w3

MCWaits == {w1, w2, w3}

MCWaitsOne == {w1}
=============================================================================
