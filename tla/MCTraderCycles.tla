---------------------------- MODULE MCTraderCycles ----------------------------
(* An instance of TraderCycles for TLC.                                     *)
EXTENDS TraderCycles

MCService == {Market, Search}
===============================================================================
