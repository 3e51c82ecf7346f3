---------------------------- MODULE MCStateTrace ----------------------------
(* The adapter and the gate share one trace file. *)
EXTENDS StateTrace

BothWriters == {adapter, gate}
=============================================================================
