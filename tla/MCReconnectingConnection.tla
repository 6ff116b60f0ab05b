---------------------- MODULE MCReconnectingConnection ----------------------
(* Small instances of ReconnectingConnection for TLC.                      *)
EXTENDS ReconnectingConnection, TLC

\* Slots are interchangeable; used by the run without liveness.
SlotSymmetry == Permutations(Slots)
=============================================================================
