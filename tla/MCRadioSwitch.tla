--------------------------- MODULE MCRadioSwitch ---------------------------
(***************************************************************************)
(* Instances of RadioSwitch for TLC: one shell thread beside main() and    *)
(* the system work queue, with every fault, and with none.                 *)
(***************************************************************************)
EXTENDS RadioSwitch

MCShells == {"shell"}
NoShells == {}
NoFaults == {}
OpenFault == {"ipc_open"}

(* The behaviours explored go on until a second kind of lapse has met the  *)
(* first: what follows it is not explored further.                         *)
MaxLapses == 1
LapseBound == Cardinality(lapses) <= MaxLapses

=============================================================================
