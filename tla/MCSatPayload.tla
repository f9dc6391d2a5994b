---------------------------- MODULE MCSatPayload ----------------------------
(***************************************************************************)
(* An instance of SatPayload for TLC: two shells, two custom texts of every *)
(* length that is special, intervals around both ends of their range and   *)
(* of eight bits.                                                          *)
(***************************************************************************)
EXTENDS SatPayload

MCShells == {"s1", "s2"}
MCNames == {"a", "b"}
MCLengths == {0, 1, 12, 13}
MCIntervals == {-1, 0, 10, 11, 260}

=============================================================================
