----------------------------- MODULE MCSatLink -----------------------------
(* Instances of SatLink for TLC. Two buffers instead of eight, a ring of   *)
(* two and windows of a few packets reach every way to fill the pool.      *)
EXTENDS SatLink

MCPoolSize == 2
MCRingSize == 2
MCMaxPackets == 3

NoFaults == {}
FailedSending == {"transmit"}
=============================================================================
