---------------------------- MODULE MCHciBridge ----------------------------
(***************************************************************************)
(* An instance of HciBridge for TLC: commands one at a time over two       *)
(* buffers, data two at a time over two buffers, and data of a kind that   *)
(* has fewer buffers than credit, so that packets are dropped. A ring holds *)
(* one message.                                                            *)
(***************************************************************************)
EXTENDS HciBridge

MCKinds == {"cmd", "acl", "iso"}
MCPool == [k \in MCKinds |-> IF k = "iso" THEN 1 ELSE 2]
MCCredit == [k \in MCKinds |-> IF k = "cmd" THEN 1 ELSE 2]

=============================================================================
