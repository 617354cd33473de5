------------------------------ MODULE MCDuplex ------------------------------
(* One exchange through the duplex on small instances. *)
EXTENDS DuplexProperties, TLC
=============================================================================
