------------------------------ MODULE MCIcapFifo ------------------------------
(***************************************************************************)
(* Instances of IcapFifo for TLC: the cfg files give every constant.       *)
(***************************************************************************)
EXTENDS IcapFifo
=============================================================================
