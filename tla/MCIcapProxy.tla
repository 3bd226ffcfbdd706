------------------------------ MODULE MCIcapProxy ------------------------------
(***************************************************************************)
(* An instance of IcapProxy for TLC.                                       *)
(***************************************************************************)
EXTENDS IcapProxy

MCCmd == {"START", "GET_DEV_FEATURES"}
MCRet == {-22, 0, 1}
MCLocalError == {-ICAP_ERROR_TIMEOUT}
=============================================================================
