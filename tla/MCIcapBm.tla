------------------------------- MODULE MCIcapBm -------------------------------
(***************************************************************************)
(* Instances of IcapBm for TLC.                                            *)
(***************************************************************************)
EXTENDS IcapBm

\* A command whose response carries a buffer id.
MCOneCmd == {"ADD_SRC"}
MCNote == {"FRAG_READY"}

\* Callbacks fail or give buffer id 0.
MCRet == {-22, 0}
MCOneRet == {0, 1}
=============================================================================
