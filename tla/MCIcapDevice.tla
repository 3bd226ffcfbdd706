----------------------------- MODULE MCIcapDevice -----------------------------
(***************************************************************************)
(* Instances of IcapDevice for TLC.                                        *)
(***************************************************************************)
EXTENDS IcapDevice

\* One device function whose response carries a buffer id, one without.
MCNote == {"FRAG_READY", "ERROR"}
\* A Linux application with a bare-metal device, and the other way round.
MCPairings == {[app |-> "kernel", dev |-> "bm"], [app |-> "bm", dev |-> "kernel"]}
MCRet == {-22, 0}
=============================================================================
