----------------------------- MODULE MCIcapKernel -----------------------------
(***************************************************************************)
(* Instances of IcapKernel for TLC.                                        *)
(***************************************************************************)
EXTENDS IcapKernel

\* A command with a plain result and one whose response carries a buffer id.
MCCmd == {"START", "ADD_SRC"}
\* The same, and one that asks for a struct.
MCThreeCmd == MCCmd \cup {"GET_DEV_FEATURES"}
MCOneCmd == {"ADD_SRC"}
\* Failure, success, and a number to report.
MCRet == {-22, 0, 1}
MCOneRet == {1}

\* A state without `ran` and `result`, which no step of IcapKernel reads: two states
\* that differ in nothing else have the same future for a property that is silent
\* about them.
Unrecorded == <<instance, seqNum, platformLock, memory, pc, local, rx, channel, calls, call>>
=============================================================================
