--------------------------- MODULE MCHostObjects ---------------------------
(* Small instance of HostObjects for TLC. *)
EXTENDS HostObjects, TLC

CONSTANTS o1, o2, o3

(* Three addresses: two objects live at once while a third is freed and  *)
(* reused.  Round calls return up to two messages.                       *)
MCAddrs == {o1, o2, o3}
MCMaxMsgs == 2

(* A host that always passes an out (err_out) pointer, and one that may *)
(* pass null.                                                            *)
MCOutPtrsValid == {"valid"}
MCOutPtrsAll == {"null", "valid"}
MCErrOutPtrsValid == {"valid"}
MCErrOutPtrsAll == {"null", "valid"}

=============================================================================
