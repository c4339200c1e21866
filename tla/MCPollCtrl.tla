----------------------------- MODULE MCPollCtrl -----------------------------
(***************************************************************************)
(* The instance of PollCtrl for TLC: its buffers are model values, none of *)
(* which has the number of the endpoint.  Without symmetry, because the    *)
(* run checks liveness.                                                    *)
(***************************************************************************)
EXTENDS PollCtrl

ASSUME EpIsNoBuffer == EpBuf \notin Bufs
=============================================================================
