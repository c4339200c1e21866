----------------------------- MODULE MCCmdSend -----------------------------
(***************************************************************************)
(* Instances of CmdSend for TLC.  The buffer ids are interchangeable in    *)
(* the runs that check only safety.                                        *)
(***************************************************************************)
EXTENDS CmdSend, TLC

BufSymmetry == Permutations(Bufs)
=============================================================================
