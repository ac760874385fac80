----------------------------- MODULE MCHtcSend -----------------------------
(***************************************************************************)
(* Instance of HtcSend for TLC.                                            *)
(***************************************************************************)
EXTENDS HtcSend
=============================================================================
