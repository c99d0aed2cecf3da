--------------------------- MODULE MCReplyLedger ---------------------------
(* Instances of ReplyLedger for TLC.                                       *)
EXTENDS ReplyLedger

CONSTANTS m1
=============================================================================
