---------------------------- MODULE MCMsgFraming ----------------------------
(* MsgFraming for TLC: an empty body, a short one, and one whose bytes     *)
(* read like a header.                                                     *)
EXTENDS MsgFraming

MCBodies == {<<>>, <<1>>, <<0, 1>>}
=============================================================================
