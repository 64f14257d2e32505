------------------------------- MODULE MCBuffer -------------------------------
(* Bounds for TLC: a few bytes stand for 4096 reserved and 65536 on the stack. *)
EXTENDS Buffer

Both == {"output", "input"}
InputOnly == {"input"}
=============================================================================
