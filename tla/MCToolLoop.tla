----------------------------- MODULE MCToolLoop -----------------------------
(* An instance of ToolLoop for TLC: two rounds of up to three calls.        *)
EXTENDS ToolLoop
MCBatches == {<<"read", "read", "write">>, <<"read", "read", "read">>, <<"write", "read">>,
              <<"remove", "write">>, <<"write", "remove">>}
=============================================================================
