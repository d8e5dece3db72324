--------------------------- MODULE MCToolChannel ----------------------------
(* TLC instances of ToolChannel: one request at a time, as an agent that    *)
(* waits for each answer sends them, or two in flight together, as one that *)
(* times out and retries does.                                              *)
EXTENDS ToolChannel

(* No marker, one that is repeated, two, one that may come again in a later *)
(* completion.                                                              *)
MCMarkers == { << >>, <<"a", "a">>, <<"a", "b">>, <<"b">> }
=============================================================================
