-------------------------- MODULE MCDemoController --------------------------
(* A TLC instance of DemoController: two runs, the threads of the first may *)
(* meet the second.  The proxy answers the reader of the first, which does  *)
(* not ask whether its runner lives, and the monitor of the second; the     *)
(* passes of the other two threads find nothing.                           *)
EXTENDS DemoController

MCAnswered == {<<1, "reader">>, <<2, "monitor">>}
=============================================================================
