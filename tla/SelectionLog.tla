---------------------------- MODULE SelectionLog ----------------------------
(***************************************************************************)
(* What the visual trainer promises of its checkpoint selection, whatever  *)
(* container it runs in and however often it is interrupted: the durable   *)
(* selection is that of one run that evaluates its seed and then one epoch *)
(* after the other, and never judges an epoch twice or with another state. *)
(***************************************************************************)
EXTENDS SafetySelection, Sequences

CONSTANTS Boxes, None

VARIABLES log,        \* the seed's evaluation, then those of the epochs
          selection   \* the selection state, or None before the first epoch

Begin(box, first) ==
    /\ log' = <<Aligned(box), Aligned(first)>>
    /\ selection' = NextState(InitialState(Aligned(box)), Aligned(first))

Judge(box) ==
    /\ log # <<>>
    /\ log' = Append(log, Aligned(box))
    /\ selection' = NextState(selection, Aligned(box))

\* Only the operator's --force, on the default attempt, discards epochs.
Discard ==
    /\ log' = <<>>
    /\ selection' = None

Init ==
    /\ log = <<>>
    /\ selection = None

Next ==
    \/ \E box, first \in Boxes : log = <<>> /\ Begin(box, first)
    \/ \E box \in Boxes : Judge(box)
    \/ Discard

Spec == Init /\ [][Next]_<<log, selection>>

=============================================================================
