--------------------------- MODULE DeliveryStages ---------------------------
(***************************************************************************)
(* What the standard delivery promises about the dramas, whatever fails,   *)
(* dies or is answered late, and however often people have a drama         *)
(* delivered again: one delivery at a time, which is submitted at most     *)
(* once; M=1 for a task the platform has completed, after the submission;  *)
(* and the ledger for the task that the same delivery has written M=1 for. *)
(* StandardDelivery implements it.                                         *)
(***************************************************************************)
EXTENDS Naturals, Sequences

CONSTANTS Drama, Nobody

VARIABLES
    phase,      \* how far the delivery in progress has come
    served,     \* its drama
    tasks,      \* the drama of each task the platform has got
    completed,  \* the tasks the platform has completed
    marked,     \* per drama, the task that M=1 is for, or 0
    recorded    \* per drama, the task in the ledger, or 0

stages == <<phase, served, tasks, completed, marked, recorded>>

Init ==
    /\ phase = "idle" /\ served = Nobody
    /\ tasks = <<>> /\ completed = {}
    /\ marked = [d \in Drama |-> 0] /\ recorded = [d \in Drama |-> 0]

Begin(d) ==
    /\ phase = "idle"
    /\ phase' = "begun" /\ served' = d
    /\ UNCHANGED <<tasks, completed, marked, recorded>>

\* The platform gets the task, or the submission is lost.
Submit ==
    /\ phase = "begun" /\ phase' = "submitted"
    /\ tasks' \in {tasks, Append(tasks, served)}
    /\ UNCHANGED <<served, completed, marked, recorded>>

Complete(t) ==
    /\ completed' = completed \cup {t}
    /\ UNCHANGED <<phase, served, tasks, marked, recorded>>

Mark(t) ==
    /\ phase = "submitted" /\ phase' = "marked"
    /\ marked' = [marked EXCEPT ![served] = t]
    /\ UNCHANGED <<served, tasks, completed, recorded>>

End == phase' = "idle" /\ served' = Nobody /\ UNCHANGED <<tasks, completed, marked>>

Record ==
    /\ phase = "marked" /\ End
    /\ recorded' = [recorded EXCEPT ![served] = marked[served]]

\* It failed, was a rehearsal, is left uncertain, or died.
GiveUp == phase # "idle" /\ End /\ UNCHANGED recorded

Next ==
    \/ \E d \in Drama : Begin(d)
    \/ Submit \/ Record \/ GiveUp
    \/ \E t \in DOMAIN tasks \ completed : Complete(t)
    \/ \E t \in completed : Mark(t)

Spec == Init /\ [][Next]_stages
=============================================================================
