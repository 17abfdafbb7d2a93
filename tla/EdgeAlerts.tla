----------------------------- MODULE EdgeAlerts ----------------------------
(***************************************************************************)
(* What the scheduler promises the owner of a thesis: evaluations are      *)
(* recorded one after another, and an alert is raised only for one that    *)
(* finds the signal on when the evaluation before it found it off          *)
(* ("Detect a signal that just flipped true", scheduler_service.py:269).   *)
(* An owner without a linked chat gets none.                               *)
(***************************************************************************)
EXTENDS Naturals

CONSTANT Ids         \* ids of evaluations, numbers in created_at order

VARIABLES newest,    \* [id, firing] of the newest evaluation, id 0 for none
          alerted    \* ids of the evaluations an alert row cites

NoEvaluation == [id |-> 0, firing |-> FALSE]

Init == /\ newest = NoEvaluation
        /\ alerted = {}

Record(id, firing) ==
  /\ id > newest.id
  /\ newest' = [id |-> id, firing |-> firing]
  /\ \/ alerted' = alerted
     \/ /\ firing /\ ~newest.firing
        /\ alerted' = alerted \union {id}

Next == \E id \in Ids, firing \in BOOLEAN : Record(id, firing)

Spec == Init /\ [][Next]_<<newest, alerted>>
=============================================================================
