----------------------------- MODULE RunStatus -----------------------------
(***************************************************************************)
(* The life-cycle states of an evaluation run and the transition table     *)
(* that `require_transition` enforces (ai_agent_lab/domain/runs.py).       *)
(***************************************************************************)

Active   == {"queued", "preparing", "running", "evaluating"}
Terminal == {"completed", "failed", "cancelled"}

Statuses == Active \union Terminal

(* The successors of each status.  Every active status may also fail or    *)
(* be cancelled; a terminal status has no successor.                       *)
Transitions ==
  LET forward == [queued     |-> "preparing",
                  preparing  |-> "running",
                  running    |-> "evaluating",
                  evaluating |-> "completed"]
  IN  [s \in Statuses |-> IF s \in Active
                            THEN {forward[s], "failed", "cancelled"}
                            ELSE {}]

(* require_transition(current, target) returns; it raises ValueError when  *)
(* this is false.                                                          *)
MayTransition(current, target) == target \in Transitions[current]

=============================================================================
