----------------------------- MODULE SandboxRun -----------------------------
(***************************************************************************)
(* Sandbox.run_python (sandbox.py): a caller that starts a guarded Python  *)
(* process in a temporary directory, waits for it with a deadline, kills   *)
(* it when that has passed and removes the directory.  The process runs    *)
(* code that may try what the guards forbid, start further processes, exit *)
(* or never end.                                                           *)
(*                                                                         *)
(* communicate() returns when the child has ended and the pipes for its    *)
(* output are closed everywhere; a process started by the child inherits   *)
(* them unless the code redirects its output.  The guards live inside the  *)
(* child and do not reach the processes it starts (sandbox.py:16-21).      *)
(***************************************************************************)
CONSTANT Kids          \* processes the child may start

VARIABLES
  policy,    \* the fields of SandboxPolicy that choose the guards
  caller,    \* where run_python is
  outcome,   \* what it returns or raises
  child,     \* the direct child, and why it ended
  kids,      \* kids[k]: a process the child has started
  late,      \* timeout_s has passed
  marker,    \* SANDBOX_BLOCKED is on the child's standard error
  dir        \* the temporary directory exists

vars == <<policy, caller, outcome, child, kids, late, marker, dir>>

Policy == [read_only_filesystem : BOOLEAN, allow_network : BOOLEAN]

(* The processes that keep the pipes open.                                 *)
Holders == {k \in Kids : kids[k] = "holds_pipes"}

PipesClosed == child # "running" /\ Holders = {}

Init == /\ policy \in Policy
        /\ caller = "called"
        /\ outcome = "none"
        /\ child = "none"
        /\ kids = [k \in Kids |-> "none"]
        /\ late = FALSE
        /\ marker = FALSE
        /\ dir = FALSE

-----------------------------------------------------------------------------
(* The caller *)

Start ==
  /\ caller = "called"
  /\ caller' = "waiting"
  /\ dir' = TRUE
  /\ child' = "running"
  /\ UNCHANGED <<policy, outcome, kids, late, marker>>

Verdict_Unread == "result"

(* A result is returned whatever the return code is.                       *)
Verdict == IF marker THEN "violation" ELSE "result"

(* The first communicate() ends in time.                                   *)
Collect ==
  /\ caller = "waiting" /\ PipesClosed
  /\ caller' = "leaving"
  /\ outcome' = Verdict
  /\ UNCHANGED <<policy, child, kids, late, marker, dir>>

Kill_Skipped ==
  /\ caller = "waiting" /\ late
  /\ caller' = "draining"
  /\ UNCHANGED <<policy, outcome, child, kids, late, marker, dir>>

(* The deadline has passed: kill() reaches the direct child only, and does *)
(* nothing to one that has ended.                                          *)
Kill ==
  /\ caller = "waiting" /\ late
  /\ caller' = "draining"
  /\ child' = IF child = "running" THEN "killed" ELSE child
  /\ UNCHANGED <<policy, outcome, kids, late, marker, dir>>

Drain_AtOnce ==
  /\ caller = "draining"
  /\ caller' = "leaving"
  /\ outcome' = "timeout"
  /\ UNCHANGED <<policy, child, kids, late, marker, dir>>

(* The second communicate() has no deadline.                               *)
Drain ==
  /\ caller = "draining" /\ PipesClosed
  /\ caller' = "leaving"
  /\ outcome' = "timeout"
  /\ UNCHANGED <<policy, child, kids, late, marker, dir>>

(* The with statement removes the directory on every way out.  That the    *)
(* removal succeeds is assumed.                                            *)
Leave ==
  /\ caller = "leaving"
  /\ caller' = "answered"
  /\ dir' = FALSE
  /\ UNCHANGED <<policy, outcome, child, kids, late, marker>>

Expire ==
  /\ caller = "waiting" /\ ~late
  /\ late' = TRUE
  /\ UNCHANGED <<policy, caller, outcome, child, kids, marker, dir>>

-----------------------------------------------------------------------------
(* The code *)

(* open, os.open, rename, replace, link and symlink are guarded when they  *)
(* write, and socket creation.                                             *)
Guarded(op) == \/ op = "write" /\ policy.read_only_filesystem
               \/ op = "socket" /\ ~policy.allow_network

(* A guard raises PermissionError.  Code that does not catch it ends with  *)
(* a traceback that holds the marker, which nobody sees if the code has    *)
(* closed or redirected its standard error.                                *)
Refused(op) ==
  /\ child = "running" /\ Guarded(op)
  /\ \/ child' = "refused" /\ marker' = TRUE
     \/ child' = "refused_unseen" /\ UNCHANGED marker
  /\ UNCHANGED <<policy, caller, outcome, kids, late, dir>>

(* Nothing stops the code from printing the marker itself.                 *)
PrintMarker ==
  /\ child = "running" /\ ~marker
  /\ marker' = TRUE
  /\ UNCHANGED <<policy, caller, outcome, child, kids, late, dir>>

(* Whoever runs may start a process; only one that has the pipes can hand  *)
(* them on.                                                                *)
Running == {"holds_pipes", "redirected"}

Spawn(k) ==
  /\ kids[k] = "none"
  /\ \/ /\ child = "running" \/ Holders # {}
        /\ kids' = [kids EXCEPT ![k] = "holds_pipes"]
     \/ /\ child = "running" \/ \E other \in Kids : kids[other] \in Running
        /\ kids' = [kids EXCEPT ![k] = "redirected"]
  /\ UNCHANGED <<policy, caller, outcome, child, late, marker, dir>>

Exit ==
  /\ child = "running"
  /\ child' = "exited"
  /\ UNCHANGED <<policy, caller, outcome, kids, late, marker, dir>>

KidExits(k) ==
  /\ kids[k] \in Running
  /\ kids' = [kids EXCEPT ![k] = "exited"]
  /\ UNCHANGED <<policy, caller, outcome, child, late, marker, dir>>

-----------------------------------------------------------------------------
Caller == Start \/ Collect \/ Kill \/ Drain \/ Leave

Code == \/ \E op \in {"write", "socket"} : Refused(op)
        \/ PrintMarker \/ Exit
        \/ \E k \in Kids : Spawn(k) \/ KidExits(k)

Next == Caller \/ Expire \/ Code

Spec == Init /\ [][Next]_vars

(* The caller goes on and time passes; the code owes nothing.              *)
FairSpec == Spec /\ WF_vars(Caller) /\ WF_vars(Expire)

-----------------------------------------------------------------------------
TypeOK ==
  /\ policy \in Policy
  /\ caller \in {"called", "waiting", "draining", "leaving", "answered"}
  /\ outcome \in {"none", "result", "violation", "timeout"}
  /\ child \in {"none", "running", "exited", "refused", "refused_unseen", "killed"}
  /\ kids \in [Kids -> {"none", "holds_pipes", "redirected", "exited"}]
  /\ late \in BOOLEAN /\ marker \in BOOLEAN /\ dir \in BOOLEAN

(* When run_python answers, in whatever way, the child has ended, nobody   *)
(* writes to the pipes any more and the directory is gone.                 *)
AnswerMeansQuiet ==
  /\ outcome # "none" => PipesClosed
  /\ caller = "answered" => ~dir

(* A policy violation that ends the code with a traceback is reported as   *)
(* one, unless the deadline passes first; a timeout is reported only after *)
(* the deadline.                                                           *)
RefusalsReported ==
  /\ child = "refused" => outcome # "result"
  /\ outcome = "timeout" => late

(* The caller is answered, however long the code runs, unless a process    *)
(* that was started by it keeps the pipes open for ever: the kill does not *)
(* reach that one, and the second communicate() waits without a deadline.  *)
AnsweredUnlessHeld == <>(caller = "answered") \/ <>[](Holders # {})

=============================================================================
