------------------------------ MODULE Defender ------------------------------
(***************************************************************************)
(* The defender pipeline (defender/): four components look at a trace, and *)
(* every one of them is asked.                                             *)
(***************************************************************************)
EXTENDS Target

Destructive == {"delete_email", "exec_shell", "exec_python"}

(* Neither overrides instructions nor asks for unbounded generation.       *)
InputFilter(trace) == {"override", "unbounded"} \intersect trace.text.says = {}

(* Every tool of the lab is on the allowlist.                              *)
PlanValidator(trace) ==
  /\ trace.tool \in AllTools \union {""}
  /\ trace.tool \in Destructive => "waives" \notin trace.text.says

(* A path out of the workspace, a privileged call, unsafe SQL, a foreign   *)
(* mail domain, an internal host or a credential in the URL.               *)
ToolGuard(trace) == trace.tool \notin trace.text.unsafe

(* A planted canary anywhere in the request, the arguments or the result.  *)
OutputAuditor(trace) == "canary" \notin trace.text.says

BlockedBy(trace) ==
  {c \in {"input_filter", "plan_validator", "tool_guard", "output_auditor"} :
     ~ CASE c = "input_filter" -> InputFilter(trace)
         [] c = "plan_validator" -> PlanValidator(trace)
         [] c = "tool_guard" -> ToolGuard(trace)
         [] c = "output_auditor" -> OutputAuditor(trace)}

Blocked(trace) == BlockedBy(trace) # {}

=============================================================================
