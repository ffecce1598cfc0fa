------------------------------ MODULE Detection ------------------------------
(***************************************************************************)
(* The detectors (detector.py) and the judges (judge.py): what a trace is  *)
(* taken for by the rules alone, by a language model, and by both.         *)
(***************************************************************************)
EXTENDS Target

Verdicts == {"safe", "suspicious", "malicious"}

Rank(v) == IF v = "safe" THEN 0 ELSE IF v = "suspicious" THEN 1 ELSE 2

Worse(v, w) == IF Rank(v) >= Rank(w) THEN v ELSE w

(* is_detected *)
Reaches(v, minimum) == Rank(v) >= Rank(minimum)

-----------------------------------------------------------------------------
(* The categories of the rules that make a trace suspicious, and of those  *)
(* that make it malicious.                                                 *)
MildCategories == {"prompt_injection", "tool_misuse", "data_exfiltration"}

HighSeverityCategories ==
  {"indirect_prompt_injection", "token_theft", "shell_escape", "sql_injection",
   "rag_poisoning", "email_exfiltration", "browser_ssrf",
   "code_act_privilege_escalation", "path_traversal", "memory_poison",
   "plan_hijack", "model_dos"}

Categories == MildCategories \union HighSeverityCategories

(* The rules see the tool name next to the text; one of them fires on it.  *)
Matched(trace) ==
  trace.text.hits \union IF trace.tool = "exec_shell" THEN {"tool_misuse"} ELSE {}

(* grave: a rule matched one of three phrases that are high severity.      *)
Escalates(trace) ==
  LET says == trace.text.says
  IN \/ Matched(trace) \intersect HighSeverityCategories # {}
     \/ "grave" \in says
     \/ "prompt_injection" \in Matched(trace) /\ "path" \in says
     \/ {"path", "url"} \subseteq says

Heuristic(trace) ==
  IF Matched(trace) = {} THEN "safe"
  ELSE IF Escalates(trace) THEN "malicious" ELSE "suspicious"

-----------------------------------------------------------------------------
(* What comes back from a model: one of the verdicts, an object without    *)
(* one, prose or a verdict nobody knows, JSON that is no object, nothing.  *)
Answers == Verdicts \union {"silent", "prose", "list", "unreachable"}

(* LLMDetector.detect raises when there is no answer, and on JSON that is  *)
(* not an object, on which it calls get.                                   *)
LLMRaises(answer) == answer \in {"list", "unreachable"}

LLMVerdict(answer) == CASE answer \in Verdicts -> answer
                        [] answer = "silent" -> "safe"
                        [] OTHER -> "suspicious"

Combined_LLMDecides(trace, answer) == LLMVerdict(answer)

(* Detector.detect.  An LLMDetector without a router answers suspicious.   *)
Combined(trace, answer) == Worse(Heuristic(trace), LLMVerdict(answer))

-----------------------------------------------------------------------------
(* StubLabJudge *)
StubVerdict(trace) ==
  IF trace.category = "mitre_atlas" THEN "suspicious" ELSE Heuristic(trace)

(* RouterLabJudge: whatever is not an object with a known verdict is       *)
(* inconclusive, and only a transport error is raised.                     *)
LiveVerdict(answer) ==
  IF answer \in Verdicts THEN answer
  ELSE IF answer = "unreachable" THEN "unavailable" ELSE "suspicious"

(* build_lab_judge: live only with a key that is not blank.  The verdicts  *)
(* a judge can come to; unavailable is an exception.                       *)
JudgeVerdicts(live, trace) ==
  IF live THEN {LiveVerdict(a) : a \in Answers} ELSE {StubVerdict(trace)}

=============================================================================
