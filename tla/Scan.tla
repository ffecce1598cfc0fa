-------------------------------- MODULE Scan --------------------------------
(***************************************************************************)
(* scan of one agent with one attack (scan.py, cli.py), with the model     *)
(* that the environment selects (orchestrator.py).                         *)
(***************************************************************************)
EXTENDS LabProcess, Corpus, Detection

Roles == <<"scout", "analyst", "exploiter", "synthesizer", "reviewer">>

(* The category of each attack and the severity of its findings.           *)
Severity ==
  [indirect_prompt_injection |-> "high", token_theft |-> "high",
   shell_escape |-> "critical", sql_injection |-> "high", path_traversal |-> "high",
   email_exfiltration |-> "high", rag_poisoning |-> "high", browser_ssrf |-> "critical",
   code_act_privilege_escalation |-> "critical", tool_misuse |-> "medium",
   memory_poison |-> "high", plan_hijack |-> "critical", model_dos |-> "medium"]

(* The environment: LLM_PROVIDER, the two keys, and whether the OpenAI SDK *)
(* is installed.                                                           *)
Environment == [named : {"", "openai", "anthropic", "fake", "unknown"},
                openai : {"unset", "blank", "key"},
                anthropic : {"unset", "blank", "key"}, sdk : BOOLEAN]

(* A blank key selects its provider and then does not suffice for it.      *)
Requested(env) == IF env.named # "" THEN env.named
                  ELSE IF env.openai # "unset" THEN "openai"
                  ELSE IF env.anthropic # "unset" THEN "anthropic" ELSE "fake"

Provider(env) ==
  CASE Requested(env) = "openai" /\ ~(env.openai = "key" /\ env.sdk) -> "fake"
    [] Requested(env) = "anthropic" /\ env.anthropic # "key" -> "fake"
    [] OTHER -> Requested(env)

Live == [named |-> "anthropic", openai |-> "unset", anthropic |-> "key", sdk |-> FALSE]

ScanJobs ==
  [command : {"scan"}, agent : {"email_assistant"}, attack : {"sql_injection"},
   iterations : {1}, env : Environment]
  \union
  [command : {"scan"}, agent : {p.api : p \in Range(Profiles)} \union {"nobody"},
   attack : DOMAIN Severity \union {"nothing"}, iterations : {0, 1, 2, 101},
   env : {Live}]

-----------------------------------------------------------------------------
(* An agent, an attack and a number of iterations the lab knows.           *)
Resolved == /\ ResolveAgent(job.agent) # {}
            /\ job.attack \in DOMAIN Severity
            /\ 1 <= job.iterations /\ job.iterations <= 100

ScanTrace == LET agent == Profiles[CHOOSE i \in ResolveAgent(job.agent) : TRUE]
             IN Run(agent, PayloadFor(agent, job.attack), job.attack)

(* The mission is for indirect injection alone.                            *)
Indirect == Resolved /\ job.attack = "indirect_prompt_injection"

(* A provider nobody knows ends the command before it begins.              *)
StartScan ==
  /\ At("scan", "work")
  /\ pc' = IF Provider(job.env) = "unknown" THEN "raised"
           ELSE IF Indirect THEN "mission" ELSE "detect"
  /\ UNCHANGED <<job, log, errors, disk, odd>>

(* The orchestrator of the shared library drives the five roles and keeps  *)
(* an error as part of a result.                                           *)
Mission ==
  /\ At("scan", "mission")
  /\ \E failed \in BOOLEAN, role \in Range(Roles) :
       /\ failed => role \notin errors
       /\ Deviates(failed, FALSE)
       /\ errors' = IF failed THEN errors \union {role} ELSE errors
       /\ pc' = IF failed THEN pc ELSE "detect"
  /\ UNCHANGED <<job, log, disk>>

(* What the model answers: the fake one knows a single answer.             *)
Replies == IF Provider(job.env) = "fake" THEN {"malicious"} ELSE Answers

Detect_Uncaught ==
  /\ At("scan", "detect") /\ Resolved
  /\ \E a \in Replies :
       /\ Deviates(a, "malicious")
       /\ log' = IF LLMRaises(a) THEN log ELSE Append(log, Combined(ScanTrace, a))
       /\ pc' = IF LLMRaises(a) THEN "raised"
                ELSE IF Len(log') = job.iterations THEN "answered" ELSE pc
  /\ UNCHANGED <<job, errors, disk>>

Detect ==
  /\ At("scan", "detect") /\ Resolved
  /\ \E a \in Replies :
       /\ Deviates(a, "malicious")
       /\ IF LLMRaises(a)
          THEN /\ errors' = errors \union {"detector"}
               /\ log' = <<>>
               /\ pc' = "fallback"
          ELSE /\ log' = Append(log, Combined(ScanTrace, a))
               /\ pc' = IF Len(log') = job.iterations THEN "answered" ELSE pc
               /\ UNCHANGED errors
  /\ UNCHANGED <<job, disk>>

(* Input that cannot be resolved gives an envelope without findings.       *)
Unresolved ==
  /\ At("scan", "detect") /\ ~Resolved
  /\ pc' = "answered"
  /\ UNCHANGED <<job, log, errors, disk, odd>>

(* All iterations again, without the model.                                *)
Fallback ==
  /\ At("scan", "fallback")
  /\ log' = [i \in 1..job.iterations |-> Heuristic(ScanTrace)]
  /\ pc' = "answered"
  /\ UNCHANGED <<job, errors, disk, odd>>

(* One finding for all iterations that were not safe.                      *)
ScanFindings(verdicts) ==
  LET hits == Count(verdicts, LAMBDA v : v # "safe")
  IN IF hits = 0 THEN {}
     ELSE {[severity |-> Severity[job.attack], hits |-> hits,
            sure |-> Count(verdicts, LAMBDA v : v = "malicious") > 0,
            successes |-> IF ScanTrace.tool # "" THEN job.iterations ELSE 0]}

Scans == StartScan \/ Mission \/ Detect \/ Unresolved \/ Fallback

=============================================================================
