------------------------------- MODULE Corpus -------------------------------
(***************************************************************************)
(* The labelled inputs of the lab: the canonical attacks and the benign    *)
(* samples that resemble them (attacks.py), and the injections a scan      *)
(* makes up for the agent it addresses (scan.py).  Each row is what the    *)
(* regular expressions of the lab say of that text.                        *)
(***************************************************************************)
EXTENDS Target

(* All scenarios are expected to be malicious.                             *)
Scenario(name, category, text) ==
  [name |-> name, category |-> category, text |-> text, expected |-> "malicious"]

Scenarios == <<
  Scenario("indirect-web-injection", "indirect_prompt_injection",
    Text({"playwright_open", "send_email"},
         {"indirect_prompt_injection", "prompt_injection"},
         {"attacker", "override", "resource", "token", "url"}, {"send_email"})),
  Scenario("token-theft-canary", "token_theft",
    Text({"playwright_open"}, {"data_exfiltration", "token_theft"},
         {"canary", "grave", "token", "url"}, {"playwright_open"})),
  Scenario("shell-escape-sh-c", "shell_escape",
    Text({"exec_python", "exec_shell"},
         {"code_act_privilege_escalation", "shell_escape"},
         {"spawns"}, {"exec_python", "exec_shell"})),
  Scenario("sqli-or-true", "sql_injection",
    Text({"sql_query"}, {"sql_injection"}, {"tautology"}, {"sql_query"})),
  Scenario("path-traversal-shadow", "path_traversal",
    Text({"read_file"}, {"data_exfiltration", "path_traversal"},
         {"climbs", "path"}, {"read_file"})),
  Scenario("email-exfil-forward", "email_exfiltration",
    Text({"send_email"}, {"email_exfiltration"},
         {"attacker", "canary", "token"}, {"send_email"})),
  Scenario("rag-poison-instruction", "rag_poisoning",
    Text({"rag_search"}, {"prompt_injection", "rag_poisoning"},
         {"override", "resource"}, {})),
  Scenario("ssrf-cloud-metadata", "browser_ssrf",
    Text({"playwright_open"}, {"browser_ssrf"}, {"metadata", "url"},
         {"playwright_open"})),
  Scenario("code-act-privilege", "code_act_privilege_escalation",
    Text({"exec_python", "exec_shell"}, {"code_act_privilege_escalation"},
         {"canary", "spawns"}, {"exec_python", "exec_shell"})),
  Scenario("tool-misuse-rm-rf", "tool_misuse",
    Text({"delete_email"}, {"tool_misuse"}, {"grave", "waives"}, {})),
  Scenario("memory-poison-recall", "memory_poison",
    Text({"send_email"}, {"email_exfiltration", "memory_poison", "prompt_injection"},
         {"attacker", "override", "resource", "token"}, {"send_email"})),
  Scenario("plan-hijack-scratchpad", "plan_hijack",
    Text({"delete_email"}, {"plan_hijack", "prompt_injection", "tool_misuse"},
         {"grave", "override", "resource", "waives"}, {})),
  Scenario("model-dos-unbounded-generation", "model_dos",
    Text({"exec_python"}, {"model_dos"}, {"unbounded"}, {})) >>

(* The first scenario of a category; every category has exactly one.       *)
ScenarioOf(category) ==
  Scenarios[CHOOSE i \in DOMAIN Scenarios : Scenarios[i].category = category]

-----------------------------------------------------------------------------
(* The benign samples, in the order of the corpus.                         *)
NearMisses == <<
  Plain, Text({"exec_shell"}, {}, {}, {}), Text({}, {}, {"resource"}, {}),
  Text({"sql_query"}, {}, {"tautology"}, {}), Text({}, {}, {"climbs"}, {}),
  Text({}, {}, {"path"}, {}), Plain, Plain, Plain,
  Text({"exec_shell"}, {}, {"spawns"}, {"exec_shell"}),
  Text({"read_file"}, {}, {}, {}), Plain >>

DiscussionAndTools == <<
  Plain, Plain, Plain, Plain, Plain, Plain, Text({"exec_shell"}, {}, {}, {}),
  Text({"exec_shell"}, {}, {}, {}), Text({"delete_email"}, {}, {}, {}),
  Text({"read_file"}, {}, {}, {}), Plain,
  Text({"http_fetch"}, {}, {"url"}, {}), Text({}, {}, {"path"}, {}),
  Text({}, {}, {"path"}, {}), Plain, Text({}, {}, {"url"}, {}), Plain, Plain,
  Plain, Plain >>

CodeAndQueries == <<
  Plain, Text({"exec_shell"}, {}, {"spawns"}, {}), Plain,
  Text({}, {}, {"spawns"}, {}), Text({"sql_query"}, {}, {}, {}), Plain,
  Text({"sql_query"}, {}, {}, {}), Text({"sql_query"}, {}, {"tautology"}, {}),
  Text({}, {}, {"climbs"}, {}),
  Text({"read_file"}, {}, {"climbs"}, {"read_file"}),
  Text({"read_file"}, {}, {}, {}), Plain, Text({}, {}, {"url"}, {}),
  Text({"send_email"}, {}, {}, {}), Text({"send_email"}, {}, {}, {}),
  Text({"exec_shell"}, {}, {"spawns"}, {}), Text({"exec_python"}, {}, {}, {}) >>

GeneralTraffic == [i \in 1..17 |-> Plain]

BenignCorpus == NearMisses \o DiscussionAndTools \o CodeAndQueries \o GeneralTraffic

-----------------------------------------------------------------------------
(* _payload_for: indirect injection is aimed at the tool of the agent.     *)
InjectionFor ==
  [sqli |-> Text({"sql_query"},
       {"indirect_prompt_injection", "prompt_injection", "sql_injection"},
       {"override", "resource", "tautology"}, {"sql_query"}),
   email |-> Text({"send_email"}, {"indirect_prompt_injection", "prompt_injection"},
       {"attacker", "canary", "override", "resource", "token"}, {"send_email"}),
   file_rag |-> Text({"rag_search"},
       {"indirect_prompt_injection", "prompt_injection", "rag_poisoning"},
       {"override", "resource"}, {}),
   web_browser |-> Text({"playwright_open"},
       {"indirect_prompt_injection", "prompt_injection"},
       {"override", "resource", "url"}, {}),
   code_act |-> Text({"exec_python", "exec_shell"},
       {"code_act_privilege_escalation", "indirect_prompt_injection",
        "prompt_injection"},
       {"canary", "override", "resource", "spawns"}, {"exec_python", "exec_shell"})]

PayloadFor(agent, category) ==
  IF category = "indirect_prompt_injection" THEN InjectionFor[agent.type]
                                            ELSE ScenarioOf(category).text

=============================================================================
