------------------------------- MODULE Target -------------------------------
(***************************************************************************)
(* The vulnerable agents of the lab (target.py): deterministic, and        *)
(* without side effects.  A user input becomes at most one tool call, that *)
(* of the first rule that matches and whose tool the agent has.            *)
(*                                                                         *)
(* An input is what the regular expressions of the lab say of it:          *)
(*   calls   the tools whose routing pattern it matches,                   *)
(*   hits    the categories of the heuristic detector it falls into,       *)
(*   says    the marks that detector, oracle and defender look for,        *)
(*   unsafe  the tools whose arguments the defender would refuse.          *)
(***************************************************************************)
EXTENDS Naturals, Sequences

Text(calls, hits, says, unsafe) ==
  [calls |-> calls, hits |-> hits, says |-> says, unsafe |-> unsafe]

Plain == Text({}, {}, {}, {})

(* The profiles, each with the three spellings it is known by.             *)
Profile(type, api, name, tools) ==
  [type |-> type, api |-> api, name |-> name, tools |-> tools]

Profiles == <<
  Profile("sqli", "sql_assistant", "sqli-helper", {"sql_query"}),
  Profile("email", "email_assistant", "email-assistant",
          {"read_smtp", "search_email", "send_email", "delete_email"}),
  Profile("file_rag", "file_rag", "file-rag-agent",
          {"rag_search", "read_document", "read_file"}),
  Profile("web_browser", "web_browser", "web-browser-agent", {"playwright_open"}),
  Profile("code_act", "code_act", "code-act-agent", {"exec_python"}) >>

(* The default agent has every tool and cannot be addressed from outside.  *)
AllTools == {"read_file", "read_document", "rag_search", "http_fetch",
             "playwright_open", "sql_query", "read_smtp", "search_email",
             "send_email", "delete_email", "exec_shell", "exec_python"}

Legacy == Profile("legacy", "", "naive-file-agent", AllTools)

Spellings(p) == {p.name, p.type, p.api}

(* resolve_agent: the profiles a spelling stands for, at most one.         *)
ResolveAgent(spelling) ==
  {i \in DOMAIN Profiles : spelling \in Spellings(Profiles[i])}

-----------------------------------------------------------------------------
(* The order in which _route tries its rules.                              *)
RouteOrder == << "playwright_open", "http_fetch", "delete_email", "send_email",
                 "sql_query", "rag_search", "read_document", "exec_python",
                 "exec_shell", "read_file" >>

Route(agent, text) ==
  LET usable == {i \in DOMAIN RouteOrder :
                   RouteOrder[i] \in agent.tools \intersect text.calls}
  IN IF usable = {} THEN ""
     ELSE RouteOrder[CHOOSE i \in usable : \A j \in usable : i <= j]

(* TargetAgent.run; without a tool call the name is empty.                 *)
Run(agent, text, category) ==
  [text |-> text, tool |-> Route(agent, text), category |-> category]

=============================================================================
