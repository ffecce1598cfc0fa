------------------------------ MODULE Campaign ------------------------------
(***************************************************************************)
(* ATLAS campaigns: the registry of tactics with its plugins               *)
(* (atlas/registry.py), the execution plans (attack_contracts.py), and     *)
(* run_atlas_tactic with its report (runner.py, cli.py).                   *)
(***************************************************************************)
EXTENDS LabProcess, Detection

CONSTANTS Payloads,     \* the variants of the tactic
          Iterations,   \* the numbers of iterations that are asked for
          BuiltIn,      \* the tactics that come with the lab
          Foreign       \* tactics of other distributions

ASSUME PoolAssumption == Payloads # {} /\ IsFiniteSet(Payloads)

-----------------------------------------------------------------------------
(* The registry: plugins are loaded when it is imported, one after the     *)
(* other.  An entry point has a name and stands for a tactic, for an       *)
(* import that fails or for something else.                                *)

Plugins == [name : BuiltIn \union Foreign,
            gives : BuiltIn \union Foreign \union {"broken", "other"}]

ImportJobs == [command : {"import"}, plugins : [1..2 -> Plugins]]

(* log holds the ids that were added, and "skipped" for the rest.          *)
Registered == BuiltIn \union (Range(log) \ {"skipped"})

LoadPlugin ==
  /\ At("import", "work") /\ Len(log) < Len(job.plugins)
  /\ LET plugin == job.plugins[Len(log) + 1]
         skips == plugin.name \in Registered \/ plugin.gives \in {"broken", "other"}
     IN IF ~skips /\ plugin.gives \in Registered
        THEN pc' = "raised" /\ UNCHANGED log
        ELSE /\ log' = Append(log, IF skips THEN "skipped" ELSE plugin.gives)
             /\ pc' = IF Len(log') = Len(job.plugins) THEN "answered" ELSE pc
  /\ UNCHANGED <<job, errors, disk, odd>>

-----------------------------------------------------------------------------
(* The choice of the payloads, of plans and campaigns alike: shuffled      *)
(* copies of the pool, one after the other, cut to length.                 *)

Chosen(records) == [i \in DOMAIN records |-> records[i].payload]

Fresh_WithReplacement(records) == Payloads

Fresh(records) ==
  LET n == Len(records)
      begun == n - (n % Cardinality(Payloads))
  IN Payloads \ Range(SubSeq(Chosen(records), begun + 1, n))

InRange(n) == 1 <= n /\ n <= 100

(* The channels and the agents each of them reaches.                       *)
SupportedAgents ==
  [direct |-> {p.api : p \in Range(Profiles)}, email_resource |-> {"email_assistant"},
   document_resource |-> {"file_rag"}, web_resource |-> {"web_browser"},
   tool_output |-> {p.api : p \in Range(Profiles)}]

PlanJobs == [command : {"plan"}, known : BOOLEAN, iterations : Iterations,
             strategy : DOMAIN SupportedAgents, agent : {"file_rag", "web_browser"}]

(* build_execution_plan *)
PlanValid == /\ job.known /\ InRange(job.iterations)
             /\ job.agent \in SupportedAgents[job.strategy]

PlanRefuse ==
  /\ At("plan", "work") /\ ~PlanValid
  /\ pc' = "raised"
  /\ UNCHANGED <<job, log, errors, disk, odd>>

Materialize ==
  /\ At("plan", "work") /\ PlanValid
  /\ \E p \in Fresh(log) : log' = Append(log, [payload |-> p])
  /\ pc' = IF Len(log') = job.iterations THEN "answered" ELSE pc
  /\ UNCHANGED <<job, errors, disk, odd>>

-----------------------------------------------------------------------------
(* scan with an ATLAS id.  report is the suffix of the report; the         *)
(* evidence always gets .json.                                             *)

AtlasJobs == [command : {"atlas"}, known : BOOLEAN, iterations : Iterations,
              live : BOOLEAN, report : {"md", "json"}]

(* An unknown tactic or agent and a number out of range are answered with  *)
(* an envelope that holds the error; nothing is written.                   *)
AtlasRefuse ==
  /\ At("atlas", "work") /\ ~(job.known /\ InRange(job.iterations))
  /\ pc' = "refused"
  /\ UNCHANGED <<job, log, errors, disk, odd>>

AtlasTrace == [text |-> Plain, tool |-> "", category |-> "mitre_atlas"]

AtlasIterate_Propagates ==
  /\ At("atlas", "work") /\ job.known /\ InRange(job.iterations)
  /\ \E p \in Fresh(log), v \in JudgeVerdicts(job.live, AtlasTrace) :
       /\ Deviates(v, "suspicious")
       /\ log' = IF v = "unavailable" THEN log
                 ELSE Append(log, [payload |-> p, verdict |-> v])
       /\ pc' = IF v = "unavailable" \/ Len(log') = job.iterations
                THEN "evidence" ELSE pc
  /\ UNCHANGED <<job, errors, disk>>

(* A judge that raises leaves a record without a verdict.                  *)
AtlasIterate ==
  /\ At("atlas", "work") /\ job.known /\ InRange(job.iterations)
  /\ \E p \in Fresh(log), v \in JudgeVerdicts(job.live, AtlasTrace) :
       /\ Deviates(v, "suspicious")
       /\ log' = Append(log, [payload |-> p, verdict |-> v])
  /\ pc' = IF Len(log') = job.iterations THEN "evidence" ELSE pc
  /\ UNCHANGED <<job, errors, disk>>

(* atlas_run_to_envelope *)
Envelope(records) ==
  [findings |-> Count(records, LAMBDA r : r.verdict \in {"suspicious", "malicious"}),
   errors |-> Count(records, LAMBDA r : r.verdict = "unavailable")]

(* What a model said may not be encodable as UTF-8.  That is a ValueError,  *)
(* which the command answers as it answers a request it refuses.           *)
EvidenceUnencodable ==
  /\ job.live
  /\ pc' = "refused"
  /\ Put("json", "partial")
  /\ UNCHANGED <<job, log, errors, odd>>

AtlasEvidence ==
  /\ At("atlas", "evidence")
  /\ WriteText("json", "evidence", "report") \/ EvidenceUnencodable

AtlasReport == At("atlas", "report") /\ WriteText(job.report, "report", "answered")

Campaigns == \/ LoadPlugin \/ PlanRefuse \/ Materialize
             \/ AtlasRefuse \/ AtlasIterate \/ AtlasEvidence \/ AtlasReport

=============================================================================
