-------------------------------- MODULE Lab --------------------------------
(***************************************************************************)
(* The offline half of the lab as a whole: a process runs one command over *)
(* the agents, the corpus, the detectors, the oracle and the defender.     *)
(***************************************************************************)
EXTENDS Campaign, Benchmark, Scan, Scores

Jobs == ImportJobs \union PlanJobs \union AtlasJobs \union BenchmarkJobs
          \union ScanJobs \union MetricsJobs \union DefendJobs \union RunJobs

(* An earlier command may have left files under the same names.            *)
Init == /\ job \in Jobs
        /\ pc = "work"
        /\ log = <<>>
        /\ errors = {}
        /\ disk \in [md : {"none", "old"}, json : {"none", "old"}, temp : {"none"}]
        /\ odd = 0

Next == Campaigns \/ Benchmarks \/ Scans \/ Evaluations

Spec == Init /\ [][Next]_vars

-----------------------------------------------------------------------------
Uses(records, p) == Count(records, LAMBDA r : r.payload = p)

(* A campaign uses every payload of its tactic before it uses one again    *)
(* (run_atlas_tactic, ExecutionPlan.materialize): at no time has one been  *)
(* used twice more often than another.                                     *)
PoolExhaustedFirst ==
  job.command \in {"atlas", "plan"} =>
    \A p, q \in Payloads : Uses(log, p) - Uses(log, q) <= 1

(* A judge that fails costs the verdict of one iteration or task and       *)
(* nothing else: all of them are recorded, in order, with what was found   *)
(* out about them without the judge; the rates count each record once, and *)
(* those of the judge the judged ones.                                     *)
FailuresContained ==
  /\ job.command = "atlas" /\ pc \in {"evidence", "report", "answered"} =>
       /\ Len(log) = job.iterations
       /\ LET safe == Count(log, LAMBDA r : r.verdict = "safe")
          IN Envelope(log).findings + Envelope(log).errors + safe = job.iterations
  /\ job.command = "benchmark" =>
       /\ \A n \in DOMAIN log : log[n] = Record(Tasks[n], log[n].judged)
       /\ pc \in {"evidence", "report", "answered"} /\ ~job.dry => Len(log) = Len(Tasks)

(* The rates of a benchmark fit together: every record is in one cell of   *)
(* the confusion matrix and in the dimension of one agent, a benign task   *)
(* is never an attack that succeeded, and a task without a verdict is no   *)
(* agreement and no disagreement of the judge.                             *)
RatesFit ==
  job.command = "benchmark" =>
    LET all == Overall(log)
        quality == Quality(log)
        unjudged == Count(log, LAMBDA r : r.judged = "unavailable")
        Agents(Of(_)) == Of(ByAgent(log, 1)) + Of(ByAgent(log, 2)) + Of(ByAgent(log, 3))
                           + Of(ByAgent(log, 4)) + Of(ByAgent(log, 5))
    IN /\ quality.tp + quality.fn = all.successes
       /\ quality.fp + quality.tn = all.total - all.successes
       /\ quality.refusals = all.benign - all.completed
       /\ all.total = Len(log) /\ all.attacks + all.benign = all.total
       /\ all.attacks = Agents(LAMBDA d : d.attacks)
       /\ all.successes = Agents(LAMBDA d : d.successes)
       /\ all.completed = Agents(LAMBDA d : d.completed)
       /\ Agreement(log).judged = Len(log) - unjudged

(* What a command writes before it answers.                                *)
Outputs ==
  CASE job.command = "metrics" -> {"md", "json"}
    [] job.command = "atlas" -> {job.report, "json"}
    [] job.command = "benchmark" -> IF job.dry THEN {} ELSE {job.report, "json"}
    [] job.command = "run" -> {job.report} \union IF job.json THEN {"json"} ELSE {}
    [] OTHER -> {}

Whole(file) == disk[file] \in {"report", "evidence"}
Kept(file) == disk[file] \in {"none", "old"}

(* No report without its evidence: a Markdown report that this command has *)
(* begun to write refers to evidence that is complete, and of this run.    *)
EvidenceFirst ==
  job.command \in {"atlas", "benchmark"} /\ job.report = "md" /\ ~Kept("md")
    => disk.json = "evidence"

(* A command answers with its files when all of them are written, and      *)
(* touches no others.  If a write fails, one file is torn at most: one of  *)
(* a benchmark only under its temporary name, and one whose command lives  *)
(* on only when it holds what a model said.                                *)
LossesContained ==
  /\ pc = "answered" => \A s \in {"md", "json"} : IF s \in Outputs THEN Whole(s) ELSE Kept(s)
  /\ \A s \in {"md", "json"} \ Outputs : Kept(s)
  /\ \A s, u \in DOMAIN disk : disk[s] = "partial" /\ disk[u] = "partial" => s = u
  /\ disk.temp # "none" => job.command = "benchmark" /\ pc = "raised"
  /\ \A s \in {"md", "json"} : disk[s] = "partial" =>
       /\ job.command # "benchmark"
       /\ pc = "raised" \/ (job.command = "atlas" /\ job.live /\ pc = "refused")

(* Whatever a model answers, and if it does not answer at all, what the    *)
(* heuristic finds is reported as malicious; and a scan that reports the   *)
(* detector as failed holds no verdict in which a model had a part, while  *)
(* one that had to fall back reports it.                                   *)
HeuristicNeverSilenced ==
  /\ job.command = "scan" /\ pc = "fallback" => "detector" \in errors
  /\ job.command = "scan" /\ pc = "answered" /\ Resolved =>
       /\ \/ Heuristic(ScanTrace) # "malicious"
          \/ \E f \in ScanFindings(log) : f.sure /\ f.hits = job.iterations
       /\ Len(log) = job.iterations
       /\ "detector" \in errors => Range(log) = {Heuristic(ScanTrace)}
  /\ job.command = "run" =>
       \A n \in DOMAIN log :
         Heuristic(ScenarioTrace(Legacy, Scenarios[n])) = "malicious" => log[n].detected

(* The number of records of a command that writes files.                   *)
Due == CASE job.command = "atlas" -> job.iterations
         [] job.command = "benchmark" -> Len(Tasks)
         [] job.command = "run" -> Len(Scenarios)
         [] job.command = "metrics" -> 1
         [] OTHER -> 0

(* A command dies for a file it cannot write, when all its records are     *)
(* made; for a provider it does not know, for a plan that is not valid,    *)
(* for a model that run could not reach, and for a plugin that brings a    *)
(* tactic which is registered under another name; never for a judge, a     *)
(* mission or a scan.                                                      *)
DeathsExplained ==
  pc = "raised" =>
    \/ Outputs # {} /\ Len(log) = Due
    \/ job.command = "run" /\ job.router /\ Len(log) < Len(Scenarios)
    \/ job.command = "plan" /\ log = <<>>
    \/ job.command = "scan" /\ job.env.named = "unknown"
    \/ job.command = "import" /\
         \E i \in DOMAIN job.plugins : /\ job.plugins[i].gives \in Registered
                                       /\ job.plugins[i].name # job.plugins[i].gives

-----------------------------------------------------------------------------
(* The inductive invariant: for each command where it can be, and what it  *)
(* has recorded and written by then.                                       *)

TypeOK == /\ job \in Jobs
          /\ pc \in {"work", "mission", "detect", "fallback", "evidence", "report",
                      "results", "answered", "refused", "raised"}
          /\ errors \subseteq Range(Roles) \union {"detector"}
          /\ disk \in [md : {"none", "old", "partial", "report"},
                        json : {"none", "old", "partial", "report", "evidence"},
                        temp : {"none", "partial"}]
          /\ odd \in Nat

(* What a command that is at work has written so far.                      *)
Written ==
  CASE pc = "answered" -> Outputs
    [] pc = "results" -> {IF job.command = "metrics" THEN "md" ELSE job.report}
    [] pc = "report" /\ job.command \in {"atlas", "benchmark"} -> {"json"}
    [] OTHER -> {}

(* The files: those of a command at work or done, and those of one that    *)
(* came to grief.                                                          *)
DiskOK ==
  /\ pc \notin {"refused", "raised"} =>
       /\ \A s \in {"md", "json"} : IF s \in Written THEN Whole(s) ELSE Kept(s)
       /\ pc = "report" /\ job.command \in {"atlas", "benchmark"} => disk.json = "evidence"
       /\ pc \in {"evidence", "report", "results"} => Written \subseteq Outputs
  /\ EvidenceFirst
  /\ LossesContained

ImportOK ==
  job.command = "import" =>
    /\ log \in Seq(BuiltIn \union Foreign \union {"skipped"})
    /\ \/ pc # "raised"
       \/ \E i \in DOMAIN job.plugins : /\ job.plugins[i].gives \in Registered
                                        /\ job.plugins[i].name # job.plugins[i].gives

(* The block that is not yet full holds different payloads, each of which  *)
(* has been used once more than there are full blocks.                     *)
Block(records) ==
  LET n == Len(records)
      begun == n - (n % Cardinality(Payloads))
  IN {records[i].payload : i \in (begun + 1)..n}

EvenlyUsed(records) ==
  LET n == Len(records)
      m == Cardinality(Payloads)
  IN /\ Cardinality(Block(records)) = n % m
     /\ \A p \in Payloads :
          Uses(records, p) = n \div m + IF p \in Block(records) THEN 1 ELSE 0

PoolOK == (job.command \in {"atlas", "plan"} => EvenlyUsed(log))

PlanOK ==
  job.command = "plan" =>
    /\ log \in Seq([payload : Payloads])
    /\ pc \in {"work", "answered", "raised"}
    /\ ~PlanValid => log = <<>>
    /\ pc = "raised" => ~PlanValid

AtlasOK ==
  job.command = "atlas" =>
    /\ log \in Seq([payload : Payloads, verdict : Verdicts \union {"unavailable"}])
    /\ pc \in {"work", "refused", "evidence", "report", "answered", "raised"}
    /\ pc \in {"evidence", "report", "answered", "raised"} => Len(log) = job.iterations

BenchmarkOK ==
  job.command = "benchmark" =>
    /\ log \in Seq({Record(t, v) : t \in Range(Tasks),
                            v \in Verdicts \union {"unavailable"}})
    /\ pc \in {"work", "evidence", "report", "answered", "raised"}
    /\ pc = "work" => Len(log) < Len(Tasks)
    /\ pc \in {"evidence", "report", "raised"} => Len(log) = Len(Tasks)
    /\ pc = "answered" /\ ~job.dry => Len(log) = Len(Tasks)
    /\ job.dry => pc \in {"work", "answered"}
    /\ \A n \in DOMAIN log : log[n] = Record(Tasks[n], log[n].judged)

ScanOK ==
  job.command = "scan" =>
    /\ log \in Seq(Verdicts)
    /\ pc \in {"work", "mission", "detect", "fallback", "answered", "raised"}
    /\ pc = "raised" => job.env.named = "unknown"
    /\ pc = "fallback" => Resolved /\ "detector" \in errors
    /\ pc \in {"work", "mission", "detect"} => "detector" \notin errors
    /\ pc = "answered" /\ Resolved =>
         /\ Len(log) = job.iterations
         /\ "detector" \in errors => Range(log) = {Heuristic(ScanTrace)}
    /\ Resolved /\ Heuristic(ScanTrace) = "malicious" =>
         \A i \in DOMAIN log : log[i] = "malicious"

MetricsOK ==
  job.command = "metrics" =>
    /\ log \in {<<>>, <<Measured>>}
    /\ pc \in {"work", "report", "results", "answered", "raised"}
    /\ pc \in {"report", "results", "raised"} => log = <<Measured>>

RunOK ==
  job.command = "run" =>
    /\ log \in Seq({[attack |-> s.name, verdict |-> v, detected |-> Reaches(v, s.expected)] :
                   s \in Range(Scenarios), v \in Verdicts})
    /\ pc \in {"work", "report", "results", "answered", "raised"}
    /\ pc = "work" => Len(log) < Len(Scenarios)
    /\ pc \in {"report", "results", "answered"} => Len(log) = Len(Scenarios)
    /\ pc = "results" => job.json
    /\ pc = "raised" => Len(log) = Len(Scenarios) \/ (job.router /\ Len(log) < Len(Scenarios))
    /\ \A n \in DOMAIN log :
         Heuristic(ScenarioTrace(Legacy, Scenarios[n])) = "malicious" => log[n].detected

DefendOK ==
  job.command = "defend" =>
    /\ log \in {<<>>, <<DefenseReport>>}
    /\ pc \in {"work", "answered"}

IInv == /\ TypeOK
        /\ DiskOK /\ ImportOK /\ PoolOK /\ PlanOK /\ AtlasOK /\ BenchmarkOK
        /\ ScanOK /\ MetricsOK /\ RunOK /\ DefendOK

=============================================================================
