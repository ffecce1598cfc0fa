----------------------------- MODULE TenantStore -----------------------------
(***************************************************************************)
(* Requests of many tenants against one database: the handlers of          *)
(* api/app.py, each in a thread of its own, authenticate an API key,       *)
(* check a permission and create, read and cancel runs and projects;       *)
(* meanwhile keys are revoked and expire, workers settle runs, projects    *)
(* are renamed and deleted through ProjectRepository.                      *)
(*                                                                         *)
(* One action per SQL statement.  Both databases behave the same at this   *)
(* grain: PostgreSQL reads committed rows (READ COMMITTED), and the SQLite *)
(* driver runs a SELECT outside of any transaction.  An INSERT is merged   *)
(* with its commit, since a second INSERT of the same key waits for it and *)
(* no SELECT sees what is not committed.                                   *)
(*                                                                         *)
(* What a worker does with a run is RunLease's subject: here a run is      *)
(* "active" until it is "settled" (completed or failed) or "cancelled".    *)
(* The secret of a key is a black box: only its holder has it.             *)
(***************************************************************************)
EXTENDS Naturals, AccessControl

CONSTANTS Tenants,
          Projects,     \* project ids, each made by new_id once
          Runs,         \* run ids, likewise
          Keys,         \* API key ids
          IdemKeys,     \* idempotency keys that clients choose
          Names,        \* project names
          Callers,      \* request handlers that may run at a time
          KeyTenant,    \* the tenant and the roles
          KeyRoles,     \*   that each key is issued for
          Operations,   \* what the callers of an instance do
          Fleeting,     \* the keys that are revoked or expire in a behaviour
          MaxVersion,   \* bound on the version of a project
          None

ASSUME KeysAssumption ==
  /\ KeyTenant \in [Keys -> Tenants]
  /\ KeyRoles \in [Keys -> (SUBSET Roles) \ {{}}]
ASSUME OperationsAssumption == Operations \subseteq Routes \union {"rename"}
ASSUME IdsAssumption ==
  /\ Projects \intersect Runs = {}
  /\ None \notin Tenants \union Projects \union Runs \union Keys
  /\ None \notin IdemKeys \union Names
  /\ None \notin Operations
ASSUME BoundAssumption == MaxVersion \in Nat \ {0}

VARIABLES
  issued, revoked, expired,   \* api_keys: the keys with such a row
  projects,                   \* projects[p]: the row of project p
  runs,                       \* runs[r]: the row of run r
  req,                        \* req[c]: the request that c handles
  told,                       \* history: the run each create_run answered
  renamed                     \* history: the renames that returned True

keyVars == <<issued, revoked, expired>>
vars == <<issued, revoked, expired, projects, runs, req, told, renamed>>

RunStatuses == {"active", "settled", "cancelled"}

ProjectRow == [status  : {"absent", "exists", "deleted"},
               tenant  : Tenants \union {None},
               name    : Names \union {None},
               version : Nat]
RunStates == RunStatuses \union {"absent", "deleted"}

RunRow == [status  : RunStates,
           tenant  : Tenants \union {None},
           project : Projects \union {None},
           idem    : IdemKeys \union {None}]

NoProject == [status |-> "absent", tenant |-> None, name |-> None, version |-> 0]
NoRun == [status |-> "absent", tenant |-> None, project |-> None, idem |-> None]

ProjectExists(p) == projects[p].status = "exists"
RunExists(r) == runs[r].status \in RunStatuses

(* What a client asks for; the fields that an operation does not use stay  *)
(* None.  `rename` has no route: its key only stands for the tenant that   *)
(* the repository is bound to.                                             *)
Ask == [op      : Operations \union {None},
        key     : Keys \union {None},
        project : Projects \union {None},
        run     : Runs \union {None},
        idem    : IdemKeys \union {None},
        name    : Names \union {None},
        version : Nat]
NoAsk == [op |-> None, key |-> None, project |-> None, run |-> None,
          idem |-> None, name |-> None, version |-> 0]

Codes == {"ok", "refused", "authentication_required", "permission_denied",
          "project_not_found", "run_not_found", "run_not_cancellable",
          "internal_error"}

(* late: the key was revoked or out of date when the request came in.      *)
(* record: the row that `authenticate` has read.  code, rows, status: the  *)
(* answer.                                                                 *)
Request == [pc     : {"idle", "lookup", "check", "start", "project", "write",
                      "reread", "done"},
            ask    : Ask,
            late   : BOOLEAN,
            record : {"none", "valid", "revoked"},
            code   : Codes \union {None},
            rows   : SUBSET (Projects \union Runs),
            status : RunStates \union {None}]
NoRequest == [pc |-> "idle", ask |-> NoAsk, late |-> FALSE, record |-> "none",
              code |-> None, rows |-> {}, status |-> None]

Init ==
  /\ issued = {} /\ revoked = {} /\ expired = {}
  /\ projects = [p \in Projects |-> NoProject]
  /\ runs = [r \in Runs |-> NoRun]
  /\ req = [c \in Callers |-> NoRequest]
  /\ told = {}
  /\ renamed = {}

-----------------------------------------------------------------------------
(* API keys: the commands issue-api-key and revoke-api-key, and time *)

Issue(k) ==
  /\ k \notin issued
  /\ issued' = issued \union {k}
  /\ UNCHANGED <<revoked, expired, projects, runs, req, told, renamed>>

Revoke(k) ==
  /\ k \in (issued \ revoked) \intersect Fleeting
  /\ revoked' = revoked \union {k}
  /\ UNCHANGED <<issued, expired, projects, runs, req, told, renamed>>

Expire(k) ==
  /\ k \in (issued \ expired) \intersect Fleeting
  /\ expired' = expired \union {k}
  /\ UNCHANGED <<issued, revoked, projects, runs, req, told, renamed>>

-----------------------------------------------------------------------------
(* What comes in from outside, and what becomes of it *)

KnownProjects == {p \in Projects : projects[p].status # "absent"}
KnownRuns == {r \in Runs : runs[r].status # "absent"}

CreatesProject(k, n) ==
  [NoAsk EXCEPT !.op = "create_project", !.key = k, !.name = n]
Lists(k) == [NoAsk EXCEPT !.op = "list_projects", !.key = k]
CreatesRun(k, p, i) ==
  [NoAsk EXCEPT !.op = "create_run", !.key = k, !.project = p, !.idem = i]
OnRun(op, k, r) == [NoAsk EXCEPT !.op = op, !.key = k, !.run = r]
Renames(k, p, n, v) ==
  [NoAsk EXCEPT !.op = "rename", !.key = k, !.project = p, !.name = n,
                !.version = v]

(* The requests that make sense to someone: ids that were given out,       *)
(* versions that were read.                                                *)
Asks(k) ==
  {CreatesProject(k, n) : n \in Names}
  \union {Lists(k)}
  \union {CreatesRun(k, p, i) : p \in KnownProjects, i \in IdemKeys}
  \union {OnRun(op, k, r) : op \in {"get_run", "cancel_run"}, r \in KnownRuns}
  \union {ask \in {Renames(k, p, n, v) : p \in KnownProjects, n \in Names,
                                        v \in 1..MaxVersion} :
            ask.version <= projects[ask.project].version}

Send(c, k) ==
  /\ req[c].pc \in {"idle", "done"}
  /\ \E ask \in Asks(k) :
       /\ ask.op \in Operations
       /\ req' = [req EXCEPT ![c] =
            [NoRequest EXCEPT
               !.pc = IF ask.op \in Routes THEN "lookup" ELSE "start",
               !.ask = ask,
               !.late = k \in revoked \union expired]]
  /\ UNCHANGED <<keyVars, projects, runs, told, renamed>>

(* Of a finished request, what no property asks for is forgotten.          *)
Finished(ask) == [ask EXCEPT !.project = None, !.name = None, !.version = 0]

Answered(c, code, rows, status) ==
  [req EXCEPT ![c] = [req[c] EXCEPT !.pc = "done",
                                    !.ask = Finished(req[c].ask),
                                    !.code = code,
                                    !.rows = rows,
                                    !.status = status]]

Refuse(c, code) == req' = Answered(c, code, {}, None)

At(c, pc, op) == req[c].pc = pc /\ req[c].ask.op = op

(* The tenant of the principal, and of the repositories bound to it.       *)
Context(c) == KeyTenant[req[c].ask.key]

(* SELECT ... WHERE id = ... AND tenant_id = ..., without the tenant.      *)
OwnRun_AnyTenant(c, r) == RunExists(r)

OwnRun(c, r) == RunExists(r) /\ runs[r].tenant = Context(c)
OwnProject(c, p) == ProjectExists(p) /\ projects[p].tenant = Context(c)

-----------------------------------------------------------------------------
(* Authentication and authorization *)

(* The session that reads the key is closed before anything is checked.    *)
LookUpKey(c) ==
  LET k == req[c].ask.key IN
  /\ req[c].pc = "lookup"
  /\ req' = [req EXCEPT ![c].pc = "check",
                        ![c].record = IF k \notin issued THEN "none"
                                      ELSE IF k \in revoked THEN "revoked"
                                      ELSE "valid"]
  /\ UNCHANGED <<keyVars, projects, runs, told, renamed>>

(* Only the revocation is looked at.                                       *)
Authenticate_NoExpiry(c) ==
  LET ask == req[c].ask IN
  /\ req[c].pc = "check"
  /\ IF req[c].record # "valid"
       THEN Refuse(c, "authentication_required")
     ELSE IF ~Permits(KeyRoles[ask.key], Needs[ask.op])
       THEN Refuse(c, "permission_denied")
     ELSE req' = [req EXCEPT ![c].pc = "start"]
  /\ UNCHANGED <<keyVars, projects, runs, told, renamed>>

(* The clock is read after the record.                                     *)
Authenticate(c) ==
  LET ask == req[c].ask IN
  /\ req[c].pc = "check"
  /\ IF req[c].record # "valid" \/ ask.key \in expired
       THEN Refuse(c, "authentication_required")
     ELSE IF ~Permits(KeyRoles[ask.key], Needs[ask.op])
       THEN Refuse(c, "permission_denied")
     ELSE req' = [req EXCEPT ![c].pc = "start"]
  /\ UNCHANGED <<keyVars, projects, runs, told, renamed>>

-----------------------------------------------------------------------------
(* Projects *)

(* uq_projects_tenant_name *)
NameTaken(tenant, name, except) ==
  \E q \in Projects \ {except} : /\ ProjectExists(q)
                                 /\ projects[q].tenant = tenant
                                 /\ projects[q].name = name

(* Nothing looks for the name before; a violated constraint is an          *)
(* IntegrityError that nobody handles.                                     *)
CreateProject(c) ==
  LET name == req[c].ask.name IN
  /\ At(c, "start", "create_project")
  /\ \/ /\ NameTaken(Context(c), name, None)
        /\ Refuse(c, "internal_error")
        /\ UNCHANGED projects
     \/ /\ ~NameTaken(Context(c), name, None)
        /\ \E p \in Projects :
             /\ projects[p].status = "absent"
             /\ projects' = [projects EXCEPT ![p] =
                  [status |-> "exists", tenant |-> Context(c), name |-> name,
                   version |-> 1]]
             /\ req' = Answered(c, "ok", {p}, None)
  /\ UNCHANGED <<keyVars, runs, told, renamed>>

(* Of more than 100 projects the oldest 100.                               *)
ListProjects(c) ==
  /\ At(c, "start", "list_projects")
  /\ req' = Answered(c, "ok", {p \in Projects : OwnProject(c, p)}, None)
  /\ UNCHANGED <<keyVars, projects, runs, told, renamed>>

ReadForRename(c) ==
  /\ At(c, "start", "rename")
  /\ IF OwnProject(c, req[c].ask.project)
       THEN req' = [req EXCEPT ![c].pc = "write"]
       ELSE Refuse(c, "refused")
  /\ UNCHANGED <<keyVars, projects, runs, told, renamed>>

(* The version the caller expects is not in the WHERE clause.              *)
Rename_AnyVersion(c) ==
  LET ask == req[c].ask
      p == ask.project
      matches == OwnProject(c, p)
      taken == NameTaken(Context(c), ask.name, p)
  IN
  /\ At(c, "write", "rename")
  /\ projects[p].version < MaxVersion
  /\ \/ /\ matches /\ ~taken
        /\ projects' = [projects EXCEPT ![p].name = ask.name, ![p].version = @ + 1]
        /\ renamed' = renamed \union {<<p, ask.version>>}
        /\ req' = Answered(c, "ok", {p}, None)
     \/ /\ ~matches \/ taken
        /\ Refuse(c, IF matches THEN "internal_error" ELSE "refused")
        /\ UNCHANGED <<projects, renamed>>
  /\ UNCHANGED <<keyVars, runs, told>>

Rename(c) ==
  LET ask == req[c].ask
      p == ask.project
      matches == OwnProject(c, p) /\ projects[p].version = ask.version
      taken == NameTaken(Context(c), ask.name, p)
  IN
  /\ At(c, "write", "rename")
  /\ projects[p].version < MaxVersion
  /\ \/ /\ matches /\ ~taken
        /\ projects' = [projects EXCEPT ![p].name = ask.name, ![p].version = @ + 1]
        /\ renamed' = renamed \union {<<p, ask.version>>}
        /\ req' = Answered(c, "ok", {p}, None)
     \/ /\ ~matches \/ taken
        /\ Refuse(c, IF matches THEN "internal_error" ELSE "refused")
        /\ UNCHANGED <<projects, renamed>>
  /\ UNCHANGED <<keyVars, runs, told>>

(* ProjectRepository.delete and the cascade to the runs.                   *)
DeleteProject(p) ==
  /\ ProjectExists(p)
  /\ projects' = [projects EXCEPT ![p].status = "deleted"]
  /\ runs' = [r \in Runs |->
       IF RunExists(r) /\ runs[r].project = p
         THEN [runs[r] EXCEPT !.status = "deleted"] ELSE runs[r]]
  /\ UNCHANGED <<keyVars, req, told, renamed>>

-----------------------------------------------------------------------------
(* Runs *)

(* There is no unique constraint.                                          *)
KeyTaken_NoConstraint(tenant, idem) == FALSE

(* uq_runs_tenant_idempotency *)
KeyTaken(tenant, idem) ==
  \E r \in Runs : /\ RunExists(r)
                  /\ runs[r].tenant = tenant
                  /\ runs[r].idem = idem

Tell(c, r) ==
  /\ req' = Answered(c, "ok", {r}, runs'[r].status)
  /\ told' = told \union
       {[tenant |-> Context(c), idem |-> req[c].ask.idem, run |-> r]}

(* create_idempotent, the first SELECT.  What else the request asks for is *)
(* not compared with the run that is found.                                *)
FindReplay(c) ==
  /\ At(c, "start", "create_run")
  /\ \/ \E r \in Runs :
          /\ OwnRun(c, r)
          /\ runs[r].idem = req[c].ask.idem
          /\ UNCHANGED runs
          /\ Tell(c, r)
     \/ /\ ~KeyTaken(Context(c), req[c].ask.idem)
        /\ req' = [req EXCEPT ![c].pc = "project"]
        /\ UNCHANGED <<runs, told>>
  /\ UNCHANGED <<keyVars, projects, renamed>>

(* The project is looked up by its id alone.                               *)
FindProject_AnyTenant(c) ==
  /\ At(c, "project", "create_run")
  /\ IF ProjectExists(req[c].ask.project)
       THEN req' = [req EXCEPT ![c].pc = "write"]
       ELSE Refuse(c, "project_not_found")
  /\ UNCHANGED <<keyVars, projects, runs, told, renamed>>

(* The second SELECT.                                                      *)
FindProject(c) ==
  /\ At(c, "project", "create_run")
  /\ IF OwnProject(c, req[c].ask.project)
       THEN req' = [req EXCEPT ![c].pc = "write"]
       ELSE Refuse(c, "project_not_found")
  /\ UNCHANGED <<keyVars, projects, runs, told, renamed>>

(* Two arguments are mixed up.                                             *)
NewRun_Swapped(c) == [status  |-> "active",
                      tenant  |-> Context(c),
                      project |-> req[c].ask.idem,
                      idem    |-> req[c].ask.project]

NewRun(c) == [status  |-> "active",
              tenant  |-> Context(c),
              project |-> req[c].ask.project,
              idem    |-> req[c].ask.idem]

(* The INSERT.  A unique or foreign key that is violated is an             *)
(* IntegrityError, which the handler does not expect.                      *)
InsertRun(c) ==
  LET possible == /\ ~KeyTaken(Context(c), req[c].ask.idem)
                  /\ ProjectExists(req[c].ask.project)
  IN
  /\ At(c, "write", "create_run")
  /\ \/ /\ ~possible
        /\ Refuse(c, "internal_error")
        /\ UNCHANGED <<runs, told>>
     \/ /\ possible
        /\ \E r \in Runs : /\ runs[r].status = "absent"
                           /\ runs' = [runs EXCEPT ![r] = NewRun(c)]
                           /\ Tell(c, r)
  /\ UNCHANGED <<keyVars, projects, renamed>>

GetRun(c) ==
  LET r == req[c].ask.run IN
  /\ At(c, "start", "get_run")
  /\ IF OwnRun(c, r)
       THEN req' = Answered(c, "ok", {r}, runs[r].status)
       ELSE Refuse(c, "run_not_found")
  /\ UNCHANGED <<keyVars, projects, runs, told, renamed>>

(* cancel: the SELECT and the early returns.                               *)
ReadForCancel(c) ==
  LET r == req[c].ask.run IN
  /\ At(c, "start", "cancel_run")
  /\ \/ /\ OwnRun(c, r) /\ runs[r].status = "cancelled"
        /\ req' = [req EXCEPT ![c].pc = "reread"]
     \/ /\ OwnRun(c, r) /\ runs[r].status = "active"
        /\ req' = [req EXCEPT ![c].pc = "write"]
     \/ /\ ~OwnRun(c, r) \/ runs[r].status = "settled"
        /\ Refuse(c, "run_not_cancellable")
  /\ UNCHANGED <<keyVars, projects, runs, told, renamed>>

(* cancel: the UPDATE and its row count.                                   *)
CancelRun(c) ==
  LET r == req[c].ask.run
      matches == OwnRun(c, r) /\ runs[r].status = "active"
  IN
  /\ At(c, "write", "cancel_run")
  /\ \/ /\ matches
        /\ runs' = [runs EXCEPT ![r].status = "cancelled"]
        /\ req' = [req EXCEPT ![c].pc = "reread"]
     \/ /\ ~matches
        /\ Refuse(c, "run_not_cancellable")
        /\ UNCHANGED runs
  /\ UNCHANGED <<keyVars, projects, told, renamed>>

(* The handler reads the run in a second session, which asks for the       *)
(* permission to read; its assertion fails when the run is gone.           *)
RereadCancelled(c) ==
  LET r == req[c].ask.run IN
  /\ At(c, "reread", "cancel_run")
  /\ IF OwnRun(c, r) /\ Permits(KeyRoles[req[c].ask.key], Needs["get_run"])
       THEN req' = Answered(c, "ok", {r}, runs[r].status)
       ELSE Refuse(c, "internal_error")
  /\ UNCHANGED <<keyVars, projects, runs, told, renamed>>

(* A worker's fenced UPDATE completes or fails a run.                      *)
Settle(r) ==
  /\ runs[r].status = "active"
  /\ runs' = [runs EXCEPT ![r].status = "settled"]
  /\ UNCHANGED <<keyVars, projects, req, told, renamed>>

-----------------------------------------------------------------------------

Handle(c) ==
  \/ LookUpKey(c)
  \/ Authenticate(c)
  \/ CreateProject(c)
  \/ ListProjects(c)
  \/ ReadForRename(c)
  \/ Rename(c)
  \/ FindReplay(c)
  \/ FindProject(c)
  \/ InsertRun(c)
  \/ GetRun(c)
  \/ ReadForCancel(c)
  \/ CancelRun(c)
  \/ RereadCancelled(c)

Next ==
  \/ \E k \in Keys : Issue(k) \/ Revoke(k) \/ Expire(k)
  \/ \E c \in Callers : (\E k \in Keys : Send(c, k)) \/ Handle(c)
  \/ \E p \in Projects : DeleteProject(p)
  \/ \E r \in Runs : Settle(r)

Spec == Init /\ [][Next]_vars

-----------------------------------------------------------------------------
(* Properties *)

(* The type invariant of this module.                                      *)
TypeOK ==
  /\ issued \subseteq Keys
  /\ revoked \subseteq issued
  /\ expired \subseteq issued
  /\ projects \in [Projects -> ProjectRow]
  /\ runs \in [Runs -> RunRow]
  /\ req \in [Callers -> Request]
  /\ told \subseteq [tenant : Tenants, idem : IdemKeys, run : Runs]
  /\ renamed \subseteq Projects \X Nat

(* However creations race, an idempotency key has one run in its tenant.   *)
OneRunPerKey ==
  \A r, s \in Runs :
    /\ RunExists(r) /\ RunExists(s)
    /\ runs[r].tenant = runs[s].tenant
    /\ runs[r].idem = runs[s].idem
    => r = s

(* Two creations with one key that both succeed were told the same run,    *)
(* unless the run of one of them has been deleted.                         *)
ReplaysAgree ==
  \A a, b \in told :
    a.tenant = b.tenant /\ a.idem = b.idem =>
      \/ a.run = b.run
      \/ runs[a.run].status = "deleted"
      \/ runs[b.run].status = "deleted"

TenantOf(x) == IF x \in Runs THEN runs[x].tenant ELSE projects[x].tenant

(* A run belongs to an existing project of its tenant, whatever was        *)
(* deleted between the statements that made it, and no answer shows a row  *)
(* of another tenant.                                                      *)
TenantsApart ==
  /\ \A r \in Runs : RunExists(r) =>
       /\ ProjectExists(runs[r].project)
       /\ projects[runs[r].project].tenant = runs[r].tenant
  /\ \A c \in Callers : \A x \in req[c].rows : TenantOf(x) = Context(c)

(* A request that came in after its key was revoked or had expired gets no *)
(* further than the authentication.                                        *)
LateKeysRefused ==
  \A c \in Callers :
    req[c].late /\ req[c].ask.op \in Routes =>
      \/ req[c].pc \in {"lookup", "check"}
      \/ req[c].code = "authentication_required"

(* Of the renames that expect one version a single one succeeds, and none  *)
(* gets lost: each version of a project was replaced exactly once.         *)
NoLostRename ==
  \A p \in Projects :
    projects[p].status # "absent" =>
      {v \in 1..MaxVersion : <<p, v>> \in renamed} = 1..projects[p].version - 1

(* A cancellation that succeeds answers with a cancelled run.              *)
CancelShowsCancelled ==
  \A c \in Callers :
    At(c, "done", "cancel_run") /\ req[c].code = "ok" =>
      req[c].status = "cancelled"

-----------------------------------------------------------------------------
(* The inductive invariant *)

(* A request in progress has the arguments its operation reads.            *)
AsksComplete ==
  \A c \in Callers :
    LET ask == req[c].ask IN
    /\ req[c].pc # "idle" => ask.key \in Keys
    /\ req[c].pc \notin {"idle", "done"} =>
         /\ ask.op \in Operations
         /\ ask.op = "create_project" => ask.name \in Names
         /\ ask.op = "create_run" => ask.project \in Projects /\ ask.idem \in IdemKeys
         /\ ask.op \in {"get_run", "cancel_run"} => ask.run \in Runs
         /\ ask.op = "rename" => ask.project \in Projects /\ ask.name \in Names

(* What was told is still so.                                              *)
ToldKnown ==
  \A a \in told : /\ runs[a.run].status # "absent"
                  /\ runs[a.run].tenant = a.tenant
                  /\ runs[a.run].idem = a.idem

RunsInProjects ==
  \A r \in Runs : RunExists(r) =>
    /\ runs[r].project \in Projects
    /\ ProjectExists(runs[r].project)
    /\ projects[runs[r].project].tenant = runs[r].tenant

(* The project that the second SELECT of create_idempotent found is of the *)
(* tenant, though it may be gone by now.                                   *)
ProjectsOwned ==
  \A c \in Callers :
    At(c, "write", "create_run") =>
      /\ projects[req[c].ask.project].status # "absent"
      /\ projects[req[c].ask.project].tenant = Context(c)

RowsOwned ==
  \A c \in Callers : \A x \in req[c].rows :
    /\ req[c].pc = "done"
    /\ TenantOf(x) = Context(c)
    /\ IF x \in Runs THEN runs[x].status # "absent"
                     ELSE projects[x].status # "absent"

(* Why a late request will be refused.                                     *)
LateKnown ==
  \A c \in Callers :
    req[c].late /\ req[c].ask.op \in Routes =>
      LET k == req[c].ask.key IN
      /\ req[c].pc \in {"lookup", "check", "done"}
      /\ req[c].pc = "lookup" => k \in revoked \union expired
      /\ req[c].pc = "check" => req[c].record # "valid" \/ k \in expired

CancelledAtReread ==
  \A c \in Callers :
    At(c, "reread", "cancel_run") =>
      runs[req[c].ask.run].status \in {"cancelled", "deleted"}

VersionsCounted ==
  \A p \in Projects :
    /\ projects[p].version \in 0..MaxVersion
    /\ projects[p].status = "absent" <=> projects[p].version = 0
    /\ \A v \in 0..MaxVersion :
         <<p, v>> \in renamed <=> v \in 1..projects[p].version - 1

IInv ==
  /\ TypeOK
  /\ AsksComplete
  /\ OneRunPerKey
  /\ ToldKnown
  /\ RunsInProjects
  /\ ProjectsOwned
  /\ RowsOwned
  /\ LateKnown
  /\ LateKeysRefused
  /\ CancelledAtReread
  /\ CancelShowsCancelled
  /\ VersionsCounted

-----------------------------------------------------------------------------

(* What clients see of a request, and what they may ask for at all.        *)
DeskOf(q) ==
  CASE q.pc = "idle" -> [phase |-> "free"]
    [] q.pc = "done" -> [phase |-> "answered", code |-> q.code,
                         rows |-> q.rows, status |-> q.status]
    [] OTHER -> [phase |-> CASE q.pc = "reread" -> "cancelled"
                             [] q.pc = "check" /\ q.record # "valid" -> "barred"
                             [] OTHER -> "asked",
                 ask |-> q.ask, late |-> q.late]
Desk == [c \in Callers |-> DeskOf(req[c])]

AllAsks ==
  UNION {{CreatesProject(k, n) : n \in Names}
         \union {Lists(k)}
         \union {CreatesRun(k, p, i) : p \in Projects, i \in IdemKeys}
         \union {OnRun(op, k, r) : op \in {"get_run", "cancel_run"}, r \in Runs}
         \union {Renames(k, p, n, v) : p \in Projects, n \in Names,
                                       v \in 1..MaxVersion} : k \in Keys}

Service == INSTANCE TenantService WITH ended <- revoked \union expired,
                                       desk <- Desk, Requests <- AllAsks

(* Though handlers run their statements among those of others, each        *)
(* request takes effect at one moment, or is refused for a reason that is  *)
(* true at one (the WHERE clauses and constraints of the last statement).  *)
ImplementsService == Service!Spec

(* A key without an operator's or an administrator's role changes nothing. *)
ViewersChangeNothing ==
  [][\A c \in Callers :
       /\ req'[c] # req[c]
       /\ req[c].ask.op \in Routes
       /\ KeyRoles[req[c].ask.key] \intersect {"operator", "admin"} = {}
       => UNCHANGED <<projects, runs>>]_vars

(* A creation that meets a concurrent one with the same key is answered    *)
(* with the run, not with an error (the threat model has results reused).  *)
DuplicatesGetTheRun ==
  [][\A c \in Callers :
       /\ At(c, "write", "create_run")
       /\ req'[c].code = "internal_error"
       => ~KeyTaken(Context(c), req[c].ask.idem)]_vars

=============================================================================
