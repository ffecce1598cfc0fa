--------------------------- MODULE TenantService ---------------------------
(***************************************************************************)
(* What the API promises the clients of many tenants (docs/threat-model.md *)
(* and docs/commercial-spec.md, idempotent creation and cancellation): a   *)
(* request takes effect at one moment between its arrival and its answer,  *)
(* as if no other request ran, or it has no effect and is refused for a    *)
(* reason that is true at such a moment.  A request whose key had ended    *)
(* before it arrived never takes effect, and neither does one without the  *)
(* permission of its route; they learn nothing about projects and runs.    *)
(*                                                                         *)
(* Only a cancellation is answered later than it takes effect.             *)
(***************************************************************************)
EXTENDS Naturals, AccessControl

CONSTANTS Projects, Runs, Callers, KeyTenant, KeyRoles, None,
          Keys,
          Requests   \* all that clients may ask for

VARIABLES issued,    \* the keys that were given out
          ended,     \* the keys that are revoked or out of date
          projects, runs,
          desk       \* desk[c]: the request of caller c

vars == <<issued, ended, projects, runs, desk>>

Free == [phase |-> "free"]
Asked(ask) == [phase |-> "asked", ask |-> ask, late |-> ask.key \in ended]

Init ==
  /\ issued = {} /\ ended = {}
  /\ projects = [p \in Projects |->
       [status |-> "absent", tenant |-> None, name |-> None, version |-> 0]]
  /\ runs = [r \in Runs |->
       [status |-> "absent", tenant |-> None, project |-> None, idem |-> None]]
  /\ desk = [c \in Callers |-> Free]

Tenant(c) == KeyTenant[desk[c].ask.key]

ProjectExists(p) == projects[p].status = "exists"
RunExists(r) == runs[r].status \in {"active", "settled", "cancelled"}
OwnProject(c, p) == ProjectExists(p) /\ projects[p].tenant = Tenant(c)
OwnRun(c, r) == RunExists(r) /\ runs[r].tenant = Tenant(c)

(* Another project of the tenant than `except` has the name.               *)
NameTaken(c, name, except) ==
  \E p \in Projects \ {except} : OwnProject(c, p) /\ projects[p].name = name

KeyUsed(c, r) == OwnRun(c, r) /\ runs[r].idem = desk[c].ask.idem
KeyTaken(c) == \E r \in Runs : KeyUsed(c, r)

May(c, op) == ~desk[c].late /\ Permits(KeyRoles[desk[c].ask.key], Needs[op])

(* The request may take effect now.  A rename comes from within: it has no *)
(* route, and nothing to authenticate.                                     *)
Admitted(c, op) ==
  /\ desk[c].phase = "asked"
  /\ desk[c].ask.op = op
  /\ op \in Routes => May(c, op)

Answer(c, code, rows, status) ==
  desk' = [desk EXCEPT ![c] = [phase |-> "answered", code |-> code,
                               rows |-> rows, status |-> status]]

-----------------------------------------------------------------------------

Issue(k) ==
  /\ issued' = issued \union {k}
  /\ UNCHANGED <<ended, projects, runs, desk>>

End(k) ==
  /\ ended' = ended \union {k}
  /\ UNCHANGED <<issued, projects, runs, desk>>

Arrive(c) ==
  /\ desk[c].phase \in {"free", "answered"}
  /\ \E ask \in Requests : desk' = [desk EXCEPT ![c] = Asked(ask)]
  /\ UNCHANGED <<issued, ended, projects, runs>>

(* The key is not known, or not good any more.                             *)
Bar(c) ==
  /\ desk[c].phase = "asked"
  /\ desk[c].ask.key \notin issued \/ desk[c].ask.key \in ended
  /\ desk' = [desk EXCEPT ![c].phase = "barred"]
  /\ UNCHANGED <<issued, ended, projects, runs>>

(* The reasons there are for an answer other than "ok".                    *)
Because(c, code) ==
  LET ask == desk[c].ask IN
  \/ /\ code = "authentication_required"
     /\ \/ desk[c].phase = "barred"
        \/ desk[c].phase = "asked" /\ ask.key \in ended
  \/ /\ code = "permission_denied"
     /\ desk[c].phase = "asked"
     /\ ask.op \in Routes
     /\ ~desk[c].late /\ ~May(c, ask.op)
  \/ /\ code = "project_not_found"
     /\ Admitted(c, "create_run") /\ ~OwnProject(c, ask.project)
  \/ /\ code = "run_not_found"
     /\ Admitted(c, "get_run") /\ ~OwnRun(c, ask.run)
  \/ /\ code = "run_not_cancellable"
     /\ Admitted(c, "cancel_run")
     /\ ~(OwnRun(c, ask.run) /\ runs[ask.run].status = "active")
  \/ /\ code = "refused"
     /\ Admitted(c, "rename")
     /\ ~(OwnProject(c, ask.project) /\ projects[ask.project].version = ask.version)
  \/ /\ code = "internal_error"
     /\ \/ Admitted(c, "create_project") /\ NameTaken(c, ask.name, None)
        \/ Admitted(c, "rename") /\ NameTaken(c, ask.name, ask.project)
        \/ /\ Admitted(c, "create_run")
           /\ KeyTaken(c) \/ ~ProjectExists(ask.project)
        \/ /\ desk[c].phase = "cancelled"
           /\ ~OwnRun(c, ask.run) \/ ~May(c, "get_run")

Refuse(c, code) ==
  /\ Because(c, code)
  /\ Answer(c, code, {}, None)
  /\ UNCHANGED <<issued, ended, projects, runs>>

-----------------------------------------------------------------------------
(* The effects *)

CreateProject(c, p) ==
  LET name == desk[c].ask.name IN
  /\ Admitted(c, "create_project")
  /\ ~NameTaken(c, name, None)
  /\ projects[p].status = "absent"
  /\ projects' = [projects EXCEPT ![p] =
       [status |-> "exists", tenant |-> Tenant(c), name |-> name, version |-> 1]]
  /\ Answer(c, "ok", {p}, None)
  /\ UNCHANGED <<issued, ended, runs>>

ListProjects(c) ==
  /\ Admitted(c, "list_projects")
  /\ Answer(c, "ok", {p \in Projects : OwnProject(c, p)}, None)
  /\ UNCHANGED <<issued, ended, projects, runs>>

(* Compare and set.                                                        *)
Rename(c) ==
  LET ask == desk[c].ask IN
  /\ Admitted(c, "rename")
  /\ OwnProject(c, ask.project) /\ projects[ask.project].version = ask.version
  /\ ~NameTaken(c, ask.name, ask.project)
  /\ projects' = [projects EXCEPT ![ask.project].name = ask.name,
                                  ![ask.project].version = @ + 1]
  /\ Answer(c, "ok", {ask.project}, None)
  /\ UNCHANGED <<issued, ended, runs>>

CreateRun(c, r) ==
  LET ask == desk[c].ask IN
  /\ Admitted(c, "create_run")
  /\ OwnProject(c, ask.project) /\ ~KeyTaken(c)
  /\ runs[r].status = "absent"
  /\ runs' = [runs EXCEPT ![r] = [status |-> "active", tenant |-> Tenant(c),
                                  project |-> ask.project, idem |-> ask.idem]]
  /\ Answer(c, "ok", {r}, "active")
  /\ UNCHANGED <<issued, ended, projects>>

(* The key was used before.                                                *)
Replay(c, r) ==
  /\ Admitted(c, "create_run")
  /\ KeyUsed(c, r)
  /\ Answer(c, "ok", {r}, runs[r].status)
  /\ UNCHANGED <<issued, ended, projects, runs>>

GetRun(c) ==
  LET r == desk[c].ask.run IN
  /\ Admitted(c, "get_run")
  /\ OwnRun(c, r)
  /\ Answer(c, "ok", {r}, runs[r].status)
  /\ UNCHANGED <<issued, ended, projects, runs>>

CancelRun(c) ==
  LET r == desk[c].ask.run IN
  /\ Admitted(c, "cancel_run")
  /\ OwnRun(c, r) /\ runs[r].status \in {"active", "cancelled"}
  /\ runs' = [runs EXCEPT ![r].status = "cancelled"]
  /\ desk' = [desk EXCEPT ![c].phase = "cancelled"]
  /\ UNCHANGED <<issued, ended, projects>>

AnswerCancel(c) ==
  LET r == desk[c].ask.run IN
  /\ desk[c].phase = "cancelled"
  /\ OwnRun(c, r) /\ May(c, "get_run")
  /\ Answer(c, "ok", {r}, "cancelled")
  /\ UNCHANGED <<issued, ended, projects, runs>>

DeleteProject(p) ==
  /\ ProjectExists(p)
  /\ projects' = [projects EXCEPT ![p].status = "deleted"]
  /\ runs' = [r \in Runs |->
       IF RunExists(r) /\ runs[r].project = p
         THEN [runs[r] EXCEPT !.status = "deleted"] ELSE runs[r]]
  /\ UNCHANGED <<issued, ended, desk>>

Settle(r) ==
  /\ runs[r].status = "active"
  /\ runs' = [runs EXCEPT ![r].status = "settled"]
  /\ UNCHANGED <<issued, ended, projects, desk>>

Serve(c) ==
  \/ Arrive(c)
  \/ Bar(c)
  \/ \E code \in {"authentication_required", "permission_denied",
                  "project_not_found", "run_not_found", "run_not_cancellable",
                  "refused", "internal_error"} : Refuse(c, code)
  \/ \E p \in Projects : CreateProject(c, p)
  \/ ListProjects(c)
  \/ Rename(c)
  \/ \E r \in Runs : CreateRun(c, r) \/ Replay(c, r)
  \/ GetRun(c)
  \/ CancelRun(c)
  \/ AnswerCancel(c)

Next ==
  \/ \E k \in Keys : Issue(k) \/ End(k)
  \/ \E c \in Callers : Serve(c)
  \/ \E p \in Projects : DeleteProject(p)
  \/ \E r \in Runs : Settle(r)

Spec == Init /\ [][Next]_vars

=============================================================================
