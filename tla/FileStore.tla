------------------------------ MODULE FileStore ------------------------------
(***************************************************************************)
(* FileArtifactStore.put and delete (storage/artifact_store.py),           *)
(* backup_sqlite and restore_sqlite_backup (operations/backup.py).  All    *)
(* three look whether a name is free, fill a temporary file beside it and  *)
(* rename that over the name.  The calls run in threads and processes of   *)
(* their own, next to an application that writes its databases as it       *)
(* likes, and may fail or die at every step.                               *)
(*                                                                         *)
(* A file is its content as a whole; Partial is a file that is created but *)
(* not completely written.  A checksum is the content it is the sum of.    *)
(***************************************************************************)
EXTENDS Naturals

CONSTANTS Tasks,      \* calls of the three functions
          Keys,       \* names of artifacts
          Paths,      \* names of databases and their backups
          Contents,
          Sound,      \* the contents that pass PRAGMA integrity_check
          Absent, Partial,
          MaxWrites,  \* bounds: writes of the application,
          MaxErrors   \*   calls that fail or die

ASSUME NamesAssumption == Keys \cap Paths = {}
ASSUME ContentsAssumption ==
  /\ Sound \subseteq Contents
  /\ Absent \notin Contents /\ Partial \notin Contents /\ Absent # Partial
ASSUME BoundsAssumption == MaxWrites \in Nat /\ MaxErrors \in Nat

VARIABLES files,    \* files[n]: what is visible under the name n
          temps,    \* temps[t]: the temporary file of the call t
          call,     \* call[t]: its arguments and how far it is
          writes, mishaps

vars == <<files, temps, call, writes, mishaps>>

Names == Keys \union Paths

(* content is what the call was told to store or to expect, for a backup   *)
(* what it has copied.  stale and overtaken are history: the source was    *)
(* written after it was verified and before it was copied; the name was    *)
(* written by somebody else since it was found free, or since this call    *)
(* put its file there.  A call that has raised has failed, is unverified   *)
(* when it found fault with the file it had put in place, and unconfirmed  *)
(* when it could not look at that file.                                    *)
Call == [op : {"put", "backup", "restore"},
         from : Names, name : Names, content : Contents \union {Absent},
         pc : {"check", "create", "fill", "place", "confirm",
               "ok", "refused", "failed", "unverified", "unconfirmed", "dead"},
         stale : BOOLEAN, overtaken : BOOLEAN]
NoCall == [pc |-> "idle"]

Live == {"check", "create", "fill", "place", "confirm"}

Init == /\ files \in [Names -> {Absent} \union Contents]
        /\ \A k \in Keys : files[k] = Absent
        /\ temps = [t \in Tasks |-> Absent]
        /\ call = [t \in Tasks |-> NoCall]
        /\ writes = 0
        /\ mishaps = 0

-----------------------------------------------------------------------------
Begin(t, op, from, name, content, pc) ==
  /\ call[t] = NoCall
  /\ call' = [call EXCEPT ![t] =
       [op |-> op, from |-> from, name |-> name, content |-> content,
        pc |-> pc, stale |-> FALSE, overtaken |-> FALSE]]
  /\ UNCHANGED <<files, temps, writes, mishaps>>

(* put refuses a key that exists.                                          *)
BeginPut(t, k, c) ==
  Begin(t, "put", k, k, c, IF files[k] = Absent THEN "create" ELSE "refused")

(* The source must be a file, the output must not exist.                   *)
BeginBackup(t, p, q) ==
  Begin(t, "backup", p, q, Absent,
        IF files[p] # Absent /\ files[q] = Absent THEN "create" ELSE "refused")

(* verify_sqlite_backup comes before everything else.                      *)
Verifies(n, c) == files[n] = c /\ c \in Sound

BeginRestore_Unverified(t, p, q, c) ==
  Begin(t, "restore", p, q, c, IF files[p] # Absent THEN "check" ELSE "refused")

BeginRestore(t, p, q, c) ==
  Begin(t, "restore", p, q, c, IF Verifies(p, c) THEN "check" ELSE "refused")

Step(t, before, after) ==
  /\ call[t].pc = before
  /\ call' = [call EXCEPT ![t].pc = after]

CheckTarget_Forgotten(t) ==
  /\ Step(t, "check", "create")
  /\ UNCHANGED <<files, temps, writes, mishaps>>

CheckTarget(t) ==
  /\ Step(t, "check", IF files[call[t].name] = Absent THEN "create" ELSE "refused")
  /\ UNCHANGED <<files, temps, writes, mishaps>>

CreateTemporary_InPlace(t) ==
  /\ Step(t, "create", "fill")
  /\ temps' = [temps EXCEPT ![t] = Partial]
  /\ files' = [files EXCEPT ![call[t].name] = Partial]
  /\ UNCHANGED <<writes, mishaps>>

CreateTemporary(t) ==
  /\ Step(t, "create", "fill")
  /\ temps' = [temps EXCEPT ![t] = Partial]
  /\ UNCHANGED <<files, writes, mishaps>>

Fill_Unchecked(t) ==
  LET source == files[call[t].from]
  IN /\ call[t].pc = "fill"
     /\ call[t].op # "put" => source # Absent
     /\ temps' = [temps EXCEPT ![t] = IF call[t].op = "put" THEN call[t].content
                                                           ELSE source]
     /\ call' = [call EXCEPT ![t].pc = "place",
                             ![t].content = IF @ = Absent THEN source ELSE @]
     /\ UNCHANGED <<files, writes, mishaps>>

(* put writes its data, restore copies whatever the backup is by now; a    *)
(* backup is a consistent copy of the source, checked before it is used.   *)
Fill(t) ==
  LET source == files[call[t].from]
  IN /\ call[t].pc = "fill"
     /\ call[t].op # "put" => source # Absent
     /\ call[t].op = "backup" => source \in Sound
     /\ temps' = [temps EXCEPT ![t] = IF call[t].op = "put" THEN call[t].content
                                                           ELSE source]
     /\ call' = [call EXCEPT ![t].pc = "place",
                             ![t].content = IF @ = Absent THEN source ELSE @]
     /\ UNCHANGED <<files, writes, mishaps>>

Unlinks_Never(t) == FALSE

(* An exception.  The finally clause of put knows the temporary file only  *)
(* once it is written and synced; the other two know it from the start.    *)
(* Once the file is in place there is nothing to unlink, and it stays.     *)
Unlinks(t) == call[t].op # "put" \/ call[t].pc = "place"

CleanUp(t) ==
  /\ Step(t, call[t].pc, IF call[t].pc = "confirm" THEN "unconfirmed" ELSE "failed")
  /\ temps' = [temps EXCEPT ![t] = IF Unlinks(t) THEN Absent ELSE @]
  /\ UNCHANGED <<files, writes>>

SourceUnfit(t) ==
  /\ call[t].pc = "fill" /\ call[t].op # "put"
  /\ \/ files[call[t].from] = Absent
     \/ call[t].op = "backup" /\ files[call[t].from] \notin Sound
  /\ CleanUp(t)
  /\ UNCHANGED mishaps

Fail(t) ==
  /\ call[t].pc \in Live
  /\ mishaps < MaxErrors /\ mishaps' = mishaps + 1
  /\ CleanUp(t)

Crash(t) ==
  /\ call[t].pc \in Live
  /\ mishaps < MaxErrors /\ mishaps' = mishaps + 1
  /\ Step(t, call[t].pc, "dead")
  /\ UNCHANGED <<files, temps, writes>>

(* What a change of the file n means to the calls.                         *)
Noticed(calls, n) ==
  [t \in Tasks |->
     IF calls[t] = NoCall THEN NoCall
     ELSE [calls[t] EXCEPT
             !.stale = @ \/ (calls[t].from = n /\ calls[t].pc \in {"check", "create", "fill"}),
             !.overtaken = @ \/ calls[t].name = n]]

(* os.replace puts the temporary file in place of whatever has the name.   *)
Place(t) ==
  LET n == call[t].name
      noticed == Noticed(call, n)
  IN /\ call[t].pc = "place"
     /\ files' = [files EXCEPT ![n] = temps[t]]
     /\ temps' = [temps EXCEPT ![t] = Absent]
     /\ call' = [noticed EXCEPT
          ![t] = [call[t] EXCEPT !.overtaken = FALSE,
                    !.pc = IF call[t].op = "put" THEN "ok" ELSE "confirm"]]
     /\ UNCHANGED <<writes, mishaps>>

(* A backup reads what it has made, a restore verifies it.                 *)
Confirm(t) ==
  LET n == call[t].name
      good == IF call[t].op = "backup" THEN files[n] # Absent
                                       ELSE Verifies(n, call[t].content)
  IN /\ Step(t, "confirm", IF good THEN "ok" ELSE "unverified")
     /\ UNCHANGED <<files, temps, writes, mishaps>>

-----------------------------------------------------------------------------
Delete(k) ==
  /\ files[k] # Absent
  /\ files' = [files EXCEPT ![k] = Absent]
  /\ call' = Noticed(call, k)
  /\ UNCHANGED <<temps, writes, mishaps>>

(* The application or an operator creates, changes, damages or removes a   *)
(* database or a backup.                                                   *)
Write(p, c) ==
  /\ writes < MaxWrites /\ writes' = writes + 1
  /\ c # files[p]
  /\ files' = [files EXCEPT ![p] = c]
  /\ call' = Noticed(call, p)
  /\ UNCHANGED <<temps, mishaps>>

Next ==
  \/ \E t \in Tasks :
       \/ \E k \in Keys, c \in Contents : BeginPut(t, k, c)
       \/ \E p, q \in Paths : p # q /\ BeginBackup(t, p, q)
       \/ \E p, q \in Paths, c \in Contents : BeginRestore(t, p, q, c)
       \/ CheckTarget(t) \/ CreateTemporary(t) \/ Fill(t) \/ SourceUnfit(t)
       \/ Place(t) \/ Confirm(t) \/ Fail(t) \/ Crash(t)
  \/ \E k \in Keys : Delete(k)
  \/ \E p \in Paths, c \in Contents \union {Absent} : Write(p, c)

Spec == Init /\ [][Next]_vars

-----------------------------------------------------------------------------
(* Types, and: no half-written file is ever visible under a name, whatever *)
(* fails or dies.                                                          *)
TypeOK ==
  /\ files \in [Names -> {Absent} \union Contents]
  /\ temps \in [Tasks -> {Absent, Partial} \union Contents]
  /\ call \in [Tasks -> Call \union {NoCall}]
  /\ \A t \in Tasks : call[t].pc = "place" => temps[t] \in Contents
  /\ writes \in Nat /\ mishaps \in Nat

(* The existence check and os.replace are two steps.  A call about to put  *)
(* its file in place meets another one only if that came after its check,  *)
(* from a second call with the same name or from the application.          *)
OverwritesExplained ==
  \A t \in Tasks :
    call[t].pc \in {"create", "fill", "place"} /\ files[call[t].name] # Absent
      => call[t].overtaken

(* A temporary file is left behind by a process that died and by a put     *)
(* that failed before its data were on disk, and by nothing else.          *)
TempsAccounted ==
  \A t \in Tasks :
    temps[t] # Absent => \/ call[t].pc \in {"fill", "place", "dead"}
                         \/ call[t].pc = "failed" /\ call[t].op = "put" /\ temps[t] = Partial

(* A restore or a backup that raises once its file is in place leaves the  *)
(* file there.  It is the one that was asked for, and intact, unless the   *)
(* backup changed between its verification and the copy, or the new file   *)
(* after it was placed; without such a change the call has found no fault  *)
(* with it, but could not look.                                            *)
LateFailuresExplained ==
  \A t \in Tasks :
    LET c == call[t]
    IN c.pc \in {"unverified", "unconfirmed"} /\ ~c.overtaken /\ (c.op = "restore" => ~c.stale)
         => c.pc = "unconfirmed" /\ files[c.name] = c.content /\ c.content \in Sound

(* What a call that succeeded has promised is true until somebody writes   *)
(* or deletes the file: an artifact has the digest that was returned, a    *)
(* backup and a restored database are intact.                              *)
AnswersHold ==
  \A t \in Tasks :
    call[t].pc = "ok" /\ ~call[t].overtaken
      => /\ files[call[t].name] = call[t].content
         /\ call[t].op # "put" => call[t].content \in Sound

=============================================================================
