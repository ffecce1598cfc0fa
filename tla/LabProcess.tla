----------------------------- MODULE LabProcess -----------------------------
(***************************************************************************)
(* One process of the command line (cli.py) at work: what it was asked,    *)
(* how far it is, what it has recorded, and the files it leaves behind.    *)
(* A language model that takes part answers as it likes, and the disk may  *)
(* refuse any write.                                                       *)
(***************************************************************************)
EXTENDS Naturals, Sequences, FiniteSets, SequencesExt, FiniteSetsExt

CONSTANT MaxOdd   \* bound: model answers other than the expected one

VARIABLES job,    \* the command and its arguments
          pc,     \* where it is; answered, refused and raised are the ends
          log,    \* its records, in order
          errors, \* the errors it has put aside to report
          disk,   \* its files: the report and the evidence by suffix, and temp
          odd

vars == <<job, pc, log, errors, disk, odd>>

At(command, where) == job.command = command /\ pc = where

(* x is what the model makes of it, usual what is expected.                *)
Deviates(x, usual) ==
  IF x = usual THEN odd' = odd ELSE odd < MaxOdd /\ odd' = odd + 1

Put(file, content) == disk' = [disk EXCEPT ![file] = content]

WriteText_Ignored(suffix, content, next) ==
  /\ \/ pc' = next /\ Put(suffix, content)
     \/ pc' = next /\ Put(suffix, "partial")
     \/ pc' = "raised" /\ UNCHANGED disk
  /\ UNCHANGED <<job, log, errors, odd>>

(* The OSError of mkdir, open or write ends the command.  Path.write_text  *)
(* truncates what is there as it opens: from then on a part is left.       *)
WriteText(suffix, content, next) ==
  /\ \/ pc' = next /\ Put(suffix, content)
     \/ pc' = "raised" /\ (UNCHANGED disk \/ Put(suffix, "partial"))
  /\ UNCHANGED <<job, log, errors, odd>>

(* os.replace puts a temporary file in place.  The finally clause knows    *)
(* its name only once it is written and synced: a failure before leaves    *)
(* the temporary file, one after, or of its creation, leaves nothing.      *)
WriteAtomically(suffix, content, next) ==
  /\ \/ pc' = next /\ Put(suffix, content)
     \/ pc' = "raised" /\ (UNCHANGED disk \/ Put("temp", "partial"))
  /\ UNCHANGED <<job, log, errors, odd>>

Count(records, Test(_)) == Cardinality({i \in DOMAIN records : Test(records[i])})

=============================================================================
