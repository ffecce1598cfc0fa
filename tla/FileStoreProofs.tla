--------------------------- MODULE FileStoreProofs ---------------------------
(***************************************************************************)
(* Theorems about FileStore, for any number of calls, names and contents   *)
(* and any number of writes and failures.                                  *)
(***************************************************************************)
EXTENDS FileStore, TLAPS

Begun(t) == call[t] # NoCall

(* The temporary file of a call: when there is one, and what is in it.     *)
TempKnown(t) ==
  /\ temps[t] # Absent => \/ call[t].pc \in {"fill", "place", "dead"}
                          \/ call[t].pc = "failed" /\ call[t].op = "put" /\ temps[t] = Partial
  /\ call[t].pc = "fill" => temps[t] = Partial
  /\ call[t].pc = "place" /\ (call[t].op = "restore" => ~call[t].stale)
       => temps[t] = call[t].content

(* The content of a call: of a put what it was given, of a restore one     *)
(* that was verified, of a backup one that was checked, once it is copied. *)
ContentVouched(t) ==
  /\ call[t].op = "put" => /\ call[t].content \in Contents
                           /\ call[t].pc \notin {"confirm", "unverified", "unconfirmed"}
  /\ call[t].op = "restore" /\ call[t].pc # "refused" => call[t].content \in Sound
  /\ call[t].op = "backup" /\ call[t].pc \in {"create", "fill"} => call[t].content = Absent
  /\ call[t].op = "backup" /\ call[t].pc \in {"place", "confirm", "ok", "unconfirmed"}
       => call[t].content \in Sound
  /\ call[t].op = "backup" => call[t].pc # "check"

(* The files a call relies on, as long as nobody else has written them.    *)
FilesKnown(t) ==
  /\ call[t].pc \in {"create", "fill", "place"} /\ files[call[t].name] # Absent
       => call[t].overtaken
  /\ call[t].op = "restore" /\ call[t].pc \in {"check", "create", "fill"} /\ ~call[t].stale
       => files[call[t].from] = call[t].content
  /\ call[t].pc = "confirm" /\ ~call[t].overtaken /\ (call[t].op = "restore" => ~call[t].stale)
       => files[call[t].name] = call[t].content
  /\ call[t].pc = "unconfirmed" /\ ~call[t].overtaken
       /\ (call[t].op = "restore" => ~call[t].stale) => files[call[t].name] = call[t].content
  /\ call[t].pc = "unverified" /\ (call[t].op = "restore" => ~call[t].stale)
       => call[t].overtaken
  /\ call[t].pc = "ok" /\ ~call[t].overtaken => files[call[t].name] = call[t].content

Sane(t) == /\ call[t] = NoCall => temps[t] = Absent
           /\ Begun(t) => TempKnown(t) /\ ContentVouched(t) /\ FilesKnown(t)

IInv == TypeOK /\ \A t \in Tasks : Sane(t)

-----------------------------------------------------------------------------
(* A call is sane after a step that is not its own and writes no file.     *)
LEMMA Untouched ==
  ASSUME NEW t \in Tasks, Sane(t), files' = files,
         call'[t] = call[t], temps'[t] = temps[t]
  PROVE  Sane(t)'
BY DEF Sane, Begun, TempKnown, ContentVouched, FilesKnown

(* Noticing a change keeps everything but the two flags of history.        *)
LEMMA NoticedFields ==
  ASSUME TypeOK, NEW t \in Tasks, NEW n \in Names, Begun(t)
  PROVE  LET c == call[t]
             d == Noticed(call, n)[t]
         IN /\ d \in Call
            /\ d.op = c.op /\ d.from = c.from /\ d.name = c.name
            /\ d.content = c.content /\ d.pc = c.pc
            /\ d.stale = (c.stale \/ (c.from = n /\ c.pc \in {"check", "create", "fill"}))
            /\ d.overtaken = (c.overtaken \/ c.name = n)
<1>1. call[t] \in Call BY DEF TypeOK, Begun
<1>2. Noticed(call, n)[t] =
        [call[t] EXCEPT
           !.stale = @ \/ (call[t].from = n /\ call[t].pc \in {"check", "create", "fill"}),
           !.overtaken = @ \/ call[t].name = n]
  BY DEF Noticed, Begun
<1>. QED BY <1>1, <1>2 DEF Call

(* A call that has not begun is in the state idle, one that has is not.    *)
LEMMA CallTyped ==
  ASSUME TypeOK, NEW t \in Tasks
  PROVE  /\ call[t] = NoCall => call[t].pc = "idle"
         /\ Begun(t) => call[t] \in Call /\ call[t].pc # "idle"
BY DEF TypeOK, NoCall, Begun, Call

(* A call is sane after a step of somebody else that writes the file n.    *)
LEMMA OnlyNoticed ==
  ASSUME TypeOK, NEW t \in Tasks, NEW n \in Names, Sane(t),
         \A m \in Names : m # n => files'[m] = files[m],
         call'[t] = Noticed(call, n)[t], temps'[t] = temps[t]
  PROVE  Sane(t)'
<1>1. CASE call[t] = NoCall
  BY <1>1 DEF Noticed, Sane, Begun
<1>2. CASE Begun(t)
  <2>. DEFINE c == call[t]
              d == call'[t]
  <2>1. /\ d.op = c.op /\ d.from = c.from /\ d.name = c.name
        /\ d.content = c.content /\ d.pc = c.pc
        /\ d.stale = (c.stale \/ (c.from = n /\ c.pc \in {"check", "create", "fill"}))
        /\ d.overtaken = (c.overtaken \/ c.name = n)
    BY <1>2, NoticedFields
  <2>2. c \in Call /\ d # NoCall
    <3>1. c \in Call /\ c.pc # "idle" BY <1>2, CallTyped
    <3>. QED BY <2>1, <3>1 DEF NoCall
  <2>3. c.from \in Names /\ c.name \in Names /\ c.stale \in BOOLEAN /\ c.overtaken \in BOOLEAN
    BY <2>2 DEF Call
  <2>4. TempKnown(t) /\ ContentVouched(t) /\ FilesKnown(t) BY <1>2 DEF Sane
  <2>5. TempKnown(t)' BY <2>1, <2>3, <2>4 DEF TempKnown
  <2>6. ContentVouched(t)' BY <2>1, <2>4 DEF ContentVouched
  <2>7. FilesKnown(t)' BY <2>1, <2>3, <2>4 DEF FilesKnown
  <2>. QED BY <2>2, <2>5, <2>6, <2>7 DEF Sane, Begun
<1>. QED BY <1>1, <1>2 DEF Begun

-----------------------------------------------------------------------------
(* A step of the call t that writes no file preserves the invariant when   *)
(* it leaves t well typed and sane.                                        *)
LEMMA OwnStep ==
  ASSUME IInv, NEW t \in Tasks, NEW d \in Call \union {NoCall},
         NEW x \in {Absent, Partial} \union Contents,
         files' = files, writes' \in Nat, mishaps' \in Nat,
         call' = [call EXCEPT ![t] = d], temps' = [temps EXCEPT ![t] = x],
         d.pc = "place" => x \in Contents, Sane(t)'
  PROVE  IInv'
<1>1. call'[t] = d /\ temps'[t] = x BY DEF IInv, TypeOK
<1>2. \A u \in Tasks : u # t => call'[u] = call[u] /\ temps'[u] = temps[u]
  BY DEF IInv, TypeOK
<1>3. TypeOK' BY <1>1, <1>2 DEF IInv, TypeOK
<1>4. \A u \in Tasks : Sane(u)'
  <2>1. TAKE u \in Tasks
  <2>2. CASE u = t BY <2>2
  <2>3. CASE u # t
    <3>1. Sane(u) BY DEF IInv
    <3>. QED BY <3>1, <1>2, <2>3, Untouched
  <2>. QED BY <2>2, <2>3
<1>. QED BY <1>3, <1>4 DEF IInv

LEMMA BeginStep ==
  ASSUME IInv, NEW t \in Tasks,
         NEW op \in {"put", "backup", "restore"}, NEW from \in Names, NEW name \in Names,
         NEW content \in Contents \union {Absent},
         NEW pc \in {"check", "create", "refused"},
         Begin(t, op, from, name, content, pc),
         op = "put" => content \in Contents,
         op = "restore" /\ pc # "refused" => content \in Sound /\ files[from] = content,
         op = "backup" => content = Absent /\ pc # "check",
         pc = "create" => files[name] = Absent
  PROVE  IInv'
<1>. DEFINE d == [op |-> op, from |-> from, name |-> name, content |-> content,
                  pc |-> pc, stale |-> FALSE, overtaken |-> FALSE]
<1>1. call[t] = NoCall /\ call' = [call EXCEPT ![t] = d]
  BY DEF Begin
<1>2. temps[t] = Absent BY <1>1 DEF IInv, Sane
<1>3. temps' = [temps EXCEPT ![t] = Absent] BY <1>2 DEF Begin, IInv, TypeOK
<1>4. d \in Call /\ d # NoCall
  <2>1. d \in Call BY DEF Call
  <2>2. d.pc # "idle" OBVIOUS
  <2>. QED BY <2>1, <2>2 DEF NoCall
<1>5. call'[t] = d /\ temps'[t] = Absent /\ files' = files
  BY <1>1, <1>2 DEF Begin, IInv, TypeOK
<1>6. Sane(t)'
  <2>1. TempKnown(t)' BY <1>5 DEF TempKnown
  <2>2. ContentVouched(t)' BY <1>5 DEF ContentVouched
  <2>3. FilesKnown(t)' BY <1>5 DEF FilesKnown
  <2>. QED BY <1>4, <1>5, <2>1, <2>2, <2>3 DEF Sane, Begun
<1>. QED BY <1>1, <1>3, <1>4, <1>5, <1>6, OwnStep DEF Begin, IInv, TypeOK

LEMMA BeginsStep ==
  ASSUME IInv, NEW t \in Tasks,
         \/ \E k \in Keys, c \in Contents : BeginPut(t, k, c)
         \/ \E p, q \in Paths : BeginBackup(t, p, q)
         \/ \E p, q \in Paths, c \in Contents : BeginRestore(t, p, q, c)
  PROVE  IInv'
<1>1. CASE \E k \in Keys, c \in Contents : BeginPut(t, k, c)
  <2>1. PICK k \in Keys, c \in Contents : BeginPut(t, k, c) BY <1>1
  <2>. QED BY <2>1, BeginStep DEF BeginPut, Names
<1>2. CASE \E p, q \in Paths : BeginBackup(t, p, q)
  <2>1. PICK p \in Paths, q \in Paths : BeginBackup(t, p, q) BY <1>2
  <2>. QED BY <2>1, BeginStep DEF BeginBackup, Names
<1>3. CASE \E p, q \in Paths, c \in Contents : BeginRestore(t, p, q, c)
  <2>1. PICK p \in Paths, q \in Paths, c \in Contents : BeginRestore(t, p, q, c)
    BY <1>3
  <2>. QED BY <2>1, BeginStep DEF BeginRestore, Verifies, Names
<1>. QED BY <1>1, <1>2, <1>3

-----------------------------------------------------------------------------
PCs == {"check", "create", "fill", "place", "confirm",
        "ok", "refused", "failed", "unverified", "unconfirmed", "dead"}

(* A call that only moves on keeps its arguments and its history.          *)
LEMMA Moved ==
  ASSUME IInv, NEW t \in Tasks, call[t].pc \in PCs, NEW pc \in PCs
  PROVE  LET d == [call[t] EXCEPT !.pc = pc]
         IN /\ Begun(t) /\ TempKnown(t) /\ ContentVouched(t) /\ FilesKnown(t)
            /\ call[t] \in Call /\ d \in Call /\ d # NoCall
            /\ d.op = call[t].op /\ d.from = call[t].from /\ d.name = call[t].name
            /\ d.content = call[t].content /\ d.pc = pc
            /\ d.stale = call[t].stale /\ d.overtaken = call[t].overtaken
<1>1. Begun(t) BY CallTyped DEF IInv, Begun, PCs
<1>2. call[t] \in Call BY <1>1, CallTyped DEF IInv
<1>. DEFINE d == [call[t] EXCEPT !.pc = pc]
<1>3. d \in Call /\ d.pc = pc BY <1>2 DEF Call, PCs
<1>4. d # NoCall BY <1>3 DEF NoCall, PCs
<1>5. Sane(t) BY DEF IInv
<1>. QED BY <1>1, <1>2, <1>3, <1>4, <1>5 DEF Sane, Call

(* What remains to be shown of a step that moves the call on and perhaps   *)
(* changes its temporary file.                                             *)
LEMMA MoveStep ==
  ASSUME IInv, NEW t \in Tasks, call[t].pc \in PCs, NEW pc \in PCs,
         NEW x \in {Absent, Partial} \union Contents,
         Step(t, call[t].pc, pc), temps' = [temps EXCEPT ![t] = x],
         files' = files, writes' \in Nat, mishaps' \in Nat,
         pc = "place" => x \in Contents,
         TempKnown(t)', ContentVouched(t)', FilesKnown(t)'
  PROVE  IInv'
<1>. DEFINE d == [call[t] EXCEPT !.pc = pc]
<1>1. call' = [call EXCEPT ![t] = d] BY DEF Step
<1>2. d \in Call /\ d # NoCall /\ d.pc = pc BY Moved
<1>3. call'[t] = d BY <1>1 DEF IInv, TypeOK
<1>4. Sane(t)' BY <1>2, <1>3 DEF Sane, Begun
<1>. QED BY <1>1, <1>2, <1>4, OwnStep

LEMMA CheckTargetStep ==
  ASSUME IInv, NEW t \in Tasks, CheckTarget(t)
  PROVE  IInv'
<1>. DEFINE pc == IF files[call[t].name] = Absent THEN "create" ELSE "refused"
            d == [call[t] EXCEPT !.pc = pc]
<1>1. call[t].pc = "check" /\ call[t].pc \in PCs /\ pc \in PCs
  BY DEF CheckTarget, Step, PCs
<1>2. /\ TempKnown(t) /\ ContentVouched(t) /\ FilesKnown(t)
      /\ d.op = call[t].op /\ d.from = call[t].from /\ d.name = call[t].name
      /\ d.content = call[t].content /\ d.pc = pc
      /\ d.stale = call[t].stale /\ d.overtaken = call[t].overtaken
  BY <1>1, Moved
<1>3. call'[t] = d /\ files' = files /\ temps' = temps
  BY DEF CheckTarget, Step, IInv, TypeOK
<1>4. temps' = [temps EXCEPT ![t] = temps[t]] /\ temps[t] \in {Absent, Partial} \union Contents
  BY <1>3 DEF IInv, TypeOK
<1>5. TempKnown(t)' BY <1>1, <1>2, <1>3 DEF TempKnown
<1>6. ContentVouched(t)' BY <1>1, <1>2, <1>3 DEF ContentVouched
<1>7. FilesKnown(t)' BY <1>1, <1>2, <1>3 DEF FilesKnown
<1>8. Step(t, call[t].pc, pc) /\ pc # "place" /\ writes' \in Nat /\ mishaps' \in Nat
  BY <1>1 DEF CheckTarget, IInv, TypeOK
<1>. HIDE DEF pc, d
<1>. QED BY <1>1, <1>3, <1>4, <1>5, <1>6, <1>7, <1>8, MoveStep

LEMMA CreateTemporaryStep ==
  ASSUME IInv, NEW t \in Tasks, CreateTemporary(t)
  PROVE  IInv'
<1>. DEFINE d == [call[t] EXCEPT !.pc = "fill"]
<1>1. call[t].pc = "create" /\ call[t].pc \in PCs /\ "fill" \in PCs
  BY DEF CreateTemporary, Step, PCs
<1>2. /\ TempKnown(t) /\ ContentVouched(t) /\ FilesKnown(t)
      /\ d.op = call[t].op /\ d.from = call[t].from /\ d.name = call[t].name
      /\ d.content = call[t].content /\ d.pc = "fill"
      /\ d.stale = call[t].stale /\ d.overtaken = call[t].overtaken
  BY <1>1, Moved
<1>3. call'[t] = d /\ files' = files /\ temps'[t] = Partial
  BY DEF CreateTemporary, Step, IInv, TypeOK
<1>4. TempKnown(t)' BY <1>1, <1>2, <1>3 DEF TempKnown
<1>5. ContentVouched(t)' BY <1>1, <1>2, <1>3 DEF ContentVouched
<1>6. FilesKnown(t)' BY <1>1, <1>2, <1>3 DEF FilesKnown
<1>. QED BY <1>1, <1>3, <1>4, <1>5, <1>6, MoveStep DEF CreateTemporary, IInv, TypeOK

LEMMA FillStep ==
  ASSUME IInv, NEW t \in Tasks, Fill(t)
  PROVE  IInv'
<1>. DEFINE source == files[call[t].from]
            x == IF call[t].op = "put" THEN call[t].content ELSE source
            d == [call[t] EXCEPT !.pc = "place",
                                 !.content = IF @ = Absent THEN source ELSE @]
<1>1. call[t].pc = "fill" /\ call[t].pc \in PCs /\ "place" \in PCs
  BY DEF Fill, PCs
<1>2. /\ Begun(t) /\ TempKnown(t) /\ ContentVouched(t) /\ FilesKnown(t) /\ call[t] \in Call
  BY <1>1, Moved
<1>3. source \in Contents \union {Absent} BY <1>2 DEF IInv, TypeOK, Call
<1>4. x \in Contents BY <1>2, <1>3 DEF Fill, ContentVouched
<1>5. /\ d \in Call /\ d.op = call[t].op /\ d.from = call[t].from /\ d.name = call[t].name
      /\ d.stale = call[t].stale /\ d.overtaken = call[t].overtaken /\ d.pc = "place"
      /\ d.content = IF call[t].content = Absent THEN source ELSE call[t].content
  BY <1>2, <1>3 DEF Call
<1>6. d # NoCall BY <1>5 DEF NoCall
<1>7. call' = [call EXCEPT ![t] = d] /\ call'[t] = d /\ temps'[t] = x /\ files' = files
  BY DEF Fill, IInv, TypeOK
<1>8. call[t].op \in {"put", "backup", "restore"} BY <1>2 DEF Call
<1>9. TempKnown(t)'
  <2>1. call[t].op = "put" => x = d.content
    BY <1>1, <1>2, <1>5, ContentsAssumption DEF ContentVouched
  <2>2. call[t].op = "backup" => x = d.content
    BY <1>1, <1>2, <1>5 DEF ContentVouched
  <2>3. call[t].op = "restore" /\ ~call[t].stale => x = d.content
    BY <1>1, <1>2, <1>5 DEF FilesKnown
  <2>. QED BY <1>5, <1>7, <1>8, <2>1, <2>2, <2>3 DEF TempKnown
<1>10. ContentVouched(t)'
  BY <1>1, <1>2, <1>5, <1>7, <1>8, ContentsAssumption DEF ContentVouched, Fill
<1>11. FilesKnown(t)' BY <1>1, <1>2, <1>5, <1>7 DEF FilesKnown
<1>12. Sane(t)' BY <1>6, <1>7, <1>9, <1>10, <1>11 DEF Sane, Begun
<1>. QED BY <1>4, <1>5, <1>7, <1>12, OwnStep DEF Fill, IInv, TypeOK

LEMMA CleanUpStep ==
  ASSUME IInv, NEW t \in Tasks, CleanUp(t), call[t].pc \in Live,
         mishaps' \in Nat
  PROVE  IInv'
<1>. DEFINE pc == IF call[t].pc = "confirm" THEN "unconfirmed" ELSE "failed"
            d == [call[t] EXCEPT !.pc = pc]
            x == IF Unlinks(t) THEN Absent ELSE temps[t]
<1>1. call[t].pc \in PCs /\ pc \in PCs BY DEF PCs, Live
<1>2. /\ TempKnown(t) /\ ContentVouched(t) /\ FilesKnown(t)
      /\ d.op = call[t].op /\ d.from = call[t].from /\ d.name = call[t].name
      /\ d.content = call[t].content /\ d.pc = pc
      /\ d.stale = call[t].stale /\ d.overtaken = call[t].overtaken
  BY <1>1, Moved
<1>3. call'[t] = d /\ files' = files /\ temps'[t] = x
  BY DEF CleanUp, Step, IInv, TypeOK
<1>4. temps' = [temps EXCEPT ![t] = x] /\ x \in {Absent, Partial} \union Contents
  BY DEF CleanUp, IInv, TypeOK
<1>5. /\ call[t].pc = "confirm" => pc = "unconfirmed"
      /\ call[t].pc # "confirm" => pc = "failed"
      /\ d = [call[t] EXCEPT !.pc = pc]
  OBVIOUS
<1>6. /\ x = Absent \/ x = temps[t]
      /\ x # Absent => call[t].op = "put" /\ call[t].pc # "place"
  BY DEF Unlinks
<1>. HIDE DEF pc, d, x
<1>7. TempKnown(t)' /\ ContentVouched(t)' /\ FilesKnown(t)'
  <2>1. CASE call[t].pc = "confirm"
    <3>1. TempKnown(t)' BY <1>2, <1>3, <1>5, <1>6, <2>1 DEF TempKnown
    <3>2. ContentVouched(t)' BY <1>2, <1>3, <1>5, <2>1 DEF ContentVouched
    <3>3. FilesKnown(t)' BY <1>2, <1>3, <1>5, <2>1 DEF FilesKnown
    <3>. QED BY <3>1, <3>2, <3>3
  <2>2. CASE call[t].pc # "confirm"
    <3>1. call[t].pc \in {"check", "create", "fill", "place"} BY <2>2 DEF Live
    <3>2. TempKnown(t)' BY <1>2, <1>3, <1>5, <1>6, <2>2, <3>1 DEF TempKnown
    <3>3. ContentVouched(t)' BY <1>2, <1>3, <1>5, <2>2, <3>1 DEF ContentVouched
    <3>4. FilesKnown(t)' BY <1>2, <1>3, <1>5, <2>2 DEF FilesKnown
    <3>. QED BY <3>2, <3>3, <3>4
  <2>. QED BY <2>1, <2>2
<1>. QED BY <1>1, <1>3, <1>4, <1>5, <1>7, MoveStep DEF CleanUp, IInv, TypeOK

LEMMA CrashStep ==
  ASSUME IInv, NEW t \in Tasks, Crash(t)
  PROVE  IInv'
<1>. DEFINE d == [call[t] EXCEPT !.pc = "dead"]
<1>1. call[t].pc \in Live /\ call[t].pc \in PCs /\ "dead" \in PCs
  BY DEF Crash, Live, PCs
<1>2. /\ TempKnown(t) /\ ContentVouched(t) /\ FilesKnown(t)
      /\ d.op = call[t].op /\ d.from = call[t].from /\ d.name = call[t].name
      /\ d.content = call[t].content /\ d.pc = "dead"
      /\ d.stale = call[t].stale /\ d.overtaken = call[t].overtaken
  BY <1>1, Moved
<1>3. call'[t] = d /\ files' = files /\ temps' = temps
  BY DEF Crash, Step, IInv, TypeOK
<1>4. temps' = [temps EXCEPT ![t] = temps[t]] /\ temps[t] \in {Absent, Partial} \union Contents
  BY <1>3 DEF IInv, TypeOK
<1>5. TempKnown(t)' BY <1>1, <1>2, <1>3 DEF TempKnown
<1>6. ContentVouched(t)' BY <1>1, <1>2, <1>3 DEF ContentVouched, Live
<1>7. FilesKnown(t)' BY <1>1, <1>2, <1>3 DEF FilesKnown
<1>8. mishaps' \in Nat BY DEF Crash, IInv, TypeOK
<1>. QED BY <1>1, <1>3, <1>4, <1>5, <1>6, <1>7, <1>8, MoveStep DEF Crash, IInv, TypeOK

LEMMA ConfirmStep ==
  ASSUME IInv, NEW t \in Tasks, Confirm(t)
  PROVE  IInv'
<1>. DEFINE good == IF call[t].op = "backup" THEN files[call[t].name] # Absent
                    ELSE Verifies(call[t].name, call[t].content)
            pc == IF good THEN "ok" ELSE "unverified"
            d == [call[t] EXCEPT !.pc = pc]
<1>1. call[t].pc = "confirm" /\ call[t].pc \in PCs /\ pc \in PCs
  BY DEF Confirm, Step, PCs
<1>2. /\ TempKnown(t) /\ ContentVouched(t) /\ FilesKnown(t) /\ call[t] \in Call
      /\ d.op = call[t].op /\ d.from = call[t].from /\ d.name = call[t].name
      /\ d.content = call[t].content /\ d.pc = pc
      /\ d.stale = call[t].stale /\ d.overtaken = call[t].overtaken
  BY <1>1, Moved
<1>3. call'[t] = d /\ files' = files /\ temps' = temps
  BY DEF Confirm, Step, IInv, TypeOK
<1>4. temps' = [temps EXCEPT ![t] = temps[t]] /\ temps[t] \in {Absent, Partial} \union Contents
  BY <1>3 DEF IInv, TypeOK
<1>5. TempKnown(t)' BY <1>1, <1>2, <1>3 DEF TempKnown
<1>6. ContentVouched(t)' BY <1>1, <1>2, <1>3 DEF ContentVouched
<1>7. FilesKnown(t)'
  <2>1. ~good /\ (call[t].op = "restore" => ~call[t].stale) => call[t].overtaken
    BY <1>1, <1>2, ContentsAssumption DEF FilesKnown, ContentVouched, Verifies, Call
  <2>2. good /\ ~call[t].overtaken => files[call[t].name] = call[t].content
    BY <1>1, <1>2 DEF FilesKnown, Verifies, Call
  <2>. QED BY <1>1, <1>2, <1>3, <2>1, <2>2 DEF FilesKnown
<1>8. Step(t, call[t].pc, pc) /\ pc # "place" /\ writes' \in Nat /\ mishaps' \in Nat
  BY <1>1 DEF Confirm, IInv, TypeOK
<1>. HIDE DEF good, pc, d
<1>. QED BY <1>1, <1>3, <1>4, <1>5, <1>6, <1>7, <1>8, MoveStep

-----------------------------------------------------------------------------
(* The steps that write a file: its own call aside, everybody notices.     *)
LEMMA TypedNoticed ==
  ASSUME TypeOK, NEW n \in Names
  PROVE  /\ Noticed(call, n) \in [Tasks -> Call \union {NoCall}]
         /\ \A u \in Tasks : Noticed(call, n)[u].pc = call[u].pc
<1>1. \A u \in Tasks : /\ Noticed(call, n)[u] \in Call \union {NoCall}
                       /\ Noticed(call, n)[u].pc = call[u].pc
  <2>1. TAKE u \in Tasks
  <2>2. CASE Begun(u) BY <2>2, NoticedFields
  <2>3. CASE ~Begun(u) BY <2>3 DEF Begun, Noticed
  <2>. QED BY <2>2, <2>3
<1>2. Noticed(call, n) = [u \in Tasks |-> Noticed(call, n)[u]]
  BY DEF Noticed
<1>. QED BY <1>1, <1>2

(* A file that is removed, or written by the application.                  *)
LEMMA OutsideStep ==
  ASSUME IInv, NEW n \in Names, NEW c \in {Absent} \union Contents,
         files' = [files EXCEPT ![n] = c], call' = Noticed(call, n),
         temps' = temps, writes' \in Nat, mishaps' = mishaps
  PROVE  IInv'
<1>1. TypeOK' BY TypedNoticed DEF IInv, TypeOK
<1>2. \A m \in Names : m # n => files'[m] = files[m] BY DEF IInv, TypeOK
<1>3. \A u \in Tasks : Sane(u)'
  <2>1. TAKE u \in Tasks
  <2>2. Sane(u) BY DEF IInv
  <2>. QED BY <1>2, <2>2, OnlyNoticed DEF IInv
<1>. QED BY <1>1, <1>3 DEF IInv

LEMMA DeleteStep ==
  ASSUME IInv, NEW k \in Keys, Delete(k)
  PROVE  IInv'
<1>1. k \in Names /\ writes' \in Nat BY DEF Delete, Names, IInv, TypeOK
<1>. QED BY <1>1, OutsideStep DEF Delete

LEMMA WriteStep ==
  ASSUME IInv, NEW p \in Paths, NEW c \in Contents \union {Absent}, Write(p, c)
  PROVE  IInv'
<1>1. p \in Names /\ writes' \in Nat BY DEF Write, Names, IInv, TypeOK
<1>. QED BY <1>1, OutsideStep DEF Write

LEMMA PlaceStep ==
  ASSUME IInv, NEW t \in Tasks, Place(t)
  PROVE  IInv'
<1>. DEFINE n == call[t].name
            pc == IF call[t].op = "put" THEN "ok" ELSE "confirm"
            d == [call[t] EXCEPT !.overtaken = FALSE, !.pc = pc]
<1>1. call[t].pc = "place" /\ call[t].pc \in PCs /\ pc \in PCs
  BY DEF Place, PCs
<1>2. /\ Begun(t) /\ TempKnown(t) /\ ContentVouched(t) /\ FilesKnown(t)
      /\ call[t] \in Call
  BY <1>1, Moved
<1>3. n \in Names /\ temps[t] \in Contents
  BY <1>1, <1>2 DEF IInv, TypeOK, Call
<1>4. /\ d \in Call /\ d.op = call[t].op /\ d.from = call[t].from /\ d.name = n
      /\ d.content = call[t].content /\ d.pc = pc
      /\ d.stale = call[t].stale /\ d.overtaken = FALSE
  BY <1>1, <1>2 DEF Call, PCs
<1>5. d # NoCall BY <1>1, <1>4 DEF NoCall, PCs
<1>6. call' = [Noticed(call, n) EXCEPT ![t] = d] BY DEF Place
<1>7. /\ files' = [files EXCEPT ![n] = temps[t]]
      /\ temps' = [temps EXCEPT ![t] = Absent]
      /\ writes' = writes /\ mishaps' = mishaps
  BY DEF Place
<1>8. /\ Noticed(call, n) \in [Tasks -> Call \union {NoCall}]
      /\ \A u \in Tasks : Noticed(call, n)[u].pc = call[u].pc
  BY <1>3, TypedNoticed DEF IInv
<1>9. pc # "place" OBVIOUS
<1>. HIDE DEF n, pc, d
<1>10. call'[t] = d /\ \A u \in Tasks : u # t => call'[u] = Noticed(call, n)[u]
  BY <1>6, <1>8
<1>11. TypeOK'
  <2>1. call' \in [Tasks -> Call \union {NoCall}] BY <1>4, <1>6, <1>8
  <2>2. \A u \in Tasks : call'[u].pc = "place" => temps'[u] \in Contents
    BY <1>4, <1>7, <1>8, <1>9, <1>10 DEF IInv, TypeOK
  <2>. QED BY <1>3, <1>7, <2>1, <2>2 DEF IInv, TypeOK
<1>12. files'[n] = temps[t] /\ temps'[t] = Absent
  BY <1>3, <1>7 DEF IInv, TypeOK
<1>13. Sane(t)'
  <2>1. TempKnown(t)' BY <1>4, <1>9, <1>10, <1>12 DEF TempKnown, pc
  <2>2. ContentVouched(t)' BY <1>1, <1>2, <1>4, <1>10 DEF ContentVouched, pc
  <2>3. FilesKnown(t)'
    <3>1. (call[t].op = "restore" => ~call[t].stale) => files'[n] = call[t].content
      BY <1>1, <1>2, <1>12 DEF TempKnown
    <3>. QED BY <1>4, <1>10, <3>1 DEF FilesKnown, pc
  <2>. QED BY <1>5, <1>10, <2>1, <2>2, <2>3 DEF Sane, Begun
<1>14. \A u \in Tasks : Sane(u)'
  <2>1. TAKE u \in Tasks
  <2>2. CASE u = t BY <1>13, <2>2
  <2>3. CASE u # t
    <3>1. Sane(u) /\ TypeOK BY DEF IInv
    <3>2. \A m \in Names : m # n => files'[m] = files[m]
      BY <1>7 DEF IInv, TypeOK
    <3>3. temps'[u] = temps[u] BY <1>7, <2>3 DEF IInv, TypeOK
    <3>. QED BY <1>3, <1>10, <2>3, <3>1, <3>2, <3>3, OnlyNoticed
  <2>. QED BY <2>2, <2>3
<1>. QED BY <1>11, <1>14 DEF IInv

-----------------------------------------------------------------------------
LEMMA NextStep == IInv /\ [Next]_vars => IInv'
<1>. SUFFICES ASSUME IInv, [Next]_vars PROVE IInv' OBVIOUS
<1>1. ASSUME NEW t \in Tasks,
             \/ \E k \in Keys, c \in Contents : BeginPut(t, k, c)
             \/ \E p, q \in Paths : p # q /\ BeginBackup(t, p, q)
             \/ \E p, q \in Paths, c \in Contents : BeginRestore(t, p, q, c)
      PROVE  IInv'
  BY <1>1, BeginsStep
<1>2. ASSUME NEW t \in Tasks,
             CheckTarget(t) \/ CreateTemporary(t) \/ Fill(t) \/ Place(t) \/ Confirm(t)
               \/ Crash(t)
      PROVE  IInv'
  BY <1>2, CheckTargetStep, CreateTemporaryStep, FillStep, PlaceStep, ConfirmStep, CrashStep
<1>3. ASSUME NEW t \in Tasks, SourceUnfit(t) \/ Fail(t)
      PROVE  IInv'
  <2>1. mishaps' \in Nat BY <1>3 DEF SourceUnfit, Fail, IInv, TypeOK
  <2>2. CleanUp(t) /\ call[t].pc \in Live
    BY <1>3 DEF SourceUnfit, Fail, Live
  <2>. QED BY <2>1, <2>2, CleanUpStep
<1>4. ASSUME \/ \E k \in Keys : Delete(k)
             \/ \E p \in Paths, c \in Contents \union {Absent} : Write(p, c)
      PROVE  IInv'
  BY <1>4, DeleteStep, WriteStep
<1>5. CASE UNCHANGED vars
  BY <1>5 DEF vars, IInv, TypeOK, Sane, Begun, TempKnown, ContentVouched, FilesKnown
<1>. QED BY <1>1, <1>2, <1>3, <1>4, <1>5 DEF Next

(* The invariant holds in every reachable state.                           *)
THEOREM InvariantHolds == Spec => []IInv
<1>1. Init => IInv
  <2>. SUFFICES ASSUME Init PROVE IInv OBVIOUS
  <2>1. TypeOK BY DEF Init, TypeOK, NoCall
  <2>2. \A t \in Tasks : Sane(t) BY DEF Init, Sane, Begun
  <2>. QED BY <2>1, <2>2 DEF IInv
<1>. QED BY <1>1, NextStep, PTL DEF Spec

(* No half-written file is ever visible under a name of an artifact, a     *)
(* database or a backup, whatever fails or dies.                           *)
THEOREM TypeCorrect == Spec => []TypeOK
<1>1. IInv => TypeOK BY DEF IInv
<1>. QED BY <1>1, InvariantHolds, PTL

(* put, backup_sqlite and restore_sqlite_backup replace a file only when   *)
(* it came after their existence check.                                    *)
THEOREM OverwritesExplainedHolds == Spec => []OverwritesExplained
<1>1. IInv => OverwritesExplained
  BY CallTyped DEF IInv, Sane, Begun, FilesKnown, OverwritesExplained
<1>. QED BY <1>1, InvariantHolds, PTL

(* Only a dead process and a put that failed while it wrote its data leave *)
(* a temporary file behind.                                                *)
THEOREM TempsAccountedHolds == Spec => []TempsAccounted
<1>1. IInv => TempsAccounted
  BY DEF IInv, Sane, Begun, TempKnown, TempsAccounted
<1>. QED BY <1>1, InvariantHolds, PTL

(* A restore or backup that raises after it has placed its file was        *)
(* overtaken, or worked from a backup that changed, or leaves what was     *)
(* asked for in place and could not look at it.                            *)
THEOREM LateFailuresExplainedHolds == Spec => []LateFailuresExplained
<1>1. ASSUME IInv, NEW t \in Tasks,
             call[t].pc \in {"unverified", "unconfirmed"}, ~call[t].overtaken,
             call[t].op = "restore" => ~call[t].stale
      PROVE  /\ call[t].pc = "unconfirmed"
             /\ files[call[t].name] = call[t].content /\ call[t].content \in Sound
  <2>1. Begun(t) /\ call[t] \in Call /\ Sane(t)
    BY <1>1, CallTyped DEF IInv, Begun
  <2>. QED BY <1>1, <2>1 DEF Sane, FilesKnown, ContentVouched, Call
<1>2. IInv => LateFailuresExplained BY <1>1 DEF LateFailuresExplained
<1>. QED BY <1>2, InvariantHolds, PTL

(* What put, backup_sqlite and restore_sqlite_backup have answered is true *)
(* until somebody writes or deletes the file.                              *)
THEOREM AnswersHoldHolds == Spec => []AnswersHold
<1>1. ASSUME IInv, NEW t \in Tasks, call[t].pc = "ok", ~call[t].overtaken
      PROVE  /\ files[call[t].name] = call[t].content
             /\ call[t].op # "put" => call[t].content \in Sound
  <2>1. Begun(t) /\ call[t] \in Call /\ Sane(t)
    BY <1>1, CallTyped DEF IInv, Begun
  <2>. QED BY <1>1, <2>1 DEF Sane, FilesKnown, ContentVouched, Call
<1>2. IInv => AnswersHold BY <1>1 DEF AnswersHold
<1>. QED BY <1>2, InvariantHolds, PTL

==============================================================================
