------------------------- MODULE DownloadTaskProof --------------------------
(***************************************************************************)
(* Safety of the download with its journal, for every content, length and  *)
(* number of restarts and ends of the application: what is published is    *)
(* verified, however many calls fail, and if at most one fails the bytes   *)
(* the journal records are on the disk.                                    *)
(***************************************************************************)
EXTENDS DownloadTask, TLAPS

(* The download.  A section of the engine takes one world to others; the   *)
(* lemmas say of each operator that it leads from good worlds to good ones. *)

(* What a section of the engine works on.                                  *)
Worlds == [task : Task, disk : Disk, faults : 0 .. MaxFaults, asked : [Kinds -> Nat],
           owed : BOOLEAN]

Whole == [v |-> Wanted, n |-> Full]

(* A verdict is about the item that is bound and about the bytes that are  *)
(* there, and while an item is bound nobody waits for another one.         *)
Sound(w) ==
    /\ w \in Worlds
    /\ w.disk.final \in {Nothing, Whole}
    /\ w.task.verdict = TRUE => w.disk.partial = Whole
    /\ w.task.item = Nothing => w.task.verdict = Nothing
    /\ w.task.item # Nothing => /\ w.task.pending = Nothing
                                /\ w.task.auto \notin {"relaunch", "restart"}

(* A live task has its record, and what a rollback will write back.        *)
Alive(w) ==
    /\ w.task.st = "live"
    /\ w.disk.journal # Nothing
    /\ w.task.startup # {} => w.task.original # Nothing
    /\ w.task.auto \in {"heldStartup", "journalStartup"} =>
           w.task.startup \cap {"failed", "bind"} # {}
    /\ w.task.auto = "journalRebind" => w.task.fallback # Nothing
    /\ w.task.auto = "heldRebind" => w.task.fallback # Nothing \/ w.task.restored

(* A task that is over has left nothing behind.                            *)
Finished(w) == w.task.st # "live" /\ w.task = [NoTask EXCEPT !.st = w.task.st]

Good(w) == Sound(w) /\ (Alive(w) \/ Finished(w))

LEMMA FieldsOfWorld ==
    ASSUME NEW w \in Worlds
    PROVE  /\ w.task \in Task /\ w.disk \in Disk /\ w.faults \in 0 .. MaxFaults
           /\ w.asked \in [Kinds -> Nat] /\ w.owed \in BOOLEAN
           /\ w = [task |-> w.task, disk |-> w.disk, faults |-> w.faults,
                   asked |-> w.asked, owed |-> w.owed]
  BY SMT DEF Worlds

LEMMA FaultyKeeps ==
    ASSUME NEW w \in Worlds, NEW x \in Faulty(w)
    PROVE  /\ x \in Worlds /\ x.task = w.task /\ x.disk = w.disk
           /\ x.asked = w.asked /\ x.owed = w.owed
  BY FieldsOfWorld, DownloadAssumption DEF Faulty, Worlds, DownloadAssumption

LEMMA CancelledKeeps ==
    ASSUME NEW w \in Worlds, NEW x \in Cancelled(w)
    PROVE  /\ x \in Worlds /\ x.asked = w.asked /\ x.owed = w.owed /\ x.faults = w.faults
           /\ x.task = [w.task EXCEPT !.item = Nothing, !.verdict = Nothing, !.rebind = Nothing]
           /\ x.disk \in {w.disk, [w.disk EXCEPT !.partial = Nothing]}
  <1>1. w.task \in Task /\ w.disk \in Disk
    BY FieldsOfWorld
  <1>2. [w.task EXCEPT !.item = Nothing, !.verdict = Nothing, !.rebind = Nothing] \in Task
    BY <1>1 DEF Task
  <1>3. [w.disk EXCEPT !.partial = Nothing] \in Disk
    BY <1>1 DEF Disk
  <1>. QED
    BY <1>1, <1>2, <1>3 DEF Cancelled, Worlds

LEMMA CancelledIsSound ==
    ASSUME NEW w, Sound(w), NEW x \in Cancelled(w)
    PROVE  /\ Sound(x) /\ x.task.item = Nothing /\ x.task.verdict = Nothing
           /\ x.task.st = w.task.st
           /\ Alive(w) => Alive(x)
  <1>1. w \in Worlds /\ w.task \in Task /\ w.disk \in Disk
    BY FieldsOfWorld DEF Sound
  <1>2. /\ x \in Worlds /\ x.task = [w.task EXCEPT !.item = Nothing, !.verdict = Nothing, !.rebind = Nothing]
        /\ x.disk \in {w.disk, [w.disk EXCEPT !.partial = Nothing]}
    BY <1>1, CancelledKeeps
  <1>3. /\ x.task.item = Nothing /\ x.task.verdict = Nothing /\ x.task.st = w.task.st
        /\ x.task.auto = w.task.auto /\ x.task.startup = w.task.startup
        /\ x.task.original = w.task.original /\ x.task.fallback = w.task.fallback
        /\ x.task.restored = w.task.restored
    BY <1>1, <1>2 DEF Task
  <1>4. x.disk.final = w.disk.final /\ x.disk.journal = w.disk.journal
    BY <1>1, <1>2 DEF Disk
  <1>. QED
    BY <1>2, <1>3, <1>4, NothingAssumption DEF Sound, Alive, NothingAssumption

LEMMA SameTaskIsSound ==
    ASSUME NEW w, Sound(w), NEW x \in Worlds, x.task = w.task,
           x.disk.partial = w.disk.partial, x.disk.final = w.disk.final
    PROVE  /\ Sound(x)
           /\ Alive(w) /\ x.disk.journal # Nothing => Alive(x)
           /\ Finished(w) => Finished(x)
  BY DEF Sound, Alive, Finished

LEMMA SnapshotsKeep ==
    ASSUME NEW w \in Worlds, NEW preserve \in BOOLEAN, NEW s \in Snapshots(w, preserve)
    PROVE  /\ s.w \in Worlds /\ s.w.task = w.task
           /\ s.w.disk.partial = w.disk.partial /\ s.w.disk.final = w.disk.final
           /\ s.w.disk.journal = w.disk.journal
           /\ s.bytes \in Bytes \cup {Nothing} /\ s.thrown \in BOOLEAN
  <1>1. w.task \in Task /\ w.disk \in Disk
    BY FieldsOfWorld
  <1>2. /\ w.disk.snapshot \in Content \cup {Nothing} /\ w.disk.partial \in Content \cup {Nothing}
        /\ Size(w.disk.snapshot) \in Bytes \cup {Nothing}
    BY <1>1 DEF Disk, Size, Content
  <1>3. ASSUME NEW x \in Worlds, x.task = w.task, x.disk = w.disk
        PROVE  LET y == [x EXCEPT !.owed = @ /\ ~Short(x.disk)]
               IN  y \in Worlds /\ y.task = w.task /\ y.disk = w.disk
    <2>1. x = [task |-> x.task, disk |-> x.disk, faults |-> x.faults,
               asked |-> x.asked, owed |-> x.owed] /\ x.owed \in BOOLEAN
      BY <1>3, FieldsOfWorld
    <2>2. (x.owed /\ ~Short(x.disk)) \in BOOLEAN
      BY <2>1
    <2>. QED
      BY <1>3, <2>1, <2>2 DEF Worlds
  <1>4. CASE s = Copied([w EXCEPT !.disk.snapshot = w.disk.partial], w.disk.partial.n)
                 /\ w.disk.partial # Nothing
    <2>1. [w.disk EXCEPT !.snapshot = w.disk.partial] \in Disk
      BY <1>1, <1>2 DEF Disk
    <2>2. w.disk.partial.n \in Bytes
      BY <1>4, <1>2 DEF Content
    <2>. QED
      BY <1>1, <1>4, <2>1, <2>2 DEF Copied, Worlds, Disk
  <1>5. ASSUME NEW x \in Worlds, x.task = w.task, x.disk = w.disk, NEW b \in BOOLEAN,
               s = [Copied([x EXCEPT !.owed = @ /\ ~Short(x.disk)], Size(w.disk.snapshot))
                        EXCEPT !.thrown = b]
        PROVE  /\ s.w \in Worlds /\ s.w.task = w.task /\ s.w.disk = w.disk
               /\ s.bytes \in Bytes \cup {Nothing} /\ s.thrown \in BOOLEAN
    BY <1>3, <1>5, <1>2 DEF Copied
  <1>6. CASE s = Copied([w EXCEPT !.owed = @ /\ ~Short(w.disk)], Size(w.disk.snapshot))
    BY <1>3, <1>6, <1>2 DEF Copied
  <1>7. ASSUME NEW x \in Faulty(w)
        PROVE  x \in Worlds /\ x.task = w.task /\ x.disk = w.disk
    BY FaultyKeeps
  <1>. QED
    BY <1>4, <1>5, <1>6, <1>7 DEF Snapshots

LEMMA UpsertsKeep ==
    ASSUME NEW w \in Worlds, NEW entry \in Entry \cup {Nothing}, NEW r \in Upserts(w, entry)
    PROVE  /\ r.w \in Worlds /\ r.w.task = w.task
           /\ r.w.disk.partial = w.disk.partial /\ r.w.disk.final = w.disk.final
           /\ r.thrown \in BOOLEAN
           /\ r.thrown => r.w.disk = w.disk
           /\ ~r.thrown => r.w.disk.journal = entry
  <1>1. w.task \in Task /\ w.disk \in Disk
    BY FieldsOfWorld
  <1>2. [w.disk EXCEPT !.journal = entry] \in Disk
    BY <1>1 DEF Disk
  <1>3. CASE r = [w |-> [w EXCEPT !.disk.journal = entry], thrown |-> FALSE]
    BY <1>1, <1>2, <1>3 DEF Worlds, Disk
  <1>4. ASSUME NEW x \in Faulty(w), r = [w |-> x, thrown |-> TRUE]
        PROVE  r.w \in Worlds /\ r.w.task = w.task /\ r.w.disk = w.disk /\ r.thrown = TRUE
    BY <1>4, FaultyKeeps
  <1>. QED
    BY <1>3, <1>4 DEF Upserts

LEMMA PersistsKeep ==
    ASSUME NEW w \in Worlds, NEW bytes \in Bytes \cup {Nothing}, NEW r \in Persists(w, bytes),
           w.task.item # Nothing \/ w.disk.journal # Nothing
    PROVE  /\ r.w \in Worlds /\ r.thrown \in BOOLEAN
           /\ r.w.task \in {w.task, [w.task EXCEPT !.fallback = Nothing]}
           /\ r.thrown => r.w.task = w.task
           /\ r.w.disk.partial = w.disk.partial /\ r.w.disk.final = w.disk.final
           /\ w.disk.journal # Nothing => r.w.disk.journal # Nothing
  <1>1. w.task \in Task /\ w.disk \in Disk
    BY FieldsOfWorld
  <1>2. /\ w.task.fallback \in Entry \cup {Nothing} /\ w.task.item \in Item \cup {Nothing}
        /\ w.disk.journal \in Entry \cup {Nothing} /\ w.disk.partial \in Content \cup {Nothing}
    BY <1>1 DEF Task, Disk
  <1> DEFINE t == w.task
             entry == [v |-> IF t.item # Nothing THEN t.item.v ELSE w.disk.journal.v,
                       n |-> IF bytes # Nothing THEN bytes
                             ELSE IF t.item # Nothing THEN t.item.n
                             ELSE IF w.disk.partial # Nothing THEN w.disk.partial.n ELSE 0]
             worth == t.rebind = Nothing /\ t.startup = {}
             renewed(q) == IF q.thrown THEN q
                           ELSE [w |-> [q.w EXCEPT !.task.fallback = Nothing, !.owed = @ \/ worth],
                                 thrown |-> FALSE]
  <1>3. entry \in Entry
    <2>1. t.item # Nothing => t.item.v \in Versions /\ t.item.n \in Bytes
      BY <1>2 DEF Item
    <2>2. t.item = Nothing => w.disk.journal.v \in Versions \cup {Nothing}
      BY <1>2 DEF Entry
    <2>3. w.disk.partial # Nothing => w.disk.partial.n \in Bytes
      BY <1>2 DEF Content
    <2>4. 0 \in Bytes
      BY DownloadAssumption DEF DownloadAssumption, Bytes
    <2>. QED
      BY <2>1, <2>2, <2>3, <2>4 DEF Entry
  <1>4. entry # Nothing
    BY <1>3, NothingAssumption DEF NothingAssumption
  <1>5. CASE r \in Upserts(w, t.fallback) /\ t.fallback # Nothing
    BY <1>1, <1>2, <1>5, UpsertsKeep DEF Task
  <1>6. CASE r = [w |-> w, thrown |-> FALSE]
    BY <1>6
  <1>7. ASSUME NEW q \in Upserts(w, entry), r = renewed(q)
        PROVE  /\ r.w \in Worlds /\ r.thrown \in BOOLEAN
               /\ r.w.task \in {w.task, [w.task EXCEPT !.fallback = Nothing]}
               /\ r.thrown => r.w.task = w.task
               /\ r.w.disk.partial = w.disk.partial /\ r.w.disk.final = w.disk.final
               /\ w.disk.journal # Nothing => r.w.disk.journal # Nothing
    <2>1. /\ q.w \in Worlds /\ q.w.task = w.task /\ q.thrown \in BOOLEAN
          /\ q.w.disk.partial = w.disk.partial /\ q.w.disk.final = w.disk.final
          /\ q.thrown => q.w.disk = w.disk
          /\ ~q.thrown => q.w.disk.journal = entry
      BY <1>3, <1>7, UpsertsKeep
    <2>2. CASE q.thrown
      BY <1>7, <2>1, <2>2
    <2>3. CASE ~q.thrown
      <3>2. r = [w |-> [q.w EXCEPT !.task.fallback = Nothing, !.owed = @ \/ worth], thrown |-> FALSE]
        BY <1>7, <2>3
      <3>3. [w.task EXCEPT !.fallback = Nothing] \in Task /\ worth \in BOOLEAN
        BY <1>1 DEF Task
      <3>4. /\ r.w \in Worlds /\ r.w.task = [w.task EXCEPT !.fallback = Nothing]
            /\ r.w.disk = q.w.disk
        BY <2>1, <3>2, <3>3 DEF Worlds
      <3>. QED
        BY <2>1, <2>3, <3>2, <3>4, <1>4
    <2>. QED
      BY <2>1, <2>2, <2>3
  <1>. QED
    BY <1>5, <1>6, <1>7 DEF Persists

LEMMA EndedIsGood ==
    ASSUME NEW w \in Worlds, w.disk.final \in {Nothing, Whole},
           NEW st \in {"none", "completed", "failed", "kept", "cancelled"}
    PROVE  /\ Good(Ended(w, st)) /\ Finished(Ended(w, st))
           /\ Ended(w, st).task.st = st
  <1>1. [NoTask EXCEPT !.st = st] \in Task
    <2>1. 0 \in 0 .. MaxAttempts
      BY DownloadAssumption DEF DownloadAssumption
    <2>2. {} \in SUBSET {"create", "failed", "bind"}
      OBVIOUS
    <2>. QED
      BY <2>1, <2>2 DEF NoTask, Task
  <1>2. Ended(w, st) \in Worlds
    BY <1>1 DEF Ended, Worlds
  <1>3. Ended(w, st).task = [NoTask EXCEPT !.st = st] /\ Ended(w, st).disk = w.disk
    <2>1. Ended(w, st) = [w EXCEPT !.task = [NoTask EXCEPT !.st = st]]
      BY Zenon DEF Ended
    <2>2. \A T : [w EXCEPT !.task = T].task = T /\ [w EXCEPT !.task = T].disk = w.disk
      BY DEF Worlds
    <2>. QED
      BY <2>1, <2>2
  <1>4. /\ Ended(w, st).task.st = st /\ Ended(w, st).task.verdict = Nothing
        /\ Ended(w, st).task.item = Nothing
        /\ [NoTask EXCEPT !.st = st] = [NoTask EXCEPT !.st = Ended(w, st).task.st]
    BY <1>3 DEF NoTask
  <1>. QED
    BY <1>2, <1>3, <1>4, NothingAssumption DEF Good, Sound, Finished, NothingAssumption

LEMMA NoTaskIsNone == NoTask = [NoTask EXCEPT !.st = "none"]
  <1>1. NoTask \in Task
    <2>1. 0 \in 0 .. MaxAttempts
      BY DownloadAssumption DEF DownloadAssumption
    <2>. QED
      BY <2>1 DEF NoTask, Task
  <1>2. NoTask.st = "none"
    BY DEF NoTask
  <1>. QED
    BY <1>1, <1>2 DEF Task

LEMMA NoTaskIsOver ==
    ASSUME NEW w \in Worlds, w.task = NoTask, w.disk.final \in {Nothing, Whole}
    PROVE  Sound(w) /\ Finished(w)
  <1>1. /\ NoTask.st = "none" /\ NoTask.item = Nothing /\ NoTask.verdict = Nothing
    BY DEF NoTask
  <1>. QED
    BY <1>1, NoTaskIsNone, NothingAssumption DEF Sound, Finished, NothingAssumption

LEMMA ErasedKeeps ==
    ASSUME NEW w \in Worlds, NEW x \in Erased(w)
    PROVE  /\ x \in Worlds /\ x.task = w.task /\ x.disk.final = w.disk.final
           /\ x.disk.partial = Nothing
  <1>1. w.task \in Task /\ w.disk \in Disk
    BY FieldsOfWorld
  <1> DEFINE gone == [w EXCEPT !.disk.partial = Nothing, !.disk.snapshot = Nothing, !.owed = FALSE]
  <1>2. [w.disk EXCEPT !.partial = Nothing, !.snapshot = Nothing] \in Disk
    BY <1>1 DEF Disk
  <1>3. /\ gone \in Worlds /\ gone.task = w.task
        /\ gone.disk = [w.disk EXCEPT !.partial = Nothing, !.snapshot = Nothing]
    BY <1>1, <1>2 DEF Worlds
  <1>4. gone.disk.final = w.disk.final /\ gone.disk.partial = Nothing /\ gone.disk \in Disk
    BY <1>1, <1>2, <1>3 DEF Disk
  <1> HIDE DEF gone
  <1>5. CASE x = [gone EXCEPT !.disk.journal = Nothing]
    <2>1. [gone.disk EXCEPT !.journal = Nothing] \in Disk
      BY <1>4 DEF Disk
    <2>2. x \in Worlds /\ x.task = gone.task /\ x.disk = [gone.disk EXCEPT !.journal = Nothing]
      BY <1>3, <1>5, <2>1 DEF Worlds
    <2>. QED
      BY <1>3, <1>4, <2>2 DEF Disk
  <1>6. CASE x \in Faulty(gone)
    BY <1>3, <1>4, <1>6, FaultyKeeps
  <1>. QED
    BY <1>5, <1>6 DEF Erased, gone

LEMMA FailedIsOver ==
    ASSUME NEW w, Sound(w), NEW preserve \in BOOLEAN, preserve => w.disk.journal # Nothing,
           NEW x \in Failed(w, preserve)
    PROVE  Good(x) /\ Finished(x)
  <1>1. w \in Worlds /\ w.disk.final \in {Nothing, Whole}
    BY DEF Sound
  <1>2. CASE preserve
    <2> DEFINE K(s, y) == {Ended(r.w, "kept") : r \in Persists(y, s.bytes)}
               C(s) == UNION {K(s, y) : y \in Cancelled(s.w)}
    <2>0. x \in UNION {C(s) : s \in Snapshots(w, TRUE)}
      BY <1>2, Zenon DEF Failed
    <2>a. PICK s \in Snapshots(w, TRUE) : x \in C(s)
      <3> HIDE DEF C
      <3>. QED
        BY <2>0
    <2>1. \E y \in Cancelled(s.w) : \E r \in Persists(y, s.bytes) : x = Ended(r.w, "kept")
      BY <2>a
    <2>2. PICK y \in Cancelled(s.w) : \E r \in Persists(y, s.bytes) : x = Ended(r.w, "kept")
      BY <2>1
    <2>3. PICK r \in Persists(y, s.bytes) : x = Ended(r.w, "kept")
      BY <2>2
    <2>4. /\ s.w \in Worlds /\ s.w.disk.final = w.disk.final /\ s.w.disk.journal = w.disk.journal
          /\ s.bytes \in Bytes \cup {Nothing}
      BY <1>1, SnapshotsKeep
    <2>5. /\ y \in Worlds /\ y.disk.final = w.disk.final /\ y.disk.journal = w.disk.journal
      <3>1. s.w.disk \in Disk
        BY <2>4, FieldsOfWorld
      <3>2. y \in Worlds /\ y.disk \in {s.w.disk, [s.w.disk EXCEPT !.partial = Nothing]}
        BY <2>2, <2>4, CancelledKeeps
      <3>. QED
        BY <2>4, <3>1, <3>2 DEF Disk
    <2>6. r.w \in Worlds /\ r.w.disk.final = w.disk.final
      BY <1>2, <2>3, <2>4, <2>5, PersistsKeep
    <2>. QED
      BY <1>1, <2>3, <2>6, EndedIsGood
  <1>3. CASE ~preserve
    <2>1. PICK z \in Cancelled(w) : \E y \in Erased(z) : x = Ended(y, "failed")
      BY <1>3 DEF Failed
    <2>2. PICK y \in Erased(z) : x = Ended(y, "failed")
      BY <2>1
    <2>3. z \in Worlds /\ z.disk.final = w.disk.final
      <3>1. w.disk \in Disk
        BY <1>1, FieldsOfWorld
      <3>2. z \in Worlds /\ z.disk \in {w.disk, [w.disk EXCEPT !.partial = Nothing]}
        BY <1>1, <2>1, CancelledKeeps
      <3>. QED
        BY <3>1, <3>2 DEF Disk
    <2>4. y \in Worlds /\ y.disk.final = w.disk.final
      BY <2>2, <2>3, ErasedKeeps
    <2>. QED
      BY <1>1, <2>2, <2>4, EndedIsGood
  <1>. QED
    BY <1>2, <1>3

LEMMA ScheduledIsGood ==
    ASSUME NEW w, Sound(w), Alive(w), NEW x \in Scheduled(w)
    PROVE  /\ Good(x)
           /\ x.task.st = "live" => /\ Alive(x) /\ x.task.item = w.task.item
                                    /\ x.task.auto \in {w.task.auto, "resume", "exhausted"}
  <1>1. w \in Worlds /\ w.task \in Task /\ w.disk \in Disk
    BY FieldsOfWorld DEF Sound
  <1>2. CASE x = w
    BY <1>2 DEF Good
  <1>3. CASE /\ w.task.attempts < MaxAttempts
             /\ x = [w EXCEPT !.task.auto = "resume", !.task.attempts = @ + 1, !.task.stall = FALSE]
    <2>1. w.task.attempts \in 0 .. MaxAttempts /\ MaxAttempts \in Nat
      BY <1>1, DownloadAssumption DEF Task, DownloadAssumption
    <2>2. w.task.attempts + 1 \in 0 .. MaxAttempts
      BY <1>3, <2>1
    <2> DEFINE T == [w.task EXCEPT !.auto = "resume", !.attempts = @ + 1, !.stall = FALSE]
    <2>3. T \in Task
      BY <1>1, <2>2 DEF Task, Waits
    <2>4. x \in Worlds /\ x.task = T /\ x.disk = w.disk
      BY <1>1, <1>3, <2>3 DEF Worlds
    <2>5. /\ T.auto = "resume" /\ T.st = w.task.st /\ T.item = w.task.item
          /\ T.verdict = w.task.verdict /\ T.pending = w.task.pending
          /\ T.startup = w.task.startup /\ T.original = w.task.original
      BY <1>1 DEF Task
    <2>. QED
      BY <2>4, <2>5 DEF Good, Sound, Alive
  <1>4. ASSUME NEW s \in Snapshots(w, w.task.fallback # Nothing),
               x = [s.w EXCEPT !.task.auto = "exhausted", !.task.stall = FALSE]
        PROVE  Good(x) /\ Alive(x) /\ x.task.item = w.task.item /\ x.task.auto = "exhausted"
    <2>1. s.w \in Worlds /\ s.w.task = w.task /\ Sound(s.w) /\ Alive(s.w)
      BY <1>1, SnapshotsKeep, SameTaskIsSound DEF Alive
    <2> DEFINE T == [w.task EXCEPT !.auto = "exhausted", !.stall = FALSE]
    <2>2. T \in Task
      BY <1>1 DEF Task, Waits
    <2>3. x \in Worlds /\ x.task = T /\ x.disk = s.w.disk
      BY <2>1, <1>4, <2>2 DEF Worlds
    <2>4. /\ T.auto = "exhausted" /\ T.st = w.task.st /\ T.item = w.task.item
          /\ T.verdict = w.task.verdict /\ T.pending = w.task.pending
          /\ T.startup = w.task.startup /\ T.original = w.task.original
      BY <1>1 DEF Task
    <2>. QED
      BY <2>1, <2>3, <2>4 DEF Good, Sound, Alive
  <1>5. ASSUME NEW s \in Snapshots(w, w.task.fallback # Nothing),
               NEW y \in Cancelled([s.w EXCEPT !.task.pending = Nothing]), x \in Failed(y, TRUE)
        PROVE  Good(x) /\ Finished(x)
    <2>1. s.w \in Worlds /\ s.w.task = w.task /\ Sound(s.w) /\ Alive(s.w)
      BY <1>1, SnapshotsKeep, SameTaskIsSound DEF Alive
    <2> DEFINE T == [w.task EXCEPT !.pending = Nothing]
               z == [s.w EXCEPT !.task.pending = Nothing]
    <2>2. T \in Task
      BY <1>1 DEF Task
    <2>3. z \in Worlds /\ z.task = T /\ z.disk = s.w.disk
      BY <2>1, <2>2 DEF Worlds
    <2>4. /\ T.auto = w.task.auto /\ T.st = w.task.st /\ T.item = w.task.item
          /\ T.verdict = w.task.verdict /\ T.pending = Nothing
          /\ T.startup = w.task.startup /\ T.original = w.task.original
          /\ T.fallback = w.task.fallback /\ T.restored = w.task.restored
      BY <1>1 DEF Task
    <2>5. Sound(z) /\ Alive(z)
      BY <2>1, <2>3, <2>4 DEF Sound, Alive
    <2>6. Sound(y) /\ Alive(y)
      BY <1>5, <2>5, CancelledIsSound
    <2>. QED
      BY <1>5, <2>6, FailedIsOver DEF Alive
  <1>6. \/ x = w
        \/ /\ w.task.attempts < MaxAttempts
           /\ x = [w EXCEPT !.task.auto = "resume", !.task.attempts = @ + 1, !.task.stall = FALSE]
        \/ \E s \in Snapshots(w, w.task.fallback # Nothing) :
              \/ x = [s.w EXCEPT !.task.auto = "exhausted", !.task.stall = FALSE]
              \/ \E y \in Cancelled([s.w EXCEPT !.task.pending = Nothing]) : x \in Failed(y, TRUE)
    <2> DEFINE R(s) == IF s.thrown
                       THEN {[s.w EXCEPT !.task.auto = "exhausted", !.task.stall = FALSE]}
                       ELSE UNION {Failed(y, TRUE) : y \in Cancelled([s.w EXCEPT !.task.pending = Nothing])}
               again == [w EXCEPT !.task.auto = "resume", !.task.attempts = @ + 1,
                                  !.task.stall = FALSE]
    <2>1. x \in IF w.task.auto # Nothing THEN {w}
                ELSE IF w.task.attempts < MaxAttempts THEN {again}
                ELSE UNION {R(s) : s \in Snapshots(w, w.task.fallback # Nothing)}
      BY Zenon DEF Scheduled
    <2>2. ASSUME NEW s \in Snapshots(w, w.task.fallback # Nothing), x \in R(s)
          PROVE  \/ x = [s.w EXCEPT !.task.auto = "exhausted", !.task.stall = FALSE]
                 \/ \E y \in Cancelled([s.w EXCEPT !.task.pending = Nothing]) : x \in Failed(y, TRUE)
      BY <2>2, Zenon
    <2> HIDE DEF R, again
    <2>3. \/ x = w \/ (w.task.attempts < MaxAttempts /\ x = again)
          \/ \E s \in Snapshots(w, w.task.fallback # Nothing) : x \in R(s)
      BY <2>1
    <2>. QED
      BY <2>2, <2>3 DEF again
  <1>. QED
    BY <1>2, <1>3, <1>4, <1>5, <1>6 DEF Finished

LEMMA HeldForJournalKeeps ==
    ASSUME NEW w, Sound(w), NEW wait \in {"journalStartup", "journalRebind"}
    PROVE  LET h == HeldForJournal(w, wait)
           IN  /\ Sound(h) /\ h.disk = w.disk /\ h.task.auto = wait /\ h.task.st = w.task.st
               /\ h.task.startup = w.task.startup /\ h.task.original = w.task.original
               /\ h.task.fallback = w.task.fallback /\ h.task.restored = w.task.restored
  <1>1. w \in Worlds /\ w.task \in Task /\ w.disk \in Disk
    BY FieldsOfWorld DEF Sound
  <1> DEFINE i == IF w.task.item = Nothing \/ w.task.item.st = "completed" THEN w.task.item
                  ELSE [w.task.item EXCEPT !.st = "paused"]
             T == [w.task EXCEPT !.auto = wait, !.stall = FALSE, !.item = i]
             h == HeldForJournal(w, wait)
  <1>2. w.task.item \in Item \cup {Nothing}
    BY <1>1 DEF Task
  <1>3. w.task.item # Nothing => [w.task.item EXCEPT !.st = "paused"] \in Item
    BY <1>2 DEF Item
  <1>4. i \in Item \cup {Nothing} /\ (i = Nothing <=> w.task.item = Nothing)
    BY <1>2, <1>3, NothingAssumption DEF NothingAssumption
  <1>5. h = [w EXCEPT !.task.auto = wait, !.task.stall = FALSE, !.task.item = i]
    BY Zenon DEF HeldForJournal
  <1> HIDE DEF i, h
  <1>6. T \in Task
    BY <1>1, <1>4 DEF Task, Waits
  <1>7. h \in Worlds /\ h.task = T /\ h.disk = w.disk
    BY <1>1, <1>5, <1>6 DEF Worlds
  <1>8. /\ T.auto = wait /\ T.st = w.task.st /\ T.item = i
        /\ T.verdict = w.task.verdict /\ T.pending = w.task.pending
        /\ T.startup = w.task.startup /\ T.original = w.task.original
        /\ T.fallback = w.task.fallback /\ T.restored = w.task.restored
    BY <1>1 DEF Task
  <1> HIDE DEF T
  <1>9. Sound(h)
    BY <1>4, <1>7, <1>8 DEF Sound
  <1>. QED
    BY <1>7, <1>8, <1>9 DEF h

LEMMA StartupRolledBackIsGood ==
    ASSUME NEW w, Sound(w), w.task.st = "live", w.disk.journal # Nothing,
           w.task.original # Nothing, w.task.startup \cap {"failed", "bind"} # {},
           NEW x \in StartupRolledBack(w)
    PROVE  Good(x)
  <1>1. w \in Worlds /\ w.task \in Task /\ w.disk \in Disk
    BY FieldsOfWorld DEF Sound
  <1> DEFINE T == [w.task EXCEPT !.pending = Nothing, !.stall = FALSE, !.auto = Nothing]
             cleared == [w EXCEPT !.task.pending = Nothing, !.task.stall = FALSE,
                                  !.task.auto = Nothing]
             R(r) == IF r.thrown THEN {HeldForJournal(r.w, "journalStartup")}
                     ELSE {Ended(y, "none") : y \in Cancelled(r.w)}
             S(s) == UNION {R(r) : r \in Upserts(s.w, w.task.original)}
  <1>2. T \in Task
    BY <1>1 DEF Task
  <1>3. cleared \in Worlds /\ cleared.task = T /\ cleared.disk = w.disk
    BY <1>1, <1>2 DEF Worlds
  <1>4. /\ T.auto = Nothing /\ T.st = w.task.st /\ T.item = w.task.item
        /\ T.verdict = w.task.verdict /\ T.pending = Nothing
        /\ T.startup = w.task.startup /\ T.original = w.task.original
    BY <1>1 DEF Task
  <1>5. x \in UNION {S(s) : s \in Snapshots(cleared, TRUE)}
    BY Zenon DEF StartupRolledBack
  <1> HIDE DEF T, cleared
  <1>6. Sound(cleared)
    BY <1>3, <1>4, NothingAssumption DEF Sound, NothingAssumption, Waits
  <1>7. PICK s \in Snapshots(cleared, TRUE) : x \in S(s)
    <2> HIDE DEF S
    <2>. QED
      BY <1>5
  <1>8. PICK r \in Upserts(s.w, w.task.original) : x \in R(r)
    <2> HIDE DEF R
    <2>. QED
      BY <1>7
  <1>9. /\ s.w \in Worlds /\ s.w.task = T /\ s.w.disk.partial = w.disk.partial
        /\ s.w.disk.final = w.disk.final /\ s.w.disk.journal = w.disk.journal /\ Sound(s.w)
    <2>1. /\ s.w \in Worlds /\ s.w.task = cleared.task
          /\ s.w.disk.partial = cleared.disk.partial /\ s.w.disk.final = cleared.disk.final
          /\ s.w.disk.journal = cleared.disk.journal
      BY <1>3, SnapshotsKeep
    <2>. QED
      BY <2>1, <1>3, <1>6, SameTaskIsSound
  <1>10. w.task.original \in Entry \cup {Nothing}
    BY <1>1 DEF Task
  <1>11. /\ r.w \in Worlds /\ r.w.task = T /\ Sound(r.w)
         /\ r.thrown \in BOOLEAN /\ r.thrown => r.w.disk = s.w.disk
    BY <1>8, <1>9, <1>10, UpsertsKeep, SameTaskIsSound
  <1>12. CASE r.thrown
    <2>1. x = HeldForJournal(r.w, "journalStartup")
      BY <1>8, <1>12
    <2>2. Sound(x) /\ x.disk = r.w.disk /\ x.task.auto = "journalStartup"
          /\ x.task.st = "live" /\ x.task.startup = w.task.startup
          /\ x.task.original = w.task.original
      BY <2>1, <1>4, <1>11, HeldForJournalKeeps
    <2>. QED
      BY <2>2, <1>9, <1>11, <1>12 DEF Good, Alive
  <1>13. CASE ~r.thrown
    <2>1. PICK y \in Cancelled(r.w) : x = Ended(y, "none")
      BY <1>8, <1>13
    <2>2. Sound(y)
      BY <1>11, <2>1, CancelledIsSound
    <2>. QED
      BY <2>1, <2>2, EndedIsGood DEF Sound
  <1>. QED
    BY <1>11, <1>12, <1>13

LEMMA RebindRolledBackIsGood ==
    ASSUME NEW w, Sound(w), Alive(w), NEW entry \in Entry, NEW x \in RebindRolledBack(w, entry)
    PROVE  Good(x)
  <1>1. w \in Worlds /\ w.task \in Task /\ w.disk \in Disk
    BY FieldsOfWorld DEF Sound
  <1> DEFINE T == [w.task EXCEPT !.stall = FALSE, !.auto = Nothing, !.rebind = Nothing,
                                 !.fallback = entry]
             cleared == [w EXCEPT !.task.stall = FALSE, !.task.auto = Nothing,
                                  !.task.rebind = Nothing, !.task.fallback = entry]
             Q(s) == IF s.thrown THEN {[s.w EXCEPT !.task.auto = "snapshot"]}
                     ELSE {[y EXCEPT !.task.auto = "restart"] : y \in Cancelled(s.w)}
             R(r) == IF r.thrown THEN {HeldForJournal(r.w, "journalRebind")}
                     ELSE UNION {Q(s) : s \in Snapshots(r.w, TRUE)}
  <1>2. T \in Task
    BY <1>1 DEF Task
  <1>3. cleared \in Worlds /\ cleared.task = T /\ cleared.disk = w.disk
    BY <1>1, <1>2 DEF Worlds
  <1>4. /\ T.auto = Nothing /\ T.st = w.task.st /\ T.item = w.task.item
        /\ T.verdict = w.task.verdict /\ T.pending = w.task.pending
        /\ T.startup = w.task.startup /\ T.original = w.task.original
        /\ T.fallback = entry
    BY <1>1 DEF Task
  <1>5. x \in UNION {R(r) : r \in Upserts(cleared, entry)}
    BY Zenon DEF RebindRolledBack
  <1> HIDE DEF T, cleared
  <1>6. Sound(cleared) /\ Alive(cleared) /\ entry # Nothing
    BY <1>3, <1>4, NothingAssumption DEF Sound, Alive, NothingAssumption, Waits
  <1>7. PICK r \in Upserts(cleared, entry) : x \in R(r)
    <2> HIDE DEF R
    <2>. QED
      BY <1>5
  <1>8. /\ r.w \in Worlds /\ r.w.task = T /\ Sound(r.w) /\ r.thrown \in BOOLEAN
        /\ r.w.disk.journal # Nothing /\ Alive(r.w)
    BY <1>3, <1>6, <1>7, UpsertsKeep, SameTaskIsSound DEF Alive
  <1>9. CASE r.thrown
    <2>1. x = HeldForJournal(r.w, "journalRebind")
      BY <1>7, <1>9
    <2>2. Sound(x) /\ x.disk = r.w.disk /\ x.task.auto = "journalRebind"
          /\ x.task.st = "live" /\ x.task.startup = w.task.startup
          /\ x.task.original = w.task.original /\ x.task.fallback = entry
      BY <2>1, <1>4, <1>8, HeldForJournalKeeps DEF Alive
    <2>. QED
      BY <2>2, <1>6, <1>8, <1>4 DEF Good, Alive
  <1>10. ASSUME NEW s \in Snapshots(r.w, TRUE), x = [s.w EXCEPT !.task.auto = "snapshot"]
         PROVE  Good(x)
    <2>1. s.w \in Worlds /\ s.w.task = T /\ Sound(s.w) /\ Alive(s.w)
      BY <1>8, SnapshotsKeep, SameTaskIsSound DEF Alive
    <2>2. T \in Task /\ [T EXCEPT !.auto = "snapshot"] \in Task
      BY <2>1, FieldsOfWorld DEF Task, Waits
    <2>3. x \in Worlds /\ x.task = [T EXCEPT !.auto = "snapshot"] /\ x.disk = s.w.disk
      BY <1>10, <2>1, <2>2 DEF Worlds
    <2>4. /\ x.task.auto = "snapshot" /\ x.task.st = T.st /\ x.task.item = T.item
          /\ x.task.verdict = T.verdict /\ x.task.pending = T.pending
          /\ x.task.startup = T.startup /\ x.task.original = T.original
      BY <2>2, <2>3 DEF Task
    <2>. QED
      BY <2>1, <2>3, <2>4 DEF Good, Sound, Alive
  <1>11. ASSUME NEW s \in Snapshots(r.w, TRUE), NEW y \in Cancelled(s.w),
                x = [y EXCEPT !.task.auto = "restart"]
         PROVE  Good(x)
    <2>1. s.w \in Worlds /\ s.w.task = T /\ Sound(s.w) /\ Alive(s.w)
      BY <1>8, SnapshotsKeep, SameTaskIsSound DEF Alive
    <2>2. Sound(y) /\ Alive(y) /\ y.task.item = Nothing /\ y.task.verdict = Nothing
      BY <2>1, CancelledIsSound
    <2>3. y \in Worlds /\ y.task \in Task /\ [y.task EXCEPT !.auto = "restart"] \in Task
      <3>1. y \in Worlds /\ y.task \in Task
        BY <2>2, FieldsOfWorld DEF Sound
      <3>. QED
        BY <3>1 DEF Task, Waits
    <2>4. x \in Worlds /\ x.task = [y.task EXCEPT !.auto = "restart"] /\ x.disk = y.disk
      BY <1>11, <2>3 DEF Worlds
    <2>5. /\ x.task.auto = "restart" /\ x.task.st = y.task.st /\ x.task.item = Nothing
          /\ x.task.verdict = Nothing
          /\ x.task.startup = y.task.startup /\ x.task.original = y.task.original
      BY <2>2, <2>3, <2>4 DEF Task
    <2>. QED
      BY <2>2, <2>4, <2>5, NothingAssumption DEF Good, Sound, Alive, NothingAssumption
  <1>12. CASE ~r.thrown
    <2>1. PICK s \in Snapshots(r.w, TRUE) : x \in Q(s)
      <3> HIDE DEF Q
      <3>. QED
        BY <1>7, <1>12
    <2>. QED
      BY <2>1, <1>10, <1>11
  <1>. QED
    BY <1>8, <1>9, <1>12

LEMMA TaskAsks ==
    ASSUME NEW t \in Task, NEW kind \in Kinds
    PROVE  [t EXCEPT !.pending = kind, !.stall = TRUE] \in Task
  BY DEF Task

LEMMA TaskRestores ==
    ASSUME NEW t \in Task
    PROVE  [t EXCEPT !.restored = TRUE, !.resumeOnBind = TRUE] \in Task
  BY DEF Task

LEMMA TaskVerifies ==
    ASSUME NEW t \in Task, NEW i \in Item, NEW b \in BOOLEAN
    PROVE  [t EXCEPT !.item = i, !.auto = Nothing, !.stall = FALSE, !.verdict = b] \in Task
  BY DEF Task

LEMMA AskIsGood ==
    ASSUME NEW w, Sound(w), Alive(w), w.task.item = Nothing, NEW kind \in Kinds
    PROVE  LET y == Ask(w, kind)
           IN  /\ Sound(y) /\ Alive(y) /\ y.disk = w.disk /\ y.task.item = Nothing
               /\ y.task.verdict = Nothing
  <1>1. w \in Worlds /\ w.task \in Task /\ w.disk \in Disk /\ w.asked \in [Kinds -> Nat]
    BY FieldsOfWorld DEF Sound
  <1> DEFINE T == [w.task EXCEPT !.pending = kind, !.stall = TRUE]
             y == Ask(w, kind)
             a == [w.asked EXCEPT ![kind] = @ + 1]
  <1>2. T \in Task
    BY <1>1, TaskAsks
  <1>3. a \in [Kinds -> Nat]
    BY <1>1
  <1>4. y = [w EXCEPT !.task.pending = kind, !.task.stall = TRUE, !.asked[kind] = @ + 1]
    BY Zenon DEF Ask
  <1> HIDE DEF y
  <1>5. y \in Worlds /\ y.task = T /\ y.disk = w.disk
    BY <1>1, <1>2, <1>3, <1>4 DEF Worlds
  <1>6. /\ T.auto = w.task.auto /\ T.st = w.task.st /\ T.item = w.task.item
        /\ T.verdict = w.task.verdict
        /\ T.startup = w.task.startup /\ T.original = w.task.original
        /\ T.fallback = w.task.fallback /\ T.restored = w.task.restored
    BY <1>1 DEF Task
  <1> HIDE DEF T
  <1>7. Sound(y) /\ Alive(y) /\ y.task.item = Nothing /\ y.task.verdict = Nothing
    BY <1>5, <1>6 DEF Sound, Alive
  <1>. QED
    BY <1>5, <1>7 DEF y

LEMMA TaskAsksAgain ==
    ASSUME NEW t \in Task
    PROVE  [t EXCEPT !.restored = FALSE, !.resumeOnBind = FALSE, !.pending = Nothing,
                     !.rebind = Nothing, !.auto = Nothing, !.stall = FALSE] \in Task
  BY DEF Task

LEMMA RestartedIsGood ==
    ASSUME NEW w, Sound(w), Alive(w), w.task.item = Nothing, NEW preserve \in BOOLEAN,
           NEW x \in Restarted(w, preserve)
    PROVE  Good(x)
  <1>1. w \in Worlds /\ w.task \in Task /\ w.disk \in Disk
    BY FieldsOfWorld DEF Sound
  <1> DEFINE covered(s) == s.bytes # Nothing /\ s.bytes >= s.w.disk.journal.n
             kept(s) == IF covered(s) THEN [s.w EXCEPT !.task.fallback = s.w.disk.journal] ELSE s.w
             again(y) == [y EXCEPT !.task.restored = FALSE, !.task.resumeOnBind = FALSE,
                                   !.task.pending = Nothing, !.task.rebind = Nothing,
                                   !.task.auto = Nothing, !.task.stall = FALSE,
                                   !.disk.partial = Nothing]
             F(s) == UNION {Failed(again(y), TRUE) : y \in Faulty(kept(s))}
             S(s) == IF s.thrown THEN {[s.w EXCEPT !.task.auto = "restart"]}
                     ELSE {Ask(again(kept(s)), "url")} \cup F(s)
             p == preserve \/ w.task.fallback # Nothing
  <1>2. x \in UNION {S(s) : s \in Snapshots(w, p)}
    BY Zenon DEF Restarted
  <1>3. PICK s \in Snapshots(w, p) : x \in S(s)
    <2> HIDE DEF S, p
    <2>. QED
      BY <1>2
  <1>4. /\ s.w \in Worlds /\ s.w.task = w.task /\ s.w.disk.journal = w.disk.journal
        /\ Sound(s.w) /\ Alive(s.w) /\ s.w.task \in Task /\ s.w.disk \in Disk
    <2>1. p \in BOOLEAN
      OBVIOUS
    <2> HIDE DEF p
    <2>2. /\ s.w \in Worlds /\ s.w.task = w.task /\ s.w.disk.journal = w.disk.journal
          /\ s.w.disk.partial = w.disk.partial /\ s.w.disk.final = w.disk.final
      BY <1>1, <2>1, SnapshotsKeep
    <2>. QED
      BY <2>2, FieldsOfWorld, SameTaskIsSound DEF Alive
  <1>5. CASE x = [s.w EXCEPT !.task.auto = "restart"]
    <2> DEFINE T == [s.w.task EXCEPT !.auto = "restart"]
    <2>1. T \in Task
      BY <1>4 DEF Task, Waits
    <2>2. x \in Worlds /\ x.task = T /\ x.disk = s.w.disk
      BY <1>4, <1>5, <2>1 DEF Worlds
    <2>3. /\ T.auto = "restart" /\ T.st = w.task.st /\ T.item = Nothing
          /\ T.verdict = w.task.verdict
          /\ T.startup = w.task.startup /\ T.original = w.task.original
      BY <1>4 DEF Task
    <2> HIDE DEF T
    <2>. QED
      BY <1>4, <2>2, <2>3 DEF Good, Sound, Alive
  <1>6. kept(s) \in Worlds /\ kept(s).task.item = Nothing /\ kept(s).disk = s.w.disk
        /\ Sound(kept(s)) /\ Alive(kept(s))
    <2>1. CASE covered(s)
      <3> HIDE DEF covered
      <3> DEFINE T == [s.w.task EXCEPT !.fallback = s.w.disk.journal]
                 k == [s.w EXCEPT !.task.fallback = s.w.disk.journal]
      <3>1. T \in Task
        BY <1>4 DEF Task, Disk
      <3>2. k \in Worlds /\ k.task = T /\ k.disk = s.w.disk
        BY <1>4, <3>1 DEF Worlds
      <3>3. /\ T.auto = w.task.auto /\ T.st = w.task.st /\ T.item = Nothing
            /\ T.verdict = w.task.verdict /\ T.fallback = w.disk.journal
            /\ T.startup = w.task.startup /\ T.original = w.task.original
            /\ T.restored = w.task.restored
        BY <1>4 DEF Task
      <3>4. kept(s) = k
        BY <2>1, Zenon
      <3> HIDE DEF T, k, kept
      <3>. QED
        BY <1>4, <3>2, <3>3, <3>4 DEF Sound, Alive
    <2>2. CASE ~covered(s)
      <3>1. kept(s) = s.w
        BY <2>2, Zenon
      <3>. QED
        BY <1>4, <3>1
    <2>. QED
      BY <2>1, <2>2
  <1> HIDE DEF kept
  <1>7. ASSUME NEW y \in Worlds, Sound(y), Alive(y), y.task.item = Nothing
        PROVE  /\ Sound(again(y)) /\ Alive(again(y)) /\ again(y).task.item = Nothing
               /\ again(y).disk.journal # Nothing
    <2>1. y.task \in Task /\ y.disk \in Disk
      BY <1>7, FieldsOfWorld
    <2> DEFINE T == [y.task EXCEPT !.restored = FALSE, !.resumeOnBind = FALSE,
                                   !.pending = Nothing, !.rebind = Nothing,
                                   !.auto = Nothing, !.stall = FALSE]
               D == [y.disk EXCEPT !.partial = Nothing]
    <2>2. T \in Task /\ D \in Disk
      <3>1. T \in Task
        BY <2>1, Zenon, TaskAsksAgain
      <3>2. D \in Disk
        BY <2>1 DEF Disk
      <3>. QED
        BY <3>1, <3>2
    <2>3. again(y) \in Worlds /\ again(y).task = T /\ again(y).disk = D
      BY <1>7, <2>1, <2>2 DEF Worlds
    <2>4. /\ T.auto = Nothing /\ T.st = y.task.st /\ T.item = Nothing
          /\ T.verdict = y.task.verdict
          /\ T.startup = y.task.startup /\ T.original = y.task.original
      BY <1>7, <2>1 DEF Task
    <2>5. D.final = y.disk.final /\ D.journal = y.disk.journal
      BY <2>1 DEF Disk
    <2> HIDE DEF again, T, D
    <2>. QED
      BY <1>7, <2>3, <2>4, <2>5, NothingAssumption DEF Sound, Alive, NothingAssumption, Waits
  <1>8. CASE x = Ask(again(kept(s)), "url")
    <2>1. Sound(again(kept(s))) /\ Alive(again(kept(s))) /\ again(kept(s)).task.item = Nothing
      BY <1>6, <1>7
    <2> HIDE DEF again
    <2>. QED
      BY <1>8, <2>1, AskIsGood DEF Good, Kinds
  <1>9. ASSUME NEW y \in Faulty(kept(s)), x \in Failed(again(y), TRUE)
        PROVE  Good(x)
    <2>1. y \in Worlds /\ y.task = kept(s).task /\ y.disk = kept(s).disk
      BY <1>6, <1>9, FaultyKeeps
    <2>2. Sound(y) /\ Alive(y) /\ y.task.item = Nothing
      BY <1>6, <2>1, SameTaskIsSound DEF Alive
    <2>3. Sound(again(y)) /\ again(y).disk.journal # Nothing
      BY <1>7, <2>1, <2>2
    <2> HIDE DEF again
    <2>. QED
      BY <1>9, <2>3, FailedIsOver
  <1> HIDE DEF again
  <1>10. CASE x \in F(s)
    BY <1>9, <1>10
  <1> HIDE DEF F
  <1>. QED
    BY <1>3, <1>5, <1>8, <1>10

LEMMA ReboundIsGood ==
    ASSUME NEW w, Sound(w), Alive(w), NEW x \in Rebound(w)
    PROVE  Good(x)
  <1>1. w \in Worlds /\ w.task \in Task /\ w.disk \in Disk
    BY FieldsOfWorld DEF Sound
  <1> DEFINE S(s) == IF s.thrown THEN {[s.w EXCEPT !.task.auto = "snapshot"]}
                     ELSE {[y EXCEPT !.task.pending = Nothing, !.task.auto = "relaunch"] :
                               y \in Cancelled(s.w)}
             p == w.task.fallback # Nothing
  <1>2. x \in UNION {S(s) : s \in Snapshots(w, p)}
    BY Zenon DEF Rebound
  <1>3. PICK s \in Snapshots(w, p) : x \in S(s)
    <2> HIDE DEF S, p
    <2>. QED
      BY <1>2
  <1>4. /\ s.w \in Worlds /\ s.w.task = w.task /\ s.w.disk.journal = w.disk.journal
        /\ Sound(s.w) /\ Alive(s.w) /\ s.w.task \in Task /\ s.w.disk \in Disk
    <2>1. p \in BOOLEAN
      OBVIOUS
    <2> HIDE DEF p
    <2>2. /\ s.w \in Worlds /\ s.w.task = w.task /\ s.w.disk.journal = w.disk.journal
          /\ s.w.disk.partial = w.disk.partial /\ s.w.disk.final = w.disk.final
      BY <1>1, <2>1, SnapshotsKeep
    <2>. QED
      BY <2>2, FieldsOfWorld, SameTaskIsSound DEF Alive
  <1>5. CASE x = [s.w EXCEPT !.task.auto = "snapshot"]
    <2> DEFINE T == [s.w.task EXCEPT !.auto = "snapshot"]
    <2>1. T \in Task
      BY <1>4 DEF Task, Waits
    <2>2. x \in Worlds /\ x.task = T /\ x.disk = s.w.disk
      BY <1>4, <1>5, <2>1 DEF Worlds
    <2>3. /\ T.auto = "snapshot" /\ T.st = w.task.st /\ T.item = w.task.item
          /\ T.verdict = w.task.verdict /\ T.pending = w.task.pending
          /\ T.startup = w.task.startup /\ T.original = w.task.original
      BY <1>4 DEF Task
    <2> HIDE DEF T
    <2>. QED
      BY <1>4, <2>2, <2>3 DEF Good, Sound, Alive
  <1>6. ASSUME NEW y \in Cancelled(s.w),
               x = [y EXCEPT !.task.pending = Nothing, !.task.auto = "relaunch"]
        PROVE  Good(x)
    <2>1. Sound(y) /\ Alive(y) /\ y.task.item = Nothing /\ y.task.verdict = Nothing
      BY <1>4, <1>6, CancelledIsSound
    <2>2. y \in Worlds /\ y.task \in Task
      BY <2>1, FieldsOfWorld DEF Sound
    <2> DEFINE T == [y.task EXCEPT !.pending = Nothing, !.auto = "relaunch"]
    <2>3. T \in Task
      BY <2>2 DEF Task, Waits
    <2>4. x \in Worlds /\ x.task = T /\ x.disk = y.disk
      BY <1>6, <2>2, <2>3 DEF Worlds
    <2>5. /\ T.auto = "relaunch" /\ T.st = y.task.st /\ T.item = Nothing
          /\ T.verdict = Nothing
          /\ T.startup = y.task.startup /\ T.original = y.task.original
      BY <2>1, <2>2 DEF Task
    <2> HIDE DEF T
    <2>. QED
      BY <2>1, <2>4, <2>5, NothingAssumption DEF Good, Sound, Alive, NothingAssumption
  <1>. QED
    BY <1>3, <1>5, <1>6

LEMMA PromotedKeeps ==
    ASSUME NEW w \in Worlds, NEW x \in Promoted(w)
    PROVE  /\ x \in Worlds /\ x.task = w.task
           /\ x.disk.final = w.disk.final /\ x.disk.journal = w.disk.journal
  <1>1. w.task \in Task /\ w.disk \in Disk
    BY FieldsOfWorld
  <1>2. CASE x = [w EXCEPT !.disk.partial = w.disk.snapshot, !.disk.snapshot = Nothing]
    <2> DEFINE D == [w.disk EXCEPT !.partial = w.disk.snapshot, !.snapshot = Nothing]
    <2>1. D \in Disk
      BY <1>1 DEF Disk
    <2>2. x \in Worlds /\ x.task = w.task /\ x.disk = D
      BY <1>1, <1>2, <2>1 DEF Worlds
    <2>. QED
      BY <1>1, <2>2 DEF Disk
  <1>3. CASE x \in Faulty(w)
    BY <1>3, FaultyKeeps
  <1>4. ASSUME NEW y \in Faulty(w), x = [y EXCEPT !.disk.partial = Nothing]
        PROVE  /\ x \in Worlds /\ x.task = w.task
               /\ x.disk.final = w.disk.final /\ x.disk.journal = w.disk.journal
    <2>1. y \in Worlds /\ y.task = w.task /\ y.disk = w.disk
      BY <1>4, FaultyKeeps
    <2> DEFINE D == [w.disk EXCEPT !.partial = Nothing]
    <2>2. D \in Disk
      BY <1>1 DEF Disk
    <2>3. x \in Worlds /\ x.task = w.task /\ x.disk = D
      BY <1>4, <2>1, <2>2 DEF Worlds
    <2>. QED
      BY <1>1, <2>3 DEF Disk
  <1>. QED
    BY <1>2, <1>3, <1>4 DEF Promoted

LEMMA RelaunchedIsGood ==
    ASSUME NEW w, Sound(w), Alive(w), w.task.item = Nothing, NEW x \in Relaunched(w)
    PROVE  Good(x)
  <1>1. w \in Worlds /\ w.task \in Task /\ w.disk \in Disk
    BY FieldsOfWorld DEF Sound
  <1> DEFINE begun == [w EXCEPT !.task.auto = Nothing]
             ready(z) == [z EXCEPT !.task.restored = TRUE, !.task.resumeOnBind = TRUE]
             y(z) == Ask(ready(z), "restore")
             F(z) == UNION {Restarted(u, FALSE) : u \in Faulty(z)}
             resumed(z) == {y(z), [y(z) EXCEPT !.task.rebind = z.disk.journal]} \cup F(z)
             R(z) == IF z.disk.snapshot # Nothing THEN Restarted(z, TRUE)
                     ELSE IF /\ z.disk.partial.n \in 1 .. (Full - 1)
                             /\ z.disk.journal.v # Nothing
                     THEN resumed(z) ELSE Restarted(z, FALSE)
  <1>2. x \in IF w.disk.snapshot = Nothing THEN Restarted(begun, FALSE)
              ELSE UNION {R(z) : z \in Promoted(begun)}
    BY Zenon DEF Relaunched
  <1>3. Sound(begun) /\ Alive(begun) /\ begun.task.item = Nothing /\ begun.disk = w.disk
    <2> DEFINE T == [w.task EXCEPT !.auto = Nothing]
    <2>1. T \in Task
      BY <1>1 DEF Task
    <2>2. begun \in Worlds /\ begun.task = T /\ begun.disk = w.disk
      BY <1>1, <2>1 DEF Worlds
    <2>3. /\ T.auto = Nothing /\ T.st = w.task.st /\ T.item = Nothing
          /\ T.verdict = w.task.verdict
          /\ T.startup = w.task.startup /\ T.original = w.task.original
      BY <1>1 DEF Task
    <2> HIDE DEF begun, T
    <2>. QED
      BY <2>2, <2>3, NothingAssumption DEF Sound, Alive, NothingAssumption, Waits
  <1> HIDE DEF begun
  <1>4. CASE x \in Restarted(begun, FALSE)
    BY <1>3, <1>4, RestartedIsGood
  <1>5. ASSUME NEW z \in Promoted(begun), x \in R(z)
        PROVE  Good(x)
    <2>1. begun \in Worlds
      BY <1>3 DEF Sound
    <2>2. /\ z \in Worlds /\ z.task = begun.task
          /\ z.disk.final = begun.disk.final /\ z.disk.journal = begun.disk.journal
      BY <1>5, <2>1, PromotedKeeps
    <2>3. Sound(z) /\ Alive(z) /\ z.task.item = Nothing
      BY <1>3, <2>2, NothingAssumption DEF Sound, Alive, NothingAssumption
    <2>4. ASSUME NEW u \in Faulty(z), x \in Restarted(u, FALSE)
          PROVE  Good(x)
      <3>1. u \in Worlds /\ u.task = z.task /\ u.disk = z.disk
        BY <2>2, <2>4, FaultyKeeps
      <3>2. Sound(u) /\ Alive(u) /\ u.task.item = Nothing
        BY <2>3, <3>1, SameTaskIsSound DEF Alive
      <3>. QED
        BY <2>4, <3>2, RestartedIsGood
    <2>5. CASE x \in Restarted(z, TRUE) \/ x \in Restarted(z, FALSE)
      BY <2>3, <2>5, RestartedIsGood
    <2>6. /\ Sound(y(z)) /\ Alive(y(z)) /\ y(z).disk = z.disk /\ y(z).task.item = Nothing
          /\ y(z).task.verdict = Nothing
      <3>1. z.task \in Task
        BY <2>2, FieldsOfWorld
      <3> DEFINE T == [z.task EXCEPT !.restored = TRUE, !.resumeOnBind = TRUE]
      <3>2. T \in Task
        BY <3>1, TaskRestores
      <3>3. ready(z) \in Worlds /\ ready(z).task = T /\ ready(z).disk = z.disk
        BY <2>2, <3>1, <3>2 DEF Worlds
      <3>4. /\ T.auto = z.task.auto /\ T.st = z.task.st /\ T.item = z.task.item
            /\ T.verdict = z.task.verdict /\ T.pending = z.task.pending
            /\ T.startup = z.task.startup /\ T.original = z.task.original
            /\ T.fallback = z.task.fallback /\ T.restored = TRUE
        BY <3>1 DEF Task
      <3> HIDE DEF ready, T
      <3>5. Sound(ready(z)) /\ Alive(ready(z)) /\ ready(z).task.item = Nothing
        BY <2>3, <3>3, <3>4 DEF Sound, Alive
      <3>. QED
        BY <3>3, <3>5, AskIsGood DEF Kinds
    <2> HIDE DEF y
    <2>7. CASE x = y(z)
      BY <2>6, <2>7 DEF Good
    <2>8. CASE x = [y(z) EXCEPT !.task.rebind = z.disk.journal]
      <3>1. y(z) \in Worlds /\ y(z).task \in Task /\ z.disk.journal \in Entry \cup {Nothing}
        BY <2>2, <2>6, FieldsOfWorld DEF Sound, Disk
      <3> DEFINE T == [y(z).task EXCEPT !.rebind = z.disk.journal]
      <3>2. T \in Task
        BY <3>1 DEF Task
      <3>3. x \in Worlds /\ x.task = T /\ x.disk = y(z).disk
        BY <2>8, <3>1, <3>2 DEF Worlds
      <3>4. /\ T.auto = y(z).task.auto /\ T.st = y(z).task.st /\ T.item = y(z).task.item
            /\ T.verdict = y(z).task.verdict /\ T.pending = y(z).task.pending
            /\ T.startup = y(z).task.startup /\ T.original = y(z).task.original
            /\ T.fallback = y(z).task.fallback /\ T.restored = y(z).task.restored
        BY <3>1 DEF Task
      <3> HIDE DEF T
      <3>. QED
        BY <2>6, <3>3, <3>4 DEF Good, Sound, Alive
    <2>9. CASE x \in F(z)
      BY <2>4, <2>9
    <2> HIDE DEF F
    <2>. QED
      BY <1>5, <2>5, <2>7, <2>8, <2>9
  <1> HIDE DEF R
  <1>. QED
    BY <1>2, <1>4, <1>5

LEMMA ResumedIsGood ==
    ASSUME NEW w, Sound(w), Alive(w), NEW x \in Resumed(w)
    PROVE  Good(x)
  <1>1. w \in Worlds /\ w.task \in Task /\ w.disk \in Disk
    BY FieldsOfWorld DEF Sound
  <1>2. CASE x \in Rebound(w)
    BY <1>2, ReboundIsGood
  <1>3. CASE /\ w.task.item # Nothing
             /\ x = [w EXCEPT !.task.auto = Nothing, !.task.item.st = "running", !.task.stall = TRUE]
    <2> DEFINE i == [w.task.item EXCEPT !.st = "running"]
               T == [w.task EXCEPT !.auto = Nothing, !.item = i, !.stall = TRUE]
    <2>1. i \in Item
      BY <1>1, <1>3 DEF Task, Item
    <2>2. x = [w EXCEPT !.task = T]
      BY <1>1, <1>3 DEF Worlds, Task
    <2> HIDE DEF i
    <2>3. T \in Task
      BY <1>1, <2>1 DEF Task
    <2>4. x \in Worlds /\ x.task = T /\ x.disk = w.disk
      BY <1>1, <2>2, <2>3 DEF Worlds
    <2>5. /\ T.auto = Nothing /\ T.st = w.task.st /\ T.item = i
          /\ T.verdict = w.task.verdict /\ T.pending = w.task.pending
          /\ T.startup = w.task.startup /\ T.original = w.task.original
      BY <1>1 DEF Task
    <2> HIDE DEF T
    <2>. QED
      BY <1>3, <2>1, <2>4, <2>5, NothingAssumption
        DEF Good, Sound, Alive, NothingAssumption, Waits
  <1>4. ASSUME NEW y \in Faulty(w), x \in Rebound(y)
        PROVE  Good(x)
    <2>1. y \in Worlds /\ y.task = w.task /\ y.disk = w.disk
      BY <1>1, <1>4, FaultyKeeps
    <2>2. Sound(y) /\ Alive(y)
      BY <2>1, SameTaskIsSound DEF Alive
    <2>. QED
      BY <1>4, <2>2, ReboundIsGood
  <1> DEFINE F == UNION {Rebound(y) : y \in Faulty(w)}
  <1>5. CASE x \in F
    BY <1>4, <1>5
  <1>6. \/ x \in Rebound(w)
        \/ /\ w.task.item # Nothing
           /\ x = [w EXCEPT !.task.auto = Nothing, !.task.item.st = "running", !.task.stall = TRUE]
        \/ x \in F
    BY Zenon DEF Resumed
  <1>. QED
    BY <1>2, <1>3, <1>5, <1>6

LEMMA ThrottledIsGood ==
    ASSUME NEW w, Sound(w), Alive(w), w.task.auto \notin {"journalRebind", "heldRebind"},
           NEW r \in Throttled(w)
    PROVE  /\ Sound(r.w) /\ Alive(r.w) /\ r.thrown \in BOOLEAN
           /\ r.w.task.item = w.task.item /\ r.w.task.auto = w.task.auto
  <1>1. w \in Worlds /\ w.task \in Task /\ w.disk \in Disk
    BY FieldsOfWorld DEF Sound
  <1>2. CASE r = [w |-> w, thrown |-> FALSE]
    BY <1>2
  <1>3. CASE r \in Persists(w, Nothing)
    <2> DEFINE T == [w.task EXCEPT !.fallback = Nothing]
    <2>1. /\ r.w \in Worlds /\ r.thrown \in BOOLEAN /\ r.w.task \in {w.task, T}
          /\ r.w.disk.partial = w.disk.partial /\ r.w.disk.final = w.disk.final
          /\ r.w.disk.journal # Nothing
      BY <1>1, <1>3, PersistsKeep DEF Alive
    <2>2. /\ T.auto = w.task.auto /\ T.st = w.task.st /\ T.item = w.task.item
          /\ T.verdict = w.task.verdict /\ T.pending = w.task.pending
          /\ T.startup = w.task.startup /\ T.original = w.task.original
      BY <1>1 DEF Task
    <2> HIDE DEF T
    <2>3. /\ r.w.task.auto = w.task.auto /\ r.w.task.st = w.task.st
          /\ r.w.task.item = w.task.item
          /\ r.w.task.verdict = w.task.verdict /\ r.w.task.pending = w.task.pending
          /\ r.w.task.startup = w.task.startup /\ r.w.task.original = w.task.original
      BY <2>1, <2>2
    <2>. QED
      BY <2>1, <2>3 DEF Sound, Alive
  <1>. QED
    BY <1>2, <1>3 DEF Throttled

LEMMA BindFailedIsGood ==
    ASSUME NEW w, Sound(w), Alive(w), NEW entry \in Entry \cup {Nothing},
           NEW x \in BindFailed(w, entry)
    PROVE  Good(x)
  <1>1. CASE "bind" \in w.task.startup
    <2>1. w.task.original # Nothing /\ w.task.startup \cap {"failed", "bind"} # {}
      BY <1>1 DEF Alive
    <2>2. x \in StartupRolledBack(w)
      BY <1>1 DEF BindFailed
    <2>. QED
      BY <2>1, <2>2, StartupRolledBackIsGood DEF Alive
  <1>2. CASE x \in RebindRolledBack(w, entry) /\ entry # Nothing
    BY <1>2, RebindRolledBackIsGood
  <1>3. CASE x \in Failed(w, FALSE)
    BY <1>3, FailedIsOver
  <1>. QED
    BY <1>1, <1>2, <1>3 DEF BindFailed

LEMMA ShownIsGood ==
    ASSUME NEW w, Sound(w), Alive(w), w.task.auto = Nothing, NEW r \in Shown(w)
    PROVE  /\ Good(r.w) /\ r.thrown \in BOOLEAN
           /\ r.thrown => Alive(r.w)
           /\ r.w.task.st = "live" => /\ Alive(r.w) /\ r.w.task.item = w.task.item
                                      /\ r.w.task.auto \in {Nothing, "resume", "exhausted"}
  <1>1. w \in Worlds /\ w.task \in Task /\ w.disk \in Disk
    BY FieldsOfWorld DEF Sound
  <1> DEFINE b == w.task.item.st = "interrupted"
             d == ~w.task.restored
             y == [w EXCEPT !.task.restored = b]
             z == [w EXCEPT !.task.stall = d]
  <1>2. CASE r \in {[w |-> x, thrown |-> FALSE] : x \in Scheduled(y)}
    <2> DEFINE T == [w.task EXCEPT !.restored = b]
    <2>0. b \in BOOLEAN
      OBVIOUS
    <2> HIDE DEF b
    <2>1. T \in Task
      BY <1>1, <2>0 DEF Task
    <2>2. y \in Worlds /\ y.task = T /\ y.disk = w.disk
      BY <1>1, <2>1 DEF Worlds
    <2>3. /\ T.auto = Nothing /\ T.st = w.task.st /\ T.item = w.task.item
          /\ T.verdict = w.task.verdict /\ T.pending = w.task.pending
          /\ T.startup = w.task.startup /\ T.original = w.task.original
      BY <1>1 DEF Task
    <2> HIDE DEF T, y
    <2>4. Sound(y) /\ Alive(y)
      BY <2>2, <2>3, NothingAssumption DEF Sound, Alive, NothingAssumption, Waits
    <2>5. PICK x \in Scheduled(y) : r = [w |-> x, thrown |-> FALSE]
      BY <1>2
    <2>. QED
      BY <2>2, <2>3, <2>4, <2>5, ScheduledIsGood
  <1>3. CASE r \in Throttled(z)
    <2> DEFINE T == [w.task EXCEPT !.stall = d]
    <2>0. d \in BOOLEAN
      OBVIOUS
    <2> HIDE DEF d
    <2>1. T \in Task
      BY <1>1, <2>0 DEF Task
    <2>2. z \in Worlds /\ z.task = T /\ z.disk = w.disk
      BY <1>1, <2>1 DEF Worlds
    <2>3. /\ T.auto = Nothing /\ T.st = w.task.st /\ T.item = w.task.item
          /\ T.verdict = w.task.verdict /\ T.pending = w.task.pending
          /\ T.startup = w.task.startup /\ T.original = w.task.original
      BY <1>1 DEF Task
    <2> HIDE DEF T, z
    <2>4. Sound(z) /\ Alive(z) /\ z.task.auto \notin {"journalRebind", "heldRebind"}
      BY <2>2, <2>3, NothingAssumption DEF Sound, Alive, NothingAssumption, Waits
    <2>. QED
      BY <1>3, <2>2, <2>3, <2>4, ThrottledIsGood DEF Good
  <1> HIDE DEF y, z
  <1>4. \/ r \in {[w |-> x, thrown |-> FALSE] : x \in Scheduled(y)}
        \/ r \in Throttled(z)
    BY Zenon DEF Shown, y, z
  <1>. QED
    BY <1>2, <1>3, <1>4

LEMMA TakenIsGood ==
    ASSUME NEW w, Good(w),
           w.task.st = "live" => /\ Alive(w) /\ w.task.item # Nothing
                                 /\ w.task.auto \in {Nothing, "resume", "exhausted"}
    PROVE  Good(Taken(w))
  <1>1. w \in Worlds /\ w.task \in Task /\ w.disk \in Disk
    BY FieldsOfWorld DEF Good, Sound
  <1>2. CASE w.task.st # "live"
    BY <1>2 DEF Taken
  <1>3. CASE w.task.st = "live"
    <2> DEFINE runs == w.task.resumeOnBind /\ w.task.item.can
               settled == w.task.startup \ {"bind"}
               i == [w.task.item EXCEPT !.st = IF runs THEN "running" ELSE @]
               a == w.task.awaiting /\ ~runs
               l == w.task.stall \/ (runs /\ w.task.auto = Nothing)
               o == IF settled = {} THEN Nothing ELSE w.task.original
               T == [w.task EXCEPT !.resumeOnBind = FALSE, !.item = i, !.awaiting = a,
                                   !.stall = l, !.startup = settled, !.original = o]
    <2>1. i \in Item
      BY <1>1, <1>3 DEF Task, Item
    <2>2. a \in BOOLEAN /\ l \in BOOLEAN
      BY <1>1 DEF Task
    <2>3. settled \in SUBSET {"create", "failed", "bind"} /\ o \in Entry \cup {Nothing}
      BY <1>1 DEF Task
    <2>4. Taken(w) = [w EXCEPT !.task = T]
      <3>1. Taken(w) = [w EXCEPT !.task.resumeOnBind = FALSE,
                                 !.task.item.st = IF runs THEN "running" ELSE @,
                                 !.task.awaiting = a, !.task.stall = l,
                                 !.task.startup = settled, !.task.original = o]
        BY <1>3 DEF Taken
      <3> HIDE DEF a, l, o, settled, runs
      <3>. QED
        BY <1>1, <3>1 DEF Worlds, Task
    <2> HIDE DEF i, a, l, o, settled, runs
    <2>5. T \in Task
      BY <1>1, <2>1, <2>2, <2>3 DEF Task
    <2>6. Taken(w) \in Worlds /\ Taken(w).task = T /\ Taken(w).disk = w.disk
      BY <1>1, <2>4, <2>5 DEF Worlds
    <2>7. /\ T.auto = w.task.auto /\ T.st = w.task.st /\ T.item = i
          /\ T.verdict = w.task.verdict /\ T.pending = w.task.pending
          /\ T.startup = settled /\ T.original = o
      BY <1>1 DEF Task
    <2> HIDE DEF T
    <2>8. settled # {} => o # Nothing
      BY <1>3 DEF Alive, settled, o
    <2>9. w.task.auto \notin {"heldStartup", "journalStartup", "heldRebind", "journalRebind",
                              "relaunch", "restart"}
      BY <1>3, NothingAssumption DEF NothingAssumption, Waits
    <2>. QED
      BY <1>3, <2>1, <2>6, <2>7, <2>8, <2>9, NothingAssumption
        DEF Good, Sound, Alive, NothingAssumption
  <1>. QED
    BY <1>2, <1>3

LEMMA BoundIsGood ==
    ASSUME NEW w, Sound(w), Alive(w), w.task.auto = Nothing, w.task.item # Nothing,
           NEW entry \in Entry \cup {Nothing}, NEW x \in Bound(w, entry)
    PROVE  Good(x)
  <1> DEFINE S(r) == IF r.thrown THEN BindFailed(r.w, entry) ELSE {Taken(r.w)}
             A == UNION {S(r) : r \in Shown(w)}
             B == UNION {BindFailed(y, entry) : y \in Faulty(w)}
  <1>1. x \in A \cup B
    BY Zenon DEF Bound
  <1>2. ASSUME NEW r \in Shown(w), x \in S(r)
        PROVE  Good(x)
    <2>1. CASE r.thrown
      BY <1>2, <2>1, ShownIsGood, BindFailedIsGood DEF Good
    <2>2. CASE ~r.thrown
      BY <1>2, <2>2, ShownIsGood, TakenIsGood
    <2>. QED
      BY <2>1, <2>2
  <1>3. ASSUME NEW y \in Faulty(w), x \in BindFailed(y, entry)
        PROVE  Good(x)
    <2>1. y \in Worlds /\ y.task = w.task /\ y.disk = w.disk
      BY <1>3, FaultyKeeps DEF Sound
    <2>2. Sound(y) /\ Alive(y)
      BY <2>1, SameTaskIsSound DEF Alive
    <2>. QED
      BY <1>3, <2>2, BindFailedIsGood
  <1> HIDE DEF S
  <1>4. CASE x \in A
    BY <1>2, <1>4
  <1>5. CASE x \in B
    BY <1>3, <1>5
  <1> HIDE DEF A, B
  <1>. QED
    BY <1>1, <1>4, <1>5

LEMMA BindIsGood ==
    ASSUME NEW w, Sound(w), Alive(w), w.task.verdict = Nothing, w.task.pending = Nothing,
           NEW i \in Item
    PROVE  LET x == Bind(w, i)
           IN  /\ Sound(x) /\ Alive(x) /\ x.task.item = i /\ x.task.auto = Nothing
               /\ x.task.startup = w.task.startup /\ x.task.fallback = w.task.fallback
               /\ x.task.restored = w.task.restored
  <1>1. w \in Worlds /\ w.task \in Task /\ w.disk \in Disk
    BY FieldsOfWorld DEF Sound
  <1> DEFINE x == Bind(w, i)
             T == [w.task EXCEPT !.item = i, !.auto = Nothing, !.stall = FALSE]
             f == IF i.st = "running" THEN [v |-> i.v, n |-> 0] ELSE w.disk.partial
             D == [w.disk EXCEPT !.partial = f]
  <1>2. f \in Content \cup {Nothing}
    <2>1. 0 \in Bytes
      BY DownloadAssumption DEF DownloadAssumption, Bytes
    <2>2. i.v \in Versions /\ w.disk.partial \in Content \cup {Nothing}
      BY <1>1 DEF Item, Disk
    <2>. QED
      BY <2>1, <2>2 DEF Content
  <1>3. x = [w EXCEPT !.task.item = i, !.task.auto = Nothing, !.task.stall = FALSE,
                      !.disk.partial = f]
    BY DEF Bind
  <1> HIDE DEF f, x
  <1>4. T \in Task /\ D \in Disk
    <2>1. T \in Task
      BY <1>1 DEF Task
    <2>2. D \in Disk
      BY <1>1, <1>2 DEF Disk
    <2>. QED
      BY <2>1, <2>2
  <1>5. x \in Worlds /\ x.task = T /\ x.disk = D
    BY <1>1, <1>3, <1>4 DEF Worlds
  <1>6. /\ T.auto = Nothing /\ T.st = w.task.st /\ T.item = i
        /\ T.verdict = w.task.verdict /\ T.pending = w.task.pending
        /\ T.startup = w.task.startup /\ T.original = w.task.original
        /\ T.fallback = w.task.fallback /\ T.restored = w.task.restored
    BY <1>1 DEF Task
  <1>7. D.final = w.disk.final /\ D.journal = w.disk.journal
    BY <1>1 DEF Disk
  <1> HIDE DEF T, D
  <1>8. Sound(x) /\ Alive(x)
    BY <1>5, <1>6, <1>7, NothingAssumption DEF Sound, Alive, NothingAssumption, Waits
  <1>. QED
    BY <1>5, <1>6, <1>8 DEF x

LEMMA RecoveryEntryType ==
    ASSUME NEW w \in Worlds
    PROVE  /\ RecoveryEntry(w) \in Entry \cup {Nothing}
           /\ RecoveryEntry(w) # Nothing => w.task.fallback # Nothing \/ w.task.restored
           /\ w.task.fallback # Nothing => RecoveryEntry(w) # Nothing
           /\ w.task.restored /\ w.disk.journal # Nothing => RecoveryEntry(w) # Nothing
  <1>1. w.task \in Task /\ w.disk \in Disk
    BY FieldsOfWorld
  <1>. QED
    BY <1>1 DEF RecoveryEntry, Task, Disk

LEMMA AcceptedIsGood ==
    ASSUME NEW w, Sound(w), Alive(w), w.task.item = Nothing, w.task.pending = Nothing,
           NEW i \in Item, NEW x \in Accepted(w, i)
    PROVE  Good(x)
  <1>1. w \in Worlds /\ w.task \in Task /\ w.disk \in Disk /\ w.task.verdict = Nothing
    BY FieldsOfWorld DEF Sound
  <1> DEFINE entry == RecoveryEntry(w)
             p == [i EXCEPT !.st = "paused"]
             wait == IF "bind" \in w.task.startup THEN "heldStartup" ELSE "heldRebind"
             held(y) == [Bind(y, p) EXCEPT !.task.auto = wait]
             ready(y) == [y EXCEPT !.task.fallback = entry]
             S(s) == IF s.thrown THEN {held(s.w)} ELSE Bound(Bind(ready(s.w), i), entry)
  <1>2. x \in IF entry = Nothing THEN Bound(Bind(w, i), entry)
              ELSE UNION {S(s) : s \in Snapshots(w, TRUE)}
    BY Zenon DEF Accepted
  <1>3. entry \in Entry \cup {Nothing}
    BY <1>1, RecoveryEntryType
  <1>4. CASE x \in Bound(Bind(w, i), entry)
    BY <1>1, <1>3, <1>4, BindIsGood, BoundIsGood, NothingAssumption DEF NothingAssumption
  <1>5. ASSUME NEW s \in Snapshots(w, TRUE), entry # Nothing, x \in S(s)
        PROVE  Good(x)
    <2>1. /\ s.w \in Worlds /\ s.w.task = w.task /\ s.w.disk.journal = w.disk.journal
          /\ s.w.disk.partial = w.disk.partial /\ s.w.disk.final = w.disk.final
      BY <1>1, SnapshotsKeep
    <2>2. Sound(s.w) /\ Alive(s.w) /\ s.w.task.verdict = Nothing /\ s.w.task.pending = Nothing
      BY <1>1, <2>1, SameTaskIsSound DEF Alive
    <2>3. CASE x = held(s.w)
      <3> DEFINE b == Bind(s.w, p)
      <3>1. p \in Item
        BY DEF Item
      <3> HIDE DEF p
      <3>2. /\ Sound(b) /\ Alive(b) /\ b.task.item = p /\ b.task.auto = Nothing
            /\ b.task.startup = w.task.startup /\ b.task.fallback = w.task.fallback
            /\ b.task.restored = w.task.restored
        BY <2>1, <2>2, <3>1, BindIsGood
      <3>3. x = [b EXCEPT !.task.auto = wait]
        BY <2>3
      <3> HIDE DEF b
      <3>4. b \in Worlds /\ b.task \in Task
        BY <3>2, FieldsOfWorld DEF Sound
      <3> DEFINE T == [b.task EXCEPT !.auto = wait]
      <3>5. T \in Task
        BY <3>4 DEF Task, Waits
      <3>6. x \in Worlds /\ x.task = T /\ x.disk = b.disk
        BY <3>3, <3>4, <3>5 DEF Worlds
      <3>7. /\ T.auto = wait /\ T.st = b.task.st /\ T.item = b.task.item
            /\ T.verdict = b.task.verdict /\ T.pending = b.task.pending
            /\ T.startup = b.task.startup /\ T.original = b.task.original
            /\ T.fallback = b.task.fallback /\ T.restored = b.task.restored
        BY <3>4 DEF Task
      <3> HIDE DEF T
      <3>8. w.task.fallback # Nothing \/ w.task.restored
        BY <1>1, <1>5, RecoveryEntryType
      <3>. QED
        BY <3>2, <3>6, <3>7, <3>8 DEF Good, Sound, Alive
    <2>4. CASE x \in Bound(Bind(ready(s.w), i), entry)
      <3> DEFINE y == s.w
                 T == [y.task EXCEPT !.fallback = entry]
      <3>1. y \in Worlds /\ y.task \in Task
        BY <2>1, FieldsOfWorld
      <3>2. T \in Task
        BY <1>3, <3>1 DEF Task
      <3>3. ready(y) \in Worlds /\ ready(y).task = T /\ ready(y).disk = y.disk
        <4> HIDE DEF y
        <4>. QED
          BY <3>1, <3>2 DEF Worlds
      <3>4. /\ T.auto = y.task.auto /\ T.st = y.task.st /\ T.item = y.task.item
            /\ T.verdict = y.task.verdict /\ T.pending = y.task.pending
            /\ T.startup = y.task.startup /\ T.original = y.task.original
            /\ T.fallback = entry /\ T.restored = y.task.restored
        BY <3>1 DEF Task
      <3> HIDE DEF ready, T, entry
      <3>5. Sound(ready(y)) /\ Alive(ready(y))
            /\ ready(y).task.verdict = Nothing /\ ready(y).task.pending = Nothing
        BY <1>5, <2>2, <3>3, <3>4 DEF Sound, Alive
      <3> HIDE DEF y
      <3>6. /\ Sound(Bind(ready(y), i)) /\ Alive(Bind(ready(y), i))
            /\ Bind(ready(y), i).task.item = i /\ Bind(ready(y), i).task.auto = Nothing
        BY <3>5, BindIsGood
      <3>7. x \in Bound(Bind(ready(y), i), entry)
        BY <2>4 DEF y
      <3>. QED
        BY <1>3, <3>6, <3>7, BoundIsGood, NothingAssumption DEF NothingAssumption
    <2>. QED
      BY <1>5, <2>3, <2>4
  <1> HIDE DEF S
  <1>. QED
    BY <1>2, <1>4, <1>5

LEMMA PublishedIsGood ==
    ASSUME NEW w, Sound(w), Alive(w), w.task.verdict = TRUE, NEW x \in Published(w)
    PROVE  Good(x)
  <1>1. w \in Worlds /\ w.task \in Task /\ w.disk \in Disk /\ w.disk.partial = Whole
    BY FieldsOfWorld DEF Sound
  <1> DEFINE D == [w.disk EXCEPT !.final = w.disk.partial, !.partial = Nothing, !.snapshot = Nothing]
             y == [w EXCEPT !.disk.final = w.disk.partial, !.disk.partial = Nothing,
                            !.disk.snapshot = Nothing, !.owed = FALSE]
             done == Ended(y, "completed")
             F == UNION {Failed(z, TRUE) : z \in Faulty(w)}
  <1>2. D \in Disk
    BY <1>1 DEF Disk
  <1>3. y \in Worlds /\ y.disk = D
    BY <1>1, <1>2 DEF Worlds
  <1>4. D.final = Whole
    BY <1>1 DEF Disk
  <1>5. x \in ({[done EXCEPT !.disk.journal = Nothing]} \cup Faulty(done)) \cup F
    BY Zenon DEF Published
  <1> HIDE DEF y, D
  <1>6. Good(done) /\ Finished(done) /\ Sound(done)
    BY <1>3, <1>4, EndedIsGood DEF Good
  <1> HIDE DEF done
  <1>7. CASE x = [done EXCEPT !.disk.journal = Nothing]
    <2>1. done \in Worlds /\ done.task \in Task /\ done.disk \in Disk
      BY <1>6, FieldsOfWorld DEF Sound
    <2> DEFINE E == [done.disk EXCEPT !.journal = Nothing]
    <2>2. E \in Disk
      BY <2>1 DEF Disk
    <2>3. x \in Worlds /\ x.task = done.task /\ x.disk = E
      BY <1>7, <2>1, <2>2 DEF Worlds
    <2>4. E.final = done.disk.final /\ E.partial = done.disk.partial
      BY <2>1 DEF Disk
    <2> HIDE DEF E
    <2>5. Sound(x) /\ Finished(x)
      BY <1>6, <2>3, <2>4, SameTaskIsSound
    <2>. QED
      BY <2>5 DEF Good
  <1>8. CASE x \in Faulty(done)
    <2>1. x \in Worlds /\ x.task = done.task /\ x.disk = done.disk
      BY <1>6, <1>8, FaultyKeeps DEF Sound
    <2>. QED
      BY <1>6, <2>1, SameTaskIsSound DEF Good
  <1>9. CASE x \in F
    <2>1. PICK z \in Faulty(w) : x \in Failed(z, TRUE)
      BY <1>9
    <2>2. z \in Worlds /\ z.task = w.task /\ z.disk = w.disk
      BY <1>1, FaultyKeeps
    <2>3. Sound(z) /\ z.disk.journal # Nothing
      BY <2>2, SameTaskIsSound DEF Alive
    <2>. QED
      BY <2>1, <2>3, FailedIsOver
  <1> HIDE DEF F
  <1>. QED
    BY <1>5, <1>7, <1>8, <1>9

LEMMA PromotedAtStartKeeps ==
    ASSUME NEW w \in Worlds, NEW p \in PromotedAtStart(w)
    PROVE  /\ p.w \in Worlds /\ p.w.task = w.task
           /\ p.w.disk.final = w.disk.final /\ p.w.disk.journal = w.disk.journal
  <1>1. w.task \in Task /\ w.disk \in Disk
    BY FieldsOfWorld
  <1> DEFINE b(x) == IF x.disk.snapshot = Nothing THEN "ready" ELSE "blocked"
  <1>2. \/ p.w = w
        \/ p.w = [w EXCEPT !.disk.snapshot = Nothing]
        \/ p.w \in Faulty(w)
        \/ p.w \in Promoted(w)
    BY DEF PromotedAtStart
  <1>3. CASE p.w = [w EXCEPT !.disk.snapshot = Nothing]
    <2> DEFINE D == [w.disk EXCEPT !.snapshot = Nothing]
    <2>1. D \in Disk
      BY <1>1 DEF Disk
    <2>2. p.w \in Worlds /\ p.w.task = w.task /\ p.w.disk = D
      BY <1>1, <1>3, <2>1 DEF Worlds
    <2>. QED
      BY <1>1, <2>2 DEF Disk
  <1>. QED
    BY <1>2, <1>3, FaultyKeeps, PromotedKeeps

LEMMA RecoveredIsGood ==
    ASSUME NEW p, p.w \in Worlds, Sound(p.w), Finished(p.w), p.w.disk.journal # Nothing,
           NEW x \in Recovered(p)
    PROVE  Good(x)
  <1> DEFINE w == p.w
             entry == w.disk.journal
             created == [NoTask EXCEPT !.st = "live", !.restored = TRUE, !.awaiting = TRUE,
                                       !.startup = {"create", "bind"}, !.original = entry]
             failed == [created EXCEPT !.startup = {"failed", "bind"}]
             asked == Ask([w EXCEPT !.task = created], "restore")
             F == UNION {StartupRolledBack([y EXCEPT !.task = failed]) : y \in Faulty(w)}
             gone == [w EXCEPT !.disk.partial = Nothing, !.disk.snapshot = Nothing,
                               !.owed = w.owed /\ entry.n > 0]
  <1>1. w \in Worlds /\ w.task \in Task /\ w.disk \in Disk
    BY FieldsOfWorld
  <1>2. \/ x = asked
        \/ x \in F
        \/ x = w
        \/ x = [gone EXCEPT !.disk.journal = Nothing]
        \/ x \in Faulty(gone)
    <2> HIDE DEF asked, F, gone
    <2>1. x \in IF w.disk.partial # Nothing /\ w.disk.partial.n >= entry.n
                THEN {asked} \cup F
                ELSE IF p.is = "blocked" THEN {w}
                ELSE {[gone EXCEPT !.disk.journal = Nothing]} \cup Faulty(gone)
      BY Zenon DEF Recovered, asked, F, gone
    <2>. QED
      BY <2>1
  <1>3. created \in Task /\ failed \in Task
    <2>1. 0 \in 0 .. MaxAttempts
      BY DownloadAssumption DEF DownloadAssumption
    <2>2. entry \in Entry \cup {Nothing}
      BY <1>1 DEF Disk
    <2>3. {"create", "bind"} \in SUBSET {"create", "failed", "bind"}
          /\ {"failed", "bind"} \in SUBSET {"create", "failed", "bind"}
      OBVIOUS
    <2> HIDE DEF entry
    <2>4. created \in Task
      BY <2>1, <2>2, <2>3 DEF NoTask, Task
    <2> HIDE DEF created
    <2>5. failed \in Task
      BY <2>3, <2>4 DEF Task
    <2>. QED
      BY <2>4, <2>5
  <1>4. /\ created.st = "live" /\ created.item = Nothing /\ created.verdict = Nothing
        /\ created.pending = Nothing /\ created.auto = Nothing
        /\ created.original = entry /\ created.startup = {"create", "bind"}
    BY DEF NoTask
  <1>5. /\ failed.st = "live" /\ failed.item = Nothing /\ failed.verdict = Nothing
        /\ failed.pending = Nothing /\ failed.auto = Nothing
        /\ failed.original = entry /\ failed.startup = {"failed", "bind"}
    BY DEF NoTask
  <1> HIDE DEF created, failed
  <1>6. ASSUME NEW y, y \in Worlds, y.disk = w.disk, NEW t \in {created, failed}
        PROVE  LET z == [y EXCEPT !.task = t]
               IN  Sound(z) /\ Alive(z) /\ z.task = t /\ z.disk = w.disk
    <2> DEFINE z == [y EXCEPT !.task = t]
    <2>1. z \in Worlds /\ z.task = t /\ z.disk = w.disk
      BY <1>3, <1>6 DEF Worlds
    <2> HIDE DEF z
    <2>2. Sound(z) /\ Alive(z)
      BY <2>1, <1>4, <1>5, NothingAssumption DEF Sound, Alive, NothingAssumption, Waits
    <2>. QED
      BY <2>1, <2>2 DEF z
  <1>7. CASE x = asked
    <2>1. LET z == [w EXCEPT !.task = created]
          IN  Sound(z) /\ Alive(z) /\ z.task.item = Nothing
      BY <1>1, <1>4, <1>6
    <2>. QED
      BY <1>7, <2>1, AskIsGood DEF Good, Kinds
  <1>8. CASE x \in F
    <2>1. PICK y \in Faulty(w) : x \in StartupRolledBack([y EXCEPT !.task = failed])
      BY <1>8
    <2>2. y \in Worlds /\ y.disk = w.disk
      BY <1>1, <2>1, FaultyKeeps
    <2> DEFINE z == [y EXCEPT !.task = failed]
    <2>3. Sound(z) /\ Alive(z) /\ z.task = failed /\ z.disk = w.disk
      BY <1>6, <2>2
    <2> HIDE DEF z
    <2>4. x \in StartupRolledBack(z)
      BY <2>1 DEF z
    <2>. QED
      BY <1>5, <2>3, <2>4, StartupRolledBackIsGood
  <1>9. CASE x = w
    BY <1>9 DEF Good
  <1> DEFINE D == [w.disk EXCEPT !.partial = Nothing, !.snapshot = Nothing]
             o == w.owed /\ entry.n > 0
  <1>10. D \in Disk /\ D.final = w.disk.final
    BY <1>1 DEF Disk
  <1>11. gone \in Worlds /\ gone.task = w.task /\ gone.disk = D
    <2>1. o \in BOOLEAN
      BY <1>1, FieldsOfWorld
    <2>2. gone = [w EXCEPT !.disk.partial = Nothing, !.disk.snapshot = Nothing, !.owed = o]
      OBVIOUS
    <2> HIDE DEF o, gone
    <2>. QED
      BY <1>1, <1>10, <2>1, <2>2 DEF Worlds
  <1>12. ASSUME NEW y \in Worlds, y.task = w.task, y.disk.final = w.disk.final
         PROVE  Good(y)
    <2>1. w.task.verdict = Nothing /\ w.task.item = Nothing
      BY DEF Finished, NoTask
    <2>. QED
      BY <1>12, <2>1, NothingAssumption DEF Good, Finished, Sound, NothingAssumption
  <1> HIDE DEF gone, D
  <1>13. CASE x = [gone EXCEPT !.disk.journal = Nothing]
    <2> DEFINE E == [D EXCEPT !.journal = Nothing]
    <2>1. E \in Disk /\ E.final = w.disk.final
      BY <1>10 DEF Disk
    <2>2. x \in Worlds /\ x.task = w.task /\ x.disk = E
      BY <1>13, <1>11, <2>1 DEF Worlds
    <2>. QED
      BY <1>12, <2>1, <2>2
  <1>14. CASE x \in Faulty(gone)
    BY <1>10, <1>11, <1>12, <1>14, FaultyKeeps
  <1>. QED
    BY <1>2, <1>7, <1>8, <1>9, <1>13, <1>14

LEMMA ListenedIsGood ==
    ASSUME NEW w, Sound(w), Alive(w), w.task.auto \notin {"journalRebind", "heldRebind"},
           NEW x \in Listened(Throttled(w))
    PROVE  Good(x)
  <1>1. PICK r \in Throttled(w) : x \in IF r.thrown THEN Scheduled(r.w) ELSE {r.w}
    BY Zenon DEF Listened
  <1>2. Sound(r.w) /\ Alive(r.w) /\ r.thrown \in BOOLEAN
    BY ThrottledIsGood
  <1>. QED
    BY <1>1, <1>2, ScheduledIsGood DEF Good

LEMMA SettledCancelledIsGood ==
    ASSUME NEW w, Sound(w), NEW x \in SettledCancelled(w)
    PROVE  Good(x)
  <1>1. PICK y \in Cancelled(w) : \E z \in Erased(y) : x = Ended(z, "cancelled")
    BY DEF SettledCancelled
  <1> PICK z \in Erased(y) : x = Ended(z, "cancelled")
    BY <1>1
  <1>2. Sound(y)
    BY CancelledIsSound
  <1>3. z \in Worlds /\ z.disk.final \in {Nothing, Whole}
    BY <1>2, ErasedKeeps DEF Sound
  <1>. QED
    BY <1>3, EndedIsGood

LEMMA DeliveredType ==
    ASSUME disk \in Disk, disk.journal # Nothing, NEW kind
    PROVE  Delivered(kind) \subseteq Item
  <1> DEFINE n == IF disk.partial = Nothing THEN 0
                  ELSE IF task.awaiting /\ disk.journal.n <= disk.partial.n THEN disk.journal.n
                  ELSE disk.partial.n
             V == IF disk.journal.v = Nothing THEN Versions ELSE {disk.journal.v}
  <1>1. disk.journal \in Entry /\ disk.partial \in Content \cup {Nothing}
    BY DEF Disk
  <1>2. 0 \in Bytes
    BY DownloadAssumption DEF DownloadAssumption, Bytes
  <1>3. n \in Bytes /\ V \subseteq Versions
    BY <1>1, <1>2 DEF Entry, Content
  <1> HIDE DEF n, V
  <1>4. ASSUME NEW i \in Delivered(kind)
        PROVE  \/ \E v \in Versions :
                      i = [st |-> "running", v |-> v, n |-> 0, can |-> FALSE]
               \/ \E v \in V, can \in BOOLEAN :
                      i = [st |-> "interrupted", v |-> v, can |-> can, n |-> n]
    BY SMT DEF Delivered, n, V
  <1>. SUFFICES ASSUME NEW i \in Delivered(kind) PROVE i \in Item
    OBVIOUS
  <1>5. ASSUME NEW v \in Versions, i = [st |-> "running", v |-> v, n |-> 0, can |-> FALSE]
        PROVE  i \in Item
    BY <1>2, <1>5 DEF Item
  <1>6. ASSUME NEW v \in V, NEW can \in BOOLEAN,
               i = [st |-> "interrupted", v |-> v, can |-> can, n |-> n]
        PROVE  i \in Item
    <2>1. v \in Versions
      BY <1>3
    <2>. QED
      BY <1>3, <1>6, <2>1 DEF Item
  <1>. QED
    BY <1>4, <1>5, <1>6

-----------------------------------------------------------------------------
(* The steps.                                                               *)

(* Between two sections the engine's world is good, and what the            *)
(* application has left behind at its end is the record and the files.      *)
DownloadInv ==
    /\ app \in {"running", "disposed", "ended"}
    /\ stale \in BOOLEAN
    /\ Good(World)
    /\ app # "running" => Finished(World)

TurnsInto(w) ==
    /\ task' = w.task /\ disk' = w.disk /\ faults' = w.faults
    /\ requests' = w.asked /\ owed' = w.owed

LEMMA Turning ==
    ASSUME NEW w \in Worlds, TurnsInto(w)
    PROVE  World' = w
  BY FieldsOfWorld DEF TurnsInto, World

LEMMA RunningTurns ==
    ASSUME DownloadInv, NEW w, Good(w), TurnsInto(w), stale' \in BOOLEAN,
           app = "running", app' = "running"
    PROVE  DownloadInv'
  <1>1. World' = w
    BY Turning DEF Good, Sound
  <1>. QED
    BY <1>1 DEF DownloadInv

LEMMA Now ==
    ASSUME DownloadInv
    PROVE  /\ World \in Worlds /\ Sound(World) /\ Good(World)
           /\ World.task = task /\ World.disk = disk /\ World.faults = faults
           /\ World.asked = requests /\ World.owed = owed
           /\ task \in Task /\ disk \in Disk
           /\ stale \in BOOLEAN
  <1>1. World \in Worlds /\ Sound(World) /\ Good(World)
    BY DEF DownloadInv, Good, Sound
  <1>2. /\ World.task = task /\ World.disk = disk /\ World.faults = faults
        /\ World.asked = requests /\ World.owed = owed
    BY DEF World
  <1>. QED
    BY <1>1, <1>2, FieldsOfWorld DEF DownloadInv

LEMMA Lives ==
    ASSUME DownloadInv,
           \/ task.st = "live" \/ task.item # Nothing \/ task.pending # Nothing
           \/ task.verdict # Nothing \/ task.auto # Nothing \/ task.stall = TRUE
           \/ task.awaiting = TRUE \/ task.startup # {} \/ task.rebind # Nothing
    PROVE  /\ Alive(World) /\ task.st = "live" /\ disk.journal # Nothing
           /\ disk.journal \in Entry
  <1>1. ASSUME Finished(World)
        PROVE  /\ task.st # "live" /\ task.item = Nothing /\ task.pending = Nothing
               /\ task.verdict = Nothing /\ task.auto = Nothing /\ task.stall = FALSE
               /\ task.awaiting = FALSE /\ task.startup = {} /\ task.rebind = Nothing
    BY <1>1, Now DEF Finished, NoTask
  <1>2. Alive(World)
    BY <1>1, Now DEF Good
  <1>. QED
    BY <1>2, Now DEF Alive, Disk

LEMMA WithTask ==
    ASSUME NEW w \in Worlds, NEW t \in Task, NEW x, x = [w EXCEPT !.task = t]
    PROVE  x \in Worlds /\ x.task = t /\ x.disk = w.disk
  BY DEF Worlds

(* A task that is changed in what no rollback relies on is as good as before. *)
LEMMA RetimedIsGood ==
    ASSUME NEW w, Sound(w), Alive(w), NEW x \in Worlds, x.disk = w.disk,
           x.task.st = w.task.st, x.task.item = w.task.item, x.task.pending = w.task.pending,
           x.task.verdict = w.task.verdict, x.task.startup = w.task.startup,
           x.task.original = w.task.original, x.task.fallback = w.task.fallback,
           x.task.restored = w.task.restored, x.task.auto \in {w.task.auto, Nothing}
    PROVE  Sound(x) /\ Alive(x)
  BY NothingAssumption DEF Sound, Alive, NothingAssumption, Waits

LEMMA StartKeeps ==
    ASSUME DownloadInv, Start
    PROVE  DownloadInv'
  <1> DEFINE T == [NoTask EXCEPT !.st = "live"]
             fresh == [World EXCEPT !.task = T, !.owed = TRUE]
             entry == [v |-> Nothing, n |-> 0]
             after(r) == IF r.thrown THEN Failed(r.w, FALSE)
                         ELSE {Ask(r.w, "url")} \cup UNION {Failed(x, FALSE) : x \in Faulty(r.w)}
  <1>1. app = "running" /\ app' = "running" /\ World \in Worlds /\ Sound(World) /\ World.disk = disk
        /\ stale \in BOOLEAN
    BY Now DEF Start
  <1>2. PICK x \in UNION {after(r) : r \in Upserts(fresh, entry)} :
            TurnsInto(x) /\ stale' = (stale \/ (task.verdict # Nothing /\ x.task.verdict = Nothing))
    BY Zenon DEF Start, Becomes, TurnsInto
  <1>3. PICK r \in Upserts(fresh, entry) : x \in after(r)
    BY <1>2
  <1>4. T \in Task /\ T.st = "live" /\ T.item = Nothing /\ T.verdict = Nothing
        /\ T.auto = Nothing /\ T.startup = {}
    <2>1. 0 \in 0 .. MaxAttempts
      BY DownloadAssumption DEF DownloadAssumption
    <2>. QED
      BY <2>1 DEF NoTask, Task
  <1>5. entry \in Entry
    BY DownloadAssumption DEF Entry, Bytes, DownloadAssumption
  <1> HIDE DEF T, entry
  <1>6. fresh \in Worlds /\ fresh.task = T /\ fresh.disk = disk
    BY <1>1, <1>4 DEF Worlds
  <1>7. Sound(fresh)
    BY <1>1, <1>4, <1>6, NothingAssumption DEF Sound, NothingAssumption
  <1> HIDE DEF fresh
  <1>8. /\ r.w \in Worlds /\ r.w.task = T /\ r.w.disk.partial = disk.partial
        /\ r.w.disk.final = disk.final /\ r.thrown \in BOOLEAN
        /\ ~r.thrown => r.w.disk.journal = entry
    BY <1>5, <1>6, UpsertsKeep
  <1>9. Sound(r.w)
    BY <1>6, <1>7, <1>8, SameTaskIsSound
  <1>10. ASSUME x \in Failed(r.w, FALSE)
         PROVE  Good(x)
    BY <1>9, <1>10, FailedIsOver
  <1>11. ASSUME ~r.thrown /\ x = Ask(r.w, "url")
         PROVE  Good(x)
    <2>1. Alive(r.w)
      BY <1>4, <1>5, <1>8, <1>11, NothingAssumption DEF Alive, NothingAssumption, Waits
    <2>. QED
      BY <1>4, <1>8, <1>9, <1>11, <2>1, AskIsGood DEF Good, Kinds
  <1>12. ASSUME x \in UNION {Failed(y, FALSE) : y \in Faulty(r.w)}
         PROVE  Good(x)
    <2>1. PICK y \in Faulty(r.w) : x \in Failed(y, FALSE)
      BY <1>12
    <2>2. Sound(y)
      BY <1>8, <1>9, FaultyKeeps, SameTaskIsSound
    <2>. QED
      BY <2>1, <2>2, FailedIsOver
  <1>13. Good(x)
    BY <1>3, <1>8, <1>10, <1>11, <1>12
  <1>. QED
    BY <1>1, <1>2, <1>13, RunningTurns

LEMMA AutoFiresKeeps ==
    ASSUME DownloadInv, AutoFires
    PROVE  DownloadInv'
  <1> DEFINE off == [World EXCEPT !.task.auto = Nothing]
             held == UNION {IF s.thrown THEN {s.w} ELSE StartupRolledBack(s.w) :
                               s \in Snapshots(World, TRUE)}
             reheld == UNION {IF s.thrown THEN {s.w} ELSE RebindRolledBack(s.w, RecoveryEntry(s.w)) :
                                 s \in Snapshots(World, TRUE)}
  <1>1. /\ app = "running" /\ app' = "running" /\ task.auto # Nothing
    BY DEF AutoFires
  <1>2. /\ World \in Worlds /\ Sound(World) /\ Alive(World)
        /\ World.task = task /\ World.disk = disk /\ task \in Task /\ disk \in Disk
        /\ stale \in BOOLEAN /\ task.st = "live" /\ disk.journal \in Entry /\ disk.journal # Nothing
    BY <1>1, Now, Lives
  <1>3. task.auto \in Waits
    BY <1>1, <1>2 DEF Task
  <1>4. PICK x \in CASE task.auto = "resume" -> Resumed(World)
                     [] task.auto = "relaunch" -> Relaunched(World)
                     [] task.auto = "snapshot" -> Rebound(World)
                     [] task.auto = "exhausted" -> Scheduled(off)
                     [] task.auto = "restart" -> Restarted(off, TRUE)
                     [] task.auto = "journalStartup" -> StartupRolledBack(off)
                     [] task.auto = "journalRebind" -> RebindRolledBack(off, task.fallback)
                     [] task.auto = "heldStartup" -> held
                     [] task.auto = "heldRebind" -> reheld :
            TurnsInto(x) /\ stale' = (stale \/ (task.verdict # Nothing /\ x.task.verdict = Nothing))
    BY Zenon DEF AutoFires, Becomes, TurnsInto
  <1>5. /\ off \in Worlds /\ off.disk = disk /\ off.task.auto = Nothing
        /\ off.task.st = task.st /\ off.task.item = task.item /\ off.task.pending = task.pending
        /\ off.task.verdict = task.verdict /\ off.task.startup = task.startup
        /\ off.task.original = task.original /\ off.task.fallback = task.fallback
        /\ off.task.restored = task.restored
    <2> DEFINE T == [task EXCEPT !.auto = Nothing]
    <2>1. /\ T \in Task /\ T.auto = Nothing /\ T.st = task.st /\ T.item = task.item
          /\ T.pending = task.pending /\ T.verdict = task.verdict /\ T.startup = task.startup
          /\ T.original = task.original /\ T.fallback = task.fallback /\ T.restored = task.restored
      BY <1>2 DEF Task
    <2>2. off = [World EXCEPT !.task = T]
      BY <1>2
    <2> HIDE DEF T, off
    <2>3. off \in Worlds /\ off.task = T /\ off.disk = disk
      BY <1>2, <2>1, <2>2, WithTask
    <2>. QED
      BY <2>1, <2>3
  <1> HIDE DEF off, held, reheld
  <1>6. Sound(off) /\ Alive(off)
    BY <1>2, <1>5, RetimedIsGood
  <1>7. ASSUME NEW s \in Snapshots(World, TRUE)
        PROVE  s.w \in Worlds /\ Sound(s.w) /\ Alive(s.w) /\ s.w.task = task /\ s.thrown \in BOOLEAN
               /\ s.w.disk.journal = disk.journal
    BY <1>2, SnapshotsKeep, SameTaskIsSound
  <1>8. ASSUME task.auto = "resume" /\ x \in Resumed(World)
         PROVE  Good(x)
    BY <1>2, <1>8, ResumedIsGood
  <1>9. ASSUME task.auto = "relaunch" /\ x \in Relaunched(World)
         PROVE  Good(x)
    BY <1>2, <1>9, RelaunchedIsGood DEF Sound
  <1>10. ASSUME task.auto = "snapshot" /\ x \in Rebound(World)
         PROVE  Good(x)
    BY <1>2, <1>10, ReboundIsGood
  <1>11. ASSUME task.auto = "exhausted" /\ x \in Scheduled(off)
         PROVE  Good(x)
    BY <1>6, <1>11, ScheduledIsGood
  <1>12. ASSUME task.auto = "restart" /\ x \in Restarted(off, TRUE)
         PROVE  Good(x)
    BY <1>2, <1>5, <1>6, <1>12, RestartedIsGood DEF Sound
  <1>13. ASSUME task.auto = "journalStartup" /\ x \in StartupRolledBack(off)
         PROVE  Good(x)
    <2>1. task.startup \cap {"failed", "bind"} # {} /\ task.original # Nothing
      BY <1>2, <1>13 DEF Alive
    <2>. QED
      BY <1>2, <1>5, <1>6, <1>13, <2>1, StartupRolledBackIsGood
  <1>14. ASSUME task.auto = "journalRebind" /\ x \in RebindRolledBack(off, task.fallback)
         PROVE  Good(x)
    <2>1. task.fallback \in Entry
      BY <1>2, <1>14 DEF Alive, Task
    <2>. QED
      BY <1>6, <1>14, <2>1, RebindRolledBackIsGood
  <1>15. ASSUME task.auto = "heldStartup" /\ x \in held
         PROVE  Good(x)
    <2>1. PICK s \in Snapshots(World, TRUE) :
              x \in IF s.thrown THEN {s.w} ELSE StartupRolledBack(s.w)
      BY <1>15 DEF held
    <2>2. task.startup \cap {"failed", "bind"} # {} /\ task.original # Nothing
      BY <1>2, <1>15 DEF Alive
    <2>. QED
      BY <1>2, <1>7, <2>1, <2>2, StartupRolledBackIsGood DEF Good
  <1>16. ASSUME task.auto = "heldRebind" /\ x \in reheld
         PROVE  Good(x)
    <2>1. PICK s \in Snapshots(World, TRUE) :
              x \in IF s.thrown THEN {s.w} ELSE RebindRolledBack(s.w, RecoveryEntry(s.w))
      BY <1>16 DEF reheld
    <2>2. task.fallback # Nothing \/ task.restored
      BY <1>2, <1>16 DEF Alive
    <2>3. s.w \in Worlds /\ s.w.task = task /\ s.w.disk.journal # Nothing
      BY <1>2, <1>7
    <2>4. RecoveryEntry(s.w) \in Entry
      BY <2>2, <2>3, RecoveryEntryType
    <2>. QED
      BY <1>7, <2>1, <2>4, RebindRolledBackIsGood DEF Good
  <1>17. Good(x)
    BY <1>3, <1>4, <1>8, <1>9, <1>10, <1>11, <1>12, <1>13, <1>14, <1>15, <1>16 DEF Waits
  <1>. QED
    BY <1>1, <1>2, <1>4, <1>17, RunningTurns

LEMMA ItemArrivesKeeps ==
    ASSUME DownloadInv, NEW kind \in Kinds, ItemArrives(kind)
    PROVE  DownloadInv'
  <1> DEFINE w == [World EXCEPT !.asked[kind] = @ - 1, !.task.pending = Nothing]
             A == UNION {Accepted(w, i) : i \in Delivered(kind)}
  <1>1. app = "running" /\ app' = "running" /\ requests[kind] > 0
    BY DEF ItemArrives
  <1>2. /\ World \in Worlds /\ Sound(World) /\ Good(World) /\ World.task = task /\ World.disk = disk
        /\ World.asked = requests /\ task \in Task /\ disk \in Disk /\ stale \in BOOLEAN
    BY Now
  <1>3. PICK x \in IF task.pending = Nothing THEN {w} ELSE A \cup Failed(w, FALSE) :
            TurnsInto(x) /\ stale' = (stale \/ (task.verdict # Nothing /\ x.task.verdict = Nothing))
    BY Zenon DEF ItemArrives, Becomes, TurnsInto
  <1> DEFINE T == [task EXCEPT !.pending = Nothing]
             a == [requests EXCEPT ![kind] = requests[kind] - 1]
  <1>4. /\ T \in Task /\ T.pending = Nothing /\ T.st = task.st /\ T.item = task.item
        /\ T.auto = task.auto /\ T.verdict = task.verdict /\ T.startup = task.startup
        /\ T.original = task.original /\ T.fallback = task.fallback /\ T.restored = task.restored
    BY <1>2 DEF Task
  <1>5. a \in [Kinds -> Nat]
    <2>1. requests \in [Kinds -> Nat] /\ requests[kind] \in Nat
      BY <1>2 DEF Worlds
    <2>2. requests[kind] - 1 \in Nat
      BY <1>1, <2>1
    <2>. QED
      BY <2>1, <2>2
  <1>6. w = [World EXCEPT !.asked = a, !.task = T]
    BY <1>2
  <1>7. task.pending = Nothing => T = task
    BY <1>2 DEF Task
  <1> HIDE DEF T, a, w, A
  <1>8. w \in Worlds /\ w.task = T /\ w.disk = disk
    BY <1>2, <1>4, <1>5, <1>6 DEF Worlds
  <1>9. CASE task.pending = Nothing
    <2>1. w.task = task
      BY <1>7, <1>8, <1>9
    <2>2. Good(w)
      BY <1>2, <1>8, <2>1 DEF Good, Sound, Alive, Finished
    <2>. QED
      BY <1>1, <1>2, <1>3, <1>9, <2>2, RunningTurns
  <1>10. CASE task.pending # Nothing
    <2>1. /\ Alive(World) /\ task.item = Nothing
          /\ disk.journal # Nothing /\ task.verdict = Nothing
      BY <1>2, <1>10, Lives DEF Sound
    <2>2. Sound(w) /\ Alive(w)
      BY <1>2, <1>4, <1>8, <2>1, NothingAssumption DEF Sound, Alive, NothingAssumption
    <2>3. ASSUME x \in Failed(w, FALSE)
          PROVE  Good(x)
      BY <2>2, <2>3, FailedIsOver
    <2>4. ASSUME x \in A
          PROVE  Good(x)
      <3>1. PICK i \in Delivered(kind) : x \in Accepted(w, i)
        BY <2>4 DEF A
      <3>2. i \in Item
        BY <1>2, <2>1, DeliveredType
      <3>. QED
        BY <1>4, <1>8, <2>1, <2>2, <3>1, <3>2, AcceptedIsGood
    <2>5. Good(x)
      BY <1>3, <1>10, <2>3, <2>4
    <2>. QED
      BY <1>1, <1>2, <1>3, <2>5, RunningTurns
  <1>. QED
    BY <1>9, <1>10

(* What the listeners of an item may count on.                             *)
LEMMA ReportingNow ==
    ASSUME DownloadInv, Reporting
    PROVE  /\ Alive(World) /\ task.st = "live" /\ task.item \in Item /\ task.verdict = Nothing
           /\ task.pending = Nothing /\ task.startup = {} /\ disk.journal # Nothing
           /\ task.auto \notin Held /\ task.auto \notin {"relaunch", "restart"}
           /\ app = "running"
  BY Now, Lives DEF Reporting, Task, Sound

(* A listener changes the item, its bytes, and when the engine goes on.    *)
LEMMA ReportIsGood ==
    ASSUME DownloadInv, Reporting, NEW x \in Worlds,
           x.task \in Task, x.task.item # Nothing,
           x.task.st = task.st, x.task.pending = task.pending, x.task.verdict = task.verdict,
           x.task.startup = task.startup, x.task.fallback = task.fallback,
           x.task.auto \in {task.auto, Nothing},
           x.disk.journal = disk.journal, x.disk.final = disk.final
    PROVE  Sound(x) /\ Alive(x) /\ x.task.auto \notin {"journalRebind", "heldRebind"}
  <1>1. /\ Sound(World) /\ World.task = task /\ World.disk = disk
    BY Now
  <1>2. x.task.auto \notin Held /\ x.task.auto \notin {"relaunch", "restart"}
    BY ReportingNow, NothingAssumption DEF NothingAssumption, Waits, Held
  <1>3. Sound(x)
    BY <1>1, <1>2, ReportingNow, NothingAssumption DEF Sound, NothingAssumption
  <1>4. Alive(x)
    BY <1>2, ReportingNow DEF Alive, Held
  <1>. QED
    BY <1>2, <1>3, <1>4 DEF Held

LEMMA ProgressKeeps ==
    ASSUME DownloadInv, Progress
    PROVE  DownloadInv'
  <1> DEFINE m == task.item.n + 1
             refund == IF task.auto # Nothing /\ task.attempts > 0 THEN task.attempts - 1
                       ELSE task.attempts
             i == [task.item EXCEPT !.n = m]
             c == [v |-> task.item.v, n |-> m]
             T == [task EXCEPT !.item = i, !.auto = Nothing, !.stall = TRUE, !.attempts = refund]
             D == [disk EXCEPT !.partial = c]
             w == [World EXCEPT !.task.item.n = m, !.disk.partial = c,
                                !.task.auto = Nothing, !.task.stall = TRUE, !.task.attempts = refund]
  <1>1. app = "running" /\ app' = "running" /\ Reporting /\ task.item.n < Full
    BY ReportingNow DEF Progress
  <1>2. /\ World \in Worlds /\ World.task = task /\ World.disk = disk
        /\ task \in Task /\ disk \in Disk /\ stale \in BOOLEAN
    BY Now
  <1>3. PICK x \in Listened(Throttled(w)) :
            TurnsInto(x) /\ stale' = (stale \/ (task.verdict # Nothing /\ x.task.verdict = Nothing))
    BY Zenon DEF Progress, Becomes, TurnsInto
  <1>4. task.item \in Item /\ task.item.n \in Bytes /\ task.item.v \in Versions
    BY <1>1, ReportingNow DEF Item
  <1>5. m \in Bytes
    BY <1>1, <1>4, DownloadAssumption DEF Bytes, DownloadAssumption
  <1>6. refund \in 0 .. MaxAttempts
    <2>1. task.attempts \in 0 .. MaxAttempts /\ MaxAttempts \in Nat
      BY <1>2, DownloadAssumption DEF Task, DownloadAssumption
    <2>. QED
      BY <2>1
  <1>7. w = [World EXCEPT !.task = T, !.disk = D]
    BY <1>2
  <1> HIDE DEF m, refund
  <1>8. i \in Item /\ c \in Content
    BY <1>4, <1>5 DEF Item, Content
  <1>9. i # Nothing
    BY <1>8, NothingAssumption DEF NothingAssumption
  <1> HIDE DEF i, c
  <1>10. /\ T \in Task /\ T.item = i /\ T.auto = Nothing /\ T.st = task.st
         /\ T.pending = task.pending /\ T.verdict = task.verdict /\ T.startup = task.startup
         /\ T.fallback = task.fallback
    BY <1>2, <1>6, <1>8 DEF Task
  <1>11. D \in Disk /\ D.journal = disk.journal /\ D.final = disk.final
    BY <1>2, <1>8 DEF Disk
  <1> HIDE DEF T, D, w
  <1>12. w \in Worlds /\ w.task = T /\ w.disk = D
    BY <1>2, <1>7, <1>10, <1>11 DEF Worlds
  <1>13. Sound(w) /\ Alive(w) /\ w.task.auto \notin {"journalRebind", "heldRebind"}
    BY <1>1, <1>9, <1>10, <1>11, <1>12, ReportIsGood
  <1>14. Good(x)
    BY <1>3, <1>13, ListenedIsGood
  <1>. QED
    BY <1>1, <1>2, <1>3, <1>14, RunningTurns

LEMMA ServerRestartsKeeps ==
    ASSUME DownloadInv, NEW v \in Versions, ServerRestarts(v)
    PROVE  DownloadInv'
  <1> DEFINE i == [task.item EXCEPT !.n = 0, !.v = v]
             c == [v |-> v, n |-> 0]
             o == owed /\ task.fallback # Nothing
             T == [task EXCEPT !.item = i, !.restored = FALSE]
             D == [disk EXCEPT !.partial = c]
             w == [World EXCEPT !.task.item.n = 0, !.task.item.v = v, !.disk.partial = c,
                                !.task.restored = FALSE, !.owed = o]
  <1>1. app = "running" /\ app' = "running" /\ Reporting
    BY ReportingNow DEF ServerRestarts
  <1>2. /\ World \in Worlds /\ World.task = task /\ World.disk = disk /\ World.owed = owed
        /\ task \in Task /\ disk \in Disk /\ stale \in BOOLEAN
    BY Now
  <1>3. PICK x \in Listened(Throttled(w)) :
            TurnsInto(x) /\ stale' = (stale \/ (task.verdict # Nothing /\ x.task.verdict = Nothing))
    BY Zenon DEF ServerRestarts, Becomes, TurnsInto
  <1>4. task.item \in Item /\ 0 \in Bytes /\ o \in BOOLEAN
    <2>1. owed \in BOOLEAN
      BY <1>2 DEF Worlds
    <2>. QED
      BY <1>1, <2>1, ReportingNow, DownloadAssumption DEF Bytes, DownloadAssumption
  <1>5. i \in Item /\ c \in Content
    BY <1>4 DEF Item, Content
  <1>6. i # Nothing
    BY <1>5, NothingAssumption DEF NothingAssumption
  <1> HIDE DEF c, o
  <1>7. w = [World EXCEPT !.task = T, !.disk = D, !.owed = o]
    <2> DEFINE a == [World EXCEPT !.task.item.n = 0, !.task.item.v = v]
    <2>1. a = [World EXCEPT !.task.item = i]
      BY <1>2
    <2>2. w = [a EXCEPT !.disk.partial = c, !.task.restored = FALSE, !.owed = o]
      OBVIOUS
    <2> HIDE DEF a, i, w
    <2>3. w = [World EXCEPT !.task.item = i, !.disk.partial = c, !.task.restored = FALSE, !.owed = o]
      BY <2>1, <2>2
    <2>. QED
      BY <1>2, <2>3
  <1> HIDE DEF i
  <1>8. /\ T \in Task /\ T.item = i /\ T.auto = task.auto /\ T.st = task.st
        /\ T.pending = task.pending /\ T.verdict = task.verdict /\ T.startup = task.startup
        /\ T.fallback = task.fallback
    BY <1>2, <1>5 DEF Task
  <1>9. D \in Disk /\ D.journal = disk.journal /\ D.final = disk.final
    BY <1>2, <1>5 DEF Disk
  <1> HIDE DEF T, D, w
  <1>10. w \in Worlds /\ w.task = T /\ w.disk = D
    BY <1>2, <1>4, <1>7, <1>8, <1>9 DEF Worlds
  <1>11. Sound(w) /\ Alive(w) /\ w.task.auto \notin {"journalRebind", "heldRebind"}
    BY <1>1, <1>6, <1>8, <1>9, <1>10, ReportIsGood
  <1>12. Good(x)
    BY <1>3, <1>11, ListenedIsGood
  <1>. QED
    BY <1>1, <1>2, <1>3, <1>12, RunningTurns

LEMMA InterruptedKeeps ==
    ASSUME DownloadInv, NEW can \in BOOLEAN, NEW done \in BOOLEAN, Interrupted(can, done)
    PROVE  DownloadInv'
  <1> DEFINE i == [task.item EXCEPT !.st = "interrupted", !.can = can]
             T == [task EXCEPT !.item = i]
             U == [T EXCEPT !.stall = FALSE]
             w == [World EXCEPT !.task.item.st = "interrupted", !.task.item.can = can]
             y == [w EXCEPT !.task.stall = FALSE]
             A == UNION {Scheduled(r.w) : r \in Throttled(y)}
  <1>1. app = "running" /\ app' = "running" /\ Reporting
    BY ReportingNow DEF Interrupted
  <1>2. /\ World \in Worlds /\ World.task = task /\ World.disk = disk
        /\ task \in Task /\ disk \in Disk /\ stale \in BOOLEAN
    BY Now
  <1>3. PICK x \in IF ~can THEN Scheduled(w)
                   ELSE IF done THEN A ELSE Listened(Throttled(y)) :
            TurnsInto(x) /\ stale' = (stale \/ (task.verdict # Nothing /\ x.task.verdict = Nothing))
    BY Zenon DEF Interrupted, Becomes, TurnsInto
  <1>4. i \in Item
    BY <1>1, ReportingNow DEF Item
  <1>5. i # Nothing
    BY <1>4, NothingAssumption DEF NothingAssumption
  <1>6. w = [World EXCEPT !.task = T]
    BY <1>2
  <1> HIDE DEF i
  <1>7. /\ T \in Task /\ T.item = i /\ T.auto = task.auto /\ T.st = task.st
        /\ T.pending = task.pending /\ T.verdict = task.verdict /\ T.startup = task.startup
        /\ T.fallback = task.fallback
    BY <1>2, <1>4 DEF Task
  <1> HIDE DEF T, w
  <1>8. w \in Worlds /\ w.task = T /\ w.disk = disk
    BY <1>2, <1>6, <1>7, WithTask
  <1>9. Sound(w) /\ Alive(w)
    BY <1>1, <1>5, <1>7, <1>8, ReportIsGood
  <1>10. /\ U \in Task /\ U.item = i /\ U.auto = task.auto /\ U.st = task.st
         /\ U.pending = task.pending /\ U.verdict = task.verdict /\ U.startup = task.startup
         /\ U.fallback = task.fallback
    BY <1>7 DEF Task
  <1>11. y = [w EXCEPT !.task = U]
    BY <1>8
  <1> HIDE DEF U, y, A
  <1>12. y \in Worlds /\ y.task = U /\ y.disk = disk
    BY <1>8, <1>10, <1>11, WithTask
  <1>13. Sound(y) /\ Alive(y) /\ y.task.auto \notin {"journalRebind", "heldRebind"}
    BY <1>1, <1>5, <1>10, <1>12, ReportIsGood
  <1>14. ASSUME x \in A
         PROVE  Good(x)
    <2>1. PICK r \in Throttled(y) : x \in Scheduled(r.w)
      BY <1>14 DEF A
    <2>. QED
      BY <1>13, <2>1, ThrottledIsGood, ScheduledIsGood
  <1>15. Good(x)
    BY <1>3, <1>9, <1>13, <1>14, ScheduledIsGood, ListenedIsGood
  <1>. QED
    BY <1>1, <1>2, <1>3, <1>15, RunningTurns

LEMMA CompletedKeeps ==
    ASSUME DownloadInv, Completed
    PROVE  DownloadInv'
  <1> DEFINE i == [task.item EXCEPT !.st = "completed"]
             b == disk.partial = Whole
             T == [task EXCEPT !.item = i, !.auto = Nothing, !.stall = FALSE, !.verdict = b]
             w == [World EXCEPT !.task.item.st = "completed", !.task.auto = Nothing,
                                !.task.stall = FALSE, !.task.verdict = b]
  <1>1. app = "running" /\ app' = "running" /\ Reporting
    BY ReportingNow DEF Completed
  <1>2. /\ World \in Worlds /\ World.task = task /\ World.disk = disk /\ Sound(World)
        /\ task \in Task /\ disk \in Disk /\ stale \in BOOLEAN
    BY Now
  <1>3. TurnsInto(w) /\ stale' = (stale \/ (task.verdict # Nothing /\ w.task.verdict = Nothing))
    BY DEF Completed, Becomes, TurnsInto, Whole
  <1>4. i \in Item
    BY <1>1, ReportingNow DEF Item
  <1>5. i # Nothing
    BY <1>4, NothingAssumption DEF NothingAssumption
  <1>6. b \in BOOLEAN /\ (b = TRUE => disk.partial = Whole)
    OBVIOUS
  <1>7. w = [World EXCEPT !.task = T]
    BY <1>2
  <1> HIDE DEF i, b
  <1>8. /\ T \in Task /\ T.item = i /\ T.auto = Nothing /\ T.st = task.st
        /\ T.pending = task.pending /\ T.verdict = b /\ T.startup = task.startup
        /\ T.fallback = task.fallback
    <2>1. T \in Task
      BY <1>2, <1>4, <1>6, TaskVerifies
    <2>. QED
      BY <1>2, <2>1 DEF Task
  <1> HIDE DEF T, w
  <1>9. w \in Worlds /\ w.task = T /\ w.disk = disk
    BY <1>2, <1>7, <1>8, WithTask
  <1>10. Sound(w)
    BY <1>1, <1>2, <1>5, <1>6, <1>8, <1>9, ReportingNow, NothingAssumption
       DEF Sound, NothingAssumption, Waits
  <1>11. Alive(w)
    BY <1>1, <1>8, <1>9, ReportingNow, NothingAssumption DEF Alive, NothingAssumption, Waits
  <1>. QED
    BY <1>1, <1>2, <1>3, <1>10, <1>11, RunningTurns DEF Good

LEMMA VerifyEndsKeeps ==
    ASSUME DownloadInv, VerifyEnds
    PROVE  DownloadInv'
  <1> DEFINE w == [World EXCEPT !.task.verdict = TRUE]
  <1>1. app = "running" /\ app' = "running" /\ task.verdict # Nothing
    BY DEF VerifyEnds
  <1>2. /\ World \in Worlds /\ World.task = task /\ World.disk = disk /\ Sound(World)
        /\ task \in Task /\ disk \in Disk /\ stale \in BOOLEAN /\ Alive(World)
    BY <1>1, Now, Lives
  <1>3. PICK x \in IF task.verdict THEN Published(w) ELSE Failed(World, FALSE) :
            TurnsInto(x) /\ stale' = (stale \/ (task.verdict # Nothing /\ x.task.verdict = Nothing))
    BY Zenon DEF VerifyEnds, Becomes, TurnsInto
  <1>4. task.verdict \in BOOLEAN
    BY <1>1, <1>2 DEF Task
  <1>5. CASE task.verdict = TRUE
    <2>1. w = World
      <3> DEFINE T == [task EXCEPT !.verdict = TRUE]
      <3>1. T = task
        BY <1>2, <1>5 DEF Task
      <3>2. w = [World EXCEPT !.task = T]
        BY <1>2
      <3> HIDE DEF T, w
      <3>. QED
        BY <1>2, <3>1, <3>2 DEF Worlds
    <2> HIDE DEF w
    <2>2. x \in Published(World)
      BY <1>3, <1>5, <2>1
    <2>3. Good(x)
      BY <1>2, <1>5, <2>2, PublishedIsGood
    <2>. QED
      BY <1>1, <1>2, <1>3, <2>3, RunningTurns
  <1>6. CASE task.verdict = FALSE
    <2>1. Good(x)
      BY <1>2, <1>3, <1>6, FailedIsOver
    <2>. QED
      BY <1>1, <1>2, <1>3, <2>1, RunningTurns
  <1>. QED
    BY <1>4, <1>5, <1>6

LEMMA StaleVerifyEndsKeeps ==
    ASSUME DownloadInv, StaleVerifyEnds
    PROVE  DownloadInv'
  BY DEF DownloadInv, StaleVerifyEnds, World

LEMMA StallFiresKeeps ==
    ASSUME DownloadInv, StallFires
    PROVE  DownloadInv'
  <1> DEFINE T == [task EXCEPT !.stall = FALSE]
             w == [World EXCEPT !.task.stall = FALSE]
  <1>1. app = "running" /\ app' = "running" /\ task.stall
    BY DEF StallFires
  <1>2. /\ World \in Worlds /\ World.task = task /\ World.disk = disk /\ Sound(World)
        /\ task \in Task /\ disk \in Disk /\ stale \in BOOLEAN
    BY Now
  <1>3. task.stall = TRUE
    BY <1>1, <1>2 DEF Task
  <1>4. /\ Alive(World) /\ disk.journal # Nothing /\ task.st = "live"
    BY <1>3, Lives
  <1>5. PICK x \in IF "bind" \in task.startup /\ task.item = Nothing THEN StartupRolledBack(w)
                   ELSE Scheduled(w) :
            TurnsInto(x) /\ stale' = (stale \/ (task.verdict # Nothing /\ x.task.verdict = Nothing))
    BY Zenon DEF StallFires, Becomes, TurnsInto
  <1>6. w = [World EXCEPT !.task = T]
    BY <1>2
  <1>7. /\ T \in Task /\ T.st = task.st /\ T.item = task.item /\ T.pending = task.pending
        /\ T.verdict = task.verdict /\ T.startup = task.startup /\ T.auto = task.auto
        /\ T.original = task.original /\ T.fallback = task.fallback /\ T.restored = task.restored
    BY <1>2 DEF Task
  <1> HIDE DEF T, w
  <1>8. w \in Worlds /\ w.task = T /\ w.disk = disk
    BY <1>2, <1>6, <1>7, WithTask
  <1>9. Sound(w) /\ Alive(w)
    BY <1>2, <1>4, <1>7, <1>8, RetimedIsGood
  <1>10. CASE "bind" \in task.startup /\ x \in StartupRolledBack(w)
    <2>1. task.startup \cap {"failed", "bind"} # {} /\ task.original # Nothing
      BY <1>2, <1>4, <1>10 DEF Alive
    <2>2. Good(x)
      BY <1>4, <1>7, <1>8, <1>9, <1>10, <2>1, StartupRolledBackIsGood
    <2>. QED
      BY <1>1, <1>2, <1>5, <2>2, RunningTurns
  <1>11. CASE x \in Scheduled(w)
    BY <1>1, <1>2, <1>5, <1>9, <1>11, ScheduledIsGood, RunningTurns
  <1>. QED
    BY <1>5, <1>10, <1>11

LEMMA StartupCreatesKeeps ==
    ASSUME DownloadInv, NEW ok \in BOOLEAN, StartupCreates(ok)
    PROVE  DownloadInv'
  <1> DEFINE settled == task.startup \ {"create"}
             marked == settled \cup {"failed"}
             o == IF settled = {} THEN Nothing ELSE task.original
             T == [task EXCEPT !.startup = settled, !.original = o]
             U == [task EXCEPT !.startup = marked]
             w == [World EXCEPT !.task.startup = settled, !.task.original = o]
             y == [World EXCEPT !.task.startup = marked]
  <1>1. app = "running" /\ app' = "running" /\ task.startup # {}
    BY DEF StartupCreates
  <1>2. /\ World \in Worlds /\ World.task = task /\ World.disk = disk /\ Sound(World)
        /\ task \in Task /\ disk \in Disk /\ stale \in BOOLEAN
        /\ Alive(World) /\ task.st = "live" /\ disk.journal # Nothing
    BY <1>1, Now, Lives
  <1>3. [World EXCEPT !.task.startup = settled,
                      !.task.original = IF settled = {} THEN Nothing ELSE @] = w
    BY <1>2
  <1>4. PICK x \in IF ok THEN {w} ELSE IF task.auto \in Held THEN {y} ELSE StartupRolledBack(y) :
            TurnsInto(x) /\ stale' = (stale \/ (task.verdict # Nothing /\ x.task.verdict = Nothing))
    <2> HIDE DEF w, y
    <2>. QED
      BY <1>3, Zenon DEF StartupCreates, Becomes, TurnsInto, y
  <1>5. /\ settled \in SUBSET {"create", "failed", "bind"} /\ marked \in SUBSET {"create", "failed", "bind"}
        /\ o \in Entry \cup {Nothing} /\ task.original # Nothing
        /\ settled # {} => o # Nothing
        /\ settled \cap {"failed", "bind"} = task.startup \cap {"failed", "bind"}
        /\ marked # {} /\ marked \cap {"failed", "bind"} # {}
    BY <1>1, <1>2 DEF Task, Alive
  <1>6. w = [World EXCEPT !.task = T] /\ y = [World EXCEPT !.task = U]
    BY <1>2
  <1> HIDE DEF settled, marked, o
  <1>7. /\ T \in Task /\ T.st = task.st /\ T.item = task.item /\ T.pending = task.pending
        /\ T.verdict = task.verdict /\ T.startup = settled /\ T.auto = task.auto
        /\ T.original = o /\ T.fallback = task.fallback /\ T.restored = task.restored
    BY <1>2, <1>5 DEF Task
  <1>8. /\ U \in Task /\ U.st = task.st /\ U.item = task.item /\ U.pending = task.pending
        /\ U.verdict = task.verdict /\ U.startup = marked /\ U.auto = task.auto
        /\ U.original = task.original /\ U.fallback = task.fallback /\ U.restored = task.restored
    BY <1>2, <1>5 DEF Task
  <1> HIDE DEF T, U, w, y
  <1>9. w \in Worlds /\ w.task = T /\ w.disk = disk /\ y \in Worlds /\ y.task = U /\ y.disk = disk
    BY <1>2, <1>6, <1>7, <1>8, WithTask
  <1>10. Sound(w) /\ Sound(y)
    BY <1>2, <1>7, <1>8, <1>9 DEF Sound
  <1>11. Alive(w) /\ Alive(y)
    BY <1>2, <1>5, <1>7, <1>8, <1>9 DEF Alive
  <1>12. ASSUME x \in StartupRolledBack(y)
         PROVE  Good(x)
    BY <1>2, <1>5, <1>8, <1>9, <1>10, <1>12, StartupRolledBackIsGood
  <1>13. Good(x)
    BY <1>4, <1>10, <1>11, <1>12 DEF Good
  <1>. QED
    BY <1>1, <1>2, <1>4, <1>13, RunningTurns

LEMMA RebindCreatesKeeps ==
    ASSUME DownloadInv, NEW ok \in BOOLEAN, RebindCreates(ok)
    PROVE  DownloadInv'
  <1> DEFINE T == [task EXCEPT !.rebind = Nothing]
             U == [T EXCEPT !.pending = Nothing]
             w == [World EXCEPT !.task.rebind = Nothing]
             y == [w EXCEPT !.task.pending = Nothing]
  <1>1. app = "running" /\ app' = "running" /\ task.rebind # Nothing
    BY DEF RebindCreates
  <1>2. /\ World \in Worlds /\ World.task = task /\ World.disk = disk /\ Sound(World)
        /\ task \in Task /\ disk \in Disk /\ stale \in BOOLEAN
        /\ Alive(World) /\ task.st = "live" /\ disk.journal # Nothing
    BY <1>1, Now, Lives
  <1>3. PICK x \in IF ok THEN {w}
                   ELSE IF task.item # Nothing THEN RebindRolledBack(w, task.rebind)
                   ELSE IF task.pending = "restore" THEN Restarted(y, FALSE)
                   ELSE {w} :
            TurnsInto(x) /\ stale' = (stale \/ (task.verdict # Nothing /\ x.task.verdict = Nothing))
    BY Zenon DEF RebindCreates, Becomes, TurnsInto
  <1>4. task.rebind \in Entry
    BY <1>1, <1>2 DEF Task
  <1>5. w = [World EXCEPT !.task = T]
    BY <1>2
  <1>6. /\ T \in Task /\ T.st = task.st /\ T.item = task.item /\ T.pending = task.pending
        /\ T.verdict = task.verdict /\ T.startup = task.startup /\ T.auto = task.auto
        /\ T.original = task.original /\ T.fallback = task.fallback /\ T.restored = task.restored
    BY <1>2 DEF Task
  <1> HIDE DEF T, w
  <1>7. w \in Worlds /\ w.task = T /\ w.disk = disk
    BY <1>2, <1>5, <1>6, WithTask
  <1>8. Sound(w) /\ Alive(w)
    BY <1>2, <1>6, <1>7, RetimedIsGood
  <1>9. y = [w EXCEPT !.task = U]
    BY <1>7
  <1>10. /\ U \in Task /\ U.st = task.st /\ U.item = task.item /\ U.pending = Nothing
         /\ U.verdict = task.verdict /\ U.startup = task.startup /\ U.auto = task.auto
         /\ U.original = task.original /\ U.fallback = task.fallback /\ U.restored = task.restored
    BY <1>6 DEF Task
  <1> HIDE DEF U, y
  <1>11. y \in Worlds /\ y.task = U /\ y.disk = disk
    BY <1>7, <1>9, <1>10, WithTask
  <1>12. Sound(y) /\ Alive(y)
    BY <1>2, <1>10, <1>11, NothingAssumption DEF Sound, Alive, NothingAssumption
  <1>13. ASSUME x \in RebindRolledBack(w, task.rebind)
         PROVE  Good(x)
    BY <1>4, <1>8, <1>13, RebindRolledBackIsGood
  <1>14. ASSUME task.item = Nothing, x \in Restarted(y, FALSE)
         PROVE  Good(x)
    BY <1>10, <1>11, <1>12, <1>14, RestartedIsGood
  <1>15. Good(x)
    BY <1>3, <1>8, <1>13, <1>14 DEF Good
  <1>. QED
    BY <1>1, <1>2, <1>3, <1>15, RunningTurns

LEMMA CancelDownloadKeeps ==
    ASSUME DownloadInv, CancelDownload
    PROVE  DownloadInv'
  <1>1. PICK x \in SettledCancelled(World) :
            TurnsInto(x) /\ stale' = (stale \/ (task.verdict # Nothing /\ x.task.verdict = Nothing))
    BY Zenon DEF CancelDownload, Becomes, TurnsInto
  <1>2. Good(x) /\ stale \in BOOLEAN
    BY <1>1, Now, SettledCancelledIsGood
  <1>3. app = "running" /\ app' = "running"
    BY DEF CancelDownload
  <1>. QED
    BY <1>1, <1>2, <1>3, RunningTurns

(* The user stops or sets going the item: only the item and the timer of   *)
(* its stall change.                                                       *)
LEMMA ItemSetIsGood ==
    ASSUME DownloadInv, task.item # Nothing, NEW st \in {"running", "paused"}, NEW b \in BOOLEAN,
           NEW w, w = [World EXCEPT !.task.item.st = st, !.task.stall = b]
    PROVE  /\ Sound(w) /\ Alive(w) /\ w.task.auto = task.auto
  <1> DEFINE i == [task.item EXCEPT !.st = st]
             T == [task EXCEPT !.item = i, !.stall = b]
  <1>1. /\ World \in Worlds /\ World.task = task /\ World.disk = disk /\ Sound(World)
        /\ task \in Task /\ Alive(World)
    BY Now, Lives
  <1>2. w = [World EXCEPT !.task = T]
    BY <1>1
  <1>3. task.item \in Item
    BY <1>1 DEF Task
  <1>4. i \in Item
    BY <1>3 DEF Item
  <1>5. i # Nothing
    BY <1>4, NothingAssumption DEF NothingAssumption
  <1> HIDE DEF i
  <1>6. /\ T \in Task /\ T.st = task.st /\ T.item = i /\ T.pending = task.pending
        /\ T.verdict = task.verdict /\ T.startup = task.startup /\ T.auto = task.auto
        /\ T.original = task.original /\ T.fallback = task.fallback /\ T.restored = task.restored
    BY <1>1, <1>4 DEF Task
  <1> HIDE DEF T
  <1>7. w \in Worlds /\ w.task = T /\ w.disk = disk
    BY <1>1, <1>2, <1>6 DEF Worlds
  <1>8. Sound(w)
    BY <1>1, <1>5, <1>6, <1>7 DEF Sound
  <1>9. Alive(w)
    BY <1>1, <1>6, <1>7 DEF Alive
  <1>. QED
    BY <1>6, <1>7, <1>8, <1>9

LEMMA PauseKeeps ==
    ASSUME DownloadInv, Pause
    PROVE  DownloadInv'
  <1> DEFINE w == [World EXCEPT !.task.item.st = "paused", !.task.stall = FALSE]
  <1>1. /\ app = "running" /\ app' = "running" /\ task.item # Nothing
        /\ task.auto \in {Nothing, "exhausted"}
    BY DEF Pause
  <1>2. PICK x \in {r.w : r \in Throttled(w)} :
            TurnsInto(x) /\ stale' = (stale \/ (task.verdict # Nothing /\ x.task.verdict = Nothing))
    BY Zenon DEF Pause, Becomes, TurnsInto
  <1>3. /\ Sound(w) /\ Alive(w) /\ w.task.auto = task.auto
    <2> HIDE DEF w
    <2>. QED
      BY <1>1, ItemSetIsGood DEF w
  <1>4. stale \in BOOLEAN /\ w.task.auto \notin {"journalRebind", "heldRebind"}
    BY <1>1, <1>3, Now, NothingAssumption DEF NothingAssumption, Waits
  <1> HIDE DEF w
  <1>5. Good(x)
    BY <1>2, <1>3, <1>4, ThrottledIsGood DEF Good
  <1>. QED
    BY <1>1, <1>2, <1>4, <1>5, RunningTurns

LEMMA ResumeKeeps ==
    ASSUME DownloadInv, Resume
    PROVE  DownloadInv'
  <1> DEFINE w == [World EXCEPT !.task.item.st = "running", !.task.stall = TRUE]
  <1>1. /\ app = "running" /\ app' = "running" /\ stale \in BOOLEAN
        /\ Sound(World) /\ Alive(World)
    BY Now, Lives DEF Resume
  <1>2. CASE Becomes(Resumed(World))
    <2>1. PICK x \in Resumed(World) :
              TurnsInto(x) /\ stale' = (stale \/ (task.verdict # Nothing /\ x.task.verdict = Nothing))
      BY <1>2, Zenon DEF Becomes, TurnsInto
    <2>2. Good(x)
      BY <1>1, ResumedIsGood
    <2>. QED
      BY <1>1, <2>1, <2>2, RunningTurns
  <1>3. CASE /\ task.auto = Nothing /\ task.item # Nothing
             /\ Becomes({r.w : r \in Throttled(w)})
    <2>1. PICK x \in {r.w : r \in Throttled(w)} :
              TurnsInto(x) /\ stale' = (stale \/ (task.verdict # Nothing /\ x.task.verdict = Nothing))
      BY <1>3, Zenon DEF Becomes, TurnsInto
    <2> HIDE DEF w
    <2>2. Sound(w) /\ Alive(w) /\ w.task.auto = task.auto
      BY <1>3, ItemSetIsGood DEF w
    <2>3. w.task.auto \notin {"journalRebind", "heldRebind"}
      BY <1>3, <2>2, NothingAssumption DEF NothingAssumption, Waits
    <2>4. Good(x)
      BY <2>1, <2>2, <2>3, ThrottledIsGood DEF Good
    <2>. QED
      BY <1>1, <2>1, <2>4, RunningTurns
  <1>. QED
    BY <1>2, <1>3 DEF Resume

LEMMA ResumeRecoveryKeeps ==
    ASSUME DownloadInv, ResumeRecovery
    PROVE  DownloadInv'
  <1> DEFINE w == [World EXCEPT !.task.resumeOnBind = TRUE]
             b == task.auto = Nothing
             v == [World EXCEPT !.task.item.st = "running", !.task.stall = b]
             y == [World EXCEPT !.task.item.st = "running", !.task.awaiting = FALSE,
                                !.task.resumeOnBind = FALSE, !.task.stall = b]
  <1>1. app = "running" /\ app' = "running" /\ task.awaiting
    BY DEF ResumeRecovery
  <1>2. /\ World \in Worlds /\ World.task = task /\ World.disk = disk /\ Sound(World)
        /\ task \in Task /\ stale \in BOOLEAN
    BY Now
  <1>3. Alive(World)
    <2>1. task.awaiting = TRUE
      BY <1>1, <1>2 DEF Task
    <2>. QED
      BY <2>1, Lives
  <1>4. CASE Becomes({w})
    <2> DEFINE T == [task EXCEPT !.resumeOnBind = TRUE]
    <2>1. /\ T \in Task /\ T.st = task.st /\ T.item = task.item /\ T.pending = task.pending
          /\ T.verdict = task.verdict /\ T.startup = task.startup /\ T.auto = task.auto
          /\ T.original = task.original /\ T.fallback = task.fallback /\ T.restored = task.restored
      BY <1>2 DEF Task
    <2>2. w = [World EXCEPT !.task = T]
      BY <1>2
    <2>3. TurnsInto(w) /\ stale' \in BOOLEAN
      BY <1>2, <1>4 DEF Becomes, TurnsInto
    <2> HIDE DEF T, w
    <2>4. w \in Worlds /\ w.task = T /\ w.disk = disk
      BY <1>2, <2>1, <2>2, WithTask
    <2>5. Sound(w) /\ Alive(w)
      BY <1>2, <1>3, <2>1, <2>4, RetimedIsGood
    <2>. QED
      BY <1>1, <2>3, <2>5, RunningTurns DEF Good
  <1>5. CASE task.item # Nothing /\ Becomes({y})
    <2> DEFINE T == [v.task EXCEPT !.awaiting = FALSE, !.resumeOnBind = FALSE]
    <2>1. TurnsInto(y) /\ stale' \in BOOLEAN
      BY <1>2, <1>5 DEF Becomes, TurnsInto
    <2>2. y = [v EXCEPT !.task = T]
      BY <1>2
    <2>3. b \in BOOLEAN
      OBVIOUS
    <2> HIDE DEF b, y
    <2>4. Sound(v) /\ Alive(v)
      <3> HIDE DEF v
      <3>. QED
        BY <1>5, <2>3, ItemSetIsGood DEF v
    <2> HIDE DEF v
    <2>5. v \in Worlds /\ v.task \in Task
      BY <2>4, FieldsOfWorld DEF Sound
    <2>6. /\ T \in Task /\ T.st = v.task.st /\ T.item = v.task.item /\ T.pending = v.task.pending
          /\ T.verdict = v.task.verdict /\ T.startup = v.task.startup /\ T.auto = v.task.auto
          /\ T.original = v.task.original /\ T.fallback = v.task.fallback /\ T.restored = v.task.restored
      <3>1. PICK u : u = [v.task EXCEPT !.awaiting = FALSE]
        OBVIOUS
      <3>2. /\ u \in Task /\ u.st = v.task.st /\ u.item = v.task.item
            /\ u.pending = v.task.pending /\ u.verdict = v.task.verdict
            /\ u.startup = v.task.startup /\ u.auto = v.task.auto
            /\ u.original = v.task.original /\ u.fallback = v.task.fallback
            /\ u.restored = v.task.restored
        BY <2>5, <3>1 DEF Task
      <3>3. T = [u EXCEPT !.resumeOnBind = FALSE]
        BY <3>1
      <3> HIDE DEF T
      <3>. QED
        BY <3>2, <3>3 DEF Task
    <2> HIDE DEF T
    <2>7. y \in Worlds /\ y.task = T /\ y.disk = v.disk
      BY <2>2, <2>5, <2>6, WithTask
    <2>8. Sound(y) /\ Alive(y)
      BY <2>4, <2>6, <2>7, RetimedIsGood
    <2>. QED
      BY <1>1, <2>1, <2>8, RunningTurns DEF Good
  <1>. QED
    BY <1>4, <1>5 DEF ResumeRecovery

(* A task that is given up with its files and its record.                  *)
LEMMA ForgottenIsGood ==
    ASSUME NEW x \in Worlds, x.disk.final \in {Nothing, Whole}
    PROVE  Good(Ended([x EXCEPT !.disk.partial = Nothing, !.disk.snapshot = Nothing,
                                !.disk.journal = Nothing, !.owed = FALSE], "none"))
  <1> DEFINE D == [x.disk EXCEPT !.partial = Nothing, !.snapshot = Nothing, !.journal = Nothing]
             y == [x EXCEPT !.disk.partial = Nothing, !.disk.snapshot = Nothing,
                            !.disk.journal = Nothing, !.owed = FALSE]
  <1>1. D \in Disk /\ D.final = x.disk.final
    BY FieldsOfWorld DEF Disk
  <1>2. y = [x EXCEPT !.disk = D, !.owed = FALSE]
    OBVIOUS
  <1> HIDE DEF D, y
  <1>3. y \in Worlds /\ y.disk = D
    BY <1>1, <1>2 DEF Worlds
  <1>4. Good(Ended(y, "none"))
    BY <1>1, <1>3, EndedIsGood
  <1>. QED
    BY <1>4 DEF y

LEMMA DiscardRecoveryKeeps ==
    ASSUME DownloadInv, DiscardRecovery
    PROVE  DownloadInv'
  <1> DEFINE E(x) == Ended([x EXCEPT !.disk.partial = Nothing, !.disk.snapshot = Nothing,
                                     !.disk.journal = Nothing, !.owed = FALSE], "none")
  <1>1. PICK y \in {E(x) : x \in Cancelled(World)} :
            TurnsInto(y) /\ stale' = (stale \/ (task.verdict # Nothing /\ y.task.verdict = Nothing))
    BY Zenon DEF DiscardRecovery, Becomes, TurnsInto
  <1> HIDE DEF E
  <1>2. PICK x \in Cancelled(World) : y = E(x)
    BY <1>1
  <1>3. Sound(x)
    BY <1>2, Now, CancelledIsSound
  <1>4. Good(E(x))
    BY <1>3, ForgottenIsGood DEF Sound, E
  <1>5. app = "running" /\ app' = "running" /\ stale \in BOOLEAN
    BY Now DEF DiscardRecovery
  <1>. QED
    BY <1>1, <1>2, <1>4, <1>5, RunningTurns

LEMMA DeleteHistoryKeeps ==
    ASSUME DownloadInv, DeleteHistory
    PROVE  DownloadInv'
  <1> DEFINE y == Ended([World EXCEPT !.disk.partial = Nothing, !.disk.snapshot = Nothing,
                                      !.disk.journal = Nothing, !.owed = FALSE], "none")
  <1>1. TurnsInto(y) /\ stale' = (stale \/ (task.verdict # Nothing /\ y.task.verdict = Nothing))
    BY Zenon DEF DeleteHistory, Becomes, TurnsInto
  <1>2. Good(y)
    BY Now, ForgottenIsGood DEF Sound
  <1> HIDE DEF y
  <1>3. app = "running" /\ app' = "running" /\ stale \in BOOLEAN
    BY Now DEF DeleteHistory
  <1>. QED
    BY <1>1, <1>2, <1>3, RunningTurns

LEMMA DisposeKeeps ==
    ASSUME DownloadInv, Dispose
    PROVE  DownloadInv'
  <1> DEFINE saved == UNION {IF s.thrown THEN {[w |-> s.w, thrown |-> TRUE]} ELSE Persists(s.w, s.bytes) :
                                s \in Snapshots(World, task.fallback # Nothing)}
  <1>1. /\ World \in Worlds /\ World.task = task /\ World.disk = disk /\ Sound(World)
        /\ Good(World) /\ stale \in BOOLEAN
    BY Now
  <1>2. app = "running"
    BY DEF Dispose
  <1> HIDE DEF saved
  <1>3. PICK r \in IF task.st # "live" THEN {[w |-> World, thrown |-> FALSE]} ELSE saved :
            IF r.thrown THEN Becomes({r.w}) /\ app' = app
            ELSE /\ app' = "disposed"
                 /\ Becomes(IF task.st # "live" THEN {r.w}
                            ELSE {Ended(x, "none") : x \in Cancelled(r.w)})
    BY Zenon DEF Dispose, saved
  <1>4. CASE task.st # "live"
    <2>1. r.w = World /\ r.thrown = FALSE
      BY <1>3, <1>4
    <2>2. app' = "disposed" /\ TurnsInto(World) /\ stale' \in BOOLEAN
      BY <1>1, <1>3, <1>4, <2>1 DEF Becomes, TurnsInto
    <2>3. World' = World
      BY <1>1, <2>2, Turning
    <2>4. Finished(World)
      BY <1>1, <1>4 DEF Good, Alive
    <2>. QED
      BY <1>1, <2>2, <2>3, <2>4 DEF DownloadInv
  <1>5. CASE task.st = "live"
    <2>1. Alive(World) /\ disk.journal # Nothing
      BY <1>5, Lives
    <2>2. PICK s \in Snapshots(World, task.fallback # Nothing) :
              r \in IF s.thrown THEN {[w |-> s.w, thrown |-> TRUE]} ELSE Persists(s.w, s.bytes)
      BY <1>3, <1>5 DEF saved
    <2>3. (task.fallback # Nothing) \in BOOLEAN
      OBVIOUS
    <2>4. /\ s.w \in Worlds /\ s.w.task = task /\ s.w.disk.partial = disk.partial
          /\ s.w.disk.final = disk.final /\ s.w.disk.journal = disk.journal
          /\ s.bytes \in Bytes \cup {Nothing} /\ s.thrown \in BOOLEAN
      BY <1>1, <2>3, SnapshotsKeep
    <2>5. Sound(s.w) /\ Alive(s.w)
      BY <1>1, <2>1, <2>4, SameTaskIsSound
    <2>6. /\ r.w \in Worlds /\ r.thrown \in BOOLEAN
          /\ r.thrown => r.w.task = task
          /\ r.w.disk.partial = disk.partial /\ r.w.disk.final = disk.final
          /\ r.w.disk.journal # Nothing
          /\ r.w.task \in {task, [task EXCEPT !.fallback = Nothing]}
      <3>1. CASE s.thrown
        <4>1. r.w = s.w /\ r.thrown = TRUE
          BY <2>2, <3>1
        <4>. QED
          BY <2>1, <2>4, <4>1
      <3>2. CASE ~s.thrown
        BY <2>1, <2>2, <2>4, <3>2, PersistsKeep
      <3>. QED
        BY <3>1, <3>2
    <2>7. CASE r.thrown
      <3>1. Sound(r.w) /\ Alive(r.w)
        BY <1>1, <2>1, <2>6, <2>7, SameTaskIsSound
      <3>2. TurnsInto(r.w) /\ stale' \in BOOLEAN /\ app' = "running"
        BY <1>1, <1>2, <1>3, <2>7 DEF Becomes, TurnsInto
      <3>. QED
        BY <1>2, <3>1, <3>2, RunningTurns DEF Good
    <2>8. CASE ~r.thrown
      <3>1. PICK y \in {Ended(x, "none") : x \in Cancelled(r.w)} :
                TurnsInto(y) /\ stale' = (stale \/ (task.verdict # Nothing /\ y.task.verdict = Nothing))
        BY <1>3, <1>5, <2>8 DEF Becomes, TurnsInto
      <3>2. PICK x \in Cancelled(r.w) : y = Ended(x, "none")
        BY <3>1
      <3>3. /\ x \in Worlds
            /\ x.disk \in {r.w.disk, [r.w.disk EXCEPT !.partial = Nothing]}
        BY <2>6, <3>2, CancelledKeeps
      <3>4. x.disk.final = disk.final
        BY <2>6, <3>3, FieldsOfWorld DEF Disk
      <3>5. disk.final \in {Nothing, Whole}
        BY <1>1 DEF Sound
      <3>6. Good(y) /\ Finished(y)
        BY <3>2, <3>3, <3>4, <3>5, EndedIsGood
      <3>7. World' = y
        BY <3>1, <3>6, Turning DEF Good, Sound
      <3>8. app' = "disposed" /\ stale' \in BOOLEAN
        BY <1>1, <1>3, <2>8, <3>1
      <3>. QED
        BY <3>6, <3>7, <3>8 DEF DownloadInv
    <2>. QED
      BY <2>6, <2>7, <2>8
  <1>. QED
    BY <1>4, <1>5

LEMMA EndKeeps ==
    ASSUME DownloadInv, End
    PROVE  DownloadInv'
  <1>1. /\ World \in Worlds /\ World.task = task /\ World.disk = disk /\ Sound(World)
        /\ task \in Task /\ disk \in Disk /\ World.faults = faults /\ World.owed = owed
    BY Now
  <1>2. app' = "ended" /\ task' = NoTask /\ stale' = FALSE /\ faults' = faults
        /\ disk' \in TornDisks /\ requests' = [k \in Kinds |-> 0]
        /\ owed' = (owed /\ (task.verdict = TRUE => disk'.partial # Nothing))
    BY DEF End
  <1>3. disk' \in Disk /\ disk'.final \in {Nothing, Whole}
    <2> DEFINE removed == [disk EXCEPT !.partial = Nothing]
               moved == [disk EXCEPT !.final = disk.partial, !.partial = Nothing]
    <2>1. \/ disk' = disk
          \/ disk' = removed
          \/ disk' = moved /\ task.verdict = TRUE
      <3> HIDE DEF removed, moved
      <3>. QED
        BY <1>2 DEF TornDisks, removed, moved
    <2>2. disk.final \in {Nothing, Whole} /\ (task.verdict = TRUE => disk.partial = Whole)
      BY <1>1 DEF Sound
    <2>3. removed \in Disk /\ removed.final = disk.final
      BY <1>1 DEF Disk
    <2>4. moved \in Disk /\ moved.final = disk.partial
      BY <1>1 DEF Disk
    <2>. QED
      BY <1>1, <2>1, <2>2, <2>3, <2>4
  <1>4. owed' \in BOOLEAN
    BY <1>1, <1>2 DEF Worlds
  <1>5. NoTask \in Task
    <2>1. 0 \in 0 .. MaxAttempts
      BY DownloadAssumption DEF DownloadAssumption
    <2>. QED
      BY <2>1 DEF NoTask, Task
  <1>6. faults' \in 0 .. MaxFaults /\ requests' \in [Kinds -> Nat]
    BY <1>1, <1>2 DEF Worlds
  <1>7. World' = [task |-> NoTask, disk |-> disk', faults |-> faults', asked |-> requests',
                  owed |-> owed']
    BY <1>2 DEF World
  <1>8. /\ World'.task = NoTask /\ World'.disk = disk' /\ World' \in Worlds
    BY <1>3, <1>4, <1>5, <1>6, <1>7 DEF Worlds
  <1>9. Sound(World') /\ Finished(World')
    BY <1>3, <1>8, NoTaskIsOver
  <1>. QED
    BY <1>2, <1>9 DEF DownloadInv, Good, Sound, Finished

LEMMA RestartKeeps ==
    ASSUME DownloadInv, Restart
    PROVE  DownloadInv'
  <1>1. app = "ended" /\ app' = "running" /\ Finished(World)
    BY DEF Restart, DownloadInv
  <1>2. /\ World \in Worlds /\ World.task = task /\ World.disk = disk /\ Sound(World)
        /\ Good(World) /\ stale \in BOOLEAN
    BY Now
  <1>3. PICK x \in IF disk.journal = Nothing THEN {World}
                   ELSE UNION {Recovered(p) : p \in PromotedAtStart(World)} :
            TurnsInto(x) /\ stale' = (stale \/ (task.verdict # Nothing /\ x.task.verdict = Nothing))
    BY Zenon DEF Restart, Becomes, TurnsInto
  <1>4. Good(x)
    <2>1. CASE disk.journal = Nothing
      BY <1>2, <1>3, <2>1
    <2>2. CASE disk.journal # Nothing
      <3>1. PICK p \in PromotedAtStart(World) : x \in Recovered(p)
        BY <1>3, <2>2
      <3>2. /\ p.w \in Worlds /\ p.w.task = task
            /\ p.w.disk.final = disk.final /\ p.w.disk.journal = disk.journal
        BY <1>2, <3>1, PromotedAtStartKeeps
      <3>3. Finished(p.w) /\ task.verdict = Nothing /\ task.item = Nothing
        BY <1>1, <1>2, <3>2 DEF Finished, NoTask
      <3>4. Sound(p.w)
        BY <1>2, <3>2, <3>3, NothingAssumption DEF Sound, NothingAssumption
      <3>. QED
        BY <2>2, <3>1, <3>2, <3>3, <3>4, RecoveredIsGood
    <2>. QED
      BY <2>1, <2>2
  <1>5. World' = x
    BY <1>3, <1>4, Turning DEF Good, Sound
  <1>. QED
    BY <1>1, <1>2, <1>3, <1>4, <1>5 DEF DownloadInv

LEMMA DownloadInitially == DownloadInit => DownloadInv
  <1> SUFFICES ASSUME DownloadInit PROVE DownloadInv
    OBVIOUS
  <1>1. NoTask \in Task
    <2>1. 0 \in 0 .. MaxAttempts
      BY DownloadAssumption DEF DownloadAssumption
    <2>. QED
      BY <2>1 DEF NoTask, Task
  <1>2. disk \in Disk /\ disk.final = Nothing
    BY DEF DownloadInit, Disk
  <1>3. World \in Worlds /\ World.task = NoTask /\ World.disk = disk
    <2>1. faults \in 0 .. MaxFaults /\ requests \in [Kinds -> Nat] /\ owed \in BOOLEAN
      <3>1. 0 \in 0 .. MaxFaults
        BY DownloadAssumption DEF DownloadAssumption
      <3>. QED
        BY <3>1 DEF DownloadInit
    <2>. QED
      BY <1>1, <1>2, <2>1 DEF DownloadInit, World, Worlds
  <1>4. Sound(World) /\ Finished(World)
    BY <1>2, <1>3, NoTaskIsOver
  <1>. QED
    BY <1>4 DEF DownloadInit, DownloadInv, Good

LEMMA DownloadStep == DownloadInv /\ [DownloadNext]_downloadVars => DownloadInv'
  <1> SUFFICES ASSUME DownloadInv, [DownloadNext]_downloadVars PROVE DownloadInv'
    OBVIOUS
  <1>1. CASE UNCHANGED downloadVars
    BY <1>1 DEF downloadVars, DownloadInv, World
  <1>2. CASE User
    BY <1>2, StartKeeps, CancelDownloadKeeps, PauseKeeps, ResumeKeeps, ResumeRecoveryKeeps,
       DiscardRecoveryKeeps, DeleteHistoryKeeps DEF User
  <1>3. CASE Electron
    BY <1>3, ItemArrivesKeeps, ProgressKeeps, ServerRestartsKeeps, InterruptedKeeps,
       CompletedKeeps, StartupCreatesKeeps, RebindCreatesKeeps DEF Electron
  <1>4. CASE Engine
    BY <1>4, AutoFiresKeeps, StallFiresKeeps, VerifyEndsKeeps, StaleVerifyEndsKeeps DEF Engine
  <1>5. CASE Quit
    BY <1>5, DisposeKeeps, EndKeeps, RestartKeeps DEF Quit
  <1>. QED
    BY <1>1, <1>2, <1>3, <1>4, <1>5 DEF DownloadNext

(* Every execution keeps the types of the engine's state: a verdict is a    *)
(* verdict, a record a record, and no counter passes its bound.             *)
THEOREM DownloadTypeCorrect == DownloadSpec => []DownloadTypeOK
  <1>1. DownloadInv => DownloadTypeOK
    <2> SUFFICES ASSUME DownloadInv PROVE DownloadTypeOK
      OBVIOUS
    <2>1. World \in Worlds /\ World.task = task /\ World.disk = disk /\ World.faults = faults
          /\ World.asked = requests /\ World.owed = owed
      BY Now
    <2>. QED
      BY <2>1, FieldsOfWorld DEF DownloadInv, DownloadTypeOK
  <1>. QED
    BY <1>1, DownloadInitially, DownloadStep, PTL DEF DownloadSpec

(* What lies under the final path is a file that was verified whole,        *)
(* whichever calls fail, items come late, servers begin again and ends of   *)
(* the application tear a publication.                                      *)
THEOREM FinalIsVerified == DownloadSpec => []FinalIsWanted
  <1>1. DownloadInv => FinalIsWanted
    BY Now DEF Sound, FinalIsWanted, Whole
  <1>. QED
    BY <1>1, DownloadInitially, DownloadStep, PTL DEF DownloadSpec

(* A live download always has its journal record, so that an end of the     *)
(* application at any moment leaves something to offer; and a task that is  *)
(* over has no item, no timer and no claim on items that still come.        *)
Recorded == task.st = "live" => disk.journal # Nothing
NothingLeft ==
    task.st # "live" =>
        /\ task.item = Nothing /\ task.auto = Nothing /\ task.stall = FALSE
        /\ task.pending = Nothing /\ task.rebind = Nothing

(* So it is in every state of a download.                                  *)
THEOREM LiveIsRecorded == DownloadSpec => [](Recorded /\ NothingLeft)
  <1>1. DownloadInv => Recorded /\ NothingLeft
    <2> SUFFICES ASSUME DownloadInv PROVE Recorded /\ NothingLeft
      OBVIOUS
    <2>1. Good(World) /\ World.task = task /\ World.disk = disk
      BY Now
    <2>. QED
      BY <2>1 DEF Good, Alive, Finished, NoTask, Recorded, NothingLeft
  <1>. QED
    BY <1>1, DownloadInitially, DownloadStep, PTL DEF DownloadSpec

-----------------------------------------------------------------------------

(* ------ The recorded bytes of a download, with at most one failing call ------ *)

(* The one call that may fail has failed. *)
OneFault == MaxFaults \in {0, 1}
Spent(w) == w.faults = MaxFaults

(* A file holds the first n bytes; no file is needed for none. *)
Covers(file, n) == n = 0 \/ Backs(file, n)

(* They are in the copy, or in the staging file while there is no copy. *)
Preserved(d, n) ==
    \/ Covers(d.snapshot, n)
    \/ d.snapshot = Nothing /\ Covers(d.partial, n)

(* They are in the staging file, or in the copy while there is no staging file. *)
AtHand(d, n) ==
    \/ Covers(d.partial, n)
    \/ d.partial = Nothing /\ Covers(d.snapshot, n)

(* The record the task goes by: the one that was set aside, if there is one. *)
Authority(t, d) == IF t.fallback # Nothing THEN t.fallback ELSE d.journal

(* What is to be shown: the bytes of the journal's record are on the disk. *)
Backed(d) == d.journal # Nothing =>
    Covers(d.partial, d.journal.n) \/ Covers(d.snapshot, d.journal.n)

(* An item claims no byte that is not in the staging file. *)
Behind(t, d) == t.item # Nothing => Covers(d.partial, t.item.n)

(* The authority's bytes are where the next copy, or relaunch, looks for them. *)
Guarded(t, d) ==
    IF t.fallback # Nothing THEN Preserved(d, t.fallback.n) ELSE AtHand(d, d.journal.n)

(* A record that was set aside is still the one in the journal, until a failed *)
(* rollback has left the journal with the newer one.                           *)
Fallbacks(t, d, f) ==
    t.fallback # Nothing =>
        \/ t.fallback = d.journal
        \/ t.auto = "journalRebind" /\ t.item # Nothing /\ f = MaxFaults

(* The record of the start, to which a failed creation goes back, claims no more *)
(* than those that may have been written since.                                  *)
Originals(t, d) ==
    t.startup # {} =>
        /\ t.original.n <= d.journal.n
        /\ t.original.n <= Authority(t, d).n
        /\ t.rebind # Nothing => t.original.n <= t.rebind.n

(* Without a copy there is nothing to go back to, unless the failing call was *)
(* that of the copy and the item is held because of it.                       *)
Uncopied(t, d, f) ==
    t.item # Nothing /\ d.snapshot = Nothing =>
        /\ t.fallback # Nothing => t.fallback.n = 0 \/ (t.auto = "heldRebind" /\ f = MaxFaults)
        /\ t.startup # {} => t.original.n = 0 \/ (t.auto \in Held /\ f = MaxFaults)
        /\ t.rebind # Nothing =>
               t.rebind.n = 0 \/ (t.auto \in Held /\ f = MaxFaults /\ t.rebind = d.journal)

(* The record of an unsettled creation: the journal's until the item comes, and *)
(* then no longer than the copy that was made for it.                           *)
Creating(t, d, f) ==
    t.rebind # Nothing =>
        /\ t.auto # "journalRebind"
        /\ t.item = Nothing => t.rebind = d.journal /\ t.restored
        /\ t.item # Nothing => t.rebind.n <= Authority(t, d).n
        /\ t.item # Nothing /\ d.snapshot # Nothing => d.snapshot.n >= t.rebind.n \/ f = MaxFaults

(* A request for the rest of a file says so, and one for a whole file is made *)
(* with nothing recorded or the record set aside.                             *)
Waiting(t, d) ==
    t.pending # Nothing =>
        /\ t.restored <=> t.pending = "restore"
        /\ t.fallback = Nothing /\ ~t.restored => d.journal.n = 0

(* Before the copy takes the place of the staging file it holds the record's bytes. *)
Leaving(t, d) == t.auto = "relaunch" => Covers(d.snapshot, d.journal.n)

(* An item that writes on has reached what is recorded. *)
Moving(t, d) ==
    t.item # Nothing /\ t.fallback = Nothing /\ t.auto \notin Held => d.journal.n <= t.item.n

Intact(t, d, f) ==
    /\ Backed(d) /\ Guarded(t, d) /\ Fallbacks(t, d, f) /\ Originals(t, d)
    /\ Uncopied(t, d, f) /\ Creating(t, d, f) /\ Waiting(t, d) /\ Leaving(t, d)
    /\ Moving(t, d)

Kept(w) ==
    OneFault =>
        /\ w.owed => Backed(w.disk)
        /\ w.task.st = "live" => Behind(w.task, w.disk)
        /\ w.task.st = "live" /\ w.owed => Intact(w.task, w.disk, w.faults)

(* While the item of the creation at the start has not come, or is held. *)
Starting(t) ==
    "bind" \in t.startup =>
        /\ t.rebind = Nothing
        /\ IF t.item # Nothing THEN t.auto \in {"heldStartup", "journalStartup"}
           ELSE /\ t.awaiting /\ t.restored /\ t.fallback = Nothing
                /\ t.auto \in {Nothing, "journalStartup"}

Begun(w) == OneFault /\ w.owed /\ w.task.st = "live" => Starting(w.task)

LEMMA FaultyIsLast ==
    ASSUME NEW w \in Worlds, NEW x \in Faulty(w), OneFault
    PROVE  ~Spent(w) /\ Spent(x)
  <1>1. w.faults \in 0 .. MaxFaults /\ w.faults < MaxFaults /\ x.faults = w.faults + 1
    BY FieldsOfWorld DEF Faulty, Worlds
  <1>. QED
    BY <1>1 DEF Spent, OneFault

(* How a copy is made, relied on or missed. *)
Relied(w, p, s) ==
    /\ w.disk.partial = Nothing \/ (p /\ w.disk.snapshot # Nothing)
    /\ s.w.disk = w.disk /\ s.w.faults = w.faults /\ ~s.thrown
    /\ s.bytes = Size(w.disk.snapshot)
    /\ s.w.owed => w.owed /\ ~Short(w.disk)

Made(w, p, s) ==
    /\ w.disk.partial # Nothing /\ ~(p /\ w.disk.snapshot # Nothing)
    /\ s.w.disk = [w.disk EXCEPT !.snapshot = w.disk.partial]
    /\ s.w.faults = w.faults /\ ~s.thrown /\ s.bytes = w.disk.partial.n
    /\ s.w.owed = w.owed

Missed(w, p, s) ==
    /\ w.disk.partial # Nothing /\ ~(p /\ w.disk.snapshot # Nothing)
    /\ s.w.disk = w.disk /\ (s.thrown <=> w.disk.snapshot = Nothing)
    /\ s.bytes = Size(w.disk.snapshot)
    /\ s.w.owed => w.owed /\ ~Short(w.disk)
    /\ OneFault => ~Spent(w) /\ Spent(s.w)

LEMMA SnapshotsCases ==
    ASSUME NEW w \in Worlds, NEW p \in BOOLEAN, NEW s \in Snapshots(w, p)
    PROVE  /\ s.w \in Worlds /\ s.w.task = w.task
           /\ Relied(w, p, s) \/ Made(w, p, s) \/ Missed(w, p, s)
  <1>1. s.w \in Worlds /\ s.w.task = w.task
    BY SnapshotsKeep
  <1> DEFINE relied(x) == Copied([x EXCEPT !.owed = @ /\ ~Short(x.disk)], Size(w.disk.snapshot))
  <1>2. ASSUME NEW x \in Worlds
        PROVE  /\ relied(x).w.disk = x.disk /\ relied(x).w.faults = x.faults
               /\ relied(x).w.owed = (x.owed /\ ~Short(x.disk))
               /\ relied(x).bytes = Size(w.disk.snapshot) /\ relied(x).thrown = FALSE
    BY DEF Copied, Worlds
  <1>3. CASE s = relied(w) /\ ((p /\ w.disk.snapshot # Nothing) \/ w.disk.partial = Nothing)
    BY <1>1, <1>2, <1>3 DEF Relied
  <1>4. CASE /\ s = Copied([w EXCEPT !.disk.snapshot = w.disk.partial], w.disk.partial.n)
             /\ ~((p /\ w.disk.snapshot # Nothing) \/ w.disk.partial = Nothing)
    <2>1. /\ s.w.disk = [w.disk EXCEPT !.snapshot = w.disk.partial]
          /\ s.w.faults = w.faults /\ s.w.owed = w.owed
          /\ s.bytes = w.disk.partial.n /\ s.thrown = FALSE
      BY <1>4 DEF Copied, Worlds
    <2>. QED
      BY <1>1, <1>4, <2>1 DEF Made
  <1>5. ASSUME NEW x \in Faulty(w), s = [relied(x) EXCEPT !.thrown = (w.disk.snapshot = Nothing)],
               ~((p /\ w.disk.snapshot # Nothing) \/ w.disk.partial = Nothing)
        PROVE  Missed(w, p, s)
    <2>1. x \in Worlds /\ x.disk = w.disk /\ x.owed = w.owed
      BY FaultyKeeps
    <2>2. OneFault => ~Spent(w) /\ Spent(x)
      BY FaultyIsLast
    <2>3. /\ s.w = relied(x).w /\ s.bytes = relied(x).bytes
          /\ s.thrown = (w.disk.snapshot = Nothing)
      BY <1>5 DEF Copied
    <2>. HIDE DEF relied
    <2>. QED
      BY <1>2, <1>5, <2>1, <2>2, <2>3 DEF Missed, Spent
  <1>6. \/ s = relied(w) /\ ((p /\ w.disk.snapshot # Nothing) \/ w.disk.partial = Nothing)
        \/ /\ s = Copied([w EXCEPT !.disk.snapshot = w.disk.partial], w.disk.partial.n)
           /\ ~((p /\ w.disk.snapshot # Nothing) \/ w.disk.partial = Nothing)
        \/ \E x \in Faulty(w) :
              /\ s = [relied(x) EXCEPT !.thrown = (w.disk.snapshot = Nothing)]
              /\ ~((p /\ w.disk.snapshot # Nothing) \/ w.disk.partial = Nothing)
    BY Zenon DEF Snapshots
  <1>. QED
    BY <1>1, <1>3, <1>4, <1>5, <1>6

(* the disk of a world *)
LEMMA DiskTypes ==
    ASSUME NEW w \in Worlds
    PROVE  /\ w.disk.partial \in Content \cup {Nothing} /\ w.disk.snapshot \in Content \cup {Nothing}
           /\ w.disk.journal \in Entry \cup {Nothing} /\ w.task.item \in Item \cup {Nothing}
           /\ w.task.fallback \in Entry \cup {Nothing} /\ w.task.original \in Entry \cup {Nothing}
           /\ w.task.rebind \in Entry \cup {Nothing}
           /\ w.task.startup \in SUBSET {"create", "failed", "bind"}
  <1>1. w.task \in Task /\ w.disk \in Disk
    BY FieldsOfWorld
  <1>. QED
    BY <1>1 DEF Task, Disk

LEMMA Lengths ==
    ASSUME NEW w \in Worlds
    PROVE  /\ w.disk.partial # Nothing => w.disk.partial.n \in Nat
           /\ w.disk.snapshot # Nothing => w.disk.snapshot.n \in Nat
           /\ w.disk.journal # Nothing => w.disk.journal.n \in Nat
           /\ w.task.item # Nothing => w.task.item.n \in Nat
           /\ w.task.fallback # Nothing => w.task.fallback.n \in Nat
           /\ w.task.original # Nothing => w.task.original.n \in Nat
           /\ w.task.rebind # Nothing => w.task.rebind.n \in Nat
  <1>1. Bytes \subseteq Nat
    BY DownloadAssumption DEF Bytes, DownloadAssumption
  <1>2. /\ \A c \in Content : c.n \in Nat
        /\ \A c \in Entry : c.n \in Nat
        /\ \A c \in Item : c.n \in Nat
    BY <1>1 DEF Content, Entry, Item
  <1>. QED
    BY <1>2, DiskTypes

(* A copy of the staging file takes nothing away. *)
LEMMA SnapshotsKeepFor ==
    ASSUME NEW w \in Worlds, NEW v \in Worlds, Kept(v), Alive(v), OneFault, NEW p \in BOOLEAN,
           v.disk = w.disk, v.owed = w.owed, v.faults = w.faults,
           v.task.fallback # Nothing => p, NEW s \in Snapshots(w, p),
           NEW u, u.task = v.task, u.disk = s.w.disk, u.owed = s.w.owed, u.faults = s.w.faults
    PROVE  /\ s.w \in Worlds /\ s.w.task = w.task
           /\ s.w.disk.partial = w.disk.partial /\ s.w.disk.journal = w.disk.journal
           /\ Kept(u)
           /\ s.w.owed => w.owed
           /\ Spent(w) => Spent(s.w) /\ ~s.thrown
           /\ s.thrown => Spent(s.w) /\ s.w.disk = w.disk /\ s.w.disk.snapshot = Nothing
           /\ s.w.owed /\ ~s.thrown => Covers(s.w.disk.snapshot, Authority(v.task, w.disk).n)
           /\ ~s.thrown => s.bytes = Size(s.w.disk.snapshot)
  <1>1. /\ s.w \in Worlds /\ s.w.task = w.task
        /\ Relied(w, p, s) \/ Made(w, p, s) \/ Missed(w, p, s)
    BY SnapshotsCases
  <1>2. w.disk \in Disk /\ w.disk.journal # Nothing
    BY FieldsOfWorld DEF Alive
  <1>3. s.w.disk.partial = w.disk.partial /\ s.w.disk.journal = w.disk.journal
    BY <1>1, <1>2 DEF Relied, Made, Missed, Disk
  <1> DEFINE t == v.task
             d == w.disk
             e == s.w.disk
  <1>4. /\ d.partial # Nothing => d.partial.n \in Nat
        /\ d.snapshot # Nothing => d.snapshot.n \in Nat
        /\ d.journal.n \in Nat
        /\ t.item # Nothing => t.item.n \in Nat
        /\ t.fallback # Nothing => t.fallback.n \in Nat
        /\ t.rebind # Nothing => t.rebind.n \in Nat
    BY <1>2, Lengths
  <1>5. /\ d.journal # Nothing /\ e.partial = d.partial /\ e.journal = d.journal
        /\ Behind(t, d)
        /\ w.owed => Intact(t, d, w.faults)
    BY <1>2, <1>3 DEF Kept, Alive
  <1>6. ASSUME s.w.owed => w.owed, e.partial = d.partial, e.journal = d.journal,
               s.w.owed => Intact(t, e, s.w.faults)
        PROVE  Kept(u)
    <2>1. u.task = t /\ Behind(t, e)
      BY <1>1, <1>5, <1>6 DEF Behind
    <2>. QED
      BY <1>6, <2>1 DEF Kept, Intact
  <1>7. CASE Relied(w, p, s)
    <2>1. /\ e = d /\ s.w.faults = w.faults /\ ~s.thrown /\ s.bytes = Size(d.snapshot)
          /\ s.w.owed => w.owed /\ ~Short(d)
          /\ d.partial = Nothing \/ d.snapshot # Nothing
      BY <1>7 DEF Relied, Spent
    <2>2. Kept(u)
      BY <1>5, <1>6, <2>1
    <2>3. s.w.owed => Covers(d.snapshot, Authority(t, d).n)
      BY <1>4, <1>5, <2>1 DEF Intact, Guarded, Preserved, AtHand, Covers, Backs, Authority, Short
    <2>. QED
      BY <1>1, <1>3, <2>1, <2>2, <2>3 DEF Spent
  <1>8. CASE Missed(w, p, s)
    <2>1. /\ e = d /\ ~Spent(w) /\ Spent(s.w) /\ (s.thrown <=> d.snapshot = Nothing)
          /\ s.bytes = Size(d.snapshot)
          /\ s.w.owed => w.owed /\ ~Short(d)
          /\ ~(p /\ d.snapshot # Nothing)
      BY <1>8 DEF Missed
    <2>2. Intact(t, d, w.faults) => Intact(t, d, s.w.faults)
      BY <2>1 DEF Intact, Fallbacks, Uncopied, Creating, Spent
    <2>3. Kept(u)
      BY <1>5, <1>6, <2>1, <2>2
    <2>4. s.w.owed /\ ~s.thrown => Covers(d.snapshot, Authority(t, d).n)
      BY <1>4, <1>5, <2>1 DEF Intact, Guarded, Preserved, AtHand, Covers, Backs, Authority, Short
    <2>. QED
      BY <1>1, <1>3, <2>1, <2>3, <2>4
  <1>9. CASE Made(w, p, s)
    <2>1. /\ e = [d EXCEPT !.snapshot = d.partial] /\ s.w.faults = w.faults /\ ~s.thrown
          /\ s.bytes = d.partial.n /\ s.w.owed = w.owed /\ d.partial # Nothing
          /\ ~(p /\ d.snapshot # Nothing)
      BY <1>9 DEF Made, Spent
    <2>2. e.snapshot = d.partial
      BY <1>2, <2>1 DEF Disk
    <2>3. ASSUME w.owed
          PROVE  Covers(e.snapshot, Authority(t, d).n)
      BY <1>4, <1>5, <2>1, <2>2, <2>3
         DEF Intact, Guarded, Preserved, AtHand, Covers, Backs, Authority
    <2>4. ASSUME w.owed
          PROVE  Intact(t, e, s.w.faults)
      <3>1. Intact(t, d, w.faults) /\ s.w.faults = w.faults
        BY <1>5, <2>1, <2>4
      <3>2. Backed(e)
        BY <1>5, <2>1, <2>2, <3>1
           DEF Intact, Backed, Guarded, Fallbacks, Preserved, AtHand, Covers, Backs
      <3>7. Fallbacks(t, e, s.w.faults) /\ Originals(t, e)
        BY <1>5, <3>1 DEF Intact, Fallbacks, Originals, Authority
      <3>8. Waiting(t, e) /\ Moving(t, e)
        BY <1>5, <3>1 DEF Intact, Waiting, Moving
      <3>3. Guarded(t, e)
        BY <1>5, <2>2, <2>3, <2>4 DEF Guarded, Preserved, AtHand, Authority, Covers
      <3>4. Uncopied(t, e, s.w.faults)
        BY <2>1, <2>2 DEF Uncopied
      <3>5. Creating(t, e, s.w.faults)
        BY <1>4, <1>5, <2>1, <2>2, <2>3, <2>4, <3>1
           DEF Intact, Creating, Authority, Uncopied, Covers, Backs, Held
      <3>6. Leaving(t, e)
        BY <1>4, <1>5, <2>1, <2>2, <2>3, <2>4, <3>1
           DEF Intact, Leaving, Authority, Covers, Backs, Fallbacks
      <3>. QED
        BY <3>2, <3>3, <3>4, <3>5, <3>6, <3>7, <3>8 DEF Intact
    <2>5. Kept(u)
      BY <1>5, <1>6, <2>1, <2>4
    <2>. QED
      BY <1>1, <1>3, <2>1, <2>2, <2>3, <2>5 DEF Size, Spent
  <1>. QED
    BY <1>1, <1>7, <1>8, <1>9
LEMMA SnapshotsAreKept ==
    ASSUME NEW w \in Worlds, Kept(w), Alive(w), OneFault, NEW p \in BOOLEAN,
           w.task.fallback # Nothing => p, NEW s \in Snapshots(w, p)
    PROVE  /\ s.w \in Worlds /\ s.w.task = w.task
           /\ s.w.disk.partial = w.disk.partial /\ s.w.disk.journal = w.disk.journal
           /\ Kept(s.w)
           /\ s.w.owed => w.owed
           /\ Spent(w) => Spent(s.w) /\ ~s.thrown
           /\ s.thrown => Spent(s.w) /\ s.w.disk = w.disk /\ s.w.disk.snapshot = Nothing
           /\ s.w.owed /\ ~s.thrown => Covers(s.w.disk.snapshot, Authority(w.task, w.disk).n)
           /\ ~s.thrown => s.bytes = Size(s.w.disk.snapshot)
  <1>1. s.w.task = w.task
    BY SnapshotsCases
  <1>. QED
    BY <1>1, SnapshotsKeepFor

(* The record a rollback goes back to is the one that is written. *)
Settled(w) == w.owed /\ w.task.fallback # Nothing => w.task.fallback = w.disk.journal

(* An item is let go once its bytes lie in the copy. *)
LEMMA LettingGo ==
    ASSUME NEW w \in Worlds, Kept(w), Alive(w), OneFault,
           Settled(w),
           w.owed => Covers(w.disk.snapshot, Authority(w.task, w.disk).n),
           NEW x \in Cancelled(w)
    PROVE  /\ Kept(x) /\ Alive(x) /\ x \in Worlds
           /\ x.owed = w.owed /\ x.faults = w.faults
           /\ x.owed => Covers(x.disk.snapshot, x.disk.journal.n)
           /\ x.disk.snapshot = w.disk.snapshot /\ x.disk.journal = w.disk.journal
           /\ x.task = [w.task EXCEPT !.item = Nothing, !.verdict = Nothing, !.rebind = Nothing]
           /\ x.task.item = Nothing /\ x.task.rebind = Nothing
  <1>1. w.task \in Task /\ w.disk \in Disk
    BY FieldsOfWorld
  <1>2. /\ x \in Worlds /\ x.owed = w.owed /\ x.faults = w.faults
        /\ x.task = [w.task EXCEPT !.item = Nothing, !.verdict = Nothing, !.rebind = Nothing]
        /\ x.disk \in {w.disk, [w.disk EXCEPT !.partial = Nothing]}
    BY CancelledKeeps
  <1>3. /\ x.task.item = Nothing /\ x.task.st = w.task.st /\ x.task.rebind = Nothing
        /\ x.task.auto = w.task.auto /\ x.task.startup = w.task.startup
        /\ x.task.original = w.task.original /\ x.task.fallback = w.task.fallback
        /\ x.task.restored = w.task.restored /\ x.task.pending = w.task.pending
    BY <1>1, <1>2 DEF Task
  <1>4. x.disk.snapshot = w.disk.snapshot /\ x.disk.journal = w.disk.journal
    BY <1>1, <1>2 DEF Disk
  <1>5. Alive(x)
    BY <1>3, <1>4 DEF Alive
  <1> DEFINE t == x.task
             d == x.disk
  <1>6. ASSUME w.owed
        PROVE  Intact(t, d, w.faults) /\ Covers(d.snapshot, d.journal.n)
    <2>1. Intact(w.task, w.disk, w.faults)
      BY <1>6 DEF Kept, Alive
    <2>2. Covers(d.snapshot, d.journal.n)
      BY <1>3, <1>4, <1>6 DEF Authority, Settled
    <2>3. Backed(d)
      BY <2>2 DEF Backed
    <2>4. Guarded(t, d)
      <3>1. d.partial = Nothing \/ d = w.disk
        BY <1>1, <1>2 DEF Disk
      <3>. QED
        BY <1>3, <1>4, <1>6, <2>1, <2>2, <3>1 DEF Intact, Guarded, Preserved, AtHand, Settled
    <2>5. Fallbacks(t, d, w.faults) /\ Originals(t, d) /\ Waiting(t, d)
      BY <1>3, <1>4, <1>6, <2>1 DEF Intact, Fallbacks, Originals, Waiting, Authority, Settled
    <2>6. Uncopied(t, d, w.faults) /\ Creating(t, d, w.faults) /\ Moving(t, d) /\ Leaving(t, d)
      BY <1>3, <2>2 DEF Uncopied, Creating, Moving, Leaving
    <2>. QED
      BY <2>2, <2>3, <2>4, <2>5, <2>6 DEF Intact
  <1>7. Behind(t, d)
    BY <1>3 DEF Behind
  <1>8. Kept(x)
    BY <1>2, <1>6, <1>7 DEF Kept, Intact
  <1>. QED
    BY <1>2, <1>3, <1>4, <1>5, <1>6, <1>8

LEMMA UpsertsCases ==
    ASSUME NEW w \in Worlds, NEW entry \in Entry \cup {Nothing}, NEW r \in Upserts(w, entry)
    PROVE  /\ r.w \in Worlds /\ r.w.task = w.task /\ r.w.owed = w.owed
           /\ r.w.disk.partial = w.disk.partial /\ r.w.disk.snapshot = w.disk.snapshot
           /\ ~r.thrown => r.w.disk.journal = entry /\ r.w.faults = w.faults
           /\ r.thrown => r.w.disk = w.disk
           /\ r.thrown /\ OneFault => ~Spent(w) /\ Spent(r.w)
  <1>1. r.w \in Worlds /\ r.w.task = w.task /\ r.thrown => r.w.disk = w.disk
    BY UpsertsKeep
  <1>2. CASE r = [w |-> [w EXCEPT !.disk.journal = entry], thrown |-> FALSE]
    <2>1. r.w.disk = [w.disk EXCEPT !.journal = entry] /\ r.w.owed = w.owed /\ r.w.faults = w.faults
      BY <1>2 DEF Worlds
    <2>. QED
      BY <1>2, <2>1, UpsertsKeep DEF Worlds, Disk
  <1>3. ASSUME NEW x \in Faulty(w), r = [w |-> x, thrown |-> TRUE]
        PROVE  /\ r.w.owed = w.owed /\ r.w.disk = w.disk /\ r.thrown = TRUE
               /\ OneFault => ~Spent(w) /\ Spent(r.w)
    BY <1>3, FaultyKeeps, FaultyIsLast
  <1>. QED
    BY <1>2, <1>3, UpsertsKeep DEF Upserts

(* The bytes a record would claim. *)
Claimed(w, bytes) ==
    IF bytes # Nothing THEN bytes
    ELSE IF w.task.item # Nothing THEN w.task.item.n
    ELSE IF w.disk.partial # Nothing THEN w.disk.partial.n ELSE 0

(* persistTask leaves the record, goes back to the older one, fails, or renews it. *)
Left(w, bytes, r) ==
    /\ r = [w |-> w, thrown |-> FALSE]
    /\ w.task.fallback # Nothing /\ bytes = Nothing /\ Claimed(w, bytes) <= w.task.fallback.n

WentBack(w, bytes, r) ==
    /\ w.task.fallback # Nothing /\ bytes # Nothing
    /\ ~r.thrown /\ r.w.task = w.task /\ r.w.owed = w.owed /\ r.w.faults = w.faults
    /\ r.w.disk.journal = w.task.fallback

Unwritten(w, r) ==
    /\ r.thrown /\ r.w.task = w.task /\ r.w.owed = w.owed /\ r.w.disk = w.disk
    /\ OneFault => ~Spent(w) /\ Spent(r.w)

Renewed(w, bytes, r) ==
    /\ ~r.thrown /\ r.w.task = [w.task EXCEPT !.fallback = Nothing]
    /\ r.w.owed = (w.owed \/ (w.task.rebind = Nothing /\ w.task.startup = {}))
    /\ r.w.faults = w.faults
    /\ r.w.disk.journal # Nothing /\ r.w.disk.journal.n = Claimed(w, bytes)
    /\ \/ w.task.fallback = Nothing
       \/ bytes = Nothing /\ ~(Claimed(w, bytes) <= w.task.fallback.n)

LEMMA PersistsCases ==
    ASSUME NEW w \in Worlds, NEW bytes \in Bytes \cup {Nothing}, NEW r \in Persists(w, bytes),
           w.task.item # Nothing \/ w.disk.journal # Nothing
    PROVE  /\ r.w \in Worlds
           /\ r.w.disk.partial = w.disk.partial /\ r.w.disk.snapshot = w.disk.snapshot
           /\ Left(w, bytes, r) \/ WentBack(w, bytes, r) \/ Unwritten(w, r) \/ Renewed(w, bytes, r)
  <1>1. w.task \in Task /\ w.disk \in Disk
    BY FieldsOfWorld
  <1>2. /\ w.task.fallback \in Entry \cup {Nothing} /\ w.task.item \in Item \cup {Nothing}
        /\ w.disk.journal \in Entry \cup {Nothing} /\ w.disk.partial \in Content \cup {Nothing}
    BY DiskTypes
  <1> DEFINE t == w.task
             entry == [v |-> IF t.item # Nothing THEN t.item.v ELSE w.disk.journal.v,
                       n |-> IF bytes # Nothing THEN bytes
                             ELSE IF t.item # Nothing THEN t.item.n
                             ELSE IF w.disk.partial # Nothing THEN w.disk.partial.n ELSE 0]
             renewed(q) == IF q.thrown THEN q
                           ELSE [w |-> [q.w EXCEPT !.task.fallback = Nothing,
                                            !.owed = @ \/ (t.rebind = Nothing /\ t.startup = {})],
                                 thrown |-> FALSE]
  <1>3. entry \in Entry /\ entry # Nothing /\ entry.n = Claimed(w, bytes)
    <2>1. t.item # Nothing => t.item.v \in Versions /\ t.item.n \in Bytes
      BY <1>2 DEF Item
    <2>2. t.item = Nothing => w.disk.journal.v \in Versions \cup {Nothing}
      BY <1>2 DEF Entry
    <2>3. w.disk.partial # Nothing => w.disk.partial.n \in Bytes
      BY <1>2 DEF Content
    <2>4. 0 \in Bytes
      BY DownloadAssumption DEF DownloadAssumption, Bytes
    <2>5. entry \in Entry
      BY <2>1, <2>2, <2>3, <2>4 DEF Entry
    <2>6. entry.n = Claimed(w, bytes)
      BY DEF Claimed
    <2>. QED
      BY <2>5, <2>6, NothingAssumption DEF NothingAssumption
  <1>4. CASE r \in Upserts(w, t.fallback) /\ t.fallback # Nothing /\ bytes # Nothing
    <2>1. /\ r.w \in Worlds /\ r.w.task = w.task /\ r.w.owed = w.owed
          /\ r.w.disk.partial = w.disk.partial /\ r.w.disk.snapshot = w.disk.snapshot
          /\ ~r.thrown => r.w.disk.journal = t.fallback /\ r.w.faults = w.faults
          /\ r.thrown => r.w.disk = w.disk
          /\ r.thrown /\ OneFault => ~Spent(w) /\ Spent(r.w)
      BY <1>2, <1>4, UpsertsCases
    <2>. QED
      BY <1>4, <2>1 DEF WentBack, Unwritten
  <1>5. CASE /\ r = [w |-> w, thrown |-> FALSE]
             /\ t.fallback # Nothing /\ bytes = Nothing /\ entry.n <= t.fallback.n
    BY <1>3, <1>5 DEF Left
  <1>6. ASSUME NEW q \in Upserts(w, entry), r = renewed(q),
               t.fallback = Nothing \/ (bytes = Nothing /\ ~(entry.n <= t.fallback.n))
        PROVE  /\ r.w \in Worlds
               /\ r.w.disk.partial = w.disk.partial /\ r.w.disk.snapshot = w.disk.snapshot
               /\ Unwritten(w, r) \/ Renewed(w, bytes, r)
    <2>1. /\ q.w \in Worlds /\ q.w.task = w.task /\ q.w.owed = w.owed
          /\ q.w.disk.partial = w.disk.partial /\ q.w.disk.snapshot = w.disk.snapshot
          /\ ~q.thrown => q.w.disk.journal = entry /\ q.w.faults = w.faults
          /\ q.thrown => q.w.disk = w.disk
          /\ q.thrown /\ OneFault => ~Spent(w) /\ Spent(q.w)
      <3>. HIDE DEF entry
      <3>. QED
        BY <1>3, <1>6, UpsertsCases
    <2>2. CASE q.thrown
      BY <1>6, <2>1, <2>2 DEF Unwritten
    <2>3. CASE ~q.thrown
      <3> DEFINE o == q.w.owed \/ (t.rebind = Nothing /\ t.startup = {})
                 T == [q.w.task EXCEPT !.fallback = Nothing]
      <3>1. r = [w |-> [q.w EXCEPT !.task = T, !.owed = o], thrown |-> FALSE]
        BY <1>6, <2>3
      <3>2. T \in Task /\ o \in BOOLEAN
        BY <1>1, <2>1 DEF Task, Worlds
      <3>. HIDE DEF o, T
      <3>3. /\ r.w \in Worlds /\ r.w.task = T /\ r.w.owed = o
            /\ r.w.disk = q.w.disk /\ r.w.faults = q.w.faults /\ ~r.thrown
        BY <2>1, <3>1, <3>2 DEF Worlds
      <3>. HIDE DEF entry
      <3>. QED
        BY <1>3, <1>6, <2>1, <2>3, <3>3 DEF Renewed, o, T
    <2>. QED
      BY <2>2, <2>3
  <1>7. \/ r \in Upserts(w, t.fallback) /\ t.fallback # Nothing /\ bytes # Nothing
        \/ /\ r = [w |-> w, thrown |-> FALSE]
           /\ t.fallback # Nothing /\ bytes = Nothing /\ entry.n <= t.fallback.n
        \/ /\ \E q \in Upserts(w, entry) : r = renewed(q)
           /\ t.fallback = Nothing \/ (bytes = Nothing /\ ~(entry.n <= t.fallback.n))
    <2>1. r \in IF t.fallback # Nothing /\ bytes # Nothing THEN Upserts(w, t.fallback)
                ELSE IF t.fallback # Nothing /\ entry.n <= t.fallback.n
                THEN {[w |-> w, thrown |-> FALSE]}
                ELSE {renewed(q) : q \in Upserts(w, entry)}
      BY Zenon DEF Persists
    <2>. HIDE DEF entry, renewed
    <2>. QED
      BY <2>1
  <1>. HIDE DEF entry, renewed
  <1>8. w \in Worlds
    OBVIOUS
  <1>. QED
    BY <1>4, <1>5, <1>6, <1>7 DEF Left

(* What keeps the record does not look at the rest. *)
LEMMA KeptIfSame ==
    ASSUME NEW w, Kept(w), NEW x,
           x.owed => w.owed, w.faults = MaxFaults => x.faults = MaxFaults,
           x.disk.partial = w.disk.partial, x.disk.snapshot = w.disk.snapshot,
           x.disk.journal = w.disk.journal,
           x.task.st = w.task.st, x.task.auto = w.task.auto,
           x.task.item = Nothing <=> w.task.item = Nothing,
           x.task.item # Nothing => x.task.item.n = w.task.item.n,
           x.task.pending \in {w.task.pending, Nothing},
           \/ x.task.restored = w.task.restored
           \/ x.task.pending = Nothing /\ x.task.item # Nothing,
           x.task.fallback = w.task.fallback,
           x.task.startup # {} => w.task.startup # {} /\ x.task.original = w.task.original,
           x.task.rebind \in {w.task.rebind, Nothing}
    PROVE  Kept(x)
  <1>1. Backed(w.disk) => Backed(x.disk)
    BY DEF Backed
  <1>2. Behind(w.task, w.disk) => Behind(x.task, x.disk)
    BY DEF Behind
  <1>3. Intact(w.task, w.disk, w.faults) => Intact(x.task, x.disk, x.faults)
    <2>1. Guarded(w.task, w.disk) => Guarded(x.task, x.disk)
      BY DEF Guarded, Preserved, AtHand
    <2>2. Fallbacks(w.task, w.disk, w.faults) => Fallbacks(x.task, x.disk, x.faults)
      BY DEF Fallbacks
    <2>3. Originals(w.task, w.disk) => Originals(x.task, x.disk)
      BY DEF Originals, Authority
    <2>4. Uncopied(w.task, w.disk, w.faults) => Uncopied(x.task, x.disk, x.faults)
      BY DEF Uncopied
    <2>5. Creating(w.task, w.disk, w.faults) => Creating(x.task, x.disk, x.faults)
      BY DEF Creating, Authority
    <2>6. Waiting(w.task, w.disk) => Waiting(x.task, x.disk)
      BY DEF Waiting
    <2>7. Leaving(w.task, w.disk) => Leaving(x.task, x.disk)
      BY DEF Leaving
    <2>8. Moving(w.task, w.disk) => Moving(x.task, x.disk)
      BY DEF Moving
    <2>. QED
      BY <1>1, <2>1, <2>2, <2>3, <2>4, <2>5, <2>6, <2>7, <2>8 DEF Intact
  <1>. QED
    BY <1>1, <1>2, <1>3 DEF Kept

LEMMA FaultyIsKept ==
    ASSUME NEW w \in Worlds, Kept(w), NEW x \in Faulty(w)
    PROVE  Kept(x)
  <1>1. x.task = w.task /\ x.disk = w.disk /\ x.owed = w.owed
    BY FaultyKeeps
  <1>2. OneFault => ~Spent(w)
    BY FaultyIsLast
  <1>3. CASE OneFault
    BY <1>1, <1>2, <1>3, KeptIfSame DEF Spent
  <1>4. CASE ~OneFault
    BY <1>4 DEF Kept
  <1>. QED
    BY <1>3, <1>4

LEMMA NothingIsCancelled ==
    ASSUME NEW w \in Worlds, w.task.item = Nothing, NEW x \in Cancelled(w)
    PROVE  x.disk = w.disk
  <1>1. w.task \in Task /\ w.disk \in Disk
    BY FieldsOfWorld
  <1> DEFINE z == [w EXCEPT !.task.item = Nothing, !.task.verdict = Nothing, !.task.rebind = Nothing]
  <1>2. z.disk = w.disk
    BY DEF Worlds
  <1>3. x \in {z}
    BY DEF Cancelled
  <1>. QED
    BY <1>2, <1>3

(* A task that is given up although its record stays has its bytes on the disk. *)
LEMMA FailedIsKept ==
    ASSUME NEW w, Sound(w), Alive(w), Kept(w), OneFault, Settled(w), NEW x \in Failed(w, TRUE)
    PROVE  Kept(x)
  <1>1. w \in Worlds
    BY DEF Sound
  <1> DEFINE E(z, v) == {Ended(q.w, "kept") : q \in Persists(z, v.bytes)}
             C(v) == UNION {E(z, v) : z \in Cancelled(v.w)}
  <1>20. x \in UNION {C(v) : v \in Snapshots(w, TRUE)}
    BY Zenon DEF Failed
  <1>21. \A v, z : x \in E(z, v) => \E q \in Persists(z, v.bytes) : x = Ended(q.w, "kept")
    OBVIOUS
  <1>22. \A v : x \in C(v) => \E z \in Cancelled(v.w) : x \in E(z, v)
    OBVIOUS
  <1>. HIDE DEF E, C
  <1>23. PICK s \in Snapshots(w, TRUE) : x \in C(s)
    BY <1>20
  <1>24. PICK y \in Cancelled(s.w) : x \in E(y, s)
    BY <1>22, <1>23
  <1>2. PICK r \in Persists(y, s.bytes) : x = Ended(r.w, "kept")
    BY <1>21, <1>24
  <1>3. /\ s.w \in Worlds /\ s.w.task = w.task
        /\ s.w.disk.partial = w.disk.partial /\ s.w.disk.journal = w.disk.journal
        /\ Kept(s.w)
        /\ s.w.owed => w.owed
        /\ Spent(w) => Spent(s.w) /\ ~s.thrown
        /\ s.thrown => Spent(s.w) /\ s.w.disk = w.disk /\ s.w.disk.snapshot = Nothing
        /\ s.w.owed /\ ~s.thrown => Covers(s.w.disk.snapshot, Authority(w.task, w.disk).n)
        /\ ~s.thrown => s.bytes = Size(s.w.disk.snapshot)
    BY <1>1, <1>23, SnapshotsAreKept
  <1>4. s.bytes \in Bytes \cup {Nothing} /\ w.disk.journal # Nothing
    BY <1>1, SnapshotsKeep DEF Alive
  <1>5. s.thrown => s.bytes = Nothing
    BY <1>1, <1>3, SnapshotsCases DEF Relied, Made, Missed, Size
  <1>6. /\ y \in Worlds /\ y.owed = s.w.owed /\ y.faults = s.w.faults
        /\ y.task = [w.task EXCEPT !.item = Nothing, !.verdict = Nothing, !.rebind = Nothing]
        /\ y.disk \in {s.w.disk, [s.w.disk EXCEPT !.partial = Nothing]}
        /\ w.task.item = Nothing => y.disk = s.w.disk
    <2>1. w.task.item = Nothing => y.disk = s.w.disk
      <3>1. ASSUME w.task.item = Nothing
            PROVE  s.w \in Worlds /\ s.w.task.item = Nothing /\ y \in Cancelled(s.w)
        BY <1>3, <1>24, <3>1
      <3>. QED
        BY <3>1, NothingIsCancelled
    <2>. QED
      <3>1. /\ y \in Worlds /\ y.owed = s.w.owed /\ y.faults = s.w.faults
            /\ y.task = [s.w.task EXCEPT !.item = Nothing, !.verdict = Nothing, !.rebind = Nothing]
            /\ y.disk \in {s.w.disk, [s.w.disk EXCEPT !.partial = Nothing]}
        BY <1>3, <1>24, CancelledKeeps
      <3>. QED
        BY <1>3, <2>1, <3>1
  <1>7. w.task \in Task /\ s.w.disk \in Disk
    BY <1>1, <1>3, FieldsOfWorld
  <1>8. /\ y.task.item = Nothing /\ y.task.rebind = Nothing /\ y.task.fallback = w.task.fallback
        /\ y.task.startup = w.task.startup
        /\ y.disk.snapshot = s.w.disk.snapshot /\ y.disk.journal = w.disk.journal
    BY <1>3, <1>6, <1>7 DEF Task, Disk
  <1>9. /\ r.w \in Worlds
        /\ r.w.disk.partial = y.disk.partial /\ r.w.disk.snapshot = y.disk.snapshot
        /\ Left(y, s.bytes, r) \/ WentBack(y, s.bytes, r) \/ Unwritten(y, r) \/ Renewed(y, s.bytes, r)
    BY <1>4, <1>6, <1>8, PersistsCases
  <1>10. x.owed = r.w.owed /\ x.disk = r.w.disk /\ x.task.st # "live"
    BY <1>2, <1>9, EndedIsGood DEF Ended, Worlds, NoTask
  <1>11. ASSUME w.owed
         PROVE  w.task.fallback # Nothing => w.task.fallback = w.disk.journal
    BY <1>11 DEF Settled
  <1>12. ASSUME s.w.owed, ~s.thrown
         PROVE  Covers(s.w.disk.snapshot, w.disk.journal.n)
    BY <1>3, <1>11, <1>12 DEF Authority
  <1>13. CASE Renewed(y, s.bytes, r)
    <2>1. r.w.disk.journal.n = Claimed(y, s.bytes)
      BY <1>13 DEF Renewed
    <2>2. CASE s.bytes # Nothing
      <3>1. s.w.disk.snapshot # Nothing /\ s.bytes = s.w.disk.snapshot.n
        BY <1>3, <1>5, <2>2 DEF Size
      <3>2. s.w.disk.snapshot.n \in Nat
        BY <1>3, <3>1, Lengths
      <3>. QED
        BY <1>8, <1>9, <1>10, <2>1, <2>2, <3>1, <3>2 DEF Kept, Backed, Covers, Backs, Claimed
    <2>3. CASE s.bytes = Nothing
      <3>1. y.disk.partial # Nothing => y.disk.partial.n \in Nat
        BY <1>6, Lengths
      <3>. QED
        BY <1>8, <1>9, <1>10, <2>1, <2>3, <3>1 DEF Kept, Backed, Covers, Backs, Claimed
    <2>. QED
      BY <2>2, <2>3
  <1>14. ASSUME r.w.disk.journal = w.disk.journal, r.w.owed = y.owed, ~s.thrown
         PROVE  Kept(x)
    BY <1>6, <1>8, <1>9, <1>10, <1>12, <1>14 DEF Kept, Backed
  <1>15. CASE Unwritten(y, r)
    <2>1. ~Spent(y) /\ r.w.owed = y.owed /\ r.w.disk = y.disk
      BY <1>15 DEF Unwritten
    <2>2. ~s.thrown
      BY <1>3, <1>6, <2>1 DEF Spent
    <2>. QED
      BY <1>8, <1>14, <2>1, <2>2
  <1>16. CASE WentBack(y, s.bytes, r)
    <2>1. r.w.disk.journal = w.task.fallback /\ r.w.owed = y.owed /\ s.bytes # Nothing
          /\ w.task.fallback # Nothing
      BY <1>8, <1>16 DEF WentBack
    <2>2. ~s.thrown
      BY <1>5, <2>1
    <2>3. y.owed => r.w.disk.journal = w.disk.journal
      BY <1>3, <1>6, <1>11, <2>1
    <2>. QED
      BY <1>6, <1>8, <1>9, <1>10, <1>12, <2>1, <2>2, <2>3 DEF Kept, Backed
  <1>17. CASE Left(y, s.bytes, r)
    <2>1. r.w = y /\ w.task.fallback # Nothing
      BY <1>8, <1>17 DEF Left
    <2>2. CASE ~s.thrown
      BY <1>8, <1>14, <2>1, <2>2
    <2>3. CASE s.thrown
      <3>1. ~Spent(w) /\ s.w.disk = w.disk /\ w.disk.snapshot = Nothing
        BY <1>3, <2>3
      <3>2. ASSUME w.owed
            PROVE  Backed(y.disk)
        <4>1. Intact(w.task, w.disk, w.faults)
          BY <3>2 DEF Kept, Alive
        <4>2. CASE w.task.item = Nothing
          BY <1>6, <3>1, <4>1, <4>2 DEF Intact
        <4>3. CASE w.task.item # Nothing
          <5>1. w.disk.journal.n = 0
            BY <1>11, <2>1, <3>1, <3>2, <4>1, <4>3 DEF Intact, Uncopied, Spent
          <5>. QED
            BY <1>8, <5>1 DEF Backed, Covers
        <4>. QED
          BY <4>2, <4>3
      <3>. QED
        BY <1>3, <1>6, <1>10, <2>1, <3>2 DEF Kept
    <2>. QED
      BY <2>2, <2>3
  <1>. QED
    BY <1>9, <1>13, <1>15, <1>16, <1>17

LEMMA NoWait == Nothing \notin Held
  BY NothingAssumption DEF NothingAssumption, Held, Waits

(* Nor does it depend on why the engine waits, unless for a rollback. *)
LEMMA KeptIfRetimed ==
    ASSUME NEW w, Kept(w), NEW x,
           x.owed = w.owed, w.faults = MaxFaults => x.faults = MaxFaults,
           x.disk.partial = w.disk.partial, x.disk.snapshot = w.disk.snapshot,
           x.disk.journal = w.disk.journal, x.task.st = w.task.st,
           w.task.auto \notin Held, x.task.auto \notin Held,
           x.owed /\ x.task.auto = "relaunch" => Covers(x.disk.snapshot, x.disk.journal.n),
           x.task.item = Nothing <=> w.task.item = Nothing,
           x.task.item # Nothing => x.task.item.n = w.task.item.n,
           x.task.pending \in {w.task.pending, Nothing}, x.task.restored = w.task.restored,
           x.task.fallback = w.task.fallback, x.task.startup = w.task.startup,
           x.task.original = w.task.original, x.task.rebind = w.task.rebind
    PROVE  Kept(x)
  <1>1. Backed(w.disk) => Backed(x.disk)
    BY DEF Backed
  <1>2. Behind(w.task, w.disk) => Behind(x.task, x.disk)
    BY DEF Behind
  <1>3. w.owed /\ Intact(w.task, w.disk, w.faults) => Intact(x.task, x.disk, x.faults)
    <2>1. Guarded(w.task, w.disk) => Guarded(x.task, x.disk)
      BY DEF Guarded, Preserved, AtHand
    <2>2. Fallbacks(w.task, w.disk, w.faults) => Fallbacks(x.task, x.disk, x.faults)
      BY DEF Fallbacks, Held
    <2>3. Originals(w.task, w.disk) => Originals(x.task, x.disk)
      BY DEF Originals, Authority
    <2>4. Uncopied(w.task, w.disk, w.faults) => Uncopied(x.task, x.disk, x.faults)
      BY DEF Uncopied, Held
    <2>5. Creating(w.task, w.disk, w.faults) => Creating(x.task, x.disk, x.faults)
      BY DEF Creating, Authority, Held
    <2>6. Waiting(w.task, w.disk) => Waiting(x.task, x.disk)
      BY DEF Waiting
    <2>7. w.owed => Leaving(x.task, x.disk)
      BY DEF Leaving
    <2>8. Moving(w.task, w.disk) => Moving(x.task, x.disk)
      BY DEF Moving
    <2>. QED
      BY <1>1, <2>1, <2>2, <2>3, <2>4, <2>5, <2>6, <2>7, <2>8 DEF Intact
  <1>. QED
    BY <1>1, <1>2, <1>3 DEF Kept

LEMMA SettledIfNotHeld ==
    ASSUME NEW w, Kept(w), Alive(w), OneFault, w.task.auto # "journalRebind" \/ w.task.item = Nothing
    PROVE  Settled(w)
  BY DEF Kept, Intact, Fallbacks, Settled, Alive

LEMMA ScheduledCases ==
    ASSUME NEW w, NEW x \in Scheduled(w)
    PROVE  \/ x = w
           \/ w.task.auto = Nothing
              /\ \/ /\ w.task.attempts < MaxAttempts
                    /\ x = [w EXCEPT !.task.auto = "resume", !.task.attempts = @ + 1, !.task.stall = FALSE]
                 \/ \E s \in Snapshots(w, w.task.fallback # Nothing) :
                       \/ x = [s.w EXCEPT !.task.auto = "exhausted", !.task.stall = FALSE]
                       \/ /\ ~s.thrown
                          /\ \E y \in Cancelled([s.w EXCEPT !.task.pending = Nothing]) : x \in Failed(y, TRUE)
  <1> DEFINE R(s) == IF s.thrown
                     THEN {[s.w EXCEPT !.task.auto = "exhausted", !.task.stall = FALSE]}
                     ELSE UNION {Failed(y, TRUE) : y \in Cancelled([s.w EXCEPT !.task.pending = Nothing])}
             again == [w EXCEPT !.task.auto = "resume", !.task.attempts = @ + 1,
                                !.task.stall = FALSE]
  <1>1. x \in IF w.task.auto # Nothing THEN {w}
              ELSE IF w.task.attempts < MaxAttempts THEN {again}
              ELSE UNION {R(s) : s \in Snapshots(w, w.task.fallback # Nothing)}
    BY Zenon DEF Scheduled
  <1>2. ASSUME NEW s \in Snapshots(w, w.task.fallback # Nothing), x \in R(s)
        PROVE  \/ x = [s.w EXCEPT !.task.auto = "exhausted", !.task.stall = FALSE]
               \/ ~s.thrown /\ \E y \in Cancelled([s.w EXCEPT !.task.pending = Nothing]) : x \in Failed(y, TRUE)
    BY <1>2, Zenon
  <1> HIDE DEF R, again
  <1>3. \/ x = w
        \/ w.task.auto = Nothing /\ w.task.attempts < MaxAttempts /\ x = again
        \/ w.task.auto = Nothing /\ \E s \in Snapshots(w, w.task.fallback # Nothing) : x \in R(s)
    BY <1>1
  <1>. QED
    BY <1>2, <1>3 DEF again

LEMMA ScheduledIsKept ==
    ASSUME NEW w, Sound(w), Alive(w), Kept(w), OneFault, NEW x \in Scheduled(w)
    PROVE  Kept(x)
  <1>1. w \in Worlds /\ w.task \in Task /\ w.disk \in Disk
    BY FieldsOfWorld DEF Sound
  <1>2. CASE /\ w.task.auto = Nothing
             /\ x = [w EXCEPT !.task.auto = "resume", !.task.attempts = @ + 1, !.task.stall = FALSE]
    <2> DEFINE T == [w.task EXCEPT !.auto = "resume", !.attempts = @ + 1, !.stall = FALSE]
    <2>1. x.task = T /\ x.disk = w.disk /\ x.owed = w.owed /\ x.faults = w.faults
      BY <1>1, <1>2 DEF Worlds
    <2>2. /\ T.auto = "resume" /\ T.st = w.task.st /\ T.item = w.task.item
          /\ T.pending = w.task.pending /\ T.startup = w.task.startup
          /\ T.original = w.task.original /\ T.fallback = w.task.fallback
          /\ T.restored = w.task.restored /\ T.rebind = w.task.rebind
      BY <1>1 DEF Task
    <2>3. w.task.auto \notin Held /\ T.auto \notin Held /\ T.auto # "relaunch"
      BY <1>2, <2>2, NoWait DEF Held
    <2>. HIDE DEF T
    <2>. QED
      BY <2>1, <2>2, <2>3, KeptIfRetimed
  <1>3. ASSUME NEW s \in Snapshots(w, w.task.fallback # Nothing), w.task.auto = Nothing,
               x = [s.w EXCEPT !.task.auto = "exhausted", !.task.stall = FALSE]
        PROVE  Kept(x)
    <2>1. s.w \in Worlds /\ s.w.task = w.task /\ Kept(s.w)
      BY <1>1, SnapshotsAreKept
    <2> DEFINE T == [w.task EXCEPT !.auto = "exhausted", !.stall = FALSE]
    <2>2. x.task = T /\ x.disk = s.w.disk /\ x.owed = s.w.owed /\ x.faults = s.w.faults
      BY <2>1, <1>3 DEF Worlds
    <2>3. /\ T.auto = "exhausted" /\ T.st = w.task.st /\ T.item = w.task.item
          /\ T.pending = w.task.pending /\ T.startup = w.task.startup
          /\ T.original = w.task.original /\ T.fallback = w.task.fallback
          /\ T.restored = w.task.restored /\ T.rebind = w.task.rebind
      BY <1>1 DEF Task
    <2>4. w.task.auto \notin Held /\ T.auto \notin Held /\ T.auto # "relaunch"
      BY <1>3, <2>3, NoWait DEF Held
    <2>. HIDE DEF T
    <2>. QED
      BY <2>1, <2>2, <2>3, <2>4, KeptIfRetimed
  <1>4. ASSUME NEW s \in Snapshots(w, w.task.fallback # Nothing), w.task.auto = Nothing, ~s.thrown,
               NEW y \in Cancelled([s.w EXCEPT !.task.pending = Nothing]), x \in Failed(y, TRUE)
        PROVE  Kept(x)
    <2>1. /\ s.w \in Worlds /\ s.w.task = w.task /\ Kept(s.w)
          /\ s.w.disk.journal = w.disk.journal
          /\ s.w.owed => Covers(s.w.disk.snapshot, Authority(w.task, w.disk).n)
      BY <1>1, <1>4, SnapshotsAreKept
    <2>2. Sound(s.w) /\ Alive(s.w)
      BY <1>1, SnapshotsKeep, SameTaskIsSound DEF Alive
    <2> DEFINE T == [w.task EXCEPT !.pending = Nothing]
               z == [s.w EXCEPT !.task.pending = Nothing]
    <2>3. T \in Task
      BY <1>1 DEF Task
    <2>4. z \in Worlds /\ z.task = T /\ z.disk = s.w.disk /\ z.owed = s.w.owed /\ z.faults = s.w.faults
      BY <2>1, <2>3 DEF Worlds
    <2>5. /\ T.auto = w.task.auto /\ T.st = w.task.st /\ T.item = w.task.item
          /\ T.verdict = w.task.verdict /\ T.pending = Nothing
          /\ T.startup = w.task.startup /\ T.original = w.task.original
          /\ T.fallback = w.task.fallback /\ T.restored = w.task.restored
          /\ T.rebind = w.task.rebind
      BY <1>1 DEF Task
    <2>. HIDE DEF T, z
    <2>6. Sound(z) /\ Alive(z)
      BY <2>2, <2>1, <2>4, <2>5 DEF Sound, Alive
    <2>7. z.task.auto = Nothing /\ z.task.auto \notin Held /\ z.task.auto # "relaunch"
      BY <1>4, <2>4, <2>5, NoWait, NothingAssumption DEF NothingAssumption, Waits
    <2>8. Kept(z)
      BY <2>1, <2>4, <2>5, <2>7, KeptIfRetimed
    <2>9. Settled(z)
      BY <2>6, <2>7, <2>8, SettledIfNotHeld DEF Held
    <2>10. z.owed => Covers(z.disk.snapshot, Authority(z.task, z.disk).n)
      BY <2>1, <2>4, <2>5 DEF Authority
    <2>11. y \in Cancelled(z)
      BY <1>4 DEF z
    <2>12. Kept(y) /\ Alive(y) /\ y.task.item = Nothing
      BY <2>4, <2>6, <2>8, <2>9, <2>10, <2>11, LettingGo
    <2>13. Sound(y)
      BY <2>6, <2>11, CancelledIsSound
    <2>14. Settled(y)
      BY <2>12, SettledIfNotHeld
    <2>. QED
      BY <1>4, <2>12, <2>13, <2>14, FailedIsKept
  <1>. QED
    BY <1>2, <1>3, <1>4, ScheduledCases

LEMMA HeldForJournalFields ==
    ASSUME NEW w \in Worlds, NEW wait \in {"journalStartup", "journalRebind"},
           NEW h, h = HeldForJournal(w, wait)
    PROVE  /\ h.disk = w.disk /\ h.owed = w.owed /\ h.faults = w.faults
           /\ h.task.auto = wait /\ h.task.st = w.task.st
           /\ h.task.item = Nothing <=> w.task.item = Nothing
           /\ h.task.item # Nothing => h.task.item.n = w.task.item.n
           /\ h.task.pending = w.task.pending /\ h.task.restored = w.task.restored
           /\ h.task.fallback = w.task.fallback /\ h.task.startup = w.task.startup
           /\ h.task.original = w.task.original /\ h.task.rebind = w.task.rebind
           /\ h.task.awaiting = w.task.awaiting
  <1>1. w.task \in Task /\ w.task.item \in Item \cup {Nothing}
    BY FieldsOfWorld, DiskTypes
  <1> DEFINE i == IF w.task.item = Nothing \/ w.task.item.st = "completed" THEN w.task.item
                  ELSE [w.task.item EXCEPT !.st = "paused"]
             T == [w.task EXCEPT !.auto = wait, !.stall = FALSE, !.item = i]
  <1>2. w.task.item # Nothing => /\ [w.task.item EXCEPT !.st = "paused"] \in Item
                                 /\ [w.task.item EXCEPT !.st = "paused"].n = w.task.item.n
    BY <1>1 DEF Item
  <1>3. (i = Nothing <=> w.task.item = Nothing) /\ (i # Nothing => i.n = w.task.item.n)
    BY <1>1, <1>2, NothingAssumption DEF NothingAssumption
  <1>4. h = [w EXCEPT !.task.auto = wait, !.task.stall = FALSE, !.task.item = i]
    BY Zenon DEF HeldForJournal
  <1>. HIDE DEF i
  <1>5. h.task = T /\ h.disk = w.disk /\ h.owed = w.owed /\ h.faults = w.faults
    BY <1>1, <1>4 DEF Worlds
  <1>6. /\ T.auto = wait /\ T.st = w.task.st /\ T.item = i /\ T.pending = w.task.pending
        /\ T.restored = w.task.restored /\ T.awaiting = w.task.awaiting
        /\ T.fallback = w.task.fallback /\ T.startup = w.task.startup
        /\ T.original = w.task.original /\ T.rebind = w.task.rebind
    BY <1>1 DEF Task
  <1>. QED
    BY <1>3, <1>5, <1>6

LEMMA StartupRolledBackCases ==
    ASSUME NEW w, NEW x \in StartupRolledBack(w)
    PROVE  \E s \in Snapshots([w EXCEPT !.task.pending = Nothing, !.task.stall = FALSE,
                                        !.task.auto = Nothing], TRUE) :
              \E r \in Upserts(s.w, w.task.original) :
                 \/ r.thrown /\ x = HeldForJournal(r.w, "journalStartup")
                 \/ ~r.thrown /\ \E y \in Cancelled(r.w) : x = Ended(y, "none")
  <1> DEFINE cleared == [w EXCEPT !.task.pending = Nothing, !.task.stall = FALSE,
                                  !.task.auto = Nothing]
             R(r) == IF r.thrown THEN {HeldForJournal(r.w, "journalStartup")}
                     ELSE {Ended(y, "none") : y \in Cancelled(r.w)}
             S(s) == UNION {R(r) : r \in Upserts(s.w, w.task.original)}
  <1>1. x \in UNION {S(s) : s \in Snapshots(cleared, TRUE)}
    BY Zenon DEF StartupRolledBack
  <1>2. \A r : x \in R(r) => \/ r.thrown /\ x = HeldForJournal(r.w, "journalStartup")
                             \/ ~r.thrown /\ \E y \in Cancelled(r.w) : x = Ended(y, "none")
    OBVIOUS
  <1>3. \A s : x \in S(s) => \E r \in Upserts(s.w, w.task.original) : x \in R(r)
    BY Zenon
  <1>4. \E s \in Snapshots(cleared, TRUE) : x \in S(s)
    <2>. HIDE DEF S, cleared
    <2>. QED
      BY <1>1
  <1>. HIDE DEF S, R, cleared
  <1>5. \E s \in Snapshots(cleared, TRUE) : \E r \in Upserts(s.w, w.task.original) : x \in R(r)
    BY <1>3, <1>4
  <1>6. \E s \in Snapshots(cleared, TRUE) : \E r \in Upserts(s.w, w.task.original) :
            \/ r.thrown /\ x = HeldForJournal(r.w, "journalStartup")
            \/ ~r.thrown /\ \E y \in Cancelled(r.w) : x = Ended(y, "none")
    BY <1>2, <1>5
  <1>. QED
    BY <1>6, Zenon DEF cleared

(* Going back to the original record loses nothing of it. *)
LEMMA StartupRolledBackIsKept ==
    ASSUME NEW w \in Worlds, Alive(w), Kept(w), Settled(w), OneFault,
           w.task.startup \cap {"failed", "bind"} # {}, w.owed => w.task.auto # "heldRebind",
           NEW x \in StartupRolledBack(w)
    PROVE  /\ Kept(x)
           /\ x.owed => w.owed
           /\ x.task.st = "live" =>
                 /\ x.task.auto = "journalStartup"
                 /\ x.task.startup = w.task.startup /\ x.task.rebind = w.task.rebind
                 /\ x.task.item = Nothing <=> w.task.item = Nothing
                 /\ x.task.awaiting = w.task.awaiting /\ x.task.restored = w.task.restored
                 /\ x.task.fallback = w.task.fallback
  <1>1. w.task \in Task /\ w.disk \in Disk
    BY FieldsOfWorld
  <1> DEFINE T == [w.task EXCEPT !.pending = Nothing, !.stall = FALSE, !.auto = Nothing]
             V == [w.task EXCEPT !.pending = Nothing, !.auto = "journalStartup"]
             cleared == [w EXCEPT !.task.pending = Nothing, !.task.stall = FALSE,
                                  !.task.auto = Nothing]
             v == [w EXCEPT !.task.pending = Nothing, !.task.auto = "journalStartup"]
  <1>2. T \in Task /\ V \in Task
    BY <1>1 DEF Task, Waits
  <1>3. /\ cleared \in Worlds /\ cleared.task = T /\ cleared.disk = w.disk
        /\ cleared.owed = w.owed /\ cleared.faults = w.faults
        /\ v \in Worlds /\ v.task = V /\ v.disk = w.disk
        /\ v.owed = w.owed /\ v.faults = w.faults
    BY <1>1, <1>2 DEF Worlds
  <1>4. /\ T.st = w.task.st /\ T.item = w.task.item /\ T.pending = Nothing
        /\ T.restored = w.task.restored /\ T.awaiting = w.task.awaiting
        /\ T.fallback = w.task.fallback /\ T.startup = w.task.startup
        /\ T.original = w.task.original /\ T.rebind = w.task.rebind
    BY <1>1 DEF Task
  <1>5. /\ V.st = w.task.st /\ V.item = w.task.item /\ V.pending = Nothing
        /\ V.auto = "journalStartup" /\ V.restored = w.task.restored
        /\ V.fallback = w.task.fallback /\ V.startup = w.task.startup
        /\ V.original = w.task.original /\ V.rebind = w.task.rebind
    BY <1>1 DEF Task
  <1>6. PICK s \in Snapshots(cleared, TRUE) :
            \E r \in Upserts(s.w, w.task.original) :
                 \/ r.thrown /\ x = HeldForJournal(r.w, "journalStartup")
                 \/ ~r.thrown /\ \E y \in Cancelled(r.w) : x = Ended(y, "none")
    BY StartupRolledBackCases, Zenon
  <1>7. PICK r \in Upserts(s.w, w.task.original) :
                 \/ r.thrown /\ x = HeldForJournal(r.w, "journalStartup")
                 \/ ~r.thrown /\ \E y \in Cancelled(r.w) : x = Ended(y, "none")
    BY <1>6
  <1>. HIDE DEF T, V, cleared, v
  <1>8. Alive(v)
    BY <1>3, <1>5 DEF Alive
  <1>9. Kept(v)
    <2>1. ASSUME w.owed
          PROVE  Intact(V, w.disk, w.faults)
      <3>1. Intact(w.task, w.disk, w.faults)
        BY <2>1 DEF Kept, Alive
      <3>2. Guarded(V, w.disk) /\ Originals(V, w.disk) /\ Waiting(V, w.disk) /\ Leaving(V, w.disk)
        BY <1>5, <3>1 DEF Intact, Guarded, Originals, Waiting, Leaving, Authority
      <3>3. Fallbacks(V, w.disk, w.faults)
        BY <1>5, <2>1 DEF Fallbacks, Settled
      <3>4. Uncopied(V, w.disk, w.faults)
        BY <1>5, <2>1, <3>1 DEF Intact, Uncopied, Held
      <3>5. Creating(V, w.disk, w.faults) /\ Moving(V, w.disk)
        BY <1>5, <3>1 DEF Intact, Creating, Moving, Authority, Held
      <3>. QED
        BY <3>1, <3>2, <3>3, <3>4, <3>5 DEF Intact
    <2>2. Behind(V, w.disk)
      BY <1>5 DEF Kept, Alive, Behind
    <2>. QED
      BY <1>3, <2>1, <2>2 DEF Kept, Intact
  <1> DEFINE u == [s.w EXCEPT !.task = V]
  <1>10. s.w \in Worlds
    BY <1>3, SnapshotsCases
  <1>11. u.task = V /\ u.disk = s.w.disk /\ u.owed = s.w.owed /\ u.faults = s.w.faults
    BY <1>10 DEF Worlds
  <1>. HIDE DEF u
  <1>12. v.disk = cleared.disk /\ v.owed = cleared.owed /\ v.faults = cleared.faults
         /\ u.task = v.task
    BY <1>3, <1>11
  <1>13. /\ s.w.task = cleared.task
         /\ s.w.disk.partial = w.disk.partial /\ s.w.disk.journal = w.disk.journal
         /\ Kept(u)
         /\ s.w.owed => w.owed
         /\ Spent(w) => Spent(s.w) /\ ~s.thrown
         /\ s.thrown => Spent(s.w) /\ s.w.disk = w.disk /\ s.w.disk.snapshot = Nothing
         /\ s.w.owed /\ ~s.thrown => Covers(s.w.disk.snapshot, Authority(V, w.disk).n)
    <2>1. /\ s.w \in Worlds /\ s.w.task = cleared.task
          /\ s.w.disk.partial = cleared.disk.partial /\ s.w.disk.journal = cleared.disk.journal
          /\ Kept(u)
          /\ s.w.owed => cleared.owed
          /\ Spent(cleared) => Spent(s.w) /\ ~s.thrown
          /\ s.thrown => Spent(s.w) /\ s.w.disk = cleared.disk /\ s.w.disk.snapshot = Nothing
          /\ s.w.owed /\ ~s.thrown => Covers(s.w.disk.snapshot, Authority(v.task, cleared.disk).n)
      <3> DEFINE p == TRUE
      <3>1. /\ cleared \in Worlds /\ v \in Worlds /\ Kept(v) /\ Alive(v) /\ p \in BOOLEAN
            /\ v.task.fallback # Nothing => p
            /\ v.disk = cleared.disk /\ v.owed = cleared.owed /\ v.faults = cleared.faults
            /\ s \in Snapshots(cleared, p)
            /\ u.task = v.task /\ u.disk = s.w.disk /\ u.owed = s.w.owed /\ u.faults = s.w.faults
        BY <1>3, <1>6, <1>8, <1>9, <1>11, <1>12
      <3>. HIDE DEF p
      <3>. QED
        BY <3>1, SnapshotsKeepFor
    <2>. QED
      BY <1>3, <2>1 DEF Spent
  <1>14. w.task.original \in Entry \cup {Nothing} /\ w.task.original # Nothing
    BY DiskTypes DEF Alive
  <1>15. /\ r.w \in Worlds /\ r.w.task = s.w.task /\ r.w.owed = s.w.owed
         /\ r.w.disk.partial = s.w.disk.partial /\ r.w.disk.snapshot = s.w.disk.snapshot
         /\ ~r.thrown => r.w.disk.journal = w.task.original /\ r.w.faults = s.w.faults
         /\ r.thrown => r.w.disk = s.w.disk
         /\ r.thrown => ~Spent(s.w) /\ Spent(r.w)
    BY <1>7, <1>10, <1>14, UpsertsCases
  <1>16. CASE r.thrown
    <2>1. x = HeldForJournal(r.w, "journalStartup")
      BY <1>7, <1>16
    <2>2. /\ x.disk = r.w.disk /\ x.owed = r.w.owed /\ x.faults = r.w.faults
          /\ x.task.auto = "journalStartup" /\ x.task.st = r.w.task.st
          /\ x.task.item = Nothing <=> r.w.task.item = Nothing
          /\ x.task.item # Nothing => x.task.item.n = r.w.task.item.n
          /\ x.task.pending = r.w.task.pending /\ x.task.restored = r.w.task.restored
          /\ x.task.fallback = r.w.task.fallback /\ x.task.startup = r.w.task.startup
          /\ x.task.original = r.w.task.original /\ x.task.rebind = r.w.task.rebind
          /\ x.task.awaiting = r.w.task.awaiting
      BY <1>15, <2>1, HeldForJournalFields
    <2>3. Kept(x)
      BY <1>3, <1>4, <1>5, <1>11, <1>13, <1>15, <1>16, <2>2, KeptIfSame DEF Spent
    <2>. QED
      BY <1>3, <1>4, <1>13, <1>15, <2>2, <2>3
  <1>17. CASE ~r.thrown
    <2>1. PICK y \in Cancelled(r.w) : x = Ended(y, "none")
      BY <1>7, <1>17
    <2>2. /\ y \in Worlds /\ y.owed = s.w.owed
          /\ y.disk \in {r.w.disk, [r.w.disk EXCEPT !.partial = Nothing]}
          /\ w.task.item = Nothing => y.disk = r.w.disk
      <3>1. /\ y \in Worlds /\ y.owed = r.w.owed
            /\ y.disk \in {r.w.disk, [r.w.disk EXCEPT !.partial = Nothing]}
        BY <1>15, <2>1, CancelledKeeps
      <3>2. ASSUME w.task.item = Nothing
            PROVE  y.disk = r.w.disk
        <4>1. r.w \in Worlds /\ r.w.task.item = Nothing /\ y \in Cancelled(r.w)
          BY <1>3, <1>4, <1>13, <1>15, <2>1, <3>2
        <4>. QED
          BY <4>1, NothingIsCancelled
      <3>. QED
        BY <1>15, <3>1, <3>2
    <2>3. y.disk.journal = w.task.original /\ y.disk.snapshot = s.w.disk.snapshot
      BY <1>15, <1>17, <2>2, FieldsOfWorld DEF Disk
    <2>4. x.owed = s.w.owed /\ x.disk = y.disk /\ x.task.st # "live"
      BY <2>1, <2>2, EndedIsGood DEF Ended, Worlds, NoTask
    <2>5. /\ w.disk.journal.n \in Nat /\ w.task.original.n \in Nat
          /\ w.disk.partial # Nothing => w.disk.partial.n \in Nat
          /\ s.w.disk.snapshot # Nothing => s.w.disk.snapshot.n \in Nat
          /\ V.fallback # Nothing => V.fallback.n \in Nat
      BY <1>5, <1>10, <1>14, Lengths DEF Alive
    <2>6. ASSUME s.w.owed
          PROVE  Covers(y.disk.partial, w.task.original.n) \/ Covers(y.disk.snapshot, w.task.original.n)
      <3>1. Intact(w.task, w.disk, w.faults)
        BY <1>13, <2>6 DEF Kept, Alive
      <3>2. w.task.original.n <= w.disk.journal.n /\ w.task.original.n <= Authority(V, w.disk).n
        BY <1>5, <3>1 DEF Intact, Originals, Authority
      <3>3. CASE ~s.thrown
        <4>1. Covers(s.w.disk.snapshot, Authority(V, w.disk).n)
          BY <1>13, <2>6, <3>3
        <4>. QED
          BY <2>3, <2>5, <3>2, <4>1 DEF Covers, Backs, Authority
      <3>4. CASE s.thrown /\ w.task.item = Nothing
        <4>1. y.disk.partial = w.disk.partial /\ y.disk.snapshot = w.disk.snapshot
          BY <1>13, <1>15, <2>2, <3>4
        <4>2. Covers(w.disk.partial, w.disk.journal.n) \/ Covers(w.disk.snapshot, w.disk.journal.n)
          BY <3>1 DEF Intact, Backed, Alive
        <4>. QED
          BY <1>13, <2>5, <3>2, <3>4, <4>1, <4>2 DEF Covers, Backs
      <3>5. CASE s.thrown /\ w.task.item # Nothing
        <4>1. ~Spent(w) /\ w.disk.snapshot = Nothing
          BY <1>13, <3>5
        <4>2. w.task.original.n = 0
          BY <3>1, <3>5, <4>1 DEF Intact, Uncopied, Spent
        <4>. QED
          BY <4>2 DEF Covers
      <3>. QED
        BY <3>3, <3>4, <3>5
    <2>. QED
      BY <1>13, <2>3, <2>4, <2>6 DEF Kept, Backed
  <1>. QED
    BY <1>15, <1>16, <1>17

(* What a rollback of an item leaves, once the record is written or not. *)
WithoutItem(r, x) ==
    \/ r.thrown /\ x = HeldForJournal(r.w, "journalRebind")
    \/ /\ ~r.thrown
       /\ \E s \in Snapshots(r.w, TRUE) :
             \/ s.thrown /\ x = [s.w EXCEPT !.task.auto = "snapshot"]
             \/ ~s.thrown /\ \E y \in Cancelled(s.w) : x = [y EXCEPT !.task.auto = "restart"]

LEMMA RebindRolledBackCases ==
    ASSUME NEW w, NEW entry, NEW x \in RebindRolledBack(w, entry)
    PROVE  \E r \in Upserts([w EXCEPT !.task.stall = FALSE, !.task.auto = Nothing,
                                      !.task.rebind = Nothing, !.task.fallback = entry], entry) :
              WithoutItem(r, x)
  <1> DEFINE cleared == [w EXCEPT !.task.stall = FALSE, !.task.auto = Nothing,
                                  !.task.rebind = Nothing, !.task.fallback = entry]
             Q(s) == IF s.thrown THEN {[s.w EXCEPT !.task.auto = "snapshot"]}
                     ELSE {[y EXCEPT !.task.auto = "restart"] : y \in Cancelled(s.w)}
             R(r) == IF r.thrown THEN {HeldForJournal(r.w, "journalRebind")}
                     ELSE UNION {Q(s) : s \in Snapshots(r.w, TRUE)}
  <1>1. x \in UNION {R(r) : r \in Upserts(cleared, entry)}
    BY Zenon DEF RebindRolledBack
  <1>2. \A s : x \in Q(s) =>
            \/ s.thrown /\ x = [s.w EXCEPT !.task.auto = "snapshot"]
            \/ ~s.thrown /\ \E y \in Cancelled(s.w) : x = [y EXCEPT !.task.auto = "restart"]
    OBVIOUS
  <1>. HIDE DEF Q
  <1>3. \A r : x \in R(r) =>
            \/ r.thrown /\ x = HeldForJournal(r.w, "journalRebind")
            \/ ~r.thrown /\ \E s \in Snapshots(r.w, TRUE) : x \in Q(s)
    BY Zenon
  <1>4. \E r \in Upserts(cleared, entry) : x \in R(r)
    <2>. HIDE DEF R, cleared
    <2>. QED
      BY <1>1
  <1>. HIDE DEF R, cleared
  <1>5. PICK r \in Upserts(cleared, entry) : x \in R(r)
    BY <1>4
  <1>6. \/ r.thrown /\ x = HeldForJournal(r.w, "journalRebind")
        \/ ~r.thrown /\ \E s \in Snapshots(r.w, TRUE) : x \in Q(s)
    BY <1>3, <1>5
  <1>7. WithoutItem(r, x)
    BY <1>2, <1>6 DEF WithoutItem
  <1>. QED
    BY <1>5, <1>7, Zenon DEF cleared

(* A record an item was made from may be gone back to: its bytes are there. *)
Regained(w, entry) ==
    /\ w.task.startup # {} => w.task.original.n <= entry.n
    /\ w.disk.snapshot = Nothing => Covers(w.disk.partial, entry.n)
    /\ w.disk.snapshot = Nothing /\ ~Spent(w) /\ w.task.item # Nothing => entry.n = 0
    /\ w.disk.snapshot # Nothing /\ ~Spent(w) => Covers(w.disk.snapshot, entry.n)
    /\ w.task.item # Nothing \/ entry = w.disk.journal

(* Going back to the record an item was made from loses nothing of it. *)
LEMMA RebindRolledBackIsKept ==
    ASSUME NEW w, Sound(w), Alive(w), Kept(w), OneFault, NEW entry \in Entry,
           w.owed => Regained(w, entry), NEW x \in RebindRolledBack(w, entry)
    PROVE  /\ Kept(x)
           /\ x.owed => w.owed
           /\ x.task.st = "live" /\ x.task.startup = w.task.startup
  <1>1. w \in Worlds /\ w.task \in Task /\ w.disk \in Disk
    BY FieldsOfWorld DEF Sound
  <1> DEFINE T == [w.task EXCEPT !.stall = FALSE, !.auto = Nothing, !.rebind = Nothing,
                                 !.fallback = entry]
             cleared == [w EXCEPT !.task.stall = FALSE, !.task.auto = Nothing,
                                  !.task.rebind = Nothing, !.task.fallback = entry]
  <1>2. T \in Task
    BY <1>1 DEF Task
  <1>3. /\ cleared \in Worlds /\ cleared.task = T /\ cleared.disk = w.disk
        /\ cleared.owed = w.owed /\ cleared.faults = w.faults
    BY <1>1, <1>2 DEF Worlds
  <1>4. /\ T.st = "live" /\ T.item = w.task.item /\ T.pending = w.task.pending
        /\ T.restored = w.task.restored /\ T.auto = Nothing
        /\ T.fallback = entry /\ T.startup = w.task.startup
        /\ T.original = w.task.original /\ T.rebind = Nothing
    BY <1>1 DEF Task, Alive
  <1>5. PICK r \in Upserts(cleared, entry) : WithoutItem(r, x)
    BY RebindRolledBackCases
  <1>. HIDE DEF T, cleared
  <1>6. entry # Nothing /\ entry.n \in Nat
    <2>1. Bytes \subseteq Nat
      BY DownloadAssumption DEF Bytes, DownloadAssumption
    <2>. QED
      BY <2>1, NothingAssumption DEF NothingAssumption, Entry
  <1>7. /\ r.w \in Worlds /\ r.w.task = T /\ r.w.owed = w.owed
        /\ r.w.disk.partial = w.disk.partial /\ r.w.disk.snapshot = w.disk.snapshot
        /\ ~r.thrown => r.w.disk.journal = entry /\ r.w.faults = w.faults
        /\ r.thrown => r.w.disk = w.disk
        /\ r.thrown => ~Spent(w) /\ Spent(r.w)
    BY <1>3, <1>5, UpsertsCases DEF Spent
  <1>8. Behind(w.task, w.disk) /\ (w.owed => Intact(w.task, w.disk, w.faults))
    BY DEF Kept, Alive
  <1>9. w.task.original # Nothing => w.task.original.n \in Nat
    BY <1>1, Lengths
  <1>10. ASSUME w.owed
         PROVE  /\ w.task.startup # {} => /\ w.task.original.n <= entry.n
                                          /\ w.task.original.n <= w.disk.journal.n
                                          /\ w.task.original.n \in Nat
                /\ w.task.pending # Nothing => (w.task.restored <=> w.task.pending = "restore")
    BY <1>8, <1>9, <1>10 DEF Intact, Originals, Waiting, Regained, Alive
  <1>11. CASE r.thrown
    <2>1. x = HeldForJournal(r.w, "journalRebind")
      BY <1>5, <1>11 DEF WithoutItem
    <2>2. /\ x.disk = r.w.disk /\ x.owed = r.w.owed /\ x.faults = r.w.faults
          /\ x.task.auto = "journalRebind" /\ x.task.st = r.w.task.st
          /\ x.task.item = Nothing <=> r.w.task.item = Nothing
          /\ x.task.item # Nothing => x.task.item.n = r.w.task.item.n
          /\ x.task.pending = r.w.task.pending /\ x.task.restored = r.w.task.restored
          /\ x.task.fallback = r.w.task.fallback /\ x.task.startup = r.w.task.startup
          /\ x.task.original = r.w.task.original /\ x.task.rebind = r.w.task.rebind
      BY <1>7, <2>1, HeldForJournalFields
    <2>3. /\ x.disk = w.disk /\ x.owed = w.owed /\ Spent(x) /\ ~Spent(w)
          /\ x.task.auto = "journalRebind" /\ x.task.st = "live"
          /\ x.task.item = Nothing <=> w.task.item = Nothing
          /\ x.task.item # Nothing => x.task.item.n = w.task.item.n
          /\ x.task.pending = w.task.pending /\ x.task.restored = w.task.restored
          /\ x.task.fallback = entry /\ x.task.startup = w.task.startup
          /\ x.task.original = w.task.original /\ x.task.rebind = Nothing
      BY <1>4, <1>7, <1>11, <2>2 DEF Spent
    <2>4. Behind(x.task, x.disk)
      BY <1>8, <2>3 DEF Behind
    <2>5. ASSUME w.owed
          PROVE  Intact(x.task, x.disk, x.faults)
      <3>1. Intact(w.task, w.disk, w.faults) /\ Regained(w, entry)
        BY <1>8, <2>5
      <3>2. Backed(x.disk)
        BY <2>3, <3>1 DEF Intact
      <3>3. Guarded(x.task, x.disk)
        BY <1>6, <2>3, <3>1 DEF Guarded, Preserved, Regained
      <3>4. Fallbacks(x.task, x.disk, x.faults)
        BY <2>3, <3>1 DEF Fallbacks, Regained, Spent
      <3>5. Originals(x.task, x.disk)
        BY <1>6, <1>10, <2>3, <2>5 DEF Originals, Authority
      <3>6. Uncopied(x.task, x.disk, x.faults)
        BY <2>3, <3>1 DEF Uncopied, Regained, Held, Spent
      <3>7. Creating(x.task, x.disk, x.faults) /\ Leaving(x.task, x.disk) /\ Moving(x.task, x.disk)
        BY <1>6, <2>3 DEF Creating, Leaving, Moving
      <3>8. Waiting(x.task, x.disk)
        BY <1>6, <1>10, <2>3, <2>5 DEF Waiting
      <3>. QED
        BY <3>2, <3>3, <3>4, <3>5, <3>6, <3>7, <3>8 DEF Intact
    <2>. QED
      BY <2>3, <2>4, <2>5 DEF Kept, Intact
  <1>12. ASSUME ~r.thrown, NEW s \in Snapshots(r.w, TRUE)
         PROVE  /\ s.w \in Worlds /\ s.w.task = T /\ s.w.disk.journal = entry
                /\ s.w.disk.partial = w.disk.partial
                /\ s.w.owed => w.owed
                /\ s.w.owed /\ ~s.thrown => Covers(s.w.disk.snapshot, entry.n)
                /\ s.w.owed /\ s.thrown =>
                      \/ entry.n = 0
                      \/ /\ w.task.item = Nothing
                         /\ s.w.disk.snapshot = Nothing /\ Covers(s.w.disk.partial, entry.n)
    <2>1. /\ s.w \in Worlds /\ s.w.task = r.w.task
          /\ Relied(r.w, TRUE, s) \/ Made(r.w, TRUE, s) \/ Missed(r.w, TRUE, s)
      BY <1>7, <1>12, SnapshotsCases
    <2>2. s.w.disk.partial = w.disk.partial /\ s.w.disk.journal = entry
      BY <1>7, <1>12, SnapshotsKeep
    <2>3. s.w.owed => w.owed
      BY <1>7, <2>1 DEF Relied, Made, Missed
    <2>4. /\ w.disk.snapshot # Nothing => w.disk.snapshot.n \in Nat
          /\ w.disk.partial # Nothing => w.disk.partial.n \in Nat
      BY <1>1, Lengths
    <2>5. CASE Relied(r.w, TRUE, s)
      BY <1>6, <1>7, <1>12, <2>1, <2>2, <2>3, <2>4, <2>5 DEF Relied, Short, Regained, Covers, Backs
    <2>6. CASE Made(r.w, TRUE, s)
      <3>1. s.w.disk = [r.w.disk EXCEPT !.snapshot = r.w.disk.partial] /\ r.w.disk \in Disk
        BY <1>7, <2>6, FieldsOfWorld DEF Made
      <3>2. s.w.disk.snapshot = w.disk.partial
        BY <1>7, <3>1 DEF Disk
      <3>. QED
        BY <1>7, <1>12, <2>1, <2>2, <2>3, <2>6, <3>2 DEF Made, Regained
    <2>7. CASE Missed(r.w, TRUE, s)
      BY <1>7, <1>12, <2>1, <2>2, <2>3, <2>7 DEF Missed, Regained, Spent
    <2>. QED
      BY <2>1, <2>5, <2>6, <2>7
  <1>13. ASSUME ~r.thrown, NEW s \in Snapshots(r.w, TRUE), s.thrown,
                x = [s.w EXCEPT !.task.auto = "snapshot"]
         PROVE  Kept(x) /\ (x.owed => w.owed) /\ x.task.st = "live" /\ x.task.startup = w.task.startup
    <2>1. /\ s.w \in Worlds /\ s.w.task = T /\ s.w.disk.journal = entry
          /\ s.w.disk.partial = w.disk.partial
          /\ s.w.owed => w.owed
          /\ s.w.owed =>
                \/ entry.n = 0
                \/ /\ w.task.item = Nothing
                   /\ s.w.disk.snapshot = Nothing /\ Covers(s.w.disk.partial, entry.n)
      BY <1>12, <1>13
    <2> DEFINE U == [T EXCEPT !.auto = "snapshot"]
    <2>2. x.task = U /\ x.disk = s.w.disk /\ x.owed = s.w.owed
      BY <1>13, <2>1 DEF Worlds
    <2>3. /\ U.st = "live" /\ U.item = w.task.item /\ U.pending = w.task.pending
          /\ U.restored = w.task.restored /\ U.auto = "snapshot"
          /\ U.fallback = entry /\ U.startup = w.task.startup
          /\ U.original = w.task.original /\ U.rebind = Nothing
      BY <1>2, <1>4 DEF Task
    <2>. HIDE DEF U
    <2>4. Behind(x.task, x.disk)
      BY <1>8, <2>1, <2>2, <2>3 DEF Behind
    <2>5. ASSUME x.owed
          PROVE  Intact(x.task, x.disk, x.faults)
      <3>1. /\ w.owed
            /\ \/ entry.n = 0
               \/ /\ w.task.item = Nothing
                  /\ x.disk.snapshot = Nothing /\ Covers(x.disk.partial, entry.n)
        BY <2>1, <2>2, <2>5
      <3>2. Backed(x.disk) /\ Guarded(x.task, x.disk) /\ Fallbacks(x.task, x.disk, x.faults)
        BY <1>6, <2>1, <2>2, <2>3, <3>1 DEF Backed, Guarded, Preserved, Covers, Fallbacks
      <3>3. Originals(x.task, x.disk)
        BY <1>6, <1>10, <2>1, <2>2, <2>3, <3>1 DEF Originals, Authority
      <3>4. Uncopied(x.task, x.disk, x.faults)
        BY <1>10, <2>1, <2>2, <2>3, <3>1 DEF Uncopied
      <3>5. Creating(x.task, x.disk, x.faults) /\ Leaving(x.task, x.disk) /\ Moving(x.task, x.disk)
        BY <1>6, <2>2, <2>3 DEF Creating, Leaving, Moving
      <3>6. Waiting(x.task, x.disk)
        BY <1>6, <1>10, <2>2, <2>3, <3>1 DEF Waiting
      <3>. QED
        BY <3>2, <3>3, <3>4, <3>5, <3>6 DEF Intact
    <2>. QED
      BY <2>1, <2>2, <2>3, <2>4, <2>5 DEF Kept, Intact
  <1>14. ASSUME ~r.thrown, NEW s \in Snapshots(r.w, TRUE), ~s.thrown,
                NEW y \in Cancelled(s.w), x = [y EXCEPT !.task.auto = "restart"]
         PROVE  Kept(x) /\ (x.owed => w.owed) /\ x.task.st = "live" /\ x.task.startup = w.task.startup
    <2>1. /\ s.w \in Worlds /\ s.w.task = T /\ s.w.disk.journal = entry
          /\ s.w.disk \in Disk
          /\ s.w.owed => w.owed
          /\ s.w.owed => Covers(s.w.disk.snapshot, entry.n)
      BY <1>12, <1>14, FieldsOfWorld
    <2>2. /\ y \in Worlds /\ y.owed = s.w.owed
          /\ y.task = [T EXCEPT !.item = Nothing, !.verdict = Nothing, !.rebind = Nothing]
          /\ y.disk \in {s.w.disk, [s.w.disk EXCEPT !.partial = Nothing]}
      BY <2>1, <1>14, CancelledKeeps
    <2> DEFINE U == [y.task EXCEPT !.auto = "restart"]
    <2>3. x.task = U /\ x.disk = y.disk /\ x.owed = y.owed
      BY <1>14, <2>2 DEF Worlds
    <2>4. y.task \in Task
      BY <2>2, FieldsOfWorld
    <2>5. /\ U.st = "live" /\ U.item = Nothing /\ U.pending = w.task.pending
          /\ U.restored = w.task.restored /\ U.auto = "restart"
          /\ U.fallback = entry /\ U.startup = w.task.startup
          /\ U.original = w.task.original /\ U.rebind = Nothing
      BY <1>2, <1>4, <2>2, <2>4 DEF Task
    <2>. HIDE DEF U
    <2>6. x.disk.snapshot = s.w.disk.snapshot /\ x.disk.journal = entry
      BY <2>1, <2>2, <2>3 DEF Disk
    <2>7. Behind(x.task, x.disk)
      BY <2>3, <2>5 DEF Behind
    <2>8. ASSUME x.owed
          PROVE  Intact(x.task, x.disk, x.faults)
      <3>1. w.owed /\ Covers(x.disk.snapshot, entry.n)
        BY <2>1, <2>2, <2>3, <2>6, <2>8
      <3>2. Backed(x.disk) /\ Guarded(x.task, x.disk) /\ Fallbacks(x.task, x.disk, x.faults)
        BY <1>6, <2>3, <2>5, <2>6, <3>1 DEF Backed, Guarded, Preserved, Fallbacks
      <3>3. Originals(x.task, x.disk)
        BY <1>6, <1>10, <2>3, <2>5, <2>6, <3>1 DEF Originals, Authority
      <3>4. Uncopied(x.task, x.disk, x.faults)
        BY <2>3, <2>5 DEF Uncopied
      <3>5. Creating(x.task, x.disk, x.faults) /\ Leaving(x.task, x.disk) /\ Moving(x.task, x.disk)
        BY <1>6, <2>3, <2>5 DEF Creating, Leaving, Moving
      <3>6. Waiting(x.task, x.disk)
        BY <1>6, <1>10, <2>3, <2>5, <3>1 DEF Waiting
      <3>. QED
        BY <3>2, <3>3, <3>4, <3>5, <3>6 DEF Intact
    <2>. QED
      BY <2>1, <2>2, <2>3, <2>5, <2>7, <2>8 DEF Kept, Intact
  <1>. QED
    BY <1>5, <1>11, <1>13, <1>14 DEF WithoutItem

(* A section that leaves the task live does not touch what is unsettled of its start. *)
Follows(w, x) == x.task.st = "live" => (x.owed => w.owed) /\ x.task.startup = w.task.startup

LEMMA FollowsIsBegun ==
    ASSUME NEW w, NEW x, Follows(w, x), w.owed => "bind" \notin w.task.startup
    PROVE  Begun(x)
  BY DEF Follows, Begun, Starting

(* Without an item, a request may be made: for the rest, of what is recorded, or *)
(* from the first byte, if nothing is recorded or the record is set aside.       *)
LEMMA AskedIsKept ==
    ASSUME NEW w, Kept(w), Alive(w), w.task.item = Nothing,
           NEW y, y.owed = w.owed, y.disk = w.disk, y.faults = w.faults,
           y.task.st = "live", y.task.item = Nothing, y.task.auto = w.task.auto,
           w.task.auto # "relaunch" /\ w.task.auto # "journalRebind",
           y.task.pending # Nothing => (y.task.restored <=> y.task.pending = "restore"),
           y.owed /\ y.task.fallback = Nothing /\ ~y.task.restored => y.disk.journal.n = 0,
           y.task.fallback = w.task.fallback, y.task.startup = w.task.startup,
           y.task.original = w.task.original,
           y.task.rebind # Nothing =>
               y.task.restored /\ y.task.rebind \in {w.task.rebind, w.disk.journal}
    PROVE  Kept(y)
  <1>1. ASSUME w.owed, OneFault
        PROVE  Intact(y.task, y.disk, y.faults)
    <2>1. Intact(w.task, w.disk, w.faults)
      BY <1>1 DEF Kept, Alive
    <2>2. Backed(y.disk) /\ Guarded(y.task, y.disk) /\ Fallbacks(y.task, y.disk, y.faults)
      BY <2>1 DEF Intact, Guarded, Fallbacks
    <2>3. y.task.rebind # Nothing => y.task.rebind = y.disk.journal
      BY <2>1 DEF Intact, Creating
    <2>4. Originals(y.task, y.disk)
      BY <2>1, <2>3 DEF Intact, Originals, Authority
    <2>5. Uncopied(y.task, y.disk, y.faults) /\ Moving(y.task, y.disk) /\ Leaving(y.task, y.disk)
      BY DEF Uncopied, Moving, Leaving
    <2>6. Creating(y.task, y.disk, y.faults)
      BY <2>3 DEF Creating
    <2>7. Waiting(y.task, y.disk)
      BY <1>1 DEF Waiting
    <2>. QED
      BY <2>2, <2>4, <2>5, <2>6, <2>7 DEF Intact
  <1>2. OneFault => Behind(y.task, y.disk)
    BY DEF Behind
  <1>. QED
    BY <1>1, <1>2 DEF Kept, Intact

LEMMA AskFields ==
    ASSUME NEW w \in Worlds, NEW kind \in Kinds, NEW y, y = Ask(w, kind)
    PROVE  /\ y.disk = w.disk /\ y.owed = w.owed /\ y.faults = w.faults
           /\ y.task.pending = kind
           /\ y.task.st = w.task.st /\ y.task.auto = w.task.auto /\ y.task.item = w.task.item
           /\ y.task.restored = w.task.restored /\ y.task.fallback = w.task.fallback
           /\ y.task.startup = w.task.startup /\ y.task.original = w.task.original
           /\ y.task.rebind = w.task.rebind /\ y.task.awaiting = w.task.awaiting
  <1>1. w.task \in Task /\ w.asked \in [Kinds -> Nat]
    BY FieldsOfWorld
  <1> DEFINE T == [w.task EXCEPT !.pending = kind, !.stall = TRUE]
  <1>2. y = [w EXCEPT !.task.pending = kind, !.task.stall = TRUE, !.asked[kind] = @ + 1]
    BY Zenon DEF Ask
  <1>3. y.disk = w.disk /\ y.owed = w.owed /\ y.faults = w.faults /\ y.task = T
    BY <1>1, <1>2 DEF Worlds
  <1>4. /\ T.pending = kind /\ T.st = w.task.st /\ T.auto = w.task.auto /\ T.item = w.task.item
        /\ T.restored = w.task.restored /\ T.fallback = w.task.fallback
        /\ T.startup = w.task.startup /\ T.original = w.task.original
        /\ T.rebind = w.task.rebind /\ T.awaiting = w.task.awaiting
    BY <1>1 DEF Task
  <1>. QED
    BY <1>3, <1>4

(* How restartFromSource can end. *)
SetAside(s) == s.bytes # Nothing /\ s.bytes >= s.w.disk.journal.n

Aside(s) == IF SetAside(s) THEN [s.w EXCEPT !.task.fallback = s.w.disk.journal] ELSE s.w

Again(x) == [x EXCEPT !.task.restored = FALSE, !.task.resumeOnBind = FALSE,
                      !.task.pending = Nothing, !.task.rebind = Nothing,
                      !.task.auto = Nothing, !.task.stall = FALSE, !.disk.partial = Nothing]

AskedAgain(s, x) ==
    \/ s.thrown /\ x = [s.w EXCEPT !.task.auto = "restart"]
    \/ ~s.thrown /\ x = Ask(Again(Aside(s)), "url")
    \/ ~s.thrown /\ \E y \in Faulty(Aside(s)) : x \in Failed(Again(y), TRUE)

LEMMA RestartedCases ==
    ASSUME NEW w, NEW preserve \in BOOLEAN, NEW x \in Restarted(w, preserve)
    PROVE  \E p \in BOOLEAN :
              /\ w.task.fallback # Nothing => p
              /\ \E s \in Snapshots(w, p) : AskedAgain(s, x)
  <1> DEFINE covered(s) == s.bytes # Nothing /\ s.bytes >= s.w.disk.journal.n
             kept(s) == IF covered(s) THEN [s.w EXCEPT !.task.fallback = s.w.disk.journal] ELSE s.w
             again(y) == [y EXCEPT !.task.restored = FALSE, !.task.resumeOnBind = FALSE,
                                   !.task.pending = Nothing, !.task.rebind = Nothing,
                                   !.task.auto = Nothing, !.task.stall = FALSE,
                                   !.disk.partial = Nothing]
             F(s) == UNION {Failed(again(y), TRUE) : y \in Faulty(kept(s))}
             S(s) == IF s.thrown THEN {[s.w EXCEPT !.task.auto = "restart"]}
                     ELSE {Ask(again(kept(s)), "url")} \cup F(s)
             p == preserve \/ w.task.fallback # Nothing
  <1>1. x \in UNION {S(s) : s \in Snapshots(w, p)}
    BY Zenon DEF Restarted
  <1>2. (\A s : kept(s) = Aside(s)) /\ (\A y : again(y) = Again(y))
    BY Zenon DEF Aside, SetAside, Again
  <1>. HIDE DEF kept, again
  <1>3. \A s : x \in F(s) => \E y \in Faulty(kept(s)) : x \in Failed(again(y), TRUE)
    BY Zenon
  <1>. HIDE DEF F
  <1>4. ASSUME NEW s, x \in S(s)
        PROVE  AskedAgain(s, x)
    BY <1>2, <1>3, <1>4 DEF AskedAgain
  <1>5. p \in BOOLEAN /\ (w.task.fallback # Nothing => p)
    OBVIOUS
  <1>. HIDE DEF S, p
  <1>6. \E s \in Snapshots(w, p) : x \in S(s)
    BY <1>1
  <1>. QED
    BY <1>4, <1>5, <1>6

(* Why the engine waits does not matter to a task without an item. *)
LEMMA KeptWithoutItem ==
    ASSUME NEW w, Kept(w), Alive(w), w.task.item = Nothing, NEW x,
           x.owed = w.owed, w.faults = MaxFaults => x.faults = MaxFaults,
           x.disk = w.disk, x.task.st = "live",
           x.task.item = Nothing,
           x.task.auto # "relaunch" /\ x.task.auto # "journalRebind",
           x.task.pending \in {w.task.pending, Nothing}, x.task.restored = w.task.restored,
           x.task.fallback = w.task.fallback, x.task.startup = w.task.startup,
           x.task.original = w.task.original, x.task.rebind \in {w.task.rebind, Nothing}
    PROVE  Kept(x)
  <1>1. ASSUME w.owed, OneFault
        PROVE  Intact(x.task, x.disk, x.faults)
    <2>1. Intact(w.task, w.disk, w.faults)
      BY <1>1 DEF Kept, Alive
    <2>2. Backed(x.disk) /\ Guarded(x.task, x.disk) /\ Fallbacks(x.task, x.disk, x.faults)
      BY <2>1 DEF Intact, Guarded, Fallbacks
    <2>3. Originals(x.task, x.disk) /\ Waiting(x.task, x.disk)
      BY <2>1 DEF Intact, Originals, Waiting, Authority
    <2>4. Uncopied(x.task, x.disk, x.faults) /\ Moving(x.task, x.disk) /\ Leaving(x.task, x.disk)
      BY DEF Uncopied, Moving, Leaving
    <2>5. Creating(x.task, x.disk, x.faults)
      BY <2>1 DEF Intact, Creating
    <2>. QED
      BY <2>2, <2>3, <2>4, <2>5 DEF Intact
  <1>2. OneFault => Behind(x.task, x.disk)
    BY DEF Behind
  <1>. QED
    BY <1>1, <1>2 DEF Kept, Intact

(* Beginning again at the source gives no recorded byte away: those the *)
(* record names are in the copy, and the record is set aside.           *)
LEMMA AgainIsKept ==
    ASSUME NEW w, Sound(w), Alive(w), Kept(w), w.task.item = Nothing, OneFault,
           NEW p \in BOOLEAN, w.task.fallback # Nothing => p,
           NEW s \in Snapshots(w, p), ~s.thrown,
           NEW y \in Worlds, y.task = Aside(s).task, y.disk = Aside(s).disk,
           y.owed = Aside(s).owed, Spent(s.w) => Spent(y), NEW z, z = Again(y)
    PROVE  /\ Sound(z) /\ Alive(z) /\ Kept(z) /\ Settled(z)
           /\ z.owed => w.owed
           /\ z.task.item = Nothing /\ ~z.task.restored /\ z.task.rebind = Nothing
           /\ z.task.auto = Nothing /\ z.task.startup = w.task.startup
           /\ z.owed /\ z.task.fallback = Nothing => z.disk.journal.n = 0
  <1>1. w \in Worlds /\ w.task \in Task /\ w.disk \in Disk
    BY FieldsOfWorld DEF Sound
  <1>2. /\ s.w \in Worlds /\ s.w.task = w.task
        /\ s.w.disk.partial = w.disk.partial /\ s.w.disk.journal = w.disk.journal
        /\ Kept(s.w)
        /\ s.w.owed => w.owed
        /\ s.w.owed => Covers(s.w.disk.snapshot, Authority(w.task, w.disk).n)
        /\ s.bytes = Size(s.w.disk.snapshot)
    BY <1>1, SnapshotsAreKept
  <1>3. s.w.disk.final = w.disk.final /\ s.w.disk \in Disk /\ s.bytes \in Bytes \cup {Nothing}
    BY <1>1, <1>2, SnapshotsKeep, FieldsOfWorld
  <1> DEFINE f == IF SetAside(s) THEN w.disk.journal ELSE w.task.fallback
             K == [w.task EXCEPT !.fallback = f]
  <1>4. w.task.fallback \in Entry \cup {Nothing} /\ w.disk.journal \in Entry \cup {Nothing}
    BY <1>1, DiskTypes
  <1>5. K \in Task /\ K = [w.task EXCEPT !.fallback = f]
    BY <1>1, <1>4 DEF Task
  <1>6. y.task = K /\ y.disk = s.w.disk /\ y.owed = s.w.owed
    <2>1. CASE SetAside(s)
      <3>1. Aside(s) = [s.w EXCEPT !.task.fallback = w.disk.journal]
        BY <1>2, <2>1 DEF Aside
      <3>. QED
        BY <1>1, <1>2, <2>1, <3>1 DEF Worlds
    <2>2. CASE ~SetAside(s)
      <3>1. w.task = [w.task EXCEPT !.fallback = w.task.fallback]
        BY <1>1 DEF Task
      <3>. QED
        BY <1>2, <2>2, <3>1 DEF Aside
    <2>. QED
      BY <2>1, <2>2
  <1> DEFINE T == [K EXCEPT !.restored = FALSE, !.resumeOnBind = FALSE, !.pending = Nothing,
                            !.rebind = Nothing, !.auto = Nothing, !.stall = FALSE]
             D == [s.w.disk EXCEPT !.partial = Nothing]
  <1>7. T \in Task
    BY <1>5, TaskAsksAgain, Zenon
  <1>8. D \in Disk /\ D.partial = Nothing /\ D.snapshot = s.w.disk.snapshot
        /\ D.journal = w.disk.journal /\ D.final = w.disk.final
    BY <1>2, <1>3 DEF Disk
  <1>9. /\ T.st = "live" /\ T.item = Nothing /\ T.verdict = w.task.verdict
        /\ T.restored = FALSE /\ T.pending = Nothing /\ T.rebind = Nothing /\ T.auto = Nothing
        /\ T.fallback = f /\ T.startup = w.task.startup /\ T.original = w.task.original
    BY <1>1, <1>5 DEF Task, Alive
  <1>. HIDE DEF f, K
  <1>10. z \in Worlds /\ z.task = T /\ z.disk = D /\ z.owed = s.w.owed /\ z.faults = y.faults
    BY <1>6, <1>7, <1>8 DEF Again, Worlds
  <1>. HIDE DEF T, D
  <1>11. Sound(z) /\ Alive(z)
    BY <1>8, <1>9, <1>10, NothingAssumption DEF Sound, Alive, NothingAssumption, Waits
  <1>12. /\ w.disk.journal.n \in Nat
         /\ s.w.disk.snapshot # Nothing => s.w.disk.snapshot.n \in Nat
    BY <1>1, <1>2, Lengths DEF Alive
  <1>13. ASSUME s.w.owed
         PROVE  /\ Covers(s.w.disk.snapshot, w.disk.journal.n)
                /\ f = w.disk.journal \/ (f = Nothing /\ w.disk.journal.n = 0)
    <2>1. Settled(w)
      BY SettledIfNotHeld
    <2>2. Covers(s.w.disk.snapshot, w.disk.journal.n)
      BY <1>2, <1>13, <2>1 DEF Settled, Authority
    <2>3. ~SetAside(s) => w.disk.journal.n = 0
      <3>1. s.w.disk.snapshot # Nothing => s.w.disk.snapshot.n # Nothing
        BY <1>2, DiskTypes, NothingAssumption DEF Content, NothingAssumption
      <3>. QED
        BY <1>2, <1>12, <2>2, <3>1 DEF SetAside, Covers, Backs, Size
    <2>. QED
      BY <1>2, <1>13, <2>1, <2>2, <2>3 DEF Settled, f
  <1>14. ASSUME s.w.owed
         PROVE  Intact(z.task, z.disk, z.faults)
    <2>1. Intact(w.task, w.disk, w.faults)
      BY <1>2, <1>14 DEF Kept, Alive
    <2>2. Backed(z.disk) /\ Guarded(z.task, z.disk) /\ Fallbacks(z.task, z.disk, z.faults)
      BY <1>8, <1>9, <1>10, <1>13, <1>14 DEF Backed, Guarded, Preserved, AtHand, Fallbacks
    <2>3. Originals(z.task, z.disk)
      BY <1>8, <1>9, <1>10, <1>13, <1>14, <2>1 DEF Intact, Originals, Authority
    <2>4. /\ Uncopied(z.task, z.disk, z.faults) /\ Moving(z.task, z.disk) /\ Creating(z.task, z.disk, z.faults)
          /\ Waiting(z.task, z.disk)
      BY <1>9, <1>10 DEF Uncopied, Moving, Creating, Waiting
    <2>5. Leaving(z.task, z.disk)
      BY <1>9, <1>10, NothingAssumption DEF Leaving, NothingAssumption, Waits
    <2>. QED
      BY <2>2, <2>3, <2>4, <2>5 DEF Intact
  <1>15. Behind(z.task, z.disk)
    BY <1>9, <1>10 DEF Behind
  <1>16. Kept(z)
    BY <1>10, <1>14, <1>15 DEF Kept, Intact
  <1>17. Settled(z)
    BY <1>8, <1>9, <1>10, <1>13 DEF Settled
  <1>18. z.owed /\ z.task.fallback = Nothing => z.disk.journal.n = 0
    BY <1>8, <1>9, <1>10, <1>13, <1>4 DEF Alive
  <1>. QED
    BY <1>2, <1>9, <1>10, <1>11, <1>16, <1>17, <1>18

LEMMA RestartedIsKept ==
    ASSUME NEW w, Sound(w), Alive(w), Kept(w), w.task.item = Nothing, OneFault,
           NEW preserve \in BOOLEAN, NEW x \in Restarted(w, preserve)
    PROVE  Kept(x) /\ Follows(w, x)
  <1>1. w \in Worlds /\ w.task \in Task /\ w.disk \in Disk
    BY FieldsOfWorld DEF Sound
  <1>2. PICK p \in BOOLEAN : /\ w.task.fallback # Nothing => p
                             /\ \E s \in Snapshots(w, p) : AskedAgain(s, x)
    BY RestartedCases
  <1>3. PICK s \in Snapshots(w, p) : AskedAgain(s, x)
    BY <1>2
  <1>4. /\ s.w \in Worlds /\ s.w.task = w.task /\ s.w.disk.journal = w.disk.journal
        /\ Kept(s.w)
        /\ s.w.owed => w.owed
    BY <1>1, <1>2, <1>3, SnapshotsAreKept
  <1>5. CASE x = [s.w EXCEPT !.task.auto = "restart"]
    <2> DEFINE T == [w.task EXCEPT !.auto = "restart"]
    <2>1. x.task = T /\ x.disk = s.w.disk /\ x.owed = s.w.owed /\ x.faults = s.w.faults
      BY <1>4, <1>5 DEF Worlds
    <2>2. /\ T.auto = "restart" /\ T.st = "live" /\ T.item = Nothing
          /\ T.pending = w.task.pending /\ T.startup = w.task.startup
          /\ T.original = w.task.original /\ T.fallback = w.task.fallback
          /\ T.restored = w.task.restored /\ T.rebind = w.task.rebind
      BY <1>1 DEF Task, Alive
    <2>3. Alive(s.w)
      BY <1>4 DEF Alive
    <2>. HIDE DEF T
    <2>4. /\ Kept(s.w) /\ Alive(s.w) /\ s.w.task.item = Nothing
          /\ x.owed = s.w.owed /\ x.faults = s.w.faults /\ x.disk = s.w.disk
          /\ x.task.st = "live" /\ x.task.item = Nothing /\ x.task.auto = "restart"
          /\ x.task.pending = s.w.task.pending /\ x.task.restored = s.w.task.restored
          /\ x.task.fallback = s.w.task.fallback /\ x.task.startup = s.w.task.startup
          /\ x.task.original = s.w.task.original /\ x.task.rebind = s.w.task.rebind
      BY <1>4, <2>1, <2>2, <2>3
    <2>5. Kept(x)
      BY <2>4, KeptWithoutItem
    <2>. QED
      BY <1>4, <2>4, <2>5 DEF Follows
  <1>6. ASSUME ~s.thrown, x = Ask(Again(Aside(s)), "url")
        PROVE  Kept(x) /\ Follows(w, x)
    <2>1. Aside(s) \in Worlds /\ Aside(s).faults = s.w.faults
      <3> DEFINE k == [s.w EXCEPT !.task.fallback = s.w.disk.journal]
                 T == [w.task EXCEPT !.fallback = s.w.disk.journal]
      <3>1. T \in Task
        BY <1>1, <1>4, DiskTypes DEF Task
      <3>2. k \in Worlds /\ k.faults = s.w.faults
        BY <1>4, <3>1 DEF Worlds
      <3>. QED
        BY <1>4, <3>2 DEF Aside
    <2> DEFINE z == Again(Aside(s))
    <2>2. /\ Sound(z) /\ Alive(z) /\ Kept(z) /\ Settled(z)
          /\ z.owed => w.owed
          /\ z.task.item = Nothing /\ ~z.task.restored /\ z.task.rebind = Nothing
          /\ z.task.auto = Nothing /\ z.task.startup = w.task.startup
          /\ z.owed /\ z.task.fallback = Nothing => z.disk.journal.n = 0
      <3> DEFINE y == Aside(s)
      <3>1. /\ s \in Snapshots(w, p) /\ ~s.thrown /\ y \in Worlds /\ y.task = Aside(s).task
            /\ y.disk = Aside(s).disk /\ y.owed = Aside(s).owed /\ (Spent(s.w) => Spent(y))
        BY <1>3, <1>6, <2>1 DEF Spent
      <3>. HIDE DEF y
      <3>2. /\ Sound(Again(y)) /\ Alive(Again(y)) /\ Kept(Again(y)) /\ Settled(Again(y))
            /\ Again(y).owed => w.owed
            /\ Again(y).task.item = Nothing /\ ~Again(y).task.restored
            /\ Again(y).task.rebind = Nothing
            /\ Again(y).task.auto = Nothing /\ Again(y).task.startup = w.task.startup
            /\ Again(y).owed /\ Again(y).task.fallback = Nothing => Again(y).disk.journal.n = 0
        BY <1>2, <3>1, AgainIsKept
      <3>. QED
        BY <3>2 DEF y
    <2>3. x = Ask(z, "url")
      BY <1>6
    <2>. HIDE DEF z
    <2>4. /\ x.disk = z.disk /\ x.owed = z.owed /\ x.faults = z.faults
          /\ x.task.pending = "url"
          /\ x.task.st = z.task.st /\ x.task.auto = z.task.auto /\ x.task.item = z.task.item
          /\ x.task.restored = z.task.restored /\ x.task.fallback = z.task.fallback
          /\ x.task.startup = z.task.startup /\ x.task.original = z.task.original
          /\ x.task.rebind = z.task.rebind
      <3>1. z \in Worlds /\ "url" \in Kinds
        BY <2>2 DEF Sound, Kinds
      <3>. QED
        BY <2>3, <3>1, AskFields DEF Kinds
    <2>5. z.task.auto # "relaunch" /\ z.task.auto # "journalRebind" /\ z.task.st = "live"
      BY <2>2, NothingAssumption DEF NothingAssumption, Waits, Alive
    <2>. QED
      BY <2>2, <2>4, <2>5, AskedIsKept DEF Follows
  <1>7. ASSUME ~s.thrown, NEW y \in Faulty(Aside(s)), x \in Failed(Again(y), TRUE)
        PROVE  Kept(x) /\ Follows(w, x)
    <2>1. Aside(s) \in Worlds /\ Aside(s).faults = s.w.faults
      <3> DEFINE k == [s.w EXCEPT !.task.fallback = s.w.disk.journal]
                 T == [w.task EXCEPT !.fallback = s.w.disk.journal]
      <3>1. T \in Task
        BY <1>1, <1>4, DiskTypes DEF Task
      <3>2. k \in Worlds /\ k.faults = s.w.faults
        BY <1>4, <3>1 DEF Worlds
      <3>. QED
        BY <1>4, <3>2 DEF Aside
    <2>2. y \in Worlds /\ y.task = Aside(s).task /\ y.disk = Aside(s).disk
          /\ y.owed = Aside(s).owed /\ Spent(y)
      BY <1>7, <2>1, FaultyKeeps, FaultyIsLast
    <2> DEFINE z == Again(y)
    <2>3. Sound(z) /\ Alive(z) /\ Kept(z) /\ Settled(z)
      <3>1. /\ s \in Snapshots(w, p) /\ ~s.thrown /\ y \in Worlds /\ y.task = Aside(s).task
            /\ y.disk = Aside(s).disk /\ y.owed = Aside(s).owed /\ (Spent(s.w) => Spent(y))
        BY <1>3, <1>7, <2>2
      <3>. QED
        BY <1>2, <3>1, AgainIsKept
    <2>4. x \in Failed(z, TRUE)
      BY <1>7
    <2>. HIDE DEF z
    <2>5. Kept(x) /\ x.task.st # "live"
      BY <2>3, <2>4, FailedIsKept, FailedIsOver DEF Alive, Finished
    <2>. QED
      BY <2>5 DEF Follows
  <1>. QED
    BY <1>3, <1>5, <1>6, <1>7 DEF AskedAgain

(* What rebindFromDisk leaves, once the copy is made or not. *)
LetGo(s, x) ==
    \/ s.thrown /\ x = [s.w EXCEPT !.task.auto = "snapshot"]
    \/ ~s.thrown /\ \E y \in Cancelled(s.w) :
                       x = [y EXCEPT !.task.pending = Nothing, !.task.auto = "relaunch"]

LEMMA ReboundCases ==
    ASSUME NEW w, NEW x \in Rebound(w)
    PROVE  \E p \in BOOLEAN :
              /\ w.task.fallback # Nothing => p
              /\ \E s \in Snapshots(w, p) : LetGo(s, x)
  <1> DEFINE S(s) == IF s.thrown THEN {[s.w EXCEPT !.task.auto = "snapshot"]}
                     ELSE {[y EXCEPT !.task.pending = Nothing, !.task.auto = "relaunch"] :
                               y \in Cancelled(s.w)}
             p == w.task.fallback # Nothing
  <1>1. x \in UNION {S(s) : s \in Snapshots(w, p)}
    BY Zenon DEF Rebound
  <1>2. \A s : x \in S(s) => LetGo(s, x)
    BY DEF LetGo
  <1>3. p \in BOOLEAN /\ (w.task.fallback # Nothing => p)
    OBVIOUS
  <1>. HIDE DEF S, p
  <1>4. \E s \in Snapshots(w, p) : x \in S(s)
    BY <1>1
  <1>. QED
    BY <1>2, <1>3, <1>4

(* An item is given up for another one only once its bytes are in the copy. *)
LEMMA ReboundIsKept ==
    ASSUME NEW w, Sound(w), Alive(w), Kept(w), OneFault, w.task.auto \notin Held,
           NEW x \in Rebound(w)
    PROVE  Kept(x) /\ Follows(w, x)
  <1>1. w \in Worlds /\ w.task \in Task /\ w.disk \in Disk
    BY FieldsOfWorld DEF Sound
  <1>2. PICK p \in BOOLEAN :
              /\ w.task.fallback # Nothing => p
              /\ \E s \in Snapshots(w, p) : LetGo(s, x)
    BY ReboundCases
  <1>3. PICK s \in Snapshots(w, p) : LetGo(s, x)
    BY <1>2
  <1>4. /\ s.w \in Worlds /\ s.w.task = w.task /\ s.w.disk.journal = w.disk.journal
        /\ s.w.disk.partial = w.disk.partial
        /\ Kept(s.w)
        /\ s.w.owed => w.owed
        /\ s.w.owed /\ ~s.thrown => Covers(s.w.disk.snapshot, Authority(w.task, w.disk).n)
    BY <1>1, <1>2, <1>3, SnapshotsAreKept
  <1>5. CASE x = [s.w EXCEPT !.task.auto = "snapshot"]
    <2> DEFINE T == [w.task EXCEPT !.auto = "snapshot"]
    <2>1. x.task = T /\ x.disk = s.w.disk /\ x.owed = s.w.owed /\ x.faults = s.w.faults
      BY <1>4, <1>5 DEF Worlds
    <2>2. /\ T.auto = "snapshot" /\ T.st = w.task.st /\ T.item = w.task.item
          /\ T.pending = w.task.pending /\ T.startup = w.task.startup
          /\ T.original = w.task.original /\ T.fallback = w.task.fallback
          /\ T.restored = w.task.restored /\ T.rebind = w.task.rebind
      BY <1>1 DEF Task
    <2>3. T.auto \notin Held /\ T.auto # "relaunch"
      BY <2>2 DEF Held
    <2>. HIDE DEF T
    <2>4. Kept(x)
      BY <1>4, <2>1, <2>2, <2>3, KeptIfRetimed
    <2>. QED
      BY <1>4, <2>1, <2>2, <2>4 DEF Follows
  <1>6. ASSUME ~s.thrown, NEW y \in Cancelled(s.w),
               x = [y EXCEPT !.task.pending = Nothing, !.task.auto = "relaunch"]
        PROVE  Kept(x) /\ Follows(w, x)
    <2>1. Alive(s.w) /\ Settled(s.w)
      <3>1. Alive(s.w) /\ s.w.task.auto # "journalRebind"
        BY <1>4 DEF Alive, Held
      <3>. QED
        BY <1>4, <3>1, SettledIfNotHeld
    <2>2. s.w.owed => Covers(s.w.disk.snapshot, Authority(s.w.task, s.w.disk).n)
      BY <1>4, <1>6 DEF Authority
    <2>3. /\ Kept(y) /\ Alive(y) /\ y \in Worlds
          /\ y.owed = s.w.owed /\ y.faults = s.w.faults
          /\ y.owed => Covers(y.disk.snapshot, y.disk.journal.n)
          /\ y.task = [s.w.task EXCEPT !.item = Nothing, !.verdict = Nothing, !.rebind = Nothing]
          /\ y.task.item = Nothing /\ y.task.rebind = Nothing
      BY <1>4, <1>6, <2>1, <2>2, LettingGo
    <2> DEFINE T == [y.task EXCEPT !.pending = Nothing, !.auto = "relaunch"]
    <2>4. y.task \in Task
      BY <2>3, FieldsOfWorld
    <2>5. x.task = T /\ x.disk = y.disk /\ x.owed = y.owed /\ x.faults = y.faults
      BY <1>6, <2>3 DEF Worlds
    <2>6. /\ T.auto = "relaunch" /\ T.st = y.task.st /\ T.item = y.task.item
          /\ T.pending = Nothing /\ T.startup = y.task.startup
          /\ T.original = y.task.original /\ T.fallback = y.task.fallback
          /\ T.restored = y.task.restored /\ T.rebind = y.task.rebind
      BY <2>4 DEF Task
    <2>7. y.task.auto = w.task.auto /\ y.task.startup = w.task.startup
      BY <1>1, <1>4, <2>3 DEF Task
    <2>8. T.auto \notin Held
      BY <2>6 DEF Held
    <2>. HIDE DEF T
    <2>9. Kept(x)
      BY <2>3, <2>5, <2>6, <2>7, <2>8, KeptIfRetimed
    <2>. QED
      BY <1>4, <2>3, <2>5, <2>6, <2>7, <2>9 DEF Follows
  <1>. QED
    BY <1>3, <1>5, <1>6 DEF LetGo

(* Where the bytes of a task without an item lie does not matter. *)
LEMMA KeptIfMoved ==
    ASSUME NEW w, Kept(w), Alive(w), w.task.item = Nothing, w.task.auto # "relaunch", NEW x,
           x.owed = w.owed, w.faults = MaxFaults => x.faults = MaxFaults,
           x.task = w.task, x.disk.journal = w.disk.journal,
           x.owed => /\ Preserved(x.disk, x.disk.journal.n)
                     /\ AtHand(x.disk, x.disk.journal.n)
    PROVE  Kept(x)
  <1>1. ASSUME w.owed, OneFault
        PROVE  Intact(x.task, x.disk, x.faults)
    <2>1. Intact(w.task, w.disk, w.faults)
      BY <1>1 DEF Kept, Alive
    <2>2. Fallbacks(x.task, x.disk, x.faults)
      BY <2>1 DEF Intact, Fallbacks
    <2>3. Backed(x.disk) /\ Guarded(x.task, x.disk)
      BY <1>1, <2>1 DEF Intact, Fallbacks, Guarded, Backed, Preserved
    <2>4. Originals(x.task, x.disk) /\ Waiting(x.task, x.disk)
      BY <2>1 DEF Intact, Originals, Waiting, Authority
    <2>5. Uncopied(x.task, x.disk, x.faults) /\ Moving(x.task, x.disk) /\ Leaving(x.task, x.disk)
      BY DEF Uncopied, Moving, Leaving
    <2>6. Creating(x.task, x.disk, x.faults)
      BY <2>1 DEF Intact, Creating
    <2>. QED
      BY <2>2, <2>3, <2>4, <2>5, <2>6 DEF Intact
  <1>2. OneFault => Behind(x.task, x.disk)
    BY DEF Behind
  <1>. QED
    BY <1>1, <1>2 DEF Kept, Intact, Alive

LEMMA PromotedIsKept ==
    ASSUME NEW w \in Worlds, Kept(w), Alive(w), w.task.item = Nothing, OneFault,
           w.task.auto # "relaunch", w.disk.snapshot # Nothing,
           w.owed => Covers(w.disk.snapshot, w.disk.journal.n), NEW x \in Promoted(w)
    PROVE  Kept(x) /\ x.owed = w.owed
  <1>1. w.task \in Task /\ w.disk \in Disk
    BY FieldsOfWorld
  <1>2. CASE x = [w EXCEPT !.disk.partial = w.disk.snapshot, !.disk.snapshot = Nothing]
    <2> DEFINE D == [w.disk EXCEPT !.partial = w.disk.snapshot, !.snapshot = Nothing]
    <2>1. x.task = w.task /\ x.disk = D /\ x.owed = w.owed /\ x.faults = w.faults
      BY <1>1, <1>2 DEF Worlds
    <2>2. D.partial = w.disk.snapshot /\ D.snapshot = Nothing /\ D.journal = w.disk.journal
      BY <1>1 DEF Disk
    <2>. HIDE DEF D
    <2>3. x.owed => /\ Preserved(x.disk, x.disk.journal.n)
                    /\ AtHand(x.disk, x.disk.journal.n)
      BY <2>1, <2>2 DEF Preserved, AtHand
    <2>. QED
      BY <2>1, <2>2, <2>3, KeptIfMoved
  <1>3. CASE x \in Faulty(w)
    BY <1>3, FaultyIsKept, FaultyKeeps
  <1>4. ASSUME NEW y \in Faulty(w), x = [y EXCEPT !.disk.partial = Nothing]
        PROVE  Kept(x) /\ x.owed = w.owed
    <2>1. /\ y \in Worlds /\ y.task = w.task /\ y.disk = w.disk /\ y.owed = w.owed /\ Spent(y)
      BY FaultyKeeps, FaultyIsLast
    <2> DEFINE D == [w.disk EXCEPT !.partial = Nothing]
    <2>2. x.task = w.task /\ x.disk = D /\ x.owed = w.owed /\ x.faults = MaxFaults
      BY <1>4, <2>1 DEF Worlds, Spent
    <2>3. D.partial = Nothing /\ D.snapshot = w.disk.snapshot /\ D.journal = w.disk.journal
      BY <1>1 DEF Disk
    <2>. HIDE DEF D
    <2>4. x.owed => /\ Preserved(x.disk, x.disk.journal.n)
                    /\ AtHand(x.disk, x.disk.journal.n)
      BY <2>2, <2>3 DEF Preserved, AtHand
    <2>. QED
      BY <2>2, <2>3, <2>4, KeptIfMoved
  <1>. QED
    BY <1>2, <1>3, <1>4 DEF Promoted

(* What relaunchFromSnapshot leaves of a world whose copy has taken the file's place. *)
Recreated(z) == Ask([z EXCEPT !.task.restored = TRUE, !.task.resumeOnBind = TRUE], "restore")

Relaunching(z, x) ==
    \/ x \in Restarted(z, TRUE) \/ x \in Restarted(z, FALSE)
    \/ x = Recreated(z)
    \/ x = [Recreated(z) EXCEPT !.task.rebind = z.disk.journal]
    \/ \E u \in Faulty(z) : x \in Restarted(u, FALSE)

LEMMA RelaunchedCases ==
    ASSUME NEW w, NEW x \in Relaunched(w)
    PROVE  LET begun == [w EXCEPT !.task.auto = Nothing]
           IN  \/ x \in Restarted(begun, FALSE)
               \/ w.disk.snapshot # Nothing /\ \E z \in Promoted(begun) : Relaunching(z, x)
  <1> DEFINE begun == [w EXCEPT !.task.auto = Nothing]
             ready(z) == [z EXCEPT !.task.restored = TRUE, !.task.resumeOnBind = TRUE]
             y(z) == Ask(ready(z), "restore")
             F(z) == UNION {Restarted(u, FALSE) : u \in Faulty(z)}
             resumed(z) == {y(z), [y(z) EXCEPT !.task.rebind = z.disk.journal]} \cup F(z)
             R(z) == IF z.disk.snapshot # Nothing THEN Restarted(z, TRUE)
                     ELSE IF /\ z.disk.partial.n \in 1 .. (Full - 1)
                             /\ z.disk.journal.v # Nothing
                     THEN resumed(z) ELSE Restarted(z, FALSE)
  <1>1. x \in IF w.disk.snapshot = Nothing THEN Restarted(begun, FALSE)
              ELSE UNION {R(z) : z \in Promoted(begun)}
    BY Zenon DEF Relaunched
  <1>2. \A z : y(z) = Recreated(z)
    BY Zenon DEF Recreated
  <1>3. \A z : x \in F(z) => \E u \in Faulty(z) : x \in Restarted(u, FALSE)
    OBVIOUS
  <1>. HIDE DEF y, F, begun
  <1>4. ASSUME NEW z, x \in R(z)
        PROVE  Relaunching(z, x)
    BY <1>2, <1>3, <1>4 DEF Relaunching
  <1>. HIDE DEF R
  <1>. QED
    BY <1>1, <1>4 DEF begun

LEMMA RecreatedIsKept ==
    ASSUME NEW z \in Worlds, Kept(z), Alive(z), z.task.item = Nothing, z.task.auto = Nothing,
           NEW x, x = Recreated(z) \/ x = [Recreated(z) EXCEPT !.task.rebind = z.disk.journal]
    PROVE  Kept(x) /\ x.owed = z.owed /\ x.task.startup = z.task.startup
  <1>1. z.task \in Task /\ z.disk \in Disk /\ "restore" \in Kinds
    BY FieldsOfWorld DEF Kinds
  <1> DEFINE R == [z EXCEPT !.task.restored = TRUE, !.task.resumeOnBind = TRUE]
             T == [z.task EXCEPT !.restored = TRUE, !.resumeOnBind = TRUE]
             y == Ask(R, "restore")
             U == [y.task EXCEPT !.rebind = z.disk.journal]
  <1>2. T \in Task
    BY <1>1, TaskRestores
  <1>3. R \in Worlds /\ R.task = T /\ R.disk = z.disk /\ R.owed = z.owed /\ R.faults = z.faults
    BY <1>1, <1>2 DEF Worlds
  <1>4. /\ T.restored /\ T.st = "live" /\ T.auto = Nothing /\ T.item = Nothing
        /\ T.fallback = z.task.fallback /\ T.startup = z.task.startup
        /\ T.original = z.task.original /\ T.rebind = z.task.rebind
    BY <1>1 DEF Task, Alive
  <1>5. x = y \/ x = [y EXCEPT !.task.rebind = z.disk.journal]
    BY DEF Recreated
  <1>. HIDE DEF R, T
  <1>6. /\ y.disk = R.disk /\ y.owed = R.owed /\ y.faults = R.faults
        /\ y.task.pending = "restore"
        /\ y.task.st = R.task.st /\ y.task.auto = R.task.auto /\ y.task.item = R.task.item
        /\ y.task.restored = R.task.restored /\ y.task.fallback = R.task.fallback
        /\ y.task.startup = R.task.startup /\ y.task.original = R.task.original
        /\ y.task.rebind = R.task.rebind
    BY <1>3, AskFields DEF Kinds
  <1>7. y \in Worlds /\ y.task \in Task
    <2>1. [R.task EXCEPT !.pending = "restore", !.stall = TRUE] \in Task
      BY <1>1, <1>2, <1>3, TaskAsks
    <2>0. R.asked \in [Kinds -> Nat]
      BY <1>3, FieldsOfWorld
    <2>2. [R.asked EXCEPT !["restore"] = @ + 1] \in [Kinds -> Nat]
      <3>1. R.asked["restore"] + 1 \in Nat
        BY <1>1, <2>0
      <3>. QED
        BY <2>0, <3>1
    <2>3. y = [R EXCEPT !.task.pending = "restore", !.task.stall = TRUE, !.asked["restore"] = @ + 1]
      BY Zenon DEF Ask
    <2>4. y \in Worlds
      BY <1>3, <2>0, <2>1, <2>2, <2>3 DEF Worlds
    <2>. QED
      BY <2>4, FieldsOfWorld
  <1>. HIDE DEF y
  <1>8. z.task.auto # "relaunch" /\ z.task.auto # "journalRebind"
    BY NothingAssumption DEF NothingAssumption, Waits
  <1>9. CASE x = y
    <2>1. /\ y.disk = z.disk /\ y.owed = z.owed /\ y.faults = z.faults
          /\ y.task.pending = "restore" /\ y.task.restored
          /\ y.task.st = "live" /\ y.task.auto = z.task.auto /\ y.task.item = Nothing
          /\ y.task.fallback = z.task.fallback
          /\ y.task.startup = z.task.startup /\ y.task.original = z.task.original
          /\ y.task.rebind = z.task.rebind
      BY <1>3, <1>4, <1>6
    <2>2. Kept(y)
      BY <1>8, <2>1, AskedIsKept
    <2>. QED
      BY <1>9, <2>1, <2>2
  <1>10. CASE x = [y EXCEPT !.task.rebind = z.disk.journal]
    <2>1. x.task = U /\ x.disk = y.disk /\ x.owed = y.owed /\ x.faults = y.faults
      BY <1>7, <1>10 DEF Worlds
    <2>2. /\ U.pending = y.task.pending /\ U.st = y.task.st /\ U.auto = y.task.auto
          /\ U.item = y.task.item
          /\ U.restored = y.task.restored /\ U.fallback = y.task.fallback
          /\ U.startup = y.task.startup /\ U.original = y.task.original
          /\ U.rebind = z.disk.journal
      BY <1>7 DEF Task
    <2>. HIDE DEF U
    <2>. QED
      BY <1>3, <1>4, <1>6, <1>8, <2>1, <2>2, AskedIsKept
  <1>. QED
    BY <1>5, <1>9, <1>10

LEMMA RelaunchedIsKept ==
    ASSUME NEW w, Sound(w), Alive(w), Kept(w), OneFault, w.task.item = Nothing,
           w.task.auto = "relaunch", NEW x \in Relaunched(w)
    PROVE  Kept(x) /\ Follows(w, x)
  <1>1. w \in Worlds /\ w.task \in Task /\ w.disk \in Disk
    BY FieldsOfWorld DEF Sound
  <1> DEFINE begun == [w EXCEPT !.task.auto = Nothing]
             T == [w.task EXCEPT !.auto = Nothing]
  <1>2. T \in Task
    BY <1>1 DEF Task
  <1>3. begun \in Worlds /\ begun.task = T /\ begun.disk = w.disk
        /\ begun.owed = w.owed /\ begun.faults = w.faults
    BY <1>1, <1>2 DEF Worlds
  <1>4. /\ T.auto = Nothing /\ T.st = w.task.st /\ T.item = Nothing
        /\ T.verdict = w.task.verdict /\ T.pending = w.task.pending
        /\ T.startup = w.task.startup /\ T.original = w.task.original
        /\ T.fallback = w.task.fallback /\ T.restored = w.task.restored
        /\ T.rebind = w.task.rebind
    BY <1>1 DEF Task
  <1>5. \/ x \in Restarted(begun, FALSE)
        \/ w.disk.snapshot # Nothing /\ \E z \in Promoted(begun) : Relaunching(z, x)
    BY RelaunchedCases
  <1>. HIDE DEF begun, T
  <1>6. T.auto # "relaunch" /\ T.auto # "journalRebind" /\ T.auto \notin Held
    BY <1>4, NothingAssumption, NoWait DEF NothingAssumption, Waits
  <1>7. Sound(begun) /\ Alive(begun)
    BY <1>3, <1>4, NothingAssumption DEF Sound, Alive, NothingAssumption, Waits
  <1>8. Kept(begun)
    BY <1>3, <1>4, <1>6, KeptWithoutItem DEF Alive
  <1>9. w.owed => Covers(w.disk.snapshot, w.disk.journal.n)
    BY DEF Kept, Intact, Leaving, Alive
  <1>10. ASSUME NEW z, Sound(z), Alive(z), Kept(z), z.task.item = Nothing, z.owed => w.owed,
                z.task.startup = w.task.startup, x \in Restarted(z, TRUE) \/ x \in Restarted(z, FALSE)
         PROVE  Kept(x) /\ Follows(w, x)
    BY <1>10, RestartedIsKept DEF Follows
  <1>11. CASE x \in Restarted(begun, FALSE)
    BY <1>3, <1>4, <1>7, <1>8, <1>10, <1>11
  <1>12. ASSUME w.disk.snapshot # Nothing, NEW z \in Promoted(begun), Relaunching(z, x)
         PROVE  Kept(x) /\ Follows(w, x)
    <2>1. Kept(z) /\ z.owed = w.owed
      BY <1>3, <1>4, <1>6, <1>7, <1>8, <1>9, <1>12, PromotedIsKept
    <2>2. /\ z \in Worlds /\ z.task = begun.task
          /\ z.disk.final = begun.disk.final /\ z.disk.journal = begun.disk.journal
      BY <1>3, <1>12, PromotedKeeps
    <2>3. Sound(z) /\ Alive(z) /\ z.task.item = Nothing /\ z.task.auto = Nothing
          /\ z.task.startup = w.task.startup
      BY <1>3, <1>4, <1>7, <2>2, NothingAssumption DEF Sound, Alive, NothingAssumption
    <2>4. CASE x \in Restarted(z, TRUE) \/ x \in Restarted(z, FALSE)
      BY <1>10, <2>1, <2>3, <2>4
    <2>5. CASE x = Recreated(z) \/ x = [Recreated(z) EXCEPT !.task.rebind = z.disk.journal]
      BY <2>1, <2>2, <2>3, <2>5, RecreatedIsKept DEF Follows
    <2>6. ASSUME NEW u \in Faulty(z), x \in Restarted(u, FALSE)
          PROVE  Kept(x) /\ Follows(w, x)
      <3>1. u \in Worlds /\ u.task = z.task /\ u.disk = z.disk /\ u.owed = z.owed
        BY <2>2, <2>6, FaultyKeeps
      <3>2. Sound(u) /\ Alive(u) /\ u.task.item = Nothing /\ Kept(u)
        BY <2>1, <2>2, <2>3, <2>6, <3>1, SameTaskIsSound, FaultyIsKept DEF Alive
      <3>. QED
        BY <1>10, <2>1, <2>3, <2>6, <3>1, <3>2
    <2>. QED
      BY <1>12, <2>4, <2>5, <2>6 DEF Relaunching
  <1>. QED
    BY <1>5, <1>11, <1>12

(* A task that is over, and owed to nobody, has nothing to keep. *)
LEMMA GivenUpIsKept ==
    ASSUME NEW x, ~x.owed, x.task.st # "live"
    PROVE  Kept(x)
  BY DEF Kept

LEMMA FailedIsGivenUp ==
    ASSUME NEW w \in Worlds, NEW x \in Failed(w, FALSE)
    PROVE  ~x.owed /\ x.task.st = "failed"
  <1>1. PICK y \in Cancelled(w) : \E z \in Erased(y) : x = Ended(z, "failed")
    BY DEF Failed
  <1>2. PICK z \in Erased(y) : x = Ended(z, "failed")
    BY <1>1
  <1>3. y \in Worlds
    BY CancelledKeeps
  <1> DEFINE gone == [y EXCEPT !.disk.partial = Nothing, !.disk.snapshot = Nothing, !.owed = FALSE]
  <1>4. z \in Worlds /\ ~z.owed
    <2>1. gone.owed = FALSE
      BY <1>3 DEF Worlds
    <2>2. z \in Worlds
      BY <1>3, ErasedKeeps
    <2>3. z = [gone EXCEPT !.disk.journal = Nothing] \/ z \in Faulty(gone)
      BY DEF Erased
    <2>4. [gone EXCEPT !.disk.journal = Nothing].owed = FALSE
      BY <1>3 DEF Worlds
    <2>5. ASSUME NEW u \in Faulty(gone)
          PROVE  u.owed = FALSE
      BY <1>3 DEF Faulty, Worlds
    <2>. QED
      BY <2>2, <2>3, <2>4, <2>5
  <1>5. x.task = [NoTask EXCEPT !.st = "failed"] /\ x.owed = z.owed
    BY <1>2, <1>4 DEF Ended, Worlds
  <1>. QED
    BY <1>4, <1>5 DEF NoTask

(* What a listener or a timer schedules. *)
LEMMA ScheduledFollows ==
    ASSUME NEW w, Sound(w), Alive(w), NEW x \in Scheduled(w)
    PROVE  Follows(w, x)
  <1>1. w \in Worlds /\ w.task \in Task /\ w.disk \in Disk
    BY FieldsOfWorld DEF Sound
  <1>2. ASSUME x = [w EXCEPT !.task.auto = "resume", !.task.attempts = @ + 1, !.task.stall = FALSE]
        PROVE  Follows(w, x)
    <2> DEFINE T == [w.task EXCEPT !.auto = "resume", !.attempts = @ + 1, !.stall = FALSE]
    <2>1. x.task = T /\ x.owed = w.owed
      BY <1>1, <1>2 DEF Worlds
    <2>2. T.startup = w.task.startup
      BY <1>1 DEF Task
    <2>. QED
      BY <2>1, <2>2 DEF Follows
  <1>3. ASSUME NEW s \in Snapshots(w, w.task.fallback # Nothing),
               x = [s.w EXCEPT !.task.auto = "exhausted", !.task.stall = FALSE]
        PROVE  Follows(w, x)
    <2>1. s.w \in Worlds /\ s.w.task = w.task /\ (s.w.owed => w.owed)
      BY <1>1, SnapshotsCases DEF Relied, Made, Missed
    <2> DEFINE T == [w.task EXCEPT !.auto = "exhausted", !.stall = FALSE]
    <2>2. x.task = T /\ x.owed = s.w.owed
      BY <2>1, <1>3 DEF Worlds
    <2>3. T.startup = w.task.startup
      BY <1>1 DEF Task
    <2>. QED
      BY <2>1, <2>2, <2>3 DEF Follows
  <1>4. ASSUME NEW s \in Snapshots(w, w.task.fallback # Nothing),
               NEW y \in Cancelled([s.w EXCEPT !.task.pending = Nothing]), x \in Failed(y, TRUE)
        PROVE  Follows(w, x)
    <2>1. s.w \in Worlds /\ s.w.task = w.task /\ Sound(s.w) /\ s.w.disk.journal = w.disk.journal
      BY <1>1, SnapshotsKeep, SameTaskIsSound
    <2> DEFINE T == [w.task EXCEPT !.pending = Nothing]
               z == [s.w EXCEPT !.task.pending = Nothing]
    <2>2. T \in Task
      BY <1>1 DEF Task
    <2>3. z \in Worlds /\ z.task = T /\ z.disk = s.w.disk
      BY <2>1, <2>2 DEF Worlds
    <2>4. /\ T.auto = w.task.auto /\ T.item = w.task.item
          /\ T.verdict = w.task.verdict /\ T.pending = Nothing
      BY <1>1 DEF Task
    <2>. HIDE DEF T, z
    <2>5. Sound(z)
      BY <2>1, <2>3, <2>4 DEF Sound
    <2>6. Sound(y) /\ y.disk.journal # Nothing
      <3>1. y \in Cancelled(z)
        BY <1>4 DEF z
      <3>2. y.disk \in {z.disk, [z.disk EXCEPT !.partial = Nothing]}
        BY <2>3, <3>1, CancelledKeeps
      <3>3. z.disk \in Disk
        BY <2>3, FieldsOfWorld
      <3>4. y.disk.journal = z.disk.journal
        BY <3>2, <3>3 DEF Disk
      <3>. QED
        BY <2>1, <2>3, <2>5, <3>1, <3>4, CancelledIsSound DEF Alive
    <2> DEFINE p == TRUE
    <2>7. x \in Failed(y, p) /\ p \in BOOLEAN /\ p
      BY <1>4
    <2>. HIDE DEF p
    <2>8. Finished(x)
      BY <2>6, <2>7, FailedIsOver
    <2>. QED
      BY <2>8 DEF Finished, Follows
  <1>. QED
    BY <1>2, <1>3, <1>4, ScheduledCases DEF Follows

LEMMA ResumedIsKept ==
    ASSUME NEW w, Sound(w), Alive(w), Kept(w), OneFault, w.task.auto \notin Held,
           NEW x \in Resumed(w)
    PROVE  Kept(x) /\ Follows(w, x)
  <1>1. w \in Worlds /\ w.task \in Task /\ w.disk \in Disk
    BY FieldsOfWorld DEF Sound
  <1>2. CASE x \in Rebound(w)
    BY <1>2, ReboundIsKept
  <1>3. CASE /\ w.task.item # Nothing
             /\ x = [w EXCEPT !.task.auto = Nothing, !.task.item.st = "running", !.task.stall = TRUE]
    <2> DEFINE i == [w.task.item EXCEPT !.st = "running"]
               T == [w.task EXCEPT !.auto = Nothing, !.item = i, !.stall = TRUE]
    <2>1. i \in Item /\ i.n = w.task.item.n /\ i # Nothing
      BY <1>1, <1>3, NothingAssumption DEF Task, Item, NothingAssumption
    <2>2. x = [w EXCEPT !.task = T]
      BY <1>1, <1>3 DEF Worlds, Task
    <2> HIDE DEF i
    <2>3. x.task = T /\ x.disk = w.disk /\ x.owed = w.owed /\ x.faults = w.faults
      BY <1>1, <2>2 DEF Worlds
    <2>4. /\ T.auto = Nothing /\ T.st = w.task.st /\ T.item = i
          /\ T.pending = w.task.pending /\ T.startup = w.task.startup
          /\ T.original = w.task.original /\ T.fallback = w.task.fallback
          /\ T.restored = w.task.restored /\ T.rebind = w.task.rebind
      BY <1>1 DEF Task
    <2>5. T.auto \notin Held /\ T.auto # "relaunch"
      BY <2>4, NoWait, NothingAssumption DEF NothingAssumption, Waits
    <2> HIDE DEF T
    <2>6. Kept(x)
      BY <1>3, <2>1, <2>3, <2>4, <2>5, KeptIfRetimed
    <2>. QED
      BY <2>3, <2>4, <2>6 DEF Follows
  <1>4. ASSUME NEW y \in Faulty(w), x \in Rebound(y)
        PROVE  Kept(x) /\ Follows(w, x)
    <2>1. y \in Worlds /\ y.task = w.task /\ y.disk = w.disk /\ y.owed = w.owed /\ Kept(y)
      BY <1>1, <1>4, FaultyKeeps, FaultyIsKept
    <2>2. Sound(y) /\ Alive(y)
      BY <2>1, SameTaskIsSound DEF Alive
    <2>3. Kept(x) /\ Follows(y, x)
      BY <1>4, <2>1, <2>2, ReboundIsKept
    <2>. QED
      BY <2>1, <2>3 DEF Follows
  <1> DEFINE F == UNION {Rebound(y) : y \in Faulty(w)}
  <1>5. CASE x \in F
    BY <1>4, <1>5
  <1>6. \/ x \in Rebound(w)
        \/ /\ w.task.item # Nothing
           /\ x = [w EXCEPT !.task.auto = Nothing, !.task.item.st = "running", !.task.stall = TRUE]
        \/ x \in F
    BY Zenon DEF Resumed
  <1>. QED
    BY <1>2, <1>3, <1>5, <1>6

(* A new record names the bytes of the item, which are in its file. *)
LEMMA RenewedIsKept ==
    ASSUME NEW w, Sound(w), Alive(w), Kept(w), OneFault, w.task.item # Nothing,
           w.task.auto \notin Held, NEW r, r.w \in Worlds, Renewed(w, Nothing, r),
           r.w.disk.partial = w.disk.partial, r.w.disk.snapshot = w.disk.snapshot
    PROVE  Kept(r.w)
  <1>1. w \in Worlds /\ w.task \in Task /\ w.disk \in Disk
    BY FieldsOfWorld DEF Sound
  <1> DEFINE T == [w.task EXCEPT !.fallback = Nothing]
             n == w.task.item.n
  <1>2. /\ r.w.task = T /\ r.w.disk.journal # Nothing /\ r.w.disk.journal.n = n
        /\ r.w.faults = w.faults
        /\ r.w.owed = (w.owed \/ (w.task.rebind = Nothing /\ w.task.startup = {}))
        /\ w.task.fallback = Nothing \/ ~(n <= w.task.fallback.n)
    BY DEF Renewed, Claimed
  <1>3. /\ T.auto = w.task.auto /\ T.st = w.task.st /\ T.item = w.task.item
        /\ T.pending = w.task.pending /\ T.startup = w.task.startup
        /\ T.original = w.task.original /\ T.fallback = Nothing
        /\ T.restored = w.task.restored /\ T.rebind = w.task.rebind
    BY <1>1 DEF Task
  <1>4. n \in Nat
    BY <1>1, Lengths
  <1>. HIDE DEF T, n
  <1>5. w.task.pending = Nothing /\ w.task.auto # "relaunch"
    BY DEF Sound
  <1>6. w.task.auto # "journalRebind"
    BY DEF Held
  <1>7. Behind(w.task, w.disk)
    BY DEF Kept, Alive
  <1>8. Covers(r.w.disk.partial, n)
    BY <1>7 DEF Behind, n
  <1>9. w.owed => Intact(w.task, w.disk, w.faults)
    BY DEF Kept, Alive
  <1>10. w.owed => Authority(w.task, w.disk).n \in Nat /\ Authority(w.task, w.disk).n <= n
    <2>1. w.task.fallback # Nothing => w.task.fallback.n \in Nat
      BY <1>1, Lengths
    <2>2. w.disk.journal.n \in Nat
      BY <1>1, Lengths DEF Alive
    <2>3. w.owed /\ w.task.fallback = Nothing => w.disk.journal.n <= n
      BY <1>9 DEF Intact, Moving, n
    <2>. QED
      BY <1>2, <1>4, <2>1, <2>2, <2>3 DEF Authority
  <1>11. /\ w.task.startup # {} => w.task.original # Nothing /\ w.task.original.n \in Nat
         /\ w.task.rebind # Nothing => w.task.rebind.n \in Nat
    BY <1>1, Lengths DEF Alive
  <1>12. w.owed => /\ w.task.startup # {} => w.task.original.n <= n
                   /\ w.task.rebind # Nothing => w.task.rebind.n <= n
    BY <1>4, <1>9, <1>10, <1>11 DEF Intact, Originals, Creating
  <1>13. ASSUME r.w.owed
         PROVE  Intact(r.w.task, r.w.disk, r.w.faults)
    <2>1. Backed(r.w.disk) /\ Guarded(r.w.task, r.w.disk)
      BY <1>2, <1>3, <1>8 DEF Backed, Guarded, AtHand
    <2>2. Fallbacks(r.w.task, r.w.disk, r.w.faults) /\ Waiting(r.w.task, r.w.disk)
          /\ Leaving(r.w.task, r.w.disk)
      BY <1>2, <1>3, <1>5 DEF Fallbacks, Waiting, Leaving
    <2>3. Moving(r.w.task, r.w.disk)
      BY <1>2, <1>3, <1>4 DEF Moving, n
    <2>4. Originals(r.w.task, r.w.disk)
      BY <1>2, <1>3, <1>9, <1>12, <1>13 DEF Originals, Authority, Intact
    <2>5. Uncopied(r.w.task, r.w.disk, r.w.faults)
      BY <1>2, <1>3, <1>9, <1>13 DEF Intact, Uncopied
    <2>6. Creating(r.w.task, r.w.disk, r.w.faults)
      BY <1>2, <1>3, <1>6, <1>9, <1>12, <1>13 DEF Intact, Creating, Authority
    <2>. QED
      BY <2>1, <2>2, <2>3, <2>4, <2>5, <2>6 DEF Intact
  <1>14. Behind(r.w.task, r.w.disk)
    BY <1>2, <1>3, <1>8 DEF Behind, n
  <1>. QED
    BY <1>13, <1>14 DEF Kept, Intact

LEMMA ThrottledIsKept ==
    ASSUME NEW w, Sound(w), Alive(w), Kept(w), OneFault, w.task.item # Nothing,
           w.task.auto \notin Held, NEW r \in Throttled(w)
    PROVE  /\ Kept(r.w) /\ r.w.task.startup = w.task.startup /\ r.w.task.rebind = w.task.rebind
           /\ r.w.owed => w.owed \/ (w.task.rebind = Nothing /\ w.task.startup = {})
           /\ r.w.task.fallback \in {w.task.fallback, Nothing}
           /\ r.w.disk.snapshot = w.disk.snapshot /\ r.w.disk.partial = w.disk.partial
           /\ r.thrown => /\ r.w.task = w.task /\ r.w.disk = w.disk /\ r.w.owed = w.owed
                          /\ ~Spent(w) /\ Spent(r.w)
  <1>1. w \in Worlds /\ w.task \in Task
    BY FieldsOfWorld DEF Sound
  <1>2. CASE r = [w |-> w, thrown |-> FALSE]
    BY <1>2
  <1>3. CASE r \in Persists(w, Nothing)
    <2> DEFINE b == Nothing
    <2>1. b \in Bytes \cup {Nothing} /\ r \in Persists(w, b) /\ b = Nothing
      BY <1>3
    <2>. HIDE DEF b
    <2>2. /\ r.w \in Worlds
          /\ r.w.disk.partial = w.disk.partial /\ r.w.disk.snapshot = w.disk.snapshot
          /\ Left(w, b, r) \/ WentBack(w, b, r) \/ Unwritten(w, r) \/ Renewed(w, b, r)
      BY <1>1, <2>1, PersistsCases
    <2>3. CASE Left(w, b, r)
      BY <2>3 DEF Left
    <2>4. CASE WentBack(w, b, r)
      BY <2>1, <2>4 DEF WentBack
    <2>5. CASE Unwritten(w, r)
      <3>1. w.faults = MaxFaults => r.w.faults = MaxFaults
        BY <2>5 DEF Unwritten, Spent
      <3>2. /\ r.thrown /\ r.w.task = w.task /\ r.w.disk = w.disk /\ r.w.owed = w.owed
            /\ ~Spent(w) /\ Spent(r.w)
        BY <2>5 DEF Unwritten
      <3>3. Kept(r.w)
        BY <3>1, <3>2, KeptIfSame
      <3>. QED
        BY <3>2, <3>3
    <2>6. CASE Renewed(w, b, r)
      <3>1. Renewed(w, Nothing, r)
        BY <2>1, <2>6
      <3>2. Kept(r.w)
        BY <2>2, <3>1, RenewedIsKept
      <3> DEFINE T == [w.task EXCEPT !.fallback = Nothing]
      <3>3. r.w.task = T /\ T.startup = w.task.startup /\ T.rebind = w.task.rebind
            /\ T.fallback = Nothing
        BY <1>1, <2>6 DEF Renewed, Task
      <3>4. /\ r.w.owed => w.owed \/ (w.task.rebind = Nothing /\ w.task.startup = {})
            /\ ~r.thrown
        BY <2>6 DEF Renewed
      <3>. HIDE DEF T
      <3>. QED
        BY <2>2, <3>2, <3>3, <3>4
    <2>. QED
      BY <2>2, <2>3, <2>4, <2>5, <2>6
  <1>. QED
    BY <1>2, <1>3 DEF Throttled

LEMMA ListenedIsKept ==
    ASSUME NEW w, Sound(w), Alive(w), Kept(w), OneFault, w.task.item # Nothing,
           w.task.auto \notin Held, NEW x \in Listened(Throttled(w))
    PROVE  Kept(x) /\ (x.task.st = "live" => x.task.startup = w.task.startup)
  <1> DEFINE S(r) == IF r.thrown THEN Scheduled(r.w) ELSE {r.w}
  <1>1. x \in UNION {S(r) : r \in Throttled(w)}
    BY Zenon DEF Listened
  <1>2. ASSUME NEW r \in Throttled(w), x \in S(r)
        PROVE  Kept(x) /\ (x.task.st = "live" => x.task.startup = w.task.startup)
    <2>1. Kept(r.w) /\ r.w.task.startup = w.task.startup
      BY ThrottledIsKept
    <2>2. Sound(r.w) /\ Alive(r.w)
      <3>1. w.task.auto \notin {"journalRebind", "heldRebind"}
        BY DEF Held
      <3>. QED
        BY <3>1, ThrottledIsGood
    <2>3. CASE x \in Scheduled(r.w)
      BY <2>1, <2>2, <2>3, ScheduledIsKept, ScheduledFollows DEF Follows
    <2>. QED
      BY <1>2, <2>1, <2>3
  <1>. HIDE DEF S
  <1>. QED
    BY <1>1, <1>2

(* A world in which an item is being bound: it may be gone back to the record  *)
(* the item was made from, and no creation but that of the start is unsettled. *)
Binding(w, entry) ==
    w.owed => /\ entry # Nothing => Regained(w, entry)
              /\ "bind" \in w.task.startup => w.task.rebind = Nothing

(* An item that cannot be bound takes nothing with it. *)
LEMMA BindFailedIsKept ==
    ASSUME NEW w, Sound(w), Alive(w), Kept(w), OneFault, w.task.auto = Nothing,
           w.task.item # Nothing, NEW entry \in Entry \cup {Nothing}, Binding(w, entry),
           NEW x \in BindFailed(w, entry)
    PROVE  Kept(x) /\ Begun(x)
  <1>1. w \in Worlds /\ w.task \in Task
    BY FieldsOfWorld DEF Sound
  <1>2. /\ w.task.auto # "journalRebind" /\ w.task.auto # "heldRebind"
    BY NoWait DEF Held
  <1>3. Settled(w)
    BY <1>2, SettledIfNotHeld
  <1>4. CASE "bind" \in w.task.startup
    <2>1. x \in StartupRolledBack(w)
      BY <1>4 DEF BindFailed
    <2>2. w.task.startup \cap {"failed", "bind"} # {}
      BY <1>4
    <2>3. /\ Kept(x)
          /\ x.owed => w.owed
          /\ x.task.st = "live" =>
                /\ x.task.auto = "journalStartup"
                /\ x.task.startup = w.task.startup /\ x.task.rebind = w.task.rebind
                /\ x.task.item = Nothing <=> w.task.item = Nothing
      BY <1>1, <1>2, <1>3, <2>1, <2>2, StartupRolledBackIsKept
    <2>4. w.owed => w.task.rebind = Nothing
      BY <1>4 DEF Binding
    <2>. QED
      BY <2>3, <2>4 DEF Begun, Starting
  <1>5. CASE x \in RebindRolledBack(w, entry) /\ entry # Nothing /\ "bind" \notin w.task.startup
    <2>1. entry \in Entry /\ (w.owed => Regained(w, entry))
      BY <1>5 DEF Binding
    <2>2. Kept(x) /\ x.task.startup = w.task.startup
      BY <1>5, <2>1, RebindRolledBackIsKept
    <2>. QED
      BY <1>5, <2>2 DEF Begun, Starting
  <1>6. CASE x \in Failed(w, FALSE)
    BY <1>1, <1>6, FailedIsGivenUp, GivenUpIsKept DEF Begun
  <1>. QED
    BY <1>4, <1>5, <1>6 DEF BindFailed

LEMMA ShownIsKept ==
    ASSUME NEW w, Sound(w), Alive(w), Kept(w), OneFault, w.task.auto = Nothing,
           w.task.item # Nothing, NEW entry, Binding(w, entry), NEW r \in Shown(w)
    PROVE  /\ Kept(r.w)
           /\ r.thrown => Binding(r.w, entry) /\ r.w.task.auto = Nothing
  <1>1. w \in Worlds /\ w.task \in Task /\ w.disk \in Disk
    BY FieldsOfWorld DEF Sound
  <1> DEFINE b == w.task.item.st = "interrupted"
             d == ~w.task.restored
             y == [w EXCEPT !.task.restored = b]
             z == [w EXCEPT !.task.stall = d]
  <1>2. CASE r \in {[w |-> x, thrown |-> FALSE] : x \in Scheduled(y)}
    <2> DEFINE T == [w.task EXCEPT !.restored = b]
    <2>0. b \in BOOLEAN
      OBVIOUS
    <2> HIDE DEF b
    <2>1. T \in Task
      BY <1>1, <2>0 DEF Task
    <2>2. y \in Worlds /\ y.task = T /\ y.disk = w.disk /\ y.owed = w.owed /\ y.faults = w.faults
      BY <1>1, <2>1 DEF Worlds
    <2>3. /\ T.auto = Nothing /\ T.st = w.task.st /\ T.item = w.task.item
          /\ T.verdict = w.task.verdict /\ T.pending = w.task.pending
          /\ T.startup = w.task.startup /\ T.original = w.task.original
          /\ T.fallback = w.task.fallback /\ T.rebind = w.task.rebind
      BY <1>1 DEF Task
    <2> HIDE DEF T, y
    <2>4. Sound(y) /\ Alive(y)
      BY <2>2, <2>3, NothingAssumption DEF Sound, Alive, NothingAssumption, Waits
    <2>5. Kept(y)
      <3>1. T.pending = Nothing /\ T.item # Nothing
        BY <2>3 DEF Sound
      <3>. QED
        BY <2>2, <2>3, <3>1, KeptIfSame
    <2>6. PICK x \in Scheduled(y) : r = [w |-> x, thrown |-> FALSE]
      BY <1>2
    <2>. QED
      BY <2>4, <2>5, <2>6, ScheduledIsKept
  <1>3. CASE r \in Throttled(z)
    <2> DEFINE T == [w.task EXCEPT !.stall = d]
    <2>0. d \in BOOLEAN
      OBVIOUS
    <2> HIDE DEF d
    <2>1. T \in Task
      BY <1>1, <2>0 DEF Task
    <2>2. z \in Worlds /\ z.task = T /\ z.disk = w.disk /\ z.owed = w.owed /\ z.faults = w.faults
      BY <1>1, <2>1 DEF Worlds
    <2>3. /\ T.auto = Nothing /\ T.st = w.task.st /\ T.item = w.task.item
          /\ T.verdict = w.task.verdict /\ T.pending = w.task.pending
          /\ T.startup = w.task.startup /\ T.original = w.task.original
          /\ T.fallback = w.task.fallback /\ T.rebind = w.task.rebind
          /\ T.restored = w.task.restored
      BY <1>1 DEF Task
    <2> HIDE DEF T, z
    <2>4. Sound(z) /\ Alive(z) /\ z.task.auto \notin Held
      BY <2>2, <2>3, NoWait, NothingAssumption DEF Sound, Alive, NothingAssumption, Waits
    <2>5. Kept(z)
      BY <2>2, <2>3, KeptIfSame
    <2>6. /\ Kept(r.w)
          /\ r.thrown => /\ r.w.task = z.task /\ r.w.disk = z.disk /\ r.w.owed = z.owed
                         /\ Spent(r.w)
      BY <1>3, <2>2, <2>3, <2>4, <2>5, ThrottledIsKept
    <2>. QED
      BY <2>2, <2>3, <2>6 DEF Binding, Regained
  <1> HIDE DEF y, z
  <1>4. \/ r \in {[w |-> x, thrown |-> FALSE] : x \in Scheduled(y)}
        \/ r \in Throttled(z)
    BY Zenon DEF Shown, y, z
  <1>. QED
    BY <1>2, <1>3, <1>4

LEMMA TakenIsKept ==
    ASSUME NEW w, Good(w), Kept(w), w.task.st = "live" => w.task.item # Nothing
    PROVE  Kept(Taken(w)) /\ Begun(Taken(w))
  <1>1. w \in Worlds /\ w.task \in Task /\ w.disk \in Disk
    BY FieldsOfWorld DEF Good, Sound
  <1>2. CASE w.task.st # "live"
    BY <1>2 DEF Taken, Begun
  <1>3. CASE w.task.st = "live"
    <2> DEFINE runs == w.task.resumeOnBind /\ w.task.item.can
               settled == w.task.startup \ {"bind"}
               i == [w.task.item EXCEPT !.st = IF runs THEN "running" ELSE @]
               a == w.task.awaiting /\ ~runs
               l == w.task.stall \/ (runs /\ w.task.auto = Nothing)
               o == IF settled = {} THEN Nothing ELSE w.task.original
               T == [w.task EXCEPT !.resumeOnBind = FALSE, !.item = i, !.awaiting = a,
                                   !.stall = l, !.startup = settled, !.original = o]
    <2>1. i \in Item /\ i.n = w.task.item.n /\ i # Nothing
      BY <1>1, <1>3, NothingAssumption DEF Task, Item, NothingAssumption
    <2>4. Taken(w) = [w EXCEPT !.task = T]
      <3>1. Taken(w) = [w EXCEPT !.task.resumeOnBind = FALSE,
                                 !.task.item.st = IF runs THEN "running" ELSE @,
                                 !.task.awaiting = a, !.task.stall = l,
                                 !.task.startup = settled, !.task.original = o]
        BY <1>3 DEF Taken
      <3> HIDE DEF a, l, o, settled, runs
      <3>. QED
        BY <1>1, <3>1 DEF Worlds, Task
    <2>5. /\ "bind" \notin settled
          /\ settled # {} => w.task.startup # {} /\ o = w.task.original
      OBVIOUS
    <2> HIDE DEF i, a, l, o, settled, runs
    <2>6. /\ Taken(w).task = T /\ Taken(w).disk = w.disk /\ Taken(w).owed = w.owed
          /\ Taken(w).faults = w.faults
      BY <1>1, <2>4 DEF Worlds
    <2>7. /\ T.auto = w.task.auto /\ T.st = w.task.st /\ T.item = i
          /\ T.pending = w.task.pending /\ T.restored = w.task.restored
          /\ T.startup = settled /\ T.original = o
          /\ T.fallback = w.task.fallback /\ T.rebind = w.task.rebind
      BY <1>1 DEF Task
    <2> HIDE DEF T
    <2>8. Kept(Taken(w))
      BY <1>3, <2>1, <2>5, <2>6, <2>7, KeptIfSame
    <2>. QED
      BY <2>5, <2>6, <2>7, <2>8 DEF Begun, Starting
  <1>. QED
    BY <1>2, <1>3

LEMMA BoundIsKept ==
    ASSUME NEW w, Sound(w), Alive(w), Kept(w), OneFault, w.task.auto = Nothing,
           w.task.item # Nothing, NEW entry \in Entry \cup {Nothing}, Binding(w, entry),
           NEW x \in Bound(w, entry)
    PROVE  Kept(x) /\ Begun(x)
  <1> DEFINE S(r) == IF r.thrown THEN BindFailed(r.w, entry) ELSE {Taken(r.w)}
             A == UNION {S(r) : r \in Shown(w)}
             B == UNION {BindFailed(y, entry) : y \in Faulty(w)}
  <1>1. x \in A \cup B
    BY Zenon DEF Bound
  <1>2. ASSUME NEW r \in Shown(w), x \in S(r)
        PROVE  Kept(x) /\ Begun(x)
    <2>1. /\ Kept(r.w)
          /\ r.thrown => Binding(r.w, entry) /\ r.w.task.auto = Nothing
      BY ShownIsKept
    <2>2. /\ Good(r.w)
          /\ r.thrown => Alive(r.w)
          /\ r.w.task.st = "live" => r.w.task.item = w.task.item
      BY ShownIsGood
    <2>3. CASE r.thrown
      <3>1. Sound(r.w) /\ Alive(r.w) /\ r.w.task.item # Nothing
        BY <2>2, <2>3 DEF Good, Alive
      <3>. QED
        BY <1>2, <2>1, <2>3, <3>1, BindFailedIsKept
    <2>4. CASE ~r.thrown
      <3>1. x = Taken(r.w)
        BY <1>2, <2>4
      <3>. QED
        BY <2>1, <2>2, <3>1, TakenIsKept
    <2>. QED
      BY <2>3, <2>4
  <1>3. ASSUME NEW y \in Faulty(w), x \in BindFailed(y, entry)
        PROVE  Kept(x) /\ Begun(x)
    <2>1. y \in Worlds /\ y.task = w.task /\ y.disk = w.disk /\ y.owed = w.owed /\ Spent(y)
          /\ Kept(y)
      BY <1>3, FaultyKeeps, FaultyIsLast, FaultyIsKept DEF Sound
    <2>2. Sound(y) /\ Alive(y)
      BY <2>1, SameTaskIsSound DEF Alive
    <2>3. Binding(y, entry)
      BY <2>1 DEF Binding, Regained
    <2>. QED
      BY <1>3, <2>1, <2>2, <2>3, BindFailedIsKept
  <1> HIDE DEF S
  <1>4. CASE x \in A
    BY <1>2, <1>4
  <1>5. CASE x \in B
    BY <1>3, <1>5
  <1> HIDE DEF A, B
  <1>. QED
    BY <1>1, <1>4, <1>5

(* An item claims bytes that are in the staging file, or begins it anew. *)
Claims(i, d) == i.n = 0 \/ (i.st # "running" /\ Covers(d.partial, i.n))

LEMMA BindFields ==
    ASSUME NEW w \in Worlds, NEW i \in Item, Claims(i, w.disk), NEW x, x = Bind(w, i)
    PROVE  /\ x.owed = w.owed /\ x.faults = w.faults
           /\ x.disk.snapshot = w.disk.snapshot /\ x.disk.journal = w.disk.journal
           /\ x.disk.partial = Nothing <=> (i.st # "running" /\ w.disk.partial = Nothing)
           /\ i.st # "running" => x.disk.partial = w.disk.partial
           /\ Covers(x.disk.partial, i.n)
           /\ x.task.item = i /\ x.task.auto = Nothing /\ x.task.st = w.task.st
           /\ x.task.pending = w.task.pending /\ x.task.restored = w.task.restored
           /\ x.task.fallback = w.task.fallback /\ x.task.startup = w.task.startup
           /\ x.task.original = w.task.original /\ x.task.rebind = w.task.rebind
  <1>1. w.task \in Task /\ w.disk \in Disk
    BY FieldsOfWorld
  <1> DEFINE T == [w.task EXCEPT !.item = i, !.auto = Nothing, !.stall = FALSE]
             f == IF i.st = "running" THEN [v |-> i.v, n |-> 0] ELSE w.disk.partial
             D == [w.disk EXCEPT !.partial = f]
  <1>2. f = Nothing <=> (i.st # "running" /\ w.disk.partial = Nothing)
    <2>1. ASSUME i.st = "running"
          PROVE  f # Nothing
      <3>1. i.v \in Versions /\ 0 \in Bytes
        BY DownloadAssumption DEF Item, DownloadAssumption, Bytes
      <3>2. f \in Content
        BY <2>1, <3>1 DEF Content
      <3>. QED
        BY <3>2, NothingAssumption DEF NothingAssumption
    <2>. QED
      BY <2>1
  <1>3. Covers(f, i.n)
    BY DEF Claims, Covers
  <1>4. x = [w EXCEPT !.task.item = i, !.task.auto = Nothing, !.task.stall = FALSE,
                      !.disk.partial = f]
    BY DEF Bind
  <1>5. i.st # "running" => f = w.disk.partial
    OBVIOUS
  <1> HIDE DEF f
  <1>6. x.task = T /\ x.disk = D /\ x.owed = w.owed /\ x.faults = w.faults
    BY <1>1, <1>4 DEF Worlds
  <1>7. D.partial = f /\ D.snapshot = w.disk.snapshot /\ D.journal = w.disk.journal
    BY <1>1 DEF Disk
  <1>8. /\ T.item = i /\ T.auto = Nothing /\ T.st = w.task.st
        /\ T.pending = w.task.pending /\ T.restored = w.task.restored
        /\ T.fallback = w.task.fallback /\ T.startup = w.task.startup
        /\ T.original = w.task.original /\ T.rebind = w.task.rebind
    BY <1>1 DEF Task
  <1> HIDE DEF T, D
  <1>. QED
    BY <1>2, <1>3, <1>5, <1>6, <1>7, <1>8

(* What an arriving item may destroy is in the copy, or is not recorded. *)
Spared(w) ==
    IF w.task.fallback # Nothing THEN Covers(w.disk.snapshot, w.task.fallback.n)
    ELSE ~w.task.restored /\ w.disk.journal.n = 0

LEMMA BindIsKept ==
    ASSUME NEW w \in Worlds, Kept(w), Alive(w), OneFault, w.task.item = Nothing,
           w.task.pending = Nothing, w.owed => Spared(w),
           NEW i \in Item, Claims(i, w.disk), NEW x, x = Bind(w, i)
    PROVE  /\ Kept(x)
           /\ x.owed /\ x.task.fallback # Nothing => Regained(x, x.task.fallback)
  <1>1. /\ x.owed = w.owed /\ x.faults = w.faults
        /\ x.disk.snapshot = w.disk.snapshot /\ x.disk.journal = w.disk.journal
        /\ Covers(x.disk.partial, i.n)
        /\ x.task.item = i /\ x.task.auto = Nothing /\ x.task.st = w.task.st
        /\ x.task.pending = w.task.pending /\ x.task.restored = w.task.restored
        /\ x.task.fallback = w.task.fallback /\ x.task.startup = w.task.startup
        /\ x.task.original = w.task.original /\ x.task.rebind = w.task.rebind
    BY BindFields
  <1>2. Nothing # "relaunch" /\ Nothing # "journalRebind" /\ Nothing \notin Held
    BY NothingAssumption, NoWait DEF NothingAssumption, Waits
  <1>3. i # Nothing
    BY NothingAssumption DEF NothingAssumption
  <1>4. /\ w.disk.journal # Nothing /\ w.disk.journal.n \in Nat
        /\ w.disk.snapshot # Nothing => w.disk.snapshot.n \in Nat
        /\ w.task.fallback # Nothing => w.task.fallback.n \in Nat
        /\ w.task.startup # {} => w.task.original.n \in Nat
        /\ w.task.rebind # Nothing => w.task.rebind.n \in Nat
        /\ i.n \in Nat
    BY Lengths DEF Alive, Item, Bytes
  <1>5. ASSUME w.owed
        PROVE  /\ Intact(x.task, x.disk, x.faults)
               /\ x.task.fallback # Nothing => Regained(x, x.task.fallback)
    <2>1. Intact(w.task, w.disk, w.faults) /\ Spared(w)
      BY <1>5 DEF Kept, Alive
    <2>2. w.task.fallback # Nothing => w.task.fallback = w.disk.journal
      BY <2>1 DEF Intact, Fallbacks
    <2>3. w.task.startup # {} => /\ w.task.original.n <= w.disk.journal.n
                                 /\ w.task.rebind # Nothing => w.task.original.n <= w.task.rebind.n
      BY <2>1 DEF Intact, Originals
    <2>4. w.task.rebind # Nothing => w.task.rebind = w.disk.journal /\ w.task.fallback # Nothing
      BY <2>1 DEF Intact, Creating, Spared
    <2>5. Backed(x.disk) /\ Guarded(x.task, x.disk)
      BY <1>1, <2>1, <2>2 DEF Backed, Guarded, Spared, Covers, Preserved, AtHand
    <2>6. /\ Fallbacks(x.task, x.disk, x.faults) /\ Waiting(x.task, x.disk)
          /\ Leaving(x.task, x.disk)
      BY <1>1, <1>2, <2>2 DEF Fallbacks, Waiting, Leaving
    <2>7. Originals(x.task, x.disk)
      BY <1>1, <2>2, <2>3 DEF Originals, Authority
    <2>8. Uncopied(x.task, x.disk, x.faults)
      BY <1>1, <1>3, <1>4, <2>1, <2>2, <2>3, <2>4 DEF Uncopied, Spared, Covers, Backs
    <2>9. Creating(x.task, x.disk, x.faults)
      BY <1>1, <1>2, <1>3, <1>4, <2>1, <2>2, <2>4 DEF Creating, Spared, Covers, Backs, Authority
    <2>10. Moving(x.task, x.disk)
      BY <1>1, <1>4, <2>1 DEF Moving, Spared
    <2>11. x.task.fallback # Nothing => Regained(x, x.task.fallback)
      BY <1>1, <1>3, <1>4, <2>1, <2>2, <2>3 DEF Regained, Spared, Covers, Backs
    <2>. QED
      BY <2>5, <2>6, <2>7, <2>8, <2>9, <2>10, <2>11 DEF Intact
  <1>6. Behind(x.task, x.disk)
    BY <1>1 DEF Behind
  <1>. QED
    BY <1>1, <1>5, <1>6 DEF Kept, Intact

(* Without an item the record may be set aside once its bytes are in the copy. *)
LEMMA SetAsideIsKept ==
    ASSUME NEW w, Kept(w), Alive(w), w.task.item = Nothing, w.task.pending = Nothing,
           NEW x, x.owed = w.owed, x.disk = w.disk, x.faults = w.faults,
           x.task.st = w.task.st, x.task.auto = w.task.auto, x.task.item = Nothing,
           x.task.pending = Nothing, x.task.restored = w.task.restored,
           x.task.startup = w.task.startup, x.task.original = w.task.original,
           x.task.rebind = w.task.rebind,
           w.owed => /\ x.task.fallback = w.disk.journal
                     /\ Covers(w.disk.snapshot, w.disk.journal.n)
    PROVE  Kept(x)
  <1>1. ASSUME w.owed, OneFault
        PROVE  Intact(x.task, x.disk, x.faults)
    <2>1. Intact(w.task, w.disk, w.faults)
      BY <1>1 DEF Kept, Alive
    <2>2. Backed(x.disk) /\ Guarded(x.task, x.disk)
      BY <1>1, <2>1 DEF Alive, Guarded, Preserved, Backed
    <2>3. Fallbacks(x.task, x.disk, x.faults) /\ Waiting(x.task, x.disk)
      BY <1>1, <2>1 DEF Intact, Fallbacks, Waiting
    <2>4. Originals(x.task, x.disk)
      BY <1>1, <2>1 DEF Alive, Intact, Originals, Authority
    <2>5. /\ Uncopied(x.task, x.disk, x.faults) /\ Moving(x.task, x.disk)
          /\ Leaving(x.task, x.disk)
      BY <2>1 DEF Uncopied, Moving, Leaving, Intact
    <2>6. Creating(x.task, x.disk, x.faults)
      BY <2>1 DEF Intact, Creating
    <2>. QED
      BY <2>2, <2>3, <2>4, <2>5, <2>6 DEF Intact
  <1>2. Behind(x.task, x.disk)
    BY DEF Behind
  <1>. QED
    BY <1>1, <1>2 DEF Kept, Intact

(* An item that could not be copied is held: nothing but the failure counts. *)
LEMMA HeldIsKept ==
    ASSUME NEW w \in Worlds, Kept(w), Alive(w), OneFault, w.task.item = Nothing,
           w.task.pending = Nothing, w.disk.snapshot = Nothing, Spent(w), Begun(w),
           NEW i \in Item, i.st = "paused", Claims(i, w.disk), NEW b, b = Bind(w, i),
           NEW x, x.owed = b.owed, x.disk = b.disk, x.faults = b.faults,
           x.task.item = b.task.item, x.task.st = b.task.st, x.task.pending = b.task.pending,
           x.task.restored = b.task.restored, x.task.fallback = b.task.fallback,
           x.task.startup = b.task.startup, x.task.original = b.task.original,
           x.task.rebind = b.task.rebind,
           x.task.auto = (IF "bind" \in w.task.startup THEN "heldStartup" ELSE "heldRebind")
    PROVE  Kept(x) /\ Begun(x)
  <1>1. /\ x.owed = w.owed /\ x.faults = MaxFaults
        /\ x.disk.snapshot = Nothing /\ x.disk.journal = w.disk.journal
        /\ x.disk.partial = w.disk.partial
        /\ Covers(x.disk.partial, i.n)
        /\ x.task.item = i /\ x.task.st = w.task.st
        /\ x.task.pending = Nothing
        /\ x.task.fallback = w.task.fallback /\ x.task.startup = w.task.startup
        /\ x.task.original = w.task.original /\ x.task.rebind = w.task.rebind
    BY BindFields DEF Spent
  <1>2. x.task.auto \in Held /\ x.task.auto # "relaunch" /\ x.task.auto # "journalRebind"
    BY DEF Held
  <1>3. i # Nothing
    BY NothingAssumption DEF NothingAssumption
  <1>4. /\ w.disk.journal # Nothing /\ w.disk.journal.n \in Nat
        /\ w.task.rebind # Nothing => w.task.rebind.n \in Nat
    BY Lengths DEF Alive
  <1>5. ASSUME w.owed
        PROVE  Intact(x.task, x.disk, x.faults) /\ Starting(x.task)
    <2>1. Intact(w.task, w.disk, w.faults) /\ Starting(w.task)
      BY <1>5 DEF Kept, Alive, Begun
    <2>2. w.task.fallback # Nothing => w.task.fallback = w.disk.journal
      BY <2>1 DEF Intact, Fallbacks
    <2>3. w.task.rebind # Nothing => w.task.rebind = w.disk.journal
      BY <2>1 DEF Intact, Creating
    <2>4. "bind" \in w.task.startup => w.task.fallback = Nothing /\ w.task.rebind = Nothing
      BY <2>1 DEF Starting
    <2>5. Backed(x.disk) /\ Guarded(x.task, x.disk)
      BY <1>1, <2>1 DEF Intact, Backed, Guarded, Preserved, AtHand
    <2>6. /\ Fallbacks(x.task, x.disk, x.faults) /\ Waiting(x.task, x.disk)
          /\ Leaving(x.task, x.disk) /\ Moving(x.task, x.disk)
      BY <1>1, <1>2, <2>2 DEF Fallbacks, Waiting, Leaving, Moving
    <2>7. Originals(x.task, x.disk)
      BY <1>1, <2>1 DEF Intact, Originals, Authority
    <2>8. Uncopied(x.task, x.disk, x.faults)
      BY <1>1, <1>2, <2>3, <2>4 DEF Uncopied
    <2>9. Creating(x.task, x.disk, x.faults)
      BY <1>1, <1>2, <1>3, <1>4, <2>2, <2>3 DEF Creating, Authority
    <2>10. Starting(x.task)
      BY <1>1, <1>3, <2>4 DEF Starting
    <2>. QED
      BY <2>5, <2>6, <2>7, <2>8, <2>9, <2>10 DEF Intact
  <1>6. Behind(x.task, x.disk)
    BY <1>1 DEF Behind
  <1>. QED
    BY <1>1, <1>5, <1>6 DEF Kept, Intact, Begun

LEMMA AcceptedIsKept ==
    ASSUME NEW w, Sound(w), Alive(w), Kept(w), Begun(w), OneFault, w.task.item = Nothing,
           w.task.pending = Nothing,
           w.owed /\ w.task.fallback = Nothing /\ ~w.task.restored => w.disk.journal.n = 0,
           NEW i \in Item, Claims(i, w.disk), NEW x \in Accepted(w, i)
    PROVE  Kept(x) /\ Begun(x)
  <1>1. w \in Worlds /\ w.task \in Task /\ w.disk \in Disk /\ w.task.verdict = Nothing
    BY FieldsOfWorld DEF Sound
  <1> DEFINE entry == RecoveryEntry(w)
             p == [i EXCEPT !.st = "paused"]
             wait == IF "bind" \in w.task.startup THEN "heldStartup" ELSE "heldRebind"
             held(y) == [Bind(y, p) EXCEPT !.task.auto = wait]
             ready(y) == [y EXCEPT !.task.fallback = entry]
             S(s) == IF s.thrown THEN {held(s.w)} ELSE Bound(Bind(ready(s.w), i), entry)
  <1>2. x \in IF entry = Nothing THEN Bound(Bind(w, i), entry)
              ELSE UNION {S(s) : s \in Snapshots(w, TRUE)}
    BY Zenon DEF Accepted
  <1>3. entry \in Entry \cup {Nothing}
    BY <1>1, RecoveryEntryType
  <1>4. ASSUME w.owed
        PROVE  /\ w.task.fallback # Nothing => w.task.fallback = w.disk.journal
               /\ "bind" \in w.task.startup => w.task.rebind = Nothing
               /\ entry # Nothing => entry = Authority(w.task, w.disk) /\ entry = w.disk.journal
    BY <1>4 DEF Kept, Alive, Begun, Starting, Intact, Fallbacks, RecoveryEntry, Authority
  <1>5. i # Nothing
    BY NothingAssumption DEF NothingAssumption
  <1>6. CASE x \in Bound(Bind(w, i), entry) /\ entry = Nothing
    <2> DEFINE b == Bind(w, i)
    <2>1. w.task.fallback = Nothing /\ ~w.task.restored
      BY <1>1, <1>6, RecoveryEntryType DEF Alive
    <2>2. w.owed => Spared(w)
      BY <2>1 DEF Spared
    <2>3. /\ Sound(b) /\ Alive(b) /\ b.task.item = i /\ b.task.auto = Nothing
      BY <1>1, BindIsGood
    <2>4. b.owed = w.owed /\ b.task.startup = w.task.startup /\ b.task.rebind = w.task.rebind
      BY <1>1, BindFields
    <2>5. Kept(b)
      BY <1>1, <2>2, BindIsKept
    <2>6. Binding(b, entry) /\ x \in Bound(b, entry)
      BY <1>4, <1>6, <2>4 DEF Binding
    <2>. HIDE DEF b, entry
    <2>. QED
      BY <1>3, <1>5, <2>3, <2>5, <2>6, BoundIsKept
  <1>7. ASSUME NEW s \in Snapshots(w, TRUE), entry # Nothing, x \in S(s)
        PROVE  Kept(x) /\ Begun(x)
    <2> DEFINE q == TRUE
    <2>0. s \in Snapshots(w, q) /\ q \in BOOLEAN /\ (w.task.fallback # Nothing => q)
      BY <1>7
    <2>. HIDE DEF q
    <2>1. /\ s.w \in Worlds /\ s.w.task = w.task /\ s.w.disk.journal = w.disk.journal
          /\ s.w.disk.partial = w.disk.partial
          /\ Kept(s.w)
          /\ s.w.owed => w.owed
          /\ s.thrown => Spent(s.w) /\ s.w.disk = w.disk /\ s.w.disk.snapshot = Nothing
          /\ s.w.owed /\ ~s.thrown => Covers(s.w.disk.snapshot, Authority(w.task, w.disk).n)
      BY <1>1, <2>0, SnapshotsAreKept
    <2>2. /\ Sound(s.w) /\ Alive(s.w) /\ s.w.task.verdict = Nothing
          /\ s.w.task.pending = Nothing /\ s.w.task.item = Nothing
      BY <1>1, <2>0, <2>1, SnapshotsKeep, SameTaskIsSound DEF Alive
    <2>3. CASE x = held(s.w) /\ s.thrown
      <3> DEFINE b == Bind(s.w, p)
      <3>1. p \in Item /\ p.st = "paused" /\ p.n = i.n
        BY DEF Item
      <3>2. Claims(p, s.w.disk)
        BY <2>1, <3>1 DEF Claims
      <3>3. Begun(s.w)
        BY <2>1, <2>2 DEF Begun, Alive
      <3> HIDE DEF p
      <3>4. Sound(b)
        BY <2>1, <2>2, <3>1, BindIsGood
      <3>5. x = [b EXCEPT !.task.auto = wait]
        BY <2>3
      <3>6. b = Bind(s.w, p)
        OBVIOUS
      <3> HIDE DEF b
      <3>7. b \in Worlds /\ b.task \in Task
        BY <3>4, FieldsOfWorld DEF Sound
      <3> DEFINE T == [b.task EXCEPT !.auto = wait]
      <3>8. x.task = T /\ x.disk = b.disk /\ x.owed = b.owed /\ x.faults = b.faults
        BY <3>5, <3>7 DEF Worlds
      <3>9. /\ T.auto = wait /\ T.st = b.task.st /\ T.item = b.task.item
            /\ T.pending = b.task.pending
            /\ T.startup = b.task.startup /\ T.original = b.task.original
            /\ T.fallback = b.task.fallback /\ T.restored = b.task.restored
            /\ T.rebind = b.task.rebind
        BY <3>7 DEF Task
      <3>10. wait = (IF "bind" \in s.w.task.startup THEN "heldStartup" ELSE "heldRebind")
        BY <2>1
      <3> HIDE DEF T, wait
      <3>11. s.w.disk.snapshot = Nothing /\ Spent(s.w)
        BY <2>1, <2>3
      <3>. QED
        BY <2>1, <2>2, <3>1, <3>2, <3>3, <3>6, <3>8, <3>9, <3>10, <3>11, HeldIsKept
    <2>4. CASE x \in Bound(Bind(ready(s.w), i), entry) /\ ~s.thrown
      <3> DEFINE y == s.w
                 T == [y.task EXCEPT !.fallback = entry]
                 z == ready(y)
                 b == Bind(z, i)
      <3>1. y \in Worlds /\ y.task \in Task
        BY <2>1, FieldsOfWorld
      <3>2. T \in Task
        BY <1>3, <3>1 DEF Task
      <3>3. /\ z \in Worlds /\ z.task = T /\ z.disk = y.disk
            /\ z.owed = y.owed /\ z.faults = y.faults
        <4> HIDE DEF y
        <4>. QED
          BY <3>1, <3>2 DEF Worlds
      <3>4. /\ T.auto = y.task.auto /\ T.st = y.task.st /\ T.item = y.task.item
            /\ T.verdict = y.task.verdict /\ T.pending = y.task.pending
            /\ T.startup = y.task.startup /\ T.original = y.task.original
            /\ T.fallback = entry /\ T.restored = y.task.restored /\ T.rebind = y.task.rebind
        BY <3>1 DEF Task
      <3>5. x \in Bound(b, entry) /\ b = Bind(z, i)
        BY <2>4
      <3> HIDE DEF z, T, entry, ready, b
      <3>6. Sound(z) /\ Alive(z) /\ z.task.verdict = Nothing /\ z.task.pending = Nothing
        BY <1>7, <2>2, <3>3, <3>4 DEF Sound, Alive
      <3>7. y.owed => /\ entry = y.disk.journal
                      /\ Covers(y.disk.snapshot, y.disk.journal.n)
        BY <1>4, <1>7, <2>1, <2>4
      <3>8. Kept(y) /\ Alive(y) /\ y.task.item = Nothing /\ y.task.pending = Nothing
        BY <2>1, <2>2
      <3> HIDE DEF y
      <3>9. Kept(z)
        BY <3>3, <3>4, <3>7, <3>8, SetAsideIsKept
      <3>10. z.owed => Spared(z)
        BY <1>7, <3>3, <3>4, <3>7 DEF Spared
      <3>11. Claims(i, z.disk)
        BY <2>1, <3>3 DEF Claims, y
      <3>12. Sound(b) /\ Alive(b) /\ b.task.item = i /\ b.task.auto = Nothing
        BY <3>5, <3>6, BindIsGood
      <3>13. /\ b.owed = z.owed /\ b.task.startup = z.task.startup
             /\ b.task.rebind = z.task.rebind /\ b.task.fallback = z.task.fallback
        BY <3>3, <3>5, <3>11, BindFields
      <3>14. /\ Kept(b)
             /\ b.owed /\ b.task.fallback # Nothing => Regained(b, b.task.fallback)
        <4>1. z.task.item = Nothing
          BY <3>3, <3>4, <3>8
        <4>. QED
          BY <3>3, <3>5, <3>6, <3>9, <3>10, <3>11, <4>1, BindIsKept
      <3>15. b.owed => w.owed
        BY <2>1, <3>3, <3>13 DEF y
      <3>16. Binding(b, entry)
        <4>1. b.owed /\ "bind" \in b.task.startup => b.task.rebind = Nothing
          BY <1>4, <2>1, <3>3, <3>4, <3>13, <3>15 DEF y
        <4>. QED
          BY <3>3, <3>4, <3>13, <3>14, <4>1 DEF Binding
      <3>. QED
        BY <1>3, <1>5, <3>5, <3>12, <3>14, <3>16, BoundIsKept
    <2>. QED
      BY <1>7, <2>3, <2>4
  <1> HIDE DEF S
  <1>8. CASE entry = Nothing
    BY <1>2, <1>6, <1>8
  <1>9. CASE entry # Nothing
    <2>1. x \in UNION {S(s) : s \in Snapshots(w, TRUE)}
      BY <1>2, <1>9
    <2>. HIDE DEF entry
    <2>. QED
      BY <1>7, <1>9, <2>1
  <1>. QED
    BY <1>8, <1>9

LEMMA EndedFields ==
    ASSUME NEW w \in Worlds, NEW st \in {"none", "completed", "failed", "kept", "cancelled"},
           NEW x, x = Ended(w, st)
    PROVE  /\ x \in Worlds /\ x.task.st = st
           /\ x.disk = w.disk /\ x.owed = w.owed /\ x.faults = w.faults
           /\ x.task.st # "live"
  <1> DEFINE T == [NoTask EXCEPT !.st = st]
  <1>1. T \in Task
    <2>1. 0 \in 0 .. MaxAttempts
      BY DownloadAssumption DEF DownloadAssumption
    <2>2. {} \in SUBSET {"create", "failed", "bind"}
      OBVIOUS
    <2>. QED
      BY <2>1, <2>2 DEF NoTask, Task
  <1>2. T.st = st
    BY DEF NoTask
  <1>3. x = [w EXCEPT !.task = T]
    BY Zenon DEF Ended
  <1>. HIDE DEF T
  <1>4. x \in Worlds /\ x.task = T /\ x.disk = w.disk /\ x.owed = w.owed /\ x.faults = w.faults
    BY <1>1, <1>3 DEF Worlds
  <1>. QED
    BY <1>2, <1>4

LEMMA CancelledIsGivenUp ==
    ASSUME NEW w \in Worlds, NEW x \in SettledCancelled(w)
    PROVE  ~x.owed /\ x.task.st = "cancelled"
  <1>1. PICK y \in Cancelled(w) : \E z \in Erased(y) : x = Ended(z, "cancelled")
    BY DEF SettledCancelled
  <1>2. PICK z \in Erased(y) : x = Ended(z, "cancelled")
    BY <1>1
  <1>3. y \in Worlds
    BY CancelledKeeps
  <1> DEFINE gone == [y EXCEPT !.disk.partial = Nothing, !.disk.snapshot = Nothing, !.owed = FALSE]
  <1>4. z \in Worlds /\ ~z.owed
    <2>1. gone.owed = FALSE
      BY <1>3 DEF Worlds
    <2>2. z \in Worlds
      BY <1>3, ErasedKeeps
    <2>3. z = [gone EXCEPT !.disk.journal = Nothing] \/ z \in Faulty(gone)
      BY DEF Erased
    <2>4. [gone EXCEPT !.disk.journal = Nothing].owed = FALSE
      BY <1>3 DEF Worlds
    <2>5. ASSUME NEW u \in Faulty(gone)
          PROVE  u.owed = FALSE
      BY <1>3 DEF Faulty, Worlds
    <2>. QED
      BY <2>2, <2>3, <2>4, <2>5
  <1>. QED
    BY <1>2, <1>4, EndedFields

(* A result that cannot be moved to its place leaves the record and the bytes. *)
LEMMA PublishedIsKept ==
    ASSUME NEW w, Sound(w), Alive(w), Kept(w), OneFault, w.task.item # Nothing,
           NEW x \in Published(w)
    PROVE  Kept(x) /\ x.task.st # "live"
  <1>1. w \in Worlds /\ w.task \in Task /\ w.disk \in Disk
    BY FieldsOfWorld DEF Sound
  <1> DEFINE y == [w EXCEPT !.disk.final = w.disk.partial, !.disk.partial = Nothing,
                            !.disk.snapshot = Nothing, !.owed = FALSE]
             D == [w.disk EXCEPT !.final = w.disk.partial, !.partial = Nothing, !.snapshot = Nothing]
             done == Ended(y, "completed")
             F == UNION {Failed(z, TRUE) : z \in Faulty(w)}
  <1>2. x \in ({[done EXCEPT !.disk.journal = Nothing]} \cup Faulty(done)) \cup F
    BY Zenon DEF Published
  <1>3. D \in Disk
    BY <1>1 DEF Disk
  <1>4. y \in Worlds /\ y.owed = FALSE
    BY <1>1, <1>3 DEF Worlds
  <1>5. done \in Worlds /\ ~done.owed /\ done.task.st = "completed"
    <2>. HIDE DEF y
    <2>. QED
      BY <1>4, EndedFields
  <1>. HIDE DEF done
  <1>6. CASE x = [done EXCEPT !.disk.journal = Nothing]
    <2>1. x.owed = done.owed /\ x.task = done.task
      BY <1>5, <1>6 DEF Worlds
    <2>. QED
      BY <1>5, <2>1, GivenUpIsKept
  <1>7. CASE x \in Faulty(done)
    BY <1>5, <1>7, FaultyKeeps, GivenUpIsKept
  <1>8. CASE x \in F
    <2>1. PICK z \in Faulty(w) : x \in Failed(z, TRUE)
      BY <1>8
    <2>2. /\ z \in Worlds /\ z.task = w.task /\ z.disk = w.disk /\ z.owed = w.owed
          /\ Kept(z) /\ ~Spent(w)
      BY <1>1, FaultyKeeps, FaultyIsKept, FaultyIsLast
    <2>3. Sound(z) /\ Alive(z)
      BY <2>2, SameTaskIsSound DEF Alive
    <2>4. Settled(z)
      <3>1. w.owed => Fallbacks(w.task, w.disk, w.faults)
        BY DEF Kept, Alive, Intact
      <3>. QED
        BY <2>2, <3>1 DEF Settled, Fallbacks, Spent
    <2>5. Kept(x)
      BY <2>1, <2>2, <2>3, <2>4, FailedIsKept
    <2> DEFINE p == TRUE
    <2>6. x \in Failed(z, p) /\ p \in BOOLEAN /\ z.disk.journal # Nothing
      BY <2>1, <2>3 DEF Alive
    <2>. HIDE DEF p
    <2>7. Finished(x)
      BY <2>3, <2>6, FailedIsOver
    <2>. QED
      BY <2>5, <2>7 DEF Finished
  <1> HIDE DEF F
  <1>. QED
    BY <1>2, <1>6, <1>7, <1>8

(* What dispose writes down is in the copy it has made before. *)
LEMMA RecordedAtEnd ==
    ASSUME NEW w, Sound(w), Alive(w), Kept(w), OneFault, NEW p \in BOOLEAN,
           w.task.fallback # Nothing => p, NEW s \in Snapshots(w, p), ~s.thrown,
           NEW r \in Persists(s.w, s.bytes)
    PROVE  /\ r.w \in Worlds
           /\ r.thrown => Kept(r.w) /\ r.w.task = w.task /\ (r.w.owed => w.owed)
           /\ ~r.thrown /\ r.w.owed => Covers(r.w.disk.snapshot, r.w.disk.journal.n)
  <1>1. w \in Worlds /\ w.task \in Task
    BY FieldsOfWorld DEF Sound
  <1>2. /\ s.w \in Worlds /\ s.w.task = w.task
        /\ s.w.disk.partial = w.disk.partial /\ s.w.disk.journal = w.disk.journal
        /\ Kept(s.w)
        /\ s.w.owed => w.owed
        /\ s.w.owed => Covers(s.w.disk.snapshot, Authority(w.task, w.disk).n)
        /\ s.bytes = Size(s.w.disk.snapshot)
    BY <1>1, SnapshotsAreKept
  <1>3. s.bytes \in Bytes \cup {Nothing} /\ w.disk.journal # Nothing
    BY <1>1, SnapshotsKeep DEF Alive
  <1>4. /\ r.w \in Worlds
        /\ r.w.disk.partial = s.w.disk.partial /\ r.w.disk.snapshot = s.w.disk.snapshot
        /\ Left(s.w, s.bytes, r) \/ WentBack(s.w, s.bytes, r) \/ Unwritten(s.w, r)
           \/ Renewed(s.w, s.bytes, r)
    BY <1>2, <1>3, PersistsCases
  <1>5. s.bytes = Nothing => s.w.disk.snapshot = Nothing /\ w.disk.partial = Nothing
    <2>1. s.w.disk.snapshot # Nothing => s.w.disk.snapshot.n \in Bytes
      BY <1>2, DiskTypes DEF Content
    <2>2. s.bytes = Nothing => s.w.disk.snapshot = Nothing
      BY <1>2, <2>1, NothingAssumption DEF Size, NothingAssumption
    <2>3. Relied(w, p, s) \/ Made(w, p, s) \/ Missed(w, p, s)
      BY <1>1, SnapshotsCases
    <2>4. w.disk.partial # Nothing => w.disk.partial.n \in Bytes
      BY <1>1, DiskTypes DEF Content
    <2>. QED
      BY <2>2, <2>3, <2>4, NothingAssumption DEF Relied, Made, Missed, NothingAssumption
  <1>6. CASE Unwritten(s.w, r)
    <2>1. /\ r.thrown /\ r.w.task = s.w.task /\ r.w.owed = s.w.owed /\ r.w.disk = s.w.disk
          /\ s.w.faults = MaxFaults => r.w.faults = MaxFaults
      BY <1>6 DEF Unwritten, Spent
    <2>2. Kept(r.w)
      BY <1>2, <2>1, KeptIfSame
    <2>. QED
      BY <1>2, <1>4, <2>1, <2>2
  <1>7. CASE Left(s.w, s.bytes, r)
    <2>1. r.w = s.w /\ ~r.thrown /\ s.bytes = Nothing
      BY <1>7 DEF Left
    <2>2. s.w.owed => Backed(s.w.disk)
      BY <1>2 DEF Kept
    <2>. QED
      BY <1>2, <1>3, <1>4, <1>5, <2>1, <2>2 DEF Backed, Covers, Backs
  <1>8. CASE WentBack(s.w, s.bytes, r)
    BY <1>2, <1>4, <1>8 DEF WentBack, Authority
  <1>9. CASE Renewed(s.w, s.bytes, r)
    <2>1. ~r.thrown /\ r.w.disk.journal.n = Claimed(s.w, s.bytes)
      BY <1>9 DEF Renewed
    <2>2. CASE s.bytes # Nothing
      <3>1. s.w.disk.snapshot # Nothing /\ s.bytes = s.w.disk.snapshot.n
        BY <1>2, <2>2 DEF Size
      <3>2. s.w.disk.snapshot.n \in Nat
        BY <1>2, <3>1, Lengths
      <3>. QED
        BY <1>4, <2>1, <2>2, <3>1, <3>2 DEF Covers, Backs, Claimed
    <2>3. CASE s.bytes = Nothing
      <3>1. Behind(s.w.task, s.w.disk)
        BY <1>2 DEF Kept, Alive
      <3>2. Claimed(s.w, s.bytes) = 0
        BY <1>2, <1>5, <2>3, <3>1 DEF Claimed, Behind, Covers, Backs
      <3>. QED
        BY <1>4, <2>1, <3>2 DEF Covers
    <2>. QED
      BY <2>2, <2>3
  <1>. QED
    BY <1>4, <1>6, <1>7, <1>8, <1>9

(* At the start the copy takes the place of a file that lost the recorded bytes. *)
LEMMA PromotedAtStartIsKept ==
    ASSUME NEW w \in Worlds, w.disk.journal # Nothing, w.owed => Backed(w.disk),
           NEW p \in PromotedAtStart(w)
    PROVE  /\ p.w.owed = w.owed
           /\ p.w.owed => Backed(p.w.disk)
           /\ p.w.owed /\ p.is # "blocked" => Covers(p.w.disk.partial, w.disk.journal.n)
  <1>1. w.task \in Task /\ w.disk \in Disk /\ w.disk.journal.n \in Nat
    BY FieldsOfWorld, Lengths
  <1>2. /\ w.disk.snapshot # Nothing => w.disk.snapshot.n \in Nat
        /\ w.disk.partial # Nothing => w.disk.partial.n \in Nat
    BY Lengths
  <1> DEFINE n == w.disk.journal.n
             S == w.disk.snapshot = Nothing \/ Size(w.disk.snapshot) < n
             R == /\ w.disk.partial # Nothing /\ Size(w.disk.partial) >= n
                  /\ Prefix(w.disk.partial, w.disk.snapshot, n)
             is(x) == IF x.disk.snapshot = Nothing THEN "ready" ELSE "blocked"
  <1>3. CASE S
    <2>1. p = [w |-> w, is |-> "none"]
      BY <1>3 DEF PromotedAtStart
    <2>2. p.w = w
      BY <2>1
    <2>. QED
      BY <1>1, <1>2, <1>3, <2>2 DEF Backed, Covers, Backs, Size
  <1>4. CASE ~S /\ R
    <2>1. \/ p = [w |-> [w EXCEPT !.disk.snapshot = Nothing], is |-> "ready"]
          \/ \E x \in Faulty(w) : p = [w |-> x, is |-> "blocked"]
      BY <1>4 DEF PromotedAtStart
    <2>2. Covers(w.disk.partial, n)
      BY <1>4 DEF Covers, Backs, Size
    <2>3. CASE p = [w |-> [w EXCEPT !.disk.snapshot = Nothing], is |-> "ready"]
      <3> DEFINE D == [w.disk EXCEPT !.snapshot = Nothing]
      <3>1. p.w.disk = D /\ p.w.owed = w.owed
        BY <2>3 DEF Worlds
      <3>2. D.partial = w.disk.partial /\ D.journal = w.disk.journal
        BY <1>1 DEF Disk
      <3>. QED
        BY <2>2, <3>1, <3>2 DEF Backed
    <2>4. ASSUME NEW x \in Faulty(w), p = [w |-> x, is |-> "blocked"]
          PROVE  p.w.disk = w.disk /\ p.w.owed = w.owed
      BY <2>4, FaultyKeeps
    <2>. QED
      BY <2>1, <2>2, <2>3, <2>4
  <1>5. CASE ~S /\ ~R
    <2>1. PICK x \in Promoted(w) : p = [w |-> x, is |-> is(x)]
      BY <1>5 DEF PromotedAtStart
    <2>2. Covers(w.disk.snapshot, n)
      BY <1>1, <1>2, <1>5 DEF Covers, Backs, Size
    <2>3. p.w = x /\ p.is = is(x)
      BY <2>1
    <2>4. CASE x = [w EXCEPT !.disk.partial = w.disk.snapshot, !.disk.snapshot = Nothing]
      <3> DEFINE D == [w.disk EXCEPT !.partial = w.disk.snapshot, !.snapshot = Nothing]
      <3>1. x.disk = D /\ x.owed = w.owed
        BY <2>4 DEF Worlds
      <3>2. D.partial = w.disk.snapshot /\ D.journal = w.disk.journal
        BY <1>1 DEF Disk
      <3>. QED
        BY <2>2, <2>3, <3>1, <3>2 DEF Backed
    <2>5. ASSUME x.disk.snapshot = w.disk.snapshot, x.disk.journal = w.disk.journal,
                 x.owed = w.owed
          PROVE  /\ p.w.owed = w.owed /\ Backed(p.w.disk) /\ p.is = "blocked"
      <3>1. w.disk.snapshot # Nothing
        BY <1>5
      <3>. QED
        BY <2>2, <2>3, <2>5, <3>1 DEF Backed
    <2>6. CASE x \in Faulty(w)
      BY <2>5, <2>6, FaultyKeeps
    <2>7. ASSUME NEW y \in Faulty(w), x = [y EXCEPT !.disk.partial = Nothing]
          PROVE  /\ p.w.owed = w.owed /\ Backed(p.w.disk) /\ p.is = "blocked"
      <3>1. y \in Worlds /\ y.disk = w.disk /\ y.owed = w.owed
        BY <2>7, FaultyKeeps
      <3> DEFINE D == [w.disk EXCEPT !.partial = Nothing]
      <3>2. x.disk = D /\ x.owed = w.owed
        BY <2>7, <3>1 DEF Worlds
      <3>3. D.snapshot = w.disk.snapshot /\ D.journal = w.disk.journal
        BY <1>1 DEF Disk
      <3>. HIDE DEF D
      <3>. QED
        BY <2>5, <3>2, <3>3
    <2>. QED
      BY <2>4, <2>5, <2>6, <2>7 DEF Promoted
  <1>. QED
    BY <1>3, <1>4, <1>5

(* What is made of a record that is found. *)
LEMMA CreatedIsKept ==
    ASSUME NEW z, z.task.st = "live", z.task.item = Nothing, z.task.auto = Nothing,
           z.task.fallback = Nothing, z.task.restored, z.task.awaiting,
           z.task.original = z.disk.journal, z.task.rebind = Nothing,
           z.task.pending \in {Nothing, "restore"},
           z.disk.journal.n \in Nat, Covers(z.disk.partial, z.disk.journal.n)
    PROVE  Kept(z) /\ Begun(z)
  <1>1. Nothing # "relaunch" /\ Nothing # "journalRebind"
    BY NothingAssumption DEF NothingAssumption, Waits
  <1>2. Backed(z.disk) /\ Guarded(z.task, z.disk)
    BY DEF Backed, Guarded, AtHand
  <1>3. /\ Fallbacks(z.task, z.disk, z.faults) /\ Waiting(z.task, z.disk)
        /\ Leaving(z.task, z.disk) /\ Moving(z.task, z.disk)
    BY <1>1 DEF Fallbacks, Waiting, Leaving, Moving
  <1>4. Originals(z.task, z.disk)
    BY DEF Originals, Authority
  <1>5. Uncopied(z.task, z.disk, z.faults) /\ Creating(z.task, z.disk, z.faults)
    BY DEF Uncopied, Creating
  <1>6. Behind(z.task, z.disk)
    BY DEF Behind
  <1>. QED
    BY <1>2, <1>3, <1>4, <1>5, <1>6 DEF Kept, Intact, Begun, Starting

LEMMA RecoveredIsKept ==
    ASSUME NEW p, p.w \in Worlds, Sound(p.w), Finished(p.w), p.w.disk.journal # Nothing,
           OneFault, p.w.owed => Backed(p.w.disk),
           p.w.owed /\ p.is # "blocked" => Covers(p.w.disk.partial, p.w.disk.journal.n),
           NEW x \in Recovered(p)
    PROVE  Kept(x) /\ Begun(x)
  <1> DEFINE w == p.w
             entry == w.disk.journal
             created == [NoTask EXCEPT !.st = "live", !.restored = TRUE, !.awaiting = TRUE,
                                       !.startup = {"create", "bind"}, !.original = entry]
             failed == [created EXCEPT !.startup = {"failed", "bind"}]
             asked == Ask([w EXCEPT !.task = created], "restore")
             F == UNION {StartupRolledBack([y EXCEPT !.task = failed]) : y \in Faulty(w)}
             gone == [w EXCEPT !.disk.partial = Nothing, !.disk.snapshot = Nothing,
                               !.owed = w.owed /\ entry.n > 0]
             C == w.disk.partial # Nothing /\ w.disk.partial.n >= entry.n
  <1>1. w \in Worlds /\ w.task \in Task /\ w.disk \in Disk /\ entry.n \in Nat
    BY FieldsOfWorld, Lengths
  <1>2. \/ x = asked /\ C
        \/ x \in F /\ C
        \/ x = w
        \/ x = [gone EXCEPT !.disk.journal = Nothing] /\ ~C /\ p.is # "blocked"
        \/ x \in Faulty(gone) /\ ~C /\ p.is # "blocked"
    <2> HIDE DEF asked, F, gone
    <2>1. x \in IF C THEN {asked} \cup F
                ELSE IF p.is = "blocked" THEN {w}
                ELSE {[gone EXCEPT !.disk.journal = Nothing]} \cup Faulty(gone)
      BY Zenon DEF Recovered, asked, F, gone
    <2> HIDE DEF C
    <2>. QED
      BY <2>1
  <1>3. created \in Task /\ failed \in Task
    <2>1. 0 \in 0 .. MaxAttempts
      BY DownloadAssumption DEF DownloadAssumption
    <2>2. entry \in Entry \cup {Nothing}
      BY <1>1 DEF Disk
    <2>3. {"create", "bind"} \in SUBSET {"create", "failed", "bind"}
          /\ {"failed", "bind"} \in SUBSET {"create", "failed", "bind"}
      OBVIOUS
    <2> HIDE DEF entry
    <2>4. created \in Task
      BY <2>1, <2>2, <2>3 DEF NoTask, Task
    <2> HIDE DEF created
    <2>5. failed \in Task
      BY <2>3, <2>4 DEF Task
    <2>. QED
      BY <2>4, <2>5
  <1>4. /\ created.st = "live" /\ created.item = Nothing /\ created.verdict = Nothing
        /\ created.pending = Nothing /\ created.auto = Nothing
        /\ created.original = entry /\ created.startup = {"create", "bind"}
        /\ created.fallback = Nothing /\ created.rebind = Nothing
        /\ created.restored /\ created.awaiting
    BY DEF NoTask
  <1>5. /\ failed.st = "live" /\ failed.item = Nothing /\ failed.verdict = Nothing
        /\ failed.pending = Nothing /\ failed.auto = Nothing
        /\ failed.original = entry /\ failed.startup = {"failed", "bind"}
        /\ failed.fallback = Nothing /\ failed.rebind = Nothing
        /\ failed.restored /\ failed.awaiting
    BY DEF NoTask
  <1>6. C => Covers(w.disk.partial, entry.n)
    BY DEF Covers, Backs
  <1> HIDE DEF created, failed, C
  <1>7. CASE x = asked /\ C
    <2> DEFINE z == [w EXCEPT !.task = created]
               k == "restore"
    <2>1. z \in Worlds /\ z.task = created /\ z.disk = w.disk
      BY <1>1, <1>3 DEF Worlds
    <2>2. x = Ask(z, k) /\ k \in Kinds
      BY <1>7 DEF Kinds
    <2>. HIDE DEF z, k
    <2>3. /\ x.disk = z.disk /\ x.task.pending = k
          /\ x.task.st = z.task.st /\ x.task.auto = z.task.auto /\ x.task.item = z.task.item
          /\ x.task.restored = z.task.restored /\ x.task.fallback = z.task.fallback
          /\ x.task.original = z.task.original
          /\ x.task.rebind = z.task.rebind /\ x.task.awaiting = z.task.awaiting
      BY <2>1, <2>2, AskFields
    <2>4. k = "restore"
      BY DEF k
    <2>. QED
      BY <1>1, <1>4, <1>6, <1>7, <2>1, <2>3, <2>4, CreatedIsKept
  <1>8. CASE x \in F /\ C
    <2>1. PICK y \in Faulty(w) : x \in StartupRolledBack([y EXCEPT !.task = failed])
      BY <1>8
    <2>2. y \in Worlds /\ y.disk = w.disk
      BY <1>1, <2>1, FaultyKeeps
    <2> DEFINE z == [y EXCEPT !.task = failed]
    <2>3. z \in Worlds /\ z.task = failed /\ z.disk = w.disk
      BY <1>3, <2>2 DEF Worlds
    <2>4. x \in StartupRolledBack(z)
      BY <2>1
    <2> HIDE DEF z
    <2>5. Alive(z)
      BY <1>5, <2>3, NothingAssumption DEF Alive, NothingAssumption, Waits
    <2>6. Kept(z) /\ Begun(z)
      BY <1>1, <1>5, <1>6, <1>8, <2>3, CreatedIsKept
    <2>7. Settled(z) /\ z.task.auto # "heldRebind" /\ z.task.startup \cap {"failed", "bind"} # {}
      BY <1>5, <2>3, NothingAssumption DEF Settled, NothingAssumption, Waits
    <2>8. /\ Kept(x)
          /\ x.owed => z.owed
          /\ x.task.st = "live" =>
                /\ x.task.auto = "journalStartup"
                /\ x.task.startup = z.task.startup /\ x.task.rebind = z.task.rebind
                /\ x.task.item = Nothing <=> z.task.item = Nothing
                /\ x.task.awaiting = z.task.awaiting /\ x.task.restored = z.task.restored
                /\ x.task.fallback = z.task.fallback
      BY <2>3, <2>4, <2>5, <2>6, <2>7, StartupRolledBackIsKept
    <2>. QED
      BY <1>5, <2>3, <2>8 DEF Begun, Starting
  <1>9. CASE x = w
    BY <1>9 DEF Finished, Kept, Begun
  <1>10. ASSUME ~C, p.is # "blocked"
         PROVE  gone.owed = FALSE /\ gone.task = w.task
    <2>1. ~(w.owed /\ entry.n > 0)
      <3>1. w.disk.partial # Nothing => w.disk.partial.n \in Nat
        BY <1>1, Lengths
      <3>. QED
        BY <1>1, <1>10, <3>1 DEF C, Covers, Backs
    <2> DEFINE o == w.owed /\ entry.n > 0
    <2>2. gone = [w EXCEPT !.disk.partial = Nothing, !.disk.snapshot = Nothing, !.owed = o]
      OBVIOUS
    <2>3. o = FALSE
      BY <2>1
    <2> HIDE DEF o, gone
    <2>4. gone.owed = o /\ gone.task = w.task
      BY <1>1, <2>2 DEF Worlds
    <2>. QED
      BY <2>3, <2>4
  <1>11. gone \in Worlds
    <2> DEFINE o == w.owed /\ entry.n > 0
               D == [w.disk EXCEPT !.partial = Nothing, !.snapshot = Nothing]
    <2>1. o \in BOOLEAN
      BY <1>1, FieldsOfWorld
    <2>2. gone = [w EXCEPT !.disk.partial = Nothing, !.disk.snapshot = Nothing, !.owed = o]
      OBVIOUS
    <2>3. D \in Disk
      BY <1>1 DEF Disk
    <2> HIDE DEF o, gone
    <2>. QED
      BY <1>1, <2>1, <2>2, <2>3 DEF Worlds
  <1>12. w.task.st # "live"
    BY DEF Finished
  <1> HIDE DEF gone
  <1>13. CASE x = [gone EXCEPT !.disk.journal = Nothing] /\ ~C /\ p.is # "blocked"
    <2>1. x.owed = gone.owed /\ x.task = gone.task
      BY <1>11, <1>13 DEF Worlds
    <2>. QED
      BY <1>10, <1>12, <1>13, <2>1 DEF Kept, Begun
  <1>14. CASE x \in Faulty(gone) /\ ~C /\ p.is # "blocked"
    <2>1. x.owed = gone.owed /\ x.task = gone.task
      BY <1>11, <1>14, FaultyKeeps
    <2>. QED
      BY <1>10, <1>12, <1>14, <2>1 DEF Kept, Begun
  <1>. QED
    BY <1>2, <1>7, <1>8, <1>9, <1>13, <1>14

(* An item that has written further, or again, in its own file. *)
LEMMA WrittenIsKept ==
    ASSUME NEW w, Sound(w), Alive(w), Kept(w), OneFault, w.task.item # Nothing,
           w.task.auto \notin Held, NEW x,
           x.owed => w.owed /\ (w.task.fallback # Nothing \/ x.task.item.n >= w.task.item.n),
           w.faults = MaxFaults => x.faults = MaxFaults,
           x.disk.partial # Nothing, x.disk.partial.n = x.task.item.n, x.task.item.n \in Nat,
           x.disk.snapshot = w.disk.snapshot, x.disk.journal = w.disk.journal,
           x.task.st = w.task.st, x.task.item # Nothing,
           x.task.pending = w.task.pending,
           x.task.auto \notin Held, x.task.auto # "relaunch",
           x.task.fallback = w.task.fallback, x.task.startup = w.task.startup,
           x.task.original = w.task.original, x.task.rebind = w.task.rebind
    PROVE  Kept(x)
  <1>1. /\ w \in Worlds /\ w.task.pending = Nothing /\ w.disk.journal # Nothing
        /\ w.task.auto \notin {"journalRebind", "heldRebind"}
    BY DEF Sound, Alive, Held
  <1>2. /\ w.disk.journal.n \in Nat /\ w.task.item.n \in Nat
        /\ w.task.fallback # Nothing => w.task.fallback.n \in Nat
    BY <1>1, Lengths
  <1>3. Covers(x.disk.partial, x.task.item.n)
    BY DEF Covers, Backs
  <1>4. x.task.st = "live" => Behind(x.task, x.disk)
    BY <1>3 DEF Behind
  <1>5. ASSUME x.owed
        PROVE  Backed(x.disk) /\ Intact(x.task, x.disk, x.faults)
    <2>1. Intact(w.task, w.disk, w.faults) /\ w.task.st = "live"
      BY <1>5 DEF Kept, Alive
    <2>2. w.task.fallback # Nothing =>
              /\ w.task.fallback = w.disk.journal
              /\ Covers(w.disk.snapshot, w.disk.journal.n)
      BY <1>1, <2>1 DEF Intact, Fallbacks, Guarded, Preserved, Uncopied, Covers
    <2>3. w.task.fallback = Nothing =>
              /\ w.disk.journal.n <= x.task.item.n
              /\ Covers(x.disk.partial, w.disk.journal.n)
      BY <1>2, <1>5, <2>1 DEF Intact, Moving, Covers, Backs
    <2>4. Backed(x.disk)
      BY <2>2, <2>3 DEF Backed
    <2>5. Guarded(x.task, x.disk) /\ Fallbacks(x.task, x.disk, x.faults)
      BY <2>2, <2>3 DEF Guarded, Fallbacks, Preserved, AtHand
    <2>6. Originals(x.task, x.disk) /\ Uncopied(x.task, x.disk, x.faults)
      BY <1>1, <2>1 DEF Intact, Originals, Uncopied, Authority
    <2>7. Creating(x.task, x.disk, x.faults)
      BY <2>1 DEF Intact, Creating, Authority, Held
    <2>8. Waiting(x.task, x.disk) /\ Leaving(x.task, x.disk) /\ Moving(x.task, x.disk)
      BY <1>1, <2>3 DEF Waiting, Leaving, Moving
    <2>. QED
      BY <2>4, <2>5, <2>6, <2>7, <2>8 DEF Intact
  <1>. QED
    BY <1>4, <1>5 DEF Kept

(* What the recorded bytes rest on, in the state of the engine. *)
Lasting == Kept(World) /\ Begun(World)

LEMMA TurnIsLasting ==
    ASSUME NEW w, TurnsInto(w), Kept(w), Begun(w)
    PROVE  Lasting'
  BY DEF TurnsInto, World, Lasting, Kept, Begun

LEMMA OverIsBegun ==
    ASSUME NEW w, ~w.owed \/ w.task.st # "live" \/ w.task.startup = {}
    PROVE  Begun(w)
  BY DEF Begun, Starting

LEMMA CancelDownloadLasts ==
    ASSUME OneFault, DownloadInv, Lasting, CancelDownload
    PROVE  Lasting'
  <1>1. PICK x \in SettledCancelled(World) : TurnsInto(x)
    BY Zenon DEF CancelDownload, Becomes, TurnsInto
  <1>2. ~x.owed /\ x.task.st = "cancelled"
    BY <1>1, Now, CancelledIsGivenUp
  <1>. QED
    BY <1>1, <1>2, GivenUpIsKept, OverIsBegun, TurnIsLasting

(* A task that is given up with its files and its record. *)
LEMMA ForgottenIsGivenUp ==
    ASSUME NEW x \in Worlds,
           NEW y, y = Ended([x EXCEPT !.disk.partial = Nothing, !.disk.snapshot = Nothing,
                                      !.disk.journal = Nothing, !.owed = FALSE], "none")
    PROVE  Kept(y) /\ Begun(y)
  <1> DEFINE z == [x EXCEPT !.disk.partial = Nothing, !.disk.snapshot = Nothing,
                            !.disk.journal = Nothing, !.owed = FALSE]
             D == [x.disk EXCEPT !.partial = Nothing, !.snapshot = Nothing, !.journal = Nothing]
  <1>1. D \in Disk
    BY FieldsOfWorld DEF Disk
  <1>2. z = [x EXCEPT !.disk = D, !.owed = FALSE]
    OBVIOUS
  <1> HIDE DEF D, z
  <1>3. z \in Worlds /\ z.owed = FALSE
    BY <1>1, <1>2 DEF Worlds
  <1>4. y = Ended(z, "none")
    BY DEF z
  <1>5. ~y.owed /\ y.task.st = "none"
    BY <1>3, <1>4, EndedFields
  <1>. QED
    BY <1>5, GivenUpIsKept, OverIsBegun

LEMMA DiscardRecoveryLasts ==
    ASSUME OneFault, DownloadInv, Lasting, DiscardRecovery
    PROVE  Lasting'
  <1> DEFINE E(x) == Ended([x EXCEPT !.disk.partial = Nothing, !.disk.snapshot = Nothing,
                                     !.disk.journal = Nothing, !.owed = FALSE], "none")
  <1>1. PICK y \in {E(x) : x \in Cancelled(World)} : TurnsInto(y)
    BY Zenon DEF DiscardRecovery, Becomes, TurnsInto
  <1> HIDE DEF E
  <1>2. PICK x \in Cancelled(World) : y = E(x)
    BY <1>1
  <1>3. x \in Worlds
    BY <1>2, Now, CancelledKeeps
  <1>4. Kept(y) /\ Begun(y)
    BY <1>2, <1>3, ForgottenIsGivenUp DEF E
  <1>. QED
    BY <1>1, <1>4, TurnIsLasting

LEMMA DeleteHistoryLasts ==
    ASSUME OneFault, DownloadInv, Lasting, DeleteHistory
    PROVE  Lasting'
  <1> DEFINE y == Ended([World EXCEPT !.disk.partial = Nothing, !.disk.snapshot = Nothing,
                                      !.disk.journal = Nothing, !.owed = FALSE], "none")
  <1>1. TurnsInto(y)
    BY Zenon DEF DeleteHistory, Becomes, TurnsInto
  <1>2. Kept(y) /\ Begun(y)
    BY Now, ForgottenIsGivenUp
  <1> HIDE DEF y
  <1>. QED
    BY <1>1, <1>2, TurnIsLasting

LEMMA VerifyEndsLasts ==
    ASSUME OneFault, DownloadInv, Lasting, VerifyEnds
    PROVE  Lasting'
  <1> DEFINE w == [World EXCEPT !.task.verdict = TRUE]
  <1>1. task.verdict # Nothing
    BY DEF VerifyEnds
  <1>2. /\ World \in Worlds /\ World.task = task /\ World.disk = disk /\ Sound(World)
        /\ task \in Task /\ Alive(World) /\ Kept(World) /\ task.item # Nothing
    BY <1>1, Now, Lives DEF Lasting, Sound
  <1>3. PICK x \in IF task.verdict THEN Published(w) ELSE Failed(World, FALSE) : TurnsInto(x)
    BY Zenon DEF VerifyEnds, Becomes, TurnsInto
  <1>4. task.verdict \in BOOLEAN
    BY <1>1, <1>2 DEF Task
  <1>5. CASE task.verdict = TRUE
    <2>1. w = World
      <3> DEFINE T == [task EXCEPT !.verdict = TRUE]
      <3>1. T = task
        BY <1>2, <1>5 DEF Task
      <3>2. w = [World EXCEPT !.task = T]
        BY <1>2
      <3> HIDE DEF T, w
      <3>. QED
        BY <1>2, <3>1, <3>2 DEF Worlds
    <2> HIDE DEF w
    <2>2. x \in Published(World)
      BY <1>3, <1>5, <2>1
    <2>3. Kept(x) /\ Begun(x)
      BY <1>2, <2>2, PublishedIsKept, OverIsBegun
    <2>. QED
      BY <1>3, <2>3, TurnIsLasting
  <1>6. CASE task.verdict = FALSE
    <2>1. x \in Failed(World, FALSE)
      BY <1>3, <1>6
    <2>2. ~x.owed /\ x.task.st # "live"
      <3> DEFINE p == FALSE
      <3>1. x \in Failed(World, FALSE) => ~x.owed /\ x.task.st = "failed"
        BY <1>2, FailedIsGivenUp
      <3>. QED
        BY <2>1, <3>1
    <2>. QED
      BY <1>3, <2>2, GivenUpIsKept, OverIsBegun, TurnIsLasting
  <1>. QED
    BY <1>4, <1>5, <1>6

LEMMA StaleVerifyEndsLasts ==
    ASSUME OneFault, DownloadInv, Lasting, StaleVerifyEnds
    PROVE  Lasting'
  BY DEF StaleVerifyEnds, World, Lasting

LEMMA CompletedLasts ==
    ASSUME OneFault, DownloadInv, Lasting, Completed
    PROVE  Lasting'
  <1> DEFINE i == [task.item EXCEPT !.st = "completed"]
             b == disk.partial = Whole
             T == [task EXCEPT !.item = i, !.auto = Nothing, !.stall = FALSE, !.verdict = b]
             w == [World EXCEPT !.task.item.st = "completed", !.task.auto = Nothing,
                                !.task.stall = FALSE, !.task.verdict = b]
  <1>1. Reporting
    BY DEF Completed
  <1>2. /\ World \in Worlds /\ World.task = task /\ World.disk = disk
        /\ World.owed = owed /\ World.faults = faults /\ task \in Task
        /\ Kept(World) /\ Begun(World)
    BY Now DEF Lasting
  <1>3. TurnsInto(w)
    BY DEF Completed, Becomes, TurnsInto, Whole
  <1>4. task.item \in Item /\ i \in Item /\ i.n = task.item.n
    BY <1>1, ReportingNow DEF Item
  <1>5. i # Nothing
    BY <1>4, NothingAssumption DEF NothingAssumption
  <1>6. b \in BOOLEAN
    OBVIOUS
  <1>7. w = [World EXCEPT !.task = T]
    BY <1>2
  <1> HIDE DEF i, b
  <1>8. /\ T.item = i /\ T.auto = Nothing /\ T.st = task.st
        /\ T.pending = task.pending /\ T.startup = task.startup
        /\ T.fallback = task.fallback /\ T.restored = task.restored
        /\ T.original = task.original /\ T.rebind = task.rebind
    BY <1>2 DEF Task
  <1> HIDE DEF T, w
  <1>9. w.task = T /\ w.disk = disk /\ w.owed = owed /\ w.faults = faults
    BY <1>2, <1>7 DEF Worlds
  <1>10. Kept(w)
    <2>1. task.auto \notin Held /\ w.task.auto \notin Held /\ w.task.auto # "relaunch"
      BY <1>1, <1>8, <1>9, ReportingNow, NoWait, NothingAssumption DEF NothingAssumption, Waits
    <2>2. /\ w.owed = World.owed /\ w.faults = World.faults
          /\ w.disk = World.disk /\ w.task.st = World.task.st
          /\ w.task.item # Nothing /\ World.task.item # Nothing
          /\ w.task.item.n = World.task.item.n
      BY <1>1, <1>2, <1>4, <1>5, <1>8, <1>9, NothingAssumption DEF NothingAssumption, Reporting
    <2>3. /\ w.task.pending = World.task.pending /\ w.task.restored = World.task.restored
          /\ w.task.fallback = World.task.fallback /\ w.task.startup = World.task.startup
          /\ w.task.original = World.task.original /\ w.task.rebind = World.task.rebind
      BY <1>2, <1>8, <1>9
    <2>. QED
      BY <1>2, <2>1, <2>2, <2>3, KeptIfRetimed
  <1>11. Begun(w)
    BY <1>1, <1>8, <1>9, ReportingNow, OverIsBegun
  <1>. QED
    BY <1>3, <1>10, <1>11, TurnIsLasting

(* A request for the first byte, when nothing is recorded. *)
LEMMA FreshIsKept ==
    ASSUME NEW w, w.task.item = Nothing, w.task.fallback = Nothing, w.task.startup = {},
           w.task.rebind = Nothing, w.task.auto = Nothing, ~w.task.restored,
           w.task.pending # "restore", w.disk.journal # Nothing, w.disk.journal.n = 0
    PROVE  Kept(w) /\ Begun(w)
  <1>1. Nothing # "relaunch" /\ Nothing \notin Held
    BY NoWait, NothingAssumption DEF NothingAssumption, Waits
  <1>2. Backed(w.disk) /\ Behind(w.task, w.disk)
    BY DEF Backed, Behind, Covers
  <1>3. Guarded(w.task, w.disk) /\ Fallbacks(w.task, w.disk, w.faults)
        /\ Originals(w.task, w.disk) /\ Uncopied(w.task, w.disk, w.faults)
        /\ Creating(w.task, w.disk, w.faults)
    BY DEF Guarded, AtHand, Covers, Fallbacks, Originals, Uncopied, Creating
  <1>4. Waiting(w.task, w.disk) /\ Leaving(w.task, w.disk) /\ Moving(w.task, w.disk)
    BY <1>1 DEF Waiting, Leaving, Moving
  <1>5. Kept(w)
    BY <1>2, <1>3, <1>4 DEF Kept, Intact
  <1>. QED
    BY <1>5, OverIsBegun

LEMMA StartLasts ==
    ASSUME OneFault, DownloadInv, Lasting, Start
    PROVE  Lasting'
  <1> DEFINE T == [NoTask EXCEPT !.st = "live"]
             fresh == [World EXCEPT !.task = T, !.owed = TRUE]
             entry == [v |-> Nothing, n |-> 0]
             after(r) == IF r.thrown THEN Failed(r.w, FALSE)
                         ELSE {Ask(r.w, "url")} \cup UNION {Failed(x, FALSE) : x \in Faulty(r.w)}
  <1>1. World \in Worlds
    BY Now
  <1>2. PICK x \in UNION {after(r) : r \in Upserts(fresh, entry)} : TurnsInto(x)
    BY Zenon DEF Start, Becomes, TurnsInto
  <1>3. PICK r \in Upserts(fresh, entry) : x \in after(r)
    BY <1>2
  <1>4. T \in Task /\ T.st = "live" /\ T.item = Nothing /\ T.fallback = Nothing /\ ~T.restored
        /\ T.auto = Nothing /\ T.startup = {} /\ T.rebind = Nothing
    <2>1. 0 \in 0 .. MaxAttempts
      BY DownloadAssumption DEF DownloadAssumption
    <2>. QED
      BY <2>1 DEF NoTask, Task
  <1>5. entry \in Entry /\ entry.n = 0
    BY DownloadAssumption DEF Entry, Bytes, DownloadAssumption
  <1> HIDE DEF T, entry
  <1>6. fresh \in Worlds /\ fresh.task = T
    BY <1>1, <1>4 DEF Worlds
  <1> HIDE DEF fresh
  <1>7. /\ r.w \in Worlds /\ r.w.task = T
        /\ ~r.thrown => r.w.disk.journal = entry
    BY <1>5, <1>6, UpsertsCases
  <1> DEFINE p == FALSE
  <1>8. ASSUME NEW y \in Worlds, x \in Failed(y, FALSE)
        PROVE  Kept(x) /\ Begun(x)
    <2>1. ~x.owed /\ x.task.st = "failed"
      BY <1>8, FailedIsGivenUp
    <2>. QED
      BY <2>1, GivenUpIsKept, OverIsBegun
  <1>9. ASSUME ~r.thrown /\ x = Ask(r.w, "url")
        PROVE  Kept(x) /\ Begun(x)
    <2>1. /\ x.disk = r.w.disk /\ x.task.pending = "url" /\ x.task.auto = T.auto
          /\ x.task.item = T.item /\ x.task.restored = T.restored
          /\ x.task.fallback = T.fallback /\ x.task.startup = T.startup
          /\ x.task.rebind = T.rebind
      BY <1>7, <1>9, AskFields DEF Kinds
    <2>2. x.disk.journal # Nothing /\ x.disk.journal.n = 0
      BY <1>5, <1>7, <1>9, <2>1, NothingAssumption DEF NothingAssumption
    <2>. QED
      BY <1>4, <2>1, <2>2, FreshIsKept
  <1>10. Kept(x) /\ Begun(x)
    <2>1. CASE r.thrown
      BY <1>3, <1>7, <1>8, <2>1
    <2>2. CASE ~r.thrown /\ x = Ask(r.w, "url")
      BY <1>9, <2>2
    <2>3. CASE \E y \in Faulty(r.w) : x \in Failed(y, FALSE)
      BY <1>7, <1>8, <2>3, FaultyKeeps
    <2>. QED
      BY <1>3, <2>1, <2>2, <2>3
  <1>. QED
    BY <1>2, <1>10, TurnIsLasting

(* What the listeners of an item may count on besides. *)
LEMMA ReportingLasts ==
    ASSUME DownloadInv, Lasting, Reporting
    PROVE  /\ Kept(World) /\ Sound(World) /\ Alive(World) /\ World \in Worlds
           /\ World.task = task /\ World.disk = disk /\ World.owed = owed
           /\ World.faults = faults /\ task \in Task /\ disk \in Disk
           /\ task.item # Nothing /\ task.auto \notin Held /\ task.pending = Nothing
           /\ task.startup = {}
  BY Now, ReportingNow DEF Lasting, Reporting

LEMMA ListenedLasts ==
    ASSUME OneFault, NEW w, Sound(w), Alive(w), Kept(w), w.task.item # Nothing,
           w.task.startup = {}, w.task.auto \notin Held,
           NEW x \in Listened(Throttled(w)), TurnsInto(x)
    PROVE  Lasting'
  <1>1. Kept(x) /\ (x.task.st = "live" => x.task.startup = {})
    BY ListenedIsKept
  <1>. QED
    BY <1>1, OverIsBegun, TurnIsLasting

LEMMA ProgressLasts ==
    ASSUME OneFault, DownloadInv, Lasting, Progress
    PROVE  Lasting'
  <1> DEFINE m == task.item.n + 1
             refund == IF task.auto # Nothing /\ task.attempts > 0 THEN task.attempts - 1
                       ELSE task.attempts
             i == [task.item EXCEPT !.n = m]
             c == [v |-> task.item.v, n |-> m]
             T == [task EXCEPT !.item = i, !.auto = Nothing, !.stall = TRUE, !.attempts = refund]
             D == [disk EXCEPT !.partial = c]
             w == [World EXCEPT !.task.item.n = m, !.disk.partial = c,
                                !.task.auto = Nothing, !.task.stall = TRUE, !.task.attempts = refund]
  <1>1. Reporting /\ task.item.n < Full
    BY DEF Progress
  <1>2. /\ Kept(World) /\ Sound(World) /\ Alive(World) /\ World \in Worlds
        /\ World.task = task /\ World.disk = disk /\ World.owed = owed
        /\ World.faults = faults /\ task \in Task /\ disk \in Disk
        /\ task.item # Nothing /\ task.auto \notin Held /\ task.pending = Nothing
        /\ task.startup = {}
    BY <1>1, ReportingLasts
  <1>3. PICK x \in Listened(Throttled(w)) : TurnsInto(x)
    BY Zenon DEF Progress, Becomes, TurnsInto
  <1>4. task.item \in Item /\ task.item.n \in Bytes /\ task.item.v \in Versions
    BY <1>1, ReportingNow DEF Item
  <1>5. m \in Bytes /\ m \in Nat /\ m >= task.item.n
    BY <1>1, <1>4, DownloadAssumption DEF Bytes, DownloadAssumption
  <1>6. refund \in 0 .. MaxAttempts
    <2>1. task.attempts \in 0 .. MaxAttempts /\ MaxAttempts \in Nat
      BY <1>2, DownloadAssumption DEF Task, DownloadAssumption
    <2>. QED
      BY <2>1
  <1>7. w = [World EXCEPT !.task = T, !.disk = D]
    BY <1>2
  <1> HIDE DEF m, refund
  <1>8. i \in Item /\ c \in Content /\ i.n = m /\ c.n = m
    BY <1>4, <1>5 DEF Item, Content
  <1>9. i # Nothing /\ c # Nothing
    BY <1>8, NothingAssumption DEF NothingAssumption
  <1> HIDE DEF i, c
  <1>10. /\ T \in Task /\ T.item = i /\ T.auto = Nothing /\ T.st = task.st
         /\ T.pending = task.pending /\ T.verdict = task.verdict /\ T.startup = task.startup
         /\ T.fallback = task.fallback
    <2>1. task \in Task
      BY <1>2
    <2>. QED
      BY <1>6, <1>8, <2>1 DEF Task
  <1>16. T.original = task.original /\ T.rebind = task.rebind
    BY <1>2 DEF Task
  <1>11. D \in Disk /\ D.journal = disk.journal /\ D.final = disk.final
         /\ D.partial = c /\ D.snapshot = disk.snapshot
    BY <1>2, <1>8 DEF Disk
  <1> HIDE DEF T, D, w
  <1>12. w \in Worlds /\ w.task = T /\ w.disk = D /\ w.owed = owed /\ w.faults = faults
    BY <1>2, <1>7, <1>10, <1>11 DEF Worlds
  <1>13. Sound(w) /\ Alive(w)
    BY <1>1, <1>9, <1>10, <1>11, <1>12, ReportIsGood
  <1>14. Nothing \notin Held /\ Nothing # "relaunch"
    BY NoWait, NothingAssumption DEF NothingAssumption, Waits
  <1>15. Kept(w)
    <2>1. /\ w.owed = World.owed /\ w.task.item.n >= World.task.item.n
          /\ w.faults = World.faults
          /\ w.disk.partial # Nothing /\ w.disk.partial.n = w.task.item.n
          /\ w.task.item.n \in Nat /\ w.task.item # Nothing
          /\ w.disk.snapshot = World.disk.snapshot /\ w.disk.journal = World.disk.journal
      BY <1>2, <1>5, <1>8, <1>9, <1>10, <1>11, <1>12
    <2>2. /\ w.task.st = World.task.st /\ w.task.pending = World.task.pending
          /\ w.task.auto \notin Held /\ w.task.auto # "relaunch"
          /\ w.task.fallback = World.task.fallback /\ w.task.startup = World.task.startup
          /\ w.task.original = World.task.original /\ w.task.rebind = World.task.rebind
      BY <1>2, <1>10, <1>12, <1>14, <1>16
    <2>. QED
      BY <1>2, <2>1, <2>2, WrittenIsKept
  <1>. QED
    BY <1>2, <1>3, <1>9, <1>10, <1>12, <1>13, <1>14, <1>15, ListenedLasts

LEMMA ServerRestartsLasts ==
    ASSUME OneFault, DownloadInv, Lasting, NEW v \in Versions, ServerRestarts(v)
    PROVE  Lasting'
  <1> DEFINE i == [task.item EXCEPT !.n = 0, !.v = v]
             c == [v |-> v, n |-> 0]
             o == owed /\ task.fallback # Nothing
             T == [task EXCEPT !.item = i, !.restored = FALSE]
             D == [disk EXCEPT !.partial = c]
             w == [World EXCEPT !.task.item.n = 0, !.task.item.v = v, !.disk.partial = c,
                                !.task.restored = FALSE, !.owed = o]
  <1>1. Reporting
    BY DEF ServerRestarts
  <1>2. /\ Kept(World) /\ Sound(World) /\ Alive(World) /\ World \in Worlds
        /\ World.task = task /\ World.disk = disk /\ World.owed = owed
        /\ World.faults = faults /\ task \in Task /\ disk \in Disk
        /\ task.item # Nothing /\ task.auto \notin Held /\ task.pending = Nothing
        /\ task.startup = {}
    BY <1>1, ReportingLasts
  <1>3. PICK x \in Listened(Throttled(w)) : TurnsInto(x)
    BY Zenon DEF ServerRestarts, Becomes, TurnsInto
  <1>4. task.item \in Item /\ 0 \in Bytes /\ o \in BOOLEAN
    <2>1. owed \in BOOLEAN
      BY <1>2 DEF Worlds
    <2>. QED
      BY <1>1, <2>1, ReportingNow, DownloadAssumption DEF Bytes, DownloadAssumption
  <1>5. i \in Item /\ c \in Content /\ i.n = 0 /\ c.n = 0
    BY <1>4 DEF Item, Content
  <1>6. i # Nothing /\ c # Nothing
    BY <1>5, NothingAssumption DEF NothingAssumption
  <1>7. o => owed /\ task.fallback # Nothing
    OBVIOUS
  <1> HIDE DEF c, o
  <1>8. w = [World EXCEPT !.task = T, !.disk = D, !.owed = o]
    <2> DEFINE a == [World EXCEPT !.task.item.n = 0, !.task.item.v = v]
    <2>1. a = [World EXCEPT !.task.item = i]
      BY <1>2
    <2>2. w = [a EXCEPT !.disk.partial = c, !.task.restored = FALSE, !.owed = o]
      OBVIOUS
    <2> HIDE DEF a, i, w
    <2>3. w = [World EXCEPT !.task.item = i, !.disk.partial = c, !.task.restored = FALSE, !.owed = o]
      BY <2>1, <2>2
    <2>. QED
      BY <1>2, <2>3
  <1> HIDE DEF i
  <1>9. /\ T \in Task /\ T.item = i /\ T.auto = task.auto /\ T.st = task.st
        /\ T.pending = task.pending /\ T.verdict = task.verdict /\ T.startup = task.startup
        /\ T.fallback = task.fallback
    <2>1. task \in Task
      BY <1>2
    <2>. QED
      BY <1>5, <2>1 DEF Task
  <1>16. T.original = task.original /\ T.rebind = task.rebind
    BY <1>2 DEF Task
  <1>10. D \in Disk /\ D.journal = disk.journal /\ D.final = disk.final
         /\ D.partial = c /\ D.snapshot = disk.snapshot
    BY <1>2, <1>5 DEF Disk
  <1> HIDE DEF T, D, w
  <1>11. w \in Worlds /\ w.task = T /\ w.disk = D /\ w.owed = o /\ w.faults = faults
    BY <1>2, <1>4, <1>8, <1>9, <1>10 DEF Worlds
  <1>12. Sound(w) /\ Alive(w)
    BY <1>1, <1>6, <1>9, <1>10, <1>11, ReportIsGood
  <1>13. task.auto # "relaunch"
    BY <1>1, ReportingNow
  <1>14. Kept(w)
    <2>1. /\ w.owed => World.owed /\ World.task.fallback # Nothing
          /\ w.faults = World.faults
          /\ w.disk.partial # Nothing /\ w.disk.partial.n = w.task.item.n
          /\ w.task.item.n \in Nat /\ w.task.item # Nothing
          /\ w.disk.snapshot = World.disk.snapshot /\ w.disk.journal = World.disk.journal
      BY <1>2, <1>5, <1>6, <1>7, <1>9, <1>10, <1>11
    <2>2. /\ w.task.st = World.task.st /\ w.task.pending = World.task.pending
          /\ w.task.auto \notin Held /\ w.task.auto # "relaunch"
          /\ w.task.fallback = World.task.fallback /\ w.task.startup = World.task.startup
          /\ w.task.original = World.task.original /\ w.task.rebind = World.task.rebind
      BY <1>2, <1>9, <1>11, <1>13, <1>16
    <2>. QED
      BY <1>2, <2>1, <2>2, WrittenIsKept
  <1>. QED
    BY <1>2, <1>3, <1>6, <1>9, <1>11, <1>12, <1>14, ListenedLasts

LEMMA BegunIfSame ==
    ASSUME NEW w, Begun(w), NEW x, x.owed => w.owed, x.task.st = w.task.st,
           "bind" \in x.task.startup => "bind" \in w.task.startup,
           x.task.rebind = w.task.rebind,
           x.task.auto = w.task.auto, x.task.item = Nothing <=> w.task.item = Nothing,
           \/ x.task.item # Nothing
           \/ /\ x.task.awaiting = w.task.awaiting /\ x.task.restored = w.task.restored
              /\ x.task.fallback = w.task.fallback
    PROVE  Begun(x)
  BY DEF Begun, Starting

(* While an item moves, or waits for the user, the creation at the start is over. *)
LEMMA StartIsOver ==
    ASSUME NEW w, Begun(w), OneFault, w.task.st = "live", w.task.auto \notin Held,
           w.task.item # Nothing \/ w.task.auto # Nothing
    PROVE  w.owed => "bind" \notin w.task.startup
  BY DEF Begun, Starting, Held

LEMMA InterruptedLasts ==
    ASSUME OneFault, DownloadInv, Lasting, NEW can \in BOOLEAN, NEW done \in BOOLEAN,
           Interrupted(can, done)
    PROVE  Lasting'
  <1> DEFINE i == [task.item EXCEPT !.st = "interrupted", !.can = can]
             T == [task EXCEPT !.item = i]
             U == [T EXCEPT !.stall = FALSE]
             w == [World EXCEPT !.task.item.st = "interrupted", !.task.item.can = can]
             y == [w EXCEPT !.task.stall = FALSE]
             A == UNION {Scheduled(r.w) : r \in Throttled(y)}
  <1>1. Reporting
    BY DEF Interrupted
  <1>2. /\ Kept(World) /\ Sound(World) /\ Alive(World) /\ World \in Worlds
        /\ World.task = task /\ World.disk = disk /\ World.owed = owed
        /\ World.faults = faults /\ task \in Task /\ disk \in Disk
        /\ task.item # Nothing /\ task.auto \notin Held /\ task.pending = Nothing
        /\ task.startup = {}
    BY <1>1, ReportingLasts
  <1>3. PICK x \in IF ~can THEN Scheduled(w)
                   ELSE IF done THEN A ELSE Listened(Throttled(y)) : TurnsInto(x)
    BY Zenon DEF Interrupted, Becomes, TurnsInto
  <1>4. i \in Item /\ i.n = task.item.n
    BY <1>1, ReportingNow DEF Item
  <1>5. i # Nothing
    BY <1>4, NothingAssumption DEF NothingAssumption
  <1>6. w = [World EXCEPT !.task = T]
    BY <1>2
  <1> HIDE DEF i
  <1>20. task \in Task
    BY <1>2
  <1>7. /\ T \in Task /\ T.item = i /\ T.auto = task.auto /\ T.st = task.st
        /\ T.pending = task.pending /\ T.verdict = task.verdict /\ T.startup = task.startup
        /\ T.fallback = task.fallback
    BY <1>4, <1>20 DEF Task
  <1>8. T.restored = task.restored /\ T.original = task.original /\ T.rebind = task.rebind
    BY <1>20 DEF Task
  <1>9. /\ U \in Task /\ U.item = i /\ U.auto = task.auto /\ U.st = task.st
        /\ U.pending = task.pending /\ U.verdict = task.verdict /\ U.startup = task.startup
        /\ U.fallback = task.fallback
    <2> HIDE DEF T
    <2>. QED
      BY <1>7 DEF Task
  <1>10. U.restored = task.restored /\ U.original = task.original /\ U.rebind = task.rebind
    <2> HIDE DEF T
    <2>. QED
      BY <1>7, <1>8 DEF Task
  <1> HIDE DEF T, w
  <1>11. w \in Worlds /\ w.task = T /\ w.disk = disk /\ w.owed = owed /\ w.faults = faults
    BY <1>2, <1>6, <1>7 DEF Worlds
  <1>12. Sound(w) /\ Alive(w)
    BY <1>1, <1>5, <1>7, <1>11, ReportIsGood
  <1>13. Kept(w)
    <2>1. /\ w.owed = World.owed /\ w.faults = World.faults /\ w.disk = World.disk
          /\ w.task.item # Nothing /\ World.task.item # Nothing
          /\ w.task.item.n = World.task.item.n
      BY <1>2, <1>4, <1>5, <1>7, <1>11
    <2>2. /\ w.task.st = World.task.st /\ w.task.auto = World.task.auto
          /\ w.task.pending = World.task.pending /\ w.task.restored = World.task.restored
          /\ w.task.fallback = World.task.fallback /\ w.task.startup = World.task.startup
          /\ w.task.original = World.task.original /\ w.task.rebind = World.task.rebind
      BY <1>2, <1>7, <1>8, <1>11
    <2>. QED
      BY <1>2, <2>1, <2>2, KeptIfSame
  <1>14. y = [w EXCEPT !.task = U]
    BY <1>11
  <1> HIDE DEF U, y, A
  <1>15. y \in Worlds /\ y.task = U /\ y.disk = disk /\ y.owed = owed /\ y.faults = faults
    BY <1>9, <1>11, <1>14 DEF Worlds
  <1>16. Sound(y) /\ Alive(y)
    BY <1>1, <1>5, <1>9, <1>15, ReportIsGood
  <1>17. Kept(y)
    <2>1. /\ y.owed = World.owed /\ y.faults = World.faults /\ y.disk = World.disk
          /\ y.task.item # Nothing /\ World.task.item # Nothing
          /\ y.task.item.n = World.task.item.n
      BY <1>2, <1>4, <1>5, <1>9, <1>15
    <2>2. /\ y.task.st = World.task.st /\ y.task.auto = World.task.auto
          /\ y.task.pending = World.task.pending /\ y.task.restored = World.task.restored
          /\ y.task.fallback = World.task.fallback /\ y.task.startup = World.task.startup
          /\ y.task.original = World.task.original /\ y.task.rebind = World.task.rebind
      BY <1>2, <1>9, <1>10, <1>15
    <2>. QED
      BY <1>2, <2>1, <2>2, KeptIfSame
  <1>18. ASSUME NEW z, Sound(z), Alive(z), Kept(z), z.task.startup = {}, x \in Scheduled(z)
         PROVE  Lasting'
    <2>1. Kept(x) /\ Follows(z, x)
      BY <1>18, ScheduledIsKept, ScheduledFollows
    <2>2. Begun(x)
      BY <1>18, <2>1, FollowsIsBegun
    <2>. QED
      BY <1>3, <2>1, <2>2, TurnIsLasting
  <1>19. ASSUME x \in A
         PROVE  Lasting'
    <2>1. PICK r \in Throttled(y) : x \in Scheduled(r.w)
      BY <1>19 DEF A
    <2>2. y.task.item # Nothing /\ y.task.auto \notin Held /\ y.task.startup = {}
          /\ y.task.auto \notin {"journalRebind", "heldRebind"}
      BY <1>2, <1>5, <1>9, <1>15 DEF Held
    <2>3. Sound(r.w) /\ Alive(r.w)
      BY <1>16, <2>1, <2>2, ThrottledIsGood
    <2>4. Kept(r.w) /\ r.w.task.startup = {}
      BY <1>16, <1>17, <2>1, <2>2, ThrottledIsKept
    <2>. QED
      BY <1>18, <2>1, <2>3, <2>4
  <1>21. CASE ~can
    BY <1>2, <1>3, <1>7, <1>11, <1>12, <1>13, <1>18, <1>21
  <1>22. CASE can /\ done
    BY <1>3, <1>19, <1>22
  <1>23. CASE can /\ ~done
    <2>1. y.task.item # Nothing /\ y.task.auto \notin Held /\ y.task.startup = {}
      BY <1>2, <1>5, <1>9, <1>15
    <2>. QED
      BY <1>3, <1>16, <1>17, <1>23, <2>1, ListenedLasts
  <1>. QED
    BY <1>21, <1>22, <1>23

LEMMA ItemSetIsKept ==
    ASSUME DownloadInv, Lasting, task.item # Nothing,
           NEW st \in {"running", "paused"}, NEW b \in BOOLEAN,
           NEW w, w = [World EXCEPT !.task.item.st = st, !.task.stall = b]
    PROVE  /\ w \in Worlds /\ Kept(w) /\ Begun(w) /\ w.task.item # Nothing
           /\ w.task.auto = task.auto /\ w.task.startup = task.startup
           /\ w.task.st = "live" /\ w.owed = owed
  <1> DEFINE i == [task.item EXCEPT !.st = st]
             T == [task EXCEPT !.item = i, !.stall = b]
  <1>1. /\ World \in Worlds /\ World.task = task /\ World.disk = disk
        /\ World.owed = owed /\ World.faults = faults
        /\ Kept(World) /\ Begun(World) /\ task.st = "live"
    BY Now, Lives DEF Lasting
  <1>2. w = [World EXCEPT !.task = T]
    BY <1>1
  <1>3. task \in Task /\ task.item \in Item
    BY Now DEF Task
  <1>4. i \in Item /\ i.n = task.item.n
    BY <1>3 DEF Item
  <1>5. i # Nothing
    BY <1>4, NothingAssumption DEF NothingAssumption
  <1> HIDE DEF i
  <1>6. /\ T \in Task /\ T.st = task.st /\ T.item = i /\ T.pending = task.pending
        /\ T.verdict = task.verdict /\ T.startup = task.startup /\ T.auto = task.auto
    BY <1>3, <1>4 DEF Task
  <1>7. /\ T.original = task.original /\ T.fallback = task.fallback
        /\ T.restored = task.restored /\ T.rebind = task.rebind
    BY <1>3 DEF Task
  <1> HIDE DEF T
  <1>8. w \in Worlds /\ w.task = T /\ w.disk = disk /\ w.owed = owed /\ w.faults = faults
    BY <1>1, <1>2, <1>6 DEF Worlds
  <1>9. Kept(w)
    <2>1. /\ w.owed = World.owed /\ w.faults = World.faults /\ w.disk = World.disk
          /\ w.task.item # Nothing /\ World.task.item # Nothing
          /\ w.task.item.n = World.task.item.n
      BY <1>1, <1>4, <1>5, <1>6, <1>8
    <2>2. /\ w.task.st = World.task.st /\ w.task.auto = World.task.auto
          /\ w.task.pending = World.task.pending /\ w.task.restored = World.task.restored
          /\ w.task.fallback = World.task.fallback /\ w.task.startup = World.task.startup
          /\ w.task.original = World.task.original /\ w.task.rebind = World.task.rebind
      BY <1>1, <1>6, <1>7, <1>8
    <2>. QED
      BY <1>1, <2>1, <2>2, KeptIfSame
  <1>10. Begun(w)
    BY <1>1, <1>5, <1>6, <1>7, <1>8, BegunIfSame
  <1>. QED
    BY <1>1, <1>5, <1>6, <1>8, <1>9, <1>10

(* The user sets the item, and the journal may be written. *)
LEMMA ItemSetLasts ==
    ASSUME OneFault, DownloadInv, Lasting, task.item # Nothing, task.auto \notin Held,
           NEW st \in {"running", "paused"}, NEW b \in BOOLEAN,
           NEW w, w = [World EXCEPT !.task.item.st = st, !.task.stall = b],
           NEW r \in Throttled(w), TurnsInto(r.w)
    PROVE  Lasting'
  <1>1. Sound(w) /\ Alive(w)
    BY ItemSetIsGood
  <1>2. /\ Kept(w) /\ Begun(w) /\ w.task.item # Nothing /\ w.task.st = "live"
        /\ w.task.auto \notin Held
    BY ItemSetIsKept
  <1>3. /\ Kept(r.w) /\ r.w.task.startup = w.task.startup
        /\ r.w.owed => w.owed \/ w.task.startup = {}
    BY <1>1, <1>2, ThrottledIsKept
  <1>4. w.owed => "bind" \notin w.task.startup
    BY <1>2, StartIsOver
  <1>5. Begun(r.w)
    BY <1>3, <1>4 DEF Begun, Starting
  <1>. QED
    BY <1>3, <1>5, TurnIsLasting

LEMMA PauseLasts ==
    ASSUME OneFault, DownloadInv, Lasting, Pause
    PROVE  Lasting'
  <1> DEFINE w == [World EXCEPT !.task.item.st = "paused", !.task.stall = FALSE]
  <1>1. task.item # Nothing /\ task.auto \notin Held
    BY NoWait DEF Pause, Held
  <1>2. PICK x \in {r.w : r \in Throttled(w)} : TurnsInto(x)
    BY Zenon DEF Pause, Becomes, TurnsInto
  <1>3. PICK v : v = w
    OBVIOUS
  <1>4. PICK r \in Throttled(v) : x = r.w
    BY <1>2, <1>3
  <1>. QED
    BY <1>1, <1>2, <1>3, <1>4, ItemSetLasts

LEMMA ResumeLasts ==
    ASSUME OneFault, DownloadInv, Lasting, Resume
    PROVE  Lasting'
  <1> DEFINE w == [World EXCEPT !.task.item.st = "running", !.task.stall = TRUE]
  <1>1. /\ Sound(World) /\ Alive(World) /\ Kept(World) /\ Begun(World)
        /\ World.task = task /\ task.st = "live" /\ task.auto \notin Held
    BY Now, Lives DEF Resume, Lasting
  <1>2. CASE task.auto # Nothing /\ Becomes(Resumed(World))
    <2>1. PICK x \in Resumed(World) : TurnsInto(x)
      BY <1>2, Zenon DEF Becomes, TurnsInto
    <2>2. Kept(x) /\ Follows(World, x)
      BY <1>1, ResumedIsKept
    <2>3. Begun(x)
      BY <1>1, <1>2, <2>2, StartIsOver, FollowsIsBegun
    <2>. QED
      BY <2>1, <2>2, <2>3, TurnIsLasting
  <1>3. CASE task.item # Nothing /\ Becomes({r.w : r \in Throttled(w)})
    <2>1. PICK x \in {r.w : r \in Throttled(w)} : TurnsInto(x)
      BY <1>3, Zenon DEF Becomes, TurnsInto
    <2>2. PICK v : v = w
      OBVIOUS
    <2>3. PICK r \in Throttled(v) : x = r.w
      BY <2>1, <2>2
    <2>. QED
      BY <1>1, <1>3, <2>1, <2>2, <2>3, ItemSetLasts
  <1>. QED
    BY <1>2, <1>3 DEF Resume

LEMMA ResumeRecoveryLasts ==
    ASSUME OneFault, DownloadInv, Lasting, ResumeRecovery
    PROVE  Lasting'
  <1> DEFINE w == [World EXCEPT !.task.resumeOnBind = TRUE]
             b == task.auto = Nothing
             v == [World EXCEPT !.task.item.st = "running", !.task.stall = b]
             y == [World EXCEPT !.task.item.st = "running", !.task.awaiting = FALSE,
                                !.task.resumeOnBind = FALSE, !.task.stall = b]
  <1>1. /\ World \in Worlds /\ World.task = task /\ task \in Task
        /\ Kept(World) /\ Begun(World)
    BY Now DEF Lasting
  <1>2. CASE Becomes({w})
    <2> DEFINE T == [task EXCEPT !.resumeOnBind = TRUE]
    <2>1. /\ T.st = task.st /\ T.item = task.item /\ T.pending = task.pending
          /\ T.startup = task.startup /\ T.auto = task.auto
          /\ T.original = task.original /\ T.fallback = task.fallback
      BY <1>1 DEF Task
    <2>2. T.restored = task.restored /\ T.rebind = task.rebind /\ T.awaiting = task.awaiting
      BY <1>1 DEF Task
    <2>3. w = [World EXCEPT !.task = T]
      BY <1>1
    <2>4. TurnsInto(w)
      BY <1>2 DEF Becomes, TurnsInto
    <2> HIDE DEF T, w
    <2>5. w.task = T /\ w.disk = World.disk /\ w.owed = World.owed /\ w.faults = World.faults
      BY <1>1, <2>3 DEF Worlds
    <2>6. Kept(w)
      BY <1>1, <2>1, <2>2, <2>5, KeptIfSame
    <2>7. Begun(w)
      BY <1>1, <2>1, <2>2, <2>5, BegunIfSame
    <2>. QED
      BY <2>4, <2>6, <2>7, TurnIsLasting
  <1>3. CASE task.item # Nothing /\ Becomes({y})
    <2> DEFINE T == [v.task EXCEPT !.awaiting = FALSE, !.resumeOnBind = FALSE]
    <2>1. TurnsInto(y)
      BY <1>3 DEF Becomes, TurnsInto
    <2>2. y = [v EXCEPT !.task = T]
      BY <1>1
    <2>3. b \in BOOLEAN
      OBVIOUS
    <2> HIDE DEF b, y
    <2>4. v \in Worlds /\ Kept(v) /\ Begun(v) /\ v.task.item # Nothing
      <3> HIDE DEF v
      <3>. QED
        BY <1>3, <2>3, ItemSetIsKept DEF v
    <2> HIDE DEF v
    <2>5. v.task \in Task
      BY <2>4, FieldsOfWorld
    <2>6. /\ T.st = v.task.st /\ T.item = v.task.item /\ T.pending = v.task.pending
          /\ T.startup = v.task.startup /\ T.auto = v.task.auto
          /\ T.original = v.task.original /\ T.fallback = v.task.fallback
      BY <2>5 DEF Task
    <2>7. T.restored = v.task.restored /\ T.rebind = v.task.rebind
      BY <2>5 DEF Task
    <2> HIDE DEF T
    <2>8. y.task = T /\ y.disk = v.disk /\ y.owed = v.owed /\ y.faults = v.faults
      BY <2>2, <2>4 DEF Worlds
    <2>9. Kept(y)
      BY <2>4, <2>6, <2>7, <2>8, KeptIfSame
    <2>10. Begun(y)
      BY <2>4, <2>6, <2>7, <2>8, BegunIfSame
    <2>. QED
      BY <2>1, <2>9, <2>10, TurnIsLasting
  <1>. QED
    BY <1>2, <1>3 DEF ResumeRecovery

(* The rollback of the creation at the start that could not be written stays one. *)
LEMMA StartupRolledBackLasts ==
    ASSUME NEW w \in Worlds, Alive(w), Kept(w), Settled(w), OneFault, Begun(w),
           w.task.startup \cap {"failed", "bind"} # {}, w.owed => w.task.auto # "heldRebind",
           NEW x \in StartupRolledBack(w)
    PROVE  Kept(x) /\ Begun(x)
  <1>1. /\ Kept(x)
        /\ x.owed => w.owed
        /\ x.task.st = "live" =>
              /\ x.task.auto = "journalStartup"
              /\ x.task.startup = w.task.startup /\ x.task.rebind = w.task.rebind
              /\ x.task.item = Nothing <=> w.task.item = Nothing
              /\ x.task.awaiting = w.task.awaiting /\ x.task.restored = w.task.restored
              /\ x.task.fallback = w.task.fallback
    BY StartupRolledBackIsKept
  <1>2. Begun(x)
    BY <1>1 DEF Begun, Starting, Alive
  <1>. QED
    BY <1>1, <1>2

LEMMA StallFiresLasts ==
    ASSUME OneFault, DownloadInv, Lasting, StallFires
    PROVE  Lasting'
  <1> DEFINE T == [task EXCEPT !.stall = FALSE]
             w == [World EXCEPT !.task.stall = FALSE]
  <1>1. task.stall
    BY DEF StallFires
  <1>2. /\ World \in Worlds /\ World.task = task /\ World.disk = disk /\ Sound(World)
        /\ World.owed = owed /\ World.faults = faults /\ Kept(World) /\ Begun(World)
    BY Now DEF Lasting
  <1>3. task \in Task
    BY Now
  <1>4. /\ Alive(World) /\ task.st = "live"
    <2>1. task.stall = TRUE
      BY <1>1, <1>3 DEF Task
    <2>. QED
      BY <2>1, Lives
  <1>5. PICK x \in IF "bind" \in task.startup /\ task.item = Nothing THEN StartupRolledBack(w)
                   ELSE Scheduled(w) : TurnsInto(x)
    BY Zenon DEF StallFires, Becomes, TurnsInto
  <1>6. w = [World EXCEPT !.task = T]
    BY <1>2
  <1>7. /\ T \in Task /\ T.st = task.st /\ T.item = task.item /\ T.pending = task.pending
        /\ T.verdict = task.verdict /\ T.startup = task.startup /\ T.auto = task.auto
        /\ T.original = task.original /\ T.fallback = task.fallback /\ T.restored = task.restored
    BY <1>3 DEF Task
  <1>8. T.rebind = task.rebind /\ T.awaiting = task.awaiting
    BY <1>3 DEF Task
  <1> HIDE DEF T, w
  <1>9. w \in Worlds /\ w.task = T /\ w.disk = disk /\ w.owed = owed /\ w.faults = faults
    BY <1>2, <1>6, <1>7 DEF Worlds
  <1>10. Sound(w) /\ Alive(w)
    BY <1>2, <1>4, <1>7, <1>9, RetimedIsGood
  <1>11. Kept(w)
    BY <1>2, <1>7, <1>8, <1>9, KeptIfSame
  <1>12. Begun(w)
    BY <1>2, <1>7, <1>8, <1>9, BegunIfSame
  <1>13. CASE "bind" \in task.startup /\ task.item = Nothing /\ x \in StartupRolledBack(w)
    <2>1. w.owed => w.task.auto # "heldRebind"
      <3>1. Nothing # "heldRebind"
        BY NothingAssumption DEF NothingAssumption, Waits
      <3>. QED
        BY <1>4, <1>7, <1>9, <1>12, <1>13, <3>1 DEF Begun, Starting
    <2>2. Settled(w)
      BY <1>7, <1>9, <1>10, <1>11, <1>13, SettledIfNotHeld
    <2>3. w.task.startup \cap {"failed", "bind"} # {}
      BY <1>7, <1>9, <1>13
    <2>4. Kept(x) /\ Begun(x)
      BY <1>9, <1>10, <1>11, <1>12, <1>13, <2>1, <2>2, <2>3, StartupRolledBackLasts
    <2>. QED
      BY <1>5, <2>4, TurnIsLasting
  <1>14. CASE ~("bind" \in task.startup /\ task.item = Nothing) /\ x \in Scheduled(w)
    <2>1. Kept(x) /\ Follows(w, x)
      BY <1>10, <1>11, <1>14, ScheduledIsKept, ScheduledFollows
    <2>2. CASE w.owed => "bind" \notin w.task.startup
      BY <1>5, <2>1, <2>2, FollowsIsBegun, TurnIsLasting
    <2>3. CASE w.owed /\ "bind" \in w.task.startup
      <3>1. w.task.auto \in {"heldStartup", "journalStartup"}
        BY <1>4, <1>7, <1>9, <1>12, <1>14, <2>3 DEF Begun, Starting
      <3>2. w.task.auto # Nothing
        BY <3>1, NothingAssumption DEF NothingAssumption, Waits
      <3>3. x = w
        BY <1>14, <3>2 DEF Scheduled
      <3>. QED
        BY <1>5, <1>11, <1>12, <3>3, TurnIsLasting
    <2>. QED
      BY <2>2, <2>3
  <1>. QED
    BY <1>5, <1>13, <1>14

LEMMA StartupCreatesLasts ==
    ASSUME OneFault, DownloadInv, Lasting, NEW ok \in BOOLEAN, StartupCreates(ok)
    PROVE  Lasting'
  <1> DEFINE settled == task.startup \ {"create"}
             marked == settled \cup {"failed"}
             o == IF settled = {} THEN Nothing ELSE task.original
             T == [task EXCEPT !.startup = settled, !.original = o]
             U == [task EXCEPT !.startup = marked]
             w == [World EXCEPT !.task.startup = settled, !.task.original = o]
             y == [World EXCEPT !.task.startup = marked]
  <1>1. task.startup # {}
    BY DEF StartupCreates
  <1>2. /\ World \in Worlds /\ World.task = task /\ World.disk = disk
        /\ World.owed = owed /\ World.faults = faults
        /\ Alive(World) /\ task.st = "live" /\ Kept(World) /\ Begun(World)
    BY <1>1, Now, Lives DEF Lasting
  <1>20. task \in Task
    BY Now
  <1>3. [World EXCEPT !.task.startup = settled,
                      !.task.original = IF settled = {} THEN Nothing ELSE @] = w
    BY <1>2
  <1>4. PICK x \in IF ok THEN {w} ELSE IF task.auto \in Held THEN {y} ELSE StartupRolledBack(y) :
            TurnsInto(x)
    <2> HIDE DEF w, y
    <2>. QED
      BY <1>3, Zenon DEF StartupCreates, Becomes, TurnsInto, y
  <1>5. /\ settled \in SUBSET {"create", "failed", "bind"} /\ marked \in SUBSET {"create", "failed", "bind"}
        /\ o \in Entry \cup {Nothing} /\ task.original # Nothing
        /\ settled # {} => o = task.original
        /\ "bind" \in settled => "bind" \in task.startup
        /\ "bind" \in marked => "bind" \in task.startup
        /\ marked # {} /\ marked \cap {"failed", "bind"} # {}
    BY <1>1, <1>2, <1>20 DEF Task, Alive
  <1>6. w = [World EXCEPT !.task = T] /\ y = [World EXCEPT !.task = U]
    BY <1>2
  <1> HIDE DEF settled, marked, o
  <1>7. /\ T \in Task /\ T.st = task.st /\ T.item = task.item /\ T.pending = task.pending
        /\ T.startup = settled /\ T.auto = task.auto /\ T.original = o
    BY <1>5, <1>20 DEF Task
  <1>8. /\ T.fallback = task.fallback /\ T.restored = task.restored
        /\ T.rebind = task.rebind /\ T.awaiting = task.awaiting
    BY <1>20 DEF Task
  <1>9. /\ U \in Task /\ U.st = task.st /\ U.item = task.item /\ U.pending = task.pending
        /\ U.startup = marked /\ U.auto = task.auto /\ U.original = task.original
    BY <1>5, <1>20 DEF Task
  <1>10. /\ U.fallback = task.fallback /\ U.restored = task.restored
         /\ U.rebind = task.rebind /\ U.awaiting = task.awaiting
    BY <1>20 DEF Task
  <1> HIDE DEF T, U, w, y
  <1>11. w \in Worlds /\ w.task = T /\ w.disk = disk /\ w.owed = owed /\ w.faults = faults
    BY <1>2, <1>6, <1>7 DEF Worlds
  <1>12. y \in Worlds /\ y.task = U /\ y.disk = disk /\ y.owed = owed /\ y.faults = faults
    BY <1>2, <1>6, <1>9 DEF Worlds
  <1>13. Kept(w)
    <2>1. w.task.startup # {} =>
              World.task.startup # {} /\ w.task.original = World.task.original
      BY <1>1, <1>2, <1>5, <1>7, <1>11
    <2>. QED
      BY <1>2, <1>7, <1>8, <1>11, <2>1, KeptIfSame
  <1>14. Begun(w)
    BY <1>2, <1>5, <1>7, <1>8, <1>11, BegunIfSame
  <1>15. Kept(y)
    BY <1>1, <1>2, <1>9, <1>10, <1>12, KeptIfSame
  <1>16. Begun(y)
    BY <1>2, <1>5, <1>9, <1>10, <1>12, BegunIfSame
  <1>17. ASSUME x \in StartupRolledBack(y), task.auto \notin Held
         PROVE  Kept(x) /\ Begun(x)
    <2>1. Alive(y)
      BY <1>2, <1>5, <1>9, <1>10, <1>12 DEF Alive
    <2>2. y.task.auto # "heldRebind" /\ y.task.auto # "journalRebind"
      BY <1>9, <1>12, <1>17 DEF Held
    <2>3. Settled(y)
      BY <1>15, <2>1, <2>2, SettledIfNotHeld
    <2>4. y.task.startup \cap {"failed", "bind"} # {}
      BY <1>5, <1>9, <1>12
    <2>. QED
      BY <1>12, <1>15, <1>16, <1>17, <2>1, <2>2, <2>3, <2>4, StartupRolledBackLasts
  <1>18. Kept(x) /\ Begun(x)
    BY <1>4, <1>13, <1>14, <1>15, <1>16, <1>17
  <1>. QED
    BY <1>4, <1>18, TurnIsLasting

LEMMA RebindCreatesLasts ==
    ASSUME OneFault, DownloadInv, Lasting, NEW ok \in BOOLEAN, RebindCreates(ok)
    PROVE  Lasting'
  <1> DEFINE T == [task EXCEPT !.rebind = Nothing]
             U == [T EXCEPT !.pending = Nothing]
             w == [World EXCEPT !.task.rebind = Nothing]
             y == [w EXCEPT !.task.pending = Nothing]
  <1>1. task.rebind # Nothing
    BY DEF RebindCreates
  <1>2. /\ World \in Worlds /\ World.task = task /\ World.disk = disk /\ Sound(World)
        /\ World.owed = owed /\ World.faults = faults
        /\ Alive(World) /\ task.st = "live" /\ Kept(World) /\ Begun(World)
    BY <1>1, Now, Lives DEF Lasting
  <1>20. task \in Task
    BY Now
  <1>3. PICK x \in IF ok THEN {w}
                   ELSE IF task.item # Nothing THEN RebindRolledBack(w, task.rebind)
                   ELSE IF task.pending = "restore" THEN Restarted(y, FALSE)
                   ELSE {w} : TurnsInto(x)
    BY Zenon DEF RebindCreates, Becomes, TurnsInto
  <1>4. task.rebind \in Entry
    BY <1>1, <1>20 DEF Task
  <1>5. w = [World EXCEPT !.task = T]
    BY <1>2
  <1>6. /\ T \in Task /\ T.st = task.st /\ T.item = task.item /\ T.pending = task.pending
        /\ T.verdict = task.verdict /\ T.startup = task.startup /\ T.auto = task.auto
        /\ T.original = task.original /\ T.fallback = task.fallback /\ T.restored = task.restored
    BY <1>20 DEF Task
  <1>7. T.rebind = Nothing
    BY <1>20 DEF Task
  <1> HIDE DEF T, w
  <1>8. w \in Worlds /\ w.task = T /\ w.disk = disk /\ w.owed = owed /\ w.faults = faults
    BY <1>2, <1>5, <1>6 DEF Worlds
  <1>9. Sound(w) /\ Alive(w)
    BY <1>2, <1>6, <1>8, RetimedIsGood
  <1>10. Kept(w)
    BY <1>2, <1>6, <1>7, <1>8, KeptIfSame
  <1>11. w.owed => "bind" \notin w.task.startup
    BY <1>1, <1>2, <1>6, <1>8 DEF Begun, Starting
  <1>12. Begun(w)
    BY <1>11 DEF Begun, Starting
  <1>13. y = [w EXCEPT !.task = U]
    BY <1>8
  <1>14. /\ U \in Task /\ U.st = task.st /\ U.item = task.item /\ U.pending = Nothing
         /\ U.verdict = task.verdict /\ U.startup = task.startup /\ U.auto = task.auto
         /\ U.original = task.original /\ U.fallback = task.fallback /\ U.restored = task.restored
    BY <1>6 DEF Task
  <1>15. U.rebind = Nothing
    BY <1>6, <1>7 DEF Task
  <1> HIDE DEF U, y
  <1>16. y \in Worlds /\ y.task = U /\ y.disk = disk /\ y.owed = owed /\ y.faults = faults
    BY <1>8, <1>13, <1>14 DEF Worlds
  <1>17. ASSUME task.item # Nothing, x \in RebindRolledBack(w, task.rebind)
         PROVE  Kept(x) /\ Begun(x)
    <2>1. w.owed => Regained(w, task.rebind)
      <3> SUFFICES ASSUME w.owed PROVE Regained(w, task.rebind)
        OBVIOUS
      <3>1. Intact(task, disk, faults)
        BY <1>2, <1>8 DEF Kept
      <3>2. Backed(disk) /\ disk.journal # Nothing
        BY <1>2, <3>1 DEF Intact, Alive
      <3>3. disk.snapshot = Nothing => Covers(disk.partial, task.rebind.n)
        BY <1>1, <1>17, <3>1, <3>2 DEF Intact, Uncopied, Backed, Covers, Backs
      <3>4. task.startup # {} => task.original.n <= task.rebind.n
        BY <1>1, <3>1 DEF Intact, Originals
      <3>5. disk.snapshot = Nothing /\ ~Spent(w) => task.rebind.n = 0
        BY <1>1, <1>8, <1>17, <3>1 DEF Intact, Uncopied, Spent
      <3>6. disk.snapshot # Nothing /\ ~Spent(w) => Covers(disk.snapshot, task.rebind.n)
        BY <1>1, <1>8, <1>17, <3>1 DEF Intact, Creating, Spent, Covers, Backs
      <3>. QED
        BY <1>6, <1>8, <1>17, <3>3, <3>4, <3>5, <3>6 DEF Regained
    <2>2. Kept(x) /\ (x.owed => w.owed) /\ x.task.startup = w.task.startup
      BY <1>4, <1>9, <1>10, <1>17, <2>1, RebindRolledBackIsKept
    <2>3. Begun(x)
      BY <1>11, <2>2 DEF Begun, Starting
    <2>. QED
      BY <2>2, <2>3
  <1>18. ASSUME task.item = Nothing, x \in Restarted(y, FALSE)
         PROVE  Kept(x) /\ Begun(x)
    <2>1. Sound(y) /\ Alive(y)
      BY <1>2, <1>14, <1>16, NothingAssumption DEF Sound, Alive, NothingAssumption
    <2>2. Kept(y)
      BY <1>2, <1>14, <1>15, <1>16, KeptIfSame
    <2> DEFINE p == FALSE
    <2>3. p \in BOOLEAN /\ x \in Restarted(y, p)
      BY <1>18
    <2> HIDE DEF p
    <2>4. Kept(x) /\ Follows(y, x)
      BY <1>14, <1>16, <1>18, <2>1, <2>2, <2>3, RestartedIsKept
    <2>5. y.owed => "bind" \notin y.task.startup
      BY <1>6, <1>8, <1>11, <1>14, <1>16
    <2>. QED
      BY <2>4, <2>5, FollowsIsBegun
  <1>19. Kept(x) /\ Begun(x)
    BY <1>3, <1>10, <1>12, <1>17, <1>18
  <1>. QED
    BY <1>3, <1>19, TurnIsLasting

(* An item claims no byte that is not in the staging file. *)
LEMMA DeliveredClaims ==
    ASSUME disk \in Disk, disk.journal \in Entry, NEW kind \in Kinds, NEW i \in Delivered(kind)
    PROVE  Claims(i, disk)
  <1> DEFINE n == IF disk.partial = Nothing THEN 0
                  ELSE IF task.awaiting /\ disk.journal.n <= disk.partial.n THEN disk.journal.n
                  ELSE disk.partial.n
             V == IF disk.journal.v = Nothing THEN Versions ELSE {disk.journal.v}
  <1>1. disk.partial # Nothing => disk.partial.n \in Nat
    BY DownloadAssumption DEF Disk, Content, Bytes, DownloadAssumption
  <1>2. Covers(disk.partial, n)
    BY <1>1 DEF Covers, Backs
  <1> HIDE DEF n, V
  <1>3. \/ \E v \in Versions :
              i = [st |-> "running", v |-> v, n |-> 0, can |-> FALSE]
        \/ \E v \in V, can \in BOOLEAN :
              i = [st |-> "interrupted", v |-> v, can |-> can, n |-> n]
    BY SMT DEF Delivered, n, V
  <1>. QED
    BY <1>2, <1>3 DEF Claims

LEMMA ItemArrivesLasts ==
    ASSUME OneFault, DownloadInv, Lasting, NEW kind \in Kinds, ItemArrives(kind)
    PROVE  Lasting'
  <1> DEFINE w == [World EXCEPT !.asked[kind] = @ - 1, !.task.pending = Nothing]
             A == UNION {Accepted(w, i) : i \in Delivered(kind)}
  <1>1. requests[kind] > 0
    BY DEF ItemArrives
  <1>2. /\ World \in Worlds /\ Sound(World) /\ World.task = task /\ World.disk = disk
        /\ World.asked = requests /\ World.owed = owed /\ World.faults = faults
        /\ disk \in Disk /\ Kept(World) /\ Begun(World)
    BY Now DEF Lasting
  <1>20. task \in Task
    BY Now
  <1>3. PICK x \in IF task.pending = Nothing THEN {w} ELSE A \cup Failed(w, FALSE) : TurnsInto(x)
    BY Zenon DEF ItemArrives, Becomes, TurnsInto
  <1> DEFINE T == [task EXCEPT !.pending = Nothing]
             a == [requests EXCEPT ![kind] = requests[kind] - 1]
  <1>4. /\ T \in Task /\ T.pending = Nothing /\ T.st = task.st /\ T.item = task.item
        /\ T.auto = task.auto /\ T.verdict = task.verdict /\ T.startup = task.startup
        /\ T.original = task.original /\ T.fallback = task.fallback /\ T.restored = task.restored
    BY <1>20 DEF Task
  <1>5. T.rebind = task.rebind /\ T.awaiting = task.awaiting
    BY <1>20 DEF Task
  <1>6. a \in [Kinds -> Nat]
    <2>1. requests \in [Kinds -> Nat] /\ requests[kind] \in Nat
      BY <1>2 DEF Worlds
    <2>2. requests[kind] - 1 \in Nat
      BY <1>1, <2>1
    <2>. QED
      BY <2>1, <2>2
  <1>7. w = [World EXCEPT !.asked = a, !.task = T]
    BY <1>2
  <1> HIDE DEF T, a, w, A
  <1>8. w \in Worlds /\ w.task = T /\ w.disk = disk /\ w.owed = owed /\ w.faults = faults
    BY <1>2, <1>4, <1>6, <1>7 DEF Worlds
  <1>9. Kept(w)
    BY <1>2, <1>4, <1>5, <1>8, KeptIfSame
  <1>10. Begun(w)
    BY <1>2, <1>4, <1>5, <1>8, BegunIfSame
  <1>11. CASE task.pending = Nothing
    BY <1>3, <1>9, <1>10, <1>11, TurnIsLasting
  <1>12. CASE task.pending # Nothing
    <2>1. /\ Alive(World) /\ task.item = Nothing /\ task.st = "live"
          /\ disk.journal # Nothing /\ disk.journal \in Entry /\ task.verdict = Nothing
      BY <1>2, <1>12, Lives DEF Sound
    <2>2. Sound(w) /\ Alive(w)
      BY <1>2, <1>4, <1>8, <2>1, NothingAssumption DEF Sound, Alive, NothingAssumption
    <2>3. w.owed /\ w.task.fallback = Nothing /\ ~w.task.restored => w.disk.journal.n = 0
      BY <1>2, <1>4, <1>8, <1>12, <2>1 DEF Kept, Intact, Waiting
    <2>4. ASSUME x \in Failed(w, FALSE)
          PROVE  Kept(x) /\ Begun(x)
      <3>1. ~x.owed /\ x.task.st = "failed"
        BY <1>8, <2>4, FailedIsGivenUp
      <3>. QED
        BY <3>1, GivenUpIsKept, OverIsBegun
    <2>5. ASSUME x \in A
          PROVE  Kept(x) /\ Begun(x)
      <3>1. PICK i \in Delivered(kind) : x \in Accepted(w, i)
        BY <2>5 DEF A
      <3>2. i \in Item
        BY <1>2, <2>1, DeliveredType
      <3>3. Claims(i, w.disk)
        BY <1>2, <1>8, <2>1, DeliveredClaims
      <3>. QED
        BY <1>4, <1>8, <1>9, <1>10, <2>1, <2>2, <2>3, <3>1, <3>2, <3>3, AcceptedIsKept
    <2>. QED
      BY <1>3, <1>12, <2>4, <2>5, TurnIsLasting
  <1>. QED
    BY <1>11, <1>12

(* A rollback clears the timer itself. *)
LEMMA StartupRolledBackCleared ==
    ASSUME NEW w \in Worlds, NEW off, off = [w EXCEPT !.task.auto = Nothing]
    PROVE  StartupRolledBack(off) = StartupRolledBack(w)
  <1> DEFINE c(v) == [v EXCEPT !.task.pending = Nothing, !.task.stall = FALSE, !.task.auto = Nothing]
             S(d, e) == UNION {UNION {IF r.thrown THEN {HeldForJournal(r.w, "journalStartup")}
                                      ELSE {Ended(x, "none") : x \in Cancelled(r.w)} :
                                          r \in Upserts(s.w, e)} :
                                   s \in Snapshots(d, TRUE)}
  <1>1. StartupRolledBack(w) = S(c(w), w.task.original)
    BY Zenon DEF StartupRolledBack
  <1>2. StartupRolledBack(off) = S(c(off), off.task.original)
    BY Zenon DEF StartupRolledBack
  <1> DEFINE T == [w.task EXCEPT !.auto = Nothing]
             C(t) == [t EXCEPT !.pending = Nothing, !.stall = FALSE, !.auto = Nothing]
  <1>3. w.task \in Task
    BY FieldsOfWorld
  <1>4. C(T) = C(w.task) /\ T.original = w.task.original
    BY <1>3 DEF Task
  <1>5. off = [w EXCEPT !.task = T]
    OBVIOUS
  <1>6. c(w) = [w EXCEPT !.task = C(w.task)]
    OBVIOUS
  <1>7. off.task = T
    BY <1>5 DEF Worlds
  <1>8. c(off) = [off EXCEPT !.task = C(off.task)]
    OBVIOUS
  <1> HIDE DEF c, C, T, S
  <1>9. c(off) = [w EXCEPT !.task = C(T)]
    BY <1>5, <1>7, <1>8 DEF Worlds
  <1>10. c(off) = c(w) /\ off.task.original = w.task.original
    BY <1>4, <1>6, <1>7, <1>9
  <1>. QED
    BY <1>1, <1>2, <1>10

LEMMA RebindRolledBackCleared ==
    ASSUME NEW w \in Worlds, NEW off, off = [w EXCEPT !.task.auto = Nothing], NEW entry
    PROVE  RebindRolledBack(off, entry) = RebindRolledBack(w, entry)
  <1> DEFINE c(v) == [v EXCEPT !.task.stall = FALSE, !.task.auto = Nothing, !.task.rebind = Nothing,
                               !.task.fallback = entry]
             S(d) == UNION {IF r.thrown THEN {HeldForJournal(r.w, "journalRebind")}
                            ELSE UNION {IF s.thrown THEN {[s.w EXCEPT !.task.auto = "snapshot"]}
                                        ELSE {[x EXCEPT !.task.auto = "restart"] : x \in Cancelled(s.w)} :
                                            s \in Snapshots(r.w, TRUE)} :
                                r \in Upserts(d, entry)}
  <1>1. RebindRolledBack(w, entry) = S(c(w))
    BY Zenon DEF RebindRolledBack
  <1>2. RebindRolledBack(off, entry) = S(c(off))
    BY Zenon DEF RebindRolledBack
  <1> DEFINE T == [w.task EXCEPT !.auto = Nothing]
             C(t) == [t EXCEPT !.stall = FALSE, !.auto = Nothing, !.rebind = Nothing,
                               !.fallback = entry]
  <1>3. w.task \in Task
    BY FieldsOfWorld
  <1>4. C(T) = C(w.task)
    BY <1>3 DEF Task
  <1>5. off = [w EXCEPT !.task = T]
    OBVIOUS
  <1>6. c(w) = [w EXCEPT !.task = C(w.task)]
    OBVIOUS
  <1>7. off.task = T
    BY <1>5 DEF Worlds
  <1>8. c(off) = [off EXCEPT !.task = C(off.task)]
    OBVIOUS
  <1> HIDE DEF c, C, T, S
  <1>9. c(off) = [w EXCEPT !.task = C(T)]
    BY <1>5, <1>7, <1>8 DEF Worlds
  <1>10. c(off) = c(w)
    BY <1>4, <1>6, <1>9
  <1>. QED
    BY <1>1, <1>2, <1>10

(* What a rollback that is tried again goes back to is still there. *)
LEMMA JournalRebindRegains ==
    ASSUME NEW w \in Worlds, Alive(w), Kept(w), OneFault, w.owed, w.task.auto = "journalRebind"
    PROVE  Regained(w, w.task.fallback)
  <1>1. Intact(w.task, w.disk, w.faults) /\ w.task.fallback # Nothing
    BY DEF Kept, Alive
  <1>2. w.task.startup # {} => w.task.original.n <= w.task.fallback.n
    BY <1>1 DEF Intact, Originals, Authority
  <1>3. w.disk.snapshot = Nothing => Covers(w.disk.partial, w.task.fallback.n)
    BY <1>1 DEF Intact, Guarded, Preserved, Covers, Backs
  <1>4. w.disk.snapshot = Nothing /\ ~Spent(w) /\ w.task.item # Nothing => w.task.fallback.n = 0
    BY <1>1 DEF Intact, Uncopied, Spent
  <1>5. w.disk.snapshot # Nothing => Covers(w.disk.snapshot, w.task.fallback.n)
    BY <1>1 DEF Intact, Guarded, Preserved
  <1>6. w.task.item # Nothing \/ w.task.fallback = w.disk.journal
    BY <1>1 DEF Intact, Fallbacks
  <1>. QED
    BY <1>2, <1>3, <1>4, <1>5, <1>6 DEF Regained

LEMMA HeldRebindRegains ==
    ASSUME NEW w, Sound(w), Alive(w), Kept(w), OneFault, w.task.auto = "heldRebind",
           NEW p \in BOOLEAN, p, NEW s \in Snapshots(w, p), ~s.thrown, s.w.owed
    PROVE  /\ RecoveryEntry(s.w) \in Entry
           /\ Regained(s.w, RecoveryEntry(s.w))
  <1>1. w \in Worlds
    BY DEF Sound
  <1>2. /\ s.w \in Worlds /\ s.w.task = w.task /\ s.w.disk.journal = w.disk.journal
        /\ Kept(s.w) /\ Covers(s.w.disk.snapshot, Authority(w.task, w.disk).n)
    BY <1>1, SnapshotsAreKept
  <1>3. Intact(w.task, s.w.disk, s.w.faults)
    BY <1>2 DEF Kept, Alive
  <1>4. w.task.fallback # Nothing => w.task.fallback = w.disk.journal
    BY <1>2, <1>3 DEF Intact, Fallbacks
  <1>5. RecoveryEntry(s.w) = w.disk.journal /\ Authority(w.task, w.disk) = w.disk.journal
    BY <1>2, <1>4 DEF RecoveryEntry, Authority, Alive
  <1>6. w.disk.journal \in Entry
    BY <1>1, DiskTypes DEF Alive
  <1>7. w.task.startup # {} => w.task.original.n <= w.disk.journal.n
    BY <1>2, <1>3 DEF Intact, Originals
  <1>8. s.w.disk.snapshot = Nothing => w.disk.journal.n = 0
    BY <1>2, <1>5 DEF Covers, Backs
  <1>9. Covers(s.w.disk.partial, 0)
    BY DEF Covers
  <1>. QED
    BY <1>2, <1>5, <1>6, <1>7, <1>8, <1>9 DEF Regained

LEMMA AutoFiresLasts ==
    ASSUME OneFault, DownloadInv, Lasting, AutoFires
    PROVE  Lasting'
  <1> DEFINE off == [World EXCEPT !.task.auto = Nothing]
             held == UNION {IF s.thrown THEN {s.w} ELSE StartupRolledBack(s.w) :
                               s \in Snapshots(World, TRUE)}
             reheld == UNION {IF s.thrown THEN {s.w} ELSE RebindRolledBack(s.w, RecoveryEntry(s.w)) :
                                 s \in Snapshots(World, TRUE)}
             p == TRUE
             T == [task EXCEPT !.auto = Nothing]
  <1>1. task.auto # Nothing
    BY DEF AutoFires
  <1>2. /\ World \in Worlds /\ Sound(World) /\ Alive(World)
        /\ World.task = task /\ World.disk = disk
        /\ World.owed = owed /\ World.faults = faults
        /\ task.st = "live" /\ Kept(World) /\ Begun(World)
    BY <1>1, Now, Lives DEF Lasting
  <1>20. task \in Task
    BY Now
  <1>3. task.auto \in Waits
    BY <1>1, <1>20 DEF Task
  <1>4. PICK x \in CASE task.auto = "resume" -> Resumed(World)
                     [] task.auto = "relaunch" -> Relaunched(World)
                     [] task.auto = "snapshot" -> Rebound(World)
                     [] task.auto = "exhausted" -> Scheduled(off)
                     [] task.auto = "restart" -> Restarted(off, TRUE)
                     [] task.auto = "journalStartup" -> StartupRolledBack(off)
                     [] task.auto = "journalRebind" -> RebindRolledBack(off, task.fallback)
                     [] task.auto = "heldStartup" -> held
                     [] task.auto = "heldRebind" -> reheld : TurnsInto(x)
    BY Zenon DEF AutoFires, Becomes, TurnsInto
  <1>5. /\ T \in Task /\ T.auto = Nothing /\ T.st = task.st /\ T.item = task.item
        /\ T.pending = task.pending /\ T.verdict = task.verdict /\ T.startup = task.startup
        /\ T.original = task.original /\ T.fallback = task.fallback /\ T.restored = task.restored
    BY <1>20 DEF Task
  <1>6. T.rebind = task.rebind
    BY <1>20 DEF Task
  <1>7. off = [World EXCEPT !.task = T]
    BY <1>2
  <1>8. /\ StartupRolledBack(off) = StartupRolledBack(World)
        /\ RebindRolledBack(off, task.fallback) = RebindRolledBack(World, task.fallback)
    <2>1. PICK v : v = off
      OBVIOUS
    <2> HIDE DEF off
    <2>2. v = [World EXCEPT !.task.auto = Nothing]
      BY <2>1 DEF off
    <2>3. /\ StartupRolledBack(v) = StartupRolledBack(World)
          /\ RebindRolledBack(v, task.fallback) = RebindRolledBack(World, task.fallback)
      BY <1>2, <2>2, StartupRolledBackCleared, RebindRolledBackCleared
    <2>. QED
      BY <2>1, <2>3
  <1>9. \A s \in Snapshots(World, TRUE) : s \in Snapshots(World, p)
    OBVIOUS
  <1>10. p \in BOOLEAN /\ p /\ \A z : Restarted(z, TRUE) = Restarted(z, p)
    OBVIOUS
  <1> HIDE DEF off, held, reheld, T, p
  <1>11. off \in Worlds /\ off.task = T /\ off.disk = disk /\ off.owed = owed /\ off.faults = faults
    BY <1>2, <1>5, <1>7 DEF Worlds
  <1>12. Sound(off) /\ Alive(off)
    BY <1>2, <1>5, <1>11, RetimedIsGood
  <1>13. ASSUME NEW s \in Snapshots(World, TRUE)
         PROVE  /\ s.w \in Worlds /\ s.w.task = task /\ Kept(s.w) /\ Begun(s.w)
                /\ Sound(s.w) /\ Alive(s.w) /\ (s.w.owed => owed)
    <2>1. s \in Snapshots(World, p)
      BY <1>9
    <2>2. /\ s.w \in Worlds /\ s.w.task = task /\ Kept(s.w) /\ (s.w.owed => owed)
      BY <1>2, <1>10, <2>1, SnapshotsAreKept
    <2>3. Begun(s.w)
      BY <1>2, <2>2 DEF Begun
    <2>4. /\ s.w.disk.partial = World.disk.partial /\ s.w.disk.final = World.disk.final
          /\ s.w.disk.journal = World.disk.journal
      BY <1>2, <1>10, <2>1, SnapshotsKeep
    <2>5. s.w.disk.journal # Nothing
      BY <1>2, <2>4 DEF Alive
    <2>6. Sound(s.w) /\ Alive(s.w)
      BY <1>2, <2>2, <2>4, <2>5, SameTaskIsSound
    <2>. QED
      BY <2>2, <2>3, <2>6
  <1>14. ASSUME task.auto \notin Held, Kept(x), Follows(World, x)
         PROVE  Begun(x)
    BY <1>1, <1>2, <1>14, StartIsOver, FollowsIsBegun
  <1>15. ASSUME NEW w, Follows(w, x), w.owed = owed, w.task.startup = task.startup
         PROVE  Follows(World, x)
    BY <1>2, <1>15 DEF Follows
  <1>21. ASSUME task.auto = "resume" /\ x \in Resumed(World)
         PROVE  Kept(x) /\ Begun(x)
    <2>1. task.auto \notin Held
      BY <1>21 DEF Held
    <2>. QED
      BY <1>2, <1>14, <1>21, <2>1, ResumedIsKept
  <1>22. ASSUME task.auto = "relaunch" /\ x \in Relaunched(World)
         PROVE  Kept(x) /\ Begun(x)
    <2>1. task.auto \notin Held /\ task.item = Nothing
      BY <1>2, <1>22 DEF Held, Sound
    <2>. QED
      BY <1>2, <1>14, <1>22, <2>1, RelaunchedIsKept
  <1>23. ASSUME task.auto = "snapshot" /\ x \in Rebound(World)
         PROVE  Kept(x) /\ Begun(x)
    <2>1. task.auto \notin Held
      BY <1>23 DEF Held
    <2>. QED
      BY <1>2, <1>14, <1>23, <2>1, ReboundIsKept
  <1>24. ASSUME task.auto = "exhausted" /\ x \in Scheduled(off)
         PROVE  Kept(x) /\ Begun(x)
    <2>1. task.auto \notin Held /\ off.task.auto \notin Held /\ off.task.auto # "relaunch"
      BY <1>5, <1>11, <1>24, NoWait, NothingAssumption DEF Held, NothingAssumption, Waits
    <2>2. Kept(off)
      BY <1>2, <1>5, <1>6, <1>11, <2>1, KeptIfRetimed
    <2>3. Kept(x) /\ Follows(off, x)
      BY <1>12, <1>24, <2>2, ScheduledIsKept, ScheduledFollows
    <2>. QED
      BY <1>5, <1>11, <1>14, <1>15, <2>1, <2>3
  <1>25. ASSUME task.auto = "restart" /\ x \in Restarted(off, TRUE)
         PROVE  Kept(x) /\ Begun(x)
    <2>1. task.auto \notin Held /\ task.item = Nothing
      BY <1>2, <1>25 DEF Held, Sound
    <2>2. Nothing # "relaunch" /\ Nothing # "journalRebind"
      BY NothingAssumption DEF NothingAssumption, Waits
    <2>3. Kept(off)
      BY <1>2, <1>5, <1>6, <1>11, <2>1, <2>2, KeptWithoutItem
    <2>4. x \in Restarted(off, p)
      BY <1>10, <1>25
    <2>5. Kept(x) /\ Follows(off, x)
      BY <1>5, <1>10, <1>11, <1>12, <2>1, <2>3, <2>4, RestartedIsKept
    <2>. QED
      BY <1>5, <1>11, <1>14, <1>15, <2>1, <2>5
  <1>26. ASSUME NEW w, w \in Worlds, Alive(w), Kept(w), Begun(w), w.task = task,
                task.auto \in {"journalStartup", "heldStartup"}, x \in StartupRolledBack(w)
         PROVE  Kept(x) /\ Begun(x)
    <2>1. w.task.startup \cap {"failed", "bind"} # {}
      BY <1>26 DEF Alive
    <2>2. Settled(w)
      BY <1>26, SettledIfNotHeld
    <2>3. w.task.auto # "heldRebind"
      BY <1>26
    <2>. QED
      BY <1>26, <2>1, <2>2, <2>3, StartupRolledBackLasts
  <1>27. ASSUME NEW w, Sound(w), Alive(w), Kept(w), Begun(w), w.task = task,
                task.auto \in {"journalRebind", "heldRebind"}, NEW entry \in Entry,
                w.owed => Regained(w, entry), x \in RebindRolledBack(w, entry)
         PROVE  Kept(x) /\ Begun(x)
    <2>1. Kept(x) /\ (x.owed => w.owed) /\ x.task.startup = task.startup
      BY <1>27, RebindRolledBackIsKept
    <2>2. w.owed => "bind" \notin task.startup
      <3>1. task.auto \notin {Nothing, "heldStartup", "journalStartup"}
        BY <1>1, <1>27
      <3>. QED
        BY <1>2, <1>27, <3>1 DEF Begun, Starting
    <2>. QED
      BY <2>1, <2>2 DEF Begun, Starting
  <1>28. ASSUME task.auto = "journalRebind" /\ x \in RebindRolledBack(World, task.fallback)
         PROVE  Kept(x) /\ Begun(x)
    <2>1. task.fallback \in Entry
      BY <1>2, <1>20, <1>28 DEF Alive, Task
    <2>2. owed => Regained(World, task.fallback)
      BY <1>2, <1>28, JournalRebindRegains
    <2>. QED
      BY <1>2, <1>27, <1>28, <2>1, <2>2
  <1>29. ASSUME task.auto = "heldStartup" /\ x \in held
         PROVE  Kept(x) /\ Begun(x)
    <2>1. PICK s \in Snapshots(World, TRUE) :
              x \in IF s.thrown THEN {s.w} ELSE StartupRolledBack(s.w)
      BY <1>29 DEF held
    <2>2. /\ s.w \in Worlds /\ s.w.task = task /\ Kept(s.w) /\ Begun(s.w) /\ Alive(s.w)
      BY <1>13
    <2>. QED
      BY <1>26, <1>29, <2>1, <2>2
  <1>30. ASSUME task.auto = "heldRebind" /\ x \in reheld
         PROVE  Kept(x) /\ Begun(x)
    <2>1. PICK s \in Snapshots(World, TRUE) :
              x \in IF s.thrown THEN {s.w} ELSE RebindRolledBack(s.w, RecoveryEntry(s.w))
      BY <1>30 DEF reheld
    <2>2. /\ s.w \in Worlds /\ s.w.task = task /\ Kept(s.w) /\ Begun(s.w)
          /\ Sound(s.w) /\ Alive(s.w)
      BY <1>13
    <2>3. RecoveryEntry(s.w) \in Entry
      <3>1. task.fallback # Nothing \/ task.restored
        BY <1>2, <1>30 DEF Alive
      <3>. QED
        BY <2>2, <3>1, RecoveryEntryType DEF Alive
    <2>4. s.w.owed /\ ~s.thrown => Regained(s.w, RecoveryEntry(s.w))
      BY <1>2, <1>9, <1>10, <1>30, <2>1, HeldRebindRegains
    <2>. QED
      BY <1>27, <1>30, <2>1, <2>2, <2>3, <2>4
  <1>31. ASSUME task.auto = "journalStartup" /\ x \in StartupRolledBack(World)
         PROVE  Kept(x) /\ Begun(x)
    BY <1>2, <1>26, <1>31
  <1>32. Kept(x) /\ Begun(x)
    BY <1>3, <1>4, <1>8, <1>21, <1>22, <1>23, <1>24, <1>25, <1>28, <1>29, <1>30, <1>31 DEF Waits
  <1>. QED
    BY <1>4, <1>32, TurnIsLasting

LEMMA DisposeLasts ==
    ASSUME OneFault, DownloadInv, Lasting, Dispose
    PROVE  Lasting'
  <1> DEFINE p == task.fallback # Nothing
             saved == UNION {IF s.thrown THEN {[w |-> s.w, thrown |-> TRUE]} ELSE Persists(s.w, s.bytes) :
                                s \in Snapshots(World, p)}
  <1>1. /\ World \in Worlds /\ World.task = task /\ World.disk = disk /\ Sound(World)
        /\ World.owed = owed /\ Kept(World) /\ Begun(World)
    BY Now DEF Lasting
  <1> HIDE DEF saved
  <1>2. PICK r \in IF task.st # "live" THEN {[w |-> World, thrown |-> FALSE]} ELSE saved :
            IF r.thrown THEN Becomes({r.w})
            ELSE Becomes(IF task.st # "live" THEN {r.w}
                         ELSE {Ended(x, "none") : x \in Cancelled(r.w)})
    BY Zenon DEF Dispose, saved
  <1>3. CASE task.st # "live"
    <2>1. r.w = World /\ r.thrown = FALSE
      BY <1>2, <1>3
    <2>2. TurnsInto(World)
      BY <1>2, <1>3, <2>1 DEF Becomes, TurnsInto
    <2>. QED
      BY <1>1, <2>2, TurnIsLasting
  <1>4. CASE task.st = "live"
    <2>1. Alive(World) /\ disk.journal # Nothing
      BY <1>4, Lives
    <2>2. PICK s \in Snapshots(World, p) :
              r \in IF s.thrown THEN {[w |-> s.w, thrown |-> TRUE]} ELSE Persists(s.w, s.bytes)
      BY <1>2, <1>4 DEF saved
    <2>3. p \in BOOLEAN /\ (World.task.fallback # Nothing => p)
      BY <1>1
    <2> HIDE DEF p
    <2>4. /\ s.w \in Worlds /\ s.w.task = task /\ Kept(s.w) /\ (s.w.owed => owed)
      BY <1>1, <2>1, <2>2, <2>3, SnapshotsAreKept
    <2>5. ASSUME s.thrown
          PROVE  /\ r.thrown = TRUE /\ r.w = s.w
      BY <2>2, <2>5
    <2>6. ASSUME ~s.thrown
          PROVE  /\ r.w \in Worlds
                 /\ r.thrown => Kept(r.w) /\ r.w.task = task /\ (r.w.owed => owed)
                 /\ ~r.thrown /\ r.w.owed => Covers(r.w.disk.snapshot, r.w.disk.journal.n)
      <3>1. r \in Persists(s.w, s.bytes)
        BY <2>2, <2>6
      <3>. QED
        BY <1>1, <2>1, <2>2, <2>3, <2>6, <3>1, RecordedAtEnd
    <2>7. CASE r.thrown
      <3>1. Kept(r.w) /\ r.w.task = task /\ (r.w.owed => owed)
        BY <2>4, <2>5, <2>6, <2>7
      <3>2. Begun(r.w)
        BY <1>1, <3>1 DEF Begun
      <3>3. TurnsInto(r.w)
        BY <1>2, <2>7 DEF Becomes, TurnsInto
      <3>. QED
        BY <3>1, <3>2, <3>3, TurnIsLasting
    <2>8. CASE ~r.thrown
      <3>1. PICK y \in {Ended(x, "none") : x \in Cancelled(r.w)} : TurnsInto(y)
        BY <1>2, <1>4, <2>8 DEF Becomes, TurnsInto
      <3>2. PICK x \in Cancelled(r.w) : y = Ended(x, "none")
        BY <3>1
      <3>3. /\ r.w \in Worlds
            /\ r.w.owed => Covers(r.w.disk.snapshot, r.w.disk.journal.n)
        BY <2>5, <2>6, <2>8
      <3>4. /\ x \in Worlds /\ x.owed = r.w.owed
            /\ x.disk \in {r.w.disk, [r.w.disk EXCEPT !.partial = Nothing]}
        BY <3>2, <3>3, CancelledKeeps
      <3>5. x.disk.snapshot = r.w.disk.snapshot /\ x.disk.journal = r.w.disk.journal
        BY <3>3, <3>4, FieldsOfWorld DEF Disk
      <3>6. y.disk = x.disk /\ y.owed = x.owed /\ y.task.st # "live"
        BY <3>2, <3>4, EndedFields
      <3>7. Kept(y) /\ Begun(y)
        BY <3>3, <3>4, <3>5, <3>6 DEF Kept, Backed, Begun
      <3>. QED
        BY <3>1, <3>7, TurnIsLasting
    <2>. QED
      BY <2>7, <2>8
  <1>. QED
    BY <1>3, <1>4

(* Whatever the end of the application tears is in the copy, or is published. *)
LEMMA EndLasts ==
    ASSUME OneFault, DownloadInv, Lasting, End
    PROVE  Lasting'
  <1>1. /\ World.task = task /\ World.disk = disk /\ disk \in Disk /\ World.owed = owed
        /\ Kept(World)
    BY Now DEF Lasting
  <1>2. /\ task' = NoTask /\ disk' \in TornDisks
        /\ owed' = (owed /\ (task.verdict = TRUE => disk'.partial # Nothing))
    BY DEF End
  <1> DEFINE removed == [disk EXCEPT !.partial = Nothing]
             moved == [disk EXCEPT !.final = disk.partial, !.partial = Nothing]
  <1>3. \/ disk' = disk
        \/ disk' = removed /\ task.auto = "relaunch"
        \/ disk' = moved /\ task.verdict = TRUE
    <2> HIDE DEF removed, moved
    <2>. QED
      BY <1>2 DEF TornDisks, removed, moved
  <1>4. removed.snapshot = disk.snapshot /\ removed.journal = disk.journal
    BY <1>1 DEF Disk
  <1>5. moved.partial = Nothing
    BY <1>1 DEF Disk
  <1> HIDE DEF removed, moved
  <1>6. ASSUME owed'
        PROVE  Backed(disk')
    <2>1. owed /\ (task.verdict = TRUE => disk'.partial # Nothing)
      BY <1>2, <1>6
    <2>2. CASE disk' = disk
      BY <1>1, <2>1, <2>2 DEF Kept
    <2>3. CASE disk' = removed /\ task.auto = "relaunch"
      <3>1. task.st = "live"
        BY <2>3, Lives, NothingAssumption DEF NothingAssumption, Waits
      <3>2. Covers(disk.snapshot, disk.journal.n)
        BY <1>1, <2>1, <2>3, <3>1 DEF Kept, Intact, Leaving
      <3>. QED
        BY <1>4, <2>3, <3>2 DEF Backed
    <2>4. CASE disk' = moved /\ task.verdict = TRUE
      BY <1>5, <2>1, <2>4
    <2>. QED
      BY <1>3, <2>2, <2>3, <2>4
  <1>7. NoTask.st # "live"
    BY DEF NoTask
  <1>8. Kept(World)'
    BY <1>2, <1>6, <1>7 DEF Kept, World
  <1>9. Begun(World)'
    BY <1>2, <1>7 DEF Begun, World
  <1>. QED
    BY <1>8, <1>9 DEF Lasting

LEMMA RestartLasts ==
    ASSUME OneFault, DownloadInv, Lasting, Restart
    PROVE  Lasting'
  <1>1. app = "ended" /\ Finished(World)
    BY DEF Restart, DownloadInv
  <1>2. /\ World \in Worlds /\ World.task = task /\ World.disk = disk /\ Sound(World)
        /\ World.owed = owed /\ Kept(World) /\ Begun(World)
    BY Now DEF Lasting
  <1>3. PICK x \in IF disk.journal = Nothing THEN {World}
                   ELSE UNION {Recovered(p) : p \in PromotedAtStart(World)} : TurnsInto(x)
    BY Zenon DEF Restart, Becomes, TurnsInto
  <1>4. CASE disk.journal = Nothing
    BY <1>2, <1>3, <1>4, TurnIsLasting
  <1>5. CASE disk.journal # Nothing
    <2>1. PICK p \in PromotedAtStart(World) : x \in Recovered(p)
      BY <1>3, <1>5
    <2>2. /\ p.w \in Worlds /\ p.w.task = task
          /\ p.w.disk.final = disk.final /\ p.w.disk.journal = disk.journal
      BY <1>2, <2>1, PromotedAtStartKeeps
    <2>3. Finished(p.w) /\ task.verdict = Nothing /\ task.item = Nothing
      BY <1>1, <1>2, <2>2 DEF Finished, NoTask
    <2>4. Sound(p.w)
      BY <1>2, <2>2, <2>3, NothingAssumption DEF Sound, NothingAssumption
    <2>5. World.owed => Backed(World.disk)
      BY <1>2 DEF Kept
    <2>6. /\ p.w.owed => Backed(p.w.disk)
          /\ p.w.owed /\ p.is # "blocked" => Covers(p.w.disk.partial, p.w.disk.journal.n)
      BY <1>2, <1>5, <2>1, <2>2, <2>5, PromotedAtStartIsKept
    <2>7. Kept(x) /\ Begun(x)
      BY <1>5, <2>1, <2>2, <2>3, <2>4, <2>6, RecoveredIsKept
    <2>. QED
      BY <1>3, <2>7, TurnIsLasting
  <1>. QED
    BY <1>4, <1>5

LEMMA LastingInitially == DownloadInit => Lasting
  <1>1. DownloadInit => owed = FALSE /\ task.st # "live"
    BY DEF DownloadInit, NoTask
  <1>. QED
    BY <1>1 DEF Lasting, Kept, Begun, World

LEMMA LastingStep ==
    ASSUME OneFault
    PROVE  DownloadInv /\ Lasting /\ [DownloadNext]_downloadVars => Lasting'
  <1> SUFFICES ASSUME DownloadInv, Lasting, [DownloadNext]_downloadVars PROVE Lasting'
    OBVIOUS
  <1>1. CASE UNCHANGED downloadVars
    BY <1>1 DEF downloadVars, Lasting, World
  <1>2. CASE User
    BY <1>2, StartLasts, CancelDownloadLasts, PauseLasts, ResumeLasts, ResumeRecoveryLasts,
       DiscardRecoveryLasts, DeleteHistoryLasts DEF User
  <1>3. CASE Electron
    BY <1>3, ItemArrivesLasts, ProgressLasts, ServerRestartsLasts, InterruptedLasts,
       CompletedLasts, StartupCreatesLasts, RebindCreatesLasts DEF Electron
  <1>4. CASE Engine
    BY <1>4, AutoFiresLasts, StallFiresLasts, VerifyEndsLasts, StaleVerifyEndsLasts DEF Engine
  <1>5. CASE Quit
    BY <1>5, DisposeLasts, EndLasts, RestartLasts DEF Quit
  <1>. QED
    BY <1>1, <1>2, <1>3, <1>4, <1>5 DEF DownloadNext

(* As long as nobody has given the download up, and no older record may be    *)
(* written back over a new one, the bytes the journal records are in the       *)
(* staging file or in its copy at every moment at which the application may    *)
(* end, if at most one call on a file or the journal fails: whatever the       *)
(* listeners, timers, the user, the server and restarts do in which order, the *)
(* next start finds what it offers to continue (src/main/download/engine.ts).  *)
THEOREM RecordedBytesKept ==
    ASSUME MaxFaults \in {0, 1}
    PROVE  DownloadSpec => []RecordedBytesExist
  <1>1. OneFault
    BY DEF OneFault
  <1>2. DownloadInv /\ Lasting => RecordedBytesExist
    <2> SUFFICES ASSUME DownloadInv, Lasting PROVE RecordedBytesExist
      OBVIOUS
    <2>1. owed => Backed(disk)
      BY <1>1, Now DEF Lasting, Kept
    <2>. QED
      BY <2>1 DEF Backed, Covers, RecordedBytesExist
  <1>3. DownloadInit => DownloadInv /\ Lasting
    BY DownloadInitially, LastingInitially
  <1>4. DownloadInv /\ Lasting /\ [DownloadNext]_downloadVars => DownloadInv' /\ Lasting'
    BY <1>1, DownloadStep, LastingStep
  <1>. QED
    BY <1>2, <1>3, <1>4, PTL DEF DownloadSpec

=============================================================================
