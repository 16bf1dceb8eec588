---------------------------- MODULE DownloadTask ----------------------------
(***************************************************************************)
(* One download of the download engine: download/engine.ts, its retry      *)
(* controller (engine-retry.ts), what both keep on the disk                *)
(* (engine-state.ts, journal.ts), across ends of the application.          *)
(*                                                                         *)
(* Electron transfers; the engine only sees items.  An item writes the     *)
(* staging file (partial); before anything may destroy that file the       *)
(* engine copies it (snapshot); the journal says with which validators and *)
(* from which byte to go on.  A download that was interrupted by the end   *)
(* of the application is offered to the user, who resumes or discards it.  *)
(*                                                                         *)
(* Tasks have different files and journal entries, so one shows all.  What *)
(* the engine does between two events is one step; an end of the           *)
(* application in the middle of it is one of the TornDisks.  Requests have *)
(* generations in the code; here a request, a timer or a creation that is  *)
(* still of the current generation is a field of task, which a new         *)
(* generation clears, and only items, which come late, are counted.        *)
(***************************************************************************)
EXTENDS Integers

CONSTANTS
    Versions,     \* contents a server may deliver under the address
    Wanted,       \* the one whose SHA-256 the request names
    Full,         \* its length
    Nothing,
    MaxAttempts,  \* automatic continuations (12 in the code)
    MaxStarts,    \* bound: requests of the user
    MaxFaults,    \* bound: failing calls on files, and items Electron refuses
    MaxRestarts,  \* bound: servers that begin again at byte 0
    MaxEnds       \* bound: ends of the application

ASSUME DownloadAssumption ==
    /\ Wanted \in Versions
    /\ Nothing \notin Versions
    /\ Full \in Nat \ {0}
    /\ {MaxAttempts, MaxStarts, MaxFaults, MaxRestarts, MaxEnds} \subseteq Nat

VARIABLES
    app,       \* "running", "disposed" (quit has begun) or "ended"
    task,      \* the engine's record of the download
    disk,      \* the files
    requests,  \* per kind, items Electron was asked for and has not delivered
    stale,     \* a verification of a task that has ended meanwhile still runs
    owed,      \* history: the recorded bytes are still worth something to the user
    faults, starts, restarts, ends

downloadVars == <<app, task, disk, requests, stale, owed, faults, starts, restarts, ends>>

Kinds == {"url", "restore"}
Bytes == 0 .. Full
Content == [v : Versions, n : Bytes]
Entry == [v : Versions \cup {Nothing}, n : Bytes]   \* Nothing: no validators were seen yet

\* Why the timer of the automatic continuation runs.
Waits == {"resume", "relaunch", "snapshot", "exhausted", "restart",
          "heldStartup", "heldRebind", "journalStartup", "journalRebind"}
\* Those in which the user can neither pause nor resume.
Held == {"heldStartup", "heldRebind", "journalStartup", "journalRebind"}

\* startup: what of the creation at the start of the application is unsettled
\* (its promise, or that it has failed, and the item it is to bring); rebind: the
\* record of an automatic creation that is unsettled.
NoTask == [st |-> "none", item |-> Nothing, verdict |-> Nothing, pending |-> Nothing,
           auto |-> Nothing, stall |-> FALSE, attempts |-> 0, restored |-> FALSE,
           awaiting |-> FALSE, resumeOnBind |-> FALSE, fallback |-> Nothing,
           startup |-> {}, original |-> Nothing, rebind |-> Nothing]

Item == [st : {"running", "paused", "interrupted", "completed"}, v : Versions, n : Bytes,
         can : BOOLEAN]

Task == [st : {"none", "live", "completed", "failed", "kept", "cancelled"},
         item : Item \cup {Nothing}, verdict : BOOLEAN \cup {Nothing},
         pending : Kinds \cup {Nothing}, auto : Waits \cup {Nothing}, stall : BOOLEAN,
         attempts : 0 .. MaxAttempts, restored : BOOLEAN, awaiting : BOOLEAN,
         resumeOnBind : BOOLEAN, fallback : Entry \cup {Nothing},
         startup : SUBSET {"create", "failed", "bind"},
         original : Entry \cup {Nothing}, rebind : Entry \cup {Nothing}]

Disk == [partial : Content \cup {Nothing}, snapshot : Content \cup {Nothing},
         final : Content \cup {Nothing}, journal : Entry \cup {Nothing}]

ASSUME NothingAssumption ==
    /\ Nothing \notin BOOLEAN /\ Nothing \notin Kinds /\ Nothing \notin Waits
    /\ Nothing \notin Item /\ Nothing \notin Content /\ Nothing \notin Entry
    /\ Nothing \notin Bytes

DownloadTypeOK ==
    /\ app \in {"running", "disposed", "ended"}
    /\ task \in Task /\ disk \in Disk
    /\ requests \in [Kinds -> Nat]
    /\ stale \in BOOLEAN /\ owed \in BOOLEAN
    /\ faults \in 0 .. MaxFaults

DownloadInit ==
    /\ app = "running"
    /\ task = NoTask
    /\ disk = [partial |-> Nothing, snapshot |-> Nothing, final |-> Nothing, journal |-> Nothing]
    /\ requests = [k \in Kinds |-> 0]
    /\ stale = FALSE /\ owed = FALSE
    /\ faults = 0 /\ starts = 0 /\ restarts = 0 /\ ends = 0

-----------------------------------------------------------------------------
(* A world is what a synchronous section of the engine changes; the         *)
(* operators below give the worlds it may leave, according to which of its  *)
(* calls fail.                                                              *)

World == [task |-> task, disk |-> disk, faults |-> faults, asked |-> requests, owed |-> owed]

Becomes(worlds) ==
    \E w \in worlds :
        /\ task' = w.task
        /\ disk' = w.disk
        /\ faults' = w.faults
        /\ requests' = w.asked
        /\ owed' = w.owed
        /\ stale' = (stale \/ (task.verdict # Nothing /\ w.task.verdict = Nothing))

Faulty(w) == IF w.faults < MaxFaults THEN {[w EXCEPT !.faults = @ + 1]} ELSE {}

Size(file) == IF file = Nothing THEN Nothing ELSE file.n

\* A copy older than the record; the code takes any copy for one that holds it.
Short(d) == d.snapshot # Nothing /\ d.journal # Nothing /\ d.snapshot.n < d.journal.n

\* An item that is cancelled deletes its staging file, at once or a little later.
Cancelled(w) ==
    LET x == [w EXCEPT !.task.item = Nothing, !.task.verdict = Nothing, !.task.rebind = Nothing]
    IN  IF w.task.item = Nothing \/ w.task.item.st = "completed" THEN {x}
        ELSE {x, [x EXCEPT !.disk.partial = Nothing]}

Copied(w, bytes) == [w |-> w, bytes |-> bytes, thrown |-> FALSE]

\* snapshotPartialForRecovery: copy to a temporary file, then rename.
Snapshots(w, preserve) ==
    LET old == w.disk.snapshot
        relied(x) == Copied([x EXCEPT !.owed = @ /\ ~Short(x.disk)], Size(old))
    IN  IF (preserve /\ old # Nothing) \/ w.disk.partial = Nothing THEN {relied(w)}
        ELSE {Copied([w EXCEPT !.disk.snapshot = w.disk.partial], w.disk.partial.n)}
             \cup {[relied(x) EXCEPT !.thrown = (old = Nothing)] : x \in Faulty(w)}

\* journal.upsert, and whether it failed.
Upserts(w, entry) ==
    {[w |-> [w EXCEPT !.disk.journal = entry], thrown |-> FALSE]}
        \cup {[w |-> x, thrown |-> TRUE] : x \in Faulty(w)}

\* persistTask(force, bytes): the old prefix stays authoritative until the new one is longer.
\* History: the record written is owed again, unless a creation is unsettled whose refusal
\* would write the older one back over it.
Persists(w, bytes) ==
    LET t == w.task
        old == w.disk.journal
        entry == [v |-> IF t.item # Nothing THEN t.item.v ELSE old.v,
                  n |-> IF bytes # Nothing THEN bytes
                        ELSE IF t.item # Nothing THEN t.item.n
                        ELSE IF w.disk.partial # Nothing THEN w.disk.partial.n ELSE 0]
        settled == t.rebind = Nothing /\ t.startup = {}
        renewed(r) == IF r.thrown THEN r
                      ELSE [w |-> [r.w EXCEPT !.task.fallback = Nothing,
                                              !.owed = @ \/ settled],
                            thrown |-> FALSE]
    IN  IF t.fallback # Nothing /\ bytes # Nothing THEN Upserts(w, t.fallback)
        ELSE IF t.fallback # Nothing /\ entry.n <= t.fallback.n THEN {[w |-> w, thrown |-> FALSE]}
        ELSE {renewed(r) : r \in Upserts(w, entry)}

\* A journal write that is throttled to one per second.
Throttled(w) == {[w |-> w, thrown |-> FALSE]} \cup Persists(w, Nothing)

\* deletePartial, and the attempt to forget the journal entry.
Erased(w) ==
    LET gone == [w EXCEPT !.disk.partial = Nothing, !.disk.snapshot = Nothing, !.owed = FALSE]
    IN  {[gone EXCEPT !.disk.journal = Nothing]} \cup Faulty(gone)

\* What a task that has ended leaves: no timer, no claim on items, no listener.
Ended(w, st) == [w EXCEPT !.task = [NoTask EXCEPT !.st = st]]

\* fail(error, preserveJournal)
Failed(w, preserve) ==
    IF preserve
    THEN UNION {UNION {{Ended(r.w, "kept") : r \in Persists(x, s.bytes)} :
                    x \in Cancelled(s.w)} : s \in Snapshots(w, TRUE)}
    ELSE {Ended(x, "failed") : x \in UNION {Erased(y) : y \in Cancelled(w)}}

SettledCancelled(w) == {Ended(x, "cancelled") : x \in UNION {Erased(y) : y \in Cancelled(w)}}

\* scheduleAutoResume
Scheduled(w) ==
    LET t == w.task
    IN  IF t.auto # Nothing THEN {w}
        ELSE IF t.attempts < MaxAttempts
        THEN {[w EXCEPT !.task.auto = "resume", !.task.attempts = @ + 1, !.task.stall = FALSE]}
        ELSE UNION {IF s.thrown
                    THEN {[s.w EXCEPT !.task.auto = "exhausted", !.task.stall = FALSE]}
                    ELSE UNION {Failed(x, TRUE) : x \in Cancelled([s.w EXCEPT !.task.pending = Nothing])} :
                        s \in Snapshots(w, t.fallback # Nothing)}

\* holdRecoveryJournalTransaction
HeldForJournal(w, wait) ==
    LET i == w.task.item
        paused == IF i = Nothing \/ i.st = "completed" THEN i ELSE [i EXCEPT !.st = "paused"]
    IN  [w EXCEPT !.task.auto = wait, !.task.stall = FALSE, !.task.item = paused]

\* rollbackStartupRestore: the original record is written back, the task is forgotten.
StartupRolledBack(w) ==
    LET cleared == [w EXCEPT !.task.pending = Nothing, !.task.stall = FALSE, !.task.auto = Nothing]
    IN  UNION {UNION {IF r.thrown THEN {HeldForJournal(r.w, "journalStartup")}
                      ELSE {Ended(x, "none") : x \in Cancelled(r.w)} :
                          r \in Upserts(s.w, w.task.original)} :
                   s \in Snapshots(cleared, TRUE)}

\* rollbackRebindItem and finishRebindItemRollback: back to the record the item
\* was made from, then begin again at the source.
RebindRolledBack(w, entry) ==
    LET cleared == [w EXCEPT !.task.stall = FALSE, !.task.auto = Nothing, !.task.rebind = Nothing,
                             !.task.fallback = entry]
    IN  UNION {IF r.thrown THEN {HeldForJournal(r.w, "journalRebind")}
               ELSE UNION {IF s.thrown THEN {[s.w EXCEPT !.task.auto = "snapshot"]}
                           ELSE {[x EXCEPT !.task.auto = "restart"] : x \in Cancelled(s.w)} :
                               s \in Snapshots(r.w, TRUE)} :
                   r \in Upserts(cleared, entry)}

-----------------------------------------------------------------------------
(* Beginning, and beginning again.                                          *)

Ask(w, kind) ==
    [w EXCEPT !.task.pending = kind, !.task.stall = TRUE, !.asked[kind] = @ + 1]

\* start and launch: the record first, then the request to Electron.
Start ==
    /\ app = "running"
    /\ task.st # "live"
    /\ starts < MaxStarts
    /\ starts' = starts + 1
    /\ LET fresh == [World EXCEPT !.task = [NoTask EXCEPT !.st = "live"], !.owed = TRUE]
       IN  Becomes(UNION {IF r.thrown THEN Failed(r.w, FALSE)
                          ELSE {Ask(r.w, "url")} \cup UNION {Failed(x, FALSE) : x \in Faulty(r.w)} :
                              r \in Upserts(fresh, [v |-> Nothing, n |-> 0])})
    /\ UNCHANGED <<app, restarts, ends>>

\* restartFromSource: the staging file goes, once there is a copy of it.
Restarted(w, preserve) ==
    LET covered(s) == s.bytes # Nothing /\ s.bytes >= s.w.disk.journal.n
        kept(s) == IF covered(s) THEN [s.w EXCEPT !.task.fallback = s.w.disk.journal] ELSE s.w
        again(x) == [x EXCEPT !.task.restored = FALSE, !.task.resumeOnBind = FALSE,
                              !.task.pending = Nothing, !.task.rebind = Nothing,
                              !.task.auto = Nothing, !.task.stall = FALSE, !.disk.partial = Nothing]
    IN  UNION {IF s.thrown THEN {[s.w EXCEPT !.task.auto = "restart"]}
               ELSE {Ask(again(kept(s)), "url")}
                    \cup UNION {Failed(again(x), TRUE) : x \in Faulty(kept(s))} :
                   s \in Snapshots(w, preserve \/ w.task.fallback # Nothing)}

\* Faulty: the item is let go although its file could not be copied.
ReboundAnyway(w) ==
    {[x EXCEPT !.task.pending = Nothing, !.task.auto = "relaunch"] :
        x \in UNION {Cancelled(s.w) : s \in Snapshots(w, w.task.fallback # Nothing)}}

\* rebindFromDisk: copy, let go of the item, and wait for its file to be gone.
Rebound(w) ==
    UNION {IF s.thrown THEN {[s.w EXCEPT !.task.auto = "snapshot"]}
           ELSE {[x EXCEPT !.task.pending = Nothing, !.task.auto = "relaunch"] : x \in Cancelled(s.w)} :
               s \in Snapshots(w, w.task.fallback # Nothing)}

\* The copy takes the place of the staging file, which goes first.
Promoted(w) ==
    {[w EXCEPT !.disk.partial = w.disk.snapshot, !.disk.snapshot = Nothing]}
        \cup Faulty(w) \cup {[x EXCEPT !.disk.partial = Nothing] : x \in Faulty(w)}

\* relaunchFromSnapshot
Relaunched(w) ==
    LET begun == [w EXCEPT !.task.auto = Nothing]
        resumed(x) ==
            LET y == Ask([x EXCEPT !.task.restored = TRUE, !.task.resumeOnBind = TRUE], "restore")
            IN  {y, [y EXCEPT !.task.rebind = x.disk.journal]}
                \cup UNION {Restarted(z, FALSE) : z \in Faulty(x)}
    IN  IF w.disk.snapshot = Nothing THEN Restarted(begun, FALSE)
        ELSE UNION {IF x.disk.snapshot # Nothing THEN Restarted(x, TRUE)
                    ELSE IF /\ x.disk.partial.n \in 1 .. (Full - 1)
                            /\ x.disk.journal.v # Nothing
                    THEN resumed(x) ELSE Restarted(x, FALSE) :
                        x \in Promoted(begun)}

\* runAutoResume
Resumed(w) ==
    LET i == w.task.item
    IN  IF i # Nothing /\ i.st = "interrupted" /\ i.can
        THEN {[w EXCEPT !.task.auto = Nothing, !.task.item.st = "running", !.task.stall = TRUE]}
             \cup UNION {Rebound(x) : x \in Faulty(w)}
        ELSE Rebound(w)

\* The record an arriving item must not destroy.
RecoveryEntry(w) ==
    IF w.task.fallback # Nothing THEN w.task.fallback
    ELSE IF w.task.restored THEN w.disk.journal ELSE Nothing

AutoFires ==
    /\ app = "running" /\ task.auto # Nothing
    /\ LET w == World
           off == [w EXCEPT !.task.auto = Nothing]
       IN  Becomes(CASE task.auto = "resume" -> Resumed(w)
                     [] task.auto = "relaunch" -> Relaunched(w)
                     [] task.auto = "snapshot" -> Rebound(w)
                     [] task.auto = "exhausted" -> Scheduled(off)
                     [] task.auto = "restart" -> Restarted(off, TRUE)
                     [] task.auto = "journalStartup" -> StartupRolledBack(off)
                     [] task.auto = "journalRebind" -> RebindRolledBack(off, task.fallback)
                     [] task.auto = "heldStartup" ->
                            UNION {IF s.thrown THEN {s.w} ELSE StartupRolledBack(s.w) :
                                      s \in Snapshots(w, TRUE)}
                     [] task.auto = "heldRebind" ->
                            UNION {IF s.thrown THEN {s.w} ELSE RebindRolledBack(s.w, RecoveryEntry(s.w)) :
                                      s \in Snapshots(w, TRUE)})
    /\ UNCHANGED <<app, starts, restarts, ends>>

-----------------------------------------------------------------------------
(* Items.                                                                   *)

Bind(w, i) ==
    [w EXCEPT !.task.item = i, !.task.auto = Nothing, !.task.stall = FALSE,
              !.disk.partial = IF i.st = "running" THEN [v |-> i.v, n |-> 0] ELSE @]

\* What acceptItem does when a call between the claim and the end of the binding fails.
BindFailed(w, entry) ==
    IF "bind" \in w.task.startup THEN StartupRolledBack(w)
    ELSE IF entry # Nothing THEN RebindRolledBack(w, entry)
    ELSE Failed(w, FALSE)

\* updateFromItem on a new item: it waits, runs, or is to be continued automatically.
Shown(w) ==
    LET i == w.task.item
    IN  IF w.task.restored /\ ~i.can
        THEN {[w |-> x, thrown |-> FALSE] :
                x \in Scheduled([w EXCEPT !.task.restored = (i.st = "interrupted")])}
        ELSE Throttled([w EXCEPT !.task.stall = ~w.task.restored])

\* Faulty: an item that runs at once is not watched.
TakenUnwatched(w) ==
    IF w.task.st # "live" THEN w
    ELSE [w EXCEPT !.task.resumeOnBind = FALSE, !.task.stall = FALSE, !.task.startup = @ \ {"bind"},
                   !.task.item.st = IF w.task.resumeOnBind /\ @ = "interrupted" THEN "running" ELSE @]

\* The end of acceptItem: an item somebody waits for runs at once.
Taken(w) ==
    LET t == w.task
        runs == t.resumeOnBind /\ t.item.can
        settled == t.startup \ {"bind"}
    IN  IF t.st # "live" THEN w
        ELSE [w EXCEPT !.task.resumeOnBind = FALSE,
                       !.task.item.st = IF runs THEN "running" ELSE @,
                       !.task.awaiting = @ /\ ~runs,
                       !.task.stall = @ \/ (runs /\ t.auto = Nothing),
                       !.task.startup = settled,
                       !.task.original = IF settled = {} THEN Nothing ELSE @]

Bound(w, entry) ==
    (UNION {IF r.thrown THEN BindFailed(r.w, entry) ELSE {Taken(r.w)} : r \in Shown(w)})
        \cup (UNION {BindFailed(x, entry) : x \in Faulty(w)})

\* acceptItem of a claimed item: first a copy of what it may destroy.
Accepted(w, i) ==
    LET entry == RecoveryEntry(w)
        held(x) == [Bind(x, [i EXCEPT !.st = "paused"]) EXCEPT
                        !.task.auto = IF "bind" \in w.task.startup THEN "heldStartup" ELSE "heldRebind"]
    IN  IF entry = Nothing THEN Bound(Bind(w, i), entry)
        ELSE UNION {IF s.thrown THEN {held(s.w)}
                    ELSE Bound(Bind([s.w EXCEPT !.task.fallback = entry], i), entry) :
                        s \in Snapshots(w, TRUE)}

\* The item of a request, with the bytes it claims to have.
Delivered(kind) ==
    IF kind = "url" THEN {[st |-> "running", v |-> v, n |-> 0, can |-> FALSE] : v \in Versions}
    ELSE {[st |-> "interrupted", v |-> v, can |-> can,
           n |-> IF disk.partial = Nothing THEN 0
                 ELSE IF task.awaiting /\ disk.journal.n <= disk.partial.n THEN disk.journal.n
                 ELSE disk.partial.n] :
              v \in IF disk.journal.v = Nothing THEN Versions ELSE {disk.journal.v}, can \in BOOLEAN}

\* will-download: an item is claimed by address, so by any request that waits;
\* one that nobody waits for, or of a forbidden source or size, is refused.
ItemArrives(kind) ==
    /\ app = "running"
    /\ requests[kind] > 0
    /\ LET w == [World EXCEPT !.asked[kind] = @ - 1, !.task.pending = Nothing]
       IN  Becomes(IF task.pending = Nothing THEN {w}
                   ELSE (UNION {Accepted(w, i) : i \in Delivered(kind)}) \cup Failed(w, FALSE))
    /\ UNCHANGED <<app, starts, restarts, ends>>

\* An item reports once its creation has settled; one that is held has no listeners.
Reporting ==
    /\ app = "running" /\ task.item # Nothing /\ task.startup = {}
    /\ task.auto \notin Held /\ task.verdict = Nothing

\* A listener that throws schedules a continuation.
Listened(results) == UNION {IF r.thrown THEN Scheduled(r.w) ELSE {r.w} : r \in results}

\* updated "progressing": more bytes, which take back a continuation that waits.
Progress ==
    /\ Reporting /\ task.item.st = "running" /\ task.item.n < Full
    /\ LET m == task.item.n + 1
           refund == IF task.auto # Nothing /\ task.attempts > 0 THEN task.attempts - 1 ELSE task.attempts
       IN  Becomes(Listened(Throttled(
               [World EXCEPT !.task.item.n = m, !.disk.partial = [v |-> task.item.v, n |-> m],
                             !.task.auto = Nothing, !.task.stall = TRUE, !.task.attempts = refund])))
    /\ UNCHANGED <<app, starts, restarts, ends>>

\* The server does not go on but begins again, perhaps with another content.
ServerRestarts(v) ==
    /\ Reporting /\ task.item.st = "running" /\ restarts < MaxRestarts
    /\ restarts' = restarts + 1
    /\ Becomes(Listened(Throttled(
            [World EXCEPT !.task.item.n = 0, !.task.item.v = v, !.disk.partial = [v |-> v, n |-> 0],
                          !.task.restored = FALSE, !.owed = owed /\ task.fallback # Nothing])))
    /\ UNCHANGED <<app, starts, ends>>

\* updated "interrupted" and done "interrupted".
Interrupted(can, done) ==
    /\ Reporting /\ task.item.st = "running"
    /\ LET w == [World EXCEPT !.task.item.st = "interrupted", !.task.item.can = can]
       IN  Becomes(IF ~can THEN Scheduled(w)
                   ELSE LET x == [w EXCEPT !.task.stall = FALSE]
                        IN  IF done THEN UNION {Scheduled(r.w) : r \in Throttled(x)}
                            ELSE Listened(Throttled(x)))
    /\ UNCHANGED <<app, starts, restarts, ends>>

\* done "completed": verifyPartial reads the file while the engine goes on.
Completed ==
    /\ Reporting /\ task.item.st = "running" /\ task.item.n = Full
    /\ Becomes({[World EXCEPT !.task.item.st = "completed", !.task.auto = Nothing, !.task.stall = FALSE,
                              !.task.verdict = (disk.partial = [v |-> Wanted, n |-> Full])]})
    /\ UNCHANGED <<app, starts, restarts, ends>>

Published(w) ==
    LET done == Ended([w EXCEPT !.disk.final = w.disk.partial, !.disk.partial = Nothing,
                                !.disk.snapshot = Nothing, !.owed = FALSE], "completed")
    IN  {[done EXCEPT !.disk.journal = Nothing]} \cup Faulty(done)
            \cup UNION {Failed(x, TRUE) : x \in Faulty(w)}

\* The rest of complete, for the task that began it.
VerifyEnds ==
    /\ app = "running" /\ task.verdict # Nothing
    /\ Becomes(IF task.verdict THEN Published([World EXCEPT !.task.verdict = TRUE]) ELSE Failed(World, FALSE))
    /\ UNCHANGED <<app, starts, restarts, ends>>

\* Faulty: the continuation does not look whether its task still owns the file.
StaleVerifyEndsUnfenced ==
    /\ stale /\ disk.partial # Nothing
    /\ stale' = FALSE
    /\ disk' = [disk EXCEPT !.final = disk.partial, !.partial = Nothing]
    /\ UNCHANGED <<app, task, requests, owed, faults, starts, restarts, ends>>

\* The rest of complete, after the task has ended: nothing.
StaleVerifyEnds ==
    /\ stale
    /\ stale' = FALSE
    /\ UNCHANGED <<app, task, disk, requests, owed, faults, starts, restarts, ends>>

\* armStallTimer and armStartupBindTimer: nothing came for 45 seconds.
StallFires ==
    /\ app = "running" /\ task.stall
    /\ LET w == [World EXCEPT !.task.stall = FALSE]
       IN  Becomes(IF "bind" \in task.startup /\ task.item = Nothing THEN StartupRolledBack(w)
                   ELSE Scheduled(w))
    /\ UNCHANGED <<app, starts, restarts, ends>>

\* createInterruptedDownload settles, at the start of the application or later.
StartupCreates(ok) ==
    /\ app = "running" /\ "create" \in task.startup
    /\ LET settled == task.startup \ {"create"}
           failed == [World EXCEPT !.task.startup = settled \cup {"failed"}]
       IN  Becomes(IF ok THEN {[World EXCEPT !.task.startup = settled,
                                            !.task.original = IF settled = {} THEN Nothing ELSE @]}
                   ELSE IF task.auto \in Held THEN {failed} ELSE StartupRolledBack(failed))
    /\ UNCHANGED <<app, starts, restarts, ends>>

RebindCreates(ok) ==
    /\ app = "running" /\ task.rebind # Nothing
    /\ LET w == [World EXCEPT !.task.rebind = Nothing]
       IN  Becomes(IF ok THEN {w}
                   ELSE IF task.item # Nothing THEN RebindRolledBack(w, task.rebind)
                   ELSE IF task.pending = "restore" THEN Restarted([w EXCEPT !.task.pending = Nothing], FALSE)
                   ELSE {w})
    /\ UNCHANGED <<app, starts, restarts, ends>>

-----------------------------------------------------------------------------
(* The user.                                                                *)

CancelDownload ==
    /\ app = "running" /\ task.st = "live"
    /\ Becomes(SettledCancelled(World))
    /\ UNCHANGED <<app, starts, restarts, ends>>

Pause ==
    /\ app = "running" /\ task.item # Nothing /\ task.verdict = Nothing
    /\ task.item.st = "running" /\ task.auto \in {Nothing, "exhausted"}
    /\ Becomes({r.w : r \in Throttled([World EXCEPT !.task.item.st = "paused", !.task.stall = FALSE])})
    /\ UNCHANGED <<app, starts, restarts, ends>>

\* resume: an item that waits goes on; a continuation that waits is spent now.
Resume ==
    /\ app = "running" /\ task.st = "live" /\ task.auto \notin Held /\ task.verdict = Nothing
    /\ \/ task.auto # Nothing /\ Becomes(Resumed(World))
       \/ /\ task.auto = Nothing /\ task.item # Nothing
          /\ task.item.st = "paused" \/ (task.item.st = "interrupted" /\ task.item.can)
          /\ Becomes({r.w : r \in Throttled([World EXCEPT !.task.item.st = "running", !.task.stall = TRUE])})
    /\ UNCHANGED <<app, starts, restarts, ends>>

\* resumeRecovery: before its item came, the wish is kept.
ResumeRecovery ==
    /\ app = "running" /\ task.awaiting /\ task.restored
    /\ LET i == task.item
       IN  \/ /\ i = Nothing
             /\ Becomes({[World EXCEPT !.task.resumeOnBind = TRUE]})
          \/ /\ i # Nothing /\ (i.can \/ i.st = "paused")
             /\ Becomes({[World EXCEPT !.task.item.st = "running", !.task.awaiting = FALSE,
                                       !.task.resumeOnBind = FALSE,
                                       !.task.stall = (task.auto = Nothing)]})
    /\ UNCHANGED <<app, starts, restarts, ends>>

\* discardRecovery: the record first, then the files.
DiscardRecovery ==
    /\ app = "running" /\ task.awaiting /\ task.restored
    /\ Becomes({Ended([x EXCEPT !.disk.partial = Nothing, !.disk.snapshot = Nothing,
                                !.disk.journal = Nothing, !.owed = FALSE], "none") : x \in Cancelled(World)})
    /\ UNCHANGED <<app, starts, restarts, ends>>

\* deleteHistory and clearHistory on a task that has ended.
DeleteHistory ==
    /\ app = "running" /\ task.st \notin {"none", "live"}
    /\ Becomes({Ended([World EXCEPT !.disk.partial = Nothing, !.disk.snapshot = Nothing,
                                    !.disk.journal = Nothing, !.owed = FALSE], "none")})
    /\ UNCHANGED <<app, starts, restarts, ends>>

-----------------------------------------------------------------------------
(* The end of the application, and its next start.                          *)

\* dispose: the copy and the record must be durable, or the engine stays.
Dispose ==
    /\ app = "running"
    /\ \E r \in IF task.st # "live" THEN {[w |-> World, thrown |-> FALSE]}
               ELSE UNION {IF s.thrown THEN {[w |-> s.w, thrown |-> TRUE]} ELSE Persists(s.w, s.bytes) :
                               s \in Snapshots(World, task.fallback # Nothing)} :
          IF r.thrown THEN Becomes({r.w}) /\ app' = app
          ELSE /\ app' = "disposed"
               /\ Becomes(IF task.st # "live" THEN {r.w} ELSE {Ended(x, "none") : x \in Cancelled(r.w)})
    /\ UNCHANGED <<starts, restarts, ends>>

\* What an end in the middle of a section leaves: a staging file removed before its
\* copy took its place, or a result moved before its record was removed.
TornDisks ==
    {disk}
        \cup (IF disk.snapshot # Nothing /\ task.auto = "relaunch" THEN {[disk EXCEPT !.partial = Nothing]} ELSE {})
        \cup (IF task.verdict = TRUE THEN {[disk EXCEPT !.final = disk.partial, !.partial = Nothing]} ELSE {})

End ==
    /\ app # "ended" /\ ends < MaxEnds
    /\ ends' = ends + 1
    /\ app' = "ended"
    /\ task' = NoTask /\ stale' = FALSE
    /\ disk' \in TornDisks
    /\ owed' = (owed /\ (task.verdict = TRUE => disk'.partial # Nothing))
    /\ requests' = [k \in Kinds |-> 0]
    /\ UNCHANGED <<faults, starts, restarts>>

Prefix(left, right, n) == n = 0 \/ left.v = right.v

\* promoteRecoverySnapshot: the copy replaces a staging file that is missing, short or different.
PromotedAtStart(w) ==
    LET d == w.disk
        n == d.journal.n
    IN  IF d.snapshot = Nothing \/ Size(d.snapshot) < n THEN {[w |-> w, is |-> "none"]}
        ELSE IF d.partial # Nothing /\ Size(d.partial) >= n /\ Prefix(d.partial, d.snapshot, n)
        THEN {[w |-> [w EXCEPT !.disk.snapshot = Nothing], is |-> "ready"]}
             \cup {[w |-> x, is |-> "blocked"] : x \in Faulty(w)}
        ELSE {[w |-> x, is |-> IF x.disk.snapshot = Nothing THEN "ready" ELSE "blocked"] : x \in Promoted(w)}

\* restoreInterrupted, then the request to Electron for what can be recovered.
Recovered(p) ==
    LET w == p.w
        entry == w.disk.journal
        created == [NoTask EXCEPT !.st = "live", !.restored = TRUE, !.awaiting = TRUE,
                                  !.startup = {"create", "bind"}, !.original = entry]
        asked == Ask([w EXCEPT !.task = created], "restore")
        gone == [w EXCEPT !.disk.partial = Nothing, !.disk.snapshot = Nothing, !.owed = w.owed /\ entry.n > 0]
    IN  IF w.disk.partial # Nothing /\ w.disk.partial.n >= entry.n
        THEN {asked}
             \cup UNION {StartupRolledBack([x EXCEPT !.task = [created EXCEPT !.startup = {"failed", "bind"}]]) :
                           x \in Faulty(w)}
        ELSE IF p.is = "blocked" THEN {w}
        ELSE {[gone EXCEPT !.disk.journal = Nothing]} \cup Faulty(gone)

Restart ==
    /\ app = "ended"
    /\ app' = "running"
    /\ Becomes(IF disk.journal = Nothing THEN {World}
               ELSE UNION {Recovered(p) : p \in PromotedAtStart(World)})
    /\ UNCHANGED <<starts, restarts, ends>>

Quit == Dispose \/ End \/ Restart

User == Start \/ CancelDownload \/ Pause \/ Resume \/ ResumeRecovery \/ DiscardRecovery \/ DeleteHistory

Electron ==
    \/ \E kind \in Kinds : ItemArrives(kind)
    \/ Progress
    \/ \E v \in Versions : ServerRestarts(v)
    \/ \E can, done \in BOOLEAN : Interrupted(can, done)
    \/ Completed
    \/ \E ok \in BOOLEAN : StartupCreates(ok) \/ RebindCreates(ok)

Engine == AutoFires \/ StallFires \/ VerifyEnds \/ StaleVerifyEnds

DownloadNext == User \/ Electron \/ Engine \/ Quit

DownloadSpec == DownloadInit /\ [][DownloadNext]_downloadVars

\* Timers fire and a hash ends; neither Electron, a server nor the user need do anything.
FairDownloadSpec == DownloadSpec /\ WF_downloadVars(AutoFires) /\ WF_downloadVars(StallFires) /\ WF_downloadVars(VerifyEnds)

-----------------------------------------------------------------------------
Backs(file, n) == file # Nothing /\ file.n >= n

\* As long as nobody has given the download up, the bytes the journal
\* records are in the staging file or in its copy, at every moment at which the
\* application may end: the next start finds what it offers to continue.
RecordedBytesExist ==
    owed /\ disk.journal # Nothing =>
        \/ disk.journal.n = 0
        \/ Backs(disk.partial, disk.journal.n)
        \/ Backs(disk.snapshot, disk.journal.n)

\* What lies under the final path was verified whole: a file of the right
\* content and length, whichever verification, old or new, put it there.
FinalIsWanted == disk.final \in {Nothing, [v |-> Wanted, n |-> Full]}

\* The user holds the download: it was paused, or waits for a decision.
InUsersHands ==
    \/ task.awaiting
    \/ /\ task.item # Nothing /\ task.auto = Nothing
       /\ task.item.st = "paused" \/ (task.item.st = "interrupted" /\ task.item.can)

\* A download ends, or is in the hands of the user, once the user no longer
\* asks for it to be continued: no combination of interruptions, late items,
\* refused creations and failing calls leaves it with neither a timer nor an
\* item that moves, and the automatic continuations do not go on for ever.
TransfersEnd ==
    <>[][~Resume]_downloadVars =>
        ((app = "running" /\ task.st = "live")
            ~> (app # "running" \/ task.st # "live" \/ InUsersHands))
=============================================================================
