------------------------ MODULE ManagedAuthTransaction ------------------------
(***************************************************************************)
(* The replacement of the OpenAI authorization of the managed gateway:     *)
(* claude/managed-chatgpt-auth-transaction.ts and the operations of        *)
(* claude/managed-chatgpt-gateway.ts that use it.                          *)
(*                                                                         *)
(* A login first moves the authorization files ("codex-*.json") into a     *)
(* quarantine directory whose marker file names the phase, lets the OAuth  *)
(* process write the new file, starts the gateway with it and commits;     *)
(* everything else rolls back.  Every call that changes the file system is *)
(* one step here (io), so that it can fail and the application can be      *)
(* killed between any two.  The gateway's lifecycle queue runs one         *)
(* operation (op) at a time; a reading of the authentication may come at   *)
(* each of its awaits.                                                     *)
(***************************************************************************)
EXTENDS Naturals, FiniteSets

CONSTANTS
  Account,          \* the authorizations there are, one per file content
  Initial,          \* the ones that may be there at the start
  Directory,        \* names of quarantine directories
  Nowhere,             \* no directory
  MaxFaults,        \* bound: file system calls that fail
  MaxCrashes,       \* bound: ends of the application
  MarkerlessStops,  \* may a call fail, or the application end, while a
                    \* quarantine directory has no marker
  RetriedRollback,  \* may a call of the first of two rollbacks fail
  MayLogOut         \* may the user ask for a logout

ASSUME Parameters ==
  /\ Initial \subseteq Account
  /\ Nowhere \notin Directory
  /\ MaxFaults \in Nat /\ MaxCrashes \in Nat
  /\ MarkerlessStops \in BOOLEAN /\ RetriedRollback \in BOOLEAN
  /\ MayLogOut \in BOOLEAN

VARIABLES
  files,       \* the authorizations the gateway would read
  quarantine,  \* the quarantine directories: marker and artifacts
  gateway,     \* is a gateway process running
  op,          \* the lifecycle operation that is running
  io,          \* its synchronous work on the file system
  owned,       \* history: what the last commit made the user's authorizations
  faults, crashes

authVars == <<files, quarantine, gateway, op, io, owned, faults, crashes>>

(* "absent" is no directory, "unmarked" one without a marker file.         *)
MarkerPhases == {"preparing", "active", "committed", "discarding", "restoring",
           "restoring-keep"}
Marks == MarkerPhases \cup {"absent", "unmarked"}

NoDirectory == [mark |-> "absent", artifacts |-> {}]
NoOperation == [at |-> "idle", login |-> FALSE, tx |-> Nowhere, attempt |-> 1]
NoWork == [at |-> "idle", for |-> "none", dir |-> Nowhere, todo |-> {},
           visit |-> {}]

Directories == {d \in Directory : quarantine[d].mark # "absent"}
Artifacts == UNION {quarantine[d].artifacts : d \in Directory}

(* Attempts of a start whose environment changes under it; the faults: one *)
(* too many, and a count that does not advance.                            *)
MaxAttempts == 3
MayTryAgain(n) == n < MaxAttempts
SameAttempt(n) == n
NextAttempt(n) == n + 1

-----------------------------------------------------------------------------
(* Readings                                                                *)

(* Fault: only a login that may still be running counts.                   *)
HasRunningLogin(inspected) ==
  \/ \E d \in Directories :
        /\ quarantine[d].mark \in {"preparing", "active"}
        /\ ~(d = inspected /\ quarantine[d].mark = "active")
  \/ inspected # Nowhere /\ quarantine[inspected].mark # "active"

(* A committed directory is obsolete, the inspected active transaction is  *)
(* the caller's own; any other directory is pending.                       *)
HasPending(inspected) ==
  \/ \E d \in Directories :
        /\ quarantine[d].mark # "committed"
        /\ ~(d = inspected /\ quarantine[d].mark = "active")
  \/ inspected # Nowhere /\ quarantine[inspected].mark # "active"

Authenticated(inspected) == ~HasPending(inspected) /\ files # {}

-----------------------------------------------------------------------------
(* Work on the file system                                                 *)

Mark(d, m) == quarantine' = [quarantine EXCEPT ![d].mark = m]
Go(place) == io' = [io EXCEPT !.at = place]
Work(for, place, d) == [NoWork EXCEPT !.for = for, !.at = place, !.dir = d]
InFileSystem == UNCHANGED <<gateway, op, faults, crashes>>
Finished == io.at \in {"done", "threw"}

(* What a finished directory leads to: recovery and the clearing of        *)
(* committed directories take the next one.                                *)
AfterDirectory ==
  IF io.for \in {"recover", "sweep"}
    THEN [NoWork EXCEPT !.for = io.for, !.at = io.for,
                        !.visit = io.visit \ {io.dir}]
    ELSE [io EXCEPT !.at = IF io.for = "undo" THEN "threw" ELSE "done"]

(* Fault: files that were not moved yet count as unready ones.             *)
RecoveryDiscardsPrepared(mark) ==
  CASE mark = "committed" -> [stage |-> "remove", mark |-> mark]
    [] mark \in {"preparing", "active", "unmarked", "discarding"} ->
         [stage |-> "discard", mark |-> "discarding"]
    [] OTHER -> [stage |-> "restore", mark |-> mark]

(* What recoverAbandoned does with a directory: the stage that follows and *)
(* the marker it sets.  A directory without a marker counts as active.     *)
RecoveryOf(mark) ==
  CASE mark = "committed" -> [stage |-> "remove", mark |-> mark]
    [] mark = "preparing" -> [stage |-> "restore", mark |-> "restoring-keep"]
    [] mark \in {"active", "unmarked", "discarding"} ->
         [stage |-> "discard", mark |-> "discarding"]
    [] OTHER -> [stage |-> "restore", mark |-> mark]

RecoverNext(d) ==
  /\ io.at = "recover" /\ d \in io.visit
  /\ LET recovery == RecoveryOf(quarantine[d].mark)
     IN /\ Mark(d, recovery.mark)
        /\ io' = [io EXCEPT !.at = recovery.stage, !.dir = d, !.todo = files]
  /\ UNCHANGED <<files, owned>> /\ InFileSystem

RecoverDone ==
  /\ io.at \in {"recover", "sweep"} /\ io.visit = {}
  /\ Go("done")
  /\ UNCHANGED <<files, quarantine, owned>> /\ InFileSystem

(* hasPending removes committed directories and ignores that it cannot.    *)
SweepNext(d) ==
  /\ io.at = "sweep" /\ d \in io.visit
  /\ io' = [io EXCEPT !.at = "remove", !.dir = d]
  /\ UNCHANGED <<files, quarantine, owned>> /\ InFileSystem

(* rollback: the marker is renamed if it is there, the current files go.   *)
RollBackFiles ==
  /\ io.at = "rollback"
  /\ Mark(io.dir, IF quarantine[io.dir].mark = "active" THEN "discarding"
                  ELSE quarantine[io.dir].mark)
  /\ io' = [io EXCEPT !.at = "discard", !.todo = files]
  /\ UNCHANGED <<files, owned>> /\ InFileSystem

Discard(a) ==
  /\ io.at = "discard" /\ a \in io.todo
  /\ files' = files \ {a}
  /\ io' = [io EXCEPT !.todo = @ \ {a}]
  /\ UNCHANGED <<quarantine, owned>> /\ InFileSystem

Discarded ==
  /\ io.at = "discard" /\ io.todo = {}
  /\ Mark(io.dir, IF quarantine[io.dir].mark = "discarding" THEN "restoring"
                  ELSE quarantine[io.dir].mark)
  /\ Go("restore")
  /\ UNCHANGED <<files, owned>> /\ InFileSystem

(* restoreArtifacts                                                        *)
Restore(a) ==
  /\ io.at = "restore" /\ a \in quarantine[io.dir].artifacts
  /\ files' = files \cup {a}
  /\ quarantine' = [quarantine EXCEPT ![io.dir].artifacts = @ \ {a}]
  /\ UNCHANGED <<io, owned>> /\ InFileSystem

Restored ==
  /\ io.at = "restore" /\ quarantine[io.dir].artifacts = {}
  /\ Go("remove")
  /\ UNCHANGED <<files, quarantine, owned>> /\ InFileSystem

(* rmSync of the directory: its entries in any order, then the directory.  *)
UnlinkMarker ==
  /\ io.at = "remove" /\ quarantine[io.dir].mark # "unmarked"
  /\ Mark(io.dir, "unmarked")
  /\ UNCHANGED <<files, io, owned>> /\ InFileSystem

UnlinkArtifact(a) ==
  /\ io.at = "remove" /\ a \in quarantine[io.dir].artifacts
  /\ quarantine' = [quarantine EXCEPT ![io.dir].artifacts = @ \ {a}]
  /\ UNCHANGED <<files, io, owned>> /\ InFileSystem

RemoveDirectory ==
  /\ io.at = "remove"
  /\ quarantine[io.dir] = [mark |-> "unmarked", artifacts |-> {}]
  /\ quarantine' = [quarantine EXCEPT ![io.dir] = NoDirectory]
  /\ io' = AfterDirectory
  /\ UNCHANGED <<files, owned>> /\ InFileSystem

(* The constructor: directory, marker, the files one by one, the marker.   *)
MakeDirectory(d) ==
  /\ io.at = "begin" /\ d \notin Directories
  /\ Mark(d, "unmarked")
  /\ io' = [io EXCEPT !.at = "mark", !.dir = d]
  /\ UNCHANGED <<files, owned>> /\ InFileSystem

WriteMarker ==
  /\ io.at = "mark"
  /\ Mark(io.dir, "preparing")
  /\ io' = [io EXCEPT !.at = "move", !.todo = files]
  /\ UNCHANGED <<files, owned>> /\ InFileSystem

Move(a) ==
  /\ io.at = "move" /\ a \in io.todo
  /\ files' = files \ {a}
  /\ quarantine' = [quarantine EXCEPT ![io.dir].artifacts = @ \cup {a}]
  /\ io' = [io EXCEPT !.todo = @ \ {a}]
  /\ UNCHANGED owned /\ InFileSystem

Activate ==
  /\ io.at = "move" /\ io.todo = {}
  /\ Mark(io.dir, "active")
  /\ Go("done")
  /\ UNCHANGED <<files, owned>> /\ InFileSystem

(* commit: from the renamed marker on the new files are the user's.        *)
MarkCommitted ==
  /\ io.at = "commit"
  /\ Mark(io.dir, "committed")
  /\ owned' = files
  /\ Go("remove")
  /\ UNCHANGED files /\ InFileSystem

FileSystemStep ==
  \/ \E d \in Directory : RecoverNext(d) \/ SweepNext(d) \/ MakeDirectory(d)
  \/ \E a \in Account : Discard(a) \/ Restore(a) \/ UnlinkArtifact(a) \/ Move(a)
  \/ RecoverDone \/ RollBackFiles \/ Discarded \/ Restored \/ UnlinkMarker
  \/ RemoveDirectory \/ WriteMarker \/ Activate \/ MarkCommitted

(* A call fails: the constructor gives back what it had moved, a failed    *)
(* removal after a commit or in a reading is ignored, all else throws.     *)
FileSystemFails ==
  /\ io.at \notin {"idle", "done", "threw", "sweep"} /\ faults < MaxFaults
  /\ io.at = "recover" => io.visit # {}
  /\ MarkerlessStops \/ \A d \in Directories : quarantine[d].mark # "unmarked"
  /\ RetriedRollback \/ op.at # "redoing"
  /\ faults' = faults + 1
  /\ io' = CASE io.at = "move" -> [io EXCEPT !.at = "restore", !.for = "undo"]
             [] io.at = "remove" /\ io.for = "commit" -> [io EXCEPT !.at = "done"]
             [] io.for = "sweep" -> AfterDirectory
             [] OTHER -> [io EXCEPT !.at = "threw"]
  /\ UNCHANGED <<files, quarantine, gateway, op, owned, crashes>>

-----------------------------------------------------------------------------
(* The operations of the gateway                                           *)

At(place) == op.at = place /\ io.at = "idle"
ProceedTo(place) == op' = [op EXCEPT !.at = place]
Idle == op' = NoOperation
OutsideFiles == UNCHANGED <<files, quarantine, owned, faults, crashes>>

AuthInit ==
  /\ files \in SUBSET Initial /\ owned = files
  /\ quarantine = [d \in Directory |-> NoDirectory]
  /\ gateway = FALSE /\ op = NoOperation /\ io = NoWork
  /\ faults = 0 /\ crashes = 0

(* setup: a login is needed when asked for, or when no authorization is    *)
(* readable.                                                               *)
RequestSetup(forceLogin) ==
  /\ At("idle")
  /\ op' = [NoOperation EXCEPT !.at = "starting",
                               !.login = forceLogin \/ ~Authenticated(Nowhere)]
  /\ UNCHANGED <<io, gateway>> /\ OutsideFiles

(* One attempt: the login of an earlier attempt is rolled back when the    *)
(* environment is not the one it was made in.                              *)
BeforeStart ==
  /\ At("starting")
  /\ \/ /\ op.tx # Nowhere
        /\ io' = Work("first-rollback", "rollback", op.tx)
        /\ ProceedTo("redoing")
     \/ /\ op.login /\ op.tx = Nowhere
        /\ ProceedTo("stopping") /\ UNCHANGED io
     \/ /\ ~op.login
        /\ ProceedTo("checking") /\ UNCHANGED io
  /\ UNCHANGED gateway /\ OutsideFiles

Redone ==
  /\ op.at = "redoing" /\ Finished
  /\ op' = IF io.at = "done" THEN [op EXCEPT !.at = "stopping", !.tx = Nowhere]
           ELSE [op EXCEPT !.at = "failing"]
  /\ io' = NoWork /\ UNCHANGED gateway /\ OutsideFiles

StopForLogin ==
  /\ At("stopping")
  /\ gateway' = FALSE
  /\ io' = [NoWork EXCEPT !.for = "recover", !.at = "recover", !.visit = Directories]
  /\ ProceedTo("recovering") /\ OutsideFiles

Recovered ==
  /\ op.at = "recovering" /\ Finished
  /\ ProceedTo(IF io.at = "done" THEN "preparing" ELSE "failing")
  /\ io' = NoWork /\ UNCHANGED gateway /\ OutsideFiles

BeginLogin ==
  /\ At("preparing")
  /\ io' = Work("login", "begin", Nowhere) /\ ProceedTo("beginning")
  /\ UNCHANGED gateway /\ OutsideFiles

Begun ==
  /\ op.at = "beginning" /\ Finished
  /\ op' = IF io.at = "done" THEN [op EXCEPT !.at = "authorizing", !.tx = io.dir]
           ELSE [op EXCEPT !.at = "failing"]
  /\ io' = NoWork /\ UNCHANGED gateway /\ OutsideFiles

(* The OAuth process writes the file of a new authorization.               *)
Authorize(a) ==
  /\ At("authorizing") /\ a \notin files \cup Artifacts \cup owned
  /\ files' = files \cup {a}
  /\ ProceedTo("authorized")
  /\ UNCHANGED <<quarantine, gateway, io, owned, faults, crashes>>

LoggedIn ==
  /\ At("authorized") /\ Cardinality(files) = 1
  /\ ProceedTo("logged-in")
  /\ UNCHANGED <<io, gateway>> /\ OutsideFiles

LoginFails ==
  /\ At("authorizing") \/ At("authorized")
  /\ io' = Work("login", "rollback", op.tx) /\ ProceedTo("undoing")
  /\ UNCHANGED gateway /\ OutsideFiles

LoginUndone ==
  /\ op.at = "undoing" /\ Finished
  /\ op' = [op EXCEPT !.at = "failing", !.tx = Nowhere]
  /\ io' = NoWork /\ UNCHANGED gateway /\ OutsideFiles

LoginStands ==
  /\ At("logged-in")
  /\ op' = [op EXCEPT !.at = "checking", !.login = FALSE]
  /\ UNCHANGED <<io, gateway>> /\ OutsideFiles

Check ==
  /\ At("checking") /\ Authenticated(op.tx)
  /\ ProceedTo("launching")
  /\ UNCHANGED <<io, gateway>> /\ OutsideFiles

Launch ==
  /\ At("launching")
  /\ gateway' = TRUE /\ ProceedTo("launched")
  /\ UNCHANGED io /\ OutsideFiles

Ready ==
  /\ At("launched") /\ Authenticated(op.tx)
  /\ ProceedTo("ready")
  /\ UNCHANGED <<io, gateway>> /\ OutsideFiles

FinishSetup ==
  /\ At("ready")
  /\ IF op.tx = Nowhere THEN Idle /\ UNCHANGED io
     ELSE io' = Work("commit", "commit", op.tx) /\ ProceedTo("committing")
  /\ UNCHANGED gateway /\ OutsideFiles

SetupCommitted ==
  /\ op.at = "committing" /\ Finished
  /\ IF io.at = "done" THEN Idle ELSE ProceedTo("failing")
  /\ io' = NoWork /\ UNCHANGED gateway /\ OutsideFiles

(* The environment changed: the gateway is stopped for another attempt.    *)
EnvironmentChanges ==
  /\ \E place \in {"logged-in", "checking", "launching", "launched"} : At(place)
  /\ gateway' = FALSE
  /\ op' = IF MayTryAgain(op.attempt)
             THEN [op EXCEPT !.at = "starting", !.attempt = NextAttempt(@)]
             ELSE [op EXCEPT !.at = "failing"]
  /\ UNCHANGED io /\ OutsideFiles

(* Any other failure of an attempt, cancellation included: the gateway is  *)
(* stopped, or that fails too.                                             *)
AttemptFails ==
  /\ \E place \in {"starting", "stopping", "preparing", "logged-in", "checking",
                   "launching", "launched"} : At(place)
  /\ gateway' \in {FALSE, gateway} /\ ProceedTo("failing")
  /\ UNCHANGED io /\ OutsideFiles

ProjectionFails ==
  /\ At("ready") /\ ProceedTo("failing")
  /\ UNCHANGED <<io, gateway>> /\ OutsideFiles

(* Only a gateway that was stopped has its authorization rolled back; the  *)
(* fault: in any case.                                                     *)
RollBackAnyway(stopped) == TRUE
MayRollBack(stopped) == stopped

GiveUp ==
  /\ At("failing")
  /\ \E stopped \in BOOLEAN :
        /\ gateway' = (gateway /\ ~(op.tx # Nowhere /\ stopped))
        /\ IF op.tx # Nowhere /\ MayRollBack(stopped)
             THEN io' = Work("final-rollback", "rollback", op.tx) /\ ProceedTo("giving-up")
             ELSE Idle /\ UNCHANGED io
  /\ OutsideFiles

GaveUp ==
  /\ op.at = "giving-up" /\ Finished
  /\ Idle /\ io' = NoWork
  /\ UNCHANGED gateway /\ OutsideFiles

(* logout: recover, quarantine what is there and commit at once.           *)
RequestLogout ==
  /\ At("idle") /\ MayLogOut
  /\ gateway' = FALSE
  /\ io' = [NoWork EXCEPT !.for = "recover", !.at = "recover", !.visit = Directories]
  /\ ProceedTo("logout-recovering") /\ OutsideFiles

LogoutStep ==
  /\ op.at \in {"logout-recovering", "logout-beginning", "logging-out"} /\ Finished
  /\ \/ /\ io.at = "threw" \/ op.at = "logging-out"
        /\ Idle /\ io' = NoWork
     \/ /\ io.at = "done" /\ op.at = "logout-recovering"
        /\ io' = Work("login", "begin", Nowhere) /\ ProceedTo("logout-beginning")
     \/ /\ io.at = "done" /\ op.at = "logout-beginning"
        /\ io' = Work("commit", "commit", io.dir) /\ ProceedTo("logging-out")
  /\ UNCHANGED gateway /\ OutsideFiles

(* ensureRunning and configurationForModel start the gateway only with a   *)
(* readable authorization; a process may end at any time.                  *)
StartGateway ==
  /\ At("idle") /\ ~gateway /\ Authenticated(Nowhere)
  /\ gateway' = TRUE
  /\ UNCHANGED <<op, io>> /\ OutsideFiles

GatewayEnds ==
  /\ gateway /\ io.at = "idle" /\ gateway' = FALSE
  /\ UNCHANGED <<op, io>> /\ OutsideFiles

(* A reading of the authentication, by an operation or for the interface,  *)
(* clears committed directories first.                                     *)
ReadAuthentication ==
  /\ io.at = "idle"
  /\ LET committed == {d \in Directories : quarantine[d].mark = "committed"}
     IN /\ committed # {}
        /\ io' = [NoWork EXCEPT !.for = "sweep", !.at = "sweep", !.visit = committed]
  /\ UNCHANGED <<op, gateway>> /\ OutsideFiles

WasRead ==
  /\ io.for = "sweep" /\ io.at = "done"
  /\ io' = NoWork
  /\ UNCHANGED <<op, gateway>> /\ OutsideFiles

(* The application ends at any point; files and the gateway remain.        *)
Crash ==
  /\ crashes < MaxCrashes /\ crashes' = crashes + 1
  /\ MarkerlessStops \/ \A d \in Directories : quarantine[d].mark # "unmarked"
  /\ op.at # "idle" \/ io.at # "idle"
  /\ Idle /\ io' = NoWork
  /\ UNCHANGED <<files, quarantine, gateway, owned, faults>>

OperationStep ==
  \/ BeforeStart \/ Redone \/ StopForLogin \/ Recovered \/ BeginLogin \/ Begun
  \/ (\E a \in Account : Authorize(a))
  \/ LoggedIn \/ LoginFails \/ LoginUndone \/ LoginStands \/ Check \/ Launch \/ Ready
  \/ FinishSetup \/ SetupCommitted \/ EnvironmentChanges \/ AttemptFails
  \/ ProjectionFails \/ GiveUp \/ GaveUp \/ LogoutStep \/ WasRead

AuthNext ==
  \/ FileSystemStep \/ FileSystemFails \/ OperationStep
  \/ (\E forceLogin \in BOOLEAN : RequestSetup(forceLogin))
  \/ RequestLogout \/ StartGateway \/ GatewayEnds \/ ReadAuthentication \/ Crash

AuthSpec == AuthInit /\ [][AuthNext]_authVars

(* A synchronous section runs to its end, and every await of an operation  *)
(* has a time limit, after which it has either succeeded or failed.        *)
FairAuthSpec == AuthSpec /\ WF_authVars(FileSystemStep) /\ WF_authVars(OperationStep)

-----------------------------------------------------------------------------
(* Properties                                                              *)

Places == {"idle", "starting", "redoing", "stopping", "recovering", "preparing",
           "beginning", "authorizing", "authorized", "undoing", "logged-in",
           "checking", "launching", "launched", "ready", "committing", "failing",
           "giving-up", "logout-recovering", "logout-beginning", "logging-out"}

(* Types, and the bounds of the counters.                                  *)
AuthTypeOK ==
  /\ files \subseteq Account /\ owned \subseteq Account
  /\ quarantine \in [Directory -> [mark : Marks, artifacts : SUBSET Account]]
  /\ gateway \in BOOLEAN
  /\ op \in [at : Places, login : BOOLEAN, tx : Directory \cup {Nowhere},
             attempt : 1..MaxAttempts]
  /\ io.dir \in Directory \cup {Nowhere}
  /\ io.todo \subseteq Account /\ io.visit \subseteq Directory
  /\ faults \in 0..MaxFaults /\ crashes \in 0..MaxCrashes

(* Whenever a reading finds no pending transaction, what it can read is    *)
(* exactly what the last committed login left: never a file of a login     *)
(* that was not ready, never fewer than the user had, never both.          *)
ReadableIsOwned == ~HasPending(Nowhere) => files = owned

(* The user's authorizations are on the disk until a commit replaces them: *)
(* readable, or in a directory that will be restored.                      *)
OwnedSurvives ==
  owned \subseteq files \cup UNION {quarantine[d].artifacts :
                                    d \in {e \in Directories : quarantine[e].mark # "committed"}}

(* The files a running gateway works with are not exchanged under it.      *)
FilesStandWhileRunning == [][files' # files => ~gateway]_authVars

(* Every setup and logout ends, also when the environment keeps changing.  *)
OperationsEnd == (op.at # "idle") ~> (op.at = "idle")
=============================================================================
