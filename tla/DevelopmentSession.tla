------------------------- MODULE DevelopmentSession -------------------------
(***************************************************************************)
(* The development sessions of one project directory, under the three      *)
(* coordinators that coordination/development-session.ts ties together:    *)
(* the session operation coordinator (one operation per session), the      *)
(* runtime switch coordinator (latest-intent queue per directory) and the  *)
(* config transaction coordinator (FIFO per directory).  Each of them      *)
(* refuses work while another has reserved the directory, and each waits   *)
(* for operations the others started.                                      *)
(*                                                                         *)
(* An operation admitted by withDevelopmentSessionOperation occupies its   *)
(* session from admission to unwinding (SessionOperation proves it), so it *)
(* is named by its session here.  Directories share no state.              *)
(***************************************************************************)
EXTENDS Naturals, Sequences, FiniteSets

CONSTANTS Session,      \* sessions that are ever opened in the directory
          Switch,       \* calls of switchRuntime
          Runtime,      \* development engines
          Profile,      \* contents of the persisted project profile
          None,
          MaxPty        \* bound on PTY generations, i.e. on launches

ASSUME DevelopmentAssumption ==
  /\ None \notin Session \cup Switch \cup Profile
  /\ Switch \cap ({"config", "close"} \X Session) = {}
  /\ MaxPty \in Nat \ {0}

VARIABLES
  open,                 \* sessions in the workspace
  pty,                  \* session -> PTY generation, 0 before it is opened
  active,               \* sessions whose PTY runs an engine
  closing,              \* sessions being closed, after invalidateAndWait
  phase,                \* session -> progress of its operation
  cancelled,            \* session -> its operation was invalidated
  seen,                 \* session -> profile its operation read
  queue,                \* reserved config transactions, by session, in order
  activeConfig,         \* the session whose transaction is active
  isolated,             \* its isolationAcquired flag
  profile,              \* the persisted profile
  snapshot,             \* the profile before the active transaction
  current,              \* currentByDirectory: the reserved switch
  switch,               \* Switch -> intent record and progress
  runtime,              \* the directory's persisted engine
  awaited               \* waiter -> sessions whose operation it waits for

sessionVars == <<open, pty, active, closing>>
opVars == <<phase, cancelled, seen>>
configVars == <<queue, activeConfig, isolated, profile, snapshot>>
switchVars == <<current, switch, runtime>>
vars == <<sessionVars, opVars, configVars, switchVars, awaited>>

(* Who can wait for operations: a switch, the active transaction of a      *)
(* session, the close of a session.                                        *)
Waiter == Switch \cup ({"config", "close"} \X Session)

Busy(s) == phase[s] # "idle"

InTransaction == {"isolating", "preparing", "completing", "relaunching"}

Reserved(s) == \E i \in 1 .. Len(queue) : queue[i] = s

Init == /\ open \in {S \in SUBSET Session : S # {}}
        /\ pty = [s \in Session |-> IF s \in open THEN 1 ELSE 0]
        /\ active = {}
        /\ closing = {}
        /\ phase = [s \in Session |-> "idle"]
        /\ cancelled = [s \in Session |-> FALSE]
        /\ seen = [s \in Session |-> None]
        /\ queue = <<>>
        /\ activeConfig = None
        /\ isolated = FALSE
        /\ profile \in Profile
        /\ snapshot = None
        /\ current = None
        /\ switch = [i \in Switch |-> [step |-> "unused"]]
        /\ runtime \in Runtime
        /\ awaited = [w \in Waiter |-> {}]

-----------------------------------------------------------------------------
(* The guards the coordinators hold against each other.                    *)

NoSwitchReserved == current = None

(* assertDevelopmentOperationAllowed of the config coordinator.            *)
ConfigAllows(s) == IF activeConfig # None THEN activeConfig = s ELSE queue = <<>>

(* The composed check that withDevelopmentSessionOperation hands out.      *)
AssertCurrent(s) == /\ s \in open /\ ~cancelled[s]
                    /\ NoSwitchReserved
                    /\ ConfigAllows(s)

(* invalidateAndWait for each session of S, on behalf of w.                *)
InvalidateAndWait(w, S) ==
  /\ cancelled' = [s \in Session |-> cancelled[s] \/ (s \in S /\ Busy(s))]
  /\ awaited' = [awaited EXCEPT ![w] = {s \in S : Busy(s)}]

-----------------------------------------------------------------------------
(* Operations of a session.                                                *)

(* withDevelopmentSessionOperation: admitted if the directory is free and  *)
(* the session idle.  The callback reads the profile it will launch with.  *)
BeginOperation(s) ==
  /\ s \in open
  /\ NoSwitchReserved
  /\ ConfigAllows(s)
  /\ ~Busy(s)
  /\ phase' = [phase EXCEPT ![s] = "working"]
  /\ cancelled' = [cancelled EXCEPT ![s] = FALSE]
  /\ seen' = [seen EXCEPT ![s] = profile]
  /\ UNCHANGED <<sessionVars, configVars, switchVars, awaited>>

(* After its awaits the callback checks and starts the engine in a fresh   *)
(* PTY.                                                                    *)
Launch(s) ==
  /\ phase[s] = "working"
  /\ AssertCurrent(s)
  /\ pty[s] < MaxPty
  /\ pty' = [pty EXCEPT ![s] = @ + 1]
  /\ active' = active \cup {s}
  /\ phase' = [phase EXCEPT ![s] = "launched"]
  /\ UNCHANGED <<open, closing, cancelled, seen, configVars, switchVars, awaited>>

(* The callback has settled.  If it failed after its launch, the engine it *)
(* started is stopped (cleanupFailedRuntimeLaunch).                        *)
Settle(s) ==
  /\ \/ phase[s] \in {"working", "unwinding", "launched"} /\ UNCHANGED active
     \/ phase[s] \in {"launched", "discarding"} /\ active' = active \ {s}
  /\ phase' = [phase EXCEPT ![s] = "idle"]
  /\ seen' = [seen EXCEPT ![s] = None]

(* Whoever waits for the operation is told.                                *)
EndOperation(s) ==
  /\ Settle(s)
  /\ awaited' = [w \in Waiter |-> awaited[w] \ {s}]
  /\ UNCHANGED <<open, pty, closing, cancelled, configVars, switchVars>>

(* The terminal failed, or the user cancelled the operation by its signal. *)
InvalidateOperation(s) ==
  /\ Busy(s)
  /\ cancelled' = [cancelled EXCEPT ![s] = TRUE]
  /\ UNCHANGED <<sessionVars, phase, seen, configVars, switchVars, awaited>>

(* The engine exits by itself.                                             *)
RuntimeExit(s) ==
  /\ active' = active \ {s}
  /\ s \in active
  /\ UNCHANGED <<open, pty, closing, opVars, configVars, switchVars, awaited>>

OpenSession(s) ==
  /\ pty[s] = 0
  /\ open' = open \cup {s}
  /\ pty' = [pty EXCEPT ![s] = 1]
  /\ UNCHANGED <<active, closing, opVars, configVars, switchVars, awaited>>

(* openProject restarts the shell of a stopped session, without asking any *)
(* coordinator.                                                            *)
RestartTerminal(s) ==
  /\ s \in open \ active
  /\ pty[s] < MaxPty
  /\ pty' = [pty EXCEPT ![s] = @ + 1]
  /\ UNCHANGED <<open, active, closing, opVars, configVars, switchVars, awaited>>

(* Closing a session: its operation is invalidated and awaited ...         *)
BeginClose(s) ==
  /\ s \in open \ closing
  /\ closing' = closing \cup {s}
  /\ InvalidateAndWait(<<"close", s>>, {s})
  /\ UNCHANGED <<open, pty, active, phase, seen, configVars, switchVars>>

(* ... its process is terminated, and the workspace drops it; nothing      *)
(* checks whether an operation began meanwhile, but that one is cancelled. *)
EndClose(s) ==
  /\ s \in closing
  /\ awaited[<<"close", s>>] = {}
  /\ closing' = closing \ {s}
  /\ open' = open \ {s}
  /\ active' = active \ {s}
  /\ cancelled' = [cancelled EXCEPT ![s] = cancelled[s] \/ Busy(s)]
  /\ UNCHANGED <<pty, phase, seen, configVars, switchVars, awaited>>

-----------------------------------------------------------------------------
(* Config transactions, run inside an operation.                           *)

(* Faulty variants: a reserved switch is not respected; a transaction that *)
(* already isolates itself is not.                                         *)
ReserveConfigDespiteSwitch(s) ==
  /\ phase[s] = "working"
  /\ ~(activeConfig # None /\ isolated)
  /\ queue' = Append(queue, s)
  /\ phase' = [phase EXCEPT ![s] = "queued"]
  /\ UNCHANGED <<sessionVars, cancelled, seen, activeConfig, isolated, profile,
                 snapshot, switchVars, awaited>>

ReserveConfigBehindIsolation(s) ==
  /\ phase[s] = "working"
  /\ NoSwitchReserved
  /\ queue' = Append(queue, s)
  /\ phase' = [phase EXCEPT ![s] = "queued"]
  /\ UNCHANGED <<sessionVars, cancelled, seen, activeConfig, isolated, profile,
                 snapshot, switchVars, awaited>>

(* Not while a switch is reserved, nor behind a transaction that already   *)
(* waits for its siblings to unwind.                                       *)
ReserveConfig(s) ==
  /\ phase[s] = "working"
  /\ NoSwitchReserved
  /\ ~(activeConfig # None /\ isolated)
  /\ queue' = Append(queue, s)
  /\ phase' = [phase EXCEPT ![s] = "queued"]
  /\ UNCHANGED <<sessionVars, cancelled, seen, activeConfig, isolated, profile,
                 snapshot, switchVars, awaited>>

(* The finally clause: ownership, the place in the queue and the barrier   *)
(* are given up together.                                                  *)
FinishTransaction(s, next) ==
  /\ queue' = Tail(queue)
  /\ activeConfig' = None
  /\ isolated' = FALSE
  /\ snapshot' = None
  /\ phase' = [phase EXCEPT ![s] = next]

(* Faulty variant: siblings are not cancelled.                             *)
ActivateWithoutIsolation(s) ==
  /\ phase[s] = "queued" /\ Head(queue) = s /\ activeConfig = None
  /\ s \in open /\ ~cancelled[s] /\ NoSwitchReserved
  /\ activeConfig' = s
  /\ isolated' = TRUE
  /\ phase' = [phase EXCEPT ![s] = "isolating"]
  /\ UNCHANGED <<sessionVars, cancelled, awaited, seen, queue, profile, snapshot,
                 switchVars>>

(* The predecessor is done: the transaction becomes active and isolates    *)
(* itself.  Siblings queued behind it are left alone: they wait for it.    *)
ActivateConfig(s) ==
  /\ phase[s] = "queued" /\ Head(queue) = s /\ activeConfig = None
  /\ s \in open /\ ~cancelled[s] /\ NoSwitchReserved
  /\ activeConfig' = s
  /\ isolated' = TRUE
  /\ phase' = [phase EXCEPT ![s] = "isolating"]
  /\ InvalidateAndWait(<<"config", s>>, {r \in open \ {s} : ~Reserved(r)})
  /\ UNCHANGED <<sessionVars, seen, queue, profile, snapshot, switchVars>>

(* Its operation was invalidated in the queue: nothing was touched yet.    *)
ActivateTooLate(s) ==
  /\ phase[s] = "queued" /\ Head(queue) = s /\ activeConfig = None
  /\ ~(s \in open /\ ~cancelled[s] /\ NoSwitchReserved)
  /\ FinishTransaction(s, "unwinding")
  /\ UNCHANGED <<sessionVars, cancelled, seen, profile, switchVars, awaited>>

(* The siblings have unwound: the snapshot is taken and preparation starts.*)
IsolationAcquired(s) ==
  /\ phase[s] = "isolating"
  /\ awaited[<<"config", s>>] = {}
  /\ AssertCurrent(s)
  /\ snapshot' = profile
  /\ phase' = [phase EXCEPT ![s] = "preparing"]
  /\ UNCHANGED <<sessionVars, cancelled, seen, queue, activeConfig, isolated,
                 profile, switchVars, awaited>>

IsolationLost(s) ==
  /\ phase[s] = "isolating"
  /\ awaited[<<"config", s>>] = {}
  /\ ~AssertCurrent(s)
  /\ FinishTransaction(s, "unwinding")
  /\ UNCHANGED <<sessionVars, cancelled, seen, profile, switchVars, awaited>>

(* The profile is replaced; completion starts.                             *)
CommitConfig(s) ==
  /\ phase[s] = "preparing"
  /\ AssertCurrent(s)
  /\ profile = snapshot
  /\ profile' \in Profile
  /\ phase' = [phase EXCEPT ![s] = "completing"]
  /\ UNCHANGED <<sessionVars, cancelled, seen, queue, activeConfig, isolated,
                 snapshot, switchVars, awaited>>

(* Preparation fails, or the operation lost its ownership during it.       *)
PrepareFails(s) ==
  /\ phase[s] = "preparing"
  /\ FinishTransaction(s, "unwinding")
  /\ UNCHANGED <<sessionVars, cancelled, seen, profile, switchVars, awaited>>

(* A relaunch with another connection starts its engine as the last part   *)
(* of the completion.                                                      *)
Relaunch(s) ==
  /\ phase[s] = "completing"
  /\ AssertCurrent(s)
  /\ pty[s] < MaxPty
  /\ pty' = [pty EXCEPT ![s] = @ + 1]
  /\ active' = active \cup {s}
  /\ phase' = [phase EXCEPT ![s] = "relaunching"]
  /\ UNCHANGED <<open, closing, cancelled, seen, configVars, switchVars, awaited>>

CompleteConfig(s) ==
  /\ phase[s] \in {"completing", "relaunching"}
  /\ AssertCurrent(s)
  /\ FinishTransaction(s, IF phase[s] = "relaunching" THEN "launched"
                                                     ELSE "unwinding")
  /\ UNCHANGED <<sessionVars, cancelled, seen, profile, switchVars, awaited>>

(* Completion fails or comes too late: the profile is restored while the   *)
(* session still belongs to the directory, and a relaunched engine will be *)
(* stopped.                                                                *)
RollBackConfig(s) ==
  /\ phase[s] \in {"completing", "relaunching"}
  /\ profile' = IF s \in open THEN snapshot ELSE profile
  /\ FinishTransaction(s, IF phase[s] = "relaunching" THEN "discarding"
                                                     ELSE "unwinding")
  /\ UNCHANGED <<sessionVars, cancelled, seen, switchVars, awaited>>

-----------------------------------------------------------------------------
(* Runtime switches, which are no operations of a session.                 *)

Sessions == [s \in open |-> pty[s]]

(* The newest intent replaces the one before it, and waits for it.         *)
ReserveSwitch(i, s, selected) ==
  /\ switch[i].step = "unused"
  /\ s \in open
  /\ activeConfig = None /\ queue = <<>>
  /\ current' = i
  /\ switch' = [switch EXCEPT ![i] =
       [step |-> "queued", session |-> s, selected |-> selected,
        expected |-> runtime, initial |-> Sessions, predecessor |-> current]]
  /\ UNCHANGED <<sessionVars, opVars, configVars, runtime, awaited>>

(* assertStable: still the newest intent, the same sessions in the same    *)
(* PTYs, and nobody changed the engine.                                    *)
Stable(i, requireInactive) ==
  /\ current = i
  /\ switch[i].session \in open
  /\ Sessions = switch[i].initial
  /\ runtime = switch[i].expected
  /\ requireInactive => open \cap active = {}

Proceed(i, from, to) ==
  /\ switch[i].step = from
  /\ switch' = [switch EXCEPT ![i].step = to]

(* The finally clause: the reservation goes if it is still i's, and whoever*)
(* waits for i is told.                                                    *)
Release(i) ==
  /\ current' = IF current = i THEN None ELSE current
  /\ switch' = [switch EXCEPT ![i] = [step |-> "done"]]

PredecessorDone(i) ==
  switch[i].predecessor # None => switch[switch[i].predecessor].step = "done"

StartSwitch(i) ==
  /\ Proceed(i, "queued", "access")
  /\ PredecessorDone(i)
  /\ Stable(i, FALSE)
  /\ switch[i].selected # switch[i].expected
  /\ UNCHANGED <<current, runtime, sessionVars, opVars, configVars, awaited>>

(* Faulty variant: only the initiating session is asked to unwind.         *)
InvalidateInitiatorOnly(i) ==
  /\ Proceed(i, "access", "invalidating")
  /\ Stable(i, FALSE)
  /\ InvalidateAndWait(i, {switch[i].session})
  /\ UNCHANGED <<current, runtime, sessionVars, phase, seen, configVars>>

(* Provider access was granted: the directory's operations must unwind.    *)
InvalidateSessions(i) ==
  /\ Proceed(i, "access", "invalidating")
  /\ Stable(i, FALSE)
  /\ InvalidateAndWait(i, open)
  /\ UNCHANGED <<current, runtime, sessionVars, phase, seen, configVars>>

CleanUp(i) ==
  /\ Proceed(i, "invalidating", "cleaning")
  /\ awaited[i] = {}
  /\ Stable(i, TRUE)
  /\ UNCHANGED <<current, runtime, sessionVars, opVars, configVars, awaited>>

CommitSwitch(i) ==
  /\ switch[i].step = "cleaning"
  /\ Stable(i, TRUE)
  /\ runtime' = switch[i].selected
  /\ Release(i)
  /\ UNCHANGED <<sessionVars, opVars, configVars, awaited>>

(* A check fails, access is refused, clean-up fails, or the engine is      *)
(* selected already: nothing is committed.                                 *)
AbandonSwitch(i) ==
  /\ \/ /\ switch[i].step = "queued"
        /\ PredecessorDone(i)
        /\ ~Stable(i, FALSE) \/ switch[i].selected = switch[i].expected
     \/ switch[i].step \in {"access", "cleaning"}
     \/ /\ switch[i].step = "invalidating"
        /\ awaited[i] = {}
        /\ ~Stable(i, TRUE)
  /\ Release(i)
  /\ UNCHANGED <<runtime, sessionVars, opVars, configVars, awaited>>

-----------------------------------------------------------------------------

OperationStep(s) == Launch(s) \/ EndOperation(s)

TransactionStep(s) ==
  \/ ActivateConfig(s) \/ ActivateTooLate(s)
  \/ IsolationAcquired(s) \/ IsolationLost(s)
  \/ CommitConfig(s) \/ PrepareFails(s)
  \/ Relaunch(s) \/ CompleteConfig(s) \/ RollBackConfig(s)

SwitchStep(i) ==
  \/ StartSwitch(i) \/ InvalidateSessions(i) \/ CleanUp(i)
  \/ CommitSwitch(i) \/ AbandonSwitch(i)

Next ==
  \/ \E s \in Session :
       \/ BeginOperation(s) \/ OperationStep(s) \/ InvalidateOperation(s)
       \/ RuntimeExit(s)
       \/ OpenSession(s) \/ RestartTerminal(s) \/ BeginClose(s) \/ EndClose(s)
       \/ ReserveConfig(s) \/ TransactionStep(s)
  \/ \E i \in Switch : SwitchStep(i)
  \/ \E i \in Switch, s \in Session, r \in Runtime : ReserveSwitch(i, s, r)

(* Whatever an operation, a transaction or a switch awaits settles: the    *)
(* awaited requests are bounded by time-outs and unwind on their aborted   *)
(* signal.  Nobody is obliged to open, launch, close or switch anything.   *)
Fairness ==
  /\ \A s \in Session : /\ WF_vars(EndOperation(s))
                        /\ WF_vars(TransactionStep(s))
                        /\ WF_vars(EndClose(s))
  /\ \A i \in Switch : WF_vars(SwitchStep(i))

Spec == Init /\ [][Next]_vars

FairSpec == Spec /\ Fairness
-----------------------------------------------------------------------------

Phases == {"idle", "working", "unwinding", "launched", "discarding", "queued"}
            \cup InTransaction

(* A switch before its reservation, after its end, and between the two.    *)
SwitchRecord ==
  [step : {"unused", "done"}] \cup
  [step : {"queued", "access", "invalidating", "cleaning"}, session : Session,
   selected : Runtime, expected : Runtime,
   initial : UNION {[S -> 1 .. MaxPty] : S \in SUBSET Session},
   predecessor : Switch \cup {None}]

TypeOK ==
  /\ open \subseteq Session /\ active \subseteq open /\ closing \subseteq open
  /\ pty \in [Session -> 0 .. MaxPty]
  /\ phase \in [Session -> Phases]
  /\ cancelled \in [Session -> BOOLEAN]
  /\ seen \in [Session -> Profile \cup {None}]
  /\ queue \in Seq(Session)
  /\ activeConfig \in Session \cup {None}
  /\ isolated \in BOOLEAN
  /\ profile \in Profile /\ snapshot \in Profile \cup {None}
  /\ current \in Switch \cup {None}
  /\ switch \in [Switch -> SwitchRecord]
  /\ runtime \in Runtime
  /\ awaited \in [Waiter -> SUBSET Session]

(* A transaction has the directory to itself.  The reciprocal guards work: *)
(* no directory has a switch and a config transaction at the same time,    *)
(* queued ones included; and while a transaction prepares, commits and     *)
(* completes, every other session of the directory is idle or queued behind*)
(* it, so nothing reads the tentative profile and nothing older is still   *)
(* using the previous one.                                                 *)
TransactionIsAlone ==
  /\ current # None => activeConfig = None /\ queue = <<>>
  /\ \A s \in Session : phase[s] \in InTransaction \ {"isolating"} =>
       \A r \in open \ {s} : phase[r] \in {"idle", "queued"}

(* The engine is replaced only when no operation of the directory's        *)
(* sessions is running, unwinding ones included, and no engine runs.       *)
QuietCommit ==
  [][\A i \in Switch : CommitSwitch(i) =>
       /\ open \cap active = {}
       /\ \A s \in open : ~Busy(s)]_vars

(* A session is never launched with a profile that was replaced since its  *)
(* operation read it, nor with one a transaction may still roll back.      *)
LaunchUsesPersistedProfile ==
  [][\A s \in Session : Launch(s) => seen[s] = profile /\ snapshot = None]_vars

(* Everything the coordinators make somebody wait for ends: transactions,  *)
(* switches and closes never wait for each other in a circle.              *)
EverythingSettles ==
  /\ \A s \in Session : Reserved(s) ~> ~Reserved(s)
  /\ \A i \in Switch : switch[i].step # "unused" ~> switch[i].step = "done"
  /\ \A s \in Session : s \in closing ~> s \notin closing
=============================================================================
