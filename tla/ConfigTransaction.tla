------------------------- MODULE ConfigTransaction -------------------------
(***************************************************************************)
(* runOwnedConfigTransaction (coordination/main-process-operation.ts) as   *)
(* claude/project-config-transaction.ts uses it: preparation against the   *)
(* old profile, a synchronous commit, a completion that awaits, and on any *)
(* failure a rollback that must not overwrite what somebody else saved.    *)
(*                                                                         *)
(* Three stores are shared.  Every scope (a directory or a conversation)   *)
(* has a profile of its own and a FIFO of transactions.  The connection    *)
(* history and the configuration of the external Router are one for all    *)
(* scopes, whose transactions run concurrently.                            *)
(*                                                                         *)
(* A profile is named by whoever saved it, the history is the set of       *)
(* transactions it holds a record of, and the Router configuration is the  *)
(* set of transactions whose provider it holds.                            *)
(***************************************************************************)
EXTENDS Naturals, Sequences, FiniteSets

CONSTANTS Tx,           \* calls of runClaudeProjectConfigTransaction
          Scope,        \* config scopes
          Outside,      \* saves made past the transactions
          Original,     \* the profile that is stored first
          None

(* What became of a transaction that was saved, or of one that failed.     *)
Outcome == {"recorded", "unrecorded",
            "untouched", "restored", "left", "halfway", "overtaken"}

ASSUME WritersDiffer ==
  /\ Tx \cap Outside = {}
  /\ Original \notin Tx \cup Outside
  /\ None \notin Tx \cup Outside \cup Scope \cup Outcome \cup {Original}
  /\ \A S \in SUBSET Tx : S # None

VARIABLES
  tx,                   \* Tx -> progress and what it remembers
  queue,                \* scope -> reserved transactions, in order
  cancelled,            \* transactions whose operation was invalidated
  lost,                 \* those whose session no longer is in the directory
  profile,              \* scope -> who saved the stored profile
  history,              \* transactions with a record in the history
  deleted,              \* records the user deleted
  router,               \* transactions whose provider the Router holds
  written               \* outside saves that were made

vars == <<tx, queue, cancelled, lost, profile, history, deleted, router, written>>
stores == <<profile, history, router>>
world == <<cancelled, lost, deleted, written>>

Snapshot(c) == [profile |-> profile[c], history |-> history]

Fresh == [phase |-> "unused", scope |-> None, snapshot |-> None, read |-> None,
          applied |-> None, outcome |-> None, reported |-> FALSE]

Init == /\ tx = [t \in Tx |-> Fresh]
        /\ queue = [c \in Scope |-> <<>>]
        /\ cancelled = {} /\ lost = {}
        /\ profile = [c \in Scope |-> Original]
        /\ history = {} /\ deleted = {}
        /\ router = {}
        /\ written = {}

-----------------------------------------------------------------------------
Owns(t) == t \notin cancelled \cup lost      \* assertTransactionCurrent
OwnsTarget(t) == t \notin lost               \* assertTargetCurrent

Proceed(t, from, to) == /\ tx[t].phase = from
                        /\ tx' = [tx EXCEPT ![t].phase = to]

(* Where the failure path goes once the profile has been dealt with.       *)
AfterFailure(t) == IF tx[t].applied = None THEN "reading" ELSE "compensating"

Fail(t, outcome) ==
  tx' = [tx EXCEPT ![t].phase = AfterFailure(t), ![t].outcome = outcome]

Reserve(t, c) ==
  /\ tx[t].phase = "unused"
  /\ tx' = [tx EXCEPT ![t].phase = "queued", ![t].scope = c]
  /\ queue' = [queue EXCEPT ![c] = Append(@, t)]
  /\ UNCHANGED <<stores, world>>

(* The predecessor is done: the profile and the history are remembered.    *)
Begin(t) ==
  /\ tx[t].phase = "queued"
  /\ Head(queue[tx[t].scope]) = t
  /\ Owns(t)
  /\ tx' = [tx EXCEPT ![t].phase = "preparing",
                      ![t].snapshot = Snapshot(tx[t].scope)]
  /\ UNCHANGED <<queue, stores, world>>

(* The finally clause: the transaction, the first in its queue since its   *)
(* predecessor was done before it began, leaves the queue and is over.     *)
Finish(t, phase, outcome) ==
  /\ tx' = [tx EXCEPT ![t].phase = phase, ![t].outcome = outcome,
                      ![t].snapshot = None, ![t].read = None, ![t].applied = None]
  /\ queue' = [queue EXCEPT ![tx[t].scope] = Tail(@)]

BeginTooLate(t) ==
  /\ tx[t].phase = "queued"
  /\ Head(queue[tx[t].scope]) = t
  /\ ~Owns(t)
  /\ Finish(t, "failed", "untouched")
  /\ UNCHANGED <<stores, world>>

-----------------------------------------------------------------------------
(* Preparation.  An OpenAI connection stores a provider in the Router:     *)
(* getConfig, then saveConfig, two requests to another process.            *)

ReadRouter(t) ==
  /\ tx[t].phase = "preparing"
  /\ tx' = [tx EXCEPT ![t].phase = "saving", ![t].read = router]
  /\ UNCHANGED <<queue, stores, world>>

SaveRouter(t) ==
  /\ tx[t].phase = "saving"
  /\ router' = tx[t].read \cup {t}
  /\ tx' = [tx EXCEPT ![t].phase = "prepared", ![t].applied = router']
  /\ UNCHANGED <<queue, profile, history, world>>

(* Other connections need nothing from outside.                            *)
Prepare(t) ==
  /\ Proceed(t, "preparing", "prepared")
  /\ UNCHANGED <<queue, stores, world>>

(* Preparation or the connection test fails, or ownership was lost: what   *)
(* was stored in the Router must be compensated, the profile is untouched. *)
PrepareFails(t) ==
  /\ tx[t].phase \in {"preparing", "saving", "prepared"}
  /\ Fail(t, "untouched")
  /\ UNCHANGED <<queue, stores, world>>

Drifted(t) == Snapshot(tx[t].scope) # tx[t].snapshot

PrepareDrifts(t) ==
  /\ tx[t].phase = "prepared"
  /\ Drifted(t)
  /\ Fail(t, "untouched")
  /\ UNCHANGED <<queue, stores, world>>

Commit(t) ==
  /\ tx[t].phase = "prepared"
  /\ Owns(t)
  /\ ~Drifted(t)
  /\ profile' = [profile EXCEPT ![tx[t].scope] = t]
  /\ tx' = [tx EXCEPT ![t].phase = "completing"]
  /\ UNCHANGED <<queue, history, router, world>>

(* The commit throws, having stored the profile or not.  Nothing runs      *)
(* between it and the rollback, which may throw as well.                   *)
CommitThrows(t) ==
  /\ tx[t].phase = "prepared"
  /\ Owns(t)
  /\ ~Drifted(t)
  /\ \/ Fail(t, "restored") /\ UNCHANGED profile
     \/ Fail(t, "left") /\ profile' = [profile EXCEPT ![tx[t].scope] = t]
  /\ UNCHANGED <<queue, history, router, world>>

-----------------------------------------------------------------------------
(* Completion, with the tentative profile stored.                          *)

(* completePreparedConfigSave records the connection in the history.       *)
Record(t) ==
  /\ Proceed(t, "completing", "recorded")
  /\ history' = history \cup {t}
  /\ UNCHANGED <<queue, profile, router, world>>

(* The record is not essential: completion goes on without it.             *)
RecordFails(t) ==
  /\ Proceed(t, "completing", "unrecorded")
  /\ UNCHANGED <<queue, stores, world>>

Completing == {"completing", "recorded", "unrecorded"}

(* The history as it is now counts as the transaction's own; of the rest,  *)
(* the profile must still be the one it stored.                            *)
Complete(t) ==
  /\ tx[t].phase \in {"recorded", "unrecorded"}
  /\ Owns(t)
  /\ profile[tx[t].scope] = t
  /\ Finish(t, "saved", tx[t].phase)
  /\ UNCHANGED <<stores, world>>

(* Completion fails, or ends too late.  The profile and the history are    *)
(* restored together, if the target is still owned and the profile is      *)
(* still the one this transaction stored.                                  *)
RestoreSnapshot(t) ==
  /\ profile' = [profile EXCEPT ![tx[t].scope] = tx[t].snapshot.profile]
  /\ history' = tx[t].snapshot.history

(* Faulty variant: whatever is stored now is replaced.                     *)
RollBackBlindly(t) ==
  /\ tx[t].phase \in Completing
  /\ OwnsTarget(t)
  /\ RestoreSnapshot(t)
  /\ Fail(t, "restored")
  /\ UNCHANGED <<queue, router, world>>

(* Faulty variant: only the profile is restored.                           *)
RollBackProfileOnly(t) ==
  /\ tx[t].phase \in Completing
  /\ OwnsTarget(t)
  /\ profile[tx[t].scope] = t
  /\ profile' = [profile EXCEPT ![tx[t].scope] = tx[t].snapshot.profile]
  /\ Fail(t, "restored")
  /\ UNCHANGED <<queue, history, router, world>>

RollBack(t) ==
  /\ tx[t].phase \in Completing
  /\ OwnsTarget(t)
  /\ profile[tx[t].scope] = t
  /\ RestoreSnapshot(t)
  /\ Fail(t, "restored")
  /\ UNCHANGED <<queue, router, world>>

(* Restoring throws: before anything was stored, or between the profile    *)
(* and the history.                                                        *)
RollBackThrows(t) ==
  /\ tx[t].phase \in Completing
  /\ OwnsTarget(t)
  /\ profile[tx[t].scope] = t
  /\ \/ Fail(t, "left") /\ UNCHANGED profile
     \/ /\ Fail(t, "halfway")
        /\ profile' = [profile EXCEPT ![tx[t].scope] = tx[t].snapshot.profile]
  /\ UNCHANGED <<queue, history, router, world>>

(* The session is gone, or somebody saved past the transaction.            *)
LeaveAsIs(t) ==
  /\ tx[t].phase \in Completing
  /\ ~OwnsTarget(t) \/ profile[tx[t].scope] # t
  /\ Fail(t, IF profile[tx[t].scope] = t THEN "left" ELSE "overtaken")
  /\ UNCHANGED <<queue, stores, world>>

-----------------------------------------------------------------------------
(* Compensation in the Router (configMutationRollback): the configuration  *)
(* is read and compared, then replaced, in two requests.                   *)

CheckRouter(t) ==
  /\ Proceed(t, "compensating", "restoring")
  /\ router = tx[t].applied
  /\ UNCHANGED <<queue, stores, world>>

RestoreRouter(t) ==
  /\ Proceed(t, "restoring", "reading")
  /\ router' = tx[t].read
  /\ UNCHANGED <<queue, profile, history, world>>

(* Something newer is there, or the Router does not answer: the error      *)
(* carries the failed compensation.                                        *)
CompensationFails(t) ==
  /\ tx[t].phase \in {"compensating", "restoring"}
  /\ tx' = [tx EXCEPT ![t].phase = "reading", ![t].reported = TRUE]
  /\ UNCHANGED <<queue, stores, world>>

(* The authoritative state is read and, if restored, published; then the   *)
(* barrier falls.                                                          *)
ReadState(t) ==
  /\ tx[t].phase = "reading"
  /\ Finish(t, "failed", tx[t].outcome)
  /\ UNCHANGED <<stores, world>>

-----------------------------------------------------------------------------
(* The environment.                                                        *)

Running(t) == tx[t].phase \notin {"unused", "saved", "failed"}

Cancel(t) ==
  /\ Running(t) /\ t \notin cancelled
  /\ cancelled' = cancelled \cup {t}
  /\ UNCHANGED <<tx, queue, stores, lost, deleted, written>>

LoseTarget(t) ==
  /\ Running(t) /\ t \notin lost
  /\ lost' = lost \cup {t}
  /\ UNCHANGED <<tx, queue, stores, cancelled, deleted, written>>

(* A writer that is no transaction, such as copyConnection.                *)
SaveOutside(c, w) ==
  /\ w \notin written
  /\ profile' = [profile EXCEPT ![c] = w]
  /\ written' = written \cup {w}
  /\ UNCHANGED <<tx, queue, cancelled, lost, history, deleted, router>>

(* The user deletes a record; no coordinator is asked.                     *)
DeleteRecord(t) ==
  /\ t \in history \ deleted
  /\ history' = history \ {t}
  /\ deleted' = deleted \cup {t}
  /\ UNCHANGED <<tx, queue, cancelled, lost, profile, router, written>>

Next ==
  \/ \E t \in Tx, c \in Scope : Reserve(t, c)
  \/ \E t \in Tx :
       \/ Begin(t) \/ BeginTooLate(t)
       \/ ReadRouter(t) \/ SaveRouter(t) \/ Prepare(t)
       \/ PrepareFails(t) \/ PrepareDrifts(t)
       \/ Commit(t) \/ CommitThrows(t)
       \/ Record(t) \/ RecordFails(t) \/ Complete(t)
       \/ RollBack(t) \/ RollBackThrows(t) \/ LeaveAsIs(t)
       \/ CheckRouter(t) \/ RestoreRouter(t) \/ CompensationFails(t)
       \/ ReadState(t)
       \/ Cancel(t) \/ LoseTarget(t) \/ DeleteRecord(t)
  \/ \E c \in Scope, w \in Outside : SaveOutside(c, w)

Spec == Init /\ [][Next]_vars
-----------------------------------------------------------------------------

Phases == {"unused", "queued", "preparing", "saving", "prepared", "compensating",
           "restoring", "reading", "saved", "failed"} \cup Completing

Authors == Tx \cup Outside \cup {Original}

SnapshotRecord == [profile : Authors, history : SUBSET Tx]

(* A configuration of the Router, if one was seen.                         *)
RouterView == (SUBSET Tx) \cup {None}

TxRecord ==
  [phase : Phases, scope : Scope \cup {None}, snapshot : SnapshotRecord \cup {None},
   read : RouterView, applied : RouterView,
   outcome : Outcome \cup {None}, reported : BOOLEAN]

TypeOK ==
  /\ tx \in [Tx -> TxRecord]
  /\ queue \in [Scope -> Seq(Tx)]
  /\ cancelled \subseteq Tx /\ lost \subseteq Tx
  /\ profile \in [Scope -> Authors]
  /\ history \subseteq Tx /\ deleted \subseteq Tx
  /\ router \subseteq Tx /\ written \subseteq Outside

(* What a reader sees who waits for the transaction in progress.           *)
Stable(c) ==
  IF \E t \in Tx : tx[t].scope = c /\ tx[t].phase \in Completing /\ profile[c] = t
  THEN tx[profile[c]].snapshot.profile
  ELSE profile[c]

Atomic == INSTANCE AtomicProfile
  WITH Writer <- Tx \cup Outside,
       value <- [c \in Scope |-> Stable(c)],
       spent <- written \cup
                {t \in Tx : tx[t].phase = "saved" \/ tx[t].outcome = "left"}

(* Every profile behaves like an atomic register although a save is spread *)
(* over many steps, any of which fails: readers that wait see a save as a  *)
(* whole or not at all, and no rollback undoes anybody else's save.  What  *)
(* the code makes an exception of counts as saved: the profile of a session*)
(* that disappeared, or that could not be restored, stays as it was stored.*)
ImplementsAtomicProfile == Atomic!Spec

(* What a transaction leaves beside the profile agrees with what became of *)
(* it: a connection that was saved is in the history until the user deletes*)
(* it, one that was rolled back is not, and its provider stays in the      *)
(* Router only if the compensation that could not be made was reported.    *)
TracesFollowOutcome ==
  \A t \in Tx :
    /\ tx[t].phase = "saved" /\ tx[t].outcome = "recorded"
         => t \in history \cup deleted
    /\ tx[t].phase = "failed" /\ tx[t].outcome = "restored" => t \notin history
    /\ tx[t].phase = "failed" /\ t \in router => tx[t].reported
=============================================================================
