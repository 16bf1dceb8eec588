------------------------- MODULE TransactionsProof --------------------------
(***************************************************************************)
(* Safety of the two transactions of the application that may fail half    *)
(* way: the config transactions, for every set of transactions, scopes and *)
(* outside writers, and the replacement of the managed authorization, for  *)
(* every set of accounts and directories and every number of failing calls *)
(* and ends of the application.  The theorems about the latter have the    *)
(* two hypotheses of its run: no call fails and no end comes while a       *)
(* directory has no marker, and the rollback between two attempts of a     *)
(* start is not interrupted by a failing call.                             *)
(***************************************************************************)
EXTENDS ConfigTransaction, ManagedAuthTransaction, TLAPS

(* The phases in which the transaction has the turn in its scope.          *)
Preparing == {"preparing", "saving", "prepared"}
Unwinding == {"compensating", "restoring", "reading"}

Active(t) == tx[t].phase \in Preparing \cup Completing \cup Unwinding

(* A transaction that was reserved and is not over is in the queue of its  *)
(* scope, and the one that has the turn is at the head.                    *)
Turns ==
  \A t \in Tx :
    /\ Running(t) => /\ tx[t].scope \in Scope
                     /\ \E i \in 1 .. Len(queue[tx[t].scope]) : queue[tx[t].scope][i] = t
    /\ Active(t) => Head(queue[tx[t].scope]) = t

(* It remembers the state it began with, and what became of it is settled  *)
(* only when it fails or ends.                                             *)
RemembersOwn(t) ==
  /\ Active(t) => tx[t].snapshot \in SnapshotRecord
  /\ tx[t].phase \in {"unused", "queued"} \cup Preparing \cup Completing
       => tx[t].outcome = None
  /\ tx[t].phase = "saving" \/ tx[t].applied # None => tx[t].read \in SUBSET Tx
  /\ tx[t].phase \in {"compensating", "restoring"} => tx[t].applied # None

Remembers == \A t \in Tx : RemembersOwn(t)

Transactions == TypeOK /\ Turns /\ Remembers

-----------------------------------------------------------------------------
(* With one scope there is one active transaction, so that the history and *)
(* the Router configuration, too, are its own while it is active.  The     *)
(* history holds a record of exactly those transactions whose outcome says *)
(* so, and so does the snapshot the active transaction may go back to ...  *)
MayBeRecorded(t) ==
  \/ tx[t].phase = "recorded"
  \/ tx[t].outcome \in {"recorded", "left", "halfway", "overtaken"}

Over(t) == tx[t].phase \in {"saved", "failed"}

HistoryFollows ==
  \A t \in Tx :
    /\ t \in history => MayBeRecorded(t)
    /\ tx[t].phase = "recorded" => t \in history \cup deleted
    /\ tx[t].phase = "saved" /\ tx[t].outcome = "recorded"
         => t \in history \cup deleted
    /\ Active(t) => \A r \in Tx :
         /\ r \in tx[t].snapshot.history => Over(r) /\ MayBeRecorded(r)
         /\ tx[r].phase = "saved" /\ tx[r].outcome = "recorded"
              => r \in tx[t].snapshot.history \cup deleted

(* ... and the Router holds the provider of the active transaction, of a   *)
(* saved one, or of one that reported that it could not remove it.         *)
MayBeRouted(t) == Over(t) /\ (tx[t].phase = "saved" \/ tx[t].reported)

RouterFollows ==
  \A t \in Tx :
    /\ t \in router =>
         \/ MayBeRouted(t)
         \/ /\ tx[t].phase \in Preparing \cup Completing \cup {"compensating", "restoring"}
            /\ tx[t].applied # None
         \/ tx[t].phase = "reading" /\ tx[t].reported
    /\ tx[t].phase = "saving" \/ (Active(t) /\ tx[t].applied # None) =>
         \A r \in tx[t].read : r \in Tx /\ MayBeRouted(r)
    /\ tx[t].phase \in {"preparing", "saving", "queued", "unused"} => tx[t].applied = None

Traces == Transactions /\ HistoryFollows /\ RouterFollows

-----------------------------------------------------------------------------
(* What a step does to the record of its transaction.                      *)
Keeps(t, fields) == \A f \in fields : tx'[t][f] = tx[t][f]

Others(t) == \A r \in Tx \ {t} : tx'[r] = tx[r]

(* The phase moves on, and nothing else changes.                           *)
LEMMA PhaseChange ==
  ASSUME TypeOK, NEW t \in Tx, NEW p \in Phases, tx' = [tx EXCEPT ![t].phase = p]
  PROVE  /\ tx' \in [Tx -> TxRecord] /\ Others(t)
         /\ tx'[t].phase = p
         /\ Keeps(t, {"scope", "snapshot", "read", "applied", "outcome", "reported"})
<1>1. tx \in [Tx -> TxRecord]
  BY DEF TypeOK
<1>2. tx' \in [Tx -> TxRecord]
  BY <1>1 DEF TxRecord
<1>3. Others(t) /\ tx'[t].phase = p
  BY <1>1 DEF TxRecord, Others
<1>4. Keeps(t, {"scope", "snapshot", "read", "applied", "outcome", "reported"})
  BY <1>1 DEF TxRecord, Keeps
<1> QED
  BY <1>2, <1>3, <1>4

(* The failure path begins with its outcome.                               *)
LEMMA Failing ==
  ASSUME TypeOK, NEW t \in Tx, NEW o \in Outcome, Fail(t, o)
  PROVE  /\ tx' \in [Tx -> TxRecord] /\ Others(t)
         /\ tx'[t].phase = AfterFailure(t) /\ tx'[t].outcome = o
         /\ Keeps(t, {"scope", "snapshot", "read", "applied", "reported"})
<1> DEFINE p == AfterFailure(t)
<1>1. tx \in [Tx -> TxRecord] /\ p \in Phases
  BY DEF TypeOK, AfterFailure, Phases
<1>2. tx' = [tx EXCEPT ![t].phase = p, ![t].outcome = o]
  BY DEF Fail
<1> HIDE DEF p
<1>3. tx' \in [Tx -> TxRecord]
  BY <1>1, <1>2 DEF TxRecord
<1>4. Others(t) /\ tx'[t].phase = p /\ tx'[t].outcome = o
  BY <1>1, <1>2 DEF TxRecord, Others
<1>5. Keeps(t, {"scope", "snapshot", "read", "applied", "reported"})
  BY <1>1, <1>2 DEF TxRecord, Keeps
<1> QED
  BY <1>3, <1>4, <1>5 DEF p

(* The record is given up, but for what became of the transaction.         *)
LEMMA Finishing ==
  ASSUME TypeOK, NEW t \in Tx, NEW p \in {"saved", "failed"}, NEW o \in Outcome \cup {None},
         Finish(t, p, o)
  PROVE  /\ tx' \in [Tx -> TxRecord] /\ Others(t)
         /\ tx'[t].phase = p /\ tx'[t].outcome = o
         /\ tx'[t].snapshot = None /\ tx'[t].read = None /\ tx'[t].applied = None
         /\ Keeps(t, {"scope", "reported"})
<1> DEFINE one == [tx EXCEPT ![t].phase = p, ![t].outcome = o]
           two == [one EXCEPT ![t].snapshot = None, ![t].read = None]
<1>1. tx \in [Tx -> TxRecord] /\ p \in Phases /\ None \in RouterView
  BY DEF TypeOK, Phases, RouterView
<1>2. tx' = [two EXCEPT ![t].applied = None]
  BY DEF Finish
<1>3. one \in [Tx -> TxRecord]
  BY <1>1 DEF TxRecord
<1>4. /\ \A r \in Tx \ {t} : one[r] = tx[r]
      /\ one[t].phase = p /\ one[t].outcome = o
      /\ one[t].scope = tx[t].scope /\ one[t].reported = tx[t].reported
  BY <1>1 DEF TxRecord
<1> HIDE DEF one
<1>5. two \in [Tx -> TxRecord]
  BY <1>1, <1>3 DEF TxRecord
<1>6. /\ \A r \in Tx \ {t} : two[r] = tx[r]
      /\ two[t].phase = p /\ two[t].outcome = o
      /\ two[t].snapshot = None /\ two[t].read = None
      /\ two[t].scope = tx[t].scope /\ two[t].reported = tx[t].reported
  BY <1>3, <1>4 DEF TxRecord
<1> HIDE DEF two
<1>7. tx' \in [Tx -> TxRecord]
  BY <1>1, <1>2, <1>5 DEF TxRecord
<1>8. /\ Others(t)
      /\ tx'[t].phase = p /\ tx'[t].outcome = o
      /\ tx'[t].snapshot = None /\ tx'[t].read = None /\ tx'[t].applied = None
      /\ tx'[t].scope = tx[t].scope /\ tx'[t].reported = tx[t].reported
  BY <1>2, <1>5, <1>6 DEF TxRecord, Others
<1> QED
  BY <1>7, <1>8 DEF Keeps

(* A transaction is reserved in its scope.                                 *)
LEMMA Reserving ==
  ASSUME TypeOK, NEW t \in Tx, NEW c \in Scope, Reserve(t, c)
  PROVE  /\ tx' \in [Tx -> TxRecord] /\ Others(t)
         /\ tx'[t].phase = "queued" /\ tx'[t].scope = c
         /\ Keeps(t, {"snapshot", "read", "applied", "outcome", "reported"})
<1>1. tx \in [Tx -> TxRecord] /\ "queued" \in Phases
  BY DEF TypeOK, Phases
<1>2. c \in Scope
  OBVIOUS
<1>3. tx' = [tx EXCEPT ![t].phase = "queued", ![t].scope = c]
  BY DEF Reserve
<1>4. tx' \in [Tx -> TxRecord]
  BY <1>1, <1>2, <1>3 DEF TxRecord
<1>5. Others(t) /\ tx'[t].phase = "queued" /\ tx'[t].scope = c
  BY <1>1, <1>3 DEF TxRecord, Others
<1>6. Keeps(t, {"snapshot", "read", "applied", "outcome", "reported"})
  BY <1>1, <1>3 DEF TxRecord, Keeps
<1> QED
  BY <1>2, <1>4, <1>5, <1>6

(* It begins with a snapshot of the profile and the history.               *)
LEMMA Beginning ==
  ASSUME TypeOK, NEW t \in Tx, tx[t].scope \in Scope, Begin(t)
  PROVE  /\ tx' \in [Tx -> TxRecord] /\ Others(t)
         /\ tx'[t].phase = "preparing" /\ tx'[t].snapshot = Snapshot(tx[t].scope)
         /\ Snapshot(tx[t].scope) \in SnapshotRecord
         /\ Keeps(t, {"scope", "read", "applied", "outcome", "reported"})
<1> DEFINE s == Snapshot(tx[t].scope)
<1>1. tx \in [Tx -> TxRecord] /\ "preparing" \in Phases
  BY DEF TypeOK, Phases
<1>2. s \in SnapshotRecord
  BY DEF TypeOK, Snapshot, SnapshotRecord
<1>3. tx' = [tx EXCEPT ![t].phase = "preparing", ![t].snapshot = s]
  BY DEF Begin
<1> HIDE DEF s
<1>4. tx' \in [Tx -> TxRecord]
  <2> DEFINE r == [tx[t] EXCEPT !.phase = "preparing", !.snapshot = s]
  <2>1. r \in TxRecord
    BY <1>1, <1>2 DEF TxRecord
  <2>2. tx' = [tx EXCEPT ![t] = r]
    BY <1>1, <1>3
  <2> HIDE DEF r
  <2> QED
    BY <1>1, <2>1, <2>2
<1>5. Others(t) /\ tx'[t].phase = "preparing" /\ tx'[t].snapshot = s
  BY <1>1, <1>3 DEF TxRecord, Others
<1>6. Keeps(t, {"scope", "read", "applied", "outcome", "reported"})
  BY <1>1, <1>3 DEF TxRecord, Keeps
<1> QED
  BY <1>2, <1>4, <1>5, <1>6 DEF s

(* It reads the Router's configuration ...                                 *)
LEMMA Reading ==
  ASSUME TypeOK, NEW t \in Tx, ReadRouter(t)
  PROVE  /\ tx' \in [Tx -> TxRecord] /\ Others(t)
         /\ tx'[t].phase = "saving" /\ tx'[t].read = router
         /\ Keeps(t, {"scope", "snapshot", "applied", "outcome", "reported"})
<1>1. tx \in [Tx -> TxRecord] /\ "saving" \in Phases
  BY DEF TypeOK, Phases
<1>2. router \in RouterView
  BY DEF TypeOK, RouterView
<1>3. tx' = [tx EXCEPT ![t].phase = "saving", ![t].read = router]
  BY DEF ReadRouter
<1>4. tx' \in [Tx -> TxRecord]
  BY <1>1, <1>2, <1>3 DEF TxRecord
<1>5. Others(t) /\ tx'[t].phase = "saving" /\ tx'[t].read = router
  BY <1>1, <1>3 DEF TxRecord, Others
<1>6. Keeps(t, {"scope", "snapshot", "applied", "outcome", "reported"})
  BY <1>1, <1>3 DEF TxRecord, Keeps
<1> QED
  BY <1>2, <1>4, <1>5, <1>6

(* ... and writes it back with its provider.                               *)
LEMMA Saving ==
  ASSUME TypeOK, NEW t \in Tx, SaveRouter(t), tx[t].read \in SUBSET Tx
  PROVE  /\ tx' \in [Tx -> TxRecord] /\ Others(t)
         /\ tx'[t].phase = "prepared" /\ tx'[t].applied = router'
         /\ router' \subseteq Tx /\ router' = tx[t].read \cup {t}
         /\ Keeps(t, {"scope", "snapshot", "read", "outcome", "reported"})
<1> DEFINE a == tx[t].read \cup {t}
<1>1. tx \in [Tx -> TxRecord] /\ "prepared" \in Phases
  BY DEF TypeOK, Phases
<1>2. a \in RouterView /\ router' = a /\ a \subseteq Tx /\ a = tx[t].read \cup {t}
  BY DEF SaveRouter, RouterView
<1>3. tx' = [tx EXCEPT ![t].phase = "prepared", ![t].applied = a]
  BY <1>2 DEF SaveRouter
<1> HIDE DEF a
<1>4. tx' \in [Tx -> TxRecord]
  BY <1>1, <1>2, <1>3 DEF TxRecord
<1>5. Others(t) /\ tx'[t].phase = "prepared" /\ tx'[t].applied = a
  BY <1>1, <1>3 DEF TxRecord, Others
<1>6. Keeps(t, {"scope", "snapshot", "read", "outcome", "reported"})
  BY <1>1, <1>3 DEF TxRecord, Keeps
<1> QED
  BY <1>2, <1>4, <1>5, <1>6

(* Its compensation fails, which its error reports.                        *)
LEMMA ReportingKeeps ==
  ASSUME TypeOK, NEW t \in Tx, CompensationFails(t)
  PROVE  /\ tx' \in [Tx -> TxRecord] /\ Others(t)
         /\ tx'[t].phase = "reading" /\ tx'[t].reported = TRUE
         /\ Keeps(t, {"scope", "snapshot", "read", "applied", "outcome"})
<1>1. tx \in [Tx -> TxRecord] /\ "reading" \in Phases
  BY DEF TypeOK, Phases
<1>3. tx' = [tx EXCEPT ![t].phase = "reading", ![t].reported = TRUE]
  BY DEF CompensationFails
<1>4. tx' \in [Tx -> TxRecord]
  BY <1>1, <1>3 DEF TxRecord
<1>5. Others(t) /\ tx'[t].phase = "reading" /\ tx'[t].reported = TRUE
  BY <1>1, <1>3 DEF TxRecord, Others
<1>6. Keeps(t, {"scope", "snapshot", "read", "applied", "outcome"})
  BY <1>1, <1>3 DEF TxRecord, Keeps
<1> QED
  BY <1>4, <1>5, <1>6

-----------------------------------------------------------------------------
(* What a step is, told by the record it changes.                          *)
LEMMA StepKinds ==
  ASSUME [Next]_vars
  PROVE  \/ \E t \in Tx, c \in Scope : Reserve(t, c)
         \/ \E t \in Tx : Begin(t) \/ BeginTooLate(t)
         \/ \E t \in Tx : ReadRouter(t) \/ SaveRouter(t) \/ CompensationFails(t)
         \/ \E t \in Tx : Prepare(t) \/ Commit(t) \/ Record(t) \/ RecordFails(t)
         \/ \E t \in Tx : CheckRouter(t) \/ RestoreRouter(t)
         \/ \E t \in Tx : PrepareFails(t) \/ PrepareDrifts(t) \/ CommitThrows(t)
         \/ \E t \in Tx : RollBack(t) \/ RollBackThrows(t) \/ LeaveAsIs(t)
         \/ \E t \in Tx : Complete(t) \/ ReadState(t)
         \/ \E t \in Tx : Cancel(t) \/ LoseTarget(t) \/ DeleteRecord(t)
         \/ \E c \in Scope, w \in Outside : SaveOutside(c, w)
         \/ UNCHANGED vars
BY DEF Next

(* Every step keeps every variable in its range.                           *)
LEMMA TypeInductive ==
  ASSUME Transactions, [Next]_vars
  PROVE  TypeOK'
<1> USE DEF stores, world
<1>t. /\ TypeOK /\ tx \in [Tx -> TxRecord]
      /\ queue \in [Scope -> Seq(Tx)]
      /\ profile \in [Scope -> Authors] /\ Tx \subseteq Authors /\ Outside \subseteq Authors
  BY DEF Transactions, TypeOK, Authors
<1>s. \A t \in Tx : Active(t) =>
        /\ tx[t].scope \in Scope
        /\ tx[t].snapshot.profile \in Authors /\ tx[t].snapshot.history \subseteq Tx
  BY DEF Transactions, Turns, Remembers, RemembersOwn, Active, Running, Preparing, Completing, Unwinding,
     SnapshotRecord
<1>q. \A t \in Tx : Running(t) =>
        /\ tx[t].scope \in Scope /\ queue[tx[t].scope] # <<>>
        /\ Tail(queue[tx[t].scope]) \in Seq(Tx)
  <2> SUFFICES ASSUME NEW t \in Tx, Running(t)
               PROVE  /\ tx[t].scope \in Scope /\ queue[tx[t].scope] # <<>>
                      /\ Tail(queue[tx[t].scope]) \in Seq(Tx)
    OBVIOUS
  <2>1. /\ tx[t].scope \in Scope /\ queue[tx[t].scope] \in Seq(Tx)
        /\ \E i \in 1 .. Len(queue[tx[t].scope]) : queue[tx[t].scope][i] = t
    BY <1>t DEF Transactions, Turns
  <2> QED
    BY <2>1
<1>1. ASSUME NEW t \in Tx, NEW c \in Scope, Reserve(t, c) PROVE TypeOK'
  <2>1. tx' \in [Tx -> TxRecord]
    BY <1>t, <1>1, Reserving
  <2>2. queue' \in [Scope -> Seq(Tx)]
    BY <1>t, <1>1 DEF Reserve
  <2> QED
    BY <1>t, <1>1, <2>1, <2>2 DEF Reserve, TypeOK
<1>2. ASSUME NEW t \in Tx, Begin(t) PROVE TypeOK'
  <2>1. tx' \in [Tx -> TxRecord]
    BY <1>t, <1>2, <1>q, Beginning DEF Begin, Running
  <2> QED
    BY <1>t, <1>2, <2>1 DEF Begin, TypeOK
<1>3. ASSUME NEW t \in Tx, NEW p \in {"saved", "failed"}, NEW o \in Outcome \cup {None},
             Running(t), Finish(t, p, o), UNCHANGED <<stores, world>>
      PROVE  TypeOK'
  <2>1. tx' \in [Tx -> TxRecord]
    BY <1>t, <1>3, Finishing
  <2>2. queue' \in [Scope -> Seq(Tx)]
    BY <1>t, <1>3, <1>q DEF Finish
  <2> QED
    BY <1>t, <1>3, <2>1, <2>2 DEF TypeOK
<1>4. ASSUME NEW t \in Tx, BeginTooLate(t) PROVE TypeOK'
  BY <1>3, <1>4 DEF BeginTooLate, Running, Outcome
<1>5. ASSUME NEW t \in Tx, Complete(t) \/ ReadState(t) PROVE TypeOK'
  <2>1. CASE Complete(t)
    BY <1>3, <2>1 DEF Complete, Running, Outcome
  <2>2. CASE ReadState(t)
    <3>1. tx[t].outcome \in Outcome \cup {None}
      BY <1>t DEF TxRecord
    <3> QED
      BY <1>3, <2>2, <3>1 DEF ReadState, Running
  <2> QED
    BY <1>5, <2>1, <2>2
<1>6. ASSUME NEW t \in Tx, ReadRouter(t) \/ SaveRouter(t) \/ CompensationFails(t) PROVE TypeOK'
  <2>1. SaveRouter(t) => tx[t].read \in SUBSET Tx
    BY DEF SaveRouter, Transactions, Remembers, RemembersOwn
  <2>2. tx' \in [Tx -> TxRecord] /\ router' \subseteq Tx
    BY <1>t, <1>6, <2>1, Reading, Saving, ReportingKeeps DEF TypeOK, ReadRouter, CompensationFails
  <2> QED
    BY <1>t, <1>6, <2>2 DEF TypeOK, ReadRouter, SaveRouter, CompensationFails
<1>7. ASSUME NEW t \in Tx, Prepare(t) \/ Commit(t) \/ Record(t) \/ RecordFails(t)
      PROVE  TypeOK'
  <2>1. \E p \in {"prepared", "completing", "recorded", "unrecorded"} :
          tx' = [tx EXCEPT ![t].phase = p]
    BY <1>7 DEF Prepare, Commit, Record, RecordFails, Proceed
  <2>2. tx' \in [Tx -> TxRecord]
    BY <1>t, <2>1, PhaseChange DEF Phases, Completing
  <2>3. profile' \in [Scope -> Authors]
    BY <1>t, <1>7 DEF Prepare, Commit, Record, RecordFails
  <2> QED
    BY <1>t, <1>7, <2>2, <2>3 DEF TypeOK, Prepare, Commit, Record, RecordFails
<1>8. ASSUME NEW t \in Tx, CheckRouter(t) \/ RestoreRouter(t) PROVE TypeOK'
  <2>1. \E p \in {"restoring", "reading"} : tx' = [tx EXCEPT ![t].phase = p]
    BY <1>8 DEF CheckRouter, RestoreRouter, Proceed
  <2>2. tx' \in [Tx -> TxRecord]
    BY <1>t, <2>1, PhaseChange DEF Phases
  <2>3. router' \subseteq Tx
    BY <1>8, <1>t DEF CheckRouter, RestoreRouter, Proceed, TypeOK, Transactions, Remembers, RemembersOwn
  <2> QED
    BY <1>t, <1>8, <2>2, <2>3 DEF TypeOK, CheckRouter, RestoreRouter
<1>9. ASSUME NEW t \in Tx, NEW o \in Outcome, Fail(t, o),
             profile' \in [Scope -> Authors], history' \subseteq Tx,
             UNCHANGED <<queue, router, world>>
      PROVE  TypeOK'
  <2>1. tx' \in [Tx -> TxRecord]
    BY <1>t, <1>9, Failing
  <2> QED
    BY <1>t, <1>9, <2>1 DEF TypeOK
<1>10. ASSUME NEW t \in Tx, PrepareFails(t) \/ PrepareDrifts(t) \/ CommitThrows(t) PROVE TypeOK'
  <2>1. /\ \E o \in Outcome : Fail(t, o)
        /\ profile' \in [Scope -> Authors]
        /\ UNCHANGED <<queue, router, history, world>>
    BY <1>t, <1>10 DEF PrepareFails, PrepareDrifts, CommitThrows, Outcome
  <2> QED
    BY <1>t, <1>9, <2>1 DEF TypeOK
<1>11. ASSUME NEW t \in Tx, RollBack(t) \/ RollBackThrows(t) \/ LeaveAsIs(t) PROVE TypeOK'
  <2>1. Active(t)
    BY <1>11 DEF RollBack, RollBackThrows, LeaveAsIs, Active
  <2>2. /\ \E o \in Outcome : Fail(t, o)
        /\ UNCHANGED <<queue, router, world>>
    BY <1>11 DEF RollBack, RollBackThrows, LeaveAsIs, Outcome
  <2>3. profile' \in [Scope -> Authors] /\ history' \subseteq Tx
    BY <1>t, <1>s, <1>11, <2>1 DEF RollBack, RollBackThrows, LeaveAsIs, RestoreSnapshot, TypeOK
  <2> QED
    BY <1>9, <2>2, <2>3
<1>12. ASSUME NEW t \in Tx, Cancel(t) \/ LoseTarget(t) \/ DeleteRecord(t) PROVE TypeOK'
  BY <1>t, <1>12 DEF TypeOK, Cancel, LoseTarget, DeleteRecord
<1>13. ASSUME NEW c \in Scope, NEW w \in Outside, SaveOutside(c, w) PROVE TypeOK'
  BY <1>t, <1>13 DEF TypeOK, SaveOutside
<1>14. CASE UNCHANGED vars
  BY <1>t, <1>14 DEF vars, TypeOK
<1> QED
  BY <1>1, <1>2, <1>4, <1>5, <1>6, <1>7, <1>8, <1>10, <1>11, <1>12, <1>13, <1>14, StepKinds

-----------------------------------------------------------------------------
(* Whoever has the turn keeps it until it is over, and nobody else has it. *)
LEMMA OneAtATime ==
  ASSUME Turns, NEW t \in Tx, NEW r \in Tx, Active(t), Active(r), tx[t].scope = tx[r].scope
  PROVE  t = r
BY DEF Turns

(* A transaction that moves on keeps its turn.                             *)
LEMMA TurnsKept ==
  ASSUME Transactions, NEW t \in Tx, Others(t), tx'[t].scope = tx[t].scope,
         UNCHANGED queue, Running(t),
         Active(t)' => Head(queue[tx[t].scope]) = t
  PROVE  Turns'
<1>1. \A r \in Tx \ {t} : tx'[r] = tx[r]
  BY DEF Others
<1>2. \A r \in Tx \ {t} : (Running(r)' => Running(r)) /\ (Active(r)' => Active(r))
  BY <1>1 DEF Running, Active
<1> QED
  BY <1>1, <1>2 DEF Turns, Transactions

(* One that ends gives its turn to the next.                               *)
LEMMA TurnsPassed ==
  ASSUME Transactions, NEW t \in Tx, NEW p \in {"saved", "failed"},
         NEW o \in Outcome \cup {None}, Finish(t, p, o),
         Running(t), Head(queue[tx[t].scope]) = t
  PROVE  Turns'
<1> DEFINE c == tx[t].scope
<1>1. /\ Others(t) /\ tx'[t].phase = p /\ tx'[t].scope = c
      /\ queue' = [queue EXCEPT ![c] = Tail(@)]
      /\ queue \in [Scope -> Seq(Tx)] /\ c \in Scope
      /\ \E i \in 1 .. Len(queue[c]) : queue[c][i] = t
  BY Finishing DEF Finish, Keeps, Transactions, TypeOK, Turns
<1>2. /\ queue[c] # <<>> /\ Len(Tail(queue[c])) = Len(queue[c]) - 1
      /\ queue[c][1] = t
      /\ \A i \in 1 .. Len(Tail(queue[c])) : Tail(queue[c])[i] = queue[c][i + 1]
      /\ Len(queue[c]) \in Nat
  BY <1>1
<1>3. \A r \in Tx \ {t} : /\ tx'[r] = tx[r]
                          /\ Running(r)' <=> Running(r)
                          /\ Active(r)' <=> Active(r)
  BY <1>1 DEF Others, Running, Active
<1>4. ~Running(t)' /\ ~Active(t)'
  BY <1>1 DEF Running, Active, Preparing, Completing, Unwinding
<1> SUFFICES ASSUME NEW r \in Tx \ {t}, Running(r)
             PROVE  /\ tx[r].scope \in Scope
                    /\ \E i \in 1 .. Len(queue'[tx[r].scope]) : queue'[tx[r].scope][i] = r
                    /\ Active(r) => Head(queue'[tx[r].scope]) = r
  <2>1. \A r \in Tx : Active(r)' => Running(r)'
    BY DEF Active, Running, Preparing, Completing, Unwinding
  <2> QED
    BY <1>3, <1>4, <2>1 DEF Turns
<1>5. /\ tx[r].scope \in Scope
      /\ \E i \in 1 .. Len(queue[tx[r].scope]) : queue[tx[r].scope][i] = r
      /\ Active(r) => Head(queue[tx[r].scope]) = r
  BY DEF Transactions, Turns
<1>6. CASE tx[r].scope # c
  BY <1>1, <1>5, <1>6
<1>7. CASE tx[r].scope = c
  <2>1. queue'[c] = Tail(queue[c])
    BY <1>1
  <2>2. ~Active(r)
    BY <1>5, <1>7
  <2>3. PICK i \in 1 .. Len(queue[c]) : queue[c][i] = r
    BY <1>5, <1>7
  <2>4. i # 1
    BY <1>2, <2>3
  <2>5. i - 1 \in 1 .. Len(Tail(queue[c])) /\ (i - 1) + 1 = i
    BY <1>2, <2>3, <2>4
  <2>6. Tail(queue[c])[i - 1] = r
    BY <1>2, <2>3, <2>5
  <2> QED
    BY <1>5, <1>7, <2>1, <2>2, <2>5, <2>6
<1> QED
  BY <1>6, <1>7

(* A new one joins the end.                                                *)
LEMMA TurnsExtended ==
  ASSUME Transactions, NEW t \in Tx, NEW c \in Scope, Reserve(t, c)
  PROVE  Turns'
<1>0. TypeOK
  BY DEF Transactions
<1>r. Others(t) /\ tx'[t].phase = "queued" /\ tx'[t].scope = c
  BY <1>0, Reserving
<1>1. /\ Others(t) /\ tx'[t].phase = "queued" /\ tx'[t].scope = c
      /\ queue' = [queue EXCEPT ![c] = Append(@, t)]
      /\ queue \in [Scope -> Seq(Tx)] /\ Len(queue[c]) \in Nat
  BY <1>0, <1>r DEF Reserve, TypeOK
<1>2. /\ Len(Append(queue[c], t)) = Len(queue[c]) + 1
      /\ Append(queue[c], t)[Len(queue[c]) + 1] = t
      /\ \A i \in 1 .. Len(queue[c]) : Append(queue[c], t)[i] = queue[c][i]
      /\ queue[c] # <<>> => Head(Append(queue[c], t)) = Head(queue[c])
  BY <1>1
<1>3. \A r \in Tx \ {t} : /\ tx'[r] = tx[r]
                          /\ Running(r)' <=> Running(r)
                          /\ Active(r)' <=> Active(r)
  BY <1>1 DEF Others, Running, Active
<1>4. ~Active(t)'
  BY <1>1 DEF Active, Preparing, Completing, Unwinding
<1>5. \E i \in 1 .. Len(queue'[c]) : queue'[c][i] = t
  <2>1. Len(queue[c]) + 1 \in 1 .. Len(queue'[c]) /\ queue'[c][Len(queue[c]) + 1] = t
    BY <1>1, <1>2
  <2> QED
    BY <2>1
<1>6. ASSUME NEW r \in Tx \ {t}, Running(r)
      PROVE  /\ tx[r].scope \in Scope
             /\ \E i \in 1 .. Len(queue'[tx[r].scope]) : queue'[tx[r].scope][i] = r
             /\ Active(r) => Head(queue'[tx[r].scope]) = r
  <2>1. /\ tx[r].scope \in Scope
        /\ Active(r) => Head(queue[tx[r].scope]) = r
    BY <1>6 DEF Transactions, Turns
  <2>2. PICK i \in 1 .. Len(queue[tx[r].scope]) : queue[tx[r].scope][i] = r
    BY <1>6 DEF Transactions, Turns
  <2>3. CASE tx[r].scope # c
    BY <1>1, <2>1, <2>2, <2>3
  <2>4. CASE tx[r].scope = c
    <3>1. i \in 1 .. Len(queue'[c]) /\ queue'[c][i] = r
      BY <1>1, <1>2, <2>2, <2>4
    <3>2. queue[c] # <<>> /\ Head(queue'[c]) = Head(queue[c])
      BY <1>1, <1>2, <2>2, <2>4
    <3> QED
      BY <2>1, <2>4, <3>1, <3>2
  <2> QED
    BY <2>3, <2>4
<1>7. \A r \in Tx : Active(r) => Running(r)
  BY DEF Active, Running, Preparing, Completing, Unwinding
<1> SUFFICES ASSUME NEW r \in Tx
             PROVE  /\ Running(r)' =>
                         /\ tx'[r].scope \in Scope
                         /\ \E i \in 1 .. Len(queue'[tx'[r].scope]) : queue'[tx'[r].scope][i] = r
                    /\ Active(r)' => Head(queue'[tx'[r].scope]) = r
  BY DEF Turns
<1>8. CASE r = t
  BY <1>1, <1>4, <1>5, <1>8
<1>9. CASE r # t
  BY <1>3, <1>6, <1>7, <1>9
<1> QED
  BY <1>8, <1>9

(* Every step keeps the queues and what the transactions remember.         *)
LEMMA TransactionsInductive ==
  ASSUME Transactions, [Next]_vars
  PROVE  Transactions'
<1> USE DEF stores, world
<1>t. TypeOK /\ Turns /\ Remembers
  BY DEF Transactions
<1>p. /\ Preparing = {"preparing", "saving", "prepared"}
      /\ Completing = {"completing", "recorded", "unrecorded"}
      /\ Unwinding = {"compensating", "restoring", "reading"}
      /\ "untouched" \in Outcome /\ "restored" \in Outcome /\ "left" \in Outcome
      /\ "halfway" \in Outcome /\ "overtaken" \in Outcome
  BY DEF Preparing, Completing, Unwinding, Outcome
<1>r. \A t \in Tx : Active(t) => Running(t) /\ Head(queue[tx[t].scope]) = t
  BY <1>t, <1>p DEF Turns, Active, Running
<1>o. ASSUME NEW t \in Tx, Others(t), RemembersOwn(t)' PROVE Remembers'
  BY <1>t, <1>o DEF Remembers, RemembersOwn, Others, Active
<1>u. ASSUME UNCHANGED <<tx, queue>> PROVE Turns' /\ Remembers'
  BY <1>t, <1>u DEF Turns, Remembers, RemembersOwn, Active, Running
<1>1. ASSUME NEW t \in Tx, NEW c \in Scope, Reserve(t, c) PROVE Turns' /\ Remembers'
  <2>1. /\ Others(t) /\ tx'[t].phase = "queued" /\ tx[t].phase = "unused"
        /\ tx'[t].applied = tx[t].applied /\ tx'[t].outcome = tx[t].outcome
        /\ tx'[t].read = tx[t].read
    BY <1>t, <1>1, Reserving DEF Reserve, Keeps
  <2>2. RemembersOwn(t)'
    BY <1>t, <1>p, <2>1 DEF Remembers, RemembersOwn, Active
  <2> QED
    BY <1>1, <1>o, <2>1, <2>2, TurnsExtended
<1>2. ASSUME NEW t \in Tx, Begin(t) PROVE Turns' /\ Remembers'
  <2>1. Running(t) /\ tx[t].phase = "queued" /\ tx[t].scope \in Scope
    BY <1>t, <1>2 DEF Begin, Running, Turns
  <2>2. /\ Others(t) /\ tx'[t].phase = "preparing" /\ tx'[t].scope = tx[t].scope
        /\ tx'[t].snapshot \in SnapshotRecord
        /\ tx'[t].applied = tx[t].applied /\ tx'[t].outcome = tx[t].outcome
        /\ tx'[t].read = tx[t].read
    BY <1>t, <1>2, <2>1, Beginning DEF Keeps
  <2>3. RemembersOwn(t)'
    BY <1>t, <1>p, <2>1, <2>2 DEF Remembers, RemembersOwn, Active
  <2> QED
    BY <1>2, <1>o, <2>1, <2>2, <2>3, TurnsKept DEF Begin
<1>3. ASSUME NEW t \in Tx, NEW p \in {"saved", "failed"}, NEW o \in Outcome \cup {None},
             Running(t), Head(queue[tx[t].scope]) = t, Finish(t, p, o)
      PROVE  Turns' /\ Remembers'
  <2>1. Others(t) /\ tx'[t].phase = p /\ tx'[t].applied = None
    BY <1>t, <1>3, Finishing
  <2>2. RemembersOwn(t)'
    BY <1>p, <2>1 DEF RemembersOwn, Active
  <2> QED
    BY <1>3, <1>o, <2>1, <2>2, TurnsPassed
<1>4. ASSUME NEW t \in Tx, BeginTooLate(t) PROVE Turns' /\ Remembers'
  BY <1>3, <1>4, <1>p DEF BeginTooLate, Running
<1>5. ASSUME NEW t \in Tx, Complete(t) \/ ReadState(t) PROVE Turns' /\ Remembers'
  <2>1. Active(t)
    BY <1>5, <1>p DEF Active, Complete, ReadState
  <2>2. tx[t].outcome \in Outcome \cup {None} /\ "recorded" \in Outcome /\ "unrecorded" \in Outcome
    BY <1>t DEF TypeOK, TxRecord, Outcome
  <2>3. \E p \in {"saved", "failed"}, o \in Outcome \cup {None} : Finish(t, p, o)
    BY <1>5, <2>2 DEF Complete, ReadState
  <2> QED
    BY <1>3, <1>r, <2>1, <2>3
<1>6. ASSUME NEW t \in Tx, ReadRouter(t) \/ SaveRouter(t) \/ CompensationFails(t)
      PROVE  Turns' /\ Remembers'
  <2>1. Active(t) /\ UNCHANGED queue
    BY <1>6, <1>p DEF Active, ReadRouter, SaveRouter, CompensationFails
  <2>2. CASE ReadRouter(t)
    <3>1. /\ Others(t) /\ tx'[t].phase = "saving" /\ tx'[t].read = router
          /\ tx'[t].scope = tx[t].scope /\ tx'[t].snapshot = tx[t].snapshot
          /\ tx'[t].applied = tx[t].applied /\ tx'[t].outcome = tx[t].outcome
      BY <1>t, <2>2, Reading DEF Keeps
    <3>2. RemembersOwn(t)'
      BY <1>t, <1>p, <2>1, <2>2, <3>1 DEF ReadRouter, Remembers, RemembersOwn, Active, TypeOK
    <3> QED
      BY <1>o, <1>r, <2>1, <3>1, <3>2, TurnsKept
  <2>3. CASE SaveRouter(t)
    <3>1. tx[t].read \in SUBSET Tx
      BY <1>t, <2>3 DEF SaveRouter, Remembers, RemembersOwn
    <3>2. /\ Others(t) /\ tx'[t].phase = "prepared" /\ tx'[t].read = tx[t].read
          /\ tx'[t].scope = tx[t].scope /\ tx'[t].snapshot = tx[t].snapshot
          /\ tx'[t].outcome = tx[t].outcome
      BY <1>t, <2>3, <3>1, Saving DEF Keeps
    <3>3. RemembersOwn(t)'
      BY <1>t, <1>p, <2>1, <2>3, <3>1, <3>2 DEF SaveRouter, Remembers, RemembersOwn, Active
    <3> QED
      BY <1>o, <1>r, <2>1, <3>2, <3>3, TurnsKept
  <2>4. CASE CompensationFails(t)
    <3>1. /\ Others(t) /\ tx'[t].phase = "reading" /\ tx'[t].read = tx[t].read
          /\ tx'[t].scope = tx[t].scope /\ tx'[t].snapshot = tx[t].snapshot
          /\ tx'[t].applied = tx[t].applied /\ tx'[t].outcome = tx[t].outcome
      BY <1>t, <2>4, ReportingKeeps DEF Keeps
    <3>2. RemembersOwn(t)
      BY <1>t DEF Remembers
    <3>3. RemembersOwn(t)'
      BY <1>p, <2>1, <3>1, <3>2 DEF RemembersOwn, Active
    <3> QED
      BY <1>o, <1>r, <2>1, <3>1, <3>3, TurnsKept
  <2> QED
    BY <1>6, <2>2, <2>3, <2>4
<1>7. ASSUME NEW t \in Tx,
             \/ Prepare(t) \/ Commit(t) \/ Record(t) \/ RecordFails(t)
             \/ CheckRouter(t) \/ RestoreRouter(t)
      PROVE  Turns' /\ Remembers'
  <2>1. Active(t) /\ UNCHANGED queue
    BY <1>7, <1>p DEF Active, Prepare, Commit, Record, RecordFails, CheckRouter, RestoreRouter,
       Proceed
  <2>2. /\ \E p \in Phases : /\ tx' = [tx EXCEPT ![t].phase = p]
                             /\ p \in Preparing \cup Completing \/ p \in {"restoring", "reading"}
                             /\ p # "saving"
                             /\ p \in Preparing \cup Completing =>
                                  tx[t].phase \in Preparing \cup Completing
                             /\ p = "restoring" => tx[t].phase = "compensating"
                             /\ p # "compensating"
    BY <1>7, <1>p DEF Prepare, Commit, Record, RecordFails, CheckRouter, RestoreRouter,
       Proceed, Phases
  <2>3. PICK p \in Phases : /\ tx' = [tx EXCEPT ![t].phase = p]
                            /\ p \in Preparing \cup Completing \/ p \in {"restoring", "reading"}
                            /\ p # "saving"
                            /\ p \in Preparing \cup Completing =>
                                 tx[t].phase \in Preparing \cup Completing
                            /\ p = "restoring" => tx[t].phase = "compensating"
                            /\ p # "compensating"
    BY <2>2
  <2>4. /\ Others(t) /\ tx'[t].phase = p /\ tx'[t].read = tx[t].read
        /\ tx'[t].scope = tx[t].scope /\ tx'[t].snapshot = tx[t].snapshot
        /\ tx'[t].applied = tx[t].applied /\ tx'[t].outcome = tx[t].outcome
    BY <1>t, <2>3, PhaseChange DEF Keeps
  <2>5. RemembersOwn(t)'
    BY <1>t, <1>p, <2>1, <2>3, <2>4 DEF Remembers, RemembersOwn, Active
  <2> QED
    BY <1>o, <1>r, <2>1, <2>4, <2>5, TurnsKept
<1>8. ASSUME NEW t \in Tx,
             \/ PrepareFails(t) \/ PrepareDrifts(t) \/ CommitThrows(t)
             \/ RollBack(t) \/ RollBackThrows(t) \/ LeaveAsIs(t)
      PROVE  Turns' /\ Remembers'
  <2>1. Active(t) /\ UNCHANGED queue
    BY <1>8, <1>p DEF Active, PrepareFails, PrepareDrifts, CommitThrows, RollBack,
       RollBackThrows, LeaveAsIs
  <2>2. PICK o \in Outcome : Fail(t, o)
    BY <1>8, <1>p DEF PrepareFails, PrepareDrifts, CommitThrows, RollBack, RollBackThrows,
       LeaveAsIs
  <2>3. /\ Others(t) /\ tx'[t].phase = AfterFailure(t) /\ tx'[t].read = tx[t].read
        /\ tx'[t].scope = tx[t].scope /\ tx'[t].snapshot = tx[t].snapshot
        /\ tx'[t].applied = tx[t].applied
    BY <1>t, <2>2, Failing DEF Keeps
  <2>4. RemembersOwn(t)'
    BY <1>t, <1>p, <2>1, <2>3 DEF AfterFailure, Remembers, RemembersOwn, Active
  <2> QED
    BY <1>o, <1>r, <2>1, <2>3, <2>4, TurnsKept
<1>9. ASSUME \/ \E t \in Tx : Cancel(t) \/ LoseTarget(t) \/ DeleteRecord(t)
             \/ \E c \in Scope, w \in Outside : SaveOutside(c, w)
             \/ UNCHANGED vars
      PROVE  Turns' /\ Remembers'
  BY <1>9, <1>u DEF Cancel, LoseTarget, DeleteRecord, SaveOutside, vars
<1>10. Turns' /\ Remembers'
  BY <1>1, <1>2, <1>4, <1>5, <1>6, <1>7, <1>8, <1>9, StepKinds
<1> QED
  BY <1>10, TypeInductive DEF Transactions

-----------------------------------------------------------------------------
(* The atomic profile.  What a waiting reader sees depends on the writer   *)
(* whose profile is stored.                                                *)
Tentative(c) ==
  /\ profile[c] \in Tx
  /\ tx[profile[c]].scope = c
  /\ tx[profile[c]].phase \in Completing

value == [c \in Scope |-> Stable(c)]
spent == written \cup {t \in Tx : tx[t].phase = "saved" \/ tx[t].outcome = "left"}

(* The stable profile, before a step and after it. *)
LEMMA StableIs ==
  ASSUME NEW c \in Scope
  PROVE  /\ Stable(c) = IF Tentative(c) THEN tx[profile[c]].snapshot.profile ELSE profile[c]
         /\ Stable(c)' = IF Tentative(c)' THEN tx'[profile'[c]].snapshot.profile
                                          ELSE profile'[c]
BY DEF Stable, Tentative

(* The profile stored in the scope of a transaction in its turn is nobody  *)
(* else's tentative one.                                                   *)
LEMMA OnlyOwnTentative ==
  ASSUME Transactions, NEW t \in Tx, Active(t), Tentative(tx[t].scope)
  PROVE  profile[tx[t].scope] = t
<1>1. Active(profile[tx[t].scope])
  BY DEF Tentative, Active
<1> QED
  BY <1>1, OneAtATime DEF Transactions, Tentative

(* A step of a transaction that is tentative neither before nor after it   *)
(* shows nothing ...                                                       *)
LEMMA NothingSeen ==
  ASSUME NEW t \in Tx, Others(t), UNCHANGED <<profile, written>>,
         tx[t].phase \notin Completing, tx'[t].phase \notin Completing,
         tx'[t].phase = "saved" <=> tx[t].phase = "saved",
         tx'[t].outcome = "left" <=> tx[t].outcome = "left"
  PROVE  UNCHANGED <<value, spent>>
<1>1. \A c \in Scope : Stable(c)' = Stable(c)
  <2> SUFFICES ASSUME NEW c \in Scope PROVE Stable(c)' = Stable(c)
    OBVIOUS
  <2>1. Tentative(c)' <=> Tentative(c)
    BY DEF Tentative, Others
  <2>2. Tentative(c) => tx'[profile[c]] = tx[profile[c]]
    BY DEF Tentative, Others
  <2>3. Stable(c)' = IF Tentative(c)' THEN tx'[profile'[c]].snapshot.profile ELSE profile'[c]
    BY StableIs
  <2> QED
    BY <2>1, <2>2, <2>3, StableIs
<1>2. spent' = spent
  BY DEF spent, Others
<1> QED
  BY <1>1, <1>2 DEF value

(* ... neither does one that stays tentative ...                           *)
LEMMA StillTentative ==
  ASSUME NEW t \in Tx, Others(t), UNCHANGED <<profile, written>>,
         tx[t].phase \in Completing, tx'[t].phase \in Completing,
         tx'[t].scope = tx[t].scope, tx'[t].snapshot = tx[t].snapshot,
         tx'[t].outcome = tx[t].outcome
  PROVE  UNCHANGED <<value, spent>>
<1>1. \A c \in Scope : Stable(c)' = Stable(c)
  <2> SUFFICES ASSUME NEW c \in Scope PROVE Stable(c)' = Stable(c)
    OBVIOUS
  <2>1. Tentative(c)' <=> Tentative(c)
    BY DEF Tentative, Others
  <2>2. Tentative(c) => tx'[profile[c]].snapshot = tx[profile[c]].snapshot
    BY DEF Tentative, Others
  <2>3. Stable(c)' = IF Tentative(c)' THEN tx'[profile'[c]].snapshot.profile ELSE profile'[c]
    BY StableIs
  <2> QED
    BY <2>1, <2>2, <2>3, StableIs
<1>2. spent' = spent
  BY DEF spent, Others, Completing
<1> QED
  BY <1>1, <1>2 DEF value

(* ... nor a commit or a rollback, which change what is stored behind the  *)
(* barrier of the transaction.                                             *)
LEMMA BehindBarrier ==
  ASSUME Transactions, NEW t \in Tx, Active(t), Others(t), UNCHANGED written,
         NEW old \in Authors, tx[t].snapshot.profile = old,
         \/ /\ tx[t].phase = "prepared" /\ profile[tx[t].scope] = old
            /\ tx'[t].phase \in Completing /\ profile' = [profile EXCEPT ![tx[t].scope] = t]
         \/ /\ tx[t].phase \in Completing /\ profile[tx[t].scope] = t
            /\ tx'[t].phase \notin Completing \cup {"saved"}
            /\ profile' = [profile EXCEPT ![tx[t].scope] = old],
         tx'[t].scope = tx[t].scope, tx'[t].snapshot.profile = old,
         tx'[t].outcome # "left"
  PROVE  UNCHANGED <<value, spent>>
<1> DEFINE c == tx[t].scope
<1>1. /\ c \in Scope /\ profile \in [Scope -> Authors]
      /\ tx[t].outcome # "left" /\ tx[t].phase # "saved" /\ tx'[t].phase # "saved"
  BY WritersDiffer DEF Transactions, TypeOK, Turns, Remembers, RemembersOwn, Active, Running,
     Preparing, Completing, Unwinding, Outcome
<1>2. \A d \in Scope \ {c} : Stable(d)' = Stable(d)
  <2> SUFFICES ASSUME NEW d \in Scope \ {c} PROVE Stable(d)' = Stable(d)
    OBVIOUS
  <2>1. profile'[d] = profile[d]
    BY <1>1
  <2>2. /\ Tentative(d)' <=> Tentative(d)
        /\ Tentative(d) => tx'[profile[d]] = tx[profile[d]]
    BY <2>1 DEF Tentative, Others
  <2>3. Stable(d)' = IF Tentative(d)' THEN tx'[profile'[d]].snapshot.profile ELSE profile'[d]
    BY StableIs
  <2> QED
    BY <2>1, <2>2, <2>3, StableIs
<1>3. Stable(c) = old
  <2>1. CASE tx[t].phase = "prepared"
    <3>1. ~Tentative(c)
      BY <2>1, OnlyOwnTentative DEF Tentative, Completing
    <3> QED
      BY <1>1, <2>1, <3>1, StableIs DEF Completing
  <2>2. CASE tx[t].phase \in Completing
    <3>1. profile[c] = t /\ Tentative(c)
      BY <2>2 DEF Tentative, Completing
    <3> QED
      BY <1>1, <3>1, StableIs
  <2> QED
    BY <2>1, <2>2
<1>4. Stable(c)' = IF Tentative(c)' THEN tx'[profile'[c]].snapshot.profile ELSE profile'[c]
  BY <1>1, StableIs
<1>5. Stable(c)' = old
  <2>1. CASE tx'[t].phase \in Completing
    <3>1. profile'[c] = t /\ Tentative(c)'
      BY <1>1, <2>1 DEF Tentative
    <3> QED
      BY <1>4, <3>1
  <2>2. CASE tx'[t].phase \notin Completing
    <3>1. profile'[c] = old
      BY <1>1, <2>2
    <3>2. ~Tentative(c)'
      <4> SUFFICES ASSUME Tentative(c)' PROVE FALSE
        OBVIOUS
      <4>1. old \in Tx /\ old # t /\ tx[old].scope = c /\ tx[old].phase \in Completing
        BY <2>2, <3>1 DEF Tentative, Others
      <4>2. Active(old)
        BY <4>1 DEF Active
      <4> QED
        BY <4>1, <4>2, OneAtATime DEF Transactions
    <3> QED
      BY <1>4, <3>1, <3>2
  <2> QED
    BY <2>1, <2>2
<1>6. spent' = spent
  BY <1>1 DEF spent, Others
<1> QED
  BY <1>2, <1>3, <1>5, <1>6 DEF value

(* What becomes visible is a save: of a transaction that completes, or one *)
(* whose profile stays although it failed ...                              *)
LEMMA TransactionSaves ==
  ASSUME Transactions, NEW t \in Tx, Active(t), Others(t), UNCHANGED written,
         tx[t].phase \in Preparing \cup Completing, tx'[t].phase \notin Completing,
         tx'[t].phase = "saved" \/ tx'[t].outcome = "left",
         profile' = [profile EXCEPT ![tx[t].scope] = t]
  PROVE  Atomic!Next
<1>1. PICK c \in Scope : c = tx[t].scope
  BY DEF Transactions, TypeOK, Turns, Active, Running, Preparing, Completing, Unwinding
<1>2. tx[t].outcome # "left" /\ tx[t].phase # "saved" /\ t \notin written
  BY WritersDiffer DEF Transactions, TypeOK, Remembers, RemembersOwn,
     Preparing, Completing, Outcome
<1>3. profile'[c] = t /\ \A d \in Scope \ {c} : profile'[d] = profile[d]
  BY <1>1 DEF Transactions, TypeOK
<1>4. \A d \in Scope \ {c} : Stable(d)' = Stable(d)
  <2> SUFFICES ASSUME NEW d \in Scope \ {c} PROVE Stable(d)' = Stable(d)
    OBVIOUS
  <2>1. profile'[d] = profile[d]
    BY <1>3
  <2>2. /\ Tentative(d)' <=> Tentative(d)
        /\ Tentative(d) => tx'[profile[d]] = tx[profile[d]]
    BY <1>1, <2>1 DEF Tentative, Others
  <2>3. Stable(d)' = IF Tentative(d)' THEN tx'[profile'[d]].snapshot.profile ELSE profile'[d]
    BY StableIs
  <2> QED
    BY <2>1, <2>2, <2>3, StableIs
<1>5. Stable(c)' = t
  <2>1. ~Tentative(c)'
    BY <1>3 DEF Tentative
  <2>2. Stable(c)' = IF Tentative(c)' THEN tx'[profile'[c]].snapshot.profile ELSE profile'[c]
    BY <1>1, StableIs
  <2> QED
    BY <1>3, <2>1, <2>2
<1>6. spent' = spent \cup {t} /\ t \notin spent
  BY <1>2 DEF spent, Others
<1>7. value' = [value EXCEPT ![c] = t]
  BY <1>1, <1>4, <1>5 DEF value
<1> QED
  BY <1>1, <1>6, <1>7 DEF Atomic!Next, Atomic!Save, value, spent

(* ... or of somebody outside.                                             *)
LEMMA OutsideSaves ==
  ASSUME Transactions, NEW c \in Scope, NEW w \in Outside, SaveOutside(c, w)
  PROVE  Atomic!Next
<1>1. /\ profile \in [Scope -> Authors] /\ UNCHANGED tx /\ w \notin Tx /\ w \notin written
      /\ profile' = [profile EXCEPT ![c] = w] /\ written' = written \cup {w}
  BY WritersDiffer DEF SaveOutside, Transactions, TypeOK
<1>2. \A d \in Scope \ {c} : Stable(d)' = Stable(d)
  <2> SUFFICES ASSUME NEW d \in Scope \ {c} PROVE Stable(d)' = Stable(d)
    OBVIOUS
  <2>1. profile'[d] = profile[d] /\ (Tentative(d)' <=> Tentative(d))
    BY <1>1 DEF Tentative
  <2>2. Stable(d)' = IF Tentative(d)' THEN tx'[profile'[d]].snapshot.profile ELSE profile'[d]
    BY StableIs
  <2> QED
    BY <1>1, <2>1, <2>2, StableIs
<1>3. Stable(c)' = w
  <2>1. profile'[c] = w /\ ~Tentative(c)'
    BY <1>1 DEF Tentative
  <2>2. Stable(c)' = IF Tentative(c)' THEN tx'[profile'[c]].snapshot.profile ELSE profile'[c]
    BY StableIs
  <2> QED
    BY <2>1, <2>2
<1>4. spent' = spent \cup {w} /\ w \notin spent
  BY <1>1 DEF spent
<1>5. value' = [value EXCEPT ![c] = w]
  BY <1>2, <1>3 DEF value
<1> QED
  BY <1>4, <1>5 DEF Atomic!Next, Atomic!Save, value, spent

(* Every other step is invisible to whoever waits for the transaction.     *)
LEMMA StepRefines ==
  ASSUME Transactions, [Next]_vars
  PROVE  Atomic!Next \/ UNCHANGED <<value, spent>>
<1> USE DEF stores, world
<1> DEFINE Goal == Atomic!Next \/ UNCHANGED <<value, spent>>
<1>t. TypeOK /\ Turns /\ Remembers
  BY DEF Transactions
<1>p. /\ Preparing = {"preparing", "saving", "prepared"}
      /\ Completing = {"completing", "recorded", "unrecorded"}
      /\ Unwinding = {"compensating", "restoring", "reading"}
      /\ {"untouched", "restored", "left", "halfway", "overtaken", "recorded", "unrecorded"}
           = Outcome
      /\ None \notin Outcome
  BY WritersDiffer DEF Preparing, Completing, Unwinding, Outcome
<1>r. \A t \in Tx : /\ Active(t) => tx[t].scope \in Scope /\ tx[t].snapshot \in SnapshotRecord
                    /\ tx[t].phase \in {"unused", "queued"} \cup Preparing \cup Completing
                         => tx[t].outcome = None
  BY <1>t, <1>p DEF Turns, Remembers, RemembersOwn, Active, Running
<1>1. ASSUME NEW t \in Tx, NEW c \in Scope, Reserve(t, c) PROVE Goal
  <2>1. /\ Others(t) /\ tx'[t].phase = "queued" /\ tx[t].phase = "unused"
        /\ tx'[t].outcome = tx[t].outcome /\ UNCHANGED <<profile, written>>
    BY <1>t, <1>1, Reserving DEF Reserve, Keeps
  <2> QED
    BY <1>p, <2>1, NothingSeen
<1>2. ASSUME NEW t \in Tx, Begin(t) PROVE Goal
  <2>1. tx[t].phase = "queued" /\ tx[t].scope \in Scope /\ UNCHANGED <<profile, written>>
    BY <1>t, <1>2 DEF Begin, Running, Turns
  <2>2. Others(t) /\ tx'[t].phase = "preparing" /\ tx'[t].outcome = tx[t].outcome
    BY <1>t, <1>2, <2>1, Beginning DEF Keeps
  <2> QED
    BY <1>p, <2>1, <2>2, NothingSeen
<1>3. ASSUME NEW t \in Tx, BeginTooLate(t) PROVE Goal
  <2>1. Others(t) /\ tx'[t].phase = "failed" /\ tx'[t].outcome = "untouched"
    BY <1>t, <1>3, <1>p, Finishing DEF BeginTooLate
  <2>2. tx[t].phase = "queued" /\ tx[t].outcome = None /\ UNCHANGED <<profile, written>>
    BY <1>3, <1>r DEF BeginTooLate
  <2> QED
    BY <1>p, <2>1, <2>2, NothingSeen
<1>4. ASSUME NEW t \in Tx, ReadState(t) PROVE Goal
  <2>1. tx[t].outcome \in Outcome \cup {None}
    BY <1>t DEF TypeOK, TxRecord
  <2>2. Others(t) /\ tx'[t].phase = "failed" /\ tx'[t].outcome = tx[t].outcome
    BY <1>t, <1>4, <2>1, Finishing DEF ReadState
  <2>3. tx[t].phase = "reading" /\ UNCHANGED <<profile, written>>
    BY <1>4 DEF ReadState
  <2> QED
    BY <1>p, <2>2, <2>3, NothingSeen
<1>5. ASSUME NEW t \in Tx, ReadRouter(t) \/ SaveRouter(t) \/ CompensationFails(t) PROVE Goal
  <2>1. SaveRouter(t) => tx[t].read \in SUBSET Tx
    BY <1>t DEF SaveRouter, Remembers, RemembersOwn
  <2>2. /\ Others(t) /\ tx'[t].outcome = tx[t].outcome
        /\ tx'[t].phase \in {"saving", "prepared", "reading"}
    BY <1>t, <1>5, <2>1, Reading, Saving, ReportingKeeps DEF Keeps
  <2>3. /\ tx[t].phase \in {"preparing", "saving", "compensating", "restoring"}
        /\ UNCHANGED <<profile, written>>
    BY <1>5 DEF ReadRouter, SaveRouter, CompensationFails
  <2> QED
    BY <1>p, <2>2, <2>3, NothingSeen
<1>6. ASSUME NEW t \in Tx, Prepare(t) \/ CheckRouter(t) \/ RestoreRouter(t) PROVE Goal
  <2>1. /\ \E p \in {"prepared", "restoring", "reading"} : tx' = [tx EXCEPT ![t].phase = p]
        /\ tx[t].phase \in {"preparing", "compensating", "restoring"}
        /\ UNCHANGED <<profile, written>>
    BY <1>6 DEF Prepare, CheckRouter, RestoreRouter, Proceed
  <2>2. {"prepared", "restoring", "reading"} \subseteq Phases
    BY DEF Phases
  <2>3. /\ Others(t) /\ tx'[t].outcome = tx[t].outcome
        /\ tx'[t].phase \in {"prepared", "restoring", "reading"}
    BY <1>t, <2>1, <2>2, PhaseChange DEF Keeps
  <2> QED
    BY <1>p, <2>1, <2>3, NothingSeen
<1>7. ASSUME NEW t \in Tx, Record(t) \/ RecordFails(t) PROVE Goal
  <2>1. /\ \E p \in {"recorded", "unrecorded"} : tx' = [tx EXCEPT ![t].phase = p]
        /\ tx[t].phase = "completing" /\ UNCHANGED <<profile, written>>
    BY <1>7 DEF Record, RecordFails, Proceed
  <2>2. {"recorded", "unrecorded"} \subseteq Phases
    BY DEF Phases, Completing
  <2>3. /\ Others(t) /\ tx'[t].outcome = tx[t].outcome
        /\ tx'[t].scope = tx[t].scope /\ tx'[t].snapshot = tx[t].snapshot
        /\ tx'[t].phase \in {"recorded", "unrecorded"}
    BY <1>t, <2>1, <2>2, PhaseChange DEF Keeps
  <2> QED
    BY <1>p, <2>1, <2>3, StillTentative
<1>8. ASSUME NEW t \in Tx, Commit(t) PROVE Goal
  <2>1. /\ tx' = [tx EXCEPT ![t].phase = "completing"] /\ tx[t].phase = "prepared"
        /\ profile' = [profile EXCEPT ![tx[t].scope] = t] /\ UNCHANGED written
        /\ Snapshot(tx[t].scope) = tx[t].snapshot
    BY <1>8 DEF Commit, Drifted
  <2>2. Active(t) /\ "completing" \in Phases
    BY <1>p, <2>1 DEF Active, Phases
  <2>3. /\ Others(t) /\ tx'[t].outcome = tx[t].outcome /\ tx'[t].phase = "completing"
        /\ tx'[t].scope = tx[t].scope /\ tx'[t].snapshot = tx[t].snapshot
    BY <1>t, <2>1, <2>2, PhaseChange DEF Keeps
  <2>4. /\ tx[t].snapshot.profile \in Authors
        /\ profile[tx[t].scope] = tx[t].snapshot.profile
        /\ tx[t].outcome # "left"
    BY <1>p, <1>r, <2>1, <2>2 DEF SnapshotRecord, Snapshot
  <2>5. tx'[t].phase \in Completing
    BY <1>p, <2>3
  <2> DEFINE old == tx[t].snapshot.profile
  <2>6. old \in Authors /\ tx[t].snapshot.profile = old /\ tx'[t].snapshot.profile = old
        /\ profile[tx[t].scope] = old /\ tx'[t].outcome # "left"
    BY <2>3, <2>4
  <2> HIDE DEF old
  <2> QED
    BY <2>1, <2>2, <2>3, <2>5, <2>6, BehindBarrier
<1>9. ASSUME NEW t \in Tx, Complete(t) PROVE Goal
  <2>1. /\ tx[t].phase \in {"recorded", "unrecorded"} /\ profile[tx[t].scope] = t
        /\ UNCHANGED <<profile, written>> /\ Finish(t, "saved", tx[t].phase)
    BY <1>9 DEF Complete
  <2>2. Others(t) /\ tx'[t].phase = "saved"
    BY <1>t, <1>p, <2>1, Finishing
  <2>3. Active(t) /\ profile \in [Scope -> Authors]
    BY <1>t, <1>p, <2>1 DEF Active, TypeOK
  <2>4. profile' = [profile EXCEPT ![tx[t].scope] = t]
    BY <1>r, <2>1, <2>3
  <2> QED
    BY <1>p, <2>1, <2>2, <2>3, <2>4, TransactionSaves
<1>10. ASSUME NEW t \in Tx, NEW o \in Outcome, Fail(t, o)
       PROVE  /\ Others(t) /\ tx'[t].outcome = o
              /\ tx'[t].phase \in {"reading", "compensating"}
              /\ tx'[t].scope = tx[t].scope /\ tx'[t].snapshot = tx[t].snapshot
  BY <1>t, <1>10, Failing DEF Keeps, AfterFailure
<1>11. ASSUME NEW t \in Tx, PrepareFails(t) \/ PrepareDrifts(t) PROVE Goal
  <2>1. /\ Fail(t, "untouched") /\ tx[t].phase \in Preparing /\ UNCHANGED <<profile, written>>
    BY <1>11, <1>p DEF PrepareFails, PrepareDrifts
  <2> QED
    BY <1>p, <1>r, <1>10, <2>1, NothingSeen
<1>12. ASSUME NEW t \in Tx, CommitThrows(t) PROVE Goal
  <2>1. tx[t].phase = "prepared" /\ UNCHANGED written /\ Active(t)
    BY <1>12, <1>p DEF CommitThrows, Active
  <2>2. CASE Fail(t, "restored") /\ UNCHANGED profile
    BY <1>p, <1>r, <1>10, <2>1, <2>2, NothingSeen
  <2>3. CASE Fail(t, "left") /\ profile' = [profile EXCEPT ![tx[t].scope] = t]
    BY <1>p, <1>10, <2>1, <2>3, TransactionSaves
  <2> QED
    BY <1>12, <2>2, <2>3 DEF CommitThrows
<1>13. ASSUME NEW t \in Tx, RollBack(t) \/ RollBackThrows(t) PROVE Goal
  <2>1. /\ tx[t].phase \in Completing /\ UNCHANGED written /\ Active(t)
        /\ profile[tx[t].scope] = t /\ profile \in [Scope -> Authors]
    BY <1>t, <1>13 DEF RollBack, RollBackThrows, Active, TypeOK
  <2>2. CASE /\ Fail(t, "restored") \/ Fail(t, "halfway")
             /\ profile' = [profile EXCEPT ![tx[t].scope] = tx[t].snapshot.profile]
    <3> DEFINE old == tx[t].snapshot.profile
    <3>1. old \in Authors
      BY <1>r, <2>1 DEF SnapshotRecord
    <3>2. PICK o \in {"restored", "halfway"} : Fail(t, o)
      BY <2>2
    <3>3. /\ Others(t) /\ tx'[t].outcome # "left"
          /\ tx'[t].phase \notin Completing \cup {"saved"}
          /\ tx'[t].scope = tx[t].scope /\ tx'[t].snapshot = tx[t].snapshot
      BY <1>p, <1>10, <3>2
    <3>4. /\ tx[t].snapshot.profile = old /\ tx'[t].snapshot.profile = old
          /\ profile' = [profile EXCEPT ![tx[t].scope] = old]
      BY <2>2, <3>3
    <3> HIDE DEF old
    <3> QED
      BY <2>1, <3>1, <3>3, <3>4, BehindBarrier
  <2>3. CASE Fail(t, "left") /\ UNCHANGED profile
    <3>1. profile' = [profile EXCEPT ![tx[t].scope] = t]
      BY <1>r, <2>1, <2>3
    <3> QED
      BY <1>p, <1>10, <2>1, <2>3, <3>1, TransactionSaves
  <2> QED
    BY <1>13, <2>2, <2>3 DEF RollBack, RollBackThrows, RestoreSnapshot
<1>14. ASSUME NEW t \in Tx, LeaveAsIs(t) PROVE Goal
  <2>1. /\ tx[t].phase \in Completing /\ UNCHANGED <<profile, written>> /\ Active(t)
        /\ profile \in [Scope -> Authors]
    BY <1>t, <1>14 DEF LeaveAsIs, Active, TypeOK
  <2>2. CASE profile[tx[t].scope] = t
    <3>1. profile' = [profile EXCEPT ![tx[t].scope] = t] /\ Fail(t, "left")
      BY <1>14, <1>r, <2>1, <2>2 DEF LeaveAsIs
    <3> QED
      BY <1>p, <1>10, <2>1, <3>1, TransactionSaves
  <2>3. CASE profile[tx[t].scope] # t
    <3>1. Fail(t, "overtaken")
      BY <1>14, <2>3 DEF LeaveAsIs
    <3>2. /\ Others(t) /\ tx'[t].outcome # "left"
          /\ tx'[t].phase \notin Completing \cup {"saved"}
          /\ tx'[t].scope = tx[t].scope
      BY <1>p, <1>10, <3>1
    <3>3. \A c \in Scope : Stable(c)' = Stable(c)
      <4> SUFFICES ASSUME NEW c \in Scope PROVE Stable(c)' = Stable(c)
        OBVIOUS
      <4>1. /\ Tentative(c)' <=> Tentative(c)
            /\ Tentative(c) => tx'[profile[c]] = tx[profile[c]]
        BY <2>1, <2>3, <3>2 DEF Tentative, Others
      <4> QED
        BY <2>1, <4>1, StableIs
    <3>4. spent' = spent
      BY <1>p, <1>r, <2>1, <3>2 DEF spent, Others
    <3> QED
      BY <3>3, <3>4 DEF value
  <2> QED
    BY <2>2, <2>3
<1>15. ASSUME UNCHANGED <<tx, profile, written>> PROVE UNCHANGED <<value, spent>>
  BY <1>15 DEF value, spent, Stable
<1>16. ASSUME (\E t \in Tx : Cancel(t) \/ LoseTarget(t) \/ DeleteRecord(t)) \/ UNCHANGED vars
       PROVE  Goal
  BY <1>15, <1>16 DEF Cancel, LoseTarget, DeleteRecord, vars
<1>17. ASSUME NEW c \in Scope, NEW w \in Outside, SaveOutside(c, w) PROVE Goal
  BY <1>17, OutsideSaves
<1> QED
  BY <1>1, <1>2, <1>3, <1>4, <1>5, <1>6, <1>7, <1>8, <1>9, <1>11, <1>12, <1>13, <1>14,
     <1>16, <1>17, StepKinds

(* Initially no transaction has begun. *)
LEMMA InitTransactions == Init => Transactions
  BY DEF Init, Transactions, TypeOK, Turns, Remembers, RemembersOwn, Active, Running, Fresh,
     TxRecord, Phases, RouterView, Authors, Preparing, Completing, Unwinding

(* Types, and what a transaction remembers and owns while it has the turn. *)
THEOREM TypeCorrect == Spec => []TypeOK
<1>1. Transactions => TypeOK
  BY DEF Transactions
<1>2. Transactions /\ [Next]_vars => Transactions'
  BY TransactionsInductive
<1> QED
  BY <1>1, <1>2, InitTransactions, PTL DEF Spec

(* For any number of scopes, transactions and writers outside them, a      *)
(* reader that waits for the transaction in progress sees every profile    *)
(* change only by a save as a whole (runOwnedConfigTransaction).           *)
THEOREM ProfileIsAtomic == Spec => ImplementsAtomicProfile
<1>1. Init => Atomic!Init
  <2> SUFFICES ASSUME Init PROVE Atomic!Init
    OBVIOUS
  <2>1. \A t \in Tx : tx[t].phase = "unused" /\ tx[t].outcome = None
    BY DEF Init, Fresh
  <2>2. None # "left"
    BY WritersDiffer DEF Outcome
  <2>3. \A c \in Scope : Stable(c) = Original
    BY <2>1, StableIs DEF Init, Tentative, Completing
  <2> QED
    BY <2>1, <2>2, <2>3 DEF Init, Atomic!Init
<1>2. Transactions /\ [Next]_vars => Transactions'
  BY TransactionsInductive
<1>3. Transactions /\ [Next]_vars => Atomic!Next \/ UNCHANGED <<value, spent>>
  BY StepRefines
<1>4. UNCHANGED <<value, spent>>
        => UNCHANGED <<[c \in Scope |-> Stable(c)],
                       written \cup {t \in Tx : tx[t].phase = "saved"
                                                \/ tx[t].outcome = "left"}>>
  BY DEF value, spent
<1> QED
  BY <1>1, <1>2, <1>3, <1>4, InitTransactions, PTL DEF Spec, ImplementsAtomicProfile, Atomic!Spec

-----------------------------------------------------------------------------
(* The traces beside the profile are owned only where there is one scope:  *)
(* two scopes share the history and the Router without a common queue.     *)
LEMMA AloneWithOneScope ==
  ASSUME Transactions, NEW c, Scope = {c},
         NEW t \in Tx, Active(t), NEW r \in Tx, Active(r)
  PROVE  r = t
<1>1. tx[t].scope = c /\ tx[r].scope = c
  BY DEF Transactions, Turns, Active, Running, Preparing, Completing, Unwinding
<1> QED
  BY <1>1, OneAtATime DEF Transactions

(* A step of one transaction that leaves the history alone.                *)
LEMMA HistoryKept ==
  ASSUME HistoryFollows, NEW t \in Tx, Others(t), UNCHANGED <<history, deleted>>,
         ~Over(t),
         t \in history => MayBeRecorded(t)',
         tx'[t].phase = "recorded" => t \in history \cup deleted,
         /\ tx'[t].phase = "saved" /\ tx'[t].outcome = "recorded"
         => /\ t \in history \cup deleted
            /\ \A r \in Tx : Active(r) => r = t,
         Active(t)' => /\ Active(t) /\ tx'[t].snapshot = tx[t].snapshot
                       /\ tx'[t].phase # "saved"
  PROVE  HistoryFollows'
<1>1. \A r \in Tx \ {t} : /\ Active(r)' <=> Active(r)
                          /\ Over(r)' <=> Over(r)
                          /\ MayBeRecorded(r)' <=> MayBeRecorded(r)
  BY DEF Others, Active, Over, MayBeRecorded
<1>2. SUFFICES ASSUME NEW r \in Tx
               PROVE  /\ r \in history => MayBeRecorded(r)'
                      /\ tx'[r].phase = "recorded" => r \in history \cup deleted
                      /\ tx'[r].phase = "saved" /\ tx'[r].outcome = "recorded"
                           => r \in history \cup deleted
                      /\ Active(r)' => \A q \in Tx :
                           /\ q \in tx'[r].snapshot.history => Over(q)' /\ MayBeRecorded(q)'
                           /\ tx'[q].phase = "saved" /\ tx'[q].outcome = "recorded"
                                => q \in tx'[r].snapshot.history \cup deleted
  BY DEF HistoryFollows
<1>3. CASE r = t
  BY <1>1, <1>3 DEF HistoryFollows, Others
<1>4. CASE r # t
  BY <1>1, <1>4 DEF HistoryFollows, Others
<1> QED
  BY <1>3, <1>4

(* A step of one transaction that leaves the Router alone.                 *)
LEMMA RouterKept ==
  ASSUME RouterFollows, NEW t \in Tx, Others(t), UNCHANGED router, ~Over(t),
         t \in router =>
           \/ MayBeRouted(t)'
           \/ /\ tx'[t].phase \in Preparing \cup Completing \cup {"compensating", "restoring"}
              /\ tx'[t].applied # None
           \/ tx'[t].phase = "reading" /\ tx'[t].reported,
         tx'[t].phase = "saving" \/ (Active(t)' /\ tx'[t].applied # None) =>
           /\ tx[t].phase = "saving" \/ (Active(t) /\ tx[t].applied # None)
           /\ tx'[t].read = tx[t].read,
         tx'[t].phase \in {"preparing", "saving", "queued", "unused"} => tx'[t].applied = None
  PROVE  RouterFollows'
<1>1. \A r \in Tx \ {t} : /\ Active(r)' <=> Active(r)
                          /\ MayBeRouted(r)' <=> MayBeRouted(r)
  BY DEF Others, Active, Over, MayBeRouted
<1>2. \A r \in Tx : MayBeRouted(r) => MayBeRouted(r)'
  BY <1>1 DEF MayBeRouted
<1>3. SUFFICES ASSUME NEW r \in Tx
               PROVE  /\ r \in router =>
                           \/ MayBeRouted(r)'
                           \/ /\ tx'[r].phase \in Preparing \cup Completing
                                                    \cup {"compensating", "restoring"}
                              /\ tx'[r].applied # None
                           \/ tx'[r].phase = "reading" /\ tx'[r].reported
                      /\ tx'[r].phase = "saving" \/ (Active(r)' /\ tx'[r].applied # None)
                           => \A q \in tx'[r].read : q \in Tx /\ MayBeRouted(q)'
                      /\ tx'[r].phase \in {"preparing", "saving", "queued", "unused"}
                           => tx'[r].applied = None
  BY DEF RouterFollows
<1>4. CASE r = t
  BY <1>2, <1>4 DEF RouterFollows
<1>5. CASE r # t
  BY <1>1, <1>2, <1>5 DEF RouterFollows, Others
<1> QED
  BY <1>4, <1>5

(* What the history and the Router hold of a transaction of the only scope *)
(* agrees with how far it came, whatever step is taken.                    *)
LEMMA TracesInductive ==
  ASSUME Traces, NEW c, Scope = {c}, [Next]_vars
  PROVE  HistoryFollows' /\ RouterFollows'
<1> USE DEF stores, world
<1> DEFINE Goal == HistoryFollows' /\ RouterFollows'
<1>t. Transactions /\ TypeOK /\ Turns /\ Remembers /\ HistoryFollows /\ RouterFollows
  BY DEF Traces, Transactions
<1>p. /\ Preparing = {"preparing", "saving", "prepared"}
      /\ Completing = {"completing", "recorded", "unrecorded"}
      /\ Unwinding = {"compensating", "restoring", "reading"}
      /\ {"untouched", "restored", "left", "halfway", "overtaken", "recorded", "unrecorded"}
           = Outcome
      /\ None \notin Outcome
  BY WritersDiffer DEF Preparing, Completing, Unwinding, Outcome
<1>r. \A t \in Tx : /\ Running(t) => tx[t].scope \in Scope
                    /\ tx[t].phase \in {"unused", "queued"} \cup Preparing \cup Completing
                         => tx[t].outcome = None
                    /\ tx[t].phase \in {"compensating", "restoring"} => tx[t].applied # None
                    /\ tx[t].phase = "saving" \/ tx[t].applied # None
                         => tx[t].read \in SUBSET Tx
  BY <1>t DEF Turns, Remembers, RemembersOwn
<1>a. ASSUME NEW t \in Tx, NEW r \in Tx, Active(t), Active(r) PROVE r = t
  BY <1>t, <1>a, AloneWithOneScope
<1>o. ASSUME NEW t \in Tx, tx[t].outcome = None, tx[t].phase # "recorded"
      PROVE  t \notin history /\ ~MayBeRecorded(t)
  BY <1>t, <1>p, <1>o DEF HistoryFollows, MayBeRecorded
<1>1. ASSUME NEW t \in Tx, NEW d \in Scope, Reserve(t, d) PROVE Goal
  <2>1. /\ tx[t].phase = "unused" /\ UNCHANGED <<history, deleted, router>>
        /\ tx[t].outcome = None /\ t \notin history
    BY <1>1, <1>r, <1>o DEF Reserve
  <2>2. Others(t) /\ tx'[t].phase = "queued" /\ tx'[t].applied = tx[t].applied
    BY <1>t, <1>1, Reserving DEF Keeps
  <2>3. HistoryFollows'
    BY <1>t, <1>p, <2>1, <2>2, HistoryKept DEF Over, Active
  <2>4. t \notin router /\ tx[t].applied = None
    BY <1>t, <1>p, <2>1 DEF RouterFollows, MayBeRouted, Over
  <2> QED
    BY <1>t, <1>p, <2>1, <2>2, <2>3, <2>4, RouterKept DEF Over, Active
<1>2. ASSUME NEW t \in Tx, Begin(t) PROVE Goal
  <2>1. /\ tx[t].phase = "queued" /\ tx[t].scope \in Scope /\ t = Head(queue[tx[t].scope])
        /\ UNCHANGED <<history, deleted, router>>
        /\ tx[t].outcome = None /\ t \notin history
    BY <1>r, <1>o, <1>2 DEF Begin, Running
  <2>s. Snapshot(tx[t].scope).history = history
    BY DEF Snapshot
  <2>b. /\ Others(t) /\ tx'[t].phase = "preparing" /\ tx'[t].outcome = tx[t].outcome
        /\ tx'[t].applied = tx[t].applied /\ tx'[t].snapshot = Snapshot(tx[t].scope)
    BY <1>t, <1>2, <2>1, Beginning DEF Keeps
  <2>2. /\ Others(t) /\ tx'[t].phase = "preparing" /\ tx'[t].outcome = None
        /\ tx'[t].applied = tx[t].applied /\ tx'[t].snapshot.history = history
    BY <2>1, <2>s, <2>b
  <2>3. \A r \in Tx : ~Active(r)
    BY <1>t, <1>p, <1>r, <2>1 DEF Turns, Active, Running
  <2>4. \A r \in history : r \in Tx /\ Over(r) /\ MayBeRecorded(r)
    <3> SUFFICES ASSUME NEW r \in history PROVE r \in Tx /\ Over(r) /\ MayBeRecorded(r)
      OBVIOUS
    <3>1. r \in Tx /\ MayBeRecorded(r)
      BY <1>t DEF TypeOK, HistoryFollows
    <3>2. tx[r].phase \in Phases
      BY <1>t, <3>1 DEF TypeOK, TxRecord
    <3> QED
      BY <1>p, <1>r, <2>3, <3>1, <3>2 DEF Phases, Over, Active, MayBeRecorded
  <2>5. \A r \in Tx \ {t} : /\ ~Active(r)' /\ tx'[r] = tx[r] /\ (Over(r)' <=> Over(r))
                            /\ MayBeRecorded(r)' <=> MayBeRecorded(r)
    BY <2>2, <2>3 DEF Others, Active, Over, MayBeRecorded
  <2>6. HistoryFollows'
    <3> SUFFICES ASSUME NEW q \in Tx
                 PROVE  /\ q \in history => MayBeRecorded(q)'
                        /\ tx'[q].phase = "recorded" => q \in history \cup deleted
                        /\ tx'[q].phase = "saved" /\ tx'[q].outcome = "recorded"
                             => q \in history \cup deleted
                        /\ Active(q)' => \A r \in Tx :
                             /\ r \in tx'[q].snapshot.history => Over(r)' /\ MayBeRecorded(r)'
                             /\ tx'[r].phase = "saved" /\ tx'[r].outcome = "recorded"
                                  => r \in tx'[q].snapshot.history \cup deleted
      BY <2>1 DEF HistoryFollows
    <3>1. CASE q = t
      BY <1>t, <2>1, <2>2, <2>4, <2>5, <3>1 DEF HistoryFollows
    <3>2. CASE q # t
      BY <1>t, <2>5, <3>2 DEF HistoryFollows
    <3> QED
      BY <3>1, <3>2
  <2>7. t \notin router /\ tx[t].applied = None
    BY <1>t, <1>p, <2>1 DEF RouterFollows, MayBeRouted, Over
  <2> QED
    BY <1>t, <1>p, <2>1, <2>2, <2>6, <2>7, RouterKept DEF Over, Active
<1>3. ASSUME NEW t \in Tx, BeginTooLate(t) PROVE Goal
  <2>1. /\ tx[t].phase = "queued" /\ UNCHANGED <<history, deleted, router>>
        /\ tx[t].outcome = None /\ t \notin history
    BY <1>r, <1>o, <1>3 DEF BeginTooLate
  <2>2. Others(t) /\ tx'[t].phase = "failed" /\ tx'[t].outcome = "untouched"
    BY <1>t, <1>3, <1>p, Finishing DEF BeginTooLate
  <2>3. HistoryFollows'
    BY <1>t, <1>p, <2>1, <2>2, HistoryKept DEF Over, Active
  <2>4. t \notin router
    BY <1>t, <1>p, <2>1 DEF RouterFollows, MayBeRouted, Over
  <2> QED
    BY <1>t, <1>p, <2>1, <2>2, <2>3, <2>4, RouterKept DEF Over, Active
<1>4. ASSUME NEW t \in Tx, ReadState(t) PROVE Goal
  <2>1. tx[t].outcome \in Outcome \cup {None}
    BY <1>t DEF TypeOK, TxRecord
  <2>2. /\ Others(t) /\ tx'[t].phase = "failed" /\ tx'[t].outcome = tx[t].outcome
        /\ tx'[t].reported = tx[t].reported
    BY <1>t, <1>4, <2>1, Finishing DEF ReadState, Keeps
  <2>3. tx[t].phase = "reading" /\ UNCHANGED <<history, deleted, router>>
    BY <1>4 DEF ReadState
  <2>4. t \in history => MayBeRecorded(t)'
    BY <1>t, <2>2, <2>3 DEF HistoryFollows, MayBeRecorded
  <2>5. HistoryFollows'
    BY <1>t, <1>p, <2>2, <2>3, <2>4, HistoryKept DEF Over, Active
  <2>6. t \in router => MayBeRouted(t)'
    BY <1>t, <1>p, <2>2, <2>3 DEF RouterFollows, MayBeRouted, Over
  <2> QED
    BY <1>t, <1>p, <2>2, <2>3, <2>5, <2>6, RouterKept DEF Over, Active
<1>5. ASSUME NEW t \in Tx, ReadRouter(t) PROVE Goal
  <2>1. /\ tx[t].phase = "preparing" /\ UNCHANGED <<history, deleted, router>>
        /\ tx[t].outcome = None /\ t \notin history /\ Active(t)
    BY <1>p, <1>r, <1>o, <1>5 DEF ReadRouter, Active
  <2>2. /\ Others(t) /\ tx'[t].phase = "saving" /\ tx'[t].read = router
        /\ tx'[t].snapshot = tx[t].snapshot /\ tx'[t].applied = tx[t].applied
    BY <1>t, <1>5, Reading DEF Keeps
  <2>3. HistoryFollows'
    BY <1>t, <1>p, <2>1, <2>2, HistoryKept DEF Over, Active
  <2>4. \A r \in Tx \ {t} : ~Active(r) /\ tx'[r] = tx[r]
    BY <1>a, <2>1, <2>2 DEF Others
  <2>5. tx[t].applied = None /\ \A r \in router : r \in Tx \ {t} /\ MayBeRouted(r)
    BY <1>t, <1>p, <2>1, <2>4 DEF RouterFollows, MayBeRouted, Over, TypeOK, Active
  <2>6. \A r \in router : r \in Tx \ {t} /\ MayBeRouted(r)'
    BY <2>4, <2>5 DEF MayBeRouted, Over
  <2>7. \A r \in Tx \ {t} : ~Active(r)' /\ (tx[r].phase = "saving" => Active(r))
    BY <1>p, <2>4 DEF Active
  <2>8. RouterFollows'
    <3> SUFFICES ASSUME NEW q \in Tx
                 PROVE  /\ q \in router =>
                             \/ MayBeRouted(q)'
                             \/ /\ tx'[q].phase \in Preparing \cup Completing
                                                      \cup {"compensating", "restoring"}
                                /\ tx'[q].applied # None
                             \/ tx'[q].phase = "reading" /\ tx'[q].reported
                        /\ tx'[q].phase = "saving" \/ (Active(q)' /\ tx'[q].applied # None)
                             => \A r \in tx'[q].read : r \in Tx /\ MayBeRouted(r)'
                        /\ tx'[q].phase \in {"preparing", "saving", "queued", "unused"}
                             => tx'[q].applied = None
      BY <2>1 DEF RouterFollows
    <3>1. CASE q = t
      BY <2>2, <2>5, <2>6, <3>1
    <3>2. CASE q # t
      BY <1>t, <2>4, <2>6, <2>7, <3>2 DEF RouterFollows
    <3> QED
      BY <3>1, <3>2
  <2> QED
    BY <2>3, <2>8

<1>6. ASSUME NEW t \in Tx, SaveRouter(t) PROVE Goal
  <2>1. /\ tx[t].phase = "saving" /\ UNCHANGED <<history, deleted>> /\ Active(t)
        /\ tx[t].outcome = None /\ t \notin history /\ tx[t].read \in SUBSET Tx
    BY <1>p, <1>r, <1>o, <1>6 DEF SaveRouter, Active
  <2>2. /\ Others(t) /\ tx'[t].phase = "prepared" /\ tx'[t].applied = router'
        /\ router' \subseteq Tx /\ router' = tx[t].read \cup {t} /\ tx'[t].read = tx[t].read
        /\ tx'[t].snapshot = tx[t].snapshot
    BY <1>t, <1>6, <2>1, Saving DEF Keeps
  <2>3. HistoryFollows'
    BY <1>t, <1>p, <2>1, <2>2, HistoryKept DEF Over, Active
  <2>4. \A r \in Tx \ {t} : ~Active(r) /\ tx'[r] = tx[r]
    BY <1>a, <2>1, <2>2 DEF Others
  <2>5. \A r \in tx[t].read : r \in Tx \ {t} /\ MayBeRouted(r)'
    BY <1>t, <2>1, <2>4 DEF RouterFollows, MayBeRouted, Over
  <2>6. \A r \in Tx \ {t} : ~Active(r)' /\ (tx[r].phase = "saving" => Active(r))
    BY <1>p, <2>4 DEF Active
  <2>7. tx'[t].applied # None
    BY <2>2, WritersDiffer
  <2>8. RouterFollows'
    <3> SUFFICES ASSUME NEW q \in Tx
                 PROVE  /\ q \in router' =>
                             \/ MayBeRouted(q)'
                             \/ /\ tx'[q].phase \in Preparing \cup Completing
                                                      \cup {"compensating", "restoring"}
                                /\ tx'[q].applied # None
                             \/ tx'[q].phase = "reading" /\ tx'[q].reported
                        /\ tx'[q].phase = "saving" \/ (Active(q)' /\ tx'[q].applied # None)
                             => \A r \in tx'[q].read : r \in Tx /\ MayBeRouted(r)'
                        /\ tx'[q].phase \in {"preparing", "saving", "queued", "unused"}
                             => tx'[q].applied = None
      BY DEF RouterFollows
    <3>1. CASE q = t
      BY <1>p, <2>2, <2>5, <2>7, <3>1
    <3>2. CASE q # t
      BY <1>t, <2>2, <2>4, <2>5, <2>6, <3>2 DEF RouterFollows
    <3> QED
      BY <3>1, <3>2
  <2> QED
    BY <2>3, <2>8
<1>7. ASSUME NEW t \in Tx, Prepare(t) \/ Commit(t) \/ RecordFails(t) PROVE Goal
  <2>1. /\ \E p \in {"prepared", "completing", "unrecorded"} : tx' = [tx EXCEPT ![t].phase = p]
        /\ tx[t].phase \in {"preparing", "prepared", "completing"}
        /\ UNCHANGED <<history, deleted, router>>
    BY <1>7 DEF Prepare, Commit, RecordFails, Proceed
  <2>2. {"prepared", "completing", "unrecorded"} \subseteq Phases
    BY DEF Phases, Completing
  <2>3. /\ Others(t) /\ tx'[t].snapshot = tx[t].snapshot /\ tx'[t].read = tx[t].read
        /\ tx'[t].applied = tx[t].applied
        /\ tx'[t].phase \in {"prepared", "completing", "unrecorded"}
    BY <1>t, <2>1, <2>2, PhaseChange DEF Keeps
  <2>4. Active(t) /\ ~Over(t) /\ t \notin history
    BY <1>p, <1>r, <1>o, <2>1 DEF Active, Over
  <2>5. HistoryFollows'
    BY <1>t, <1>p, <2>1, <2>3, <2>4, HistoryKept DEF Over
  <2>6. t \in router => tx[t].applied # None
    BY <1>t, <2>1, <2>4 DEF RouterFollows, MayBeRouted
  <2> QED
    BY <1>t, <1>p, <2>1, <2>3, <2>4, <2>5, <2>6, RouterKept
<1>8. ASSUME NEW t \in Tx, Record(t) PROVE Goal
  <2>1. /\ tx' = [tx EXCEPT ![t].phase = "recorded"] /\ tx[t].phase = "completing"
        /\ history' = history \cup {t} /\ UNCHANGED <<deleted, router>>
    BY <1>8 DEF Record, Proceed
  <2>2. "recorded" \in Phases
    BY DEF Phases, Completing
  <2>3. /\ Others(t) /\ tx'[t].phase = "recorded" /\ tx'[t].snapshot = tx[t].snapshot
        /\ tx'[t].read = tx[t].read /\ tx'[t].applied = tx[t].applied
    BY <1>t, <2>1, <2>2, PhaseChange DEF Keeps
  <2>4. Active(t) /\ ~Over(t)
    BY <1>p, <2>1 DEF Active, Over
  <2>5. \A r \in Tx \ {t} : /\ Active(r)' <=> Active(r)
                            /\ Over(r)' <=> Over(r)
                            /\ MayBeRecorded(r)' <=> MayBeRecorded(r)
                            /\ tx'[r] = tx[r] /\ ~Active(r)
    BY <1>a, <2>3, <2>4 DEF Others, Active, Over, MayBeRecorded
  <2>6. HistoryFollows'
    <3> SUFFICES ASSUME NEW q \in Tx
                 PROVE  /\ q \in history' => MayBeRecorded(q)'
                        /\ tx'[q].phase = "recorded" => q \in history' \cup deleted
                        /\ tx'[q].phase = "saved" /\ tx'[q].outcome = "recorded"
                             => q \in history' \cup deleted
                        /\ Active(q)' => \A r \in Tx :
                             /\ r \in tx'[q].snapshot.history => Over(r)' /\ MayBeRecorded(r)'
                             /\ tx'[r].phase = "saved" /\ tx'[r].outcome = "recorded"
                                  => r \in tx'[q].snapshot.history \cup deleted
      BY <2>1 DEF HistoryFollows
    <3>1. CASE q = t
      <4>1. q \in history' /\ MayBeRecorded(q)'
        BY <2>1, <2>3, <3>1 DEF MayBeRecorded
      <4>2. ASSUME NEW r \in Tx
            PROVE  /\ r \in tx'[q].snapshot.history => Over(r)' /\ MayBeRecorded(r)'
                   /\ tx'[r].phase = "saved" /\ tx'[r].outcome = "recorded"
                        => r \in tx'[q].snapshot.history \cup deleted
        BY <1>t, <2>3, <2>4, <2>5, <3>1 DEF HistoryFollows
      <4> QED
        BY <4>1, <4>2
    <3>2. CASE q # t
      BY <1>t, <2>1, <2>5, <3>2 DEF HistoryFollows
    <3> QED
      BY <3>1, <3>2
  <2>7. t \in router => tx[t].applied # None
    BY <1>t, <2>1, <2>4 DEF RouterFollows, MayBeRouted
  <2> QED
    BY <1>t, <1>p, <2>1, <2>3, <2>4, <2>6, <2>7, RouterKept
<1>9. ASSUME NEW t \in Tx, Complete(t) PROVE Goal
  <2>1. /\ tx[t].phase \in {"recorded", "unrecorded"} /\ tx[t].outcome = None
        /\ UNCHANGED <<history, deleted, router>> /\ Finish(t, "saved", tx[t].phase)
    BY <1>9, <1>p, <1>r DEF Complete
  <2>2. Others(t) /\ tx'[t].phase = "saved" /\ tx'[t].outcome = tx[t].phase
    BY <1>t, <1>p, <2>1, Finishing
  <2>3. Active(t) /\ ~Over(t)
    BY <1>p, <2>1 DEF Active, Over
  <2>4. tx[t].phase = "unrecorded" => t \notin history
    BY <1>o, <2>1
  <2>5. tx[t].phase = "recorded" => MayBeRecorded(t)' /\ t \in history \cup deleted
    BY <1>t, <2>1, <2>2 DEF MayBeRecorded, HistoryFollows
  <2>6. ~Active(t)' /\ MayBeRouted(t)'
    BY <1>p, <2>2 DEF Active, MayBeRouted, Over
  <2>7. \A r \in Tx : Active(r) => r = t
    BY <1>a, <2>3
  <2>8. HistoryFollows'
    BY <1>t, <2>1, <2>2, <2>3, <2>4, <2>5, <2>6, <2>7, HistoryKept
  <2> QED
    BY <1>t, <2>1, <2>2, <2>3, <2>6, <2>8, RouterKept
<1>10. ASSUME NEW t \in Tx, NEW o \in Outcome, Fail(t, o), UNCHANGED router,
              tx[t].phase \in Preparing \cup Completing
       PROVE  /\ Others(t) /\ tx'[t].outcome = o /\ tx'[t].snapshot = tx[t].snapshot
              /\ tx'[t].phase \in {"reading", "compensating"}
              /\ Active(t) /\ Active(t)' /\ ~Over(t) /\ ~Over(t)' /\ RouterFollows'
  <2>1. /\ Others(t) /\ tx'[t].outcome = o /\ tx'[t].snapshot = tx[t].snapshot
        /\ tx'[t].applied = tx[t].applied /\ tx'[t].read = tx[t].read
        /\ tx'[t].phase = IF tx[t].applied = None THEN "reading" ELSE "compensating"
    BY <1>t, <1>10, Failing DEF Keeps, AfterFailure
  <2>2. Active(t) /\ Active(t)' /\ ~Over(t) /\ ~Over(t)'
    BY <1>p, <1>10, <2>1 DEF Active, Over
  <2>3. t \in router => tx[t].applied # None
    BY <1>t, <1>p, <1>10, <2>2 DEF RouterFollows, MayBeRouted
  <2>4. RouterFollows'
    BY <1>t, <1>p, <1>10, <2>1, <2>2, <2>3, RouterKept
  <2> QED
    BY <2>1, <2>2, <2>4
<1>11. ASSUME NEW t \in Tx, PrepareFails(t) \/ PrepareDrifts(t) \/ CommitThrows(t) PROVE Goal
  <2>1. /\ \E o \in {"untouched", "restored", "left"} : Fail(t, o)
        /\ tx[t].phase \in Preparing /\ UNCHANGED <<history, deleted, router>>
    BY <1>11, <1>p DEF PrepareFails, PrepareDrifts, CommitThrows
  <2>2. PICK o \in {"untouched", "restored", "left"} : Fail(t, o)
    BY <2>1
  <2>3. t \notin history
    BY <1>p, <1>r, <1>o, <2>1
  <2> QED
    BY <1>t, <1>p, <1>10, <2>1, <2>2, <2>3, HistoryKept
<1>12. ASSUME NEW t \in Tx, RollBackThrows(t) \/ LeaveAsIs(t) PROVE Goal
  <2>1. /\ \E o \in {"left", "halfway", "overtaken"} : Fail(t, o)
        /\ tx[t].phase \in Completing /\ UNCHANGED <<history, deleted, router>>
    BY <1>12 DEF RollBackThrows, LeaveAsIs
  <2>2. PICK o \in {"left", "halfway", "overtaken"} : Fail(t, o)
    BY <2>1
  <2>3. Others(t) /\ tx'[t].outcome = o
    BY <1>p, <1>10, <2>1, <2>2
  <2>4. MayBeRecorded(t)'
    BY <2>3 DEF MayBeRecorded
  <2> QED
    BY <1>t, <1>p, <1>10, <2>1, <2>2, <2>4, HistoryKept
<1>13. ASSUME NEW t \in Tx, RollBack(t) PROVE Goal
  <2>1. /\ Fail(t, "restored") /\ tx[t].phase \in Completing /\ UNCHANGED <<deleted, router>>
        /\ history' = tx[t].snapshot.history
    BY <1>13 DEF RollBack, RestoreSnapshot
  <2>2. /\ Others(t) /\ tx'[t].outcome = "restored" /\ tx'[t].snapshot = tx[t].snapshot
        /\ tx'[t].phase \in {"reading", "compensating"} /\ RouterFollows'
        /\ Active(t) /\ ~Over(t)
    BY <1>p, <1>10, <2>1
  <2>3. history' \subseteq Tx
    BY <1>t, <2>1, <2>2 DEF Remembers, RemembersOwn, SnapshotRecord
  <2>4. \A r \in Tx \ {t} : /\ Over(r)' <=> Over(r)
                            /\ MayBeRecorded(r)' <=> MayBeRecorded(r)
                            /\ tx'[r] = tx[r] /\ ~Active(r) /\ ~Active(r)'
    BY <1>a, <2>2 DEF Others, Active, Over, MayBeRecorded
  <2>5. \A r \in Tx : /\ r \in history' => r # t /\ Over(r)' /\ MayBeRecorded(r)'
                      /\ tx'[r].phase = "saved" /\ tx'[r].outcome = "recorded"
                           => r \in history' \cup deleted
    BY <1>t, <2>1, <2>2, <2>4 DEF HistoryFollows
  <2>6. \A r \in Tx : tx'[r].phase # "recorded"
    BY <1>p, <2>2, <2>4 DEF Active
  <2>7. HistoryFollows'
    <3> SUFFICES ASSUME NEW q \in Tx
                 PROVE  /\ q \in history' => MayBeRecorded(q)'
                        /\ tx'[q].phase = "recorded" => q \in history' \cup deleted
                        /\ tx'[q].phase = "saved" /\ tx'[q].outcome = "recorded"
                             => q \in history' \cup deleted
                        /\ Active(q)' => \A r \in Tx :
                             /\ r \in tx'[q].snapshot.history => Over(r)' /\ MayBeRecorded(r)'
                             /\ tx'[r].phase = "saved" /\ tx'[r].outcome = "recorded"
                                  => r \in tx'[q].snapshot.history \cup deleted
      BY <2>1 DEF HistoryFollows
    <3>1. Active(q)' => q = t
      BY <2>4
    <3> QED
      BY <2>1, <2>2, <2>5, <2>6, <3>1
  <2> QED
    BY <2>2, <2>7
<1>14. ASSUME NEW t \in Tx, CheckRouter(t) PROVE Goal
  <2>1. /\ tx' = [tx EXCEPT ![t].phase = "restoring"] /\ tx[t].phase = "compensating"
        /\ UNCHANGED <<history, deleted, router>>
    BY <1>14 DEF CheckRouter, Proceed
  <2>2. "restoring" \in Phases
    BY DEF Phases
  <2>3. /\ Others(t) /\ tx'[t].phase = "restoring" /\ tx'[t].outcome = tx[t].outcome
        /\ tx'[t].snapshot = tx[t].snapshot
        /\ tx'[t].read = tx[t].read /\ tx'[t].applied = tx[t].applied
    BY <1>t, <2>1, <2>2, PhaseChange DEF Keeps
  <2>4. Active(t) /\ ~Over(t) /\ tx[t].applied # None
    BY <1>p, <1>r, <2>1 DEF Active, Over
  <2>5. t \in history => MayBeRecorded(t)'
    BY <1>t, <2>1, <2>3 DEF HistoryFollows, MayBeRecorded
  <2>6. HistoryFollows'
    BY <1>t, <2>1, <2>3, <2>4, <2>5, HistoryKept
  <2> QED
    BY <1>t, <2>1, <2>3, <2>4, <2>6, RouterKept
<1>15. ASSUME NEW t \in Tx, RestoreRouter(t) PROVE Goal
  <2>1. /\ tx' = [tx EXCEPT ![t].phase = "reading"] /\ tx[t].phase = "restoring"
        /\ UNCHANGED <<history, deleted>> /\ router' = tx[t].read
    BY <1>15 DEF RestoreRouter, Proceed
  <2>2. "reading" \in Phases
    BY DEF Phases
  <2>3. /\ Others(t) /\ tx'[t].phase = "reading" /\ tx'[t].outcome = tx[t].outcome
        /\ tx'[t].snapshot = tx[t].snapshot
        /\ tx'[t].read = tx[t].read /\ tx'[t].applied = tx[t].applied
    BY <1>t, <2>1, <2>2, PhaseChange DEF Keeps
  <2>4. Active(t) /\ ~Over(t) /\ tx[t].applied # None
    BY <1>p, <1>r, <2>1 DEF Active, Over
  <2>5. t \in history => MayBeRecorded(t)'
    BY <1>t, <2>1, <2>3 DEF HistoryFollows, MayBeRecorded
  <2>6. HistoryFollows'
    BY <1>t, <2>1, <2>3, <2>4, <2>5, HistoryKept
  <2>7. \A r \in Tx \ {t} : ~Active(r) /\ ~Active(r)' /\ tx'[r] = tx[r]
    BY <1>a, <2>3, <2>4 DEF Others, Active
  <2>8. \A r \in router' : r \in Tx \ {t} /\ MayBeRouted(r)'
    BY <1>t, <2>1, <2>4, <2>7 DEF RouterFollows, MayBeRouted, Over
  <2>9. RouterFollows'
    <3> SUFFICES ASSUME NEW q \in Tx
                 PROVE  /\ q \in router' =>
                             \/ MayBeRouted(q)'
                             \/ /\ tx'[q].phase \in Preparing \cup Completing
                                                      \cup {"compensating", "restoring"}
                                /\ tx'[q].applied # None
                             \/ tx'[q].phase = "reading" /\ tx'[q].reported
                        /\ tx'[q].phase = "saving" \/ (Active(q)' /\ tx'[q].applied # None)
                             => \A r \in tx'[q].read : r \in Tx /\ MayBeRouted(r)'
                        /\ tx'[q].phase \in {"preparing", "saving", "queued", "unused"}
                             => tx'[q].applied = None
      BY DEF RouterFollows
    <3>1. CASE q = t
      BY <2>1, <2>3, <2>8, <3>1
    <3>2. CASE q # t
      <4>1. tx[q].phase # "saving"
        BY <1>p, <2>7, <3>2 DEF Active
      <4> QED
        BY <1>t, <2>7, <2>8, <3>2, <4>1 DEF RouterFollows
    <3> QED
      BY <3>1, <3>2
  <2> QED
    BY <2>6, <2>9
<1>16. ASSUME NEW t \in Tx, CompensationFails(t) PROVE Goal
  <2>1. /\ tx[t].phase \in {"compensating", "restoring"}
        /\ UNCHANGED <<history, deleted, router>>
    BY <1>16 DEF CompensationFails
  <2>2. /\ Others(t) /\ tx'[t].phase = "reading" /\ tx'[t].outcome = tx[t].outcome
        /\ tx'[t].snapshot = tx[t].snapshot /\ tx'[t].reported = TRUE
        /\ tx'[t].read = tx[t].read /\ tx'[t].applied = tx[t].applied
    BY <1>t, <1>16, ReportingKeeps DEF Keeps
  <2>3. Active(t) /\ ~Over(t) /\ tx[t].applied # None
    BY <1>p, <1>r, <2>1 DEF Active, Over
  <2>4. t \in history => MayBeRecorded(t)'
    BY <1>t, <2>1, <2>2 DEF HistoryFollows, MayBeRecorded
  <2>5. HistoryFollows'
    BY <1>t, <2>1, <2>2, <2>3, <2>4, HistoryKept
  <2> QED
    BY <1>t, <2>1, <2>2, <2>3, <2>5, RouterKept
<1>17. ASSUME UNCHANGED <<tx, history, deleted, router>> PROVE Goal
  BY <1>t, <1>17 DEF HistoryFollows, RouterFollows, Active, Over, MayBeRecorded, MayBeRouted
<1>18. ASSUME NEW t \in Tx, DeleteRecord(t) PROVE Goal
  BY <1>t, <1>18 DEF DeleteRecord, HistoryFollows, RouterFollows, Active, Over,
     MayBeRecorded, MayBeRouted
<1>19. ASSUME \/ \E t \in Tx : Cancel(t) \/ LoseTarget(t)
              \/ \E d \in Scope, w \in Outside : SaveOutside(d, w)
              \/ UNCHANGED vars
       PROVE  Goal
  BY <1>17, <1>19 DEF Cancel, LoseTarget, SaveOutside, vars
<1> QED
  BY <1>1, <1>2, <1>3, <1>4, <1>5, <1>6, <1>7, <1>8, <1>9, <1>11, <1>12, <1>13, <1>14,
     <1>15, <1>16, <1>18, <1>19, StepKinds

(* Initially there are no traces to account for. *)
LEMMA InitTraces == Init => HistoryFollows /\ RouterFollows
<1> SUFFICES ASSUME Init PROVE HistoryFollows /\ RouterFollows
  OBVIOUS
<1>1. /\ \A t \in Tx : tx[t].phase = "unused" /\ tx[t].applied = None
      /\ history = {} /\ router = {}
  BY DEF Init, Fresh
<1> QED
  BY <1>1 DEF HistoryFollows, RouterFollows, Active, Preparing, Completing, Unwinding

(* In an application with one config scope, for any number of transactions *)
(* and writers past them: what a transaction leaves in the history and in  *)
(* the Router agrees with its outcome.  The hypothesis is needed: two      *)
(* scopes write both stores without a common queue.                        *)
THEOREM TracesAreTrue ==
  ASSUME NEW c, Scope = {c}
  PROVE  Spec => []TracesFollowOutcome
<1>1. Init => Traces
  BY InitTransactions, InitTraces DEF Traces
<1>2. Traces /\ [Next]_vars => Traces'
  BY TransactionsInductive, TracesInductive DEF Traces
<1>3. Traces => TracesFollowOutcome
  <2> SUFFICES ASSUME Traces, NEW t \in Tx
               PROVE  /\ tx[t].phase = "saved" /\ tx[t].outcome = "recorded"
                           => t \in history \cup deleted
                      /\ tx[t].phase = "failed" /\ tx[t].outcome = "restored"
                           => t \notin history
                      /\ tx[t].phase = "failed" /\ t \in router => tx[t].reported
    BY DEF TracesFollowOutcome
  <2>1. tx[t].phase = "failed" /\ tx[t].outcome = "restored" => ~MayBeRecorded(t)
    BY DEF MayBeRecorded
  <2>2. tx[t].phase = "failed" /\ t \in router => tx[t].reported
    BY DEF Traces, RouterFollows, MayBeRouted, Completing, Preparing
  <2> QED
    BY <2>1, <2>2 DEF Traces, HistoryFollows
<1> QED
  BY <1>1, <1>2, <1>3, PTL DEF Spec

-----------------------------------------------------------------------------
(* The replacement of the managed authorization.                           *)

(* The hypotheses of the run, here for every theorem.                      *)
Sheltered == ~MarkerlessStops /\ ~RetriedRollback

Purposes == {"none", "recover", "sweep", "login", "undo", "commit",
             "first-rollback", "final-rollback"}
InDirectory == {"mark", "move", "discard", "restore", "remove", "commit", "rollback"}
Stages == InDirectory \cup {"idle", "recover", "sweep", "begin", "done", "threw"}

OperationRecord == [at : Places, login : BOOLEAN, tx : Directory \cup {Nowhere},
                    attempt : 1..MaxAttempts]
WorkRecord == [at : Stages, for : Purposes, dir : Directory \cup {Nowhere},
               todo : SUBSET Account, visit : SUBSET Directory]
DirectoryRecord == [mark : Marks, artifacts : SUBSET Account]

Typed ==
  /\ files \subseteq Account /\ owned \subseteq Account
  /\ quarantine \in [Directory -> DirectoryRecord]
  /\ gateway \in BOOLEAN
  /\ op \in OperationRecord /\ io \in WorkRecord
  /\ faults \in 0..MaxFaults /\ crashes \in 0..MaxCrashes

(* There is one directory at most, and what its marker says of it.         *)
There(d) == quarantine[d].mark # "absent"
MarkOf(d) == quarantine[d].mark

Alone == \A d, e \in Directory : There(d) /\ There(e) => d = e

Settled == (\A d \in Directory : ~There(d)) => files = owned

Told ==
  \A d \in Directory :
    /\ MarkOf(d) \in {"preparing", "restoring", "restoring-keep"} =>
         owned = files \cup quarantine[d].artifacts
    /\ MarkOf(d) \in {"active", "discarding"} => owned = quarantine[d].artifacts
    /\ MarkOf(d) \in {"committed", "unmarked"} => files = owned
    /\ MarkOf(d) = "absent" => quarantine[d].artifacts = {}
    /\ MarkOf(d) = "unmarked" => io.at \in {"mark", "remove"} /\ io.dir = d

(* What each stage of the work on the file system is for and stands on.    *)
Aimed ==
  /\ io.at = "idle" <=> io.for = "none"
  /\ io.at = "recover" => io.for = "recover"
  /\ io.at = "sweep" => io.for = "sweep"
  /\ io.at \in {"begin", "mark", "move"} => io.for = "login"
  /\ io.at = "rollback" => io.for \in {"login", "first-rollback", "final-rollback"}
  /\ io.at = "discard" =>
       io.for \in {"recover", "login", "first-rollback", "final-rollback"}
  /\ io.at = "restore" =>
       io.for \in {"recover", "login", "first-rollback", "final-rollback", "undo"}
  /\ io.at = "commit" => io.for = "commit"
  /\ io.at = "done" => io.for # "undo"
  /\ io.at = "threw" => io.for \notin {"sweep", "first-rollback"}

Stands ==
  /\ io.at \in InDirectory => io.dir \in Directory /\ There(io.dir)
  /\ io.at = "mark" => MarkOf(io.dir) = "unmarked" /\ quarantine[io.dir].artifacts = {}
  /\ io.at = "move" => MarkOf(io.dir) = "preparing" /\ io.todo = files
  /\ io.at = "discard" => MarkOf(io.dir) = "discarding" /\ io.todo = files
  /\ io.at = "restore" => MarkOf(io.dir) \in {"preparing", "restoring", "restoring-keep"}
  /\ io.at = "remove" =>
       /\ files = owned
       /\ MarkOf(io.dir) \in {"preparing", "restoring", "restoring-keep", "committed",
                              "unmarked"}
       /\ io.for \in {"sweep", "commit"} => MarkOf(io.dir) \in {"committed", "unmarked"}
  /\ io.at \in {"commit", "rollback"} => MarkOf(io.dir) = "active"
  /\ io.at = "begin" => \A d \in Directory : ~There(d)
  /\ io.at = "threw" /\ io.for = "commit" =>
       io.dir \in Directory /\ MarkOf(io.dir) = "active"

Visits ==
  /\ io.at = "recover" => \A d \in Directory : There(d) <=> d \in io.visit
  /\ io.for = "recover" /\ io.at = "done" => \A d \in Directory : ~There(d)
  /\ io.for = "first-rollback" /\ io.at = "done" => \A d \in Directory : ~There(d)
  /\ io.at = "sweep" => \A d \in io.visit : MarkOf(d) = "committed"
  /\ io.for \in {"recover", "sweep"} /\ io.at \in {"discard", "restore", "remove"} =>
       io.visit = {io.dir}

(* The operation that works on the file system, and its transaction.       *)
Waiting == {"idle", "starting", "stopping", "preparing", "authorizing", "authorized",
            "logged-in", "checking", "launching", "launched", "ready", "failing"}

Placed ==
  /\ op.at \in Waiting => io.for \in {"none", "sweep"}
  /\ op.at = "redoing" => io.for = "first-rollback"
  /\ op.at \in {"recovering", "logout-recovering"} => io.for = "recover"
  /\ op.at \in {"beginning", "logout-beginning"} =>
       /\ io.for \in {"login", "undo"}
       /\ io.for = "login" => io.at \in {"begin", "mark", "move", "done", "threw"}
       /\ io.at = "done" => io.dir \in Directory /\ MarkOf(io.dir) = "active"
  /\ op.at = "undoing" =>
       /\ io.for = "login"
       /\ io.at \in {"rollback", "discard", "restore", "remove", "done", "threw"}
  /\ op.at \in {"committing", "logging-out"} => io.for = "commit"
  /\ op.at = "giving-up" => io.for = "final-rollback"

Without == {"idle", "stopping", "recovering", "preparing", "beginning",
            "logout-recovering", "logout-beginning", "logging-out"}

Owned ==
  /\ op.tx # Nowhere =>
       /\ op.at \notin Without
       /\ op.at \in Waiting => MarkOf(op.tx) = "active"
  /\ op.at = "committing" => op.tx # Nowhere /\ io.dir = op.tx
  /\ op.at \in {"authorizing", "authorized"} => op.tx # Nowhere
  /\ op.at = "preparing" => \A d \in Directory : ~There(d)

(* A gateway runs only where no operation exchanges files.                 *)
Apart == {"redoing", "recovering", "preparing", "beginning", "authorizing",
          "authorized", "undoing", "giving-up", "logout-recovering", "logout-beginning"}

Served ==
  gateway =>
    /\ io.for \in {"none", "sweep", "commit"}
    /\ op.at \notin Apart
    /\ op.at = "starting" => op.tx = Nowhere

IInv ==
  /\ Typed /\ Alone /\ Settled /\ Told /\ Aimed /\ Stands /\ Visits /\ Placed
  /\ Owned /\ Served

-----------------------------------------------------------------------------
(* The records an operation and its work begin with are of their types.    *)
LEMMA Untouched ==
  /\ NoOperation \in OperationRecord
  /\ NoWork \in WorkRecord
  /\ \A f \in Purposes, p \in Stages, d \in Directory \cup {Nowhere} :
       Work(f, p, d) \in WorkRecord
<1>1. 1 \in 1..MaxAttempts
  BY DEF MaxAttempts
<1>2. NoOperation \in OperationRecord
  BY <1>1 DEF NoOperation, OperationRecord, Places
<1>3. NoWork \in WorkRecord
  BY DEF NoWork, WorkRecord, Stages, Purposes, InDirectory
<1>4. \A f \in Purposes, p \in Stages, d \in Directory \cup {Nowhere} :
        Work(f, p, d) \in WorkRecord
  BY <1>3 DEF Work, NoWork, WorkRecord, Stages, Purposes, InDirectory
<1> QED
  BY <1>2, <1>3, <1>4

(* The initial states satisfy the invariant.                               *)
LEMMA InitIInv == Sheltered /\ AuthInit => IInv
<1> SUFFICES ASSUME Sheltered, AuthInit PROVE IInv
  OBVIOUS
<1>1. quarantine \in [Directory -> DirectoryRecord]
  BY DEF AuthInit, NoDirectory, DirectoryRecord, Marks
<1>2. Typed
  <2>1. files \subseteq Account /\ owned \subseteq Account
    BY Parameters DEF AuthInit
  <2>2. faults \in 0..MaxFaults /\ crashes \in 0..MaxCrashes
    BY Parameters DEF AuthInit
  <2>3. gateway \in BOOLEAN
    BY DEF AuthInit
  <2> QED
    BY <1>1, <2>1, <2>2, <2>3, Untouched DEF AuthInit, Typed
<1>3. \A d \in Directory : quarantine[d].mark = "absent"
  BY DEF AuthInit, NoDirectory
<1>4. Alone /\ Settled /\ Told
  BY <1>3 DEF AuthInit, NoDirectory, Alone, Settled, Told, There, MarkOf
<1>5. op.at = "idle" /\ op.tx = Nowhere /\ io.at = "idle" /\ io.for = "none"
  BY DEF AuthInit, NoOperation, NoWork
<1>6. Aimed /\ Stands /\ Visits
  BY <1>5 DEF Aimed, Stands, Visits, InDirectory
<1>7. Placed /\ Owned
  BY <1>5 DEF Placed, Owned, Waiting, Without
<1>8. Served
  BY DEF AuthInit, Served
<1> QED
  BY <1>2, <1>4, <1>6, <1>7, <1>8 DEF IInv

(* RecoverNext: Recovery goes on with what the marker of the directory     *)
(* asks for.                                                               *)
LEMMA RecoverNextKeeps ==
  ASSUME Sheltered, IInv, NEW d \in Directory, RecoverNext(d)
  PROVE IInv'
<1>1. Typed'
  <2>1. PICK r : r = RecoveryOf(quarantine[d].mark)
    OBVIOUS
  <2>2. r.mark \in Marks /\ r.stage \in Stages
    BY <2>1 DEF IInv, Typed, DirectoryRecord, RecoveryOf, Marks, MarkerPhases, Stages,
       InDirectory
  <2>3. quarantine' \in [Directory -> DirectoryRecord]
    BY <2>1, <2>2 DEF RecoverNext, Mark, IInv, Typed, DirectoryRecord
  <2>4. io' \in WorkRecord
    BY <2>1, <2>2 DEF RecoverNext, IInv, Typed, WorkRecord
  <2> QED
    BY <2>3, <2>4 DEF RecoverNext, InFileSystem, IInv, Typed
<1>2. (Alone /\ Settled /\ Told)'
  BY DEF RecoverNext, RecoveryOf, Mark, InFileSystem, IInv, Alone, Settled,
     Told, There, MarkOf
<1>3. (Aimed /\ Stands /\ Visits)'
  BY DEF RecoverNext, RecoveryOf, Mark, InFileSystem, IInv, Typed, Alone, Told,
     Aimed, Stands, Visits, There, MarkOf, DirectoryRecord, WorkRecord, Marks,
     MarkerPhases
<1>4. (Placed /\ Owned /\ Served)'
  BY DEF RecoverNext, RecoveryOf, Mark, InFileSystem, IInv, Aimed, Placed,
     Owned, Served, There, MarkOf
<1> QED  BY <1>1, <1>2, <1>3, <1>4 DEF IInv

(* SweepNext: A reading goes on with a committed directory.                *)
LEMMA SweepNextKeeps ==
  ASSUME Sheltered, IInv, NEW d \in Directory, SweepNext(d)
  PROVE IInv'
<1>1. Typed'
  BY DEF SweepNext, InFileSystem, IInv, Typed, WorkRecord, Stages, InDirectory
<1>2. (Alone /\ Settled /\ Told)'
  BY DEF SweepNext, InFileSystem, IInv, Alone, Settled, Told, There, MarkOf
<1>3. (Aimed /\ Stands /\ Visits)'
  BY DEF SweepNext, InFileSystem, IInv, Typed, Alone, Told, Aimed, Stands,
     Visits, There, MarkOf, WorkRecord
<1>4. (Placed /\ Owned /\ Served)'
  BY DEF SweepNext, InFileSystem, IInv, Aimed, Placed, Owned, Served, There,
     MarkOf
<1> QED  BY <1>1, <1>2, <1>3, <1>4 DEF IInv

(* MakeDirectory: The directory that is made is the only one.              *)
LEMMA MakeDirectoryKeeps ==
  ASSUME Sheltered, IInv, NEW d \in Directory, MakeDirectory(d)
  PROVE IInv'
<1>1. Typed'
  BY DEF MakeDirectory, Directories, Mark, InFileSystem, IInv, Typed,
     DirectoryRecord, WorkRecord, Stages, InDirectory, Marks, MarkerPhases
<1>2. (Alone /\ Settled /\ Told)'
  BY DEF MakeDirectory, Directories, Mark, InFileSystem, IInv, Alone, Settled,
     Told, Stands, There, MarkOf
<1>3. (Aimed /\ Stands /\ Visits)'
  BY DEF MakeDirectory, Directories, Mark, InFileSystem, IInv, Typed, Told,
     Aimed, Stands, Visits, There, MarkOf
<1>4. (Placed /\ Owned /\ Served)'
  BY DEF MakeDirectory, Directories, Mark, InFileSystem, IInv, Aimed, Placed,
     Owned, Served, Waiting
<1> QED  BY <1>1, <1>2, <1>3, <1>4 DEF IInv

(* Discard: A file a rollback discards is none of the owned ones, which    *)
(* are in the directory.                                                   *)
LEMMA DiscardKeeps ==
  ASSUME Sheltered, IInv, NEW a \in Account, Discard(a)
  PROVE IInv'
<1>1. Typed'
  BY DEF Discard, InFileSystem, IInv, Typed, WorkRecord
<1>2. (Alone /\ Settled /\ Told)'
  BY DEF Discard, InFileSystem, IInv, Alone, Settled, Told, Stands, There,
     MarkOf, InDirectory
<1>3. (Aimed /\ Stands /\ Visits)'
  BY DEF Discard, InFileSystem, IInv, Aimed, Stands, Visits, There, MarkOf
<1>4. (Placed /\ Owned /\ Served)'
  BY DEF Discard, InFileSystem, IInv, Placed, Owned, Served, There, MarkOf
<1> QED  BY <1>1, <1>2, <1>3, <1>4 DEF IInv

(* Restore: A file that comes back is still one of the owned ones.         *)
LEMMA RestoreKeeps ==
  ASSUME Sheltered, IInv, NEW a \in Account, Restore(a)
  PROVE IInv'
<1>1. Typed'
  BY DEF Restore, InFileSystem, IInv, Typed, DirectoryRecord
<1>2. (Alone /\ Settled /\ Told)'
  BY DEF Restore, InFileSystem, IInv, Alone, Settled, Told, Stands, There,
     MarkOf, InDirectory
<1>3. (Aimed /\ Stands /\ Visits)'
  BY DEF Restore, InFileSystem, IInv, Aimed, Stands, Visits, There, MarkOf
<1>4. (Placed /\ Owned /\ Served)'
  BY DEF Restore, InFileSystem, IInv, Placed, Owned, Served, There, MarkOf
<1> QED  BY <1>1, <1>2, <1>3, <1>4 DEF IInv

(* UnlinkArtifact: An artifact is unlinked only while the files are the    *)
(* owned ones.                                                             *)
LEMMA UnlinkArtifactKeeps ==
  ASSUME Sheltered, IInv, NEW a \in Account, UnlinkArtifact(a)
  PROVE IInv'
<1>1. Typed'
  BY DEF UnlinkArtifact, InFileSystem, IInv, Typed, DirectoryRecord
<1>2. (Alone /\ Settled /\ Told)'
  BY DEF UnlinkArtifact, InFileSystem, IInv, Alone, Settled, Told, Stands,
     There, MarkOf
<1>3. (Aimed /\ Stands /\ Visits)'
  BY DEF UnlinkArtifact, InFileSystem, IInv, Aimed, Stands, Visits, There,
     MarkOf
<1>4. (Placed /\ Owned /\ Served)'
  BY DEF UnlinkArtifact, InFileSystem, IInv, Placed, Owned, Served, There,
     MarkOf
<1> QED  BY <1>1, <1>2, <1>3, <1>4 DEF IInv

(* Move: A file that is moved is still one of the owned ones.              *)
LEMMA MoveKeeps ==
  ASSUME Sheltered, IInv, NEW a \in Account, Move(a)
  PROVE IInv'
<1>1. Typed'
  BY DEF Move, InFileSystem, IInv, Typed, DirectoryRecord, WorkRecord
<1>2. (Alone /\ Settled /\ Told)'
  BY DEF Move, InFileSystem, IInv, Typed, Alone, Settled, Told, Stands, There,
     MarkOf, InDirectory
<1>3. (Aimed /\ Stands /\ Visits)'
  BY DEF Move, InFileSystem, IInv, Aimed, Stands, Visits, There, MarkOf
<1>4. (Placed /\ Owned /\ Served)'
  BY DEF Move, InFileSystem, IInv, Placed, Owned, Served, There, MarkOf
<1> QED  BY <1>1, <1>2, <1>3, <1>4 DEF IInv

(* RecoverDone: Recovery and readings end when every directory has been    *)
(* visited.                                                                *)
LEMMA RecoverDoneKeeps ==
  ASSUME Sheltered, IInv, RecoverDone
  PROVE IInv'
<1>1. Typed'
  BY DEF RecoverDone, Go, InFileSystem, IInv, Typed, WorkRecord, Stages
<1>2. (Alone /\ Settled /\ Told)'
  BY DEF RecoverDone, Go, InFileSystem, IInv, Alone, Settled, Told, There,
     MarkOf
<1>3. (Aimed /\ Stands /\ Visits)'
  BY DEF RecoverDone, Go, InFileSystem, IInv, Aimed, Stands, Visits, There,
     MarkOf, InDirectory
<1>4. (Placed /\ Owned /\ Served)'
  BY DEF RecoverDone, Go, InFileSystem, IInv, Aimed, Placed, Owned, Served,
     There, MarkOf
<1> QED  BY <1>1, <1>2, <1>3, <1>4 DEF IInv

(* RollBackFiles: A rollback begins with an active directory, which holds the   *)
(* owned files.                                                            *)
LEMMA RollBackKeeps ==
  ASSUME Sheltered, IInv, RollBackFiles
  PROVE IInv'
<1>1. Typed'
  <2>1. io.at = "rollback" /\ io \in WorkRecord /\ files \subseteq Account
        /\ quarantine \in [Directory -> DirectoryRecord]
    BY DEF RollBackFiles, IInv, Typed
  <2>2. io' \in WorkRecord
    <3>1. io' = [io EXCEPT !.at = "discard", !.todo = files]
      BY DEF RollBackFiles
    <3> QED
      BY <2>1, <3>1 DEF WorkRecord, Stages, InDirectory
  <2>3. io.dir \in Directory /\ MarkOf(io.dir) = "active"
    BY <2>1 DEF IInv, Stands, InDirectory
  <2>4. PICK d : d = [quarantine[io.dir] EXCEPT !.mark = "discarding"]
    OBVIOUS
  <2>5. d \in DirectoryRecord
    BY <2>1, <2>3, <2>4 DEF DirectoryRecord, Marks, MarkerPhases
  <2>6. quarantine' = [quarantine EXCEPT ![io.dir] = d]
    BY <2>3, <2>4 DEF RollBackFiles, Mark, MarkOf
  <2>7. quarantine' \in [Directory -> DirectoryRecord]
    BY <2>1, <2>5, <2>6
  <2> QED
    BY <2>2, <2>7 DEF RollBackFiles, InFileSystem, IInv, Typed
<1>2. (Alone /\ Settled /\ Told)'
  BY DEF RollBackFiles, Mark, InFileSystem, IInv, Alone, Settled, Told, There, MarkOf
<1>3. (Aimed /\ Stands /\ Visits)'
  BY DEF RollBackFiles, Mark, InFileSystem, IInv, Typed, Aimed, Stands, Visits,
     There, MarkOf, InDirectory
<1>4. (Placed /\ Owned /\ Served)'
  BY DEF RollBackFiles, Mark, InFileSystem, IInv, Aimed, Placed, Owned, Served,
     There, MarkOf
<1> QED  BY <1>1, <1>2, <1>3, <1>4 DEF IInv

(* Discarded: When all is discarded the owned files are the artifacts, all *)
(* to be restored.                                                         *)
LEMMA DiscardedKeeps ==
  ASSUME Sheltered, IInv, Discarded
  PROVE IInv'
<1>1. Typed'
  BY DEF Discarded, Mark, Go, InFileSystem, IInv, Typed, Stands,
     DirectoryRecord, WorkRecord, Stages, InDirectory, Marks, MarkerPhases
<1>2. (Alone /\ Settled /\ Told)'
  BY DEF Discarded, Mark, Go, InFileSystem, IInv, Alone, Settled, Told, Stands,
     There, MarkOf
<1>3. (Aimed /\ Stands /\ Visits)'
  BY DEF Discarded, Mark, Go, InFileSystem, IInv, Typed, Aimed, Stands, Visits,
     There, MarkOf, InDirectory
<1>4. (Placed /\ Owned /\ Served)'
  BY DEF Discarded, Mark, Go, InFileSystem, IInv, Placed, Owned, Served, There,
     MarkOf
<1> QED  BY <1>1, <1>2, <1>3, <1>4 DEF IInv

(* Restored: When all is restored the files are the owned ones.            *)
LEMMA RestoredKeeps ==
  ASSUME Sheltered, IInv, Restored
  PROVE IInv'
<1>1. Typed'
  BY DEF Restored, Go, InFileSystem, IInv, Typed, WorkRecord, Stages,
     InDirectory
<1>2. (Alone /\ Settled /\ Told)'
  BY DEF Restored, Go, InFileSystem, IInv, Alone, Settled, Told, There, MarkOf
<1>3. (Aimed /\ Stands /\ Visits)'
  <2>1. files = owned
    <3>1. owned = files \cup quarantine[io.dir].artifacts
      BY DEF Restored, IInv, Told, Stands, InDirectory
    <3>2. quarantine[io.dir].artifacts = {}
      BY DEF Restored
    <3> QED
      BY <3>1, <3>2
  <2>2. io' = [io EXCEPT !.at = "remove"] /\ UNCHANGED <<files, quarantine, owned>>
    BY DEF Restored, Go
  <2>3. io.at = "restore"
    BY DEF Restored
  <2>4. Aimed'
    BY <2>2, <2>3 DEF IInv, Typed, WorkRecord, Aimed
  <2>5. Stands'
    BY <2>1, <2>2, <2>3 DEF IInv, Typed, WorkRecord, Aimed, Stands, InDirectory, There,
       MarkOf
  <2>6. Visits'
    BY <2>2, <2>3 DEF IInv, Typed, WorkRecord, Visits
  <2> QED
    BY <2>4, <2>5, <2>6
<1>4. (Placed /\ Owned /\ Served)'
  BY DEF Restored, Go, InFileSystem, IInv, Placed, Owned, Served, There, MarkOf
<1> QED  BY <1>1, <1>2, <1>3, <1>4 DEF IInv

(* UnlinkMarker: The marker goes only while the files are the owned ones.  *)
LEMMA UnlinkMarkerKeeps ==
  ASSUME Sheltered, IInv, UnlinkMarker
  PROVE IInv'
<1>1. Typed'
  BY DEF UnlinkMarker, Mark, InFileSystem, IInv, Typed, DirectoryRecord,
     InDirectory, Marks, MarkerPhases
<1>2. (Alone /\ Settled /\ Told)'
  BY DEF UnlinkMarker, Mark, InFileSystem, IInv, Alone, Settled, Told, Stands,
     There, MarkOf
<1>3. (Aimed /\ Stands /\ Visits)'
  BY DEF UnlinkMarker, Mark, InFileSystem, IInv, Aimed, Stands, Visits, There,
     MarkOf
<1>4. (Placed /\ Owned /\ Served)'
  BY DEF UnlinkMarker, Mark, InFileSystem, IInv, Stands, Placed, Owned, Served,
     There, MarkOf
<1> QED  BY <1>1, <1>2, <1>3, <1>4 DEF IInv

(* RemoveDirectory: Without a directory the files are the owned ones.      *)
LEMMA RemoveDirectoryKeeps ==
  ASSUME Sheltered, IInv, RemoveDirectory
  PROVE IInv'
<1>1. Typed'
  BY DEF RemoveDirectory, NoDirectory, AfterDirectory, NoWork, InFileSystem,
     IInv, Typed, DirectoryRecord, WorkRecord, Stages, Marks, MarkerPhases
<1>2. (Alone /\ Settled /\ Told)'
  BY DEF RemoveDirectory, NoDirectory, AfterDirectory, NoWork, InFileSystem,
     IInv, Typed, Alone, Settled, Told, There, MarkOf
<1>3. (Aimed /\ Stands /\ Visits)'
  BY DEF RemoveDirectory, NoDirectory, AfterDirectory, NoWork, InFileSystem,
     IInv, Typed, Alone, Aimed, Stands, Visits, There, MarkOf, InDirectory
<1>4. (Placed /\ Owned /\ Served)'
  BY DEF RemoveDirectory, NoDirectory, AfterDirectory, NoWork, InFileSystem,
     IInv, Placed, Owned, Served, There, MarkOf
<1> QED  BY <1>1, <1>2, <1>3, <1>4 DEF IInv

(* WriteMarker: The first marker says that no file has been moved yet.     *)
LEMMA WriteMarkerKeeps ==
  ASSUME Sheltered, IInv, WriteMarker
  PROVE IInv'
<1>1. Typed'
  BY DEF WriteMarker, Mark, InFileSystem, IInv, Typed, DirectoryRecord,
     WorkRecord, Stages, InDirectory, Purposes, Marks, MarkerPhases
<1>2. (Alone /\ Settled /\ Told)'
  BY DEF WriteMarker, Mark, InFileSystem, IInv, Typed, Alone, Settled, Told,
     Stands, There, MarkOf
<1>3. (Aimed /\ Stands /\ Visits)'
  BY DEF WriteMarker, Mark, InFileSystem, IInv, Typed, Aimed, Stands, Visits,
     There, MarkOf, InDirectory
<1>4. (Placed /\ Owned /\ Served)'
  BY DEF WriteMarker, Mark, InFileSystem, IInv, Stands, Placed, Owned, Served,
     There, MarkOf
<1> QED  BY <1>1, <1>2, <1>3, <1>4 DEF IInv

(* Activate: When all is moved the artifacts are the owned files.          *)
LEMMA ActivateKeeps ==
  ASSUME Sheltered, IInv, Activate
  PROVE IInv'
<1>1. Typed'
  BY DEF Activate, Mark, Go, InFileSystem, IInv, Typed, DirectoryRecord,
     WorkRecord, Stages, Marks, MarkerPhases
<1>2. (Alone /\ Settled /\ Told)'
  <2>1. io.dir \in Directory /\ MarkOf(io.dir) = "preparing" /\ files = {}
    BY DEF Activate, IInv, Stands, InDirectory
  <2>2. owned = quarantine[io.dir].artifacts
    BY <2>1 DEF IInv, Told
  <2>3. quarantine' = [quarantine EXCEPT ![io.dir].mark = "active"]
        /\ UNCHANGED <<files, owned>>
    BY DEF Activate, Mark
  <2>4. \A d \in Directory : d # io.dir => ~There(d)
    BY <2>1 DEF IInv, Alone, There, MarkOf
  <2> QED
    BY <2>1, <2>2, <2>3, <2>4 DEF IInv, Typed, DirectoryRecord, Alone, Settled, Told,
       There, MarkOf
<1>3. (Aimed /\ Stands /\ Visits)'
  BY DEF Activate, Mark, Go, InFileSystem, IInv, Aimed, Stands, Visits,
     InDirectory
<1>4. (Placed /\ Owned /\ Served)'
  BY DEF Activate, Mark, Go, InFileSystem, IInv, Typed, Stands, Placed, Owned,
     Served, MarkOf, InDirectory
<1> QED  BY <1>1, <1>2, <1>3, <1>4 DEF IInv

(* MarkCommitted: A commit makes the files the owned ones.                        *)
LEMMA CommitKeeps ==
  ASSUME Sheltered, IInv, MarkCommitted
  PROVE IInv'
<1>1. Typed'
  BY DEF MarkCommitted, Mark, Go, InFileSystem, IInv, Typed, DirectoryRecord,
     WorkRecord, Stages, InDirectory, Marks, MarkerPhases
<1>2. (Alone /\ Settled /\ Told)'
  BY DEF MarkCommitted, Mark, Go, InFileSystem, IInv, Typed, Alone, Settled, Told,
     Stands, There, MarkOf, InDirectory
<1>3. (Aimed /\ Stands /\ Visits)'
  BY DEF MarkCommitted, Mark, Go, InFileSystem, IInv, Typed, Aimed, Stands, Visits,
     There, MarkOf, InDirectory
<1>4. (Placed /\ Owned /\ Served)'
  BY DEF MarkCommitted, Mark, Go, InFileSystem, IInv, Aimed, Stands, Placed, Owned,
     Served, There, MarkOf
<1> QED  BY <1>1, <1>2, <1>3, <1>4 DEF IInv

(* FileSystemFails: A failing call leaves the directory as its marker      *)
(* says.                                                                   *)
LEMMA FileSystemFailsKeeps ==
  ASSUME Sheltered, IInv, FileSystemFails
  PROVE IInv'
<1>1. Typed'
  <2>1. faults' \in 0..MaxFaults
    BY Parameters DEF FileSystemFails, IInv, Typed
  <2>2. io' \in WorkRecord
    BY DEF FileSystemFails, AfterDirectory, NoWork, IInv, Typed, WorkRecord, Stages,
       InDirectory, Purposes
  <2> QED
    BY <2>1, <2>2 DEF FileSystemFails, IInv, Typed
<1>2. (Alone /\ Settled /\ Told)'
  BY DEF FileSystemFails, Directories, AfterDirectory, NoWork, Sheltered, IInv,
     Alone, Settled, Told, There, MarkOf
<1>3. (Aimed /\ Stands /\ Visits)'
  BY DEF FileSystemFails, Directories, AfterDirectory, NoWork, Sheltered, IInv,
     Typed, Aimed, Stands, Visits, Placed, There, MarkOf, Waiting, Places,
     OperationRecord, WorkRecord, Stages, InDirectory
<1>4. (Placed /\ Owned /\ Served)'
  BY DEF FileSystemFails, Directories, AfterDirectory, NoWork, IInv, Aimed,
     Placed, Owned, Served, There, MarkOf
<1> QED  BY <1>1, <1>2, <1>3, <1>4 DEF IInv

(* BeforeStart: An attempt rolls the transaction of an earlier one back,   *)
(* which no gateway reads.                                                 *)
LEMMA BeforeStartKeeps ==
  ASSUME Sheltered, IInv, BeforeStart
  PROVE IInv'
<1>1. Typed'
  BY DEF BeforeStart, At, ProceedTo, Work, NoWork, OutsideFiles, IInv, Typed,
     WorkRecord, Stages, InDirectory, Purposes, OperationRecord, Places
<1>2. (Alone /\ Settled /\ Told)'
  BY DEF BeforeStart, At, ProceedTo, Work, NoWork, OutsideFiles, IInv, Alone,
     Settled, Told, There, MarkOf
<1>3. (Aimed /\ Stands /\ Visits)'
  <2>1. UNCHANGED <<files, quarantine, owned>> /\ io.at = "idle"
    BY DEF BeforeStart, At, OutsideFiles
  <2>2. CASE op.tx # Nowhere /\ io' = Work("first-rollback", "rollback", op.tx)
    <3>1. /\ io'.at = "rollback" /\ io'.for = "first-rollback"
          /\ io'.dir = op.tx /\ io'.visit = {}
      BY <2>2 DEF Work, NoWork
    <3>2. op.tx \in Directory /\ MarkOf(op.tx) = "active"
      BY <2>2 DEF BeforeStart, At, IInv, Typed, OperationRecord, Owned, Waiting
    <3> QED
      BY <2>1, <3>1, <3>2 DEF Aimed, Stands, Visits, InDirectory, There, MarkOf
  <2>3. CASE UNCHANGED io
    BY <2>1, <2>3 DEF IInv, Aimed, Stands, Visits, There, MarkOf
  <2> QED
    BY <2>2, <2>3 DEF BeforeStart
<1>4. (Placed /\ Owned /\ Served)'
  <2>1. UNCHANGED <<quarantine, gateway>> /\ op.at = "starting" /\ io.at = "idle"
    BY DEF BeforeStart, At, OutsideFiles
  <2>2. ASSUME op.tx # Nowhere, io' = Work("first-rollback", "rollback", op.tx),
               ProceedTo("redoing")
        PROVE  (Placed /\ Owned /\ Served)'
    <3>1. io'.for = "first-rollback" /\ op'.at = "redoing" /\ op'.tx = op.tx
      BY <2>2 DEF Work, NoWork, ProceedTo, IInv, Typed, OperationRecord
    <3>2. ~gateway
      BY <2>1, <2>2 DEF IInv, Served
    <3> QED
      BY <2>1, <3>1, <3>2 DEF Placed, Owned, Served, Waiting, Without
  <2>3. ASSUME UNCHANGED io, NEW p \in {"stopping", "checking"}, ProceedTo(p),
               p = "stopping" => op.tx = Nowhere
        PROVE  (Placed /\ Owned /\ Served)'
    <3>1. op'.at = p /\ op'.tx = op.tx
      BY <2>3 DEF ProceedTo, IInv, Typed, OperationRecord
    <3>2. Placed' /\ Owned'
      BY <2>1, <2>3, <3>1 DEF IInv, Placed, Owned, Waiting, Without, MarkOf
    <3>3. Served'
      BY <2>1, <2>3, <3>1 DEF IInv, Served, Apart
    <3> QED
      BY <3>2, <3>3
  <2> QED
    BY <2>2, <2>3 DEF BeforeStart
<1> QED  BY <1>1, <1>2, <1>3, <1>4 DEF IInv

(* Redone: The rollback before an attempt leaves no transaction.           *)
LEMMA RedoneKeeps ==
  ASSUME Sheltered, IInv, Redone
  PROVE IInv'
<1>1. Typed'
  BY DEF Redone, Finished, NoWork, OutsideFiles, IInv, Typed, WorkRecord,
     Stages, Purposes, OperationRecord, Places
<1>2. (Alone /\ Settled /\ Told)'
  BY DEF Redone, Finished, NoWork, OutsideFiles, IInv, Alone, Settled, Told,
     There, MarkOf
<1>3. (Aimed /\ Stands /\ Visits)'
  BY DEF Redone, Finished, NoWork, OutsideFiles, IInv, Aimed, Stands, Visits,
     InDirectory
<1>4. (Placed /\ Owned /\ Served)'
  BY DEF Redone, Finished, NoWork, OutsideFiles, IInv, Aimed, Placed, Owned,
     Served
<1> QED  BY <1>1, <1>2, <1>3, <1>4 DEF IInv

(* StopForLogin: A login stops the gateway and recovers every directory.   *)
LEMMA StopForLoginKeeps ==
  ASSUME Sheltered, IInv, StopForLogin
  PROVE IInv'
<1>1. Typed'
  BY DEF StopForLogin, Directories, At, ProceedTo, NoWork, OutsideFiles, IInv,
     Typed, WorkRecord, Stages, Purposes, OperationRecord, Places
<1>2. (Alone /\ Settled /\ Told)'
  BY DEF StopForLogin, Directories, At, ProceedTo, NoWork, OutsideFiles, IInv,
     Alone, Settled, Told, There, MarkOf
<1>3. (Aimed /\ Stands /\ Visits)'
  BY DEF StopForLogin, Directories, At, ProceedTo, NoWork, OutsideFiles, IInv,
     Aimed, Stands, Visits, There, MarkOf, InDirectory
<1>4. (Placed /\ Owned /\ Served)'
  BY DEF StopForLogin, Directories, At, ProceedTo, NoWork, OutsideFiles, IInv,
     Placed, Owned, Served, Waiting, Without
<1> QED  BY <1>1, <1>2, <1>3, <1>4 DEF IInv

(* Recovered: A login is prepared only where no directory is left.         *)
LEMMA RecoveredKeeps ==
  ASSUME Sheltered, IInv, Recovered
  PROVE IInv'
<1>1. Typed'
  BY DEF Recovered, Finished, ProceedTo, NoWork, OutsideFiles, IInv, Typed,
     WorkRecord, Stages, Purposes, OperationRecord, Places
<1>2. (Alone /\ Settled /\ Told)'
  BY DEF Recovered, Finished, ProceedTo, NoWork, OutsideFiles, IInv, Alone,
     Settled, Told, There, MarkOf
<1>3. (Aimed /\ Stands /\ Visits)'
  BY DEF Recovered, Finished, ProceedTo, NoWork, OutsideFiles, IInv, Aimed,
     Stands, Visits, InDirectory
<1>4. (Placed /\ Owned /\ Served)'
  BY DEF Recovered, Finished, ProceedTo, NoWork, OutsideFiles, IInv, Visits,
     Placed, Owned, Served, There, MarkOf, Without
<1> QED  BY <1>1, <1>2, <1>3, <1>4 DEF IInv

(* BeginLogin: A login begins where no directory is.                       *)
LEMMA BeginLoginKeeps ==
  ASSUME Sheltered, IInv, BeginLogin
  PROVE IInv'
<1>1. Typed'
  BY DEF BeginLogin, At, ProceedTo, Work, NoWork, OutsideFiles, IInv, Typed,
     WorkRecord, Stages, Purposes, OperationRecord, Places
<1>2. (Alone /\ Settled /\ Told)'
  BY DEF BeginLogin, At, ProceedTo, Work, NoWork, OutsideFiles, IInv, Alone,
     Settled, Told, There, MarkOf
<1>3. (Aimed /\ Stands /\ Visits)'
  BY DEF BeginLogin, At, ProceedTo, Work, NoWork, OutsideFiles, IInv, Aimed,
     Stands, Visits, Owned, There, MarkOf, InDirectory
<1>4. (Placed /\ Owned /\ Served)'
  BY DEF BeginLogin, At, ProceedTo, Work, NoWork, OutsideFiles, IInv, Placed,
     Owned, Served, Waiting, Without, Apart
<1> QED  BY <1>1, <1>2, <1>3, <1>4 DEF IInv

(* Begun: A login that has begun has an active transaction.                *)
LEMMA BegunKeeps ==
  ASSUME Sheltered, IInv, Begun
  PROVE IInv'
<1>1. Typed'
  BY DEF Begun, Finished, NoWork, OutsideFiles, IInv, Typed, WorkRecord, Stages,
     Purposes, OperationRecord, Places
<1>2. (Alone /\ Settled /\ Told)'
  BY DEF Begun, Finished, NoWork, OutsideFiles, IInv, Alone, Settled, Told,
     There, MarkOf
<1>3. (Aimed /\ Stands /\ Visits)'
  BY DEF Begun, Finished, NoWork, OutsideFiles, IInv, Aimed, Stands, Visits,
     InDirectory
<1>4. (Placed /\ Owned /\ Served)'
  <2>1. UNCHANGED quarantine /\ UNCHANGED gateway /\ op.at = "beginning"
    BY DEF Begun, OutsideFiles
  <2>2. ~gateway /\ op.tx = Nowhere
    BY <2>1 DEF IInv, Owned, Served, Apart, Without
  <2>3. io'.for = "none"
    BY DEF Begun, NoWork
  <2>4. CASE io.at = "done"
    <3>1. op'.at = "authorizing" /\ op'.tx = io.dir
      BY <2>4 DEF Begun, IInv, Typed, OperationRecord
    <3>2. io.dir \in Directory /\ MarkOf(io.dir) = "active"
      BY <2>1, <2>4 DEF IInv, Placed
    <3>3. io.dir # Nowhere
      BY <3>2, Parameters
    <3> QED
      BY <2>1, <2>2, <2>3, <3>1, <3>2, <3>3 DEF Placed, Owned, Served, Waiting,
         Without, MarkOf
  <2>5. CASE io.at # "done"
    <3>1. op'.at = "failing" /\ op'.tx = Nowhere
      BY <2>2, <2>5 DEF Begun, IInv, Typed, OperationRecord
    <3> QED
      BY <2>1, <2>2, <2>3, <3>1 DEF Placed, Owned, Served, Waiting, Without
  <2> QED
    BY <2>4, <2>5
<1> QED  BY <1>1, <1>2, <1>3, <1>4 DEF IInv

(* Authorize: The new file comes while the owned ones are in the           *)
(* directory.                                                              *)
LEMMA AuthorizeKeeps ==
  ASSUME Sheltered, IInv, NEW a \in Account, Authorize(a)
  PROVE IInv'
<1>1. Typed'
  BY DEF Authorize, At, ProceedTo, IInv, Typed, OperationRecord, Places
<1>2. (Alone /\ Settled /\ Told)'
  <2>1. op.tx \in Directory /\ MarkOf(op.tx) = "active" /\ io.at = "idle"
    BY DEF Authorize, At, IInv, Typed, OperationRecord, Owned, Waiting
  <2>2. UNCHANGED <<quarantine, io, owned>>
    BY DEF Authorize
  <2>3. There(op.tx) /\ \A d \in Directory : d # op.tx => ~There(d)
    BY <2>1 DEF IInv, Alone, There, MarkOf
  <2>4. (Alone /\ Settled)'
    BY <2>1, <2>2, <2>3 DEF IInv, Alone, Settled, There
  <2>5. Told'
    BY <2>1, <2>2, <2>3 DEF IInv, Told, There, MarkOf
  <2> QED
    BY <2>4, <2>5
<1>3. (Aimed /\ Stands /\ Visits)'
  BY DEF Authorize, At, ProceedTo, IInv, Aimed, Stands, Visits, There, MarkOf
<1>4. (Placed /\ Owned /\ Served)'
  BY DEF Authorize, At, ProceedTo, IInv, Placed, Owned, Served, MarkOf, Waiting,
     Without, Apart
<1> QED  BY <1>1, <1>2, <1>3, <1>4 DEF IInv

(* LoggedIn: A login that wrote one file keeps its transaction.            *)
LEMMA LoggedInKeeps ==
  ASSUME Sheltered, IInv, LoggedIn
  PROVE IInv'
<1>1. Typed'
  BY DEF LoggedIn, At, ProceedTo, OutsideFiles, IInv, Typed, OperationRecord,
     Places
<1>2. (Alone /\ Settled /\ Told)'
  BY DEF LoggedIn, At, ProceedTo, OutsideFiles, IInv, Alone, Settled, Told, There,
     MarkOf
<1>3. (Aimed /\ Stands /\ Visits)'
  BY DEF LoggedIn, At, ProceedTo, OutsideFiles, IInv, Aimed, Stands, Visits,
     There, MarkOf
<1>4. (Placed /\ Owned /\ Served)'
  BY DEF LoggedIn, At, ProceedTo, OutsideFiles, IInv, Placed, Owned, Served,
     MarkOf, Waiting, Without, Apart
<1> QED  BY <1>1, <1>2, <1>3, <1>4 DEF IInv

(* LoginFails: A login that failed rolls its active transaction back.      *)
LEMMA LoginFailsKeeps ==
  ASSUME Sheltered, IInv, LoginFails
  PROVE IInv'
<1>1. Typed'
  BY DEF LoginFails, At, ProceedTo, Work, NoWork, OutsideFiles, IInv, Typed,
     WorkRecord, Stages, InDirectory, Purposes, OperationRecord, Places
<1>2. (Alone /\ Settled /\ Told)'
  BY DEF LoginFails, At, ProceedTo, Work, NoWork, OutsideFiles, IInv, Alone,
     Settled, Told, There, MarkOf
<1>3. (Aimed /\ Stands /\ Visits)'
  BY DEF LoginFails, At, ProceedTo, Work, NoWork, OutsideFiles, IInv, Typed,
     Aimed, Stands, Visits, Owned, There, MarkOf, Waiting, OperationRecord
<1>4. (Placed /\ Owned /\ Served)'
  BY DEF LoginFails, At, ProceedTo, Work, NoWork, OutsideFiles, IInv, Placed,
     Owned, Served, Waiting, Without, Apart
<1> QED  BY <1>1, <1>2, <1>3, <1>4 DEF IInv

(* LoginUndone: A login that was rolled back has no transaction.           *)
LEMMA LoginUndoneKeeps ==
  ASSUME Sheltered, IInv, LoginUndone
  PROVE IInv'
<1>1. Typed'
  BY DEF LoginUndone, Finished, NoWork, OutsideFiles, IInv, Typed, WorkRecord,
     Stages, Purposes, OperationRecord, Places
<1>2. (Alone /\ Settled /\ Told)'
  BY DEF LoginUndone, Finished, NoWork, OutsideFiles, IInv, Alone, Settled,
     Told, There, MarkOf
<1>3. (Aimed /\ Stands /\ Visits)'
  BY DEF LoginUndone, Finished, NoWork, OutsideFiles, IInv, Aimed, Stands,
     Visits, InDirectory
<1>4. (Placed /\ Owned /\ Served)'
  BY DEF LoginUndone, Finished, NoWork, OutsideFiles, IInv, Placed, Owned,
     Served
<1> QED  BY <1>1, <1>2, <1>3, <1>4 DEF IInv

(* LoginStands: A login that stands keeps its transaction.                 *)
LEMMA LoginStandsKeeps ==
  ASSUME Sheltered, IInv, LoginStands
  PROVE IInv'
<1>1. Typed'
  BY DEF LoginStands, At, OutsideFiles, IInv, Typed, OperationRecord, Places
<1>2. (Alone /\ Settled /\ Told)'
  BY DEF LoginStands, At, OutsideFiles, IInv, Alone, Settled, Told, There,
     MarkOf
<1>3. (Aimed /\ Stands /\ Visits)'
  BY DEF LoginStands, At, OutsideFiles, IInv, Aimed, Stands, Visits, There,
     MarkOf
<1>4. (Placed /\ Owned /\ Served)'
  BY DEF LoginStands, At, OutsideFiles, IInv, Placed, Owned, Served, MarkOf,
     Waiting, Without, Apart
<1> QED  BY <1>1, <1>2, <1>3, <1>4 DEF IInv

(* Check: A gateway is launched with the transaction it was checked with.  *)
LEMMA CheckKeeps ==
  ASSUME Sheltered, IInv, Check
  PROVE IInv'
<1>1. Typed'
  BY DEF Check, At, ProceedTo, OutsideFiles, IInv, Typed, OperationRecord, Places
<1>2. (Alone /\ Settled /\ Told)'
  BY DEF Check, At, ProceedTo, OutsideFiles, IInv, Alone, Settled, Told, There,
     MarkOf
<1>3. (Aimed /\ Stands /\ Visits)'
  BY DEF Check, At, ProceedTo, OutsideFiles, IInv, Aimed, Stands, Visits, There,
     MarkOf
<1>4. (Placed /\ Owned /\ Served)'
  BY DEF Check, At, ProceedTo, OutsideFiles, IInv, Placed, Owned, Served, MarkOf,
     Waiting, Without, Apart
<1> QED  BY <1>1, <1>2, <1>3, <1>4 DEF IInv

(* Launch: A gateway is launched where no operation exchanges files.       *)
LEMMA LaunchKeeps ==
  ASSUME Sheltered, IInv, Launch
  PROVE IInv'
<1>1. Typed'
  BY DEF Launch, At, ProceedTo, OutsideFiles, IInv, Typed, OperationRecord, Places
<1>2. (Alone /\ Settled /\ Told)'
  BY DEF Launch, At, ProceedTo, OutsideFiles, IInv, Alone, Settled, Told, There,
     MarkOf
<1>3. (Aimed /\ Stands /\ Visits)'
  BY DEF Launch, At, ProceedTo, OutsideFiles, IInv, Aimed, Stands, Visits, There,
     MarkOf
<1>4. (Placed /\ Owned /\ Served)'
  BY DEF Launch, At, ProceedTo, OutsideFiles, IInv, Placed, Owned, Served, MarkOf,
     Waiting, Without, Apart
<1> QED  BY <1>1, <1>2, <1>3, <1>4 DEF IInv

(* Ready: A gateway is ready with the transaction it was launched with.    *)
LEMMA ReadyKeeps ==
  ASSUME Sheltered, IInv, Ready
  PROVE IInv'
<1>1. Typed'
  BY DEF Ready, At, ProceedTo, OutsideFiles, IInv, Typed, OperationRecord, Places
<1>2. (Alone /\ Settled /\ Told)'
  BY DEF Ready, At, ProceedTo, OutsideFiles, IInv, Alone, Settled, Told, There,
     MarkOf
<1>3. (Aimed /\ Stands /\ Visits)'
  BY DEF Ready, At, ProceedTo, OutsideFiles, IInv, Aimed, Stands, Visits, There,
     MarkOf
<1>4. (Placed /\ Owned /\ Served)'
  BY DEF Ready, At, ProceedTo, OutsideFiles, IInv, Placed, Owned, Served, MarkOf,
     Waiting, Without, Apart
<1> QED  BY <1>1, <1>2, <1>3, <1>4 DEF IInv

(* FinishSetup: A setup commits the active transaction, if there is one.   *)
LEMMA FinishSetupKeeps ==
  ASSUME Sheltered, IInv, FinishSetup
  PROVE IInv'
<1>1. Typed'
  <2>1. CASE op.tx = Nowhere
    BY <2>1, Untouched DEF FinishSetup, Idle, IInv, Typed, OutsideFiles
  <2>2. CASE op.tx # Nowhere
    <3>1. io' \in WorkRecord
      BY <2>2, Untouched DEF FinishSetup, IInv, Typed, OperationRecord, Purposes, Stages,
         InDirectory
    <3>2. op' \in OperationRecord
      BY <2>2 DEF FinishSetup, ProceedTo, IInv, Typed, OperationRecord, Places
    <3> QED
      BY <3>1, <3>2 DEF FinishSetup, IInv, Typed, OutsideFiles
  <2> QED
    BY <2>1, <2>2
<1>2. (Alone /\ Settled /\ Told)'
  BY DEF FinishSetup, Idle, NoOperation, At, ProceedTo, Work, NoWork,
     OutsideFiles, IInv, Alone, Settled, Told, There, MarkOf
<1>3. (Aimed /\ Stands /\ Visits)'
  <2>1. UNCHANGED <<files, quarantine, owned>> /\ io.at = "idle" /\ op.at = "ready"
    BY DEF FinishSetup, At, OutsideFiles
  <2>2. CASE op.tx = Nowhere
    BY <2>1, <2>2 DEF FinishSetup, IInv, Aimed, Stands, Visits, There, MarkOf
  <2>3. CASE op.tx # Nowhere
    <3>1. io'.at = "commit" /\ io'.for = "commit" /\ io'.dir = op.tx
      BY <2>3 DEF FinishSetup, Work, NoWork
    <3>2. op.tx \in Directory /\ MarkOf(op.tx) = "active"
      BY <2>1, <2>3 DEF IInv, Typed, OperationRecord, Owned, Waiting
    <3> QED
      BY <2>1, <3>1, <3>2 DEF Aimed, Stands, Visits, InDirectory, There, MarkOf
  <2> QED
    BY <2>2, <2>3
<1>4. (Placed /\ Owned /\ Served)'
  <2>1. /\ UNCHANGED quarantine /\ UNCHANGED gateway
        /\ op.at = "ready" /\ io.at = "idle"
    BY DEF FinishSetup, At, OutsideFiles
  <2>2. CASE op.tx = Nowhere
    <3>1. op'.at = "idle" /\ op'.tx = Nowhere /\ UNCHANGED io
      BY <2>2 DEF FinishSetup, Idle, NoOperation
    <3>2. io.for = "none"
      BY <2>1 DEF IInv, Aimed
    <3> QED
      BY <3>1, <3>2 DEF Placed, Owned, Served, Waiting, Without, Apart
  <2>3. CASE op.tx # Nowhere
    <3>1. /\ io'.for = "commit" /\ io'.dir = op.tx
          /\ op'.at = "committing" /\ op'.tx = op.tx
      BY <2>3 DEF FinishSetup, Work, NoWork, ProceedTo, IInv, Typed, OperationRecord
    <3> QED
      BY <2>3, <3>1 DEF Placed, Owned, Served, Waiting, Without, Apart
  <2> QED
    BY <2>2, <2>3
<1> QED  BY <1>1, <1>2, <1>3, <1>4 DEF IInv

(* SetupCommitted: A commit that failed leaves the transaction active.     *)
LEMMA SetupCommittedKeeps ==
  ASSUME Sheltered, IInv, SetupCommitted
  PROVE IInv'
<1>1. Typed'
  <2>1. op' \in OperationRecord
    BY Untouched DEF SetupCommitted, Idle, ProceedTo, IInv, Typed, OperationRecord, Places
  <2>2. io' \in WorkRecord
    BY Untouched DEF SetupCommitted
  <2> QED
    BY <2>1, <2>2 DEF SetupCommitted, IInv, Typed, OutsideFiles
<1>2. (Alone /\ Settled /\ Told)'
  BY DEF SetupCommitted, Idle, NoOperation, Finished, ProceedTo, NoWork,
     OutsideFiles, IInv, Alone, Settled, Told, There, MarkOf
<1>3. (Aimed /\ Stands /\ Visits)'
  BY DEF SetupCommitted, Idle, NoOperation, Finished, ProceedTo, NoWork,
     OutsideFiles, IInv, Aimed, Stands, Visits, InDirectory
<1>4. (Placed /\ Owned /\ Served)'
  BY DEF SetupCommitted, Idle, NoOperation, Finished, ProceedTo, NoWork,
     OutsideFiles, IInv, Typed, Stands, Placed, Owned, Served, MarkOf, Without,
     Apart, OperationRecord
<1> QED  BY <1>1, <1>2, <1>3, <1>4 DEF IInv

(* EnvironmentChanges: Another attempt finds no gateway and the            *)
(* transaction as it was.                                                  *)
LEMMA EnvironmentChangesKeeps ==
  ASSUME Sheltered, IInv, EnvironmentChanges
  PROVE IInv'
<1>1. Typed'
  <2>1. op.attempt < MaxAttempts => op.attempt + 1 \in 1..MaxAttempts
    BY DEF IInv, Typed, OperationRecord, MaxAttempts
  <2>2. op' \in OperationRecord
    BY <2>1 DEF EnvironmentChanges, MayTryAgain, NextAttempt, IInv, Typed,
       OperationRecord, Places
  <2> QED
    BY <2>2 DEF EnvironmentChanges, IInv, Typed, OutsideFiles
<1>2. (Alone /\ Settled /\ Told)'
  BY DEF EnvironmentChanges, MayTryAgain, NextAttempt, At, OutsideFiles, IInv,
     Alone, Settled, Told, There, MarkOf
<1>3. (Aimed /\ Stands /\ Visits)'
  BY DEF EnvironmentChanges, MayTryAgain, NextAttempt, At, OutsideFiles, IInv,
     Aimed, Stands, Visits, There, MarkOf
<1>4. (Placed /\ Owned /\ Served)'
  BY DEF EnvironmentChanges, MayTryAgain, NextAttempt, At, OutsideFiles, IInv,
     Placed, Owned, Served, MarkOf, Waiting, Without
<1> QED  BY <1>1, <1>2, <1>3, <1>4 DEF IInv

(* AttemptFails: An attempt that fails keeps its transaction.              *)
LEMMA AttemptFailsKeeps ==
  ASSUME Sheltered, IInv, AttemptFails
  PROVE IInv'
<1>1. Typed'
  BY DEF AttemptFails, At, ProceedTo, OutsideFiles, IInv, Typed, OperationRecord,
     Places
<1>2. (Alone /\ Settled /\ Told)'
  BY DEF AttemptFails, At, ProceedTo, OutsideFiles, IInv, Alone, Settled, Told,
     There, MarkOf
<1>3. (Aimed /\ Stands /\ Visits)'
  BY DEF AttemptFails, At, ProceedTo, OutsideFiles, IInv, Aimed, Stands, Visits,
     There, MarkOf
<1>4. (Placed /\ Owned /\ Served)'
  BY DEF AttemptFails, At, ProceedTo, OutsideFiles, IInv, Placed, Owned, Served,
     MarkOf, Waiting, Without, Apart
<1> QED  BY <1>1, <1>2, <1>3, <1>4 DEF IInv

(* ProjectionFails: A projection that fails leaves gateway and             *)
(* transaction.                                                            *)
LEMMA ProjectionFailsKeeps ==
  ASSUME Sheltered, IInv, ProjectionFails
  PROVE IInv'
<1>1. Typed'
  BY DEF ProjectionFails, At, ProceedTo, OutsideFiles, IInv, Typed,
     OperationRecord, Places
<1>2. (Alone /\ Settled /\ Told)'
  BY DEF ProjectionFails, At, ProceedTo, OutsideFiles, IInv, Alone, Settled, Told,
     There, MarkOf
<1>3. (Aimed /\ Stands /\ Visits)'
  BY DEF ProjectionFails, At, ProceedTo, OutsideFiles, IInv, Aimed, Stands,
     Visits, There, MarkOf
<1>4. (Placed /\ Owned /\ Served)'
  BY DEF ProjectionFails, At, ProceedTo, OutsideFiles, IInv, Placed, Owned,
     Served, MarkOf, Waiting, Without, Apart
<1> QED  BY <1>1, <1>2, <1>3, <1>4 DEF IInv

(* GiveUp: Only a transaction whose gateway was stopped is rolled back.    *)
LEMMA GiveUpKeeps ==
  ASSUME Sheltered, IInv, GiveUp
  PROVE IInv'
<1>1. Typed'
  <2>1. PICK stopped \in BOOLEAN :
          /\ gateway' = (gateway /\ ~(op.tx # Nowhere /\ stopped))
          /\ IF op.tx # Nowhere /\ MayRollBack(stopped)
               THEN io' = Work("final-rollback", "rollback", op.tx) /\ ProceedTo("giving-up")
               ELSE Idle /\ UNCHANGED io
    BY DEF GiveUp
  <2>2. gateway' \in BOOLEAN
    BY <2>1
  <2>3. op' \in OperationRecord
    BY <2>1, Untouched DEF Idle, ProceedTo, IInv, Typed, OperationRecord, Places
  <2>4. io' \in WorkRecord
    BY <2>1, Untouched DEF IInv, Typed, OperationRecord, Purposes, Stages, InDirectory
  <2> QED
    BY <2>2, <2>3, <2>4 DEF GiveUp, IInv, Typed, OutsideFiles
<1>2. (Alone /\ Settled /\ Told)'
  BY DEF GiveUp, MayRollBack, Idle, NoOperation, At, ProceedTo, Work, NoWork,
     OutsideFiles, IInv, Alone, Settled, Told, There, MarkOf
<1>3. (Aimed /\ Stands /\ Visits)'
  <2>1. UNCHANGED <<files, quarantine, owned>> /\ io.at = "idle" /\ op.at = "failing"
    BY DEF GiveUp, At, OutsideFiles
  <2>2. CASE UNCHANGED io
    BY <2>1, <2>2 DEF IInv, Aimed, Stands, Visits, There, MarkOf
  <2>3. CASE op.tx # Nowhere /\ io' = Work("final-rollback", "rollback", op.tx)
    <3>1. /\ io'.at = "rollback" /\ io'.for = "final-rollback"
          /\ io'.dir = op.tx
      BY <2>3 DEF Work, NoWork
    <3>2. op.tx \in Directory /\ MarkOf(op.tx) = "active"
      BY <2>1, <2>3 DEF IInv, Typed, OperationRecord, Owned, Waiting
    <3> QED
      BY <2>1, <3>1, <3>2 DEF Aimed, Stands, Visits, InDirectory, There, MarkOf
  <2> QED
    BY <2>2, <2>3 DEF GiveUp
<1>4. (Placed /\ Owned /\ Served)'
  <2>1. UNCHANGED quarantine /\ op.at = "failing" /\ io.at = "idle"
    BY DEF GiveUp, At, OutsideFiles
  <2>2. PICK stopped \in BOOLEAN :
          /\ gateway' = (gateway /\ ~(op.tx # Nowhere /\ stopped))
          /\ IF op.tx # Nowhere /\ MayRollBack(stopped)
               THEN io' = Work("final-rollback", "rollback", op.tx) /\ ProceedTo("giving-up")
               ELSE Idle /\ UNCHANGED io
    BY DEF GiveUp
  <2>3. CASE op.tx # Nowhere /\ stopped
    <3>1. io'.for = "final-rollback" /\ op'.at = "giving-up" /\ op'.tx = op.tx
      BY <2>2, <2>3 DEF MayRollBack, Work, NoWork, ProceedTo, IInv, Typed,
         OperationRecord
    <3>2. ~gateway'
      BY <2>2, <2>3
    <3> QED
      BY <3>1, <3>2 DEF Placed, Owned, Served, Waiting, Without
  <2>4. CASE ~(op.tx # Nowhere /\ stopped)
    <3>1. op'.at = "idle" /\ op'.tx = Nowhere /\ UNCHANGED io
      BY <2>2, <2>4 DEF MayRollBack, Idle, NoOperation
    <3>2. io.for = "none"
      BY <2>1 DEF IInv, Aimed
    <3> QED
      BY <3>1, <3>2 DEF Placed, Owned, Served, Waiting, Without, Apart
  <2> QED
    BY <2>3, <2>4
<1> QED  BY <1>1, <1>2, <1>3, <1>4 DEF IInv

(* GaveUp: After the last rollback the operation is over.                  *)
LEMMA GaveUpKeeps ==
  ASSUME Sheltered, IInv, GaveUp
  PROVE IInv'
<1>1. Typed'
  BY DEF GaveUp, Finished, Idle, NoOperation, NoWork, OutsideFiles, IInv, Typed,
     WorkRecord, Stages, Purposes, OperationRecord, Places, MaxAttempts
<1>2. (Alone /\ Settled /\ Told)'
  BY DEF GaveUp, Finished, Idle, NoOperation, NoWork, OutsideFiles, IInv, Alone,
     Settled, Told, There, MarkOf
<1>3. (Aimed /\ Stands /\ Visits)'
  BY DEF GaveUp, Finished, Idle, NoOperation, NoWork, OutsideFiles, IInv, Aimed,
     Stands, Visits, InDirectory
<1>4. (Placed /\ Owned /\ Served)'
  BY DEF GaveUp, Finished, Idle, NoOperation, NoWork, OutsideFiles, IInv,
     Placed, Owned, Served
<1> QED  BY <1>1, <1>2, <1>3, <1>4 DEF IInv

(* LogoutStep: A logout commits the directory it began where no directory  *)
(* was.                                                                    *)
LEMMA LogoutStepKeeps ==
  ASSUME Sheltered, IInv, LogoutStep
  PROVE IInv'
<1>1. Typed'
  <2>1. op' \in OperationRecord
    BY Untouched DEF LogoutStep, Idle, ProceedTo, IInv, Typed, OperationRecord, Places
  <2>2. io' \in WorkRecord
    <3>1. CASE io' = NoWork
      BY <3>1, Untouched
    <3>2. CASE io' = Work("login", "begin", Nowhere)
      BY <3>2, Untouched DEF Purposes, Stages
    <3>3. CASE io' = Work("commit", "commit", io.dir)
      BY <3>3, Untouched DEF IInv, Typed, WorkRecord, Purposes, Stages, InDirectory
    <3> QED
      BY <3>1, <3>2, <3>3 DEF LogoutStep
  <2> QED
    BY <2>1, <2>2 DEF LogoutStep, IInv, Typed, OutsideFiles
<1>2. (Alone /\ Settled /\ Told)'
  BY DEF LogoutStep, Finished, Idle, NoOperation, ProceedTo, Work, NoWork,
     OutsideFiles, IInv, Alone, Settled, Told, There, MarkOf
<1>3. (Aimed /\ Stands /\ Visits)'
  <2>1. UNCHANGED <<files, quarantine, owned>>
    BY DEF LogoutStep, OutsideFiles
  <2>2. CASE io.at = "threw" \/ op.at = "logging-out"
    <3>1. io'.at = "idle" /\ io'.for = "none"
      <4>1. io' = NoWork
        BY <2>2 DEF LogoutStep
      <4> QED
        BY <4>1 DEF NoWork
    <3> QED
      BY <3>1 DEF Aimed, Stands, Visits, InDirectory
  <2>3. CASE ~(io.at = "threw" \/ op.at = "logging-out") /\ op.at = "logout-recovering"
    <3>1. io'.at = "begin" /\ io'.for = "login"
      BY <2>3 DEF LogoutStep, Work, NoWork
    <3>2. \A d \in Directory : ~There(d)
      BY <2>3 DEF LogoutStep, Finished, IInv, Placed, Visits
    <3> QED
      BY <2>1, <3>1, <3>2 DEF Aimed, Stands, Visits, InDirectory, There
  <2>4. CASE ~(io.at = "threw" \/ op.at = "logging-out") /\ op.at = "logout-beginning"
    <3>1. io'.at = "commit" /\ io'.for = "commit" /\ io'.dir = io.dir
      <4>1. io' = Work("commit", "commit", io.dir)
        BY <2>4 DEF LogoutStep
      <4> QED
        BY <4>1 DEF Work, NoWork
    <3>2. io.dir \in Directory /\ MarkOf(io.dir) = "active"
      BY <2>4 DEF LogoutStep, Finished, IInv, Placed
    <3> QED
      BY <2>1, <3>1, <3>2 DEF Aimed, Stands, Visits, InDirectory, There, MarkOf
  <2> QED
    BY <2>2, <2>3, <2>4 DEF LogoutStep
<1>4. (Placed /\ Owned /\ Served)'
  <2>1. op.tx = Nowhere /\ UNCHANGED <<quarantine, gateway>>
    BY DEF LogoutStep, OutsideFiles, IInv, Owned, Without
  <2>2. CASE io.at = "threw" \/ op.at = "logging-out"
    <3>1. op'.at = "idle" /\ op'.tx = Nowhere /\ io'.for = "none"
      <4>1. Idle /\ io' = NoWork
        BY <2>2 DEF LogoutStep
      <4> QED
        BY <4>1 DEF Idle, NoOperation, NoWork
    <3> QED
      BY <3>1 DEF Placed, Owned, Served, Waiting, Without, Apart
  <2>3. CASE ~(io.at = "threw" \/ op.at = "logging-out") /\ op.at = "logout-recovering"
    <3>1. /\ io'.at = "begin" /\ io'.for = "login"
          /\ op'.at = "logout-beginning" /\ op'.tx = Nowhere
      BY <2>1, <2>3 DEF LogoutStep, Work, NoWork, ProceedTo, IInv, Typed,
         OperationRecord
    <3>2. ~gateway
      BY <2>3 DEF IInv, Served, Apart
    <3> QED
      BY <2>1, <3>1, <3>2 DEF Placed, Owned, Served, Waiting, Without
  <2>4. CASE ~(io.at = "threw" \/ op.at = "logging-out") /\ op.at = "logout-beginning"
    <3>1. io'.for = "commit" /\ op'.at = "logging-out" /\ op'.tx = Nowhere
      <4>1. io' = Work("commit", "commit", io.dir) /\ ProceedTo("logging-out")
        BY <2>4 DEF LogoutStep
      <4> QED
        BY <2>1, <4>1 DEF Work, NoWork, ProceedTo, IInv, Typed, OperationRecord
    <3> QED
      BY <3>1 DEF Placed, Owned, Served, Waiting, Without, Apart
  <2> QED
    BY <2>2, <2>3, <2>4 DEF LogoutStep
<1> QED  BY <1>1, <1>2, <1>3, <1>4 DEF IInv

(* WasRead: A reading leaves the operation where it was.                   *)
LEMMA WasReadKeeps ==
  ASSUME Sheltered, IInv, WasRead
  PROVE IInv'
<1>1. Typed'
  BY DEF WasRead, NoWork, OutsideFiles, IInv, Typed, WorkRecord, Stages,
     Purposes
<1>2. (Alone /\ Settled /\ Told)'
  BY DEF WasRead, NoWork, OutsideFiles, IInv, Alone, Settled, Told, There,
     MarkOf
<1>3. (Aimed /\ Stands /\ Visits)'
  BY DEF WasRead, NoWork, OutsideFiles, IInv, Aimed, Stands, Visits, InDirectory
<1>4. (Placed /\ Owned /\ Served)'
  BY DEF WasRead, NoWork, OutsideFiles, IInv, Placed, Owned, Served, There,
     MarkOf
<1> QED  BY <1>1, <1>2, <1>3, <1>4 DEF IInv

(* RequestSetup: A setup begins without a transaction.                     *)
LEMMA RequestSetupKeeps ==
  ASSUME Sheltered, IInv, NEW f \in BOOLEAN, RequestSetup(f)
  PROVE IInv'
<1>1. Typed'
  <2>1. PICK b \in BOOLEAN : b = (f \/ ~Authenticated(Nowhere))
    OBVIOUS
  <2>2. op' = [NoOperation EXCEPT !.at = "starting", !.login = b]
    BY <2>1 DEF RequestSetup
  <2>3. op' \in OperationRecord
    BY <2>2, Untouched DEF OperationRecord, Places
  <2> QED
    BY <2>3 DEF RequestSetup, IInv, Typed, OutsideFiles
<1>2. (Alone /\ Settled /\ Told)'
  BY DEF RequestSetup, At, NoOperation, OutsideFiles, IInv, Alone, Settled,
     Told, There, MarkOf
<1>3. (Aimed /\ Stands /\ Visits)'
  BY DEF RequestSetup, At, NoOperation, OutsideFiles, IInv, Aimed, Stands,
     Visits, There, MarkOf
<1>4. (Placed /\ Owned /\ Served)'
  BY DEF RequestSetup, At, NoOperation, OutsideFiles, IInv, Aimed, Placed,
     Owned, Served, Apart
<1> QED  BY <1>1, <1>2, <1>3, <1>4 DEF IInv

(* RequestLogout: A logout stops the gateway and recovers every directory. *)
LEMMA RequestLogoutKeeps ==
  ASSUME Sheltered, IInv, RequestLogout
  PROVE IInv'
<1>1. Typed'
  BY DEF RequestLogout, Directories, At, ProceedTo, NoWork, OutsideFiles, IInv,
     Typed, WorkRecord, Stages, Purposes, OperationRecord, Places
<1>2. (Alone /\ Settled /\ Told)'
  BY DEF RequestLogout, Directories, At, ProceedTo, NoWork, OutsideFiles, IInv,
     Alone, Settled, Told, There, MarkOf
<1>3. (Aimed /\ Stands /\ Visits)'
  BY DEF RequestLogout, Directories, At, ProceedTo, NoWork, OutsideFiles, IInv,
     Aimed, Stands, Visits, There, MarkOf, InDirectory
<1>4. (Placed /\ Owned /\ Served)'
  BY DEF RequestLogout, Directories, At, ProceedTo, NoWork, OutsideFiles, IInv,
     Placed, Owned, Served, Waiting, Without
<1> QED  BY <1>1, <1>2, <1>3, <1>4 DEF IInv

(* StartGateway: A gateway is started between two operations.              *)
LEMMA StartGatewayKeeps ==
  ASSUME Sheltered, IInv, StartGateway
  PROVE IInv'
<1>1. Typed'
  BY DEF StartGateway, At, OutsideFiles, IInv, Typed
<1>2. (Alone /\ Settled /\ Told)'
  BY DEF StartGateway, At, OutsideFiles, IInv, Alone, Settled, Told, There,
     MarkOf
<1>3. (Aimed /\ Stands /\ Visits)'
  BY DEF StartGateway, At, OutsideFiles, IInv, Aimed, Stands, Visits, There,
     MarkOf
<1>4. (Placed /\ Owned /\ Served)'
  BY DEF StartGateway, At, OutsideFiles, IInv, Aimed, Placed, Owned, Served,
     MarkOf, Apart
<1> QED  BY <1>1, <1>2, <1>3, <1>4 DEF IInv

(* GatewayEnds: A gateway may end at any time.                             *)
LEMMA GatewayEndsKeeps ==
  ASSUME Sheltered, IInv, GatewayEnds
  PROVE IInv'
<1>1. Typed'
  BY DEF GatewayEnds, OutsideFiles, IInv, Typed, Marks, MarkerPhases
<1>2. (Alone /\ Settled /\ Told)'
  BY DEF GatewayEnds, OutsideFiles, IInv, Alone, Settled, Told, There, MarkOf
<1>3. (Aimed /\ Stands /\ Visits)'
  BY DEF GatewayEnds, OutsideFiles, IInv, Aimed, Stands, Visits, There, MarkOf
<1>4. (Placed /\ Owned /\ Served)'
  BY DEF GatewayEnds, OutsideFiles, IInv, Placed, Owned, Served, There, MarkOf
<1> QED  BY <1>1, <1>2, <1>3, <1>4 DEF IInv

(* ReadAuthentication: A reading visits the committed directories.         *)
LEMMA ReadAuthenticationKeeps ==
  ASSUME Sheltered, IInv, ReadAuthentication
  PROVE IInv'
<1>1. Typed'
  BY DEF ReadAuthentication, Directories, NoWork, OutsideFiles, IInv, Typed,
     WorkRecord, Stages, Purposes
<1>2. (Alone /\ Settled /\ Told)'
  BY DEF ReadAuthentication, Directories, NoWork, OutsideFiles, IInv, Alone,
     Settled, Told, There, MarkOf
<1>3. (Aimed /\ Stands /\ Visits)'
  BY DEF ReadAuthentication, Directories, NoWork, OutsideFiles, IInv, Aimed,
     Stands, Visits, MarkOf, InDirectory
<1>4. (Placed /\ Owned /\ Served)'
  BY DEF ReadAuthentication, Directories, NoWork, OutsideFiles, IInv, Aimed,
     Placed, Owned, Served, There, MarkOf
<1> QED  BY <1>1, <1>2, <1>3, <1>4 DEF IInv

(* Crash: An end of the application leaves files, directory and gateway.   *)
LEMMA CrashKeeps ==
  ASSUME Sheltered, IInv, Crash
  PROVE IInv'
<1>1. Typed'
  <2>1. crashes' \in 0..MaxCrashes
    BY Parameters DEF Crash, IInv, Typed
  <2> QED
    BY <2>1, Untouched DEF Crash, Idle, IInv, Typed
<1>2. (Alone /\ Settled /\ Told)'
  BY DEF Crash, Directories, Idle, NoOperation, NoWork, Sheltered, IInv, Alone,
     Settled, Told, There, MarkOf
<1>3. (Aimed /\ Stands /\ Visits)'
  BY DEF Crash, Directories, Idle, NoOperation, NoWork, IInv, Aimed, Stands,
     Visits, InDirectory
<1>4. (Placed /\ Owned /\ Served)'
  BY DEF Crash, Directories, Idle, NoOperation, NoWork, IInv, Placed, Owned,
     Served, Apart
<1> QED  BY <1>1, <1>2, <1>3, <1>4 DEF IInv

-----------------------------------------------------------------------------
(* Every step keeps the invariant.                                         *)
LEMMA NextKeeps == ASSUME Sheltered, IInv, [AuthNext]_authVars PROVE IInv'
<1>1. CASE FileSystemStep
  BY <1>1, RecoverNextKeeps, SweepNextKeeps, MakeDirectoryKeeps, DiscardKeeps,
     RestoreKeeps, UnlinkArtifactKeeps, MoveKeeps, RecoverDoneKeeps, RollBackKeeps,
     DiscardedKeeps, RestoredKeeps, UnlinkMarkerKeeps, RemoveDirectoryKeeps,
     WriteMarkerKeeps, ActivateKeeps, CommitKeeps
  DEF FileSystemStep
<1>2. CASE OperationStep
  BY <1>2, BeforeStartKeeps, RedoneKeeps, StopForLoginKeeps, RecoveredKeeps,
     BeginLoginKeeps, BegunKeeps, AuthorizeKeeps, LoggedInKeeps, LoginFailsKeeps,
     LoginUndoneKeeps, LoginStandsKeeps, CheckKeeps, LaunchKeeps, ReadyKeeps,
     FinishSetupKeeps, SetupCommittedKeeps, EnvironmentChangesKeeps,
     AttemptFailsKeeps, ProjectionFailsKeeps, GiveUpKeeps, GaveUpKeeps,
     LogoutStepKeeps, WasReadKeeps
  DEF OperationStep
<1>3. CASE UNCHANGED authVars
  BY <1>3 DEF authVars, IInv, Typed, Alone, Settled, Told, Aimed, Stands, Visits, Placed,
     Owned, Served, There, MarkOf
<1> QED
  BY <1>1, <1>2, <1>3, FileSystemFailsKeeps, RequestSetupKeeps, RequestLogoutKeeps,
     StartGatewayKeeps, GatewayEndsKeeps, ReadAuthenticationKeeps, CrashKeeps
  DEF AuthNext

(* The invariant holds in every state.                                     *)
LEMMA AlwaysIInv == ASSUME Sheltered PROVE AuthSpec => []IInv
<1>1. AuthInit => IInv
  BY InitIInv
<1>2. IInv /\ [AuthNext]_authVars => IInv'
  BY NextKeeps
<1> QED
  BY <1>1, <1>2, PTL DEF AuthSpec

(* AuthTypeCorrect: files, directories, operation and work are of their types, *)
(* no start makes more attempts than there are, and the counters of the    *)
(* model stay within their bounds.                                         *)
THEOREM AuthTypeCorrect == ASSUME Sheltered PROVE AuthSpec => []AuthTypeOK
<1>1. IInv => AuthTypeOK
  BY DEF IInv, Typed, AuthTypeOK, DirectoryRecord, OperationRecord, WorkRecord
<1> QED
  BY <1>1, AlwaysIInv, PTL

(* ReadableAreOwned: when a reading finds no pending transaction, the      *)
(* authorizations it can read are exactly those of the last commit.        *)
THEOREM ReadableAreOwned == ASSUME Sheltered PROVE AuthSpec => []ReadableIsOwned
<1>1. IInv => ReadableIsOwned
  <2> SUFFICES ASSUME IInv, ~HasPending(Nowhere) PROVE files = owned
    BY DEF ReadableIsOwned
  <2>1. \A d \in Directory : There(d) => MarkOf(d) = "committed"
    BY Parameters DEF HasPending, Directories, There, MarkOf
  <2>2. CASE \E d \in Directory : There(d)
    BY <2>1, <2>2 DEF IInv, Told
  <2>3. CASE \A d \in Directory : ~There(d)
    BY <2>3 DEF IInv, Settled
  <2> QED
    BY <2>2, <2>3
<1> QED
  BY <1>1, AlwaysIInv, PTL

(* OwnedStays: the authorizations of the last commit are readable, or in a *)
(* directory that will be restored, whatever fails and wherever the        *)
(* application ends.                                                       *)
THEOREM OwnedStays == ASSUME Sheltered PROVE AuthSpec => []OwnedSurvives
<1>1. IInv => OwnedSurvives
  <2> SUFFICES ASSUME IInv, NEW a \in owned
               PROVE  \/ a \in files
                      \/ \E d \in Directory : /\ MarkOf(d) \notin {"absent", "committed"}
                                              /\ a \in quarantine[d].artifacts
    BY DEF OwnedSurvives, Directories, MarkOf
  <2>1. CASE \A d \in Directory : ~There(d)
    BY <2>1 DEF IInv, Settled
  <2>2. CASE \E d \in Directory : There(d)
    <3>1. PICK d \in Directory : There(d)
      BY <2>2
    <3>2. MarkOf(d) \in MarkerPhases \cup {"unmarked"}
      BY <3>1 DEF There, MarkOf, IInv, Typed, DirectoryRecord, Marks
    <3>3. CASE MarkOf(d) \in {"committed", "unmarked"}
      BY <3>3 DEF IInv, Told
    <3>4. CASE MarkOf(d) \in {"preparing", "restoring", "restoring-keep"}
      BY <3>4 DEF IInv, Told
    <3>5. CASE MarkOf(d) \in {"active", "discarding"}
      BY <3>5 DEF IInv, Told
    <3> QED
      BY <3>2, <3>3, <3>4, <3>5 DEF MarkerPhases
  <2> QED
    BY <2>1, <2>2
<1> QED
  BY <1>1, AlwaysIInv, PTL

(* FilesStand: no step exchanges the files a running gateway works with.   *)
THEOREM FilesStand == ASSUME Sheltered PROVE AuthSpec => FilesStandWhileRunning
<1>1. ASSUME IInv, AuthNext, files' # files PROVE ~gateway
  <2>1. CASE \E a \in Account : Discard(a) \/ Restore(a) \/ Move(a)
    <3>1. io.at \in {"discard", "restore", "move"}
      BY <2>1 DEF Discard, Restore, Move
    <3>2. io.for \in {"recover", "login", "undo", "first-rollback", "final-rollback"}
      BY <1>1, <3>1 DEF IInv, Aimed
    <3> QED
      BY <1>1, <3>2 DEF IInv, Served
  <2>2. CASE \E a \in Account : Authorize(a)
    BY <1>1, <2>2 DEF Authorize, At, IInv, Served, Apart
  <2>3. CASE FileSystemStep /\ ~\E a \in Account : Discard(a) \/ Restore(a) \/ Move(a)
    BY <1>1, <2>3 DEF FileSystemStep, RecoverNext, SweepNext, MakeDirectory,
       UnlinkArtifact, RecoverDone, RollBackFiles, Discarded, Restored, UnlinkMarker,
       RemoveDirectory, WriteMarker, Activate, MarkCommitted
  <2>4. CASE OperationStep /\ ~\E a \in Account : Authorize(a)
    BY <1>1, <2>4 DEF OperationStep, BeforeStart, Redone, StopForLogin, Recovered,
       BeginLogin, Begun, LoggedIn, LoginFails, LoginUndone, LoginStands, Check,
       Launch, Ready, FinishSetup, SetupCommitted, EnvironmentChanges, AttemptFails,
       ProjectionFails, GiveUp, GaveUp, LogoutStep, WasRead, OutsideFiles
  <2> QED
    BY <1>1, <2>1, <2>2, <2>3, <2>4 DEF AuthNext, FileSystemFails, RequestSetup,
       RequestLogout, StartGateway, GatewayEnds, ReadAuthentication, Crash,
       OutsideFiles
<1>2. IInv /\ [AuthNext]_authVars => [files' # files => ~gateway]_authVars
  BY <1>1
<1> QED
  BY <1>2, AlwaysIInv, PTL DEF AuthSpec, FilesStandWhileRunning

=============================================================================
