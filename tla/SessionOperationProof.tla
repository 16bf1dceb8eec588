----------------------- MODULE SessionOperationProof -----------------------
(***************************************************************************)
(* Safety of the session operation coordinator for every set of sessions,  *)
(* operations, waiters and stamps.                                         *)
(***************************************************************************)
EXTENDS SessionOperation, TLAPS

(* Every step keeps every variable in its range.                           *)
LEMMA TypeInductive ==
  ASSUME TypeOK, [Next]_vars
  PROVE  TypeOK'
<1> USE DEF TypeOK
<1>1. ASSUME NEW s \in Session, NEW o \in Op, Run(s, o) PROVE TypeOK'
  BY <1>1, MaxRevisionAssumption DEF Run, Reserve, AdvanceRevision, waitVars
<1>2. ASSUME NEW s \in Session, NEW o \in Op, RunLatest(s, o) PROVE TypeOK'
  BY <1>2, MaxRevisionAssumption DEF RunLatest, Reserve, AdvanceRevision, CancelLease, waitVars
<1>3. ASSUME NEW st \in Stamp, NEW o \in Op, RunIfStampCurrent(st, o) PROVE TypeOK'
  BY <1>3, MaxRevisionAssumption DEF RunIfStampCurrent, Reserve, AdvanceRevision, waitVars
<1>4. ASSUME NEW o \in Op, TakeOver(o) PROVE TypeOK'
  BY <1>4 DEF TakeOver, waitVars, revisionVars
<1>5. ASSUME NEW o \in Op, TooLate(o) \/ Finish(o) PROVE TypeOK'
  BY <1>5 DEF TooLate, Finish, Settle, waitVars, revisionVars
<1>6. ASSUME NEW s \in Session, Invalidate(s) PROVE TypeOK'
  BY <1>6 DEF Invalidate, AdvanceRevision, CancelLease, waitVars
<1>7. ASSUME NEW s \in Session, RemoveSession(s) PROVE TypeOK'
  BY <1>7 DEF RemoveSession, AdvanceRevision, CancelLease, waitVars
<1>8. ASSUME NEW s \in Session, CreateSession(s) PROVE TypeOK'
  BY <1>8 DEF CreateSession, waitVars, leaseVars, revisionVars
<1>9. ASSUME NEW w \in Waiter, NEW s \in Session, InvalidateAndWait(w, s) PROVE TypeOK'
  BY <1>9 DEF InvalidateAndWait, BeginWait, UnfinishedOn, AdvanceRevision, CancelLease
<1>10. ASSUME NEW w \in Waiter, WaitReturns(w) PROVE TypeOK'
  BY <1>10 DEF WaitReturns, leaseVars, revisionVars
<1>11. ASSUME NEW st \in Stamp, NEW s \in Session, CaptureStamp(st, s) PROVE TypeOK'
  BY <1>11 DEF CaptureStamp, leaseVars, waitVars
<1>12. CASE UNCHANGED vars
  BY <1>12 DEF vars, leaseVars, revisionVars, waitVars
<1> QED
  BY <1>1, <1>2, <1>3, <1>4, <1>5, <1>6, <1>7, <1>8, <1>9, <1>10, <1>11,
     <1>12 DEF Next, InvalidateAndWaitIfSignal

(* The coordinator's variables stay in their ranges.                       *)
THEOREM TypeCorrect == Spec => []TypeOK
<1>1. Init => TypeOK
  BY DEF Init, TypeOK
<1> QED
  BY <1>1, TypeInductive, PTL DEF Spec

-----------------------------------------------------------------------------
(* Mutual exclusion is not inductive: it needs the shape of the queue that *)
(* runLatest builds.  A lease belongs to an unfinished operation of its    *)
(* session; generations tell reservations apart; the unfinished operations *)
(* of a session form a line in which everybody but the oldest waits, for a *)
(* predecessor no older operation has overtaken.                           *)
LeaseSound ==
  \A s \in Session : leases[s] # None =>
    Unfinished(leases[s]) /\ sessionOf[leases[s]] = s

Reserved ==
  \A o \in Op : status[o] # "unused" => sessionOf[o] \in Session

DistinctGenerations ==
  \A o, p \in Op : status[o] # "unused" /\ status[p] # "unused" /\ o # p
    => generation[o] # generation[p]

NewestHoldsLease ==
  \A o \in Op : Unfinished(o) =>
    /\ leases[sessionOf[o]] \in Op
    /\ generation[o] <= generation[leases[sessionOf[o]]]

WaitsInLine(o, p) ==
  /\ status[o] = "waiting"
  /\ predecessor[o] \in Op
  /\ Unfinished(predecessor[o])
  /\ sessionOf[predecessor[o]] = sessionOf[o]
  /\ generation[p] <= generation[predecessor[o]]

Line ==
  \A o, p \in Op :
    /\ Unfinished(o) /\ Unfinished(p) /\ sessionOf[o] = sessionOf[p]
    /\ generation[p] < generation[o]
    => WaitsInLine(o, p)

Queue == /\ TypeOK /\ LeaseSound /\ Reserved /\ DistinctGenerations
         /\ NewestHoldsLease /\ Line

(* The two records of authority, and what a waiter is still owed.          *)
Authority ==
  \A o \in Op : Unfinished(o) /\ ~cancelled[o] /\ leases[sessionOf[o]] = o =>
    revisionBySession[sessionOf[o]] = grantedAt[o]

Debt ==
  \A w \in Waiter : waitsOn[w] # None =>
    /\ status[waitsOn[w]] # "unused"
    /\ \A o \in owed[w] :
         \/ status[o] = "done"
         \/ /\ Unfinished(o) /\ Unfinished(waitsOn[w])
            /\ sessionOf[o] = sessionOf[waitsOn[w]]
            /\ generation[o] <= generation[waitsOn[w]]

StampsAge ==
  \A st \in Stamp : stamp[st] # None =>
    /\ stamp[st].revision <= revisionBySession[stamp[st].sessionId]
    /\ st \in disturbed =>
         stamp[st].revision < revisionBySession[stamp[st].sessionId]

-----------------------------------------------------------------------------
(* A new reservation joins the end of its session's line.                  *)
LEMMA ReservationQueues ==
  ASSUME Queue, TypeOK', NEW s \in Session, NEW o \in Op,
         Run(s, o) \/ RunLatest(s, o)
           \/ \E st \in Stamp : s = stamp[st].sessionId /\ RunIfStampCurrent(st, o)
  PROVE  Queue'
<1> DEFINE phase == IF leases'[s] = o /\ status'[o] = "running"
                    THEN "running" ELSE "waiting"
<1>1. /\ Reserve(s, o, phase)
      /\ \/ phase = "running" /\ leases[s] = None /\ predecessor' = predecessor
         \/ /\ phase = "waiting"
            /\ predecessor' = [predecessor EXCEPT ![o] = leases[s]]
  BY DEF Run, RunLatest, RunIfStampCurrent, Reserve, Queue, TypeOK
<1>2. /\ status[o] = "unused"
      /\ generation' = [generation EXCEPT ![o] = nextGeneration + 1]
      /\ leases' = [leases EXCEPT ![s] = o]
      /\ sessionOf' = [sessionOf EXCEPT ![o] = s]
      /\ status' = [status EXCEPT ![o] = phase]
  BY <1>1 DEF Reserve
<1> HIDE DEF phase
<1>3. phase \in {"running", "waiting"}
  BY <1>1
<1>4. LeaseSound'
  BY <1>2, <1>3 DEF Queue, TypeOK, LeaseSound, Unfinished
<1>5. Reserved'
  BY <1>2, <1>3 DEF Queue, TypeOK, Reserved
<1>6. \A p \in Op : generation[p] <= nextGeneration /\ generation[p] \in Nat
  BY DEF Queue, TypeOK
<1>7. DistinctGenerations'
  BY <1>2, <1>3, <1>6 DEF Queue, TypeOK, DistinctGenerations
<1>8. NewestHoldsLease'
  BY <1>2, <1>3, <1>6 DEF Queue, TypeOK, NewestHoldsLease, Unfinished, Reserved
<1>9. Line'
  <2> SUFFICES ASSUME NEW q \in Op, NEW p \in Op,
                      Unfinished(q)', Unfinished(p)', (sessionOf[q] = sessionOf[p])',
                      (generation[p] < generation[q])'
               PROVE  WaitsInLine(q, p)'
    BY DEF Line
  <2>1. CASE q = o
    <3>1. p # o /\ Unfinished(p) /\ sessionOf[p] = s
      BY <2>1, <1>2, <1>3 DEF Queue, TypeOK, Unfinished
    <3>2. leases[s] \in Op /\ generation[p] <= generation[leases[s]]
      BY <3>1 DEF Queue, NewestHoldsLease
    <3>3. Unfinished(leases[s]) /\ sessionOf[leases[s]] = s /\ leases[s] # o
      BY <3>2, <1>2, NoneAssumption DEF Queue, LeaseSound, Unfinished
    <3>4. phase = "waiting" /\ predecessor'[o] = leases[s]
      BY <1>1, <3>2, NoneAssumption DEF Queue, TypeOK
    <3> QED
      BY <2>1, <3>1, <3>2, <3>3, <3>4, <1>2 DEF Queue, TypeOK, WaitsInLine, Unfinished
  <2>2. CASE q # o
    <3>1. p # o
      BY <2>2, <1>2, <1>6 DEF Queue, TypeOK
    <3>2. /\ Unfinished(q) /\ Unfinished(p) /\ sessionOf[q] = sessionOf[p]
          /\ generation[p] < generation[q]
      BY <2>2, <3>1, <1>2 DEF Queue, TypeOK, Unfinished
    <3>3. WaitsInLine(q, p)
      BY <3>2 DEF Queue, Line
    <3>4. predecessor[q] # o /\ predecessor'[q] = predecessor[q]
      BY <3>3, <2>2, <1>1, <1>2 DEF WaitsInLine, Unfinished, Queue, TypeOK
    <3> QED
      BY <3>1, <3>3, <3>4, <2>2, <1>2 DEF Queue, TypeOK, WaitsInLine, Unfinished
  <2> QED
    BY <2>1, <2>2
<1> QED
  BY <1>4, <1>5, <1>7, <1>8, <1>9 DEF Queue

(* Whoever may start or give up its turn is the oldest of its line.        *)
LEMMA OldestMoves ==
  ASSUME Queue, NEW o \in Op, Unfinished(o),
         status[o] = "waiting" => PredecessorGone(o)
  PROVE  \A p \in Op : Unfinished(p) /\ sessionOf[p] = sessionOf[o] /\ p # o
           => generation[o] < generation[p]
<1> SUFFICES ASSUME NEW p \in Op, Unfinished(p), sessionOf[p] = sessionOf[o], p # o
             PROVE  generation[o] < generation[p]
  OBVIOUS
<1>1. generation[o] # generation[p] /\ generation[o] \in Nat /\ generation[p] \in Nat
  BY DEF Queue, DistinctGenerations, Unfinished, TypeOK
<1>2. ASSUME generation[p] < generation[o] PROVE FALSE
  <2>1. WaitsInLine(o, p)
    BY <1>2 DEF Queue, Line
  <2> QED
    BY <2>1, NoneAssumption DEF WaitsInLine, PredecessorGone, Unfinished
<1> QED
  BY <1>1, <1>2

(* The oldest operation of a session leaves its line. *)
LEMMA SettlingQueues ==
  ASSUME Queue, TypeOK', NEW o \in Op, TooLate(o) \/ Finish(o)
  PROVE  Queue'
<1>1. /\ Settle(o) /\ Unfinished(o)
      /\ status[o] = "waiting" => PredecessorGone(o)
  BY DEF TooLate, Finish, Unfinished
<1>2. \A p \in Op : Unfinished(p) /\ sessionOf[p] = sessionOf[o] /\ p # o
           => generation[o] < generation[p]
  BY <1>1, OldestMoves
<1>3. /\ status' = [status EXCEPT ![o] = "done"]
      /\ leases' = [s \in Session |-> IF leases[s] = o THEN None ELSE leases[s]]
      /\ UNCHANGED <<sessionOf, generation, predecessor, nextGeneration>>
  BY <1>1 DEF Settle
<1>4. \A p \in Op : Unfinished(p)' <=> Unfinished(p) /\ p # o
  BY <1>3 DEF Queue, TypeOK, Unfinished
<1>5. LeaseSound'
  BY <1>3, <1>4, NoneAssumption DEF Queue, TypeOK, LeaseSound
<1>6. Reserved' /\ DistinctGenerations'
  BY <1>1, <1>3 DEF Queue, TypeOK, Reserved, DistinctGenerations, Unfinished
<1>7. NewestHoldsLease'
  <2> SUFFICES ASSUME NEW p \in Op, Unfinished(p)'
               PROVE  /\ leases'[sessionOf[p]] \in Op
                      /\ generation[p] <= generation[leases'[sessionOf[p]]]
    BY <1>3 DEF NewestHoldsLease
  <2>1. /\ Unfinished(p) /\ p # o /\ sessionOf[p] \in Session
        /\ leases[sessionOf[p]] \in Op
        /\ generation[p] <= generation[leases[sessionOf[p]]]
    BY <1>4 DEF Queue, NewestHoldsLease, Reserved, Unfinished
  <2>2. leases[sessionOf[p]] # o
    <3> SUFFICES ASSUME leases[sessionOf[p]] = o PROVE FALSE
      OBVIOUS
    <3>1. sessionOf[o] = sessionOf[p]
      BY <2>1, NoneAssumption DEF Queue, LeaseSound
    <3>2. generation[o] < generation[p] /\ generation[o] \in Nat /\ generation[p] \in Nat
      BY <1>2, <2>1, <3>1 DEF Queue, TypeOK
    <3> QED
      BY <2>1, <3>2
  <2> QED
    BY <2>1, <2>2, <1>3
<1>8. Line'
  <2> SUFFICES ASSUME NEW q \in Op, NEW p \in Op,
                      Unfinished(q)', Unfinished(p)', sessionOf[q] = sessionOf[p],
                      generation[p] < generation[q]
               PROVE  WaitsInLine(q, p)'
    BY <1>3 DEF Line
  <2>1. WaitsInLine(q, p) /\ Unfinished(p) /\ p # o /\ q # o
    BY <1>4 DEF Queue, Line
  <2>2. predecessor[q] # o
    <3> SUFFICES ASSUME predecessor[q] = o PROVE FALSE
      OBVIOUS
    <3>1. sessionOf[p] = sessionOf[o] /\ generation[p] <= generation[o]
      BY <2>1 DEF WaitsInLine
    <3>2. generation[o] < generation[p] /\ generation[o] \in Nat /\ generation[p] \in Nat
      BY <1>2, <2>1, <3>1 DEF Queue, TypeOK
    <3> QED
      BY <3>1, <3>2
  <2> QED
    BY <2>1, <2>2, <1>3, <1>4 DEF WaitsInLine, Queue, TypeOK
<1> QED
  BY <1>5, <1>6, <1>7, <1>8 DEF Queue

(* The oldest operation of a session begins to run. *)
LEMMA TakingOverQueues ==
  ASSUME Queue, TypeOK', NEW o \in Op, TakeOver(o)
  PROVE  Queue'
<1>1. Unfinished(o) /\ PredecessorGone(o)
  BY DEF TakeOver, Unfinished
<1>2. \A p \in Op : Unfinished(p) /\ sessionOf[p] = sessionOf[o] /\ p # o
           => generation[o] < generation[p]
  BY <1>1, OldestMoves
<1>3. /\ status' = [status EXCEPT ![o] = "running"]
      /\ UNCHANGED <<leases, sessionOf, generation, predecessor, nextGeneration>>
  BY DEF TakeOver
<1>4. \A p \in Op : Unfinished(p)' <=> Unfinished(p)
  BY <1>1, <1>3 DEF Queue, TypeOK, Unfinished
<1>5. LeaseSound' /\ NewestHoldsLease'
  BY <1>3, <1>4, NoneAssumption DEF Queue, TypeOK, LeaseSound, NewestHoldsLease
<1>6. Reserved' /\ DistinctGenerations'
  BY <1>1, <1>3 DEF Queue, TypeOK, Reserved, DistinctGenerations, Unfinished
<1>7. Line'
  <2> SUFFICES ASSUME NEW q \in Op, NEW p \in Op,
                      Unfinished(q), Unfinished(p), sessionOf[q] = sessionOf[p],
                      generation[p] < generation[q]
               PROVE  WaitsInLine(q, p)'
    BY <1>3, <1>4 DEF Line
  <2>1. WaitsInLine(q, p)
    BY DEF Queue, Line
  <2>2. q # o
    <3> SUFFICES ASSUME q = o PROVE FALSE
      OBVIOUS
    <3>1. p # o /\ generation[p] \in Nat /\ generation[o] \in Nat
      BY DEF Queue, TypeOK
    <3> QED
      BY <1>2, <3>1
  <2> QED
    BY <2>1, <2>2, <1>3, <1>4 DEF WaitsInLine, Queue, TypeOK
<1> QED
  BY <1>5, <1>6, <1>7 DEF Queue

queueVars == <<leases, status, sessionOf, generation, predecessor, nextGeneration>>

(* What the line does not depend on does not disturb it. *)
LEMMA QueueStutters ==
  ASSUME Queue, TypeOK', UNCHANGED queueVars
  PROVE  Queue'
BY DEF queueVars, Queue, LeaseSound, Reserved, DistinctGenerations, NewestHoldsLease,
       Line, WaitsInLine, Unfinished

(* The queue's shape is an invariant of every step.                        *)
LEMMA QueueInductive ==
  ASSUME Queue, TypeOK', [Next]_vars
  PROVE  Queue'
<1>1. ASSUME NEW s \in Session, NEW o \in Op, Run(s, o) \/ RunLatest(s, o)
      PROVE  Queue'
  BY <1>1, ReservationQueues
<1>2. ASSUME NEW st \in Stamp, NEW o \in Op, RunIfStampCurrent(st, o)
      PROVE  Queue'
  <2>1. stamp[st].sessionId \in Session
    BY <1>2 DEF RunIfStampCurrent, Queue, TypeOK
  <2> QED
    BY <1>2, <2>1, ReservationQueues
<1>3. ASSUME NEW o \in Op, TakeOver(o) PROVE Queue'
  BY <1>3, TakingOverQueues
<1>4. ASSUME NEW o \in Op, TooLate(o) \/ Finish(o) PROVE Queue'
  BY <1>4, SettlingQueues
<1>5. CASE \E s \in Session : Invalidate(s) \/ RemoveSession(s) \/ CreateSession(s)
  BY <1>5, QueueStutters DEF Invalidate, RemoveSession, CreateSession, leaseVars, queueVars
<1>6. CASE \/ \E w \in Waiter, s \in Session : InvalidateAndWait(w, s)
           \/ \E w \in Waiter : WaitReturns(w)
           \/ \E st \in Stamp, s \in Session : CaptureStamp(st, s)
  BY <1>6, QueueStutters DEF InvalidateAndWait, WaitReturns, CaptureStamp, leaseVars, queueVars
<1>7. CASE UNCHANGED vars
  BY <1>7, QueueStutters DEF vars, leaseVars, queueVars
<1> QED
  BY <1>1, <1>2, <1>3, <1>4, <1>5, <1>6, <1>7 DEF Next, InvalidateAndWaitIfSignal

(* The line of every session is in order in every state. *)
LEMMA QueueInvariant == Spec => []Queue
<1>1. Init => Queue
  BY DEF Init, Queue, TypeOK, LeaseSound, Reserved, DistinctGenerations,
         NewestHoldsLease, Line, Unfinished
<1>2. Queue /\ [Next]_vars => Queue'
  BY TypeInductive, QueueInductive DEF Queue
<1> QED
  BY <1>1, <1>2, PTL DEF Spec

(* Two running callbacks would each have to wait for the other.            *)
LEMMA ExclusionFromQueue ==
  ASSUME Queue
  PROVE  OneCallbackPerSession
<1> SUFFICES ASSUME NEW s \in Session,
                    NEW o \in UnfinishedOn(s), NEW p \in UnfinishedOn(s),
                    status[o] = "running", status[p] = "running", o # p
             PROVE  FALSE
  BY DEF OneCallbackPerSession
<1>1. /\ o \in Op /\ p \in Op /\ Unfinished(o) /\ Unfinished(p)
      /\ sessionOf[o] = sessionOf[p]
  BY DEF UnfinishedOn
<1>2. generation[o] < generation[p] \/ generation[p] < generation[o]
  BY <1>1 DEF Queue, TypeOK, DistinctGenerations, Unfinished
<1>3. WaitsInLine(o, p) \/ WaitsInLine(p, o)
  BY <1>1, <1>2 DEF Queue, Line
<1> QED
  BY <1>3 DEF WaitsInLine

(* No two callbacks of one session overlap.                                *)
THEOREM MutualExclusion == Spec => []OneCallbackPerSession
<1>1. Queue => OneCallbackPerSession
  BY ExclusionFromQueue
<1> QED
  BY <1>1, QueueInvariant, PTL

(* A session with unfinished work is leased, to its newest operation.      *)
THEOREM LeaseFollowsNewest == Spec => []LeaseIsNewestUnfinished
<1>1. Queue => LeaseIsNewestUnfinished
  BY NoneAssumption DEF Queue, NewestHoldsLease, LeaseIsNewestUnfinished, UnfinishedOn
<1> QED
  BY <1>1, QueueInvariant, PTL

-----------------------------------------------------------------------------
(* The lease check and the revisions agree: every lifecycle event of the   *)
(* session that advances its revision also cancels or replaces the lease.  *)
LEMMA AuthorityInductive ==
  ASSUME Queue, Authority, [Next]_vars
  PROVE  Authority'
<1> USE DEF Queue, TypeOK, Authority, Unfinished
<1>1. ASSUME NEW s \in Session, NEW o \in Op, NEW phase, Reserve(s, o, phase),
             \A p \in Op : cancelled'[p] \/ ~cancelled[p] \/ p = o
      PROVE  Authority'
  BY <1>1 DEF Reserve, AdvanceRevision, Reserved
<1>2. ASSUME NEW s \in Session, NEW o \in Op, Run(s, o) PROVE Authority'
  BY <1>1, <1>2 DEF Run
<1>3. ASSUME NEW s \in Session, NEW o \in Op, RunLatest(s, o) PROVE Authority'
  BY <1>1, <1>3 DEF RunLatest, CancelLease
<1>4. ASSUME NEW st \in Stamp, NEW o \in Op, RunIfStampCurrent(st, o) PROVE Authority'
  BY <1>1, <1>4 DEF RunIfStampCurrent
<1>5. ASSUME NEW o \in Op, TakeOver(o) PROVE Authority'
  BY <1>5 DEF TakeOver, revisionVars
<1>6. ASSUME NEW o \in Op, TooLate(o) \/ Finish(o) PROVE Authority'
  BY <1>6, NoneAssumption DEF TooLate, Finish, Settle, revisionVars, Reserved
<1>7. ASSUME NEW s \in Session, AdvanceRevision(s), CancelLease(s),
             UNCHANGED <<leases, status, sessionOf, grantedAt>>
      PROVE  Authority'
  BY <1>7 DEF AdvanceRevision, CancelLease, Reserved
<1>8. CASE \/ \E s \in Session : Invalidate(s) \/ RemoveSession(s)
           \/ \E w \in Waiter, s \in Session : InvalidateAndWait(w, s)
  BY <1>7, <1>8 DEF Invalidate, RemoveSession, InvalidateAndWait
<1>9. CASE \/ \E s \in Session : CreateSession(s)
           \/ \E w \in Waiter : WaitReturns(w)
           \/ \E st \in Stamp, s \in Session : CaptureStamp(st, s)
           \/ UNCHANGED vars
  BY <1>9 DEF CreateSession, WaitReturns, CaptureStamp, vars, leaseVars, revisionVars
<1> QED
  BY <1>2, <1>3, <1>4, <1>5, <1>6, <1>8, <1>9 DEF Next, InvalidateAndWaitIfSignal

(* Whoever passes its lease check was reserved by the session's last       *)
(* lifecycle event.                                                        *)
THEOREM AuthorityHolds == Spec => []AuthorityAgrees
<1>1. Init => Authority
  BY DEF Init, Authority, Unfinished
<1>2. Queue /\ Authority /\ [Next]_vars => Authority'
  BY AuthorityInductive
<1>3. Authority => AuthorityAgrees
  BY DEF Authority, AuthorityAgrees, AssertCurrent
<1> QED
  BY <1>1, <1>2, <1>3, QueueInvariant, PTL DEF Spec

(* Together: a lease tells the truth about the work that is left and about *)
(* the right to go on.                                                     *)
THEOREM LeasesAreTrue == Spec => []LeaseTellsTheTruth
<1>1. LeaseIsNewestUnfinished /\ AuthorityAgrees => LeaseTellsTheTruth
  BY DEF LeaseTellsTheTruth
<1> QED
  BY <1>1, LeaseFollowsNewest, AuthorityHolds, PTL

-----------------------------------------------------------------------------
(* Settling pays a waiter's debt only when nothing older is left.          *)
LEMMA DebtInductive ==
  ASSUME Queue, Debt, [Next]_vars
  PROVE  Debt'
<1> USE DEF Queue, TypeOK, Debt, Unfinished
<1>1. ASSUME NEW s \in Session, NEW o \in Op, NEW phase \in {"waiting", "running"},
             Reserve(s, o, phase), UNCHANGED waitVars
      PROVE  Debt'
  BY <1>1 DEF Reserve, waitVars
<1>2. CASE \/ \E s \in Session, o \in Op : Run(s, o) \/ RunLatest(s, o)
           \/ \E st \in Stamp, o \in Op : RunIfStampCurrent(st, o)
  BY <1>1, <1>2 DEF Run, RunLatest, RunIfStampCurrent
<1>3. ASSUME NEW o \in Op, TakeOver(o) PROVE Debt'
  BY <1>3 DEF TakeOver, waitVars
<1>4. ASSUME NEW o \in Op, TooLate(o) \/ Finish(o) PROVE Debt'
  <2>1. /\ Unfinished(o)
        /\ status' = [status EXCEPT ![o] = "done"]
        /\ UNCHANGED <<sessionOf, generation, waitsOn, owed>>
        /\ status[o] = "waiting" => PredecessorGone(o)
    BY <1>4 DEF TooLate, Finish, Settle, waitVars
  <2>2. \A p \in Op : Unfinished(p) /\ sessionOf[p] = sessionOf[o] /\ p # o
             => generation[o] < generation[p]
    BY <2>1, OldestMoves
  <2> SUFFICES ASSUME NEW w \in Waiter, waitsOn[w] # None
               PROVE  /\ status'[waitsOn[w]] # "unused"
                      /\ \A p \in owed[w] :
                           \/ status'[p] = "done"
                           \/ /\ Unfinished(p)' /\ Unfinished(waitsOn[w])'
                              /\ sessionOf[p] = sessionOf[waitsOn[w]]
                              /\ generation[p] <= generation[waitsOn[w]]
    BY <2>1
  <2>3. status'[waitsOn[w]] # "unused"
    BY <2>1
  <2>4. ASSUME NEW p \in owed[w]
        PROVE  \/ status'[p] = "done"
               \/ /\ Unfinished(p)' /\ Unfinished(waitsOn[w])'
                  /\ sessionOf[p] = sessionOf[waitsOn[w]]
                  /\ generation[p] <= generation[waitsOn[w]]
    <3>1. p \in Op /\ waitsOn[w] \in Op
      OBVIOUS
    <3>2. CASE waitsOn[w] = o
      BY <2>1, <2>2, <3>1, <3>2
    <3>3. CASE waitsOn[w] # o
      BY <2>1, <3>1, <3>3
    <3> QED
      BY <3>2, <3>3
  <2> QED
    BY <2>3, <2>4
<1>5. ASSUME NEW w \in Waiter, NEW s \in Session, InvalidateAndWait(w, s) PROVE Debt'
  BY <1>5 DEF InvalidateAndWait, BeginWait, UnfinishedOn, LeaseSound, NewestHoldsLease
<1>6. ASSUME NEW w \in Waiter, WaitReturns(w) PROVE Debt'
  BY <1>6 DEF WaitReturns, leaseVars
<1>7. CASE \/ \E s \in Session : Invalidate(s) \/ RemoveSession(s) \/ CreateSession(s)
           \/ \E st \in Stamp, s \in Session : CaptureStamp(st, s)
           \/ UNCHANGED vars
  BY <1>7 DEF Invalidate, RemoveSession, CreateSession, CaptureStamp, vars, leaseVars, waitVars
<1> QED
  BY <1>2, <1>3, <1>4, <1>5, <1>6, <1>7 DEF Next, InvalidateAndWaitIfSignal

(* When the promise a waiter awaits is resolved, everything the session    *)
(* was doing at the call has unwound.                                      *)
THEOREM WaitIsFinal == Spec => []WaitCoversAllOlderWork
<1>1. Init => Debt
  BY DEF Init, Debt
<1>2. Queue /\ Debt /\ [Next]_vars => Debt'
  BY DebtInductive
<1>3. Debt => WaitCoversAllOlderWork
  BY DEF Debt, WaitCoversAllOlderWork, Unfinished
<1> QED
  BY <1>1, <1>2, <1>3, QueueInvariant, PTL DEF Spec

-----------------------------------------------------------------------------
(* No step gives a stamp a revision that is yet to come. *)
LEMMA StampsAgeInductive ==
  ASSUME TypeOK, StampsAge, [Next]_vars
  PROVE  StampsAge'
<1> USE DEF TypeOK, StampsAge
<1>1. ASSUME NEW s \in Session, AdvanceRevision(s), UNCHANGED stamp
      PROVE  StampsAge'
  BY <1>1 DEF AdvanceRevision
<1>2. CASE \/ \E s \in Session, o \in Op : Run(s, o) \/ RunLatest(s, o)
           \/ \E st \in Stamp, o \in Op : RunIfStampCurrent(st, o)
           \/ \E s \in Session : Invalidate(s) \/ RemoveSession(s)
           \/ \E w \in Waiter, s \in Session : InvalidateAndWait(w, s)
  BY <1>1, <1>2 DEF Run, RunLatest, RunIfStampCurrent, Reserve, Invalidate,
                    RemoveSession, InvalidateAndWait
<1>3. ASSUME NEW st \in Stamp, NEW s \in Session, CaptureStamp(st, s) PROVE StampsAge'
  BY <1>3 DEF CaptureStamp
<1>4. CASE \/ \E o \in Op : TakeOver(o) \/ TooLate(o) \/ Finish(o)
           \/ \E s \in Session : CreateSession(s)
           \/ \E w \in Waiter : WaitReturns(w)
           \/ UNCHANGED vars
  BY <1>4 DEF TakeOver, TooLate, Finish, Settle, CreateSession, WaitReturns, vars, revisionVars
<1> QED
  BY <1>2, <1>3, <1>4 DEF Next, InvalidateAndWaitIfSignal

(* A stamp never admits an operation after its session was disturbed.      *)
THEOREM StampsAreOneLife == Spec => StampAdmitsUndisturbed
<1>1. Init => StampsAge
  BY DEF Init, StampsAge
<1>2. TypeOK /\ StampsAge /\ [Next]_vars => StampsAge'
  BY StampsAgeInductive
<1>3. ASSUME TypeOK, StampsAge, NEW st \in Stamp, NEW o \in Op, RunIfStampCurrent(st, o)
      PROVE  st \notin disturbed
  BY <1>3 DEF RunIfStampCurrent, StampCurrent, StampsAge, TypeOK
<1>4. TypeOK /\ StampsAge =>
        \A st \in Stamp, o \in Op : RunIfStampCurrent(st, o) => st \notin disturbed
  BY <1>3
<1> QED
  BY <1>1, <1>2, <1>4, TypeCorrect, PTL DEF Spec, StampAdmitsUndisturbed

-----------------------------------------------------------------------------
(* Refinement: the running callback is the lock's holder, an uncancelled   *)
(* operation that waits with the lease is its heir.                        *)
WorksOn(o, s) == o \in Op /\ status[o] = "running" /\ sessionOf[o] = s

(* The holder is the operation that runs, if there is one. *)
LEMMA HolderIsRunning ==
  ASSUME OneCallbackPerSession, NEW s \in Session
  PROVE  /\ \A o : WorksOn(o, s) => Holder(s) = o
         /\ Holder(s) # None => WorksOn(Holder(s), s)
<1> DEFINE running == {o \in UnfinishedOn(s) : status[o] = "running"}
<1>1. \A o : WorksOn(o, s) <=> o \in running
  BY DEF WorksOn, UnfinishedOn, Unfinished
<1>2. \A o, p \in running : o = p
  BY DEF OneCallbackPerSession
<1>3. Holder(s) = IF running = {} THEN None ELSE CHOOSE o \in running : TRUE
  BY DEF Holder
<1> HIDE DEF running
<1>4. CASE running = {}
  BY <1>1, <1>3, <1>4
<1>5. ASSUME running # {} PROVE Holder(s) \in running
  BY <1>3, <1>5
<1> QED
  BY <1>1, <1>2, <1>4, <1>5

(* The same fact about the next state.                                     *)
LEMMA HolderWillBeRunning ==
  ASSUME OneCallbackPerSession', NEW s \in Session
  PROVE  /\ \A o : WorksOn(o, s)' => Holder(s)' = o
         /\ Holder(s)' # None => (WorksOn(Holder(s), s))'
<1> DEFINE running == {o \in UnfinishedOn(s)' : status'[o] = "running"}
<1>1. \A o : WorksOn(o, s)' <=> o \in running
  BY DEF WorksOn, UnfinishedOn, Unfinished
<1>2. \A o, p \in running : o = p
  BY DEF OneCallbackPerSession
<1>3. Holder(s)' = IF running = {} THEN None ELSE CHOOSE o \in running : TRUE
  BY DEF Holder
<1> HIDE DEF running
<1>4. CASE running = {}
  BY <1>1, <1>3, <1>4
<1>5. ASSUME running # {} PROVE Holder(s)' \in running
  BY <1>3, <1>5
<1>6. ASSUME Holder(s)' # None PROVE (WorksOn(Holder(s), s))'
  <2>1. Holder(s)' \in running
    BY <1>3, <1>5, <1>6
  <2> QED
    BY <2>1, <1>1 DEF WorksOn
<1>7. \A o : WorksOn(o, s)' => Holder(s)' = o
  BY <1>1, <1>2, <1>4, <1>5
<1> QED
  BY <1>6, <1>7

(* It stays the same while the same operations run. *)
LEMMA HolderStays ==
  ASSUME OneCallbackPerSession, OneCallbackPerSession', NEW s \in Session,
         \A o \in Op : WorksOn(o, s)' <=> WorksOn(o, s)
  PROVE  Holder(s)' = Holder(s)
<1>1. CASE Holder(s) # None
  BY <1>1, HolderIsRunning, HolderWillBeRunning DEF WorksOn
<1>2. CASE Holder(s)' # None
  <2>1. (WorksOn(Holder(s), s))'
    BY <1>2, HolderWillBeRunning
  <2>2. Holder(s)' \in Op /\ WorksOn(Holder(s)', s)
    BY <2>1 DEF WorksOn
  <2> QED
    BY <2>2, HolderIsRunning
<1>3. CASE Holder(s) = None /\ Holder(s)' = None
  BY <1>3
<1> QED
  BY <1>1, <1>2, <1>3

(* Nothing cancels an operation before it is reserved.                     *)
Fresh == \A o \in Op : status[o] = "unused" => ~cancelled[o]

(* Every step keeps unused operations uncancelled. *)
LEMMA FreshInductive ==
  ASSUME Queue, Fresh, [Next]_vars
  PROVE  Fresh'
<1> USE DEF Queue, TypeOK, Fresh, LeaseSound, Unfinished
<1>1. CASE \/ \E s \in Session, o \in Op : Run(s, o)
           \/ \E st \in Stamp, o \in Op : RunIfStampCurrent(st, o)
  BY <1>1 DEF Run, RunIfStampCurrent, Reserve
<1>2. CASE \E s \in Session, o \in Op : RunLatest(s, o)
  BY <1>2, NoneAssumption DEF RunLatest, Reserve, CancelLease
<1>3. CASE \E o \in Op : TakeOver(o) \/ TooLate(o) \/ Finish(o)
  BY <1>3 DEF TakeOver, TooLate, Finish, Settle
<1>4. CASE \/ \E s \in Session : Invalidate(s) \/ RemoveSession(s)
           \/ \E w \in Waiter, s \in Session : InvalidateAndWait(w, s)
  BY <1>4, NoneAssumption DEF Invalidate, RemoveSession, InvalidateAndWait, CancelLease
<1>5. CASE \/ \E s \in Session : CreateSession(s)
           \/ \E w \in Waiter : WaitReturns(w)
           \/ \E st \in Stamp, s \in Session : CaptureStamp(st, s)
           \/ UNCHANGED vars
  BY <1>5 DEF CreateSession, WaitReturns, CaptureStamp, vars, leaseVars
<1> QED
  BY <1>1, <1>2, <1>3, <1>4, <1>5 DEF Next, InvalidateAndWaitIfSignal

IInv == Queue /\ Fresh

-----------------------------------------------------------------------------
(* One step of the coordinator is one step of the lock, or none.           *)
spent == {o \in Op : status[o] # "unused"}
holders == [s \in Session |-> Holder(s)]
heirs == [s \in Session |-> Heir(s)]

(* An operation that starts at once acquires the free lock. *)
LEMMA StartAcquires ==
  ASSUME IInv, IInv', OneCallbackPerSession, OneCallbackPerSession',
         NEW s \in Session, NEW o \in Op, leases[s] = None,
         Reserve(s, o, "running"), UNCHANGED cancelled
  PROVE  Lock!Acquire(s, o)
<1> USE DEF IInv, Queue, TypeOK, Unfinished
<1>1. \A p \in Op : ~WorksOn(p, s)
  BY NoneAssumption DEF NewestHoldsLease, WorksOn
<1>2. Holder(s) = None
  BY <1>1, HolderIsRunning DEF WorksOn
<1>3. Heir(s) = None
  BY DEF Heir
<1>4. WorksOn(o, s)' /\ \A p \in Op, r \in Session \ {s} : WorksOn(p, r)' <=> WorksOn(p, r)
  BY DEF Reserve, WorksOn, Reserved
<1>5. Holder(s)' = o /\ \A r \in Session \ {s} : Holder(r)' = Holder(r)
  BY <1>4, HolderWillBeRunning, HolderStays
<1>6. holders' = [holders EXCEPT ![s] = o]
  BY <1>5 DEF holders
<1>7. \A r \in Session : Heir(r)' = Heir(r)
  BY <1>3, NoneAssumption DEF Heir, Reserve, LeaseSound
<1>8. heirs' = heirs
  BY <1>7 DEF heirs
<1>9. o \notin spent /\ spent' = spent \cup {o}
  BY DEF Reserve, spent
<1> QED
  BY <1>2, <1>3, <1>6, <1>8, <1>9 DEF Lock!Acquire, holders, heirs, spent

(* A replacement claims the lock of its predecessor. *)
LEMMA ReplacementClaims ==
  ASSUME IInv, IInv', OneCallbackPerSession, OneCallbackPerSession',
         NEW s \in Session, NEW o \in Op, RunLatest(s, o)
  PROVE  Lock!Claim(s, o)
<1> USE DEF IInv, Queue, TypeOK, Unfinished
<1>1. Reserve(s, o, "waiting") /\ CancelLease(s)
  BY DEF RunLatest
<1>2. \A p \in Op, r \in Session : WorksOn(p, r)' <=> WorksOn(p, r)
  BY <1>1 DEF Reserve, WorksOn
<1>3. holders' = holders
  BY <1>2, HolderStays DEF holders
<1>4. ~cancelled'[o]
  BY <1>1, NoneAssumption DEF Reserve, CancelLease, Fresh, LeaseSound
<1>5. Heir(s)' = o
  BY <1>1, <1>4, NoneAssumption DEF Reserve, Heir
<1>6. \A r \in Session \ {s} : Heir(r)' = Heir(r)
  BY <1>1, NoneAssumption DEF Reserve, CancelLease, Heir, LeaseSound
<1>7. heirs' = [heirs EXCEPT ![s] = o]
  BY <1>5, <1>6 DEF heirs
<1>8. o \notin spent /\ spent' = spent \cup {o}
  BY <1>1 DEF Reserve, spent
<1> QED
  BY <1>3, <1>7, <1>8 DEF Lock!Claim, holders, heirs, spent

(* The heir that takes over inherits the lock. *)
LEMMA TakingOverInherits ==
  ASSUME IInv, IInv', OneCallbackPerSession, OneCallbackPerSession',
         NEW s \in Session, NEW o \in Op, sessionOf[o] = s, TakeOver(o)
  PROVE  Lock!Inherit(s)
<1> USE DEF IInv, Queue, TypeOK, Unfinished
<1>1. /\ leases[s] = o /\ ~cancelled[o]
      /\ status[o] = "waiting" /\ PredecessorGone(o)
      /\ status' = [status EXCEPT ![o] = "running"]
      /\ UNCHANGED <<leases, sessionOf, cancelled>>
  BY DEF TakeOver, AssertCurrent, Reserved
<1>2. \A p \in Op : Unfinished(p) /\ sessionOf[p] = sessionOf[o] /\ p # o
           => generation[o] < generation[p]
  BY <1>1, OldestMoves
<1>3. \A p \in Op : ~WorksOn(p, s)
  <2> SUFFICES ASSUME NEW p \in Op, WorksOn(p, s) PROVE FALSE
    OBVIOUS
  <2>1. Unfinished(p) /\ sessionOf[p] = sessionOf[o] /\ p # o
    BY <1>1 DEF WorksOn
  <2>2. generation[o] < generation[p] /\ generation[p] <= generation[o]
    BY <2>1, <1>1, <1>2 DEF NewestHoldsLease
  <2>3. generation[o] \in Nat /\ generation[p] \in Nat
    OBVIOUS
  <2> QED
    BY <2>2, <2>3
<1>4. Holder(s) = None /\ Heir(s) = o
  BY <1>1, <1>3, HolderIsRunning, NoneAssumption DEF WorksOn, Heir
<1>5. WorksOn(o, s)' /\ \A p \in Op, r \in Session \ {s} : WorksOn(p, r)' <=> WorksOn(p, r)
  BY <1>1 DEF WorksOn
<1>6. Holder(s)' = o /\ \A r \in Session \ {s} : Holder(r)' = Holder(r)
  BY <1>1, <1>5, HolderWillBeRunning, HolderStays
<1>7. Heir(s)' = None
  BY <1>1 DEF Heir
<1>8. \A r \in Session \ {s} : Heir(r)' = Heir(r)
  BY <1>1, NoneAssumption DEF Heir, LeaseSound
<1>9. holders' = [holders EXCEPT ![s] = o] /\ heirs' = [heirs EXCEPT ![s] = None]
  BY <1>6, <1>7, <1>8 DEF holders, heirs
<1>10. spent' = spent
  BY <1>1 DEF spent
<1> QED
  BY <1>1, <1>4, <1>9, <1>10, NoneAssumption DEF Lock!Inherit, holders, heirs, spent

(* The callback that ends releases the lock. *)
LEMMA FinishingReleases ==
  ASSUME IInv, IInv', OneCallbackPerSession, OneCallbackPerSession',
         NEW s \in Session, NEW o \in Op, sessionOf[o] = s, Finish(o)
  PROVE  Lock!Release(s)
<1> USE DEF IInv, Queue, TypeOK, Unfinished
<1>1. /\ status[o] = "running"
      /\ status' = [status EXCEPT ![o] = "done"]
      /\ leases' = [r \in Session |-> IF leases[r] = o THEN None ELSE leases[r]]
      /\ UNCHANGED <<sessionOf, cancelled>>
  BY DEF Finish, Settle, Reserved
<1>2. WorksOn(o, s)
  BY <1>1 DEF WorksOn
<1>3. Holder(s) = o
  BY <1>1, <1>2, HolderIsRunning
<1>4. ~WorksOn(o, s)' /\ \A p \in Op, r \in Session : p # o => (WorksOn(p, r)' <=> WorksOn(p, r))
  BY <1>1 DEF WorksOn
<1>5. \A p \in Op : ~WorksOn(p, s)'
  BY <1>1, <1>3, <1>4, HolderIsRunning
<1>6. Holder(s)' = None
  BY <1>1, <1>5, HolderWillBeRunning DEF WorksOn
<1>7. \A r \in Session \ {s} : Holder(r)' = Holder(r)
  BY <1>1, <1>4, HolderStays DEF WorksOn
<1>8. \A r \in Session : Heir(r)' = Heir(r)
  BY <1>1, NoneAssumption DEF Heir, LeaseSound
<1>9. holders' = [holders EXCEPT ![s] = None] /\ heirs' = heirs
  BY <1>6, <1>7, <1>8 DEF holders, heirs
<1>10. spent' = spent
  BY <1>1 DEF spent
<1> QED
  BY <1>1, <1>2, <1>3, <1>9, <1>10, NoneAssumption
  DEF Lock!Release, holders, heirs, spent, WorksOn

(* A claimant that lost its claim leaves; what is left of the claim goes.  *)
LEMMA LeavingRevokes ==
  ASSUME IInv, IInv', OneCallbackPerSession, OneCallbackPerSession',
         NEW s \in Session, NEW o \in Op, sessionOf[o] = s, TooLate(o)
  PROVE  Lock!Revoke(s) \/ UNCHANGED <<holders, heirs, spent>>
<1> USE DEF IInv, Queue, TypeOK, Unfinished
<1>1. /\ status[o] = "waiting"
      /\ status' = [status EXCEPT ![o] = "done"]
      /\ leases' = [r \in Session |-> IF leases[r] = o THEN None ELSE leases[r]]
      /\ UNCHANGED <<sessionOf, cancelled>>
  BY DEF TooLate, Settle, Reserved
<1>2. \A p \in Op, r \in Session : WorksOn(p, r)' <=> WorksOn(p, r)
  BY <1>1 DEF WorksOn
<1>3. holders' = holders
  BY <1>2, HolderStays DEF holders
<1>4. spent' = spent
  BY <1>1 DEF spent
<1>5. \A r \in Session \ {s} : Heir(r)' = Heir(r)
  BY <1>1, NoneAssumption DEF Heir, LeaseSound
<1>6. Heir(s)' \in {None, Heir(s)}
  BY <1>1, NoneAssumption DEF Heir, LeaseSound
<1>7. heirs' = [heirs EXCEPT ![s] = None] \/ heirs' = heirs
  BY <1>1, <1>5, <1>6 DEF heirs
<1> QED
  BY <1>1, <1>3, <1>4, <1>7 DEF Lock!Revoke, holders, heirs, spent

(* A cancelled lease revokes the claim it had, if any. *)
LEMMA CancellingRevokes ==
  ASSUME IInv, IInv', OneCallbackPerSession, OneCallbackPerSession',
         NEW s \in Session, CancelLease(s), UNCHANGED <<leases, status, sessionOf>>
  PROVE  Lock!Revoke(s) \/ UNCHANGED <<holders, heirs, spent>>
<1> USE DEF IInv, Queue, TypeOK, Unfinished
<1>1. \A p \in Op, r \in Session : WorksOn(p, r)' <=> WorksOn(p, r)
  BY DEF WorksOn
<1>2. holders' = holders
  BY <1>1, HolderStays DEF holders
<1>3. spent' = spent
  BY DEF spent
<1>4. leases[s] # None => cancelled'[leases[s]]
  BY DEF CancelLease
<1>5. Heir(s)' = None
  BY <1>4 DEF Heir
<1>6. \A r \in Session \ {s} : leases[r] # None => cancelled'[leases[r]] = cancelled[leases[r]]
  BY DEF CancelLease, LeaseSound
<1>7. \A r \in Session \ {s} : Heir(r)' = Heir(r)
  BY <1>6 DEF Heir
<1>8. heirs' = [heirs EXCEPT ![s] = None]
  BY <1>5, <1>7 DEF heirs
<1> QED
  BY <1>2, <1>3, <1>8 DEF Lock!Revoke, holders, heirs, spent

(* Every step is one of the lock, or leaves the lock as it is. *)
LEMMA StepRefines ==
  ASSUME IInv, IInv', OneCallbackPerSession, OneCallbackPerSession', [Next]_vars
  PROVE  [Lock!Next]_(Lock!vars)
<1>1. ASSUME NEW s \in Session, NEW o \in Op, Run(s, o) PROVE Lock!Next
  BY <1>1, StartAcquires DEF Run, Lock!Next
<1>2. ASSUME NEW s \in Session, NEW o \in Op, RunLatest(s, o) PROVE Lock!Next
  BY <1>2, ReplacementClaims DEF Lock!Next
<1>3. ASSUME NEW st \in Stamp, NEW o \in Op, RunIfStampCurrent(st, o) PROVE Lock!Next
  <2>1. stamp[st].sessionId \in Session
    BY <1>3 DEF RunIfStampCurrent, IInv, Queue, TypeOK
  <2> QED
    BY <1>3, <2>1, StartAcquires DEF RunIfStampCurrent, Lock!Next
<1>4. ASSUME NEW o \in Op, TakeOver(o) PROVE Lock!Next
  <2>1. sessionOf[o] \in Session
    BY <1>4 DEF TakeOver, IInv, Queue, Reserved
  <2> QED
    BY <1>4, <2>1, TakingOverInherits DEF Lock!Next
<1>5. ASSUME NEW o \in Op, Finish(o) PROVE Lock!Next
  <2>1. sessionOf[o] \in Session
    BY <1>5 DEF Finish, IInv, Queue, Reserved
  <2> QED
    BY <1>5, <2>1, FinishingReleases DEF Lock!Next
<1>6. ASSUME NEW o \in Op, TooLate(o) PROVE Lock!Next \/ UNCHANGED <<holders, heirs, spent>>
  <2>1. sessionOf[o] \in Session
    BY <1>6 DEF TooLate, IInv, Queue, Reserved
  <2> QED
    BY <1>6, <2>1, LeavingRevokes DEF Lock!Next
<1>7. ASSUME NEW s \in Session,
             \/ Invalidate(s) \/ RemoveSession(s)
             \/ \E w \in Waiter : InvalidateAndWait(w, s)
      PROVE  Lock!Next \/ UNCHANGED <<holders, heirs, spent>>
  BY <1>7, CancellingRevokes DEF Invalidate, RemoveSession, InvalidateAndWait, Lock!Next
<1>8. ASSUME UNCHANGED <<leases, status, sessionOf, cancelled>>
      PROVE  UNCHANGED <<holders, heirs, spent>>
  BY <1>8 DEF holders, heirs, spent, Holder, Heir, UnfinishedOn, Unfinished
<1>9. ASSUME \/ \E s \in Session : CreateSession(s)
             \/ \E w \in Waiter : WaitReturns(w)
             \/ \E st \in Stamp, s \in Session : CaptureStamp(st, s)
             \/ UNCHANGED vars
      PROVE  UNCHANGED <<holders, heirs, spent>>
  BY <1>8, <1>9 DEF CreateSession, WaitReturns, CaptureStamp, vars, leaseVars
<1>10. Lock!Next \/ UNCHANGED <<holders, heirs, spent>>
  <2>1. CASE \/ \E s \in Session, o \in Op : Run(s, o) \/ RunLatest(s, o)
             \/ \E st \in Stamp, o \in Op : RunIfStampCurrent(st, o)
             \/ \E o \in Op : TakeOver(o) \/ Finish(o)
    BY <1>1, <1>2, <1>3, <1>4, <1>5, <2>1
  <2>2. CASE \E o \in Op : TooLate(o)
    BY <1>6, <2>2
  <2>3. CASE \E s \in Session : \/ Invalidate(s) \/ RemoveSession(s)
                               \/ \E w \in Waiter : InvalidateAndWait(w, s)
    BY <1>7, <2>3
  <2> QED
    BY <1>9, <2>1, <2>2, <2>3 DEF Next, InvalidateAndWaitIfSignal
<1>11. ASSUME UNCHANGED <<holders, heirs, spent>> PROVE UNCHANGED Lock!vars
  BY <1>11 DEF Lock!vars, holders, heirs, spent
<1> QED
  BY <1>10, <1>11

(* The coordinator implements the per-session lock.                        *)
THEOREM CoordinatorIsALock == Spec => ImplementsLock
<1>1. Init => Lock!Init
  BY DEF Init, Lock!Init, Holder, Heir, UnfinishedOn, Unfinished
<1>2. Init => Fresh
  BY DEF Init, Fresh
<1>3. Queue /\ Fresh /\ [Next]_vars => Fresh'
  BY FreshInductive
<1>4. Queue => OneCallbackPerSession
  BY ExclusionFromQueue
<1>5. /\ Queue /\ Fresh /\ Queue' /\ Fresh'
      /\ OneCallbackPerSession /\ OneCallbackPerSession' /\ [Next]_vars
      => [Lock!Next]_(Lock!vars)
  BY StepRefines DEF IInv
<1> QED
  BY <1>1, <1>2, <1>3, <1>4, <1>5, QueueInvariant, PTL DEF Spec, ImplementsLock, Lock!Spec
=============================================================================
