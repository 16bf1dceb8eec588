-------------------------- MODULE SessionOperation --------------------------
(***************************************************************************)
(* SessionOperationCoordinator (coordination/session-operation.ts): the    *)
(* terminal-mutating operations of a development session are serialised by *)
(* a lease per session.  An operation's callback starts at once (run,      *)
(* runIfStampCurrent) or after its predecessor has unwound (runLatest).    *)
(* Cancelling makes every later ownership check of the callback fail, but  *)
(* the lease stays occupied until the callback has settled.                *)
(*                                                                         *)
(* Op is the set of calls of the three run methods: each call is used      *)
(* once and stands for its SessionOperationLease object as well.           *)
(***************************************************************************)
EXTENDS Naturals

CONSTANTS Session,      \* workspace session ids
          Op,           \* calls of run, runIfStampCurrent and runLatest
          Waiter,       \* callers of invalidateAndWait(IfSignal)
          Stamp,        \* holders of a SessionOperationStamp
          None,         \* absence of an operation, a session or a stamp
          MaxRevision   \* bound on the revision counter

ASSUME NoneAssumption == None \notin Op \cup Session

ASSUME MaxRevisionAssumption == MaxRevision \in Nat

VARIABLES
  live,                 \* the sessions hasSession answers TRUE for
  leases,               \* session -> the operation that holds its lease
  revisionBySession,    \* session -> revision of its last lifecycle event
  nextRevision,
  nextGeneration,
  status,               \* progress of each operation's callback
  sessionOf,            \* the session an operation was reserved for
  cancelled,            \* lease.cancelled, and its aborted signal
  generation,           \* lease.generation
  predecessor,          \* whose completed promise runLatest awaits
  waitsOn,              \* waiter -> the operation whose completed it awaits
  stamp,                \* stamp holder -> captured stamp
  owed,                 \* history: unfinished operations when a wait began
  disturbed,            \* history: stamps whose session saw an event since
  grantedAt             \* history: revision an operation's reservation made

leaseVars == <<leases, status, sessionOf, cancelled, generation, predecessor,
               nextGeneration, grantedAt>>
revisionVars == <<revisionBySession, nextRevision, disturbed>>
waitVars == <<waitsOn, owed>>
vars == <<live, leaseVars, revisionVars, waitVars, stamp>>

Unfinished(o) == status[o] \in {"waiting", "running"}

UnfinishedOn(s) == {o \in Op : Unfinished(o) /\ sessionOf[o] = s}

(* The check an operation is handed: it still owns its session.            *)
AssertCurrent(o) == /\ ~cancelled[o]
                    /\ leases[sessionOf[o]] = o
                    /\ sessionOf[o] \in live

StampCurrent(st) == /\ stamp[st].sessionId \in live
                    /\ revisionBySession[stamp[st].sessionId] = stamp[st].revision

Init == /\ live = Session
        /\ leases = [s \in Session |-> None]
        /\ revisionBySession = [s \in Session |-> 0]
        /\ nextRevision = 0
        /\ nextGeneration = 0
        /\ status = [o \in Op |-> "unused"]
        /\ sessionOf = [o \in Op |-> None]
        /\ cancelled = [o \in Op |-> FALSE]
        /\ generation = [o \in Op |-> 0]
        /\ predecessor = [o \in Op |-> None]
        /\ waitsOn = [w \in Waiter |-> None]
        /\ stamp = [st \in Stamp |-> None]
        /\ owed = [w \in Waiter |-> {}]
        /\ disturbed = {}
        /\ grantedAt = [o \in Op |-> 0]

(* Every lifecycle event of a session takes a fresh revision.              *)
AdvanceRevision(s) ==
  /\ nextRevision < MaxRevision
  /\ nextRevision' = nextRevision + 1
  /\ revisionBySession' = [revisionBySession EXCEPT ![s] = nextRevision + 1]
  /\ disturbed' = disturbed \cup
       {st \in Stamp : stamp[st] # None /\ stamp[st].sessionId = s}

(* Faulty variant: the signal is aborted, lease.cancelled is not set.      *)
CancelLeaseSignalOnly(s) == s \in Session /\ cancelled' = cancelled

(* cancel(lease) on whatever holds the lease of s, if anything does.       *)
CancelLease(s) == cancelled' = [o \in Op |-> cancelled[o] \/ o = leases[s]]

(* A fresh lease for o, put in the map whatever was there before.          *)
Reserve(s, o, initial) ==
  /\ status[o] = "unused"
  /\ AdvanceRevision(s)
  /\ nextGeneration' = nextGeneration + 1
  /\ generation' = [generation EXCEPT ![o] = nextGeneration + 1]
  /\ grantedAt' = [grantedAt EXCEPT ![o] = nextRevision + 1]
  /\ leases' = [leases EXCEPT ![s] = o]
  /\ sessionOf' = [sessionOf EXCEPT ![o] = s]
  /\ status' = [status EXCEPT ![o] = initial]

(* Faulty variant: a leased session is not refused.                        *)
RunWithoutBusyCheck(s, o) ==
  /\ Reserve(s, o, "running")
  /\ UNCHANGED <<live, cancelled, predecessor, waitVars, stamp>>

(* run: refused while the session is leased, even by a cancelled operation *)
(* that is still unwinding; otherwise the callback starts synchronously.   *)
Run(s, o) ==
  /\ leases[s] = None
  /\ Reserve(s, o, "running")
  /\ UNCHANGED <<live, cancelled, predecessor, waitVars, stamp>>

(* runIfStampCurrent: admitted only if nothing happened since the capture. *)
RunIfStampCurrent(st, o) ==
  /\ stamp[st] # None
  /\ leases[stamp[st].sessionId] = None
  /\ StampCurrent(st)
  /\ Reserve(stamp[st].sessionId, o, "running")
  /\ UNCHANGED <<live, cancelled, predecessor, waitVars, stamp>>

(* runLatest: cancels the holder, takes the lease over its head and waits  *)
(* for it to unwind.                                                       *)
RunLatest(s, o) ==
  /\ CancelLease(s)
  /\ predecessor' = [predecessor EXCEPT ![o] = leases[s]]
  /\ Reserve(s, o, "waiting")
  /\ UNCHANGED <<live, waitVars, stamp>>

(* Faulty variant: the predecessor is cancelled but not awaited.           *)
PredecessorNotAwaited(o) == o \in Op

PredecessorGone(o) == predecessor[o] # None => status[predecessor[o]] = "done"

(* Faulty variant: completed is resolved only while the lease is still o's.*)
SettleOnlyAsOwner(o) ==
  /\ status' = [status EXCEPT ![o] = IF leases[sessionOf[o]] = o THEN "done" ELSE @]
  /\ leases' = [s \in Session |-> IF leases[s] = o THEN None ELSE leases[s]]
  /\ UNCHANGED <<live, sessionOf, cancelled, generation, predecessor,
                 nextGeneration, grantedAt, revisionVars, waitVars, stamp>>

(* The finally clause of execute: the lease is given up if it is still o's,*)
(* and completed is resolved.                                              *)
Settle(o) ==
  /\ status' = [status EXCEPT ![o] = "done"]
  /\ leases' = [s \in Session |-> IF leases[s] = o THEN None ELSE leases[s]]
  /\ UNCHANGED <<live, sessionOf, cancelled, generation, predecessor,
                 nextGeneration, grantedAt, revisionVars, waitVars,
                 stamp>>

(* runLatest's continuation: the callback proper starts ...                *)
TakeOver(o) ==
  /\ status[o] = "waiting"
  /\ PredecessorGone(o)
  /\ AssertCurrent(o)
  /\ status' = [status EXCEPT ![o] = "running"]
  /\ UNCHANGED <<live, leases, sessionOf, cancelled, generation, predecessor,
                 nextGeneration, grantedAt, revisionVars, waitVars,
                 stamp>>

(* Faulty variants: the check comes before the await of the predecessor;   *)
(* a claimant that lost its claim is dropped without unwinding.            *)
TooLateBeforeAwait(o) == status[o] = "waiting" /\ ~AssertCurrent(o) /\ Settle(o)

(* ... or fails its first check and unwinds.                               *)
TooLate(o) == /\ status[o] = "waiting"
              /\ PredecessorGone(o)
              /\ ~AssertCurrent(o)
              /\ Settle(o)

(* The callback returns or throws.                                         *)
Finish(o) == status[o] = "running" /\ Settle(o)

Invalidate(s) ==
  /\ AdvanceRevision(s)
  /\ CancelLease(s)
  /\ UNCHANGED <<live, leases, status, sessionOf, generation, predecessor,
                 nextGeneration, grantedAt, waitVars, stamp>>

(* The caller awaits lease.completed; without a lease it is not blocked.   *)
BeginWait(w, s) ==
  /\ waitsOn[w] = None
  /\ waitsOn' = [waitsOn EXCEPT ![w] = leases[s]]
  /\ owed' = [owed EXCEPT ![w] = UnfinishedOn(s)]

InvalidateAndWait(w, s) ==
  /\ AdvanceRevision(s)
  /\ CancelLease(s)
  /\ BeginWait(w, s)
  /\ UNCHANGED <<live, leases, status, sessionOf, generation, predecessor,
                 nextGeneration, grantedAt, stamp>>

(* Acts only on the lease whose signal the caller was handed.              *)
InvalidateAndWaitIfSignal(w, s, o) ==
  /\ leases[s] = o
  /\ InvalidateAndWait(w, s)

WaitReturns(w) ==
  /\ waitsOn[w] # None
  /\ status[waitsOn[w]] = "done"
  /\ waitsOn' = [waitsOn EXCEPT ![w] = None]
  /\ owed' = [owed EXCEPT ![w] = {}]
  /\ UNCHANGED <<live, leaseVars, revisionVars, stamp>>

CaptureStamp(st, s) ==
  /\ s \in live
  /\ stamp' = [stamp EXCEPT ![st] =
                 [sessionId |-> s, revision |-> revisionBySession[s]]]
  /\ disturbed' = disturbed \ {st}
  /\ UNCHANGED <<live, leaseVars, revisionBySession, nextRevision,
                 waitVars>>

(* Faulty variant: the revision is deleted together with the session.      *)
RemoveSessionForgetsRevision(s) ==
  /\ s \in live
  /\ live' = live \ {s}
  /\ nextRevision < MaxRevision
  /\ nextRevision' = nextRevision + 1
  /\ revisionBySession' = [revisionBySession EXCEPT ![s] = 0]
  /\ disturbed' = disturbed \cup
       {st \in Stamp : stamp[st] # None /\ stamp[st].sessionId = s}
  /\ CancelLease(s)
  /\ UNCHANGED <<leases, status, sessionOf, generation, predecessor,
                 nextGeneration, grantedAt, waitVars, stamp>>

(* The workspace closed the session: its revision stays as a tombstone.    *)
RemoveSession(s) ==
  /\ s \in live
  /\ live' = live \ {s}
  /\ AdvanceRevision(s)
  /\ CancelLease(s)
  /\ UNCHANGED <<leases, status, sessionOf, generation, predecessor,
                 nextGeneration, grantedAt, waitVars, stamp>>

(* The same opaque id comes back.                                          *)
CreateSession(s) ==
  /\ s \notin live
  /\ live' = live \cup {s}
  /\ UNCHANGED <<leaseVars, revisionVars, waitVars, stamp>>

Next ==
  \/ \E s \in Session, o \in Op : Run(s, o) \/ RunLatest(s, o)
  \/ \E st \in Stamp, o \in Op : RunIfStampCurrent(st, o)
  \/ \E o \in Op : TakeOver(o) \/ TooLate(o) \/ Finish(o)
  \/ \E s \in Session : Invalidate(s) \/ RemoveSession(s) \/ CreateSession(s)
  \/ \E w \in Waiter, s \in Session : InvalidateAndWait(w, s)
  \/ \E w \in Waiter, s \in Session, o \in Op : InvalidateAndWaitIfSignal(w, s, o)
  \/ \E w \in Waiter : WaitReturns(w)
  \/ \E st \in Stamp, s \in Session : CaptureStamp(st, s)

(* Callbacks settle (every one of them awaits bounded work or unwinds on   *)
(* its aborted signal), and continuations of resolved promises run.        *)
Fairness == /\ \A o \in Op : WF_vars(Finish(o)) /\ WF_vars(TakeOver(o) \/ TooLate(o))
            /\ \A w \in Waiter : WF_vars(WaitReturns(w))

Spec == Init /\ [][Next]_vars

FairSpec == Spec /\ Fairness

-----------------------------------------------------------------------------

TypeOK ==
  /\ live \subseteq Session
  /\ leases \in [Session -> Op \cup {None}]
  /\ nextRevision \in Nat
  /\ revisionBySession \in [Session -> 0 .. nextRevision]
  /\ nextGeneration \in Nat
  /\ status \in [Op -> {"unused", "waiting", "running", "done"}]
  /\ sessionOf \in [Op -> Session \cup {None}]
  /\ cancelled \in [Op -> BOOLEAN]
  /\ generation \in [Op -> 0 .. nextGeneration]
  /\ predecessor \in [Op -> Op \cup {None}]
  /\ waitsOn \in [Waiter -> Op \cup {None}]
  /\ stamp \in [Stamp -> [sessionId : Session, revision : 0 .. nextRevision] \cup {None}]
  /\ owed \in [Waiter -> SUBSET Op]
  /\ disturbed \subseteq Stamp
  /\ grantedAt \in [Op -> 0 .. nextRevision]

(* Serialisation: no two callbacks work on one session at the same time,   *)
(* a cancelled one that is still unwinding included.                       *)
OneCallbackPerSession ==
  \A s \in Session : \A o, p \in UnfinishedOn(s) :
    status[o] = "running" /\ status[p] = "running" => o = p

(* The lease map never forgets an operation that has not settled: while    *)
(* any is left, the newest one holds the lease, so isBusy cannot be FALSE  *)
(* during the cleanup of an operation somebody replaced or cancelled.      *)
LeaseIsNewestUnfinished ==
  \A s \in Session : \A o \in UnfinishedOn(s) :
    /\ leases[s] # None
    /\ generation[o] <= generation[leases[s]]

(* The lease check and the revision stamps are two records of the same     *)
(* authority: an operation that still passes assertCurrent was reserved by *)
(* the session's last lifecycle event, so no invalidation came in between. *)
AuthorityAgrees ==
  \A o \in Op : Unfinished(o) /\ AssertCurrent(o) =>
    revisionBySession[sessionOf[o]] = grantedAt[o]

(* So whoever asks the lease gets the truth: about the work that is left,  *)
(* and about the right to go on.                                           *)
LeaseTellsTheTruth == LeaseIsNewestUnfinished /\ AuthorityAgrees

(* A finished wait is final: when the promise of invalidateAndWait is      *)
(* resolved, every operation the session had at the call has settled, also *)
(* the older ones the awaited lease had itself replaced.                   *)
WaitCoversAllOlderWork ==
  \A w \in Waiter : waitsOn[w] # None /\ status[waitsOn[w]] = "done" =>
    \A o \in owed[w] : status[o] = "done"

(* A stamp admits an operation only if nothing was reserved, invalidated   *)
(* or removed on its session since the capture, recreation included.       *)
StampAdmitsUndisturbed ==
  [][\A st \in Stamp, o \in Op : RunIfStampCurrent(st, o) => st \notin disturbed]_vars

(* Every caller of invalidateAndWait gets its answer, and every runLatest  *)
(* either starts its callback or unwinds, however long the chain of        *)
(* replaced and cancelled operations it is queued behind.                  *)
NobodyWaitsForever ==
  /\ \A w \in Waiter : waitsOn[w] # None ~> waitsOn[w] = None
  /\ \A o \in Op : status[o] = "waiting" ~> status[o] # "waiting"

-----------------------------------------------------------------------------

(* The operation whose callback works on s, and the claimant entitled to   *)
(* follow it.                                                              *)
Holder(s) == LET running == {o \in UnfinishedOn(s) : status[o] = "running"}
             IN  IF running = {} THEN None ELSE CHOOSE o \in running : TRUE

Heir(s) == IF /\ leases[s] # None
              /\ status[leases[s]] = "waiting"
              /\ ~cancelled[leases[s]]
           THEN leases[s] ELSE None

Lock == INSTANCE SessionLock WITH
          holder <- [s \in Session |-> Holder(s)],
          heir <- [s \in Session |-> Heir(s)],
          spent <- {o \in Op : status[o] # "unused"}

(* The coordinator implements the lock: it never grants a session that is  *)
(* still held and a replaced claimant never gets it.                       *)
ImplementsLock == Lock!Spec
=============================================================================
