-------------------------- MODULE NetworkPreflight --------------------------
(***************************************************************************)
(* Who may talk to a provider, and through which route:                    *)
(* network/provider-access-guard.ts (withAllowed, recheck, bypass) and     *)
(* network/preflight-service.ts, on the leases of ApplicationProxy.        *)
(*                                                                         *)
(* A caller acquires a lease, gets the verdict of a check (run) made under *)
(* the same epochs, its own, a shared one or a cached one, and works under *)
(* the lease until its operation and everything nested in it has ended.    *)
(* A caller that joins a run gives its lease back and uses the run's.      *)
(* A nested operation uses the lease of the one it is part of.  A blocked  *)
(* caller may have the user decide: check again, by force, or go on        *)
(* without a verdict on the very route that was blocked.                   *)
(*                                                                         *)
(* All callers want the same provider, action and directory, so the key of *)
(* a run is the epochs of its lease.  A generation is abstracted to a flag *)
(* of the run, which invalidate clears.                                    *)
(***************************************************************************)
EXTENDS ApplicationProxy

CONSTANTS
    Callers,
    Needs,           \* [Callers -> the scopes its operation works through]
    Runs,            \* names for runs, reused like those of leases
    MaxStarts        \* bound: requests

\* What may be queued, the requests of callers and the runs.
Item == {[kind |-> "reconcile"]} \cup [kind : {"save"}, to : Configs]
        \cup [kind : {"acquire"}, who : Callers, abandoned : BOOLEAN]
RouteTable == Tables(Sessions \cup {System})
Capture == [key : Key, route : RouteTable]
CallerRecord ==
    [ph : {"idle", "queued", "waiting", "operating", "ending", "paused"},
     kind : {"guarded", "recheck", "bypass"}, lease : Lease \cup {None},
     run : Runs \cup {None}, capture : Capture \cup {None},
     route : RouteTable \cup {None}, active : BOOLEAN, retried : BOOLEAN, fresh : BOOLEAN,
     out : {None, "done", "aborted", "superseded", "blocked"}]
NestedRecord == [ph : {"none", "waiting", "operating"}, run : Runs \cup {None},
                 route : RouteTable \cup {None}]
Waiter == Callers \X {"top", "nested"}
RunRecord ==
    [st : {"none", "probing", "settled"}, key : Key \cup {None}, lease : Lease \cup {None},
     owned : BOOLEAN, awaited : SUBSET Callers, route : RouteTable \cup {None},
     current : BOOLEAN, latest : BOOLEAN, cached : BOOLEAN, shared : BOOLEAN,
     aborted : BOOLEAN, verdict : {None, "allowed", "blocked", "superseded"},
     waiters : SUBSET Waiter]

ASSUME PreflightAssumption ==
    /\ Needs \in [Callers -> (SUBSET Scopes) \ {{}}]
    /\ None \notin Runs \cup RouteTable \cup Capture
    /\ MaxStarts \in Nat

VARIABLES
    caller,    \* [Callers -> its request]
    nested,    \* [Callers -> an operation nested in it]
    run,       \* [Runs -> a check, under way or remembered]
    starts

preflightVars == <<caller, nested, run, starts>>
vars == <<proxyVars, preflightVars>>

\* route: history, the route the verdict was reached through, once the
\* operation has been entered.  fresh: the retry after a transient block.
Idle == [ph |-> "idle", kind |-> "guarded", lease |-> None, run |-> None,
         capture |-> None, route |-> None, active |-> FALSE,
         retried |-> FALSE, fresh |-> FALSE, out |-> None]

NotNested == [ph |-> "none", run |-> None, route |-> None]

\* shared: in inFlight; latest: in latestRunByKey; cached: in cache; owned: the
\* lease is returned with it; awaited: callers that wait until it has drained,
\* the one whose lease it borrows among them.
NoRun == [st |-> "none", key |-> None, lease |-> None, owned |-> FALSE, awaited |-> {},
          route |-> None, current |-> FALSE, latest |-> FALSE, cached |-> FALSE,
          shared |-> FALSE, aborted |-> FALSE, verdict |-> None, waiters |-> {}]

Init ==
    /\ ProxyInit
    /\ caller = [c \in Callers |-> Idle]
    /\ nested = [c \in Callers |-> NotNested]
    /\ run = [r \in Runs |-> NoRun]
    /\ starts = 0

-----------------------------------------------------------------------------
(* Runs: a step computes a table rs of runs and a set ls of leases, and    *)
(* Becomes returns what nobody needs any more.                             *)

\* Faulty: the end of the run returns its lease, whoever joined it.
DrainedWhenSettled(rs, r) == rs[r].st = "settled"

Drained(rs, r) == rs[r].st = "settled" /\ rs[r].waiters = {}

Tidied(rs, r) ==
    IF ~Drained(rs, r) THEN rs[r]
    ELSE IF rs[r].cached \/ rs[r].waiters # {}
    THEN [rs[r] EXCEPT !.lease = None, !.owned = FALSE, !.awaited = {}]
    ELSE NoRun

Becomes(rs, ls) ==
    /\ leases' = ls \ {rs[r].lease : r \in {q \in Runs : rs[q].owned /\ Drained(rs, q)}}
    /\ run' = [r \in Runs |-> Tidied(rs, r)]

Without(rs, r, t) == [rs EXCEPT ![r].waiters = @ \ {t}]

\* invalidate: every verdict is obsolete, checks under way are aborted.
Invalidated(rs) ==
    [r \in Runs |-> [rs[r] EXCEPT !.current = FALSE, !.latest = FALSE, !.cached = FALSE,
                                  !.shared = FALSE,
                                  !.aborted = @ \/ rs[r].st = "probing"]]

\* A forced check drops the verdict and aborts the checks of its key.
Superseding(rs, key) ==
    [r \in Runs |->
        IF rs[r].key # key THEN rs[r]
        ELSE [rs[r] EXCEPT !.cached = FALSE, !.aborted = @ \/ rs[r].st = "probing"]]

RouteOf(scopes) == [s \in scopes |-> electron[s]]

NewRun(rs, r, key, lease, owner, t) ==
    [q \in Runs |->
        IF q = r
        THEN [NoRun EXCEPT !.st = "probing", !.key = key, !.lease = lease,
                  !.owned = (owner = {}), !.awaited = owner,
                  !.route = RouteOf(DOMAIN key),
                  !.current = TRUE, !.latest = TRUE, !.shared = TRUE, !.waiters = {t}]
        ELSE IF rs[q].key = key THEN [rs[q] EXCEPT !.latest = FALSE, !.shared = FALSE]
        ELSE rs[q]]

\* Faulty: only the lease is looked at again after the wait.
LeaseStillCurrent(r, l) == LeaseCurrent(l)

RunCurrent(r, l) == LeaseCurrent(l) /\ run[r].current /\ run[r].latest

\* What the probes say is cached; that they could not be made blocks and is
\* not, which is here a verdict found expired.
RunEnds(r) ==
    /\ run[r].st = "probing"
    /\ LET ended == [run EXCEPT ![r].st = "settled", ![r].shared = FALSE] IN
       IF run[r].aborted \/ ~RunCurrent(r, run[r].lease)
       THEN Becomes([ended EXCEPT ![r].verdict = "superseded"], leases)
       ELSE \E v \in {"allowed", "blocked"} :
               Becomes([q \in Runs |->
                   IF q = r THEN [ended[q] EXCEPT !.verdict = v, !.cached = TRUE]
                   ELSE [ended[q] EXCEPT !.cached = @ /\ ended[q].key # run[r].key]], leases)
    /\ UNCHANGED <<scope, electron, stored, queue, work, epochs, saves, events,
                   caller, nested, starts>>

-----------------------------------------------------------------------------
(* Requests of callers.                                                    *)

Busy(c) == caller[c].ph \notin {"idle", "paused"}

Acquisition(c) == [kind |-> "acquire", who |-> c, abandoned |-> FALSE]

Queued(c, request) ==
    /\ caller' = [caller EXCEPT ![c] = [request EXCEPT !.ph = "queued"]]
    /\ Enqueued(Acquisition(c))

\* A new request, perhaps instead of a decision on a blocked one.
Request(c) ==
    /\ caller[c].ph \in {"idle", "paused"}
    /\ Initialized
    /\ starts < MaxStarts
    /\ starts' = starts + 1
    /\ Queued(c, Idle)
    /\ UNCHANGED <<scope, electron, stored, work, leases, epochs, saves, events,
                   nested, run>>

\* The user decides on a blocked request.
Decide(c, kind) ==
    /\ caller[c].ph = "paused"
    /\ Event
    /\ Queued(c, [Idle EXCEPT !.kind = kind, !.capture = caller[c].capture])
    /\ UNCHANGED <<scope, electron, stored, work, leases, epochs, saves,
                   nested, run, starts>>

Top(c) == <<c, "top">>
Inner(c) == <<c, "nested">>

InFlight(key) == {r \in Runs : run[r].shared /\ run[r].key = key}
Cached(key) == {r \in Runs : run[r].cached /\ run[r].key = key}
FreeRuns == {r \in Runs : run[r] = NoRun}
AnyRun == CHOOSE r \in FreeRuns : TRUE

Working(req, r, l) ==
    [Idle EXCEPT !.ph = "operating", !.kind = req.kind, !.active = TRUE, !.lease = l,
                 !.route = run[r].route]

\* The operation is entered, or the request is over because of the verdict.
Judged(req, r, l) ==
    IF run[r].verdict = "allowed" THEN Working(req, r, l)
    ELSE [req EXCEPT !.ph = "ending", !.lease = l, !.out = "blocked",
                     !.capture = [key |-> run[r].key, route |-> run[r].route]]

\* The lease l has just been granted to c, ls are then the leases.
GuardedBegins(c, l, ls) ==
    LET key == l.epochs
        req == [caller[c] EXCEPT !.lease = l]
        Begins(rs) ==
            LET r == AnyRun IN
            /\ caller' = [caller EXCEPT ![c] = [req EXCEPT !.ph = "waiting", !.run = r]]
            /\ Becomes(NewRun(rs, r, key, l, {}, Top(c)), ls)
        dropped == [r \in Runs |-> IF run[r].key = key THEN [run[r] EXCEPT !.cached = FALSE]
                                                       ELSE run[r]]
    IN IF InFlight(key) # {}
       THEN \E r \in InFlight(key) :                    \* l is given back
               /\ caller' = [caller EXCEPT ![c] =
                      [req EXCEPT !.ph = "waiting", !.run = r, !.lease = run[r].lease]]
               /\ Becomes([run EXCEPT ![r].waiters = @ \cup {Top(c)}], ls \ {l})
       ELSE \/ \E r \in Cached(key) :
                  /\ ~req.fresh
                  /\ caller' = [caller EXCEPT ![c] = Judged(req, r, l)]
                  /\ Becomes(run, ls)
            \/ Begins(dropped)                          \* nothing usable is cached

\* A decision holds for the route that was blocked only.
RecheckBegins(c, l, ls) ==
    IF caller[c].capture.key # l.epochs
    THEN caller' = [caller EXCEPT ![c] = Idle] /\ Becomes(run, ls \ {l})
    ELSE LET r == AnyRun IN
         /\ caller' = [caller EXCEPT ![c] =
                [@ EXCEPT !.ph = "waiting", !.run = r, !.lease = l, !.capture = None]]
         /\ Becomes(NewRun(Superseding(run, l.epochs), r, l.epochs, l, {c}, Top(c)), ls)

BypassBegins(c, l, ls) ==
    /\ Becomes(run, IF caller[c].capture.key = l.epochs THEN ls ELSE ls \ {l})
    /\ caller' = [caller EXCEPT ![c] =
          IF @.capture.key = l.epochs
          THEN [Idle EXCEPT !.ph = "operating", !.kind = "bypass", !.active = TRUE,
                            !.lease = l, !.route = caller[c].capture.route]
          ELSE Idle]

\* Faulty: a lease that comes after the caller has left is nobody's.
LateLeaseKept(l) == {l}

LateLease(l) == {}

LeasesKnown ==
    leases \cup {caller[c].lease : c \in Callers} \cup {run[r].lease : r \in Runs}
FreeLeaseIds == {i \in LeaseIds : \A l \in LeasesKnown \ {None} : l.id # i}
AnyLeaseId == CHOOSE i \in FreeLeaseIds : TRUE

Granted ==
    /\ work = None /\ AtHead("acquire")
    /\ FreeRuns # {} /\ FreeLeaseIds # {}      \* bounds
    /\ queue' = Tail(queue)
    /\ LET item == Head(queue)
           c == item.who
           l == [id |-> AnyLeaseId, epochs |-> EpochsOf(Needs[c])]
       IN IF \E s \in Needs[c] : ~Stable(s)
          THEN /\ caller' = IF item.abandoned THEN caller ELSE [caller EXCEPT ![c] = Idle]
               /\ UNCHANGED <<leases, run>>
          ELSE IF item.abandoned
          THEN leases' = leases \cup LateLease(l) /\ UNCHANGED <<caller, run>>
          ELSE CASE caller[c].kind = "guarded" -> GuardedBegins(c, l, leases \cup {l})
                 [] caller[c].kind = "recheck" -> RecheckBegins(c, l, leases \cup {l})
                 [] caller[c].kind = "bypass" -> BypassBegins(c, l, leases \cup {l})
    /\ UNCHANGED <<scope, electron, stored, work, epochs, saves, events, nested, starts>>

\* A forced check is let go of before its caller waits for what is pending;
\* another caller keeps its share in the run, which stands for its lease.
LetsGo(rs, req, c) ==
    IF req.kind = "recheck" THEN Without(rs, req.run, Top(c)) ELSE rs

Over(req, out) ==
    [req EXCEPT !.ph = "ending", !.active = FALSE, !.out = out, !.route = None,
                !.run = IF req.kind = "recheck" THEN None ELSE @]

\* waitForRun returns and the result is looked at.
Resumes(c) ==
    /\ caller[c].ph = "waiting"
    /\ run[caller[c].run].st = "settled"
    /\ LET me == caller[c]
           r == me.run
           superseded == run[r].verdict = "superseded" IN
       IF ~superseded /\ RunCurrent(r, me.lease) /\ run[r].verdict = "allowed"
       THEN /\ caller' = [caller EXCEPT ![c] = [Working(me, r, me.lease) EXCEPT !.run = r]]
            /\ UNCHANGED <<run, leases>>
       ELSE /\ caller' = [caller EXCEPT ![c] =
                  IF superseded \/ ~RunCurrent(r, me.lease) THEN Over(me, "superseded")
                  ELSE [Over(me, "blocked") EXCEPT
                           !.capture = [key |-> run[r].key, route |-> run[r].route]]]
            /\ Becomes(IF superseded THEN Without(run, r, Top(c)) ELSE LetsGo(run, me, c),
                       leases)
    /\ UNCHANGED <<scope, electron, stored, queue, work, epochs, saves, events,
                   nested, starts>>

\* The callback has settled: nothing nested is admitted any more.
OperationEnds(c) ==
    /\ caller[c].ph = "operating"
    /\ caller' = [caller EXCEPT ![c] = Over(@, "done")]
    /\ Becomes(LetsGo(run, caller[c], c), leases)
    /\ UNCHANGED <<scope, electron, stored, queue, work, epochs, saves, events,
                   nested, starts>>

Pending(c) ==
    \/ nested[c].ph # "none"
    \/ \E r \in Runs : c \in run[r].awaited

MayRetry(c) == caller[c].kind = "guarded"

\* The context ends; the lease is returned, or its share in the run's.
Returns(c, next) ==
    /\ caller[c].ph = "ending"
    /\ ~Pending(c)
    /\ IF caller[c].run = None
       THEN Becomes(run, leases \ {caller[c].lease})
       ELSE Becomes(Without(run, caller[c].run, Top(c)), leases)
    /\ IF next.ph = "queued" THEN Queued(c, next)
       ELSE caller' = [caller EXCEPT ![c] = next] /\ UNCHANGED queue
    /\ UNCHANGED <<scope, electron, stored, work, epochs, saves, nested, starts>>

Ends(c) ==
    LET me == caller[c]
        again == [Idle EXCEPT !.ph = "queued", !.retried = me.retried, !.fresh = me.fresh] IN
    \/ me.out \in {"done", "aborted"} /\ Returns(c, Idle) /\ UNCHANGED events
    \/ /\ me.out = "superseded"
       /\ Returns(c, IF MayRetry(c) /\ ~me.retried THEN [again EXCEPT !.retried = TRUE]
                     ELSE Idle)
       /\ UNCHANGED events
    \/ /\ me.out = "blocked"
       /\ Returns(c, [Idle EXCEPT !.ph = "paused", !.capture = me.capture])
       /\ UNCHANGED events
    \/ /\ me.out = "blocked" /\ MayRetry(c) /\ ~me.fresh      \* a transient failure
       /\ Returns(c, [again EXCEPT !.fresh = TRUE])
       /\ Event

-----------------------------------------------------------------------------
(* Operations nested in an operation: they inherit its lease.              *)

NestedOver(c) == nested' = [nested EXCEPT ![c] = NotNested]

NestedJudged(c, r, waits) ==
    IF caller[c].active /\ run[r].verdict = "allowed"
    THEN nested' = [nested EXCEPT ![c] =
             [ph |-> "operating", run |-> (IF waits THEN r ELSE None), route |-> run[r].route]]
    ELSE NestedOver(c)

NestedRequest(c) ==
    /\ caller[c].active /\ nested[c].ph = "none"
    /\ FreeRuns # {}                            \* bound
    /\ Event
    /\ LeaseCurrent(caller[c].lease)
    /\ LET l == caller[c].lease
           key == l.epochs IN
       IF InFlight(key) # {}
       THEN \E r \in InFlight(key) :
               /\ nested' = [nested EXCEPT ![c] = [NotNested EXCEPT !.ph = "waiting", !.run = r]]
               /\ Becomes([run EXCEPT ![r].waiters = @ \cup {Inner(c)}], leases)
       ELSE \/ /\ \E r \in Cached(key) : NestedJudged(c, r, FALSE)
               /\ UNCHANGED <<run, leases>>
            \/ LET r == AnyRun IN
               /\ nested' = [nested EXCEPT ![c] = [NotNested EXCEPT !.ph = "waiting", !.run = r]]
               /\ Becomes(NewRun(run, r, key, l, {c}, Inner(c)), leases)
    /\ UNCHANGED <<scope, electron, stored, queue, work, epochs, saves,
                   caller, starts>>

NestedResumes(c) ==
    /\ nested[c].ph = "waiting"
    /\ run[nested[c].run].st = "settled"
    /\ LET r == nested[c].run IN
       IF run[r].verdict # "superseded" /\ RunCurrent(r, caller[c].lease)
       THEN /\ NestedJudged(c, r, TRUE)
            /\ Becomes(IF nested'[c].ph = "operating" THEN run ELSE Without(run, r, Inner(c)),
                       leases)
       ELSE NestedOver(c) /\ Becomes(Without(run, r, Inner(c)), leases)
    /\ UNCHANGED <<scope, electron, stored, queue, work, epochs, saves, events,
                   caller, starts>>

NestedEnds(c) ==
    /\ nested[c].ph = "operating"
    /\ NestedOver(c)
    /\ IF nested[c].run = None THEN UNCHANGED <<run, leases>>
       ELSE Becomes(Without(run, nested[c].run, Inner(c)), leases)
    /\ UNCHANGED <<scope, electron, stored, queue, work, epochs, saves, events,
                   caller, starts>>

-----------------------------------------------------------------------------
(* Aborted signals, invalidations by the renderer, and the proxy's steps.   *)

CancelledRun(r, c) ==
    LET rest == Without(run, r, Top(c)) IN
    IF run[r].st = "probing" /\ run[r].waiters = {Top(c)}
    THEN [rest EXCEPT ![r].shared = FALSE, ![r].aborted = TRUE, ![r].awaited = @ \cup {c}]
    ELSE rest

Abort(c) ==
    /\ Event
    /\ \/ /\ caller[c].ph = "queued"
          /\ caller' = [caller EXCEPT ![c] = Idle]
          /\ queue' = [i \in DOMAIN queue |->
                IF queue[i] = Acquisition(c) THEN [queue[i] EXCEPT !.abandoned = TRUE]
                ELSE queue[i]]
          /\ UNCHANGED <<run, leases>>
       \/ /\ caller[c].ph = "waiting"
          /\ caller' = [caller EXCEPT ![c] = Over(@, "aborted")]
          /\ Becomes(CancelledRun(caller[c].run, c), leases)
          /\ UNCHANGED queue
       \/ /\ caller[c].ph = "operating" /\ caller[c].active
          /\ caller' = [caller EXCEPT ![c].active = FALSE]
          /\ UNCHANGED <<queue, run, leases>>
    /\ UNCHANGED <<scope, electron, stored, work, epochs, saves, nested, starts>>

Invalidate ==
    /\ Event
    /\ Becomes(Invalidated(run), leases)
    /\ UNCHANGED <<scope, electron, stored, queue, work, epochs, saves,
                   caller, nested, starts>>

ProxySteps ==
    \/ ProxyPublishes /\ run' = [r \in Runs |-> Tidied(Invalidated(run), r)]
                      /\ UNCHANGED <<caller, nested, starts>>
    \/ ProxyIsQuiet /\ UNCHANGED preflightVars

Steps(c) ==
    \/ Resumes(c) \/ Ends(c) \/ OperationEnds(c)
    \/ NestedResumes(c) \/ NestedEnds(c)

Next ==
    \/ ProxySteps \/ Granted \/ Invalidate
    \/ \E c \in Configs : Save(c) /\ UNCHANGED preflightVars
    \/ \E r \in Runs : RunEnds(r)
    \/ \E c \in Callers :
          \/ Request(c) \/ NestedRequest(c) \/ Abort(c) \/ Steps(c)
          \/ \E kind \in {"recheck", "bypass"} : Decide(c, kind)

Spec == Init /\ [][Next]_vars

\* Calls return, probes have time limits, and callbacks are assumed to end.
FairSpec ==
    /\ Spec
    /\ WF_vars(ProxySteps) /\ WF_vars(Granted)
    /\ \A r \in Runs : WF_vars(RunEnds(r))
    /\ \A c \in Callers : WF_vars(Steps(c))

-----------------------------------------------------------------------------
TypeOK ==
    /\ ProxyTypeOK
    /\ queue \in Seq(Item)
    /\ caller \in [Callers -> CallerRecord]
    /\ nested \in [Callers -> NestedRecord]
    /\ run \in [Runs -> RunRecord]
    /\ starts \in Nat

(***************************************************************************)
(* While an operation runs, by itself or nested, the sessions it works     *)
(* through use the route its verdict was reached through, or which the     *)
(* user let it go on through, and a check under way sees one route.  What  *)
(* holds the route still is the lease of whoever started the check: that   *)
(* caller may be long gone when another one, which gave its own lease      *)
(* back to share the verdict, enters.                                      *)
(***************************************************************************)
Uses(route) == \A s \in DOMAIN route : Stable(s) /\ electron[s] = route[s]

RouteIsHeld ==
    /\ \A c \in Callers :
          /\ caller[c].ph = "operating" => Uses(caller[c].route)
          /\ nested[c].ph = "operating" => Uses(nested[c].route)
    /\ \A r \in Runs : run[r].st = "probing" => Uses(run[r].route)

(***************************************************************************)
(* A caller that waited for a check enters its operation only if that      *)
(* check is still the word on the route: neither invalidated nor replaced  *)
(* by a newer check between its end and the entry.                         *)
(***************************************************************************)
LastWord(r) == run[r].current /\ run[r].latest /\ run[r].verdict = "allowed"

EntersOnLastWord ==
    [][\A c \in Callers :
          /\ caller[c].ph = "waiting" /\ caller'[c].ph = "operating" => LastWord(caller[c].run)
          /\ nested[c].ph = "waiting" /\ nested'[c].ph = "operating"
                => LastWord(nested[c].run) /\ caller[c].active]_vars

(***************************************************************************)
(* Everything ends: callers return or wait for the user, the queue gets    *)
(* empty and every lease comes back, whoever left while waiting for it, so *)
(* that no save waits for ever; and nobody who holds a lease waits for the *)
(* save that waits for the lease.                                          *)
(***************************************************************************)
Quiet ==
    /\ queue = <<>> /\ work = None /\ leases = {}
    /\ \A c \in Callers : ~Busy(c)
    /\ \A r \in Runs : run[r].st # "probing"

AllReturn == []<>Quiet
=============================================================================
