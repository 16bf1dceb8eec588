---------------------- MODULE LaunchPreflightDecision ----------------------
(***************************************************************************)
(* A Claude launch whose network check says no is not failed but paused:   *)
(* LaunchPreflightDecisionCoordinator (coordination/                       *)
(* launch-preflight-decision.ts) keeps a one-shot decision the user may    *)
(* answer - check again, go on regardless, cancel - and the decision's     *)
(* handler (claude/launch-decision-ipc.ts) carries the launch on.  In the  *)
(* minutes between, another launch, another operation, the terminal, the   *)
(* configuration, the clock or the limit on decisions may take the ground  *)
(* from under it.  Modelled together with the launch handlers              *)
(* (ipc/claude-launch.ts) and the workspace observer (index.ts).           *)
(*                                                                         *)
(* Launch calls and answers are numbered in the order they are made; a     *)
(* launch call stands for the intent it creates too.  The revision a stamp *)
(* recorded and the baselines a launch captured are only ever compared for *)
(* equality, so what is kept of each is whether it is still current.       *)
(***************************************************************************)
EXTENDS Naturals, FiniteSets, Sequences

CONSTANTS Session,      \* workspace session ids
          MaxLaunches,  \* bound: calls of the three launch channels
          MaxAnswers,   \* bound: calls of claude:launch-preflight-decide
          MaxDecisions, \* bound: decision ids issued
          MaxPending,   \* the limit on live decisions
          MaxRecords,   \* the limit on records kept
          MaxEvents,    \* bound: interferences from elsewhere
          Nothing, Other \* no call; an operation that is not a launch

ASSUME LimitAssumption == /\ MaxPending \in Nat \ {0}
                          /\ MaxRecords \in Nat /\ MaxPending <= MaxRecords
                          /\ MaxLaunches \in Nat /\ MaxAnswers \in Nat

Launch == 1..MaxLaunches
Answer == (MaxLaunches + 1)..(MaxLaunches + MaxAnswers)
Run == Launch \cup Answer

VARIABLES
  intent,      \* currentIntentBySession
  book,        \* records, live and finished, and decisionBySession
  timer,       \* whether expiryTimer is set
  issued,      \* the number of decision ids issued
  lease,       \* who holds the session's operation lease
  aborted,     \* runs whose lease was cancelled and signal aborted
  stamped,     \* runs whose operation stamp still is the session's revision
  grounded,    \* launches whose terminal, configuration and runtime
               \*   baselines are unchanged
  terminal,    \* the session's PTY: the run that started it, and if it runs
  phase,       \* where a run is
  sessionOf,   \* the session a launch is for
  answered,    \* what an answer reserved: launch, decision and choice
  events,      \* interferences so far
  disturbed    \* history: launches whose session saw an interference since

leaseVars == <<lease, aborted, stamped>>
decisionVars == <<intent, book, timer, issued, leaseVars, grounded, terminal,
                  phase, sessionOf, answered, events, disturbed>>

Choice == {"bypass", "recheck", "cancel"}
Reply == [launch : Launch, decision : Nat, choice : Choice]

ASSUME NothingAssumption == /\ Nothing \notin Session \cup Reply \cup Nat
                            /\ Other \notin Nat

Active(r) == phase[r] \in {"checking", "entered", "running", "blocked"}

Target(r) == IF r \in Launch THEN r ELSE answered[r].launch
Home(r) == sessionOf[Target(r)]
LaunchesOn(s) == {l \in Launch : sessionOf[l] = s}
RunsOn(s) == LaunchesOn(s) \cup
               {a \in Answer : answered[a] # Nothing /\ Home(a) = s}

----------------------------------------------------------------------------
(* The coordinator's records.  They are values here: an operation of the   *)
(* coordinator maps the book it finds to the book it leaves.  A live record*)
(* stays where it was put and a finished one goes to the end of the Map, so*)
(* the live ones are in the order of their ids, and the order of the others*)
(* is kept beside them.                                                    *)

LiveRecord == [id : Nat, state : {"pending", "deciding"}, launch : Launch,
               stamp : Run, choice : Choice \cup {Nothing}, due : BOOLEAN]
EndedRecord == [id : Nat, state : {"consumed", "stale"}]
Book == [live : SUBSET LiveRecord, ended : Seq(EndedRecord),
         decisionOf : [Session -> Nat \cup {Nothing}]]

LiveIds(b) == {rec.id : rec \in b.live}
RecordOf(b, id) ==
  {rec \in b.live \cup {b.ended[i] : i \in DOMAIN b.ended} : rec.id = id}

(* The k-th of some live records in the order of the Map.                  *)
Oldest(recs, k) ==
  CHOOSE rec \in recs : Cardinality({x \in recs : x.id <= rec.id}) = k

(* finish, of one live record after another.                               *)
Finished(b, gone, state) ==
  [live |-> b.live \ gone,
   ended |-> b.ended \o [k \in 1..Cardinality(gone) |->
                           [id |-> Oldest(gone, k).id, state |-> state]],
   decisionOf |-> [s \in Session |->
                     IF \E rec \in gone : rec.id = b.decisionOf[s]
                     THEN Nothing ELSE b.decisionOf[s]]]

Expired(b) == Finished(b, {rec \in b.live : rec.due}, "stale")

(* invalidateSessionDecision                                               *)
WithoutDecision(b, s) ==
  [Finished(b, {rec \in b.live : rec.id = b.decisionOf[s]}, "stale")
     EXCEPT !.decisionOf[s] = Nothing]

(* evictPendingIfNeeded: at the limit the oldest live decision goes stale. *)
Evicted(b) == IF Cardinality(b.live) < MaxPending THEN b
              ELSE Finished(b, {Oldest(b.live, 1)}, "stale")

(* pruneRecords: one record too many, and the oldest finished one goes.    *)
Pruned(b) ==
  IF Cardinality(b.live) + Len(b.ended) <= MaxRecords \/ b.ended = <<>>
  THEN b ELSE [b EXCEPT !.ended = Tail(@)]

(* pause, after its check that the intent still is current.                *)
Paused(b, l, r, id) ==
  LET room == Evicted(WithoutDecision(Expired(b), sessionOf[l]))
      rec == [id |-> id, state |-> "pending", launch |-> l, stamp |-> r,
              choice |-> Nothing, due |-> FALSE]
  IN Pruned([room EXCEPT !.live = @ \cup {rec},
                         !.decisionOf[sessionOf[l]] = id])

(* scheduleExpiry: set for the nearest live decision, if there is one.     *)
Schedule == timer' = (book'.live # {})

----------------------------------------------------------------------------
(* Ownership of the session's operations.                                  *)

AssertIntentCurrent(r) == intent[Home(r)] = Target(r)

(* assertCurrent of the launch handlers and assertContinuationCurrent.     *)
AssertCurrent(r) == /\ r \notin aborted
                    /\ lease[Home(r)] = r
                    /\ AssertIntentCurrent(r)
                    /\ r \in stamped

(* assertBaselineCurrent and captureContinuationBaseline: asked once the   *)
(* lease is gone, so neither lease nor signal is looked at.                *)
AssertBaselineCurrent(r) == /\ AssertIntentCurrent(r)
                            /\ r \in stamped
                            /\ Target(r) \in grounded

(* Faulty: the terminal, configuration and runtime are not looked at again.*)
AssertPreparationOwnershipOnly(r) == AssertCurrent(r)

AssertPreparationCurrent(r) == AssertCurrent(r) /\ Target(r) \in grounded

(* Faulty: the intent goes, the decision made for it stays.                *)
InvalidateIntentOnly(s) ==
  /\ intent' = [intent EXCEPT ![s] = Nothing]
  /\ book' = [book EXCEPT !.decisionOf[s] = Nothing]
  /\ UNCHANGED timer

InvalidateSession(s) ==
  /\ intent' = [intent EXCEPT ![s] = Nothing]
  /\ book' = WithoutDecision(book, s)
  /\ Schedule

ReleaseLease(r) == lease' = [lease EXCEPT ![Home(r)] = Nothing]

(* The end of a run inside its operation.                                  *)
Ends(r, how) == /\ ReleaseLease(r)
                /\ phase' = [phase EXCEPT ![r] = how]
                /\ UNCHANGED <<issued, sessionOf, answered, events, disturbed>>

DecisionInit ==
  /\ intent = [s \in Session |-> Nothing]
  /\ book = [live |-> {}, ended |-> <<>>,
             decisionOf |-> [s \in Session |-> Nothing]]
  /\ timer = FALSE
  /\ issued = 0
  /\ lease = [s \in Session |-> Nothing]
  /\ aborted = {} /\ stamped = {} /\ grounded = {} /\ disturbed = {}
  /\ terminal = [s \in Session |-> [by |-> Nothing, runs |-> TRUE]]
  /\ phase = [r \in Run |-> "new"]
  /\ sessionOf = [l \in Launch |-> Nothing]
  /\ answered = [a \in Answer |-> Nothing]
  /\ events = 0

(* A call is the first of its kind not made yet.                           *)
FirstNew(kind, r) == /\ phase[r] = "new"
                  /\ \A earlier \in kind : earlier < r => phase[earlier] # "new"

(* reserve of the operation coordinator: a new revision, stamped by r.     *)
Reserve(r, s) == /\ lease' = [lease EXCEPT ![s] = r]
                 /\ stamped' = (stamped \ RunsOn(s)) \cup ({r} \cap Run)

(* invalidate of the operation coordinator; gone is the new revision's     *)
(* victims.                                                                *)
CancelOperation(s) == /\ stamped' = stamped \ RunsOn(s)
                      /\ aborted' = aborted \cup ({lease[s]} \cap Run)

----------------------------------------------------------------------------
(* Launches.                                                               *)

(* A launch handler up to its first await: beginLaunch supersedes what the *)
(* session decided and launched before, then the operation starts, unless  *)
(* the session is busy: then this call fails and has superseded all the    *)
(* same.                                                                   *)
BeginLaunch(l, s) ==
  /\ FirstNew(Launch, l)
  /\ book' = WithoutDecision(book, s)
  /\ Schedule
  /\ intent' = [intent EXCEPT ![s] = l]
  /\ sessionOf' = [sessionOf EXCEPT ![l] = s]
  /\ disturbed' = disturbed \cup LaunchesOn(s)
  /\ IF lease[s] = Nothing
     THEN /\ Reserve(l, s)
          /\ grounded' = grounded \cup {l}
          /\ phase' = [phase EXCEPT ![l] = "checking"]
     ELSE /\ phase' = [phase EXCEPT ![l] = "failed"]
          /\ UNCHANGED <<lease, stamped, grounded>>
  /\ UNCHANGED <<issued, aborted, terminal, answered, events>>

(* What an answer's reservation still is good for.                         *)
Reservation(b, a) ==
  {rec \in b.live : /\ rec.id = answered[a].decision
                    /\ rec.state = "deciding" /\ rec.choice = answered[a].choice}

(* consume, at the last boundary before a bypassed launch is entered.      *)
ConsumeReservation(a) ==
  /\ Reservation(Expired(book), a) # {}
  /\ book' = Finished(Expired(book), Reservation(Expired(book), a), "consumed")
  /\ Schedule

(* The verdict, or a bypass, lets a run enter its operation: everything is *)
(* checked again after the await.  Enough for a launch that needs no       *)
(* network, too.                                                           *)
Enter(r) ==
  /\ phase[r] = "checking"
  /\ AssertPreparationCurrent(r)
  /\ IF r \in Answer /\ answered[r].choice = "bypass"
     THEN ConsumeReservation(r)
     ELSE UNCHANGED <<book, timer>>
  /\ phase' = [phase EXCEPT ![r] = "entered"]
  /\ UNCHANGED <<intent, issued, leaseVars, grounded, terminal, sessionOf,
                 answered, events, disturbed>>

(* The launch is prepared: the terminal is replaced, and the observer takes*)
(* the generation's change as the one expected.                            *)
RestartTerminal(r) ==
  /\ phase[r] = "entered"
  /\ AssertPreparationCurrent(r)
  /\ terminal' = [terminal EXCEPT ![Home(r)] = [by |-> r, runs |-> TRUE]]
  /\ grounded' = grounded \ LaunchesOn(Home(r))
  /\ phase' = [phase EXCEPT ![r] = "running"]
  /\ UNCHANGED <<intent, book, timer, issued, leaseVars, sessionOf, answered,
                 events, disturbed>>

(* The observer's reaction to a terminal that stopped or failed.           *)
TerminalGone(s) ==
  /\ InvalidateSession(s)
  /\ CancelOperation(s)
  /\ grounded' = grounded \ LaunchesOn(s)

(* The new terminal does not start: nothing is expected of it any more.    *)
RestartFails(r) ==
  /\ phase[r] = "entered"
  /\ AssertPreparationCurrent(r)
  /\ terminal' = [terminal EXCEPT ![Home(r)] = [by |-> r, runs |-> FALSE]]
  /\ TerminalGone(Home(r))
  /\ Ends(r, "failed")

(* Claude's state has been read: the launch is told as done, if it still is*)
(* the session's.                                                          *)
Complete(r) ==
  /\ phase[r] = "running"
  /\ AssertCurrent(r)
  /\ Ends(r, "completed")
  /\ UNCHANGED <<intent, book, timer, aborted, stamped, grounded, terminal>>

(* stale: an answer that did not get to its launch gives its decision up.  *)
StaleReservation(b, a) ==
  IF a \in Answer THEN Finished(b, Reservation(b, a), "stale") ELSE b

(* Faulty: the terminal a failed launch has opened is left running.        *)
CleanupLeavesTerminal(r) ==
  /\ book' = StaleReservation(book, r)
  /\ Schedule
  /\ UNCHANGED <<intent, aborted, stamped, grounded, terminal>>

(* cleanupFailedRuntimeLaunch: the terminal is stopped if it still is this *)
(* run's; the observer sees it stop.                                       *)
Cleanup(r) ==
  IF terminal[Home(r)] = [by |-> r, runs |-> TRUE]
  THEN /\ terminal' = [terminal EXCEPT ![Home(r)].runs = FALSE]
       /\ TerminalGone(Home(r))
  ELSE /\ book' = StaleReservation(book, r)
       /\ Schedule
       /\ UNCHANGED <<intent, aborted, stamped, grounded, terminal>>

(* Any error, one of the checks' among them, ends the run.  An answer is   *)
(* told stale before its launch was entered, a failed launch after.        *)
Fail(r) ==
  /\ phase[r] \in {"checking", "entered", "running"}
  /\ Cleanup(r)
  /\ Ends(r, IF r \in Answer /\ phase[r] = "checking" THEN "stale" ELSE "failed")

(* The network says no: to the run itself, or to what a launch asks for    *)
(* once entered (an answer that was entered fails instead).                *)
Block(r) ==
  /\ phase[r] = "checking" \/ (r \in Launch /\ phase[r] = "entered")
  /\ issued + Cardinality({o \in Run : phase[o] = "blocked"}) < MaxDecisions
  /\ Ends(r, "blocked")
  /\ UNCHANGED <<intent, book, timer, aborted, stamped, grounded, terminal>>

(* Faulty: pause does not set the timer.                                   *)
PauseUntimed(r) ==
  /\ phase[r] = "blocked"
  /\ AssertBaselineCurrent(r)
  /\ r \in Answer => r \notin aborted
  /\ issued' = issued + 1
  /\ book' = Paused(book, Target(r), r, issued + 1)
  /\ phase' = [phase EXCEPT ![r] = "paused"]
  /\ UNCHANGED <<intent, timer, leaseVars, grounded, terminal, sessionOf,
                 answered, events, disturbed>>

(* The handler, once the operation has been released, finds all as it was: *)
(* the launch is paused, for an answer under a new decision.               *)
Pause(r) ==
  /\ phase[r] = "blocked"
  /\ AssertBaselineCurrent(r)
  /\ r \in Answer => r \notin aborted
  /\ issued' = issued + 1
  /\ book' = Paused(book, Target(r), r, issued + 1)
  /\ Schedule
  /\ phase' = [phase EXCEPT ![r] = "paused"]
  /\ UNCHANGED <<intent, leaseVars, grounded, terminal, sessionOf, answered,
                 events, disturbed>>

(* ... or does not: no decision is offered.                                *)
PauseRefused(r) ==
  /\ phase[r] = "blocked"
  /\ ~AssertBaselineCurrent(r) \/ (r \in Answer /\ r \in aborted)
  /\ book' = StaleReservation(book, r)
  /\ Schedule
  /\ phase' = [phase EXCEPT ![r] = IF r \in Answer THEN "stale" ELSE "failed"]
  /\ UNCHANGED <<intent, issued, leaseVars, grounded, terminal, sessionOf,
                 answered, events, disturbed>>

----------------------------------------------------------------------------
(* Answers.                                                                *)

(* reserve refuses: the decision is unknown or stale, or another answer    *)
(* has been given.                                                         *)
AnswerRefused(a, id) ==
  /\ FirstNew(Answer, a)
  /\ book' = Expired(book)
  /\ Schedule
  /\ \A rec \in RecordOf(book', id) : rec.state # "pending"
  /\ phase' = [phase EXCEPT ![a] =
                 IF \E rec \in RecordOf(book', id) : rec.state # "stale"
                 THEN "consumed" ELSE "stale"]
  /\ UNCHANGED <<intent, issued, leaseVars, grounded, terminal, sessionOf,
                 answered, events, disturbed>>

(* reserve accepts.  Cancelling and checking again consume the decision at *)
(* once; to go on, the session's operation must be free and its revision   *)
(* the one the paused launch left.                                         *)
AnswerTaken(a, id, choice) ==
  /\ FirstNew(Answer, a)
  /\ \E rec \in Expired(book).live :
       LET b == Expired(book)
           s == sessionOf[rec.launch]
           goesOn == choice # "cancel" /\ lease[s] = Nothing /\ rec.stamp \in stamped
           deciding == [rec EXCEPT !.state = "deciding", !.choice = choice]
       IN /\ rec.id = id /\ rec.state = "pending"
          /\ intent[s] = rec.launch
          /\ answered' = [answered EXCEPT ![a] =
               [launch |-> rec.launch, decision |-> id, choice |-> choice]]
          /\ book' = IF choice # "bypass" THEN Finished(b, {rec}, "consumed")
                     ELSE IF goesOn
                     THEN [b EXCEPT !.live = (@ \ {rec}) \cup {deciding}]
                     ELSE Finished(b, {rec}, "stale")
          /\ phase' = [phase EXCEPT ![a] = IF choice = "cancel" THEN "cancelled"
                                           ELSE IF goesOn THEN "checking"
                                           ELSE "stale"]
          /\ IF goesOn THEN Reserve(a, s) ELSE UNCHANGED <<lease, stamped>>
  /\ Schedule
  /\ UNCHANGED <<intent, issued, aborted, grounded, terminal, sessionOf, events,
                 disturbed>>

----------------------------------------------------------------------------
(* Time.                                                                   *)

(* A decision's time is up: the oldest first, all live equally long.       *)
TimePasses ==
  \E rec \in book.live :
    /\ ~rec.due
    /\ \A x \in book.live : x.id < rec.id => x.due
    /\ book' = [book EXCEPT !.live = (@ \ {rec}) \cup {[rec EXCEPT !.due = TRUE]}]
    /\ UNCHANGED <<intent, timer, issued, leaseVars, grounded, terminal, phase,
                   sessionOf, answered, events, disturbed>>

(* The timer fires, set for the nearest decision.                          *)
ExpiryTimer ==
  /\ timer
  /\ \E rec \in book.live : rec.due
  /\ book' = Expired(book)
  /\ Schedule
  /\ UNCHANGED <<intent, issued, leaseVars, grounded, terminal, phase, sessionOf,
                 answered, events, disturbed>>

----------------------------------------------------------------------------
(* Interference.                                                           *)

Interferes(sessions) ==
  /\ events < MaxEvents
  /\ events' = events + 1
  /\ disturbed' = disturbed \cup UNION {LaunchesOn(s) : s \in sessions}
  /\ UNCHANGED <<issued, phase, sessionOf, answered>>

(* withDevelopmentSessionOperation of the other handlers: the session's    *)
(* decision is withdrawn even when the operation is then refused as busy.  *)
OtherOperation(s) ==
  /\ Interferes({s})
  /\ InvalidateSession(s)
  /\ IF lease[s] = Nothing THEN Reserve(Other, s) ELSE UNCHANGED <<lease, stamped>>
  /\ UNCHANGED <<aborted, grounded, terminal>>

OtherEnds(s) ==
  /\ lease[s] = Other
  /\ lease' = [lease EXCEPT ![s] = Nothing]
  /\ UNCHANGED <<intent, book, timer, issued, aborted, stamped, grounded,
                 terminal, phase, sessionOf, answered, events, disturbed>>

(* Someone invalidates the session's operation (a terminal transition, a   *)
(* deletion): the intent is not told.                                      *)
InvalidateOperation(s) ==
  /\ Interferes({s})
  /\ CancelOperation(s)
  /\ UNCHANGED <<intent, book, timer, lease, grounded, terminal>>

TerminalFails(s) ==
  /\ terminal[s].runs
  /\ Interferes({s})
  /\ terminal' = [terminal EXCEPT ![s].runs = FALSE]
  /\ TerminalGone(s)
  /\ UNCHANGED lease

(* Another terminal takes the place of the session's: the observer sees a  *)
(* generation no launch expects.                                           *)
TerminalReplaced(s) ==
  /\ Interferes({s})
  /\ terminal' = [terminal EXCEPT ![s] = [by |-> Nothing, runs |-> TRUE]]
  /\ InvalidateSession(s)
  /\ grounded' = grounded \ LaunchesOn(s)
  /\ UNCHANGED leaseVars

(* The configuration, or Claude's runtime for the session, changes.        *)
ConfigurationChanges(s) ==
  /\ LaunchesOn(s) \cap grounded # {}
  /\ Interferes({s})
  /\ grounded' = grounded \ LaunchesOn(s)
  /\ UNCHANGED <<intent, book, timer, leaseVars, terminal>>

(* invalidateAll: the window goes, or the application quits.               *)
InvalidateAll ==
  /\ Interferes(Session)
  /\ book' = [Finished(book, book.live, "stale")
                EXCEPT !.decisionOf = [s \in Session |-> Nothing]]
  /\ intent' = [s \in Session |-> Nothing]
  /\ timer' = FALSE
  /\ UNCHANGED <<leaseVars, grounded, terminal>>

----------------------------------------------------------------------------
RunStep(r) == \/ Enter(r) \/ RestartTerminal(r) \/ RestartFails(r) \/ Complete(r)
              \/ Fail(r) \/ Block(r) \/ Pause(r) \/ PauseRefused(r)

DecisionNext ==
  \/ \E l \in Launch, s \in Session : BeginLaunch(l, s)
  \/ \E r \in Run : RunStep(r)
  \/ \E a \in Answer, id \in 1..issued : AnswerRefused(a, id)
  \/ \E a \in Answer, id \in 1..issued, c \in Choice : AnswerTaken(a, id, c)
  \/ TimePasses \/ ExpiryTimer \/ InvalidateAll
  \/ \E s \in Session : \/ OtherOperation(s) \/ OtherEnds(s)
                         \/ InvalidateOperation(s) \/ TerminalFails(s)
                         \/ TerminalReplaced(s) \/ ConfigurationChanges(s)

DecisionSpec == DecisionInit /\ [][DecisionNext]_decisionVars

(* Time passes and the timer fires; the network check and the launch end,  *)
(* one way or another, and so do the other operations.                     *)
FairDecisionSpec ==
  /\ DecisionSpec
  /\ WF_decisionVars(TimePasses) /\ WF_decisionVars(ExpiryTimer)
  /\ \A r \in Run : WF_decisionVars(RunStep(r))
  /\ \A s \in Session : WF_decisionVars(OtherEnds(s))

----------------------------------------------------------------------------
DecisionTypeOK ==
  /\ intent \in [Session -> Launch \cup {Nothing}]
  /\ book \in Book /\ \A id \in LiveIds(book) : id \in 1..issued
  /\ timer \in BOOLEAN /\ issued \in 0..MaxDecisions
  /\ lease \in [Session -> Run \cup {Nothing, Other}]
  /\ aborted \subseteq Run /\ stamped \subseteq Run
  /\ grounded \subseteq Launch /\ disturbed \subseteq Launch
  /\ events \in 0..MaxEvents

(* Of all the decisions kept, those that can still be answered are the     *)
(* newest launches' of their sessions, one for each, and the session knows *)
(* it: no order of launches, invalidations, answers, expiries and          *)
(* evictions leaves one alive that a later event should have withdrawn.    *)
(* And both limits hold.                                                   *)
LiveDecisionIsNewest ==
  /\ \A rec \in book.live :
       /\ intent[sessionOf[rec.launch]] = rec.launch
       /\ book.decisionOf[sessionOf[rec.launch]] = rec.id
  /\ \A s \in Session :
       book.decisionOf[s] # Nothing => book.decisionOf[s] \in LiveIds(book)
  /\ Cardinality(book.live) <= MaxPending
  /\ Cardinality(book.live) + Len(book.ended) <= MaxRecords

(* An answer enters the launch only if, from the launch's own start to the *)
(* entry - through pauses, repeated checks and the waits inside them -     *)
(* nothing happened to the session, its terminal and its configuration,    *)
(* and a bypass only before the decision's time is up.                     *)
EntersUndisturbed ==
  [][\A a \in Answer : phase[a] = "checking" /\ phase'[a] = "entered" =>
       /\ answered[a].launch \notin disturbed
       /\ answered[a].choice = "bypass" =>
            \A rec \in book.live : rec.id = answered[a].decision => ~rec.due
  ]_decisionVars

(* A run, whoever else replaced or stopped the terminal in the meantime,   *)
(* is told as completed exactly when it leaves a terminal of its own       *)
(* running: no foreign terminal is taken for the launch's, and no launch   *)
(* that failed goes on.                                                    *)
OutcomeTellsTerminal ==
  [][\A r \in Run : Active(r) /\ ~Active(r)' =>
       (phase'[r] = "completed") <=> (terminal'[Home(r)] = [by |-> r, runs |-> TRUE])
  ]_decisionVars

(* No decision stays open for good, whether it is answered, forgotten or   *)
(* its answer fails on the way, and every launch and answer returns: the   *)
(* calls being bounded, all comes to rest.                                 *)
DecisionsEnd == <>[](book.live = {} /\ \A r \in Run : ~Active(r))
============================================================================
