----------------------------- MODULE NativeTurns -----------------------------
(***************************************************************************)
(* Prompts of a native conversation: what becomes of a prompt that was     *)
(* submitted, and how long its handler keeps the network lease it came     *)
(* with.  NativeConversationService (conversation/service.ts), the journal *)
(* on the disk (conversation/recovery-store.ts), the SDK process and its   *)
(* adapter (claude/agent-adapter.ts, claude/agent-adapter-events.ts), and  *)
(* what a restart makes of the journal (app/bootstrap.ts).                 *)
(*                                                                         *)
(* One conversation.  It may be native, move to a terminal and back; the   *)
(* rules for its owner are those of ConversationOwnership, kept here as    *)
(* far as they decide which process a prompt meets.  A prompt is the       *)
(* identity its composer gave it; that of a restored draft is a new one.   *)
(***************************************************************************)
EXTENDS Naturals, Sequences

CONSTANTS Prompt,        \* client submission ids
          FailingSaves,  \* the saves of the journal that may fail
          Interruptions, \* the switches that may interrupt a turn
          IdleOvertaken, \* may a prompt be sent before the idle of the last?
          MaxGeneration, \* bound: native lives of the conversation, per run
          MaxFailures,   \* bound: failed saves
          MaxEnds,       \* bound: ends of the application
          None

ASSUME NativeTurnsAssumption ==
  /\ FailingSaves \subseteq {"prepare", "dispatch", "confirm", "clean", "reserve"}
  /\ Interruptions \subseteq {"of-tasks", "that-succeed"}
  /\ IdleOvertaken \in BOOLEAN
  /\ MaxGeneration \in Nat /\ MaxFailures \in Nat /\ MaxEnds \in Nat
  /\ None \notin Prompt

VARIABLES
  journal,     \* ConversationRecoveryStore.journal: the conversation's record
  disk,        \* recovery-journal.json: the same
  entry,       \* NativeConversationService.active
  generation,  \* NativeConversationService.generations
  starts,      \* calls of start whose process has not come up
  begun,       \* whether the conversation was ever started
  owner,       \* who holds the conversation: "nobody", "native", "terminal"
  sdk,         \* ClaudeAgentAdapter.sessions and the process behind it
  waiting,     \* prompts whose submitAndWaitForTurn has not returned
  running,     \* whether the application runs
  failures, ends,
  accepted,    \* history: prompts the journal took
  handed,      \* history: prompts the SDK process was given
  confirmed,   \* history: prompts whose place in the transcript was reported
  dropped      \* history: prompts whose record the user discarded

journalVars == <<journal, disk, failures>>
serviceVars == <<entry, generation, starts, begun, owner, sdk, waiting>>
historyVars == <<accepted, handed, confirmed, dropped>>
vars == <<journalVars, serviceVars, running, ends, historyVars>>

(* RecoverySubmissionState; "hook-durable" and "allow-sent" are written by *)
(* nobody.                                                                 *)
SubmissionState == {"none", "prepared", "dispatched", "transcript-confirmed",
                    "interrupted-draft", "result-unknown"}
Ambiguous == {"dispatched", "result-unknown"}

(* A record: its clean marker, its submissions, and those whose encrypted  *)
(* text it has.                                                            *)
Record == [clean : BOOLEAN, state : [Prompt -> SubmissionState], text : SUBSET Prompt]
EmptyRecord == [clean |-> FALSE, state |-> [p \in Prompt |-> "none"], text |-> {}]

(* ActiveConversation: "step" is where its start or transfer is, "turn"    *)
(* its turnCompletion, "phase" and "tasks" what its snapshot says.  As the *)
(* adapter announces a running turn before submit returns, a completion is *)
(* always "started" when something can settle it.                          *)
Entry == [generation : 1..MaxGeneration,
          step : {"starting", "active", "switching", "restoring", "adopting"},
          turn : Prompt \cup {None}, phase : {"starting", "idle", "running"},
          tasks : BOOLEAN]

(* The process: prompts it was given and has not answered, whether it has  *)
(* background tasks, and whether its session_state_changed after an answer *)
(* is still to come.                                                       *)
Process == [prompts : Seq(Prompt), tasks : BOOLEAN, idleComes : BOOLEAN]
NewProcess == [prompts |-> <<>>, tasks |-> FALSE, idleComes |-> FALSE]

ASSUME NoneIsNothing == None \notin Record /\ None \notin Entry /\ None \notin Process

Init ==
  /\ journal = None /\ disk = None /\ failures = 0
  /\ entry = None /\ generation = 0 /\ starts = {} /\ begun = FALSE /\ owner = "nobody"
  /\ sdk = None /\ waiting = {}
  /\ running = TRUE /\ ends = 0
  /\ accepted = {} /\ handed = {} /\ confirmed = {} /\ dropped = {}

-----------------------------------------------------------------------------
(* The journal.  A mutation is applied to a copy, which is adopted once it *)
(* is on the disk (transact, persist); the file is replaced by a rename.   *)

Saved(record) == journal' = record /\ disk' = record /\ UNCHANGED failures

Fails(save) ==
  /\ save \in FailingSaves /\ failures < MaxFailures
  /\ failures' = failures + 1

NotSaved(save) == Fails(save) /\ UNCHANGED <<journal, disk>>

(* reserve *)
Reserved == IF journal = None THEN EmptyRecord ELSE [journal EXCEPT !.clean = FALSE]

(* preparePrompt *)
Prepared(p) == [journal EXCEPT !.clean = FALSE, !.state[p] = "prepared",
                               !.text = @ \cup {p}]
CanPrepare(p) == journal # None /\ journal.state[p] = "none"

(* markSubmission *)
Dispatched(record, p) == [record EXCEPT !.state[p] = "dispatched"]
Confirmed(p) == [journal EXCEPT !.state[p] = "transcript-confirmed", !.text = @ \ {p}]

(* preserveUnsentDraft *)
Preserved(record, p) == [record EXCEPT !.state[p] = "interrupted-draft"]

(* markClean: refused while the result of a prompt is not known; whether   *)
(* it fails is ignored by its caller.                                      *)
MarkClean ==
  IF journal # None /\ \A p \in Prompt : journal.state[p] \notin Ambiguous
  THEN Saved([journal EXCEPT !.clean = TRUE]) \/ NotSaved("clean")
  ELSE UNCHANGED journalVars

(* markInterrupted, of a record without the clean marker.                  *)
Interrupted(record) ==
  [record EXCEPT !.state = [p \in Prompt |->
     CASE @[p] = "prepared" -> "interrupted-draft"
       [] @[p] = "dispatched" -> "result-unknown"
       [] OTHER -> @[p]]]

-----------------------------------------------------------------------------
(* Parts of the service.                                                   *)

(* nativeConversationHasRunningWork *)
HasRunningWork(e) == e.phase \in {"starting", "running"} \/ e.tasks

\* Faulty: background tasks are forgotten.
ShownPhaseOnly(e) ==
  IF e.phase = "idle"
  THEN /\ entry' = [e EXCEPT !.turn = None] /\ waiting' = waiting \ {e.turn}
  ELSE entry' = e /\ UNCHANGED waiting
(* consume: the snapshot is e now, and a turn without running work ends    *)
(* (settleTurnIfComplete, finishTurn).                                     *)
Shown(e) ==
  IF HasRunningWork(e)
  THEN entry' = e /\ UNCHANGED waiting
  ELSE /\ entry' = [e EXCEPT !.turn = None]
       /\ waiting' = waiting \ {e.turn}

(* release *)
Release ==
  /\ entry' = None
  /\ waiting' = waiting \ {entry.turn}
  /\ owner' = IF owner = "native" THEN "nobody" ELSE owner

Transferring == entry # None /\ entry.step \in {"switching", "restoring", "adopting"}

-----------------------------------------------------------------------------
(* Starting.                                                               *)

NewEntry(step) == [generation |-> generation + 1, step |-> step, turn |-> None,
                   phase |-> "starting", tasks |-> FALSE]

(* start up to the adapter: fresh for a conversation that was never        *)
(* started, else a resume.  reserve is outside of the try: when it fails   *)
(* the claim stays, and nothing is active.                                 *)
Start ==
  /\ running /\ owner = "nobody" /\ entry = None /\ generation < MaxGeneration
  /\ owner' = "native" /\ generation' = generation + 1 /\ begun' = TRUE
  /\ \/ /\ Saved(Reserved)
        /\ entry' = NewEntry("starting")
        /\ starts' = starts \cup {[generation |-> generation', fresh |-> ~begun]}
     \/ NotSaved("reserve") /\ UNCHANGED <<entry, starts>>
  /\ UNCHANGED <<sdk, waiting, running, ends, historyVars>>

Starting(s) == entry # None /\ entry.step = "starting" /\ entry.generation = s.generation

(* adapter.start resolves: the process is up, the phase idle.              *)
StartReturns(s) ==
  /\ Starting(s)
  /\ starts' = starts \ {s}
  /\ sdk' = NewProcess
  /\ Shown([entry EXCEPT !.step = "active", !.phase = "idle"])
  /\ UNCHANGED <<generation, begun, owner, journalVars, running, ends, historyVars>>

\* Faulty: the start does not ask whether it is the last one.
StartFailsUnasked(s) ==
  /\ starts' = starts \ {s}
  /\ IF Starting(s) THEN Release ELSE UNCHANGED <<entry, waiting, owner>>
  /\ IF s.fresh /\ entry' = None THEN Saved(None) ELSE UNCHANGED journalVars
  /\ UNCHANGED <<generation, begun, sdk, running, ends, historyVars>>
(* adapter.start rejects: the process did not come up, or the conversation *)
(* was closed meanwhile, and another start may have come since.  The record *)
(* of a first start that failed is discarded.                              *)
StartFails(s) ==
  /\ starts' = starts \ {s}
  /\ IF Starting(s) THEN Release ELSE UNCHANGED <<entry, waiting, owner>>
  /\ IF s.fresh /\ generation = s.generation /\ entry' = None
     THEN Saved(None) ELSE UNCHANGED journalVars
  /\ UNCHANGED <<generation, begun, sdk, running, ends, historyVars>>

-----------------------------------------------------------------------------
(* Submitting (submitAndWaitForTurn, submit).  The composer sends nothing  *)
(* while the phase is starting, and gives every prompt an identity of its  *)
(* own.                                                                    *)
CanSubmit(p) ==
  /\ running /\ entry # None /\ entry.phase # "starting" /\ entry.turn = None
  /\ p \notin accepted /\ CanPrepare(p)

(* The prompt is not saved, or not taken: by an adapter whose process is   *)
(* being replaced, or that refuses a command or an attachment.             *)
SubmitFails(p) ==
  /\ CanSubmit(p)
  /\ \/ NotSaved("prepare") /\ UNCHANGED accepted
     \/ Saved(Prepared(p)) /\ accepted' = accepted \cup {p}
  /\ UNCHANGED <<serviceVars, running, ends, handed, confirmed, dropped>>

(* The adapter queues the prompt and announces a running phase, at once,   *)
(* and the hand-over is noted; when that fails the handler returns, while  *)
(* the process answers.                                                    *)
Submit(p) ==
  /\ CanSubmit(p)
  /\ sdk # None /\ (sdk.idleComes => IdleOvertaken)
  /\ accepted' = accepted \cup {p} /\ handed' = handed \cup {p}
  /\ sdk' = [sdk EXCEPT !.prompts = Append(@, p)]
  /\ \/ /\ Saved(Dispatched(Prepared(p), p))
        /\ entry' = [entry EXCEPT !.phase = "running", !.turn = p]
        /\ waiting' = waiting \cup {p}
     \/ /\ Fails("dispatch") /\ journal' = Prepared(p) /\ disk' = Prepared(p)
        /\ entry' = [entry EXCEPT !.phase = "running"]
        /\ UNCHANGED waiting
  /\ UNCHANGED <<generation, starts, begun, owner, running, ends, confirmed, dropped>>

(* The result of a prompt, with or without its place in the transcript     *)
(* (consumeResult, consume); that it cannot be noted is ignored.           *)
TurnEnds ==
  /\ sdk # None /\ sdk.prompts # <<>>
  /\ LET p == Head(sdk.prompts) IN
     \/ UNCHANGED <<journalVars, confirmed>>
     \/ /\ confirmed' = confirmed \cup {p}
        /\ IF journal # None /\ journal.state[p] # "none"
           THEN Saved(Confirmed(p)) \/ NotSaved("confirm")
           ELSE UNCHANGED journalVars
  /\ sdk' = [sdk EXCEPT !.prompts = Tail(@), !.idleComes = TRUE]
  /\ Shown([entry EXCEPT !.phase = "idle"])
  /\ UNCHANGED <<generation, starts, begun, owner, running, ends, accepted, handed, dropped>>

(* session_state_changed: idle, behind the result.                         *)
SessionIdle ==
  /\ sdk # None /\ sdk.idleComes
  /\ sdk' = [sdk EXCEPT !.idleComes = FALSE]
  /\ Shown([entry EXCEPT !.phase = "idle"])
  /\ UNCHANGED <<generation, starts, begun, owner, journalVars, running, ends, historyVars>>

(* A turn leaves background tasks, and they end.                           *)
TasksChange(some) ==
  /\ sdk # None /\ sdk.tasks # some
  /\ some => sdk.prompts # <<>>
  /\ sdk' = [sdk EXCEPT !.tasks = some]
  /\ Shown([entry EXCEPT !.tasks = some])
  /\ UNCHANGED <<generation, starts, begun, owner, journalVars, running, ends, historyVars>>

(* The process ends, perhaps while it starts (failSession).                *)
ProcessFails ==
  /\ entry # None /\ entry.step \in {"starting", "active"}
  /\ sdk' = None
  /\ Release
  /\ UNCHANGED <<generation, starts, begun, journalVars, running, ends, historyVars>>

(* close.  That of a conversation whose surface changes is an overlap that *)
(* ConversationOwnership names.                                            *)
Close ==
  /\ entry # None /\ ~Transferring
  /\ sdk' = None
  /\ MarkClean
  /\ Release
  /\ UNCHANGED <<generation, starts, begun, running, ends, historyVars>>

-----------------------------------------------------------------------------
(* To a terminal and back.                                                 *)

(* performTransfer up to the launch of the terminal: work is interrupted   *)
(* after a confirmation, a draft is kept first, the process is closed.     *)
BeginSwitch(draft) ==
  /\ entry # None /\ entry.step = "active"
  /\ entry.tasks => "of-tasks" \in Interruptions
  /\ IF draft = None
     THEN UNCHANGED <<journalVars, accepted>>
     ELSE /\ draft \notin accepted /\ CanPrepare(draft)
          /\ Saved(Preserved(Prepared(draft), draft))
          /\ accepted' = accepted \cup {draft}
  /\ sdk' = None
  /\ entry' = [entry EXCEPT !.step = "switching"]
  /\ UNCHANGED <<generation, starts, begun, owner, waiting, running, ends, handed, confirmed, dropped>>

(* A draft that cannot be kept leaves the conversation as it is.           *)
SwitchRefused(draft) ==
  /\ entry # None /\ entry.step = "active"
  /\ draft \notin accepted /\ CanPrepare(draft)
  /\ \/ NotSaved("prepare") /\ UNCHANGED accepted
     \/ Fails("prepare") /\ journal' = Prepared(draft) /\ disk' = Prepared(draft)
        /\ accepted' = accepted \cup {draft}
  /\ UNCHANGED <<serviceVars, running, ends, handed, confirmed, dropped>>

(* The terminal runs: the entry goes, and its turn is left as it is.       *)
SwitchCommits ==
  /\ entry # None /\ entry.step = "switching"
  /\ entry.turn # None => "that-succeed" \in Interruptions
  /\ Saved(Reserved)
  /\ owner' = "terminal" /\ entry' = None
  /\ UNCHANGED <<generation, starts, begun, sdk, waiting, running, ends, historyVars>>

SwitchFails ==
  /\ entry # None /\ entry.step = "switching"
  /\ entry' = [entry EXCEPT !.step = "restoring"]
  /\ UNCHANGED <<generation, starts, begun, owner, sdk, waiting, journalVars, running, ends, historyVars>>

(* The process is started again, or the conversation is released.  What    *)
(* the snapshot said of tasks stays.                                       *)
RestoreReturns ==
  /\ entry # None /\ entry.step = "restoring"
  /\ sdk' = NewProcess
  /\ Shown([entry EXCEPT !.step = "active", !.phase = "idle"])
  /\ UNCHANGED <<generation, starts, begun, owner, journalVars, running, ends, historyVars>>
RestoreFails ==
  /\ entry # None /\ entry.step = "restoring"
  /\ Release
  /\ UNCHANGED <<generation, starts, begun, sdk, journalVars, running, ends, historyVars>>

(* A terminal resumes the conversation, and ends.                          *)
TerminalResumes ==
  /\ running /\ owner = "nobody"
  /\ owner' = "terminal" /\ begun' = TRUE
  /\ UNCHANGED <<entry, generation, starts, sdk, waiting, journalVars, running, ends, historyVars>>
TerminalEnds ==
  /\ running /\ owner = "terminal" /\ entry = None
  /\ owner' = "nobody"
  /\ UNCHANGED <<entry, generation, starts, begun, sdk, waiting, journalVars, running, ends, historyVars>>

(* adoptFromTerminal: the terminal stops, the process starts, the record   *)
(* is reserved; else the terminal is restored.                             *)
BeginAdoption ==
  /\ running /\ owner = "terminal" /\ entry = None /\ generation < MaxGeneration
  /\ generation' = generation + 1
  /\ entry' = NewEntry("adopting")
  /\ UNCHANGED <<starts, begun, owner, sdk, waiting, journalVars, running, ends, historyVars>>
AdoptReturns ==
  /\ entry # None /\ entry.step = "adopting"
  /\ sdk' = NewProcess /\ owner' = "native"
  /\ Saved(Reserved)
  /\ Shown([entry EXCEPT !.step = "active", !.phase = "idle"])
  /\ UNCHANGED <<generation, starts, begun, running, ends, historyVars>>
AdoptFails ==
  /\ entry # None /\ entry.step = "adopting"
  /\ entry' = None
  /\ UNCHANGED <<generation, starts, begun, owner, sdk, waiting, journalVars, running, ends, historyVars>>

-----------------------------------------------------------------------------
(* The user discards a record that is shown (discardRecovery).             *)
Discard ==
  /\ running /\ journal # None /\ ~journal.clean
  /\ Saved(None)
  /\ dropped' = dropped \cup {p \in Prompt : journal.state[p] # "none"}
  /\ UNCHANGED <<serviceVars, running, ends, accepted, handed, confirmed>>

(* The application ends, at any moment.                                    *)
End ==
  /\ running /\ ends < MaxEnds
  /\ running' = FALSE /\ ends' = ends + 1
  /\ journal' = None
  /\ entry' = None /\ generation' = 0 /\ starts' = {} /\ owner' = "nobody"
  /\ sdk' = None /\ waiting' = {}
  /\ UNCHANGED <<disk, failures, begun, historyVars>>

(* load, and reconcileInterruptedNativeConversations: what was under way   *)
(* is marked, and a record without submissions and transcript discarded.   *)
Restart ==
  /\ ~running
  /\ running' = TRUE
  /\ IF disk = None \/ (disk # None /\ disk.clean) THEN journal' = disk /\ UNCHANGED <<disk, failures>>
     ELSE \/ Saved(Interrupted(disk))
          \/ (\A p \in Prompt : disk.state[p] = "none") /\ Saved(None)
  /\ UNCHANGED <<serviceVars, ends, historyVars>>

Next ==
  \/ Start \/ \E s \in starts : StartReturns(s) \/ StartFails(s)
  \/ \E p \in Prompt : Submit(p) \/ SubmitFails(p)
  \/ TurnEnds \/ SessionIdle \/ \E some \in BOOLEAN : TasksChange(some)
  \/ ProcessFails \/ Close
  \/ \E draft \in Prompt \cup {None} : BeginSwitch(draft)
  \/ \E draft \in Prompt : SwitchRefused(draft)
  \/ SwitchCommits \/ SwitchFails \/ RestoreReturns \/ RestoreFails
  \/ TerminalResumes \/ TerminalEnds
  \/ BeginAdoption \/ AdoptReturns \/ AdoptFails
  \/ Discard \/ End \/ Restart

Spec == Init /\ [][Next]_vars

-----------------------------------------------------------------------------
TypeOK ==
  /\ journal \in Record \cup {None} /\ disk \in Record \cup {None}
  /\ entry \in Entry \cup {None} /\ generation \in 0..MaxGeneration
  /\ starts \subseteq [generation : 1..MaxGeneration, fresh : BOOLEAN]
  /\ begun \in BOOLEAN /\ owner \in {"nobody", "native", "terminal"}
  /\ sdk \in Process \cup {None}
  /\ running \in BOOLEAN /\ failures \in 0..MaxFailures /\ ends \in 0..MaxEnds
  /\ waiting \subseteq Prompt /\ accepted \subseteq Prompt
  /\ handed \subseteq accepted /\ confirmed \subseteq handed /\ dropped \subseteq accepted

(* A prompt the journal took is on the disk, with its text, until its      *)
(* place in the transcript is reported or the user discards its record:    *)
(* no start that fails late, no close, no switch and no restart loses it.  *)
(* One that Claude was given is noted as such, in a record that stays a    *)
(* recovery card until its result is known, and is never offered as an     *)
(* unsent draft: sending a draft repeats nothing.                          *)
JournalTellsTheTruth ==
  /\ \A p \in accepted \ (confirmed \cup dropped) :
       /\ disk # None /\ p \in disk.text
       /\ p \in handed => disk.state[p] \in Ambiguous /\ ~disk.clean
  /\ disk # None => \A p \in handed :
       disk.state[p] \notin {"prepared", "interrupted-draft"}

(* The handler of a prompt keeps its network lease as long as the process  *)
(* works for it, with its background tasks, and no longer, except while    *)
(* the surface changes and nothing can answer.                             *)
LeaseFollowsTurn ==
  /\ \A p \in waiting :
       /\ entry # None /\ entry.turn = p
       /\ \/ entry.step \in {"switching", "restoring"}
          \/ sdk # None /\ (sdk.prompts # <<>> \/ sdk.tasks)
  /\ sdk # None /\ (sdk.prompts # <<>> \/ sdk.tasks) => waiting # {}
=============================================================================
