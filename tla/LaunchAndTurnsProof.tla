------------------------- MODULE LaunchAndTurnsProof -------------------------
(***************************************************************************)
(* Safety of what a Claude session is started and driven with: the prompts *)
(* of a native conversation, for any number of them, of native lives, of   *)
(* failed saves and of ends of the application; and, from "Launch preflight*)
(* decisions" on, the paused launches, for any number of sessions,         *)
(* launches, answers, decisions and interferences and for any limits.      *)
(***************************************************************************)
EXTENDS NativeTurns, LaunchPreflightDecision, FiniteSetTheorems,
        WellFoundedInduction, TLAPS

(* What is in memory belongs to a running application; its journal is the  *)
(* one on the disk.  The process is up exactly while the conversation is   *)
(* active, and was given the prompts it works on.                          *)
Alive ==
  /\ running => journal = disk
  /\ ~running => entry = None /\ sdk = None /\ starts = {} /\ waiting = {}
  /\ entry # None =>
       /\ entry.generation = generation
       /\ entry.step \in {"starting", "adopting"} => entry.phase = "starting"
       /\ entry.step = "active" => sdk # None /\ entry.phase # "starting"
  /\ sdk # None =>
       /\ entry # None /\ entry.step = "active"
       /\ \A i \in 1..Len(sdk.prompts) : sdk.prompts[i] \in handed

(* Of the starts whose process has not come up, the last may be that of a  *)
(* conversation that was never started: then no prompt was taken yet.      *)
Lives ==
  /\ \A s \in starts :
       /\ s.generation <= generation
       /\ \A r \in starts : r.generation = s.generation => r = s
       /\ s.fresh /\ s.generation = generation =>
            accepted = {} /\ (entry # None => entry.step = "starting")
  /\ ~begun => accepted = {} /\ entry = None /\ owner # "terminal"

(* What a record says of the prompts that were taken.                      *)
Tells(record) ==
  /\ \A p \in accepted \ (confirmed \cup dropped) :
       /\ record # None /\ p \in record.text /\ record.state[p] # "none"
       /\ p \in handed => record.state[p] \in Ambiguous /\ ~record.clean
  /\ record # None => \A p \in Prompt :
       /\ p \in handed => record.state[p] \notin {"prepared", "interrupted-draft"}
       /\ p \notin accepted => record.state[p] = "none"

Journal == TypeOK /\ Alive /\ Lives /\ Tells(disk)

-----------------------------------------------------------------------------
(* The turn that is waited for is that of the active conversation, and the *)
(* phase its snapshot shows is that of the process.                        *)
Turn ==
  /\ LeaseFollowsTurn
  /\ entry # None => (entry.tasks <=> sdk # None /\ sdk.tasks)
  /\ sdk # None =>
       /\ entry.phase = (IF sdk.prompts = <<>> THEN "idle" ELSE "running")
       /\ Len(sdk.prompts) <= 1
       /\ sdk.idleComes => sdk.prompts = <<>>

-----------------------------------------------------------------------------
(* What the mutations make of a record.                                    *)
LEMMA Preparing ==
  ASSUME journal \in Record, NEW p \in Prompt
  PROVE  /\ Prepared(p) \in Record /\ Prepared(p).clean = FALSE
         /\ Prepared(p).text = journal.text \cup {p}
         /\ Prepared(p).state[p] = "prepared"
         /\ \A q \in Prompt \ {p} : Prepared(p).state[q] = journal.state[q]
BY DEF Prepared, Record, SubmissionState

(* A submission is dispatched, or kept as an interrupted draft. *)
LEMMA Marking ==
  ASSUME NEW record \in Record, NEW p \in Prompt
  PROVE  /\ Dispatched(record, p) \in Record
         /\ Dispatched(record, p).clean = record.clean
         /\ Dispatched(record, p).text = record.text
         /\ Dispatched(record, p).state[p] = "dispatched"
         /\ \A q \in Prompt \ {p} : Dispatched(record, p).state[q] = record.state[q]
         /\ Preserved(record, p) \in Record
         /\ Preserved(record, p).clean = record.clean
         /\ Preserved(record, p).text = record.text
         /\ Preserved(record, p).state[p] = "interrupted-draft"
         /\ \A q \in Prompt \ {p} : Preserved(record, p).state[q] = record.state[q]
BY DEF Dispatched, Preserved, Record, SubmissionState

(* The transcript confirms a submission: its text is dropped. *)
LEMMA Confirming ==
  ASSUME journal \in Record, NEW p \in Prompt
  PROVE  /\ Confirmed(p) \in Record /\ Confirmed(p).clean = journal.clean
         /\ Confirmed(p).text = journal.text \ {p}
         /\ Confirmed(p).state[p] = "transcript-confirmed"
         /\ \A q \in Prompt \ {p} : Confirmed(p).state[q] = journal.state[q]
BY DEF Confirmed, Record, SubmissionState

(* A conversation gets a record, or goes on with the one it has. *)
LEMMA Reserving ==
  ASSUME journal \in Record \cup {None}
  PROVE  /\ Reserved \in Record /\ Reserved.clean = FALSE
         /\ journal # None => Reserved.text = journal.text /\ Reserved.state = journal.state
         /\ journal = None => \A p \in Prompt : Reserved.state[p] = "none"
BY DEF Reserved, EmptyRecord, Record, SubmissionState

(* What a restart makes of submissions that were under way. *)
LEMMA Interrupting ==
  ASSUME NEW record \in Record
  PROVE  /\ Interrupted(record) \in Record
         /\ Interrupted(record).clean = record.clean
         /\ Interrupted(record).text = record.text
         /\ \A p \in Prompt : Interrupted(record).state[p] =
              IF record.state[p] = "prepared" THEN "interrupted-draft"
              ELSE IF record.state[p] = "dispatched" THEN "result-unknown"
              ELSE record.state[p]
BY DEF Interrupted, Record, SubmissionState

(* The mark of a clean end changes nothing else. *)
LEMMA Cleaning ==
  ASSUME journal \in Record
  PROVE  /\ [journal EXCEPT !.clean = TRUE] \in Record
         /\ [journal EXCEPT !.clean = TRUE].clean = TRUE
         /\ [journal EXCEPT !.clean = TRUE].text = journal.text
         /\ [journal EXCEPT !.clean = TRUE].state = journal.state
BY DEF Record

(* What a snapshot leaves of the entry and of the handlers that wait.      *)
LEMMA Showing ==
  ASSUME NEW e \in Entry, Shown(e)
  PROVE  /\ entry' \in Entry /\ entry'.generation = e.generation /\ entry'.step = e.step
         /\ entry'.phase = e.phase /\ entry'.tasks = e.tasks
         /\ HasRunningWork(e) => entry'.turn = e.turn /\ waiting' = waiting
         /\ ~HasRunningWork(e) => entry'.turn = None /\ waiting' = waiting \ {e.turn}
BY DEF Shown, Entry

(* The snapshots the process sends, and the one after it came up.          *)
Up == [entry EXCEPT !.step = "active", !.phase = "idle"]
Idle == [entry EXCEPT !.phase = "idle"]
WithTasks(some) == [entry EXCEPT !.tasks = some]

(* They differ from the entry in the field they are named for. *)
LEMMA Snapshots ==
  ASSUME entry \in Entry
  PROVE  /\ Up \in Entry /\ Up.generation = entry.generation /\ Up.turn = entry.turn
         /\ Up.step = "active" /\ Up.phase = "idle" /\ Up.tasks = entry.tasks
         /\ Idle \in Entry /\ Idle.generation = entry.generation /\ Idle.turn = entry.turn
         /\ Idle.step = entry.step /\ Idle.phase = "idle" /\ Idle.tasks = entry.tasks
         /\ \A some \in BOOLEAN :
              LET e == WithTasks(some) IN
              /\ e \in Entry /\ e.generation = entry.generation /\ e.turn = entry.turn
              /\ e.step = entry.step /\ e.phase = entry.phase /\ e.tasks = some
BY DEF Up, Idle, WithTasks, Entry

(* An entry begins, changes its surface, and takes a prompt.               *)
LEMMA Entries ==
  ASSUME generation \in 0..MaxGeneration, NEW step \in {"starting", "adopting"},
         generation < MaxGeneration
  PROVE  /\ NewEntry(step) \in Entry /\ NewEntry(step).generation = generation + 1
         /\ NewEntry(step).step = step /\ NewEntry(step).turn = None
         /\ NewEntry(step).phase = "starting" /\ NewEntry(step).tasks = FALSE
         /\ generation + 1 \in 1..MaxGeneration
<1>1. generation + 1 \in 1..MaxGeneration
  BY NativeTurnsAssumption
<1> QED
  BY <1>1 DEF NewEntry, Entry

(* Only the step of the entry changes with its surface. *)
LEMMA Stepping ==
  ASSUME entry \in Entry, NEW step \in {"switching", "restoring"},
         entry' = [entry EXCEPT !.step = step]
  PROVE  /\ entry' \in Entry /\ entry'.generation = entry.generation
         /\ entry'.step = step /\ entry'.turn = entry.turn
         /\ entry'.phase = entry.phase /\ entry'.tasks = entry.tasks
BY DEF Entry

(* Only the phase and the turn change with a prompt. *)
LEMMA Taking ==
  ASSUME entry \in Entry, NEW p \in Prompt,
         \/ entry' = [entry EXCEPT !.phase = "running", !.turn = p]
         \/ entry' = [entry EXCEPT !.phase = "running"]
  PROVE  /\ entry' \in Entry /\ entry'.generation = entry.generation
         /\ entry'.step = entry.step /\ entry'.phase = "running"
         /\ entry'.tasks = entry.tasks
         /\ entry'.turn = p \/ entry'.turn = entry.turn
BY DEF Entry

(* A new process is a process. *)
LEMMA Fine == NewProcess \in Process
BY DEF NewProcess, Process

(* Every step keeps the journal and the service in their ranges ...        *)
Kinds ==
  /\ journal \in Record \cup {None} /\ disk \in Record \cup {None}
  /\ entry \in Entry \cup {None} /\ generation \in 0..MaxGeneration
  /\ starts \subseteq [generation : 1..MaxGeneration, fresh : BOOLEAN]
  /\ begun \in BOOLEAN /\ owner \in {"nobody", "native", "terminal"}
  /\ sdk \in Process \cup {None}
  /\ running \in BOOLEAN /\ failures \in 0..MaxFailures /\ ends \in 0..MaxEnds
  /\ waiting \subseteq Prompt

(* ... whatever a handler does, and whichever save fails. *)
LEMMA KindsInductive ==
  ASSUME TypeOK, Alive, [Next]_vars
  PROVE  Kinds'
<1> USE NativeTurnsAssumption, NoneIsNothing
    DEF vars, journalVars, serviceVars, historyVars, Saved, NotSaved, Fails
<1>t. Kinds /\ (sdk # None => entry # None)
  BY DEF TypeOK, Kinds, Alive
<1>f. failures' = failures \/ (failures < MaxFailures /\ failures' = failures + 1)
        => failures' \in 0..MaxFailures
  BY <1>t DEF Kinds
<1>1. CASE Start
  <2>1. \/ entry' = entry /\ starts' = starts
        \/ /\ entry' = NewEntry("starting")
           /\ starts' = starts \cup {[generation |-> generation + 1, fresh |-> ~begun]}
    BY <1>1 DEF Start
  <2>2. entry' \in Entry \cup {None} /\ generation' \in 0..MaxGeneration
    <3>1. generation \in 0..MaxGeneration /\ generation < MaxGeneration
          /\ generation' = generation + 1
      BY <1>t, <1>1 DEF Start, Kinds
    <3> QED
      BY <1>t, <2>1, <3>1, Entries DEF Kinds
  <2>3. starts' \subseteq [generation : 1..MaxGeneration, fresh : BOOLEAN]
    <3>1. [generation |-> generation + 1, fresh |-> ~begun]
            \in [generation : 1..MaxGeneration, fresh : BOOLEAN]
      BY <1>t, <1>1 DEF Start, Kinds
    <3> QED
      BY <1>t, <2>1, <3>1 DEF Kinds
  <2>4. /\ journal' \in Record \cup {None} /\ disk' \in Record \cup {None}
        /\ failures' \in 0..MaxFailures
    BY <1>t, <1>f, <1>1, Reserving DEF Start, Kinds
  <2> QED
    BY <1>t, <1>1, <2>2, <2>3, <2>4 DEF Start, Kinds
<1>2. CASE \E s \in starts : StartReturns(s)
  <2>1. entry \in Entry /\ Shown(Up)
    BY <1>t, <1>2 DEF StartReturns, Starting, Kinds, Up
  <2>2. entry' \in Entry /\ waiting' \subseteq waiting
    BY <2>1, Snapshots, Showing
  <2> QED
    BY <1>t, <1>2, <2>2, Fine DEF StartReturns, Kinds
<1>3. CASE \E s \in starts : StartFails(s)
  BY <1>t, <1>3 DEF StartFails, Release, Kinds
<1>4. ASSUME NEW p \in Prompt, SubmitFails(p) PROVE Kinds'
  <2>1. Prepared(p) \in Record
    BY <1>t, <1>4, Preparing DEF SubmitFails, CanSubmit, CanPrepare, Kinds
  <2> QED
    BY <1>t, <1>f, <1>4, <2>1 DEF SubmitFails, Kinds
<1>5. ASSUME NEW p \in Prompt, Submit(p) PROVE Kinds'
  <2>1. entry \in Entry /\ journal \in Record /\ sdk \in Process
    BY <1>t, <1>5 DEF Submit, CanSubmit, CanPrepare, Kinds
  <2>2. sdk' \in Process
    <3>1. Append(sdk.prompts, p) \in Seq(Prompt)
      BY <2>1 DEF Process
    <3>2. sdk' = [sdk EXCEPT !.prompts = Append(sdk.prompts, p)]
      BY <1>5 DEF Submit
    <3> QED
      BY <2>1, <3>1, <3>2 DEF Process
  <2>3. entry' \in Entry
    BY <1>5, <2>1, Taking DEF Submit
  <2>4. Prepared(p) \in Record /\ Dispatched(Prepared(p), p) \in Record
    BY <2>1, Preparing, Marking
  <2>5. /\ journal' \in Record /\ disk' \in Record /\ failures' \in 0..MaxFailures
        /\ waiting' \subseteq Prompt
    BY <1>t, <1>f, <1>5, <2>4 DEF Submit, Kinds
  <2> QED
    BY <1>t, <1>5, <2>2, <2>3, <2>5 DEF Submit, Kinds
<1>6. CASE TurnEnds
  <2>1. entry \in Entry /\ sdk \in Process /\ Shown(Idle) /\ sdk.prompts # <<>>
    BY <1>t, <1>6 DEF TurnEnds, Kinds, Idle
  <2>2. entry' \in Entry /\ waiting' \subseteq waiting
    BY <2>1, Snapshots, Showing
  <2>3. sdk' \in Process /\ Head(sdk.prompts) \in Prompt
    <3>1. Tail(sdk.prompts) \in Seq(Prompt) /\ Head(sdk.prompts) \in Prompt
      BY <2>1 DEF Process
    <3>2. sdk' = [sdk EXCEPT !.prompts = Tail(sdk.prompts), !.idleComes = TRUE]
      BY <1>6 DEF TurnEnds
    <3> QED
      BY <2>1, <3>1, <3>2 DEF Process
  <2>4. /\ journal' \in Record \cup {None} /\ disk' \in Record \cup {None}
        /\ failures' \in 0..MaxFailures
    BY <1>t, <1>f, <1>6, <2>3, Confirming DEF TurnEnds, Kinds
  <2> QED
    BY <1>t, <1>6, <2>2, <2>3, <2>4 DEF TurnEnds, Kinds
<1>7. CASE SessionIdle
  <2>1. entry \in Entry /\ sdk \in Process /\ Shown(Idle)
    BY <1>t, <1>7 DEF SessionIdle, Kinds, Idle
  <2>2. entry' \in Entry /\ waiting' \subseteq waiting
    BY <2>1, Snapshots, Showing
  <2>3. sdk' \in Process
    BY <1>7, <2>1 DEF SessionIdle, Process
  <2> QED
    BY <1>t, <1>7, <2>2, <2>3 DEF SessionIdle, Kinds
<1>8. ASSUME NEW some \in BOOLEAN, TasksChange(some) PROVE Kinds'
  <2>1. entry \in Entry /\ sdk \in Process /\ Shown(WithTasks(some))
    BY <1>t, <1>8 DEF TasksChange, Kinds, WithTasks
  <2>2. entry' \in Entry /\ waiting' \subseteq waiting
    BY <2>1, Snapshots, Showing
  <2>3. sdk' \in Process
    BY <1>8, <2>1 DEF TasksChange, Process
  <2> QED
    BY <1>t, <1>8, <2>2, <2>3 DEF TasksChange, Kinds
<1>9. CASE ProcessFails \/ RestoreFails
  BY <1>t, <1>9 DEF ProcessFails, RestoreFails, Release, Kinds
<1>10. CASE Close
  BY <1>t, <1>f, <1>10, Cleaning DEF Close, MarkClean, Release, Kinds
<1>11. ASSUME NEW draft \in Prompt \cup {None}, BeginSwitch(draft) PROVE Kinds'
  <2>1. entry' \in Entry
    BY <1>t, <1>11, Stepping DEF BeginSwitch, Kinds
  <2>2. journal' \in Record \cup {None} /\ disk' \in Record \cup {None}
    <3>1. CASE draft = None
      BY <1>t, <1>11, <3>1 DEF BeginSwitch, Kinds
    <3>2. CASE draft # None
      <4>1. draft \in Prompt /\ journal \in Record
        BY <1>t, <1>11, <3>2 DEF BeginSwitch, CanPrepare, Kinds
      <4>2. Prepared(draft) \in Record /\ Preserved(Prepared(draft), draft) \in Record
        BY <4>1, Preparing, Marking
      <4> QED
        BY <1>11, <3>2, <4>2 DEF BeginSwitch
    <3> QED
      BY <3>1, <3>2
  <2> QED
    BY <1>t, <1>11, <2>1, <2>2 DEF BeginSwitch, Kinds
<1>12. ASSUME NEW draft \in Prompt, SwitchRefused(draft) PROVE Kinds'
  <2>1. Prepared(draft) \in Record
    BY <1>t, <1>12, Preparing DEF SwitchRefused, CanPrepare, Kinds
  <2> QED
    BY <1>t, <1>f, <1>12, <2>1 DEF SwitchRefused, Kinds
<1>13. CASE SwitchCommits
  BY <1>t, <1>13, Reserving DEF SwitchCommits, Kinds
<1>14. CASE SwitchFails
  BY <1>t, <1>14, Stepping DEF SwitchFails, Kinds
<1>15. CASE RestoreReturns
  <2>1. entry \in Entry /\ Shown(Up)
    BY <1>t, <1>15 DEF RestoreReturns, Kinds, Up
  <2>2. entry' \in Entry /\ waiting' \subseteq waiting
    BY <2>1, Snapshots, Showing
  <2> QED
    BY <1>t, <1>15, <2>2, Fine DEF RestoreReturns, Kinds
<1>16. CASE TerminalResumes \/ TerminalEnds \/ AdoptFails
  BY <1>t, <1>16 DEF TerminalResumes, TerminalEnds, AdoptFails, Kinds
<1>17. CASE BeginAdoption
  <2>1. generation \in 0..MaxGeneration /\ generation < MaxGeneration
        /\ generation' = generation + 1
    BY <1>t, <1>17 DEF BeginAdoption, Kinds
  <2>2. entry' \in Entry /\ generation' \in 0..MaxGeneration
    BY <1>17, <2>1, Entries DEF BeginAdoption
  <2> QED
    BY <1>t, <1>17, <2>2 DEF BeginAdoption, Kinds
<1>18. CASE AdoptReturns
  <2>1. entry \in Entry /\ Shown(Up)
    BY <1>t, <1>18 DEF AdoptReturns, Kinds, Up
  <2>2. entry' \in Entry /\ waiting' \subseteq waiting
    BY <2>1, Snapshots, Showing
  <2> QED
    BY <1>t, <1>18, <2>2, Fine, Reserving DEF AdoptReturns, Kinds
<1>19. CASE Discard
  <2>1. journal' = None /\ disk' = None /\ UNCHANGED <<serviceVars, failures, running, ends>>
    BY <1>19 DEF Discard
  <2> QED
    BY <1>t, <2>1 DEF Kinds
<1>20. CASE End
  <2>1. ends' \in 0..MaxEnds
    BY <1>t, <1>20 DEF End, Kinds
  <2>2. running' = FALSE /\ generation' \in 0..MaxGeneration
    BY <1>20 DEF End
  <2> QED
    BY <1>t, <1>20, <2>1, <2>2 DEF End, Kinds
<1>21. CASE Restart
  <2>1. /\ journal' \in Record \cup {None} /\ disk' \in Record \cup {None}
        /\ failures' = failures
    BY <1>t, <1>21, Interrupting DEF Restart, Kinds
  <2> QED
    BY <1>t, <1>21, <2>1 DEF Restart, Kinds
<1>22. CASE UNCHANGED vars
  BY <1>t, <1>22 DEF Kinds
<1> QED
  BY <1>1, <1>2, <1>3, <1>4, <1>5, <1>6, <1>7, <1>8, <1>9, <1>10, <1>11, <1>12, <1>13, <1>14,
     <1>15, <1>16, <1>17, <1>18, <1>19, <1>20, <1>21, <1>22 DEF Next

(* ... and what is in memory belongs to the application that runs.         *)
LEMMA AliveInductive ==
  ASSUME TypeOK, Alive, [Next]_vars
  PROVE  Alive'
<1> USE NativeTurnsAssumption, NoneIsNothing
    DEF vars, journalVars, serviceVars, historyVars, Saved, NotSaved, Fails
<1>t. Kinds /\ (sdk # None => entry # None) /\ handed \subseteq accepted
  BY DEF TypeOK, Kinds, Alive
<1>n. NewProcess # None /\ NewProcess.prompts = <<>>
  BY Fine DEF NewProcess
<1>1. CASE Start
  <2>1. generation < MaxGeneration
    BY <1>1 DEF Start
  <2>2. NewEntry("starting") # None
    BY <1>t, <2>1, Entries DEF Kinds
  <2> QED
    BY <1>t, <1>1, <2>1, <2>2, Entries DEF Start, Kinds, Alive
<1>2. ASSUME NEW s \in starts, StartReturns(s) PROVE Alive'
  <2>1. entry \in Entry /\ Shown(Up) /\ entry.generation = generation /\ running
    BY <1>t, <1>2 DEF StartReturns, Starting, Kinds, Up, Alive
  <2>2. /\ entry' \in Entry /\ entry'.generation = generation
        /\ entry'.step = "active" /\ entry'.phase = "idle"
    BY <2>1, Snapshots, Showing
  <2> QED
    BY <1>n, <1>2, <2>1, <2>2 DEF StartReturns, Alive
<1>3. CASE \E s \in starts : StartFails(s)
  BY <1>t, <1>3 DEF StartFails, Starting, Release, Kinds, Alive
<1>4. ASSUME NEW p \in Prompt, SubmitFails(p) PROVE Alive'
  BY <1>t, <1>4 DEF SubmitFails, CanSubmit, Kinds, Alive
<1>5. ASSUME NEW p \in Prompt, Submit(p) PROVE Alive'
  <2>1. /\ entry \in Entry /\ sdk \in Process /\ running /\ entry.step = "active"
        /\ entry.generation = generation
    BY <1>t, <1>5 DEF Submit, CanSubmit, CanPrepare, Kinds, Alive
  <2>2. sdk' # None /\ sdk'.prompts = Append(sdk.prompts, p)
    BY <1>5, <2>1 DEF Submit, Process
  <2>3. \A i \in 1..Len(sdk'.prompts) : sdk'.prompts[i] \in handed'
    <3>1. sdk.prompts \in Seq(Prompt) /\ handed' = handed \cup {p}
      BY <1>5, <2>1 DEF Process, Submit
    <3>2. \A i \in 1..Len(sdk.prompts) : sdk.prompts[i] \in handed
      BY <2>1 DEF Alive
    <3> QED
      BY <2>2, <3>1, <3>2
  <2>4. /\ entry' # None /\ entry'.generation = generation /\ entry'.step = "active"
        /\ entry'.phase = "running"
    BY <1>5, <2>1, Taking DEF Submit
  <2> QED
    BY <1>5, <2>1, <2>2, <2>3, <2>4 DEF Submit, Alive
<1>6. CASE TurnEnds
  <2>1. /\ entry \in Entry /\ sdk \in Process /\ Shown(Idle) /\ running
        /\ entry.generation = generation /\ entry.step = "active" /\ sdk.prompts # <<>>
    BY <1>t, <1>6 DEF TurnEnds, Kinds, Idle, Alive
  <2>2. /\ entry' # None /\ entry'.generation = generation /\ entry'.step = "active"
        /\ entry'.phase = "idle"
    BY <2>1, Snapshots, Showing
  <2>3. sdk' # None /\ sdk'.prompts = Tail(sdk.prompts)
    <3>1. sdk' = [sdk EXCEPT !.prompts = Tail(sdk.prompts), !.idleComes = TRUE]
      BY <1>6 DEF TurnEnds
    <3>2. Tail(sdk.prompts) \in Seq(Prompt)
      BY <2>1 DEF Process
    <3> QED
      BY <2>1, <3>1, <3>2 DEF Process
  <2>4. \A i \in 1..Len(sdk'.prompts) : sdk'.prompts[i] \in handed
    <3>1. \A i \in 1..Len(sdk.prompts) : sdk.prompts[i] \in handed
      BY <2>1 DEF Alive
    <3>2. sdk.prompts \in Seq(Prompt)
      BY <2>1 DEF Process
    <3> QED
      BY <2>1, <2>3, <3>1, <3>2
  <2>5. journal' = disk'
    BY <1>6, <2>1 DEF TurnEnds, Alive
  <2> QED
    BY <1>6, <2>1, <2>2, <2>3, <2>4, <2>5 DEF TurnEnds, Alive
<1>7. CASE SessionIdle
  <2>1. /\ entry \in Entry /\ sdk \in Process /\ Shown(Idle) /\ running
        /\ entry.generation = generation /\ entry.step = "active"
    BY <1>t, <1>7 DEF SessionIdle, Kinds, Idle, Alive
  <2>2. /\ entry' # None /\ entry'.generation = generation /\ entry'.step = "active"
        /\ entry'.phase = "idle"
    BY <2>1, Snapshots, Showing
  <2>3. sdk' # None /\ sdk'.prompts = sdk.prompts
    BY <1>7, <2>1 DEF SessionIdle, Process
  <2> QED
    BY <1>7, <2>1, <2>2, <2>3 DEF SessionIdle, Alive
<1>8. ASSUME NEW some \in BOOLEAN, TasksChange(some) PROVE Alive'
  <2>1. /\ entry \in Entry /\ sdk \in Process /\ Shown(WithTasks(some)) /\ running
        /\ entry.generation = generation /\ entry.step = "active" /\ entry.phase # "starting"
    BY <1>t, <1>8 DEF TasksChange, Kinds, WithTasks, Alive
  <2>2. /\ entry' # None /\ entry'.generation = generation /\ entry'.step = "active"
        /\ entry'.phase # "starting"
    BY <2>1, Snapshots, Showing
  <2>3. sdk' # None /\ sdk'.prompts = sdk.prompts
    BY <1>8, <2>1 DEF TasksChange, Process
  <2> QED
    BY <1>8, <2>1, <2>2, <2>3 DEF TasksChange, Alive
<1>9. CASE ProcessFails \/ RestoreFails
  BY <1>t, <1>9 DEF ProcessFails, RestoreFails, Release, Kinds, Alive
<1>10. CASE Close
  <2>1. entry' = None /\ sdk' = None /\ MarkClean /\ running /\ journal = disk
    BY <1>10 DEF Close, Release, Alive
  <2>2. journal' = disk'
    BY <2>1 DEF MarkClean
  <2> QED
    BY <1>10, <2>1, <2>2 DEF Close, Alive
<1>11. ASSUME NEW draft \in Prompt \cup {None}, BeginSwitch(draft) PROVE Alive'
  <2>1. running /\ journal' = disk'
    BY <1>11 DEF BeginSwitch, Alive
  <2>2. /\ entry' \in Entry /\ entry'.generation = entry.generation
        /\ entry'.step = "switching" /\ entry # None
    BY <1>t, <1>11, Stepping DEF BeginSwitch, Kinds
  <2> QED
    BY <1>11, <2>1, <2>2 DEF BeginSwitch, Alive
<1>12. ASSUME NEW draft \in Prompt, SwitchRefused(draft) PROVE Alive'
  BY <1>12 DEF SwitchRefused, Alive
<1>13. CASE SwitchCommits
  BY <1>13 DEF SwitchCommits, Alive
<1>14. CASE SwitchFails
  <2>1. /\ entry' \in Entry /\ entry'.generation = entry.generation
        /\ entry'.step = "restoring" /\ entry # None
    BY <1>t, <1>14, Stepping DEF SwitchFails, Kinds
  <2> QED
    BY <1>14, <2>1 DEF SwitchFails, Alive
<1>15. CASE RestoreReturns
  <2>1. entry \in Entry /\ Shown(Up) /\ entry.generation = generation /\ running
    BY <1>t, <1>15 DEF RestoreReturns, Kinds, Up, Alive
  <2>2. /\ entry' \in Entry /\ entry'.generation = generation
        /\ entry'.step = "active" /\ entry'.phase = "idle"
    BY <2>1, Snapshots, Showing
  <2> QED
    BY <1>n, <1>15, <2>1, <2>2 DEF RestoreReturns, Alive
<1>16. CASE TerminalResumes \/ TerminalEnds \/ AdoptFails
  BY <1>16 DEF TerminalResumes, TerminalEnds, AdoptFails, Alive
<1>17. CASE BeginAdoption
  <2>1. generation < MaxGeneration
    BY <1>17 DEF BeginAdoption
  <2>2. NewEntry("adopting") # None
    BY <1>t, <2>1, Entries DEF Kinds
  <2> QED
    BY <1>t, <1>17, <2>1, <2>2, Entries DEF BeginAdoption, Kinds, Alive
<1>18. CASE AdoptReturns
  <2>1. entry \in Entry /\ Shown(Up) /\ entry.generation = generation /\ running
    BY <1>t, <1>18 DEF AdoptReturns, Kinds, Up, Alive
  <2>2. /\ entry' \in Entry /\ entry'.generation = generation
        /\ entry'.step = "active" /\ entry'.phase = "idle"
    BY <2>1, Snapshots, Showing
  <2> QED
    BY <1>n, <1>18, <2>1, <2>2 DEF AdoptReturns, Alive
<1>19. CASE Discard
  <2>1. journal' = disk' /\ UNCHANGED <<serviceVars, running, handed>>
    BY <1>19 DEF Discard
  <2> QED
    BY <2>1 DEF Alive
<1>20. CASE End
  BY <1>20 DEF End, Alive
<1>21. CASE Restart
  <2>1. journal' = disk' /\ running' /\ UNCHANGED <<serviceVars, handed>>
    BY <1>21 DEF Restart
  <2> QED
    BY <1>21, <2>1 DEF Restart, Alive
<1>22. CASE UNCHANGED vars
  BY <1>22 DEF Alive
<1> QED
  BY <1>1, <1>2, <1>3, <1>4, <1>5, <1>6, <1>7, <1>8, <1>9, <1>10, <1>11, <1>12, <1>13, <1>14,
     <1>15, <1>16, <1>17, <1>18, <1>19, <1>20, <1>21, <1>22 DEF Next

-----------------------------------------------------------------------------
(* No prompt was taken while the first start of a conversation is the last.*)
LEMMA LivesInductive ==
  ASSUME TypeOK, Alive, Lives, [Next]_vars
  PROVE  Lives'
<1> USE NativeTurnsAssumption, NoneIsNothing
    DEF vars, serviceVars, historyVars
<1>t. Kinds
  BY DEF TypeOK, Kinds
<1>1. CASE Start
  <2> DEFINE s == [generation |-> generation + 1, fresh |-> ~begun]
  <2>1. /\ entry = None /\ generation \in Nat /\ generation' = generation + 1 /\ begun'
        /\ \A r \in starts : r.generation \in Nat /\ r.generation <= generation
        /\ UNCHANGED accepted
    BY <1>t, <1>1 DEF Start, Kinds, Lives
  <2>2. CASE entry' = entry /\ starts' = starts
    BY <2>1, <2>2 DEF Lives
  <2>3. CASE entry' = NewEntry("starting") /\ starts' = starts \cup {s}
    <3>1. /\ s.generation = generation + 1 /\ (s.fresh => accepted = {})
          /\ entry'.step = "starting"
      BY <2>1, <2>3 DEF Lives, NewEntry
    <3> HIDE DEF s
    <3> QED
      BY <2>1, <2>3, <3>1 DEF Lives
  <2> QED
    BY <1>1, <2>2, <2>3 DEF Start
<1>2. ASSUME NEW s \in starts, StartReturns(s) PROVE Lives'
  <2>1. /\ entry # None /\ starts' = starts \ {s} /\ s.generation = generation /\ begun
        /\ UNCHANGED <<accepted, generation, begun>>
    BY <1>2 DEF StartReturns, Starting, Alive, Lives
  <2>2. \A r \in starts' : r.generation # generation
    BY <2>1 DEF Lives
  <2> QED
    BY <2>1, <2>2 DEF Lives
<1>3. ASSUME NEW s \in starts, StartFails(s) PROVE Lives'
  <2>1. /\ starts' = starts \ {s} /\ entry' \in {entry, None} /\ owner' \in {owner, "nobody"}
        /\ UNCHANGED <<accepted, generation, begun>>
    BY <1>3 DEF StartFails, Starting, Release
  <2> QED
    BY <2>1 DEF Lives
<1>4. ASSUME UNCHANGED <<generation, begun, starts, owner>>, entry # None, entry' # None,
             entry.step # "starting"
      PROVE  Lives'
  BY <1>4 DEF Lives
<1>5. CASE (\E p \in Prompt : Submit(p) \/ SubmitFails(p)) \/ TurnEnds \/ SessionIdle
           \/ \E some \in BOOLEAN : TasksChange(some)
  <2>1. entry # None /\ entry.step # "starting"
    BY <1>5 DEF Submit, SubmitFails, CanSubmit, TurnEnds, SessionIdle, TasksChange, Alive
  <2>2. entry' # None
    <3>1. entry \in Entry
      BY <1>t, <2>1 DEF Kinds
    <3>2. ASSUME NEW p \in Prompt, Submit(p) PROVE entry' # None
      BY <3>1, <3>2, Taking DEF Submit
    <3>3. CASE \E p \in Prompt : SubmitFails(p)
      BY <2>1, <3>3 DEF SubmitFails
    <3>4. CASE TurnEnds \/ SessionIdle
      BY <3>1, <3>4, Snapshots, Showing DEF TurnEnds, SessionIdle, Idle
    <3>5. ASSUME NEW some \in BOOLEAN, TasksChange(some) PROVE entry' # None
      BY <3>1, <3>5, Snapshots, Showing DEF TasksChange, WithTasks
    <3> QED
      BY <1>5, <3>2, <3>3, <3>4, <3>5
  <2> QED
    BY <1>4, <1>5, <2>1, <2>2 DEF Submit, SubmitFails, TurnEnds, SessionIdle, TasksChange
<1>6. CASE ProcessFails \/ Close \/ RestoreFails
  <2>1. entry' = None /\ owner' \in {owner, "nobody"} /\ UNCHANGED <<generation, begun, starts, accepted>>
    BY <1>6 DEF ProcessFails, Close, RestoreFails, Release
  <2> QED
    BY <2>1 DEF Lives
<1>7. ASSUME NEW draft \in Prompt \cup {None}, BeginSwitch(draft) PROVE Lives'
  <2>1. entry \in Entry /\ entry.step # "starting" /\ UNCHANGED <<generation, begun, starts, owner>>
    BY <1>t, <1>7 DEF BeginSwitch, Kinds
  <2>2. entry' # None
    BY <1>7, <2>1, Stepping DEF BeginSwitch
  <2> QED
    BY <1>4, <2>1, <2>2
<1>8. ASSUME NEW draft \in Prompt, SwitchRefused(draft) PROVE Lives'
  BY <1>4, <1>8 DEF SwitchRefused
<1>9. CASE SwitchCommits \/ AdoptFails
  <2>1. entry # None /\ entry' = None /\ UNCHANGED <<generation, begun, starts, accepted>>
    BY <1>9 DEF SwitchCommits, AdoptFails
  <2> QED
    BY <2>1 DEF Lives
<1>10. CASE SwitchFails
  <2>1. entry \in Entry /\ entry.step # "starting" /\ UNCHANGED <<generation, begun, starts, owner>>
    BY <1>t, <1>10 DEF SwitchFails, Kinds
  <2>2. entry' # None
    BY <1>10, <2>1, Stepping DEF SwitchFails
  <2> QED
    BY <1>4, <2>1, <2>2
<1>11. CASE RestoreReturns \/ AdoptReturns
  <2>1. /\ entry # None /\ entry.step # "starting" /\ sdk' = NewProcess
        /\ UNCHANGED <<generation, begun, starts, accepted>>
    BY <1>11 DEF RestoreReturns, AdoptReturns
  <2>2. entry' # None
    BY <2>1, AliveInductive, Fine DEF Alive
  <2> QED
    BY <2>1, <2>2 DEF Lives
<1>12. CASE TerminalResumes
  BY <1>12 DEF TerminalResumes, Lives
<1>13. CASE TerminalEnds
  BY <1>13 DEF TerminalEnds, Lives
<1>14. CASE BeginAdoption
  <2>1. /\ generation \in Nat /\ generation' = generation + 1 /\ begun
        /\ \A r \in starts : r.generation \in Nat /\ r.generation <= generation
        /\ UNCHANGED <<starts, begun, accepted>>
    BY <1>t, <1>14 DEF BeginAdoption, Kinds, Lives
  <2> QED
    BY <2>1 DEF Lives
<1>15. CASE End
  BY <1>15 DEF End, Lives
<1>16. CASE Discard \/ Restart \/ UNCHANGED vars
  <2>1. UNCHANGED <<entry, generation, starts, begun, owner, accepted>>
    BY <1>16 DEF Discard, Restart
  <2> QED
    BY <2>1 DEF Lives
<1> QED
  BY <1>1, <1>2, <1>3, <1>5, <1>6, <1>7, <1>8, <1>9, <1>10, <1>11, <1>12, <1>13, <1>14, <1>15,
     <1>16 DEF Next

-----------------------------------------------------------------------------
(* A mutation of the record of one prompt keeps what the others are told.  *)
LEMMA TellsOn ==
  ASSUME TypeOK, Tells(disk), NEW record \in Record, NEW p \in Prompt,
         UNCHANGED dropped, disk' = record, disk # None,
         accepted' \in {accepted, accepted \cup {p}}, handed' \in {handed, handed \cup {p}},
         confirmed' \in {confirmed, confirmed \cup {p}},
         \A q \in Prompt \ {p} : record.state[q] = disk.state[q]
                               /\ (q \in disk.text => q \in record.text),
         record.clean => disk.clean,
         p \in accepted' \ (confirmed' \cup dropped) =>
           /\ p \in record.text /\ record.state[p] # "none"
           /\ p \in handed' => record.state[p] \in Ambiguous /\ ~record.clean,
         p \in handed' => record.state[p] \notin {"prepared", "interrupted-draft"},
         p \notin accepted' => record.state[p] = "none"
  PROVE  Tells(disk)'
<1>1. record # None
  BY NoneIsNothing
<1>2. \A q \in accepted' \ (confirmed' \cup dropped) :
        /\ q \in record.text /\ record.state[q] # "none"
        /\ q \in handed' => record.state[q] \in Ambiguous /\ ~record.clean
  <2> SUFFICES ASSUME NEW q \in accepted' \ (confirmed' \cup dropped)
               PROVE  /\ q \in record.text /\ record.state[q] # "none"
                      /\ q \in handed' => record.state[q] \in Ambiguous /\ ~record.clean
    OBVIOUS
  <2>1. CASE q = p
    BY <2>1
  <2>2. CASE q # p
    <3>1. q \in accepted \ (confirmed \cup dropped) /\ q \in Prompt
      BY <2>2 DEF TypeOK
    <3>2. /\ q \in disk.text /\ disk.state[q] # "none"
          /\ q \in handed => disk.state[q] \in Ambiguous /\ ~disk.clean
      BY <3>1 DEF Tells
    <3> QED
      BY <2>2, <3>1, <3>2
  <2> QED
    BY <2>1, <2>2
<1>3. \A q \in Prompt :
        /\ q \in handed' => record.state[q] \notin {"prepared", "interrupted-draft"}
        /\ q \notin accepted' => record.state[q] = "none"
  <2> SUFFICES ASSUME NEW q \in Prompt
               PROVE  /\ q \in handed' => record.state[q] \notin {"prepared", "interrupted-draft"}
                      /\ q \notin accepted' => record.state[q] = "none"
    OBVIOUS
  <2>1. q # p => /\ q \in handed => disk.state[q] \notin {"prepared", "interrupted-draft"}
                 /\ q \notin accepted => disk.state[q] = "none"
    BY DEF Tells
  <2> QED
    BY <2>1
<1> QED
  BY <1>1, <1>2, <1>3 DEF Tells

(* No step loses a prompt, forgets that one was handed over, or offers one *)
(* that was as a draft, provided that a hand-over can always be noted.     *)
LEMMA TellsInductive ==
  ASSUME "dispatch" \notin FailingSaves, Journal, [Next]_vars
  PROVE  /\ Tells(disk)'
         /\ accepted' \subseteq Prompt /\ handed' \subseteq accepted'
         /\ confirmed' \subseteq handed' /\ dropped' \subseteq accepted'
<1> USE NativeTurnsAssumption, NoneIsNothing
    DEF vars, journalVars, serviceVars, historyVars, Saved, NotSaved, Fails
<1> DEFINE Goal == /\ Tells(disk)'
                   /\ accepted' \subseteq Prompt /\ handed' \subseteq accepted'
                   /\ confirmed' \subseteq handed' /\ dropped' \subseteq accepted'
<1>t. /\ TypeOK /\ Alive /\ Lives /\ Tells(disk) /\ Kinds
      /\ accepted \subseteq Prompt /\ handed \subseteq accepted
      /\ confirmed \subseteq handed /\ dropped \subseteq accepted
  BY DEF Journal, TypeOK, Kinds
<1>0. ASSUME UNCHANGED <<disk, historyVars>> PROVE Goal
  BY <1>t, <1>0 DEF Tells
<1>r. ASSUME journal = disk, disk' \in {disk, Reserved}, UNCHANGED historyVars PROVE Goal
  <2>1. /\ Reserved # None /\ Reserved.clean = FALSE
        /\ disk # None => Reserved.text = disk.text /\ Reserved.state = disk.state
        /\ disk = None => \A p \in Prompt : Reserved.state[p] = "none"
    BY <1>t, <1>r, Reserving DEF Kinds
  <2>2. Tells(Reserved)
    <3>1. CASE disk = None
      BY <1>t, <2>1, <3>1 DEF Tells
    <3>2. CASE disk # None
      BY <1>t, <2>1, <3>2 DEF Tells
    <3> QED
      BY <3>1, <3>2
  <2>3. Tells(disk)'
    BY <1>t, <1>r, <2>2 DEF Tells
  <2> QED
    BY <1>t, <1>r, <2>3
<1>1. CASE Start
  <2>1. journal = disk /\ disk' \in {disk, Reserved} /\ UNCHANGED historyVars
    BY <1>t, <1>1 DEF Start, Alive
  <2> QED
    BY <1>r, <2>1
<1>2. CASE SwitchCommits \/ AdoptReturns
  <2>1. journal = disk /\ disk' \in {disk, Reserved} /\ UNCHANGED historyVars
    BY <1>t, <1>2 DEF SwitchCommits, AdoptReturns, Alive
  <2> QED
    BY <1>r, <2>1
<1>3. ASSUME NEW s \in starts, StartFails(s) PROVE Goal
  <2>1. CASE UNCHANGED disk
    BY <1>0, <1>3, <2>1 DEF StartFails
  <2>2. CASE ~UNCHANGED disk
    <3>1. s.fresh /\ s.generation = generation /\ disk' = None /\ UNCHANGED historyVars
      BY <1>3, <2>2 DEF StartFails
    <3>2. accepted = {}
      BY <1>t, <3>1 DEF Lives
    <3> QED
      BY <1>t, <3>1, <3>2 DEF Tells
  <2> QED
    BY <2>1, <2>2
<1>p. ASSUME NEW p \in Prompt, journal # None, journal = disk,
             journal.state[p] = "none", p \notin accepted
      PROVE  /\ Prepared(p) \in Record /\ Prepared(p).clean = FALSE
             /\ p \in Prepared(p).text /\ Prepared(p).state[p] = "prepared"
             /\ \A q \in Prompt \ {p} :
                  Prepared(p).state[q] = disk.state[q]
                  /\ (q \in disk.text => q \in Prepared(p).text)
  BY <1>t, <1>p, Preparing DEF Kinds
<1>4. ASSUME NEW p \in Prompt, SubmitFails(p) PROVE Goal
  <2>1. CASE UNCHANGED accepted /\ UNCHANGED disk
    BY <1>0, <1>4, <2>1 DEF SubmitFails
  <2>2. CASE disk' = Prepared(p) /\ accepted' = accepted \cup {p}
    <3>1. /\ journal # None /\ journal = disk /\ journal.state[p] = "none" /\ p \notin accepted
          /\ UNCHANGED <<handed, confirmed, dropped>>
      BY <1>t, <1>4 DEF SubmitFails, CanSubmit, CanPrepare, Alive
    <3>2. Tells(disk)'
      BY <1>t, <1>p, <2>2, <3>1, TellsOn
    <3> QED
      BY <1>t, <2>2, <3>1, <3>2
  <2> QED
    BY <1>4, <2>1, <2>2 DEF SubmitFails
<1>5. ASSUME NEW p \in Prompt, Submit(p) PROVE Goal
  <2>1. /\ journal # None /\ journal = disk /\ journal.state[p] = "none" /\ p \notin accepted
        /\ accepted' = accepted \cup {p} /\ handed' = handed \cup {p}
        /\ UNCHANGED <<confirmed, dropped>>
    BY <1>t, <1>5 DEF Submit, CanSubmit, CanPrepare, Alive
  <2> DEFINE record == Dispatched(Prepared(p), p)
  <2>2. disk' = record
    BY <1>5 DEF Submit
  <2>3. /\ record \in Record /\ record.clean = FALSE
        /\ p \in record.text /\ record.state[p] = "dispatched"
        /\ \A q \in Prompt \ {p} : record.state[q] = disk.state[q]
                                   /\ (q \in disk.text => q \in record.text)
    <3>1. /\ Prepared(p) \in Record /\ Prepared(p).clean = FALSE
          /\ p \in Prepared(p).text
          /\ \A q \in Prompt \ {p} : /\ Prepared(p).state[q] = disk.state[q]
                                     /\ q \in disk.text => q \in Prepared(p).text
      BY <1>p, <2>1
    <3>2. /\ record \in Record /\ record.clean = Prepared(p).clean
          /\ record.text = Prepared(p).text
          /\ record.state[p] = "dispatched"
          /\ \A q \in Prompt \ {p} : record.state[q] = Prepared(p).state[q]
      BY <1>5, <3>1, Marking
    <3> HIDE DEF record
    <3> QED
      BY <3>1, <3>2
  <2> HIDE DEF record
  <2>4. Tells(disk)'
    BY <1>t, <2>1, <2>2, <2>3, TellsOn DEF Ambiguous
  <2> QED
    BY <1>t, <2>1, <2>4
<1>6. CASE TurnEnds
  <2> DEFINE p == Head(sdk.prompts)
  <2>1. p \in Prompt /\ p \in handed
    <3>1. sdk \in Process /\ sdk.prompts # <<>>
      BY <1>t, <1>6 DEF TurnEnds, Kinds
    <3>2. sdk.prompts \in Seq(Prompt) /\ p = sdk.prompts[1] /\ 1 \in 1..Len(sdk.prompts)
      BY <3>1 DEF Process
    <3> QED
      BY <1>t, <3>1, <3>2 DEF Alive
  <2>2. journal = disk
    BY <1>t, <1>6 DEF TurnEnds, Alive
  <2>3. /\ confirmed' \in {confirmed, confirmed \cup {p}} /\ UNCHANGED <<accepted, handed, dropped>>
        /\ \/ UNCHANGED disk
           \/ /\ journal # None /\ disk' = Confirmed(p) /\ confirmed' = confirmed \cup {p}
    BY <1>6 DEF TurnEnds
  <2> HIDE DEF p
  <2>4. Tells(disk)'
    <3>1. CASE UNCHANGED disk
      BY <1>t, <2>1, <2>3, <3>1 DEF Tells
    <3>2. CASE journal # None /\ disk' = Confirmed(p) /\ confirmed' = confirmed \cup {p}
      <4>1. /\ Confirmed(p) \in Record /\ Confirmed(p).clean = disk.clean
            /\ Confirmed(p).text = disk.text \ {p}
            /\ Confirmed(p).state[p] = "transcript-confirmed"
            /\ \A q \in Prompt \ {p} : Confirmed(p).state[q] = disk.state[q]
        BY <1>t, <2>1, <2>2, <3>2, Confirming DEF Kinds
      <4> QED
        BY <1>t, <2>1, <2>2, <2>3, <3>2, <4>1, TellsOn
    <3> QED
      BY <2>3, <3>1, <3>2
  <2> QED
    BY <1>t, <2>1, <2>3, <2>4
<1>7. CASE Close
  <2>1. MarkClean /\ journal = disk /\ UNCHANGED historyVars
    BY <1>t, <1>7 DEF Close, Alive
  <2>2. CASE UNCHANGED disk
    BY <1>0, <2>1, <2>2
  <2>3. CASE ~UNCHANGED disk
    <3>1. /\ disk' = [journal EXCEPT !.clean = TRUE] /\ journal \in Record
          /\ \A p \in Prompt : disk.state[p] \notin Ambiguous
      BY <1>t, <2>1, <2>3 DEF MarkClean, Kinds
    <3>2. disk' \in Record /\ disk'.text = disk.text /\ disk'.state = disk.state
      BY <2>1, <3>1, Cleaning
    <3>3. \A p \in accepted \ (confirmed \cup dropped) : p \notin handed
      BY <1>t, <3>1 DEF Tells
    <3>4. Tells(disk)'
      BY <1>t, <2>1, <3>1, <3>2, <3>3 DEF Tells
    <3> QED
      BY <1>t, <2>1, <3>4
  <2> QED
    BY <2>2, <2>3
<1>8. ASSUME NEW draft \in Prompt \cup {None}, BeginSwitch(draft) PROVE Goal
  <2>1. CASE draft = None
    BY <1>0, <1>8, <2>1 DEF BeginSwitch
  <2>2. CASE draft # None
    <3>1. /\ draft \in Prompt /\ journal # None /\ journal = disk
          /\ journal.state[draft] = "none" /\ draft \notin accepted
          /\ accepted' = accepted \cup {draft} /\ UNCHANGED <<handed, confirmed, dropped>>
      BY <1>t, <1>8, <2>2 DEF BeginSwitch, CanPrepare, Alive
    <3> DEFINE record == Preserved(Prepared(draft), draft)
    <3>2. disk' = record
      BY <1>8, <2>2 DEF BeginSwitch
    <3>3. /\ record \in Record /\ record.clean = FALSE
          /\ draft \in record.text /\ record.state[draft] = "interrupted-draft"
          /\ \A q \in Prompt \ {draft} : record.state[q] = disk.state[q]
                                         /\ (q \in disk.text => q \in record.text)
      <4>1. /\ Prepared(draft) \in Record /\ Prepared(draft).clean = FALSE
            /\ draft \in Prepared(draft).text
            /\ \A q \in Prompt \ {draft} : /\ Prepared(draft).state[q] = disk.state[q]
                                           /\ q \in disk.text => q \in Prepared(draft).text
        BY <1>p, <3>1
      <4>2. /\ record \in Record /\ record.clean = Prepared(draft).clean
            /\ record.text = Prepared(draft).text
            /\ record.state[draft] = "interrupted-draft"
            /\ \A q \in Prompt \ {draft} : record.state[q] = Prepared(draft).state[q]
        BY <3>1, <4>1, Marking
      <4> HIDE DEF record
      <4> QED
        BY <4>1, <4>2
    <3> HIDE DEF record
    <3>4. Tells(disk)'
      BY <1>t, <3>1, <3>2, <3>3, TellsOn
    <3> QED
      BY <1>t, <3>1, <3>4
  <2> QED
    BY <2>1, <2>2
<1>9. ASSUME NEW draft \in Prompt, SwitchRefused(draft) PROVE Goal
  <2>1. CASE UNCHANGED accepted /\ UNCHANGED disk
    BY <1>0, <1>9, <2>1 DEF SwitchRefused
  <2>2. CASE disk' = Prepared(draft) /\ accepted' = accepted \cup {draft}
    <3>1. /\ journal # None /\ journal = disk /\ journal.state[draft] = "none"
          /\ draft \notin accepted /\ UNCHANGED <<handed, confirmed, dropped>>
      BY <1>t, <1>9 DEF SwitchRefused, CanPrepare, Alive
    <3>2. Tells(disk)'
      BY <1>t, <1>p, <2>2, <3>1, TellsOn
    <3> QED
      BY <1>t, <2>2, <3>1, <3>2
  <2> QED
    BY <1>9, <2>1, <2>2 DEF SwitchRefused
<1>10. CASE Discard
  <2>1. /\ journal = disk /\ journal # None /\ disk' = None
        /\ dropped' = dropped \cup {p \in Prompt : disk.state[p] # "none"}
        /\ UNCHANGED <<accepted, handed, confirmed>>
    BY <1>t, <1>10 DEF Discard, Alive
  <2>2. accepted \ (confirmed \cup dropped') = {}
    BY <1>t, <2>1 DEF Tells
  <2>3. dropped' \subseteq accepted
    BY <1>t, <2>1 DEF Tells
  <2>4. Tells(disk)'
    BY <2>1, <2>2 DEF Tells
  <2> QED
    BY <1>t, <2>1, <2>3, <2>4
<1>11. CASE Restart
  <2>1. CASE UNCHANGED disk
    BY <1>0, <1>11, <2>1 DEF Restart
  <2>2. CASE ~UNCHANGED disk
    <3>1. /\ UNCHANGED historyVars /\ disk \in Record
          /\ \/ disk' = Interrupted(disk)
             \/ (\A p \in Prompt : disk.state[p] = "none") /\ disk' = None
      BY <1>t, <1>11, <2>2 DEF Restart, Kinds
    <3>2. CASE disk' = Interrupted(disk)
      <4>1. /\ disk' # None /\ disk'.clean = disk.clean /\ disk'.text = disk.text
            /\ \A p \in Prompt : disk'.state[p] =
                 IF disk.state[p] = "prepared" THEN "interrupted-draft"
                 ELSE IF disk.state[p] = "dispatched" THEN "result-unknown"
                 ELSE disk.state[p]
        BY <3>1, <3>2, Interrupting
      <4>2. \A p \in Prompt :
              /\ disk'.state[p] = "none" <=> disk.state[p] = "none"
              /\ disk.state[p] \in Ambiguous => disk'.state[p] \in Ambiguous
              /\ disk'.state[p] \in {"prepared", "interrupted-draft"}
                   => disk.state[p] \in {"prepared", "interrupted-draft"}
        BY <4>1 DEF Ambiguous
      <4>3. Tells(disk)'
        BY <1>t, <3>1, <4>1, <4>2 DEF Tells
      <4> QED
        BY <1>t, <3>1, <4>3
    <3>3. CASE (\A p \in Prompt : disk.state[p] = "none") /\ disk' = None
      BY <1>t, <3>1, <3>3 DEF Tells
    <3> QED
      BY <3>1, <3>2, <3>3
  <2> QED
    BY <2>1, <2>2
<1>12. CASE \/ \E s \in starts : StartReturns(s)
            \/ SessionIdle \/ \E some \in BOOLEAN : TasksChange(some)
            \/ ProcessFails \/ SwitchFails \/ RestoreReturns \/ RestoreFails
            \/ TerminalResumes \/ TerminalEnds \/ BeginAdoption \/ AdoptFails
            \/ End \/ UNCHANGED vars
  BY <1>0, <1>12 DEF StartReturns, SessionIdle, TasksChange, ProcessFails, SwitchFails,
     RestoreReturns, RestoreFails, TerminalResumes, TerminalEnds, BeginAdoption, AdoptFails, End
<1> QED
  BY <1>1, <1>2, <1>3, <1>4, <1>5, <1>6, <1>7, <1>8, <1>9, <1>10, <1>11, <1>12 DEF Next

(* Every step keeps the invariant of the journal. *)
LEMMA JournalInductive ==
  ASSUME "dispatch" \notin FailingSaves, Journal, [Next]_vars
  PROVE  Journal'
<1>1. Kinds'
  BY KindsInductive DEF Journal
<1>2. Alive' /\ Lives'
  BY AliveInductive, LivesInductive DEF Journal
<1>3. /\ Tells(disk)' /\ accepted' \subseteq Prompt /\ handed' \subseteq accepted'
      /\ confirmed' \subseteq handed' /\ dropped' \subseteq accepted'
  BY TellsInductive
<1> QED
  BY <1>1, <1>2, <1>3 DEF Journal, TypeOK, Kinds

(* Initially there is no record, and nothing to tell of. *)
LEMMA InitJournal == Init => Journal
<1> SUFFICES ASSUME Init PROVE Journal
  OBVIOUS
<1>n. 0 \in 0..MaxGeneration /\ 0 \in 0..MaxFailures /\ 0 \in 0..MaxEnds
  BY NativeTurnsAssumption
<1>1. TypeOK
  BY <1>n DEF Init, TypeOK
<1>2. Alive /\ Lives /\ Tells(disk)
  BY NativeTurnsAssumption DEF Init, Alive, Lives, Tells
<1> QED
  BY <1>1, <1>2 DEF Journal

(* Where every hand-over of a prompt is noted, no prompt the journal took  *)
(* is lost, and none that Claude was given is offered as an unsent draft:  *)
(* whatever else fails, whichever turns are interrupted and however often  *)
(* the application ends.                                                   *)
THEOREM JournalIsTrue ==
  "dispatch" \notin FailingSaves => (Spec => []JournalTellsTheTruth)
<1> SUFFICES ASSUME "dispatch" \notin FailingSaves PROVE Spec => []JournalTellsTheTruth
  OBVIOUS
<1>1. Journal /\ [Next]_vars => Journal'
  BY JournalInductive
<1>2. Journal => JournalTellsTheTruth
  BY DEF Journal, Tells, TypeOK, JournalTellsTheTruth
<1> QED
  BY <1>1, <1>2, InitJournal, PTL DEF Spec

-----------------------------------------------------------------------------
(* Where, besides, no turn is interrupted and no prompt overtakes the idle *)
(* of the last, a handler waits exactly while its process works.           *)
LEMMA TurnInductive ==
  ASSUME "dispatch" \notin FailingSaves, Interruptions = {}, ~IdleOvertaken,
         Journal, Turn, [Next]_vars
  PROVE  Turn'
<1> USE NativeTurnsAssumption, NoneIsNothing
    DEF vars, serviceVars, NotSaved
<1>t. TypeOK /\ Alive /\ Kinds /\ LeaseFollowsTurn
  BY DEF Journal, TypeOK, Kinds, Turn
<1>w. waiting = {} \/ (entry # None /\ entry.turn # None /\ waiting = {entry.turn})
  BY <1>t DEF LeaseFollowsTurn, Kinds
<1>d. entry = None \/ entry.step \in {"starting", "adopting"} => waiting = {}
  BY <1>t DEF LeaseFollowsTurn, Alive
<1>n. NewProcess \in Process /\ NewProcess.prompts = <<>> /\ NewProcess.tasks = FALSE
      /\ NewProcess.idleComes = FALSE
  BY Fine DEF NewProcess
<1>u. ASSUME entry \in Entry, Shown(Up), sdk' = NewProcess, ~entry.tasks PROVE Turn'
  <2>1. /\ entry' \in Entry /\ entry'.phase = "idle" /\ entry'.tasks = FALSE
        /\ waiting' = waiting \ {entry.turn}
    BY <1>u, Snapshots, Showing DEF HasRunningWork
  <2>2. waiting' = {}
    BY <1>w, <2>1
  <2> QED
    BY <1>n, <1>u, <2>1, <2>2 DEF Turn, LeaseFollowsTurn
<1>c. ASSUME entry' = None, sdk' = None, waiting' = {} PROVE Turn'
  BY <1>c DEF Turn, LeaseFollowsTurn
<1>1. CASE Start
  <2>1. entry = None /\ sdk = None /\ sdk' = None /\ UNCHANGED waiting /\ generation < MaxGeneration
        /\ entry' \in {None, NewEntry("starting")}
    BY <1>t, <1>1 DEF Start, Alive
  <2>2. entry' # None => entry'.tasks = FALSE
    BY <1>t, <2>1, Entries DEF Kinds
  <2> QED
    BY <1>d, <2>1, <2>2 DEF Turn, LeaseFollowsTurn
<1>2. ASSUME NEW s \in starts, StartReturns(s) PROVE Turn'
  <2>1. /\ entry \in Entry /\ Shown(Up) /\ entry.step = "starting" /\ sdk = None
        /\ sdk' = NewProcess
    BY <1>t, <1>2 DEF StartReturns, Starting, Kinds, Up, Alive
  <2>2. entry.tasks = FALSE
    BY <2>1 DEF Turn, Entry
  <2> QED
    BY <1>u, <2>1, <2>2
<1>3. ASSUME NEW s \in starts, StartFails(s) PROVE Turn'
  <2>1. CASE Starting(s)
    <3>1. /\ entry' = None /\ waiting' = waiting \ {entry.turn} /\ sdk' = None
      BY <1>t, <1>3, <2>1 DEF StartFails, Starting, Release, Alive
    <3> QED
      BY <1>c, <1>w, <3>1
  <2>2. CASE ~Starting(s)
    BY <1>3, <2>2 DEF StartFails, Turn, LeaseFollowsTurn
  <2> QED
    BY <2>1, <2>2
<1>4. CASE \/ \E p \in Prompt : SubmitFails(p)
           \/ \E draft \in Prompt : SwitchRefused(draft)
           \/ TerminalResumes \/ TerminalEnds \/ Discard \/ Restart \/ UNCHANGED vars
  <2>1. UNCHANGED <<entry, sdk, waiting>>
    BY <1>4 DEF SubmitFails, SwitchRefused, TerminalResumes, TerminalEnds, Discard, Restart
  <2> QED
    BY <2>1 DEF Turn, LeaseFollowsTurn
<1>5. ASSUME NEW p \in Prompt, Submit(p) PROVE Turn'
  <2>1. /\ entry \in Entry /\ sdk \in Process /\ entry.step = "active" /\ entry.turn = None
        /\ waiting' = waiting \cup {p}
        /\ entry' = [entry EXCEPT !.phase = "running", !.turn = p]
        /\ sdk' = [sdk EXCEPT !.prompts = Append(@, p)] /\ ~sdk.idleComes
    BY <1>t, <1>5 DEF Submit, CanSubmit, Fails, Kinds, Alive
  <2>2. sdk' \in Process /\ sdk'.prompts = Append(sdk.prompts, p) /\ sdk'.tasks = sdk.tasks
        /\ sdk'.idleComes = sdk.idleComes
    <3>1. Append(sdk.prompts, p) \in Seq(Prompt)
      BY <2>1 DEF Process
    <3> QED
      BY <2>1, <3>1 DEF Process
  <2>3. sdk.prompts = <<>>
    BY <1>t, <1>w, <2>1 DEF Kinds, LeaseFollowsTurn
  <2>4. sdk'.prompts # <<>> /\ Len(sdk'.prompts) = 1
    BY <2>2, <2>3
  <2>5. /\ entry' \in Entry /\ entry'.phase = "running" /\ entry'.turn = p
        /\ entry'.tasks = entry.tasks
    BY <2>1 DEF Entry
  <2>6. waiting' = {p}
    BY <1>w, <2>1
  <2> QED
    BY <2>1, <2>2, <2>4, <2>5, <2>6 DEF Turn, LeaseFollowsTurn
<1>6. CASE TurnEnds
  <2>1. /\ entry \in Entry /\ sdk \in Process /\ Shown(Idle) /\ entry.step = "active"
        /\ sdk.prompts # <<>> /\ sdk' = [sdk EXCEPT !.prompts = Tail(@), !.idleComes = TRUE]
    BY <1>t, <1>6 DEF TurnEnds, Kinds, Idle, Alive
  <2>2. sdk.prompts \in Seq(Prompt) /\ Tail(sdk.prompts) \in Seq(Prompt) /\ Tail(sdk.prompts) = <<>>
    BY <2>1 DEF Turn, Process
  <2>3. sdk' \in Process /\ sdk'.prompts = <<>> /\ sdk'.tasks = sdk.tasks
    BY <2>1, <2>2 DEF Process
  <2>4. /\ entry' \in Entry /\ entry'.phase = "idle" /\ entry'.tasks = entry.tasks
        /\ entry.tasks => entry'.turn = entry.turn /\ waiting' = waiting
        /\ ~entry.tasks => waiting' = waiting \ {entry.turn}
    BY <2>1, Snapshots, Showing DEF HasRunningWork
  <2>5. waiting # {} /\ waiting = {entry.turn} /\ (entry.tasks <=> sdk.tasks)
    BY <1>t, <1>w, <2>1 DEF LeaseFollowsTurn, Turn
  <2> QED
    BY <2>3, <2>4, <2>5 DEF Turn, LeaseFollowsTurn
<1>7. CASE SessionIdle
  <2>1. /\ entry \in Entry /\ sdk \in Process /\ Shown(Idle) /\ entry.step = "active"
        /\ sdk.idleComes /\ sdk' = [sdk EXCEPT !.idleComes = FALSE]
    BY <1>t, <1>7 DEF SessionIdle, Kinds, Idle, Alive
  <2>2. sdk' \in Process /\ sdk'.prompts = sdk.prompts /\ sdk'.tasks = sdk.tasks
        /\ sdk'.idleComes = FALSE /\ sdk.prompts = <<>>
    BY <2>1 DEF Process, Turn
  <2>3. /\ entry' \in Entry /\ entry'.phase = "idle" /\ entry'.tasks = entry.tasks
        /\ entry.tasks => entry'.turn = entry.turn /\ waiting' = waiting
        /\ ~entry.tasks => waiting' = waiting \ {entry.turn}
    BY <2>1, Snapshots, Showing DEF HasRunningWork
  <2>4. (sdk.tasks => waiting # {}) /\ (entry.tasks <=> sdk.tasks)
    BY <1>t, <2>1 DEF LeaseFollowsTurn, Turn
  <2> QED
    BY <1>w, <2>1, <2>2, <2>3, <2>4 DEF Turn, LeaseFollowsTurn
<1>8. ASSUME NEW some \in BOOLEAN, TasksChange(some) PROVE Turn'
  <2>1. /\ entry \in Entry /\ sdk \in Process /\ Shown(WithTasks(some)) /\ entry.step = "active"
        /\ some => sdk.prompts # <<>>
        /\ sdk' = [sdk EXCEPT !.tasks = some]
    BY <1>t, <1>8 DEF TasksChange, Kinds, WithTasks, Alive
  <2>2. sdk' \in Process /\ sdk'.prompts = sdk.prompts /\ sdk'.tasks = some
        /\ sdk'.idleComes = sdk.idleComes
    BY <2>1 DEF Process
  <2>3. entry.phase = (IF sdk.prompts = <<>> THEN "idle" ELSE "running")
    BY <2>1 DEF Turn
  <2>4. /\ entry' \in Entry /\ entry'.phase = entry.phase /\ entry'.tasks = some
        /\ sdk.prompts # <<>> => entry'.turn = entry.turn /\ waiting' = waiting
        /\ sdk.prompts = <<>> => some = FALSE /\ waiting' = waiting \ {entry.turn}
    BY <2>1, <2>3, Snapshots, Showing DEF HasRunningWork
  <2>5. sdk.prompts # <<>> => waiting # {}
    BY <1>t, <2>1 DEF LeaseFollowsTurn
  <2>6. sdk.prompts # <<>> => Turn'
    BY <1>w, <2>1, <2>2, <2>3, <2>4, <2>5 DEF Turn, LeaseFollowsTurn
  <2>7. sdk.prompts = <<>> => Turn'
    BY <1>w, <2>1, <2>2, <2>3, <2>4 DEF Turn, LeaseFollowsTurn
  <2> QED
    BY <2>6, <2>7
<1>9. CASE ProcessFails \/ Close \/ RestoreFails
  <2>1. /\ entry' = None /\ sdk' = None /\ waiting' = waiting \ {entry.turn}
    BY <1>t, <1>9 DEF ProcessFails, Close, RestoreFails, Release, Alive
  <2> QED
    BY <1>c, <1>w, <2>1
<1>10. ASSUME NEW draft \in Prompt \cup {None}, BeginSwitch(draft) PROVE Turn'
  <2>1. entry \in Entry /\ ~entry.tasks /\ sdk' = None /\ UNCHANGED waiting
    BY <1>t, <1>10 DEF BeginSwitch, Kinds
  <2>2. /\ entry' \in Entry /\ entry'.step = "switching" /\ entry'.turn = entry.turn
        /\ entry'.tasks = entry.tasks
    BY <1>10, <2>1, Stepping DEF BeginSwitch
  <2> QED
    BY <1>w, <2>1, <2>2 DEF Turn, LeaseFollowsTurn
<1>11. CASE SwitchCommits
  <2>1. entry' = None /\ sdk' = None /\ UNCHANGED waiting /\ entry.turn = None
    BY <1>t, <1>11 DEF SwitchCommits, Alive
  <2> QED
    BY <1>c, <1>w, <2>1
<1>12. CASE SwitchFails
  <2>1. entry \in Entry /\ sdk = None /\ sdk' = None /\ UNCHANGED waiting
    BY <1>t, <1>12 DEF SwitchFails, Kinds, Alive
  <2>2. /\ entry' \in Entry /\ entry'.step = "restoring" /\ entry'.turn = entry.turn
        /\ entry'.tasks = entry.tasks
    BY <1>12, <2>1, Stepping DEF SwitchFails
  <2> QED
    BY <1>w, <2>1, <2>2 DEF Turn, LeaseFollowsTurn
<1>13. CASE RestoreReturns \/ AdoptReturns
  <2>1. entry \in Entry /\ Shown(Up) /\ sdk = None /\ sdk' = NewProcess
    BY <1>t, <1>13 DEF RestoreReturns, AdoptReturns, Kinds, Up, Alive
  <2>2. ~entry.tasks
    BY <2>1 DEF Turn
  <2> QED
    BY <1>u, <2>1, <2>2
<1>14. CASE BeginAdoption
  <2>1. /\ entry = None /\ sdk = None /\ sdk' = None /\ UNCHANGED waiting
        /\ entry' = NewEntry("adopting") /\ generation < MaxGeneration
    BY <1>t, <1>14 DEF BeginAdoption, Alive
  <2>2. entry'.tasks = FALSE
    BY <1>t, <2>1, Entries DEF Kinds
  <2> QED
    BY <1>d, <2>1, <2>2 DEF Turn, LeaseFollowsTurn
<1>15. CASE AdoptFails
  <2>1. entry' = None /\ sdk' = None /\ UNCHANGED waiting /\ entry.step = "adopting"
    BY <1>t, <1>15 DEF AdoptFails, Alive
  <2> QED
    BY <1>c, <1>d, <2>1
<1>16. CASE End
  BY <1>c, <1>16 DEF End
<1> QED
  BY <1>1, <1>2, <1>3, <1>4, <1>5, <1>6, <1>7, <1>8, <1>9, <1>10, <1>11, <1>12, <1>13, <1>14,
     <1>15, <1>16 DEF Next

(* Then the handler of a prompt keeps its network lease as long as the     *)
(* process works for it, and no longer.                                    *)
THEOREM LeaseIsHeld ==
  "dispatch" \notin FailingSaves /\ Interruptions = {} /\ ~IdleOvertaken
    => (Spec => []LeaseFollowsTurn)
<1> SUFFICES ASSUME "dispatch" \notin FailingSaves, Interruptions = {}, ~IdleOvertaken
             PROVE  Spec => []LeaseFollowsTurn
  OBVIOUS
<1>1. Journal /\ [Next]_vars => Journal'
  BY JournalInductive
<1>2. Init => Turn
  BY DEF Init, Turn, LeaseFollowsTurn
<1>3. Journal /\ Turn /\ [Next]_vars => Turn'
  BY TurnInductive
<1>4. Turn => LeaseFollowsTurn
  BY DEF Turn
<1> QED
  BY <1>1, <1>2, <1>3, <1>4, InitJournal, PTL DEF Spec

-----------------------------------------------------------------------------
(* Launch preflight decisions.                                             *)
(*                                                                         *)
(* A decision is safe to answer because five things keep step: the calls   *)
(* that were made, the leases, the book of decisions, the history of what  *)
(* was disturbed, and the terminals. DecisionIInv says so of each. A step  *)
(* is then either quiet - no call is made, nothing is stamped, no decision *)
(* opened - or one of BeginLaunch, AnswerTaken and Pause, which open       *)
(* something, and TimePasses, which changes a decision.                    *)

Phases == {"new", "checking", "entered", "running", "blocked", "paused", "completed",
           "failed", "stale", "consumed", "cancelled"}

(* Every variable the argument is about has its type. *)
DecisionTypes ==
    /\ intent \in [Session -> Launch \cup {Nothing}]
    /\ lease \in [Session -> Run \cup {Nothing, Other}]
    /\ terminal \in [Session -> [by : Run \cup {Nothing}, runs : BOOLEAN]]
    /\ phase \in [Run -> Phases]
    /\ sessionOf \in [Launch -> Session \cup {Nothing}]
    /\ answered \in [Answer -> Reply \cup {Nothing}]
    /\ stamped \in SUBSET Run /\ grounded \in SUBSET Launch /\ disturbed \in SUBSET Launch
    /\ issued \in Nat

(* A run that was made: an answer is to a decision for a launch, a launch  *)
(* has a session.                                                          *)
Made(r) == /\ r \in Answer => answered[r] # Nothing
           /\ Target(r) \in Launch /\ Home(r) \in Session

(* What is under way, stamped or intended was made; what was not made is   *)
(* of no session.                                                          *)
Calls ==
    /\ \A l \in Launch : phase[l] = "new" => sessionOf[l] = Nothing
    /\ \A a \in Answer : phase[a] = "new" => answered[a] = Nothing
    /\ \A a \in Answer : answered[a] # Nothing => sessionOf[answered[a].launch] # Nothing
    /\ \A r \in Run : Active(r) \/ r \in stamped => Made(r)
    /\ \A s \in Session : intent[s] # Nothing => sessionOf[intent[s]] = s
    /\ \A l \in disturbed : sessionOf[l] # Nothing

(* A run inside its operation has the lease of its session. *)
Leases == \A r \in Run : phase[r] \in {"checking", "entered", "running"} => lease[Home(r)] = r

(* The book by itself: every pointer is to a live record, and both limits  *)
(* hold.                                                                   *)
Fits(b, n) ==
    /\ b \in Book /\ IsFiniteSet(b.live)
    /\ \A x, y \in b.live : x.id = y.id => x = y
    /\ \A x \in b.live : x.id \in 1 .. n
    /\ \A s \in Session : b.decisionOf[s] # Nothing => b.decisionOf[s] \in LiveIds(b)
    /\ Cardinality(b.live) <= MaxPending
    /\ Cardinality(b.live) + Len(b.ended) <= MaxRecords

(* The book among the launches: a live decision is for the newest launch   *)
(* of its session, which points to it, and was stamped by a run of that    *)
(* launch.                                                                 *)
Owned(rec) ==
    /\ sessionOf[rec.launch] \in Session
    /\ intent[sessionOf[rec.launch]] = rec.launch
    /\ book.decisionOf[sessionOf[rec.launch]] = rec.id
    /\ Made(rec.stamp) /\ Target(rec.stamp) = rec.launch

Decisions == Fits(book, issued) /\ \A rec \in book.live : Owned(rec)

(* A launch whose session was disturbed is no longer its newest, or its    *)
(* ground is gone, or no run of it has a stamp that is worth anything.     *)
Undisturbed ==
    \A l \in disturbed : \/ intent[sessionOf[l]] # l \/ l \notin grounded
                         \/ \A r \in stamped : Target(r) # l

(* A run has started no terminal before its launch was prepared; afterwards*)
(* the terminal is its own as long as its launch is the newest.            *)
Terminals ==
    /\ \A r \in Run, s \in Session :
          terminal[s].by = r => phase[r] \notin {"new", "checking", "entered", "blocked"}
    /\ \A r \in Run : phase[r] = "running" /\ intent[Home(r)] = Target(r)
                      => terminal[Home(r)] = [by |-> r, runs |-> TRUE]

DecisionIInv == DecisionTypes /\ Calls /\ Leases /\ Decisions /\ Undisturbed /\ Terminals

(* Launches, answers, sessions, replies and the two tokens are told apart. *)
LEMMA DecisionNumbers ==
    /\ Launch \cap Answer = {} /\ Run = Launch \cup Answer
    /\ Nothing \notin Run /\ Other \notin Run /\ Nothing \notin Session /\ Nothing \notin Reply
    /\ Nothing \notin Nat
BY LimitAssumption, NothingAssumption DEF Launch, Answer, Run

(* A nonempty set of numbers has a least one. *)
LEMMA LeastNumber ==
    ASSUME NEW S \in SUBSET Nat, S # {}
    PROVE  \E x \in S : \A y \in S : x <= y
<1> DEFINE R == {p \in Nat \X Nat : p[1] < p[2]}
<1>1. IsWellFoundedOn(R, Nat)
    BY NatLessThanWellFounded DEF OpToRel
<1>2. \A x, y \in Nat : <<y, x>> \notin R => x <= y
    OBVIOUS
<1> HIDE DEF R
<1>3. \E x \in S : \A y \in S : <<y, x>> \notin R
    BY <1>1, WFMin
<1> QED BY <1>2, <1>3

(* Some of the live records, and the k-th of them in the order of their    *)
(* ids.                                                                    *)
Distinct(recs) == /\ recs \in SUBSET LiveRecord /\ IsFiniteSet(recs)
                  /\ \A x, y \in recs : x.id = y.id => x = y

(* Among finitely many records of different ids there is a k-th oldest:    *)
(* the record with the least number up to which there are k.               *)
LEMMA OldestIs ==
    ASSUME NEW recs, Distinct(recs), NEW n \in Nat, \A x \in recs : x.id \in 1 .. n,
           NEW k \in 1 .. Cardinality(recs)
    PROVE  Oldest(recs, k) \in recs
<1> DEFINE Upto(i) == {x \in recs : x.id <= i}
           S == {i \in Nat : k <= Cardinality(Upto(i))}
<1>1. ASSUME NEW i \in Nat PROVE IsFiniteSet(Upto(i)) /\ Cardinality(Upto(i)) \in Nat
  <2>1. Upto(i) \in SUBSET recs
    OBVIOUS
  <2> QED BY <2>1, FS_Subset, FS_CardinalityType DEF Distinct
<1>2. n \in S
  <2>1. Upto(n) = recs
    OBVIOUS
  <2>2. k <= Cardinality(recs)
    BY FS_CardinalityType DEF Distinct
  <2> QED BY <2>1, <2>2
<1>3. PICK i \in S : \A j \in S : i <= j
    BY <1>2, LeastNumber
<1>4. i \in Nat /\ k <= Cardinality(Upto(i)) /\ k \in Nat \ {0}
    BY <1>3, FS_CardinalityType DEF Distinct
<1>5. i # 0
  <2>1. Upto(0) = {}
    OBVIOUS
  <2>2. Cardinality(Upto(0)) = 0
    BY <2>1, FS_EmptySet
  <2> QED BY <1>4, <2>2
<1> DEFINE j == i - 1
<1>6. j \in Nat /\ i = j + 1
    BY <1>4, <1>5
<1>7. ~(k <= Cardinality(Upto(j)))
    BY <1>3, <1>6
<1>8. PICK rec \in recs : rec.id = i
  <2> SUFFICES ASSUME \A rec \in recs : rec.id # i PROVE FALSE
    OBVIOUS
  <2>1. \A rec \in recs : rec.id \in Nat
    BY DEF Distinct, LiveRecord
  <2>2. Upto(i) = Upto(j)
    BY <1>6, <2>1
  <2> QED BY <1>4, <1>7, <2>2
<1>9. Upto(i) = Upto(j) \cup {rec}
  <2>1. \A x \in recs : x.id \in Nat /\ (x.id = i => x = rec)
    BY <1>8 DEF Distinct, LiveRecord
  <2> QED BY <1>6, <1>8, <2>1
<1>10. Cardinality(Upto(i)) = k
  <2> HIDE DEF Upto
  <2>1. Cardinality(Upto(i)) \in {Cardinality(Upto(j)), Cardinality(Upto(j)) + 1}
    BY <1>1, <1>6, <1>9, FS_AddElement
  <2> QED BY <1>1, <1>4, <1>6, <1>7, <2>1
<1> QED BY <1>8, <1>10 DEF Oldest

(* What is left of a book when some decisions are withdrawn from it: what  *)
(* no longer is live is no longer pointed to.                              *)
Shrunk(b, c) ==
    /\ c.live \in SUBSET b.live
    /\ \A s \in Session : c.decisionOf[s] = IF b.decisionOf[s] \in LiveIds(c)
                                            THEN b.decisionOf[s] ELSE Nothing

(* When records finish, the book still fits, as large as before. *)
LEMMA FinishedFits ==
    ASSUME NEW n \in Nat, NEW b, Fits(b, n), NEW gone \in SUBSET b.live,
           NEW state \in {"consumed", "stale"}
    PROVE  LET c == Finished(b, gone, state) IN
           /\ Fits(c, n) /\ Shrunk(b, c) /\ c.live = b.live \ gone
           /\ Cardinality(c.live) = Cardinality(b.live) - Cardinality(gone)
<1> DEFINE c == Finished(b, gone, state)
           tail == [k \in 1 .. Cardinality(gone) |-> [id |-> Oldest(gone, k).id, state |-> state]]
<1>1. /\ b.live \in SUBSET LiveRecord /\ b.ended \in Seq(EndedRecord)
      /\ b.decisionOf \in [Session -> Nat \cup {Nothing}] /\ IsFiniteSet(b.live)
      /\ \A x, y \in b.live : x.id = y.id => x = y
      /\ \A x \in b.live : x.id \in 1 .. n
    BY DEF Fits, Book
<1>2. IsFiniteSet(gone) /\ Cardinality(gone) \in Nat /\ Distinct(gone)
    BY <1>1, FS_Subset, FS_CardinalityType DEF Distinct
<1>3. /\ IsFiniteSet(b.live \ gone) /\ Cardinality(b.live) \in Nat
      /\ Cardinality(b.live \ gone) = Cardinality(b.live) - Cardinality(gone)
  <2>1. b.live \cap gone = gone
    OBVIOUS
  <2> QED BY <1>1, <2>1, FS_Difference, FS_CardinalityType
<1>4. tail \in Seq(EndedRecord) /\ Len(tail) = Cardinality(gone)
  <2>1. ASSUME NEW k \in 1 .. Cardinality(gone)
        PROVE  [id |-> Oldest(gone, k).id, state |-> state] \in EndedRecord
    <3>1. Oldest(gone, k) \in gone
      BY <1>1, <1>2, <2>1, OldestIs
    <3>2. Oldest(gone, k).id \in Nat
      BY <1>1, <3>1 DEF LiveRecord
    <3> QED BY <3>2 DEF EndedRecord
  <2> QED BY <1>2, <2>1
<1> HIDE DEF tail
<1>5. /\ c.live = b.live \ gone /\ c.ended = b.ended \o tail
      /\ c.decisionOf = [s \in Session |-> IF \E rec \in gone : rec.id = b.decisionOf[s]
                                           THEN Nothing ELSE b.decisionOf[s]]
      /\ c = [live |-> c.live, ended |-> c.ended, decisionOf |-> c.decisionOf]
    BY DEF Finished, tail
<1> HIDE DEF c
<1>6. c.ended \in Seq(EndedRecord) /\ Len(c.ended) = Len(b.ended) + Cardinality(gone)
    BY <1>1, <1>4, <1>5
<1>7. c \in Book
  <2>1. c.live \in SUBSET LiveRecord
    BY <1>1, <1>5
  <2>2. c.decisionOf \in [Session -> Nat \cup {Nothing}]
    BY <1>1, <1>5
  <2> QED BY <1>5, <1>6, <2>1, <2>2 DEF Book
<1>8. ASSUME NEW s \in Session
      PROVE  c.decisionOf[s] = IF b.decisionOf[s] \in LiveIds(c)
                               THEN b.decisionOf[s] ELSE Nothing
  <2>1. b.decisionOf[s] = Nothing \/ \E x \in b.live : x.id = b.decisionOf[s]
    BY DEF Fits, LiveIds
  <2>2. CASE \E x \in gone : x.id = b.decisionOf[s]
    <3>1. b.decisionOf[s] \notin LiveIds(c)
      BY <1>1, <1>5, <2>2 DEF LiveIds
    <3> QED BY <1>5, <2>2, <3>1
  <2>3. CASE ~\E x \in gone : x.id = b.decisionOf[s]
    <3>1. c.decisionOf[s] = b.decisionOf[s]
      BY <1>5, <2>3
    <3>2. b.decisionOf[s] = Nothing \/ b.decisionOf[s] \in LiveIds(c)
      BY <1>5, <2>1, <2>3 DEF LiveIds
    <3> QED BY <3>1, <3>2
  <2> QED BY <2>2, <2>3
<1>9. Shrunk(b, c)
    BY <1>5, <1>8 DEF Shrunk
<1>10. /\ Cardinality(c.live) <= MaxPending
       /\ Cardinality(c.live) + Len(c.ended) <= MaxRecords
  <2>1. /\ Cardinality(b.live) <= MaxPending
        /\ Cardinality(b.live) + Len(b.ended) <= MaxRecords /\ Len(b.ended) \in Nat
    BY <1>1 DEF Fits
  <2> QED BY <1>2, <1>3, <1>5, <1>6, <2>1, LimitAssumption
<1>11. Fits(c, n)
  <2>1. \A s \in Session : c.decisionOf[s] # Nothing => c.decisionOf[s] \in LiveIds(c)
    BY <1>8
  <2> QED BY <1>1, <1>3, <1>5, <1>7, <1>10, <2>1 DEF Fits
<1> QED BY <1>3, <1>5, <1>9, <1>11 DEF c

(* Giving up what is due keeps the book fit, and leaves exactly what is    *)
(* not due.                                                                *)
LEMMA ExpiredFits ==
    ASSUME NEW n \in Nat, NEW b, Fits(b, n)
    PROVE  LET c == Expired(b) IN
           /\ Fits(c, n) /\ Shrunk(b, c)
           /\ c.live = {rec \in b.live : ~rec.due}
<1> DEFINE gone == {rec \in b.live : rec.due}
<1>1. gone \in SUBSET b.live /\ b.live \ gone = {rec \in b.live : ~rec.due}
    OBVIOUS
<1>2. Expired(b) = Finished(b, gone, "stale")
    BY DEF Expired
<1> HIDE DEF gone
<1>3. LET c == Finished(b, gone, "stale") IN
      Fits(c, n) /\ Shrunk(b, c) /\ c.live = b.live \ gone
    BY <1>1, FinishedFits
<1> QED BY <1>1, <1>2, <1>3

(* Withdrawing a session's decision keeps the book fit, and leaves the     *)
(* session without a pointer.                                              *)
LEMMA WithoutDecisionFits ==
    ASSUME NEW n \in Nat, NEW b, Fits(b, n), NEW s \in Session
    PROVE  LET c == WithoutDecision(b, s) IN
           /\ Fits(c, n) /\ Shrunk(b, c)
           /\ c.decisionOf[s] = Nothing
<1> DEFINE gone == {rec \in b.live : rec.id = b.decisionOf[s]}
           d == Finished(b, gone, "stale")
<1>1. gone \in SUBSET b.live /\ \A rec \in b.live \ gone : rec.id # b.decisionOf[s]
    OBVIOUS
<1>2. WithoutDecision(b, s) = [d EXCEPT !.decisionOf[s] = Nothing]
    BY DEF WithoutDecision
<1> HIDE DEF gone
<1>3. Fits(d, n) /\ Shrunk(b, d) /\ d.live = b.live \ gone
    BY <1>1, FinishedFits
<1> HIDE DEF d
<1>4. d.decisionOf[s] = Nothing
  <2>1. b.decisionOf[s] \notin LiveIds(d)
    BY <1>1, <1>3 DEF LiveIds
  <2> QED BY <1>3, <2>1 DEF Shrunk
<1>5. d \in Book
    BY <1>3 DEF Fits
<1>6. [d EXCEPT !.decisionOf[s] = Nothing] = d
  <2>1. [d.decisionOf EXCEPT ![s] = Nothing] = d.decisionOf
    BY <1>4, <1>5 DEF Book
  <2> QED BY <1>5, <2>1 DEF Book
<1> QED BY <1>2, <1>3, <1>4, <1>6

(* Eviction keeps the book fit and makes room for one decision more. *)
LEMMA EvictedFits ==
    ASSUME NEW n \in Nat, NEW b, Fits(b, n)
    PROVE  LET c == Evicted(b) IN
           Fits(c, n) /\ Shrunk(b, c) /\ Cardinality(c.live) < MaxPending
<1>1. CASE Cardinality(b.live) < MaxPending
  <2>1. Evicted(b) = b
    BY <1>1 DEF Evicted
  <2>2. Shrunk(b, b)
    BY DEF Shrunk, Fits
  <2> QED BY <1>1, <2>1, <2>2
<1>2. CASE ~(Cardinality(b.live) < MaxPending)
  <2> DEFINE gone == {Oldest(b.live, 1)}
  <2>1. Evicted(b) = Finished(b, gone, "stale")
    BY <1>2 DEF Evicted
  <2>2. Cardinality(b.live) \in Nat /\ Cardinality(b.live) = MaxPending
    BY <1>2, LimitAssumption, FS_CardinalityType DEF Fits
  <2>3. gone \in SUBSET b.live
    <3>1. Distinct(b.live) /\ 1 \in 1 .. Cardinality(b.live) /\ \A x \in b.live : x.id \in 1 .. n
      BY <2>2, LimitAssumption DEF Fits, Book, Distinct
    <3> QED BY <3>1, OldestIs
  <2>4. Cardinality(gone) = 1
    BY FS_Singleton
  <2> HIDE DEF gone
  <2>5. LET c == Finished(b, gone, "stale") IN
        /\ Fits(c, n) /\ Shrunk(b, c)
        /\ Cardinality(c.live) = Cardinality(b.live) - Cardinality(gone)
    BY <2>3, FinishedFits
  <2> QED BY <2>1, <2>2, <2>4, <2>5, LimitAssumption
<1> QED BY <1>1, <1>2

(* Shrinking twice is shrinking. *)
LEMMA ShrunkTwice ==
    ASSUME NEW b, NEW c, NEW d, Shrunk(b, c), Shrunk(c, d)
    PROVE  Shrunk(b, d)
<1>1. LiveIds(d) \in SUBSET LiveIds(c)
    BY DEF Shrunk, LiveIds
<1>2. ASSUME NEW s \in Session
      PROVE  d.decisionOf[s] = IF b.decisionOf[s] \in LiveIds(d)
                               THEN b.decisionOf[s] ELSE Nothing
  <2>1. /\ c.decisionOf[s] = IF b.decisionOf[s] \in LiveIds(c) THEN b.decisionOf[s] ELSE Nothing
        /\ d.decisionOf[s] = IF c.decisionOf[s] \in LiveIds(d) THEN c.decisionOf[s] ELSE Nothing
    BY DEF Shrunk
  <2> QED BY <1>1, <2>1
<1> QED BY <1>2 DEF Shrunk

(* All decisions are withdrawn. *)
LEMMA AllWithdrawnFits ==
    ASSUME NEW n \in Nat, NEW b, Fits(b, n)
    PROVE  LET c == [Finished(b, b.live, "stale")
                       EXCEPT !.decisionOf = [s \in Session |-> Nothing]] IN
           Fits(c, n) /\ Shrunk(b, c) /\ \A s \in Session : c.decisionOf[s] = Nothing
<1> DEFINE d == Finished(b, b.live, "stale")
           none == [s \in Session |-> Nothing]
<1>1. Fits(d, n) /\ Shrunk(b, d) /\ d.live = {}
    BY FinishedFits
<1> HIDE DEF d
<1>2. d.decisionOf = none
  <2>1. d.decisionOf \in [Session -> Nat \cup {Nothing}]
    BY <1>1 DEF Fits, Book
  <2>2. \A s \in Session : d.decisionOf[s] = Nothing
    BY <1>1 DEF Shrunk, LiveIds
  <2> QED BY <2>1, <2>2
<1>3. [d EXCEPT !.decisionOf = none] = d
  <2>1. d \in Book
    BY <1>1 DEF Fits
  <2> QED BY <1>2, <2>1 DEF Book
<1>4. \A s \in Session : d.decisionOf[s] = Nothing
    BY <1>2
<1> QED BY <1>1, <1>3, <1>4 DEF d

(* A live record is replaced by one of the same decision. *)
LEMMA RenewedFits ==
    ASSUME NEW n \in Nat, NEW b, Fits(b, n), NEW old \in b.live, NEW new \in LiveRecord,
           new.id = old.id
    PROVE  LET c == [b EXCEPT !.live = (@ \ {old}) \cup {new}] IN
           /\ Fits(c, n) /\ c.live = (b.live \ {old}) \cup {new}
           /\ c.decisionOf = b.decisionOf
<1> DEFINE live == (b.live \ {old}) \cup {new}
           c == [b EXCEPT !.live = live]
<1>1. /\ b \in Book /\ b.live \in SUBSET LiveRecord /\ IsFiniteSet(b.live)
      /\ \A x, y \in b.live : x.id = y.id => x = y
      /\ \A x \in b.live : x.id \in 1 .. n
    BY DEF Fits, Book
<1>2. live \in SUBSET LiveRecord /\ (\A x, y \in live : x.id = y.id => x = y)
      /\ \A x \in live : x.id \in 1 .. n
    BY <1>1
<1>3. IsFiniteSet(live) /\ Cardinality(live) = Cardinality(b.live)
  <2>1. /\ IsFiniteSet(b.live \ {old}) /\ Cardinality(b.live) \in Nat
        /\ Cardinality(b.live \ {old}) = Cardinality(b.live) - 1
    BY <1>1, FS_RemoveElement, FS_CardinalityType
  <2>2. new \notin b.live \ {old}
    BY <1>1
  <2>3. /\ IsFiniteSet((b.live \ {old}) \cup {new})
        /\ Cardinality((b.live \ {old}) \cup {new}) = Cardinality(b.live \ {old}) + 1
    BY <2>1, <2>2, FS_AddElement
  <2> QED BY <2>1, <2>3
<1>4. {rec.id : rec \in live} = LiveIds(b)
    BY DEF LiveIds
<1> HIDE DEF live
<1>5. c \in Book /\ c.live = live /\ c.ended = b.ended /\ c.decisionOf = b.decisionOf
    BY <1>1, <1>2 DEF Book
<1>6. LiveIds(c) = LiveIds(b)
    BY <1>4, <1>5 DEF LiveIds
<1> HIDE DEF c
<1>7. Fits(c, n)
    BY <1>2, <1>3, <1>5, <1>6 DEF Fits
<1> QED BY <1>5, <1>7 DEF c, live

(* A new decision is put into a book with room for it. *)
LEMMA AddedFits ==
    ASSUME NEW n \in Nat, NEW b, Fits(b, n), Cardinality(b.live) < MaxPending,
           NEW rec \in LiveRecord, rec.id = n + 1, NEW s \in Session,
           NEW d \in Book, d.live = b.live \cup {rec}, d.ended = b.ended,
           d.decisionOf = [b.decisionOf EXCEPT ![s] = n + 1]
    PROVE  /\ Fits(Pruned(d), n + 1) /\ Pruned(d).live = d.live
           /\ Pruned(d).decisionOf = d.decisionOf
<1> DEFINE c == Pruned(d)
<1>1. /\ b.live \in SUBSET LiveRecord /\ IsFiniteSet(b.live)
      /\ b.ended \in Seq(EndedRecord) /\ b.decisionOf \in [Session -> Nat \cup {Nothing}]
      /\ \A x, y \in b.live : x.id = y.id => x = y
      /\ \A x \in b.live : x.id \in 1 .. n
      /\ \A t \in Session : b.decisionOf[t] # Nothing => b.decisionOf[t] \in LiveIds(b)
    BY DEF Fits, Book
<1>2. (\A x, y \in d.live : x.id = y.id => x = y) /\ \A x \in d.live : x.id \in 1 .. n + 1
    BY <1>1
<1>3. /\ IsFiniteSet(d.live) /\ Cardinality(d.live) \in Nat
      /\ Cardinality(d.live) = Cardinality(b.live) + 1
  <2>1. rec \notin b.live
    BY <1>1
  <2>2. IsFiniteSet(b.live) /\ Cardinality(b.live) \in Nat
    BY <1>1, FS_CardinalityType
  <2>3. /\ IsFiniteSet(b.live \cup {rec})
        /\ Cardinality(b.live \cup {rec}) = Cardinality(b.live) + 1
    BY <2>1, <2>2, FS_AddElement
  <2> QED BY <2>2, <2>3
<1>4. ASSUME NEW t \in Session, d.decisionOf[t] # Nothing
      PROVE  d.decisionOf[t] \in LiveIds(d)
  <2>1. LiveIds(d) = LiveIds(b) \cup {n + 1}
    BY DEF LiveIds
  <2> QED BY <1>1, <1>4, <2>1
<1>5. /\ Cardinality(d.live) <= MaxPending /\ Len(d.ended) \in Nat
      /\ Cardinality(d.live) + Len(d.ended) <= MaxRecords + 1
  <2>1. Cardinality(b.live) \in Nat /\ Len(d.ended) \in Nat
    BY <1>1, FS_CardinalityType
  <2>2. Cardinality(b.live) + Len(d.ended) <= MaxRecords
    BY DEF Fits
  <2> QED BY <1>3, <2>1, <2>2, LimitAssumption
<1>6. CASE Cardinality(d.live) + Len(d.ended) <= MaxRecords \/ d.ended = <<>>
  <2>1. c = d
    BY <1>6 DEF Pruned
  <2>2. Cardinality(d.live) + Len(d.ended) <= MaxRecords
    <3>1. d.ended = <<>> => Len(d.ended) = 0
      OBVIOUS
    <3> QED BY <1>3, <1>5, <1>6, <3>1, LimitAssumption
  <2> QED BY <1>2, <1>3, <1>4, <1>5, <2>1, <2>2 DEF Fits
<1>7. CASE ~(Cardinality(d.live) + Len(d.ended) <= MaxRecords \/ d.ended = <<>>)
  <2>1. c = [d EXCEPT !.ended = Tail(d.ended)]
    BY <1>7 DEF Pruned
  <2>2. Tail(d.ended) \in Seq(EndedRecord) /\ Len(Tail(d.ended)) = Len(d.ended) - 1
    BY <1>1, <1>7
  <2> HIDE DEF c
  <2>3. c \in Book /\ c.live = d.live /\ c.decisionOf = d.decisionOf /\ c.ended = Tail(d.ended)
    BY <2>1, <2>2 DEF Book
  <2>4. Cardinality(c.live) + Len(c.ended) <= MaxRecords
    BY <1>3, <1>5, <2>2, <2>3, LimitAssumption
  <2>5. LiveIds(c) = LiveIds(d)
    BY <2>3 DEF LiveIds
  <2>6. Fits(c, n + 1)
    BY <1>2, <1>3, <1>4, <1>5, <2>3, <2>4, <2>5 DEF Fits
  <2> QED BY <2>3, <2>6 DEF c
<1> QED BY <1>6, <1>7

(* A launch is paused: what it finds of its session's decisions is gone,   *)
(* what is left of the others is as it was.                                *)
LEMMA PausedFits ==
    ASSUME NEW n \in Nat, NEW b, Fits(b, n), NEW l \in Launch, NEW r \in Run,
           NEW s \in Session, s = sessionOf[l]
    PROVE  LET c == Paused(b, l, r, n + 1) IN
           /\ Fits(c, n + 1)
           /\ \E d, rec : /\ Shrunk(b, d) /\ d.decisionOf[s] = Nothing
                          /\ c.live = d.live \cup {rec}
                          /\ rec.id = n + 1 /\ rec.launch = l /\ rec.stamp = r
                          /\ c.decisionOf[s] = n + 1
                          /\ \A t \in Session \ {s} : c.decisionOf[t] = d.decisionOf[t]
<1> DEFINE e == Expired(b)
           w == WithoutDecision(e, s)
           d == Evicted(w)
           rec == [id |-> n + 1, state |-> "pending", launch |-> l, stamp |-> r,
                   choice |-> Nothing, due |-> FALSE]
<1>1. Fits(e, n) /\ Shrunk(b, e)
    BY ExpiredFits
<1> HIDE DEF e
<1>2. Fits(w, n) /\ Shrunk(e, w) /\ w.decisionOf[s] = Nothing
    BY <1>1, WithoutDecisionFits
<1> HIDE DEF w
<1>3. Fits(d, n) /\ Shrunk(w, d) /\ Cardinality(d.live) < MaxPending
    BY <1>2, EvictedFits
<1> HIDE DEF d
<1>4. Shrunk(b, d)
    BY <1>1, <1>2, <1>3, ShrunkTwice
<1>5. d.decisionOf[s] = Nothing
    BY <1>2, <1>3 DEF Shrunk
<1>6. rec \in LiveRecord /\ rec.id = n + 1 /\ rec.launch = l /\ rec.stamp = r
    BY DEF LiveRecord
<1> DEFINE f == [d EXCEPT !.live = @ \cup {rec}, !.decisionOf[s] = n + 1]
           c == Paused(b, l, r, n + 1)
<1>7. c = Pruned(f)
    BY DEF Paused, d, w, e
<1> HIDE DEF rec, c
<1>8. /\ f \in Book /\ f.live = d.live \cup {rec} /\ f.ended = d.ended
      /\ f.decisionOf = [d.decisionOf EXCEPT ![s] = n + 1]
      /\ f.decisionOf[s] = n + 1
      /\ \A t \in Session \ {s} : f.decisionOf[t] = d.decisionOf[t]
  <2>1. d \in Book
    BY <1>3 DEF Fits
  <2>2. d.live \cup {rec} \in SUBSET LiveRecord
    BY <1>6, <2>1 DEF Book
  <2>3. /\ d.decisionOf \in [Session -> Nat \cup {Nothing}]
        /\ [d.decisionOf EXCEPT ![s] = n + 1] \in [Session -> Nat \cup {Nothing}]
    BY <2>1 DEF Book
  <2>4. f = [d EXCEPT !.live = d.live \cup {rec},
                      !.decisionOf = [d.decisionOf EXCEPT ![s] = n + 1]]
    BY <2>1 DEF Book
  <2> HIDE DEF f
  <2>5. /\ f \in Book /\ f.live = d.live \cup {rec} /\ f.ended = d.ended
        /\ f.decisionOf = [d.decisionOf EXCEPT ![s] = n + 1]
    BY <2>1, <2>2, <2>3, <2>4 DEF Book
  <2> QED BY <2>3, <2>5
<1> HIDE DEF f
<1>9. /\ Fits(c, n + 1) /\ c.live = d.live \cup {rec} /\ c.decisionOf[s] = n + 1
      /\ \A t \in Session \ {s} : c.decisionOf[t] = d.decisionOf[t]
  <2>1. Fits(d, n) /\ Cardinality(d.live) < MaxPending
    BY <1>3
  <2>2. Fits(Pruned(f), n + 1) /\ Pruned(f).live = f.live /\ Pruned(f).decisionOf = f.decisionOf
    BY <1>6, <1>8, <2>1, AddedFits
  <2> QED BY <1>7, <1>8, <2>2
<1>10. \E x, y : /\ Shrunk(b, x) /\ x.decisionOf[s] = Nothing
                 /\ c.live = x.live \cup {y}
                 /\ y.id = n + 1 /\ y.launch = l /\ y.stamp = r
                 /\ c.decisionOf[s] = n + 1
                 /\ \A t \in Session \ {s} : c.decisionOf[t] = x.decisionOf[t]
    BY <1>4, <1>5, <1>6, <1>9
<1> QED BY <1>9, <1>10 DEF c

(* What most steps have in common: nothing new is made, what is stamped,   *)
(* grounded and under way becomes less, and an intent can only go; a launch*)
(* that is disturbed by the step loses its intent, its ground or its       *)
(* stamps.                                                                 *)
Quiet ==
    /\ UNCHANGED <<sessionOf, answered>>
    /\ intent' \in [Session -> Launch \cup {Nothing}]
    /\ \A s \in Session : intent'[s] \in {intent[s], Nothing}
    /\ stamped' \in SUBSET stamped /\ grounded' \in SUBSET grounded
    /\ \A r \in Run : /\ phase'[r] = "new" => phase[r] = "new"
                      /\ Active(r)' => Active(r)
    /\ disturbed' \in SUBSET Launch
    /\ \A l \in disturbed' \ disturbed :
          /\ sessionOf[l] \in Session
          /\ \/ intent'[sessionOf[l]] = Nothing \/ l \notin grounded'
             \/ \A r \in stamped' : Target(r) # l

(* A quiet step keeps what is said of the calls and of the disturbed       *)
(* launches.                                                               *)
LEMMA QuietKeeps ==
    ASSUME DecisionTypes, Calls, Undisturbed, Quiet
    PROVE  Calls' /\ Undisturbed'
<1>1. /\ sessionOf' = sessionOf /\ answered' = answered
      /\ \A s \in Session : intent'[s] \in {intent[s], Nothing}
      /\ stamped' \in SUBSET stamped /\ grounded' \in SUBSET grounded
      /\ \A r \in Run : (phase'[r] = "new" => phase[r] = "new") /\ (Active(r)' => Active(r))
    BY DEF Quiet
<1>2. \A r : (Target(r)' = Target(r)) /\ (Home(r)' = Home(r)) /\ (Made(r)' <=> Made(r))
    BY <1>1 DEF Target, Home, Made
<1>3. Calls'
  <2>1. /\ \A l \in Launch : phase'[l] = "new" => sessionOf'[l] = Nothing
        /\ \A a \in Answer : phase'[a] = "new" => answered'[a] = Nothing
    BY <1>1, DecisionNumbers DEF Calls
  <2>2. \A a \in Answer : answered'[a] # Nothing => sessionOf'[answered'[a].launch] # Nothing
    BY <1>1 DEF Calls
  <2>3. \A r \in Run : (Active(r)' \/ r \in stamped') => Made(r)'
    BY <1>1, <1>2 DEF Calls
  <2>4. \A s \in Session : intent'[s] # Nothing => sessionOf'[intent'[s]] = s
    BY <1>1 DEF Calls
  <2>5. \A l \in disturbed' : sessionOf'[l] # Nothing
    BY <1>1, DecisionNumbers DEF Calls, Quiet
  <2> QED BY <2>1, <2>2, <2>3, <2>4, <2>5 DEF Calls
<1>4. Undisturbed'
  <2> SUFFICES ASSUME NEW l \in disturbed'
               PROVE  \/ intent'[sessionOf'[l]] # l \/ l \notin grounded'
                      \/ \A r \in stamped' : Target(r)' # l
    BY DEF Undisturbed
  <2>1. l \in Launch /\ l # Nothing
    BY DecisionNumbers DEF Quiet
  <2>2. CASE l \in disturbed
    <3>1. sessionOf[l] \in Session
      BY <2>1, <2>2 DEF Calls, DecisionTypes
    <3>2. intent'[sessionOf[l]] \in {intent[sessionOf[l]], Nothing}
      BY <1>1, <3>1
    <3>3. intent[sessionOf[l]] # l \/ l \notin grounded \/ \A r \in stamped : Target(r) # l
      BY <2>2 DEF Undisturbed
    <3> QED BY <1>1, <1>2, <2>1, <3>2, <3>3
  <2>3. CASE l \notin disturbed
    <3>1. \/ intent'[sessionOf[l]] = Nothing \/ l \notin grounded'
          \/ \A r \in stamped' : Target(r) # l
      BY <2>3 DEF Quiet
    <3> QED BY <1>1, <1>2, <2>1, <3>1
  <2> QED BY <2>2, <2>3
<1> QED BY <1>3, <1>4

(* Leases stay when no run comes to need one and none of those that do     *)
(* loses it.                                                               *)
LEMMA LeasesKept ==
    ASSUME Leases, UNCHANGED <<sessionOf, answered>>,
           \A r \in Run : phase'[r] \in {"checking", "entered", "running"}
                          => /\ phase[r] \in {"checking", "entered", "running"}
                             /\ lease'[Home(r)] = lease[Home(r)]
    PROVE  Leases'
<1>1. \A r : Home(r)' = Home(r)
    BY DEF Home, Target
<1> QED BY <1>1 DEF Leases

(* A run that ends leaves the leases of the others alone. *)
LEMMA EndsLeases ==
    ASSUME DecisionTypes, Calls, Leases, NEW q \in Run, NEW how, Ends(q, how),
           phase[q] \in {"checking", "entered", "running"},
           how \in {"blocked", "completed", "failed", "stale"}
    PROVE  /\ Leases' /\ lease' \in [Session -> Run \cup {Nothing, Other}]
           /\ phase' \in [Run -> Phases] /\ phase'[q] = how
           /\ \A r \in Run \ {q} : phase'[r] = phase[r]
           /\ UNCHANGED <<issued, sessionOf, answered, disturbed>>
<1>1. /\ lease' = [lease EXCEPT ![Home(q)] = Nothing] /\ phase' = [phase EXCEPT ![q] = how]
      /\ UNCHANGED <<issued, sessionOf, answered, disturbed>>
    BY DEF Ends, ReleaseLease
<1>2. /\ lease' \in [Session -> Run \cup {Nothing, Other}] /\ phase' \in [Run -> Phases]
      /\ phase'[q] = how /\ \A r \in Run \ {q} : phase'[r] = phase[r]
    BY <1>1 DEF DecisionTypes, Phases
<1>3. ASSUME NEW r \in Run, phase'[r] \in {"checking", "entered", "running"}
      PROVE  /\ phase[r] \in {"checking", "entered", "running"}
             /\ lease'[Home(r)] = lease[Home(r)]
  <2>1. r # q /\ phase[r] \in {"checking", "entered", "running"}
    BY <1>2, <1>3
  <2>2. lease[Home(r)] = r /\ lease[Home(q)] = q
    BY <2>1 DEF Leases
  <2>3. Home(r) \in Session
    BY <2>1 DEF Calls, Active, Made
  <2>4. Home(r) # Home(q)
    BY <2>1, <2>2
  <2> QED BY <1>1, <2>1, <2>3, <2>4 DEF DecisionTypes
<1>4. Leases'
    BY <1>1, <1>3, LeasesKept
<1> QED BY <1>1, <1>2, <1>4

(* Decisions stay when some are withdrawn, among them those of the sessions*)
(* whose intent goes.                                                      *)
LEMMA DecisionsKept ==
    ASSUME DecisionTypes, Decisions, UNCHANGED <<sessionOf, answered>>,
           Fits(book', issued'), Shrunk(book, book'),
           \A s \in Session : intent'[s] = intent[s] \/ book'.decisionOf[s] = Nothing
    PROVE  Decisions'
<1>1. ASSUME NEW rec \in book'.live PROVE Owned(rec)'
  <2> DEFINE s == sessionOf[rec.launch]
  <2>1. rec \in book.live /\ Owned(rec)
    BY DEF Shrunk, Decisions
  <2>2. /\ s \in Session /\ intent[s] = rec.launch /\ book.decisionOf[s] = rec.id
        /\ Made(rec.stamp) /\ Target(rec.stamp) = rec.launch
    BY <2>1 DEF Owned
  <2> HIDE DEF s
  <2>3. book'.decisionOf[s] = rec.id
    BY <2>2 DEF Shrunk, LiveIds
  <2>4. rec.id # Nothing
    BY <2>1, DecisionNumbers DEF Decisions, Fits, Book, LiveRecord
  <2>5. intent'[s] = rec.launch
    BY <2>2, <2>3, <2>4
  <2>6. Made(rec.stamp)' /\ Target(rec.stamp)' = rec.launch
    BY <2>2 DEF Made, Target, Home
  <2> QED BY <2>2, <2>3, <2>5, <2>6 DEF Owned, s
<1> QED BY <1>1 DEF Decisions

Early == {"new", "checking", "entered", "blocked"}

(* Terminals stay, and may go together with the intent. *)
LEMMA TerminalsKept ==
    ASSUME DecisionTypes, Calls, Terminals, UNCHANGED <<sessionOf, answered>>,
           \A s \in Session : intent'[s] \in {intent[s], Nothing},
           \A r \in Run : /\ phase'[r] \in Early => phase[r] \in Early
                          /\ phase'[r] = "running" => phase[r] = "running",
           \A s \in Session :
              \/ terminal'[s] = terminal[s]
              \/ /\ intent'[s] = Nothing
                 /\ \/ terminal'[s].by \in {terminal[s].by, Nothing}
                    \/ phase'[terminal'[s].by] \notin Early
    PROVE  Terminals'
<1>1. \A r : (Target(r)' = Target(r)) /\ (Home(r)' = Home(r))
    BY DEF Target, Home
<1>2. ASSUME NEW r \in Run, NEW s \in Session, terminal'[s].by = r
      PROVE  phase'[r] \notin Early
  <2>1. r # Nothing
    BY DecisionNumbers
  <2>2. terminal[s].by = r \/ phase'[r] \notin Early
    BY <1>2, <2>1
  <2> QED BY <2>2 DEF Terminals, Early
<1>3. ASSUME NEW r \in Run, phase'[r] = "running", intent'[Home(r)] = Target(r)
      PROVE  terminal'[Home(r)] = [by |-> r, runs |-> TRUE]
  <2>1. phase[r] = "running"
    BY <1>3
  <2>2. Home(r) \in Session /\ Target(r) # Nothing
    BY <2>1, DecisionNumbers DEF Calls, Active, Made
  <2>3. intent[Home(r)] = Target(r) /\ intent'[Home(r)] # Nothing
    BY <1>3, <2>2
  <2>4. terminal'[Home(r)] = terminal[Home(r)]
    BY <2>2, <2>3
  <2> QED BY <2>1, <2>3, <2>4 DEF Terminals
<1> QED BY <1>1, <1>2, <1>3 DEF Terminals, Early

(* A quiet step that withdraws decisions, if any, keeps everything. *)
LEMMA QuietStep ==
    ASSUME DecisionIInv, Quiet, issued' = issued, Leases', Terminals',
           lease' \in [Session -> Run \cup {Nothing, Other}],
           terminal' \in [Session -> [by : Run \cup {Nothing}, runs : BOOLEAN]],
           phase' \in [Run -> Phases],
           Fits(book', issued), Shrunk(book, book'),
           \A s \in Session : intent'[s] = intent[s] \/ book'.decisionOf[s] = Nothing
    PROVE  DecisionIInv'
<1>1. DecisionTypes /\ Calls /\ Decisions /\ Undisturbed
    BY DEF DecisionIInv
<1>2. Calls' /\ Undisturbed'
    BY <1>1, QuietKeeps
<1>3. Decisions'
    BY <1>1, DecisionsKept DEF Quiet
<1>4. DecisionTypes'
    BY <1>1 DEF DecisionTypes, Quiet
<1> QED BY <1>2, <1>3, <1>4 DEF DecisionIInv

(* The book stays, as it may. *)
LEMMA SameBook ==
    ASSUME Decisions, issued \in Nat
    PROVE  Fits(book, issued) /\ Shrunk(book, book)
<1>1. Fits(book, issued)
    BY DEF Decisions
<1> QED BY <1>1 DEF Fits, Shrunk

(* A session is invalidated. *)
LEMMA InvalidateSessionIs ==
    ASSUME DecisionTypes, Decisions, NEW s \in Session, InvalidateSession(s)
    PROVE  /\ Fits(book', issued) /\ Shrunk(book, book')
           /\ intent' \in [Session -> Launch \cup {Nothing}]
           /\ intent'[s] = Nothing
           /\ \A t \in Session : /\ intent'[t] \in {intent[t], Nothing}
                                 /\ intent'[t] = intent[t] \/ book'.decisionOf[t] = Nothing
<1>1. intent' = [intent EXCEPT ![s] = Nothing] /\ book' = WithoutDecision(book, s)
    BY DEF InvalidateSession
<1>2. Fits(book, issued) /\ issued \in Nat
    BY DEF Decisions, DecisionTypes
<1>3. Fits(book', issued) /\ Shrunk(book, book') /\ book'.decisionOf[s] = Nothing
    BY <1>1, <1>2, WithoutDecisionFits
<1>4. /\ intent' \in [Session -> Launch \cup {Nothing}] /\ intent'[s] = Nothing
      /\ \A t \in Session \ {s} : intent'[t] = intent[t]
    BY <1>1 DEF DecisionTypes
<1> QED BY <1>3, <1>4

(* The reservation of an answer finishes. *)
LEMMA ReservationFinishes ==
    ASSUME NEW n \in Nat, NEW b, Fits(b, n), NEW a, NEW state \in {"consumed", "stale"}
    PROVE  LET c == Finished(b, Reservation(b, a), state) IN Fits(c, n) /\ Shrunk(b, c)
<1>1. Reservation(b, a) \in SUBSET b.live
    BY DEF Reservation
<1> QED BY <1>1, FinishedFits

(* Entering: a bypass consumes its decision, the run stays under way. *)
LEMMA EnterKeeps == ASSUME DecisionIInv, NEW q \in Run, Enter(q) PROVE DecisionIInv'
<1>1. DecisionTypes /\ Calls /\ Leases /\ Decisions /\ Terminals /\ issued \in Nat
    BY DEF DecisionIInv, DecisionTypes
<1>2. /\ phase[q] = "checking" /\ phase' = [phase EXCEPT ![q] = "entered"]
      /\ UNCHANGED <<intent, issued, lease, aborted, stamped, grounded, terminal, sessionOf,
                     answered, disturbed>>
    BY DEF Enter, leaseVars
<1>3. /\ phase' \in [Run -> Phases] /\ phase'[q] = "entered"
      /\ \A r \in Run \ {q} : phase'[r] = phase[r]
    BY <1>1, <1>2 DEF DecisionTypes, Phases
<1>4. Fits(book', issued) /\ Shrunk(book, book')
  <2>1. Fits(book, issued) /\ Shrunk(book, book)
    BY <1>1, SameBook
  <2>2. CASE ConsumeReservation(q)
    <3> DEFINE e == Expired(book)
    <3>1. book' = Finished(e, Reservation(e, q), "consumed")
      BY <2>2 DEF ConsumeReservation
    <3>2. Fits(e, issued) /\ Shrunk(book, e)
      BY <1>1, <2>1, ExpiredFits
    <3> HIDE DEF e
    <3>3. Fits(book', issued) /\ Shrunk(e, book')
      BY <1>1, <3>1, <3>2, ReservationFinishes
    <3> QED BY <3>2, <3>3, ShrunkTwice
  <2>3. CASE UNCHANGED <<book, timer>>
    BY <2>1, <2>3
  <2> QED BY <2>2, <2>3 DEF Enter
<1>5. Leases'
  <2>1. \A r \in Run : phase'[r] \in {"checking", "entered", "running"}
                       => phase[r] \in {"checking", "entered", "running"}
    BY <1>2, <1>3
  <2> QED BY <1>1, <1>2, <2>1, LeasesKept
<1>6. Terminals'
  <2>1. \A r \in Run : (phase'[r] \in Early => phase[r] \in Early)
                       /\ (phase'[r] = "running" => phase[r] = "running")
    BY <1>2, <1>3 DEF Early
  <2> QED BY <1>1, <1>2, <2>1, TerminalsKept
<1>7. Quiet
  <2>1. \A r \in Run : (phase'[r] = "new" => phase[r] = "new") /\ (Active(r)' => Active(r))
    BY <1>2, <1>3 DEF Active
  <2> QED BY <1>1, <1>2, <2>1 DEF Quiet, DecisionTypes
<1> QED BY <1>1, <1>2, <1>3, <1>4, <1>5, <1>6, <1>7, QuietStep DEF DecisionTypes

(* The run that replaces the terminal holds the session's lease, so no     *)
(* other run of the session takes its terminal for its own.                *)
LEMMA RestartTerminalKeeps ==
    ASSUME DecisionIInv, NEW q \in Run, RestartTerminal(q) PROVE DecisionIInv'
<1>1. DecisionTypes /\ Calls /\ Leases /\ Decisions /\ Terminals /\ issued \in Nat
    BY DEF DecisionIInv, DecisionTypes
<1> DEFINE h == Home(q)
<1>2. /\ phase[q] = "entered" /\ phase' = [phase EXCEPT ![q] = "running"]
      /\ terminal' = [terminal EXCEPT ![h] = [by |-> q, runs |-> TRUE]]
      /\ grounded' = grounded \ LaunchesOn(h)
      /\ UNCHANGED <<intent, book, issued, lease, aborted, stamped, sessionOf, answered,
                     disturbed>>
    BY DEF RestartTerminal, leaseVars
<1>3. /\ phase' \in [Run -> Phases] /\ phase'[q] = "running"
      /\ \A r \in Run \ {q} : phase'[r] = phase[r]
    BY <1>1, <1>2 DEF DecisionTypes, Phases
<1>4. h \in Session
    BY <1>1, <1>2 DEF Calls, Active, Made
<1>5. /\ terminal' \in [Session -> [by : Run \cup {Nothing}, runs : BOOLEAN]]
      /\ terminal'[h] = [by |-> q, runs |-> TRUE]
      /\ \A s \in Session \ {h} : terminal'[s] = terminal[s]
    BY <1>1, <1>2, <1>4 DEF DecisionTypes
<1>6. Leases'
  <2>1. \A r \in Run : phase'[r] \in {"checking", "entered", "running"}
                       => phase[r] \in {"checking", "entered", "running"}
    BY <1>2, <1>3
  <2> QED BY <1>1, <1>2, <2>1, LeasesKept
<1>7. Terminals'
  <2>1. \A r : (Target(r)' = Target(r)) /\ (Home(r)' = Home(r))
    BY <1>2 DEF Target, Home
  <2>2. ASSUME NEW r \in Run, NEW s \in Session, terminal'[s].by = r
        PROVE  phase'[r] \notin Early
    <3>1. CASE r = q
      BY <1>3, <3>1 DEF Early
    <3>2. CASE r # q
      <4>1. terminal[s].by = r
        BY <1>5, <2>2, <3>2
      <4> QED BY <1>1, <1>3, <3>2, <4>1 DEF Terminals, Early
    <3> QED BY <3>1, <3>2
  <2>3. ASSUME NEW r \in Run, phase'[r] = "running", intent'[Home(r)] = Target(r)
        PROVE  terminal'[Home(r)] = [by |-> r, runs |-> TRUE]
    <3>1. CASE r = q
      BY <1>5, <3>1
    <3>2. CASE r # q
      <4>1. phase[r] = "running"
        BY <1>3, <2>3, <3>2
      <4>2. Home(r) \in Session /\ lease[Home(r)] = r /\ lease[h] = q
        BY <1>1, <1>2, <4>1 DEF Calls, Active, Made, Leases
      <4>3. terminal'[Home(r)] = terminal[Home(r)]
        BY <1>5, <3>2, <4>2
      <4> QED BY <1>1, <1>2, <2>3, <4>1, <4>3 DEF Terminals
    <3> QED BY <3>1, <3>2
  <2> QED BY <2>1, <2>2, <2>3 DEF Terminals, Early
<1>8. Quiet
  <2>1. \A r \in Run : (phase'[r] = "new" => phase[r] = "new") /\ (Active(r)' => Active(r))
    BY <1>2, <1>3 DEF Active
  <2> QED BY <1>1, <1>2, <2>1 DEF Quiet, DecisionTypes
<1>9. Fits(book', issued) /\ Shrunk(book, book')
    BY <1>1, <1>2, SameBook
<1> QED BY <1>1, <1>2, <1>3, <1>5, <1>6, <1>7, <1>8, <1>9, QuietStep DEF DecisionTypes

(* The terminal of a session stops, or does not start. *)
LEMMA TerminalGoneIs ==
    ASSUME DecisionTypes, Decisions, NEW s \in Session, TerminalGone(s)
    PROVE  /\ Fits(book', issued) /\ Shrunk(book, book')
           /\ intent' \in [Session -> Launch \cup {Nothing}]
           /\ intent'[s] = Nothing
           /\ \A t \in Session : /\ intent'[t] \in {intent[t], Nothing}
                                 /\ intent'[t] = intent[t] \/ book'.decisionOf[t] = Nothing
           /\ stamped' \in SUBSET stamped /\ grounded' \in SUBSET grounded
<1>1. InvalidateSession(s)
    BY DEF TerminalGone
<1>2. stamped' \in SUBSET stamped /\ grounded' \in SUBSET grounded
    BY DEF TerminalGone, CancelOperation
<1> QED BY <1>1, <1>2, InvalidateSessionIs

(* A terminal that does not start takes intent and decision with it. *)
LEMMA RestartFailsKeeps ==
    ASSUME DecisionIInv, NEW q \in Run, RestartFails(q) PROVE DecisionIInv'
<1>1. DecisionTypes /\ Calls /\ Leases /\ Decisions /\ Terminals /\ issued \in Nat
    BY DEF DecisionIInv, DecisionTypes
<1> DEFINE h == Home(q)
<1>2. /\ phase[q] = "entered" /\ TerminalGone(h) /\ Ends(q, "failed")
      /\ terminal' = [terminal EXCEPT ![h] = [by |-> q, runs |-> FALSE]]
    BY DEF RestartFails
<1>3. h \in Session
    BY <1>1, <1>2 DEF Calls, Active, Made
<1>4. /\ terminal' \in [Session -> [by : Run \cup {Nothing}, runs : BOOLEAN]]
      /\ terminal'[h].by = q
      /\ \A s \in Session \ {h} : terminal'[s] = terminal[s]
    BY <1>1, <1>2, <1>3 DEF DecisionTypes
<1> HIDE DEF h
<1>5. /\ Fits(book', issued) /\ Shrunk(book, book')
      /\ intent' \in [Session -> Launch \cup {Nothing}] /\ intent'[h] = Nothing
      /\ \A t \in Session : /\ intent'[t] \in {intent[t], Nothing}
                            /\ intent'[t] = intent[t] \/ book'.decisionOf[t] = Nothing
      /\ stamped' \in SUBSET stamped /\ grounded' \in SUBSET grounded
    BY <1>1, <1>2, <1>3, TerminalGoneIs
<1>6. /\ Leases' /\ lease' \in [Session -> Run \cup {Nothing, Other}]
      /\ phase' \in [Run -> Phases] /\ phase'[q] = "failed"
      /\ \A r \in Run \ {q} : phase'[r] = phase[r]
      /\ UNCHANGED <<issued, sessionOf, answered, disturbed>>
    BY <1>1, <1>2, EndsLeases
<1>7. Terminals'
  <2>1. \A r \in Run : (phase'[r] \in Early => phase[r] \in Early)
                       /\ (phase'[r] = "running" => phase[r] = "running")
    BY <1>2, <1>6 DEF Early
  <2>2. phase'[terminal'[h].by] \notin Early
    BY <1>4, <1>6 DEF Early
  <2>3. ASSUME NEW s \in Session
        PROVE  \/ terminal'[s] = terminal[s]
               \/ intent'[s] = Nothing /\ phase'[terminal'[s].by] \notin Early
    BY <1>4, <1>5, <2>2
  <2> QED BY <1>1, <1>5, <1>6, <2>1, <2>3, TerminalsKept
<1>8. Quiet
  <2>1. \A r \in Run : (phase'[r] = "new" => phase[r] = "new") /\ (Active(r)' => Active(r))
    BY <1>2, <1>6 DEF Active
  <2> QED BY <1>1, <1>5, <1>6, <2>1 DEF Quiet, DecisionTypes
<1> QED BY <1>4, <1>5, <1>6, <1>7, <1>8, QuietStep

(* A completed run gives its lease back and leaves the rest. *)
LEMMA CompleteKeeps == ASSUME DecisionIInv, NEW q \in Run, Complete(q) PROVE DecisionIInv'
<1>1. DecisionTypes /\ Calls /\ Leases /\ Decisions /\ Terminals /\ issued \in Nat
    BY DEF DecisionIInv, DecisionTypes
<1>2. /\ phase[q] = "running" /\ Ends(q, "completed")
      /\ UNCHANGED <<intent, book, stamped, grounded, terminal>>
    BY DEF Complete
<1>3. /\ Leases' /\ lease' \in [Session -> Run \cup {Nothing, Other}]
      /\ phase' \in [Run -> Phases] /\ phase'[q] = "completed"
      /\ \A r \in Run \ {q} : phase'[r] = phase[r]
      /\ UNCHANGED <<issued, sessionOf, answered, disturbed>>
    BY <1>1, <1>2, EndsLeases
<1>4. Terminals'
  <2>1. \A r \in Run : (phase'[r] \in Early => phase[r] \in Early)
                       /\ (phase'[r] = "running" => phase[r] = "running")
    BY <1>2, <1>3 DEF Early
  <2> QED BY <1>1, <1>2, <1>3, <2>1, TerminalsKept
<1>5. Quiet
  <2>1. \A r \in Run : (phase'[r] = "new" => phase[r] = "new") /\ (Active(r)' => Active(r))
    BY <1>2, <1>3 DEF Active
  <2> QED BY <1>1, <1>2, <1>3, <2>1 DEF Quiet, DecisionTypes
<1>6. Fits(book', issued) /\ Shrunk(book, book')
    BY <1>1, <1>2, SameBook
<1> QED BY <1>1, <1>2, <1>3, <1>4, <1>5, <1>6, QuietStep DEF DecisionTypes

(* A blocked run gives its lease back; it has started no terminal. *)
LEMMA BlockKeeps == ASSUME DecisionIInv, NEW q \in Run, Block(q) PROVE DecisionIInv'
<1>1. DecisionTypes /\ Calls /\ Leases /\ Decisions /\ Terminals /\ issued \in Nat
    BY DEF DecisionIInv, DecisionTypes
<1>2. /\ phase[q] \in {"checking", "entered"} /\ Ends(q, "blocked")
      /\ UNCHANGED <<intent, book, stamped, grounded, terminal>>
    BY DEF Block
<1>3. /\ Leases' /\ lease' \in [Session -> Run \cup {Nothing, Other}]
      /\ phase' \in [Run -> Phases] /\ phase'[q] = "blocked"
      /\ \A r \in Run \ {q} : phase'[r] = phase[r]
      /\ UNCHANGED <<issued, sessionOf, answered, disturbed>>
    BY <1>1, <1>2, EndsLeases
<1>4. Terminals'
  <2>1. \A r \in Run : (phase'[r] \in Early => phase[r] \in Early)
                       /\ (phase'[r] = "running" => phase[r] = "running")
    BY <1>2, <1>3 DEF Early
  <2> QED BY <1>1, <1>2, <1>3, <2>1, TerminalsKept
<1>5. Quiet
  <2>1. \A r \in Run : (phase'[r] = "new" => phase[r] = "new") /\ (Active(r)' => Active(r))
    BY <1>2, <1>3 DEF Active
  <2> QED BY <1>1, <1>2, <1>3, <2>1 DEF Quiet, DecisionTypes
<1>6. Fits(book', issued) /\ Shrunk(book, book')
    BY <1>1, <1>2, SameBook
<1> QED BY <1>1, <1>2, <1>3, <1>4, <1>5, <1>6, QuietStep DEF DecisionTypes

(* A step that no run takes: its terminals may go with the intent, and a   *)
(* lease no run holds may pass from hand to hand.                          *)
LEMMA ElsewhereStep ==
    ASSUME DecisionIInv, UNCHANGED <<phase, sessionOf, answered, issued>>,
           intent' \in [Session -> Launch \cup {Nothing}],
           stamped' \in SUBSET stamped, grounded' \in SUBSET grounded,
           disturbed' \in SUBSET Launch,
           \A l \in disturbed' \ disturbed :
              /\ sessionOf[l] \in Session
              /\ \/ intent'[sessionOf[l]] = Nothing \/ l \notin grounded'
                 \/ \A r \in stamped' : Target(r) # l,
           lease' \in [Session -> Run \cup {Nothing, Other}],
           \A s \in Session : lease'[s] = lease[s] \/ lease[s] \in {Nothing, Other},
           terminal' \in [Session -> [by : Run \cup {Nothing}, runs : BOOLEAN]],
           \A s \in Session : \/ terminal'[s] = terminal[s]
                              \/ /\ intent'[s] = Nothing
                                 /\ terminal'[s].by \in {terminal[s].by, Nothing},
           Fits(book', issued), Shrunk(book, book'),
           \A s \in Session : /\ intent'[s] \in {intent[s], Nothing}
                              /\ intent'[s] = intent[s] \/ book'.decisionOf[s] = Nothing
    PROVE  DecisionIInv'
<1>1. DecisionTypes /\ Calls /\ Leases /\ Terminals
    BY DEF DecisionIInv
<1>2. Leases'
  <2>1. ASSUME NEW r \in Run, phase'[r] \in {"checking", "entered", "running"}
        PROVE  /\ phase[r] \in {"checking", "entered", "running"}
               /\ lease'[Home(r)] = lease[Home(r)]
    <3>1. phase[r] \in {"checking", "entered", "running"} /\ lease[Home(r)] = r
      BY <1>1, <2>1 DEF Leases
    <3>2. Home(r) \in Session
      BY <1>1, <3>1 DEF Calls, Active, Made
    <3> QED BY <3>1, <3>2, DecisionNumbers
  <2> QED BY <1>1, <2>1, LeasesKept
<1>3. Terminals'
    BY <1>1, TerminalsKept
<1>4. Quiet
    BY DEF Quiet, Active
<1>5. phase' \in [Run -> Phases]
    BY <1>1 DEF DecisionTypes
<1> QED BY <1>2, <1>3, <1>4, <1>5, QuietStep

(* What an interference with some sessions disturbs is made. *)
LEMMA InterferesIs ==
    ASSUME DecisionTypes, NEW sessions \in SUBSET Session, Interferes(sessions)
    PROVE  /\ UNCHANGED <<phase, sessionOf, answered, issued>>
           /\ disturbed' \in SUBSET Launch
           /\ \A l \in disturbed' \ disturbed : l \in Launch /\ sessionOf[l] \in sessions
<1>1. /\ disturbed' = disturbed \cup UNION {LaunchesOn(s) : s \in sessions}
      /\ UNCHANGED <<phase, sessionOf, answered, issued>>
    BY DEF Interferes
<1>2. \A l \in UNION {LaunchesOn(s) : s \in sessions} : l \in Launch /\ sessionOf[l] \in sessions
    BY DEF LaunchesOn
<1> QED BY <1>1, <1>2 DEF DecisionTypes

(* Nothing changes. *)
LEMMA StutterKeeps ==
    ASSUME DecisionIInv, UNCHANGED decisionVars PROVE DecisionIInv'
<1>1. DecisionTypes /\ Decisions /\ issued \in Nat
    BY DEF DecisionIInv, DecisionTypes
<1>2. UNCHANGED <<intent, book, issued, lease, stamped, grounded, terminal, phase, sessionOf,
                  answered, disturbed>>
    BY DEF decisionVars, leaseVars
<1>3. Fits(book', issued) /\ Shrunk(book, book')
    BY <1>1, <1>2, SameBook
<1> QED BY <1>1, <1>2, <1>3, ElsewhereStep DEF DecisionTypes

(* The timer withdraws what is due, and no intent. *)
LEMMA ExpiryTimerKeeps == ASSUME DecisionIInv, ExpiryTimer PROVE DecisionIInv'
<1>1. DecisionTypes /\ Fits(book, issued) /\ issued \in Nat
    BY DEF DecisionIInv, DecisionTypes, Decisions
<1>2. /\ book' = Expired(book)
      /\ UNCHANGED <<intent, issued, lease, stamped, grounded, terminal, phase, sessionOf,
                     answered, disturbed>>
    BY DEF ExpiryTimer, leaseVars
<1>3. Fits(book', issued) /\ Shrunk(book, book')
    BY <1>1, <1>2, ExpiredFits
<1> QED BY <1>1, <1>2, <1>3, ElsewhereStep DEF DecisionTypes

(* All intents and all decisions go together. *)
LEMMA InvalidateAllKeeps == ASSUME DecisionIInv, InvalidateAll PROVE DecisionIInv'
<1>1. DecisionTypes /\ Fits(book, issued) /\ issued \in Nat
    BY DEF DecisionIInv, DecisionTypes, Decisions
<1> DEFINE b == [Finished(book, book.live, "stale")
                   EXCEPT !.decisionOf = [s \in Session |-> Nothing]]
<1>2. /\ book' = b /\ intent' = [s \in Session |-> Nothing] /\ Interferes(Session)
      /\ UNCHANGED <<lease, stamped, grounded, terminal>>
    BY DEF InvalidateAll, leaseVars
<1>3. Fits(b, issued) /\ Shrunk(book, b) /\ \A s \in Session : b.decisionOf[s] = Nothing
    BY <1>1, AllWithdrawnFits
<1> HIDE DEF b
<1>4. /\ UNCHANGED <<phase, sessionOf, answered, issued>> /\ disturbed' \in SUBSET Launch
      /\ \A l \in disturbed' \ disturbed : l \in Launch /\ sessionOf[l] \in Session
    BY <1>1, <1>2, InterferesIs
<1>5. intent' \in [Session -> Launch \cup {Nothing}] /\ \A s \in Session : intent'[s] = Nothing
    BY <1>2
<1> QED BY <1>1, <1>2, <1>3, <1>4, <1>5, ElsewhereStep DEF DecisionTypes

(* Another operation withdraws intent and decision before it asks for the  *)
(* lease; the lease it gets was nobody's.                                  *)
LEMMA OtherOperationKeeps ==
    ASSUME DecisionIInv, NEW s \in Session, OtherOperation(s) PROVE DecisionIInv'
<1>1. DecisionTypes /\ Decisions
    BY DEF DecisionIInv
<1>2. InvalidateSession(s) /\ Interferes({s}) /\ UNCHANGED <<grounded, terminal>>
    BY DEF OtherOperation
<1>3. /\ Fits(book', issued) /\ Shrunk(book, book')
      /\ intent' \in [Session -> Launch \cup {Nothing}] /\ intent'[s] = Nothing
      /\ \A t \in Session : /\ intent'[t] \in {intent[t], Nothing}
                            /\ intent'[t] = intent[t] \/ book'.decisionOf[t] = Nothing
    BY <1>1, <1>2, InvalidateSessionIs
<1>4. /\ UNCHANGED <<phase, sessionOf, answered, issued>> /\ disturbed' \in SUBSET Launch
      /\ \A l \in disturbed' \ disturbed : l \in Launch /\ sessionOf[l] \in {s}
    BY <1>1, <1>2, InterferesIs
<1>5. /\ lease' \in [Session -> Run \cup {Nothing, Other}] /\ stamped' \in SUBSET stamped
      /\ \A t \in Session : lease'[t] = lease[t] \/ lease[t] \in {Nothing, Other}
  <2>1. CASE lease[s] = Nothing /\ Reserve(Other, s)
    <3>1. lease' = [lease EXCEPT ![s] = Other] /\ stamped' = stamped \ RunsOn(s)
      BY <2>1, DecisionNumbers DEF Reserve
    <3> QED BY <1>1, <2>1, <3>1 DEF DecisionTypes
  <2>2. CASE UNCHANGED <<lease, stamped>>
    BY <1>1, <2>2 DEF DecisionTypes
  <2> QED BY <2>1, <2>2 DEF OtherOperation
<1> QED BY <1>1, <1>2, <1>3, <1>4, <1>5, ElsewhereStep DEF DecisionTypes

(* The lease it gives back was no run's. *)
LEMMA OtherEndsKeeps ==
    ASSUME DecisionIInv, NEW s \in Session, OtherEnds(s) PROVE DecisionIInv'
<1>1. DecisionTypes /\ Decisions /\ issued \in Nat
    BY DEF DecisionIInv, DecisionTypes
<1>2. /\ lease[s] = Other /\ lease' = [lease EXCEPT ![s] = Nothing]
      /\ UNCHANGED <<intent, book, issued, stamped, grounded, terminal, phase, sessionOf,
                     answered, disturbed>>
    BY DEF OtherEnds
<1>3. Fits(book', issued) /\ Shrunk(book, book')
    BY <1>1, <1>2, SameBook
<1>4. /\ lease' \in [Session -> Run \cup {Nothing, Other}]
      /\ \A t \in Session : lease'[t] = lease[t] \/ lease[t] \in {Nothing, Other}
    BY <1>1, <1>2 DEF DecisionTypes
<1> QED BY <1>1, <1>2, <1>3, <1>4, ElsewhereStep DEF DecisionTypes

(* Once a session's operation is cancelled, no run of it has a stamp. *)
LEMMA CancelledLeavesNoStamp ==
    ASSUME DecisionTypes, Calls, NEW s \in Session, CancelOperation(s),
           NEW r \in stamped', NEW l, sessionOf[l] = s
    PROVE  Target(r) # l
<1>1. r \in stamped /\ r \in Run /\ r \notin RunsOn(s)
    BY DEF CancelOperation, DecisionTypes
<1>2. Made(r)
    BY <1>1 DEF Calls
<1>3. ASSUME Target(r) = l PROVE FALSE
  <2>1. Home(r) = s
    BY <1>3 DEF Home
  <2> QED BY <1>1, <1>2, <2>1, DecisionNumbers DEF RunsOn, LaunchesOn, Made, Home, Target
<1> QED BY <1>3

(* The intent stays, but every stamp of the session's runs is worth        *)
(* nothing.                                                                *)
LEMMA InvalidateOperationKeeps ==
    ASSUME DecisionIInv, NEW s \in Session, InvalidateOperation(s) PROVE DecisionIInv'
<1>1. DecisionTypes /\ Decisions /\ Calls /\ issued \in Nat
    BY DEF DecisionIInv, DecisionTypes
<1>2. /\ Interferes({s}) /\ CancelOperation(s)
      /\ UNCHANGED <<intent, book, lease, grounded, terminal>>
    BY DEF InvalidateOperation
<1>3. /\ UNCHANGED <<phase, sessionOf, answered, issued>> /\ disturbed' \in SUBSET Launch
      /\ \A l \in disturbed' \ disturbed : l \in Launch /\ sessionOf[l] \in {s}
    BY <1>1, <1>2, InterferesIs
<1>4. stamped' \in SUBSET stamped
    BY <1>2 DEF CancelOperation
<1>5. \A l \in disturbed' \ disturbed : \A r \in stamped' : Target(r) # l
    BY <1>1, <1>2, <1>3, CancelledLeavesNoStamp
<1>6. Fits(book', issued) /\ Shrunk(book, book')
    BY <1>1, <1>2, SameBook
<1> QED BY <1>1, <1>2, <1>3, <1>4, <1>5, <1>6, ElsewhereStep DEF DecisionTypes

(* The terminal that stops is still by the same run; the intent goes. *)
LEMMA TerminalFailsKeeps ==
    ASSUME DecisionIInv, NEW s \in Session, TerminalFails(s) PROVE DecisionIInv'
<1>1. DecisionTypes /\ Decisions
    BY DEF DecisionIInv
<1>2. /\ Interferes({s}) /\ TerminalGone(s) /\ UNCHANGED lease
      /\ terminal' = [terminal EXCEPT ![s].runs = FALSE]
    BY DEF TerminalFails
<1>3. /\ Fits(book', issued) /\ Shrunk(book, book')
      /\ intent' \in [Session -> Launch \cup {Nothing}] /\ intent'[s] = Nothing
      /\ \A t \in Session : /\ intent'[t] \in {intent[t], Nothing}
                            /\ intent'[t] = intent[t] \/ book'.decisionOf[t] = Nothing
      /\ stamped' \in SUBSET stamped /\ grounded' \in SUBSET grounded
    BY <1>1, <1>2, TerminalGoneIs
<1>4. /\ UNCHANGED <<phase, sessionOf, answered, issued>> /\ disturbed' \in SUBSET Launch
      /\ \A l \in disturbed' \ disturbed : l \in Launch /\ sessionOf[l] \in {s}
    BY <1>1, <1>2, InterferesIs
<1>5. /\ terminal' \in [Session -> [by : Run \cup {Nothing}, runs : BOOLEAN]]
      /\ terminal'[s].by = terminal[s].by
      /\ \A t \in Session \ {s} : terminal'[t] = terminal[t]
    BY <1>1, <1>2 DEF DecisionTypes
<1> QED BY <1>1, <1>2, <1>3, <1>4, <1>5, ElsewhereStep DEF DecisionTypes

(* The new terminal is nobody's; the intent goes. *)
LEMMA TerminalReplacedKeeps ==
    ASSUME DecisionIInv, NEW s \in Session, TerminalReplaced(s) PROVE DecisionIInv'
<1>1. DecisionTypes /\ Decisions
    BY DEF DecisionIInv
<1>2. /\ Interferes({s}) /\ InvalidateSession(s) /\ UNCHANGED <<lease, stamped>>
      /\ terminal' = [terminal EXCEPT ![s] = [by |-> Nothing, runs |-> TRUE]]
      /\ grounded' \in SUBSET grounded
    BY DEF TerminalReplaced, leaseVars
<1>3. /\ Fits(book', issued) /\ Shrunk(book, book')
      /\ intent' \in [Session -> Launch \cup {Nothing}] /\ intent'[s] = Nothing
      /\ \A t \in Session : /\ intent'[t] \in {intent[t], Nothing}
                            /\ intent'[t] = intent[t] \/ book'.decisionOf[t] = Nothing
    BY <1>1, <1>2, InvalidateSessionIs
<1>4. /\ UNCHANGED <<phase, sessionOf, answered, issued>> /\ disturbed' \in SUBSET Launch
      /\ \A l \in disturbed' \ disturbed : l \in Launch /\ sessionOf[l] \in {s}
    BY <1>1, <1>2, InterferesIs
<1>5. /\ terminal' \in [Session -> [by : Run \cup {Nothing}, runs : BOOLEAN]]
      /\ terminal'[s].by = Nothing
      /\ \A t \in Session \ {s} : terminal'[t] = terminal[t]
    BY <1>1, <1>2 DEF DecisionTypes
<1> QED BY <1>1, <1>2, <1>3, <1>4, <1>5, ElsewhereStep DEF DecisionTypes

(* Intent and stamps stay, but no launch of the session has its ground any *)
(* more.                                                                   *)
LEMMA ConfigurationChangesKeeps ==
    ASSUME DecisionIInv, NEW s \in Session, ConfigurationChanges(s) PROVE DecisionIInv'
<1>1. DecisionTypes /\ Decisions /\ issued \in Nat
    BY DEF DecisionIInv, DecisionTypes
<1>2. /\ Interferes({s}) /\ grounded' = grounded \ LaunchesOn(s)
      /\ UNCHANGED <<intent, book, lease, stamped, terminal>>
    BY DEF ConfigurationChanges, leaseVars
<1>3. /\ UNCHANGED <<phase, sessionOf, answered, issued>> /\ disturbed' \in SUBSET Launch
      /\ \A l \in disturbed' \ disturbed : l \in Launch /\ sessionOf[l] \in {s}
    BY <1>1, <1>2, InterferesIs
<1>4. \A l \in disturbed' \ disturbed : l \notin grounded'
    BY <1>2, <1>3 DEF LaunchesOn
<1>5. Fits(book', issued) /\ Shrunk(book, book')
    BY <1>1, <1>2, SameBook
<1> QED BY <1>1, <1>2, <1>3, <1>4, <1>5, ElsewhereStep DEF DecisionTypes

(* What an answer that fails had reserved goes stale. *)
LEMMA GivenUp ==
    ASSUME Decisions, issued \in Nat, NEW a, book' = StaleReservation(book, a)
    PROVE  Fits(book', issued) /\ Shrunk(book, book')
<1>1. Fits(book, issued) /\ Shrunk(book, book)
    BY SameBook
<1>2. CASE a \in Answer
    BY <1>1, <1>2, ReservationFinishes DEF StaleReservation
<1>3. CASE a \notin Answer
    BY <1>1, <1>3 DEF StaleReservation
<1> QED BY <1>2, <1>3

(* A run that fails stops the terminal if it is its own, and gives its     *)
(* reservation up otherwise; either way its lease is free.                 *)
LEMMA FailKeeps == ASSUME DecisionIInv, NEW q \in Run, Fail(q) PROVE DecisionIInv'
<1>1. DecisionTypes /\ Calls /\ Leases /\ Decisions /\ Terminals /\ issued \in Nat
    BY DEF DecisionIInv, DecisionTypes
<1> DEFINE h == Home(q)
           how == IF q \in Answer /\ phase[q] = "checking" THEN "stale" ELSE "failed"
<1>2. phase[q] \in {"checking", "entered", "running"} /\ Cleanup(q) /\ Ends(q, how)
    BY DEF Fail
<1>3. how \in {"stale", "failed"}
    OBVIOUS
<1>4. h \in Session
    BY <1>1, <1>2 DEF Calls, Active, Made
<1> HIDE DEF how
<1>5. /\ Leases' /\ lease' \in [Session -> Run \cup {Nothing, Other}]
      /\ phase' \in [Run -> Phases] /\ phase'[q] = how
      /\ \A r \in Run \ {q} : phase'[r] = phase[r]
      /\ UNCHANGED <<issued, sessionOf, answered, disturbed>>
    BY <1>1, <1>2, <1>3, EndsLeases
<1>6. /\ Fits(book', issued) /\ Shrunk(book, book')
      /\ intent' \in [Session -> Launch \cup {Nothing}]
      /\ \A t \in Session : /\ intent'[t] \in {intent[t], Nothing}
                            /\ intent'[t] = intent[t] \/ book'.decisionOf[t] = Nothing
      /\ stamped' \in SUBSET stamped /\ grounded' \in SUBSET grounded
      /\ terminal' \in [Session -> [by : Run \cup {Nothing}, runs : BOOLEAN]]
      /\ \A t \in Session : \/ terminal'[t] = terminal[t]
                            \/ intent'[t] = Nothing /\ terminal'[t].by = terminal[t].by
  <2>1. CASE TerminalGone(h) /\ terminal' = [terminal EXCEPT ![h].runs = FALSE]
    <3>1. /\ Fits(book', issued) /\ Shrunk(book, book')
          /\ intent' \in [Session -> Launch \cup {Nothing}] /\ intent'[h] = Nothing
          /\ \A t \in Session : /\ intent'[t] \in {intent[t], Nothing}
                                /\ intent'[t] = intent[t] \/ book'.decisionOf[t] = Nothing
          /\ stamped' \in SUBSET stamped /\ grounded' \in SUBSET grounded
      BY <1>1, <1>4, <2>1, TerminalGoneIs
    <3>2. /\ terminal' \in [Session -> [by : Run \cup {Nothing}, runs : BOOLEAN]]
          /\ terminal'[h].by = terminal[h].by
          /\ \A t \in Session \ {h} : terminal'[t] = terminal[t]
      BY <1>1, <1>4, <2>1 DEF DecisionTypes
    <3> QED BY <3>1, <3>2
  <2>2. CASE /\ book' = StaleReservation(book, q)
             /\ UNCHANGED <<intent, stamped, grounded, terminal>>
    <3>1. Fits(book', issued) /\ Shrunk(book, book')
      BY <1>1, <2>2, GivenUp
    <3> QED BY <1>1, <2>2, <3>1 DEF DecisionTypes
  <2> QED BY <1>2, <2>1, <2>2 DEF Cleanup
<1>7. \A r \in Run : /\ phase'[r] \in Early => phase[r] \in Early
                     /\ phase'[r] = "running" => phase[r] = "running"
    BY <1>2, <1>3, <1>5 DEF Early
<1>8. Terminals'
    BY <1>1, <1>5, <1>6, <1>7, TerminalsKept
<1>9. Quiet
  <2>1. \A r \in Run : (phase'[r] = "new" => phase[r] = "new") /\ (Active(r)' => Active(r))
    BY <1>2, <1>3, <1>5 DEF Active
  <2> QED BY <1>1, <1>5, <1>6, <2>1 DEF Quiet, DecisionTypes
<1> QED BY <1>5, <1>6, <1>8, <1>9, QuietStep

(* A run that ends outside its operation - or a call refused at once -     *)
(* takes nothing but a decision with it.                                   *)
LEMMA EndsAloneStep ==
    ASSUME DecisionIInv, NEW q \in Run, phase[q] \in {"new", "blocked"},
           NEW how \in {"failed", "stale", "consumed"},
           phase' = [phase EXCEPT ![q] = how],
           UNCHANGED <<intent, issued, lease, stamped, grounded, terminal, sessionOf,
                       answered, disturbed>>,
           Fits(book', issued), Shrunk(book, book')
    PROVE  DecisionIInv'
<1>1. DecisionTypes /\ Calls /\ Leases /\ Terminals
    BY DEF DecisionIInv
<1>2. /\ phase' \in [Run -> Phases] /\ phase'[q] = how
      /\ \A r \in Run \ {q} : phase'[r] = phase[r]
    BY <1>1 DEF DecisionTypes, Phases
<1>3. \A r \in Run : phase'[r] \in {"checking", "entered", "running"}
                     => phase[r] \in {"checking", "entered", "running"}
    BY <1>2
<1>4. Leases'
    BY <1>1, <1>3, LeasesKept
<1>5. \A r \in Run : /\ phase'[r] \in Early => phase[r] \in Early
                     /\ phase'[r] = "running" => phase[r] = "running"
    BY <1>2 DEF Early
<1>6. Terminals'
    BY <1>1, <1>5, TerminalsKept
<1>7. \A r \in Run : (phase'[r] = "new" => phase[r] = "new") /\ (Active(r)' => Active(r))
    BY <1>2 DEF Active
<1>8. Quiet
    BY <1>1, <1>7 DEF Quiet, DecisionTypes
<1> QED BY <1>1, <1>2, <1>4, <1>6, <1>8, QuietStep DEF DecisionTypes

(* A blocked run that may not pause ends without a decision. *)
LEMMA PauseRefusedKeeps ==
    ASSUME DecisionIInv, NEW q \in Run, PauseRefused(q) PROVE DecisionIInv'
<1>1. Decisions /\ issued \in Nat
    BY DEF DecisionIInv, DecisionTypes
<1> DEFINE how == IF q \in Answer THEN "stale" ELSE "failed"
<1>2. /\ phase[q] = "blocked" /\ book' = StaleReservation(book, q)
      /\ phase' = [phase EXCEPT ![q] = how]
      /\ UNCHANGED <<intent, issued, lease, stamped, grounded, terminal, sessionOf,
                     answered, disturbed>>
    BY DEF PauseRefused, leaseVars
<1>3. how \in {"failed", "stale", "consumed"}
    OBVIOUS
<1> HIDE DEF how
<1>4. Fits(book', issued) /\ Shrunk(book, book')
    BY <1>1, <1>2, GivenUp
<1> QED BY <1>2, <1>3, <1>4, EndsAloneStep

(* A refused answer is never made: it has neither launch nor decision. *)
LEMMA AnswerRefusedKeeps ==
    ASSUME DecisionIInv, NEW a \in Answer, NEW id, AnswerRefused(a, id) PROVE DecisionIInv'
<1>1. Fits(book, issued) /\ issued \in Nat
    BY DEF DecisionIInv, DecisionTypes, Decisions
<1> DEFINE how == IF \E rec \in RecordOf(book', id) : rec.state # "stale"
                  THEN "consumed" ELSE "stale"
<1>2. /\ phase[a] = "new" /\ book' = Expired(book) /\ phase' = [phase EXCEPT ![a] = how]
      /\ UNCHANGED <<intent, issued, lease, stamped, grounded, terminal, sessionOf,
                     answered, disturbed>>
    BY DEF AnswerRefused, FirstNew, leaseVars
<1>3. how \in {"failed", "stale", "consumed"}
    OBVIOUS
<1> HIDE DEF how
<1>4. Fits(book', issued) /\ Shrunk(book, book')
    BY <1>1, <1>2, ExpiredFits
<1>5. a \in Run
    BY DecisionNumbers
<1> QED BY <1>2, <1>3, <1>4, <1>5, EndsAloneStep

(* The decision that falls due is the one it was, for the same launch. *)
LEMMA TimePassesKeeps == ASSUME DecisionIInv, TimePasses PROVE DecisionIInv'
<1>1. /\ DecisionTypes /\ Calls /\ Leases /\ Decisions /\ Undisturbed /\ Terminals
      /\ issued \in Nat
    BY DEF DecisionIInv, DecisionTypes
<1>2. PICK old \in book.live :
         book' = [book EXCEPT !.live = (@ \ {old}) \cup {[old EXCEPT !.due = TRUE]}]
    BY DEF TimePasses
<1>3. UNCHANGED <<intent, issued, lease, stamped, grounded, terminal, phase, sessionOf,
                  answered, disturbed>>
    BY DEF TimePasses, leaseVars
<1> DEFINE new == [old EXCEPT !.due = TRUE]
<1>4. Fits(book, issued) /\ old \in LiveRecord
    BY <1>1 DEF Decisions, Fits, Book
<1>5. /\ new \in LiveRecord /\ new.id = old.id /\ new.launch = old.launch
      /\ new.stamp = old.stamp
    BY <1>4 DEF LiveRecord
<1>6. book' = [book EXCEPT !.live = (@ \ {old}) \cup {new}]
    BY <1>2
<1> HIDE DEF new
<1>7. /\ Fits(book', issued) /\ book'.live = (book.live \ {old}) \cup {new}
      /\ book'.decisionOf = book.decisionOf
    BY <1>1, <1>4, <1>5, <1>6, RenewedFits
<1>8. ASSUME NEW rec \in book'.live PROVE Owned(rec)'
  <2>1. PICK was \in book.live : /\ rec.id = was.id /\ rec.launch = was.launch
                                 /\ rec.stamp = was.stamp
    BY <1>5, <1>7
  <2>2. Owned(was)
    BY <1>1, <2>1 DEF Decisions
  <2>3. /\ sessionOf' = sessionOf /\ answered' = answered /\ intent' = intent
        /\ book'.decisionOf = book.decisionOf
    BY <1>3, <1>7
  <2> QED BY <2>1, <2>2, <2>3 DEF Owned, Made, Target, Home
<1>9. Decisions'
    BY <1>3, <1>7, <1>8 DEF Decisions
<1>10. Quiet
    BY <1>1, <1>3 DEF Quiet, Active, DecisionTypes
<1>11. Calls' /\ Undisturbed'
    BY <1>1, <1>10, QuietKeeps
<1>12. Leases'
    BY <1>1, <1>3, LeasesKept
<1>13. Terminals'
    BY <1>1, <1>3, TerminalsKept
<1>14. DecisionTypes'
    BY <1>1, <1>3 DEF DecisionTypes
<1> QED BY <1>9, <1>11, <1>12, <1>13, <1>14 DEF DecisionIInv

(* The session's decision was withdrawn first, so the new one is its only  *)
(* one; it is the newest launch's because the run has just seen the        *)
(* intent.                                                                 *)
LEMMA PauseKeeps == ASSUME DecisionIInv, NEW q \in Run, Pause(q) PROVE DecisionIInv'
<1>1. /\ DecisionTypes /\ Calls /\ Leases /\ Decisions /\ Undisturbed /\ Terminals
      /\ issued \in Nat /\ Fits(book, issued)
    BY DEF DecisionIInv, DecisionTypes, Decisions
<1> DEFINE l == Target(q)
           s == sessionOf[l]
<1>2. /\ phase[q] = "blocked" /\ intent[s] = l /\ issued' = issued + 1
      /\ book' = Paused(book, l, q, issued + 1) /\ phase' = [phase EXCEPT ![q] = "paused"]
      /\ UNCHANGED <<intent, lease, stamped, grounded, terminal, sessionOf, answered,
                     disturbed>>
    BY DEF Pause, leaseVars, AssertBaselineCurrent, AssertIntentCurrent, Home
<1>3. Made(q) /\ l \in Launch /\ s \in Session
    BY <1>1, <1>2 DEF Calls, Active, Made, Home
<1> HIDE DEF s
<1>4. s = sessionOf[l]
    BY DEF s
<1>5. Target(q) = l
    OBVIOUS
<1> HIDE DEF l
<1>6. LET c == Paused(book, l, q, issued + 1) IN
      /\ Fits(c, issued + 1)
      /\ \E d, rec : /\ Shrunk(book, d) /\ d.decisionOf[s] = Nothing
                     /\ c.live = d.live \cup {rec}
                     /\ rec.id = issued + 1 /\ rec.launch = l /\ rec.stamp = q
                     /\ c.decisionOf[s] = issued + 1
                     /\ \A t \in Session \ {s} : c.decisionOf[t] = d.decisionOf[t]
    BY <1>1, <1>3, <1>4, PausedFits
<1>7. /\ Fits(book', issued')
      /\ \E d, rec : /\ Shrunk(book, d) /\ d.decisionOf[s] = Nothing
                     /\ book'.live = d.live \cup {rec}
                     /\ rec.id = issued + 1 /\ rec.launch = l /\ rec.stamp = q
                     /\ book'.decisionOf[s] = issued + 1
                     /\ \A t \in Session \ {s} : book'.decisionOf[t] = d.decisionOf[t]
    BY <1>2, <1>6
<1>8. PICK d, rec : /\ Shrunk(book, d) /\ d.decisionOf[s] = Nothing
                    /\ book'.live = d.live \cup {rec}
                    /\ rec.id = issued + 1 /\ rec.launch = l /\ rec.stamp = q
                    /\ book'.decisionOf[s] = issued + 1
                    /\ \A t \in Session \ {s} : book'.decisionOf[t] = d.decisionOf[t]
    BY <1>7
<1>9. \A r : (Target(r)' = Target(r)) /\ (Home(r)' = Home(r)) /\ (Made(r)' <=> Made(r))
    BY <1>2 DEF Target, Home, Made
<1>10. Owned(rec)'
    BY <1>2, <1>3, <1>4, <1>5, <1>8, <1>9 DEF Owned
<1>11. ASSUME NEW x \in d.live PROVE Owned(x)'
  <2> DEFINE t == sessionOf[x.launch]
  <2>1. x \in book.live /\ Owned(x)
    BY <1>1, <1>8, <1>11 DEF Shrunk, Decisions
  <2>2. /\ t \in Session /\ intent[t] = x.launch /\ book.decisionOf[t] = x.id
        /\ Made(x.stamp) /\ Target(x.stamp) = x.launch
    BY <2>1 DEF Owned
  <2>3. x.id # Nothing
    BY <1>1, <2>1, DecisionNumbers DEF Fits, Book, LiveRecord
  <2>4. t = sessionOf[x.launch]
    OBVIOUS
  <2> HIDE DEF t
  <2>5. d.decisionOf[t] = x.id
    BY <1>8, <1>11, <2>2 DEF Shrunk, LiveIds
  <2>6. t # s
    BY <1>8, <2>3, <2>5
  <2>7. book'.decisionOf[t] = x.id
    BY <1>8, <2>2, <2>5, <2>6
  <2> QED BY <1>2, <1>9, <2>2, <2>4, <2>7 DEF Owned
<1>12. Decisions'
    BY <1>7, <1>8, <1>10, <1>11 DEF Decisions
<1>13. /\ phase' \in [Run -> Phases] /\ phase'[q] = "paused"
       /\ \A r \in Run \ {q} : phase'[r] = phase[r]
    BY <1>1, <1>2 DEF DecisionTypes, Phases
<1>14. \A r \in Run : /\ phase'[r] \in {"checking", "entered", "running"}
                         => phase[r] \in {"checking", "entered", "running"}
                      /\ phase'[r] \in Early => phase[r] \in Early
                      /\ phase'[r] = "running" => phase[r] = "running"
                      /\ phase'[r] = "new" => phase[r] = "new"
                      /\ Active(r)' => Active(r)
    BY <1>13 DEF Active, Early
<1>15. Leases'
    BY <1>1, <1>2, <1>14, LeasesKept
<1>16. Terminals'
    BY <1>1, <1>2, <1>14, TerminalsKept
<1>17. Quiet
    BY <1>1, <1>2, <1>14 DEF Quiet, DecisionTypes
<1>18. Calls' /\ Undisturbed'
    BY <1>1, <1>17, QuietKeeps
<1>19. DecisionTypes'
    BY <1>1, <1>2, <1>13 DEF DecisionTypes
<1> QED BY <1>12, <1>15, <1>16, <1>18, <1>19 DEF DecisionIInv

(* What is made stays as it is: calls get a session or a decision only     *)
(* once.                                                                   *)
LEMMA MadeStays ==
    ASSUME \A l \in Launch : sessionOf[l] # Nothing => sessionOf'[l] = sessionOf[l],
           \A a \in Answer : answered[a] # Nothing => answered'[a] = answered[a],
           NEW r \in Run, Made(r)
    PROVE  Target(r)' = Target(r) /\ Home(r)' = Home(r) /\ Made(r)'
<1>1. Target(r) \in Launch /\ sessionOf[Target(r)] \in Session
    BY DEF Made, Home
<1>2. Target(r)' = Target(r) /\ (r \in Answer => answered'[r] # Nothing)
    BY DecisionNumbers DEF Target, Made
<1>3. sessionOf'[Target(r)] = sessionOf[Target(r)]
    BY <1>1, DecisionNumbers
<1> QED BY <1>1, <1>2, <1>3 DEF Made, Home

(* Live decisions stay owned when their launches' sessions keep intent and *)
(* pointer.                                                                *)
LEMMA OwnedStays ==
    ASSUME \A l \in Launch : sessionOf[l] # Nothing => sessionOf'[l] = sessionOf[l],
           \A a \in Answer : answered[a] # Nothing => answered'[a] = answered[a],
           NEW was \in LiveRecord, Owned(was), NEW rec,
           rec.id = was.id, rec.launch = was.launch, rec.stamp = was.stamp,
           LET t == sessionOf[was.launch] IN
           intent'[t] = intent[t] /\ book'.decisionOf[t] = book.decisionOf[t]
    PROVE  Owned(rec)'
<1> DEFINE t == sessionOf[was.launch]
<1>1. /\ t \in Session /\ intent[t] = was.launch /\ book.decisionOf[t] = was.id
      /\ Made(was.stamp) /\ Target(was.stamp) = was.launch
    BY DEF Owned
<1>2. was.launch \in Launch /\ was.stamp \in Run
    BY DEF LiveRecord
<1>3. Target(was.stamp)' = Target(was.stamp) /\ Made(was.stamp)'
    BY <1>1, <1>2, MadeStays
<1>4. sessionOf'[was.launch] = t
    BY <1>1, <1>2, DecisionNumbers
<1> HIDE DEF t
<1>5. intent'[t] = was.launch /\ book'.decisionOf[t] = was.id
    BY <1>1 DEF t
<1> QED BY <1>1, <1>3, <1>4, <1>5 DEF Owned, Made, Target, Home

(* The new launch is made; the session's older ones lose intent and        *)
(* decision, and are no longer anybody's newest.                           *)
LEMMA BeginLaunchKeeps ==
    ASSUME DecisionIInv, NEW l \in Launch, NEW s \in Session, BeginLaunch(l, s)
    PROVE  DecisionIInv'
<1>1. /\ DecisionTypes /\ Calls /\ Leases /\ Decisions /\ Undisturbed /\ Terminals
      /\ issued \in Nat /\ Fits(book, issued) /\ l \in Run /\ l # Nothing /\ s # Nothing
    BY DecisionNumbers DEF DecisionIInv, DecisionTypes, Decisions
<1>2. /\ phase[l] = "new" /\ book' = WithoutDecision(book, s)
      /\ intent' = [intent EXCEPT ![s] = l] /\ sessionOf' = [sessionOf EXCEPT ![l] = s]
      /\ disturbed' = disturbed \cup LaunchesOn(s)
      /\ UNCHANGED <<issued, aborted, terminal, answered>>
    BY DEF BeginLaunch, FirstNew
<1>3. sessionOf[l] = Nothing
    BY <1>1, <1>2 DEF Calls
<1>4. PICK how \in {"checking", "failed"} : phase' = [phase EXCEPT ![l] = how]
    BY DEF BeginLaunch
<1>5. /\ phase' \in [Run -> Phases] /\ phase'[l] = how
      /\ \A r \in Run \ {l} : phase'[r] = phase[r]
    BY <1>1, <1>4 DEF DecisionTypes, Phases
<1>6. /\ intent' \in [Session -> Launch \cup {Nothing}] /\ intent'[s] = l
      /\ \A t \in Session \ {s} : intent'[t] = intent[t]
    BY <1>1, <1>2 DEF DecisionTypes
<1>7. /\ sessionOf' \in [Launch -> Session \cup {Nothing}] /\ sessionOf'[l] = s
      /\ \A m \in Launch \ {l} : sessionOf'[m] = sessionOf[m]
    BY <1>1, <1>2 DEF DecisionTypes
<1>8. /\ \A m \in Launch : sessionOf[m] # Nothing => m # l /\ sessionOf'[m] = sessionOf[m]
      /\ \A a \in Answer : answered[a] # Nothing => answered'[a] = answered[a]
    BY <1>2, <1>3, <1>7
<1>9. /\ lease' \in [Session -> Run \cup {Nothing, Other}]
      /\ \A t \in Session : lease'[t] = lease[t] \/ lease[t] = Nothing
      /\ how = "checking" => lease'[s] = l
      /\ stamped' \in SUBSET (stamped \cup {l}) /\ grounded' \in SUBSET (grounded \cup {l})
  <2>1. CASE lease[s] = Nothing
    <3>1. lease' = [lease EXCEPT ![s] = l]
      BY <2>1 DEF BeginLaunch, Reserve
    <3>2. stamped' = (stamped \ RunsOn(s)) \cup ({l} \cap Run) /\ grounded' = grounded \cup {l}
      BY <2>1 DEF BeginLaunch, Reserve
    <3> QED BY <1>1, <2>1, <3>1, <3>2 DEF DecisionTypes
  <2>2. CASE lease[s] # Nothing
    <3>1. UNCHANGED <<lease, stamped, grounded>> /\ phase' = [phase EXCEPT ![l] = "failed"]
      BY <2>2 DEF BeginLaunch
    <3>2. how # "checking"
      BY <1>1, <1>5, <3>1 DEF DecisionTypes
    <3> QED BY <1>1, <3>1, <3>2 DEF DecisionTypes
  <2> QED BY <2>1, <2>2
<1>10. ASSUME NEW r \in Run, Made(r)
       PROVE  /\ Target(r)' = Target(r) /\ Home(r)' = Home(r) /\ Made(r)'
              /\ Target(r) # l /\ Home(r) \in Session /\ Target(r) \in Launch
  <2>1. Target(r)' = Target(r) /\ Home(r)' = Home(r) /\ Made(r)'
    BY <1>8, <1>10, MadeStays
  <2>2. Target(r) # l /\ Home(r) \in Session /\ Target(r) \in Launch
    BY <1>1, <1>3, <1>10, DecisionNumbers DEF Made, Home
  <2> QED BY <2>1, <2>2
<1>11. Target(l)' = l /\ Home(l)' = s /\ Made(l)'
    BY <1>7, DecisionNumbers DEF Target, Home, Made
<1>12. Calls'
  <2>1. \A m \in Launch : phase'[m] = "new" => sessionOf'[m] = Nothing
    BY <1>1, <1>4, <1>5, <1>7, DecisionNumbers DEF Calls
  <2>2. \A a \in Answer : phase'[a] = "new" => answered'[a] = Nothing
    BY <1>1, <1>2, <1>4, <1>5, DecisionNumbers DEF Calls
  <2>3. \A a \in Answer : answered'[a] # Nothing => sessionOf'[answered'[a].launch] # Nothing
    <3>1. \A a \in Answer : answered[a] # Nothing => answered[a].launch \in Launch
      BY <1>1 DEF DecisionTypes, Reply
    <3> QED BY <1>1, <1>2, <1>7, <3>1 DEF Calls
  <2>4. ASSUME NEW r \in Run, Active(r)' \/ r \in stamped' PROVE Made(r)'
    <3>1. CASE r = l
      BY <1>11, <3>1
    <3>2. CASE r # l
      <4>1. Active(r) \/ r \in stamped
        BY <1>5, <1>9, <2>4, <3>2 DEF Active
      <4>2. Made(r)
        BY <1>1, <4>1 DEF Calls
      <4> QED BY <1>10, <4>2
    <3> QED BY <3>1, <3>2
  <2>5. ASSUME NEW t \in Session, intent'[t] # Nothing PROVE sessionOf'[intent'[t]] = t
    <3>1. CASE t = s
      BY <1>6, <1>7, <3>1
    <3>2. CASE t # s
      <4>1. intent'[t] = intent[t] /\ intent[t] \in Launch /\ sessionOf[intent[t]] = t
        BY <1>1, <1>6, <2>5, <3>2 DEF Calls, DecisionTypes
      <4> QED BY <1>8, <4>1, DecisionNumbers
    <3> QED BY <3>1, <3>2
  <2>6. \A m \in disturbed' : sessionOf'[m] # Nothing
    BY <1>1, <1>2, <1>7 DEF Calls, DecisionTypes, LaunchesOn
  <2> QED BY <2>1, <2>2, <2>3, <2>4, <2>5, <2>6 DEF Calls
<1>13. Leases'
  <2>1. ASSUME NEW r \in Run, phase'[r] \in {"checking", "entered", "running"}
        PROVE  lease'[Home(r)'] = r
    <3>1. CASE r = l
      BY <1>4, <1>5, <1>9, <1>11, <2>1, <3>1
    <3>2. CASE r # l
      <4>1. phase[r] \in {"checking", "entered", "running"} /\ lease[Home(r)] = r
        BY <1>1, <1>5, <2>1, <3>2 DEF Leases
      <4>2. Made(r)
        BY <1>1, <4>1 DEF Calls, Active
      <4> QED BY <1>9, <1>10, <4>1, <4>2, DecisionNumbers
    <3> QED BY <3>1, <3>2
  <2> QED BY <2>1 DEF Leases
<1>14. Fits(book', issued) /\ Shrunk(book, book') /\ book'.decisionOf[s] = Nothing
    BY <1>1, <1>2, WithoutDecisionFits
<1>15. Decisions'
  <2>1. ASSUME NEW rec \in book'.live PROVE Owned(rec)'
    <3> DEFINE t == sessionOf[rec.launch]
    <3>1. rec \in book.live /\ Owned(rec) /\ rec \in LiveRecord
      BY <1>1, <1>14, <2>1 DEF Shrunk, Decisions, Fits, Book
    <3>2. t \in Session /\ book.decisionOf[t] = rec.id /\ rec.id # Nothing
      BY <3>1, DecisionNumbers DEF Owned, LiveRecord
    <3>3. book'.decisionOf[t] = book.decisionOf[t]
      <4> HIDE DEF t
      <4> QED BY <1>14, <2>1, <3>2 DEF Shrunk, LiveIds
    <3>4. intent'[t] = intent[t]
      BY <1>6, <1>14, <3>2, <3>3
    <3> QED BY <1>8, <3>1, <3>3, <3>4, OwnedStays
  <2> QED BY <1>2, <1>14, <2>1 DEF Decisions
<1>16. Undisturbed'
  <2>1. ASSUME NEW m \in disturbed'
        PROVE  \/ intent'[sessionOf'[m]] # m \/ m \notin grounded'
               \/ \A r \in stamped' : Target(r)' # m
    <3>1. /\ m \in Launch /\ sessionOf[m] \in Session /\ m # l /\ sessionOf'[m] = sessionOf[m]
      <4>1. m \in Launch /\ sessionOf[m] # Nothing
        BY <1>1, <1>2, <2>1 DEF Calls, DecisionTypes, LaunchesOn
      <4> QED BY <1>1, <1>8, <4>1 DEF DecisionTypes
    <3>2. CASE sessionOf[m] = s
      BY <1>6, <3>1, <3>2
    <3>3. CASE sessionOf[m] # s
      <4>1. m \in disturbed /\ intent'[sessionOf'[m]] = intent[sessionOf[m]]
        BY <1>2, <1>6, <2>1, <3>1, <3>3 DEF LaunchesOn
      <4>2. CASE intent[sessionOf[m]] # m
        BY <4>1, <4>2
      <4>3. CASE m \notin grounded
        BY <1>9, <3>1, <4>3
      <4>4. CASE \A r \in stamped : Target(r) # m
        <5>1. ASSUME NEW r \in stamped' PROVE Target(r)' # m
          <6>1. CASE r = l
            BY <1>11, <3>1, <6>1
          <6>2. CASE r # l
            <7>1. r \in stamped /\ r \in Run
              BY <1>1, <1>9, <5>1, <6>2 DEF DecisionTypes
            <7>2. Made(r)
              BY <1>1, <7>1 DEF Calls
            <7> QED BY <1>10, <4>4, <7>1, <7>2
          <6> QED BY <6>1, <6>2
        <5> QED BY <5>1
      <4> QED BY <1>1, <4>1, <4>2, <4>3, <4>4 DEF Undisturbed
    <3> QED BY <3>2, <3>3
  <2> QED BY <2>1 DEF Undisturbed
<1>17. Terminals'
  <2>1. ASSUME NEW r \in Run, NEW t \in Session, terminal'[t].by = r
        PROVE  phase'[r] \notin Early
    <3>1. phase[r] \notin Early
      BY <1>1, <1>2, <2>1 DEF Terminals, Early
    <3> QED BY <1>2, <1>5, <3>1 DEF Early
  <2>2. ASSUME NEW r \in Run, phase'[r] = "running", intent'[Home(r)'] = Target(r)'
        PROVE  terminal'[Home(r)'] = [by |-> r, runs |-> TRUE]
    <3>1. r # l /\ phase[r] = "running"
      BY <1>4, <1>5, <2>2
    <3>2. Made(r)
      BY <1>1, <3>1 DEF Calls, Active
    <3>3. /\ Home(r)' = Home(r) /\ Target(r)' = Target(r) /\ Target(r) # l
          /\ Home(r) \in Session
      BY <1>10, <3>2
    <3>4. intent[Home(r)] = Target(r)
      BY <1>6, <2>2, <3>3
    <3> QED BY <1>1, <1>2, <3>1, <3>3, <3>4 DEF Terminals
  <2> QED BY <2>1, <2>2 DEF Terminals, Early
<1>18. DecisionTypes'
  <2>1. disturbed' \in SUBSET Launch
    BY <1>1, <1>2 DEF DecisionTypes, LaunchesOn
  <2> QED BY <1>1, <1>2, <1>5, <1>6, <1>7, <1>9, <2>1 DEF DecisionTypes
<1> QED BY <1>12, <1>13, <1>15, <1>16, <1>17, <1>18 DEF DecisionIInv

(* What is live was live, for the same launch, and still is what its       *)
(* session points to.                                                      *)
AnsweredBook(b, c) ==
    \A x \in c.live : \E was \in b.live :
       /\ x.id = was.id /\ x.launch = was.launch /\ x.stamp = was.stamp
       /\ \A t \in Session : b.decisionOf[t] = was.id => c.decisionOf[t] = was.id

(* What an answer does to the book: the decision it is to is finished, or  *)
(* is being decided; nothing else changes but what had expired.            *)
LEMMA AnswerFinishes ==
    ASSUME NEW n \in Nat, NEW b, NEW e, Fits(e, n), Shrunk(b, e), NEW rec \in e.live,
           NEW state \in {"consumed", "stale"}
    PROVE  LET c == Finished(e, {rec}, state) IN Fits(c, n) /\ AnsweredBook(b, c)
<1> DEFINE c == Finished(e, {rec}, state)
<1>1. {rec} \in SUBSET e.live
    OBVIOUS
<1>2. Fits(c, n) /\ Shrunk(e, c)
    BY <1>1, FinishedFits
<1>3. Shrunk(b, c)
    BY <1>2, ShrunkTwice
<1> HIDE DEF c
<1>4. AnsweredBook(b, c)
    BY <1>3 DEF Shrunk, LiveIds, AnsweredBook
<1> QED BY <1>2, <1>4 DEF c

(* The same of an answer that decides to go on. *)
LEMMA AnswerRenews ==
    ASSUME NEW n \in Nat, NEW b, NEW e, Fits(e, n), Shrunk(b, e), NEW rec \in e.live,
           NEW new \in LiveRecord, new.id = rec.id, new.launch = rec.launch,
           new.stamp = rec.stamp
    PROVE  LET c == [e EXCEPT !.live = (@ \ {rec}) \cup {new}] IN
           Fits(c, n) /\ AnsweredBook(b, c)
<1> DEFINE c == [e EXCEPT !.live = (@ \ {rec}) \cup {new}]
<1>1. Fits(c, n) /\ c.live = (e.live \ {rec}) \cup {new} /\ c.decisionOf = e.decisionOf
    BY RenewedFits
<1> HIDE DEF c
<1>2. \A x \in e.live :
        /\ x \in b.live
        /\ \A t \in Session : b.decisionOf[t] = x.id => e.decisionOf[t] = x.id
    BY DEF Shrunk, LiveIds
<1>3. AnsweredBook(b, c)
  <2>1. ASSUME NEW x \in c.live
        PROVE  \E was \in b.live :
                 /\ x.id = was.id /\ x.launch = was.launch /\ x.stamp = was.stamp
                 /\ \A t \in Session : b.decisionOf[t] = was.id => c.decisionOf[t] = was.id
    <3>1. CASE x = new
      BY <1>1, <1>2, <3>1
    <3>2. CASE x \in e.live
      BY <1>1, <1>2, <3>2
    <3> QED BY <1>1, <2>1, <3>1, <3>2
  <2> QED BY <2>1 DEF AnsweredBook
<1> QED BY <1>1, <1>3 DEF c

(* The answer's decision is live, hence its launch the newest of its       *)
(* session; the answer gets a stamp only if that launch's last one is      *)
(* still good, so the launch is not disturbed.                             *)
LEMMA AnswerTakenKeeps ==
    ASSUME DecisionIInv, NEW a \in Answer, NEW id \in 1 .. issued, NEW choice \in Choice,
           AnswerTaken(a, id, choice)
    PROVE  DecisionIInv'
<1>1. /\ DecisionTypes /\ Calls /\ Leases /\ Decisions /\ Undisturbed /\ Terminals
      /\ issued \in Nat /\ Fits(book, issued) /\ a \in Run /\ a # Nothing /\ a \notin Launch
    BY DecisionNumbers DEF DecisionIInv, DecisionTypes, Decisions
<1>2. PICK rec \in Expired(book).live :
        LET b == Expired(book)
            s == sessionOf[rec.launch]
            goesOn == choice # "cancel" /\ lease[s] = Nothing /\ rec.stamp \in stamped
            deciding == [rec EXCEPT !.state = "deciding", !.choice = choice]
        IN /\ rec.id = id /\ rec.state = "pending"
           /\ intent[s] = rec.launch
           /\ answered' = [answered EXCEPT ![a] =
                [launch |-> rec.launch, decision |-> id, choice |-> choice]]
           /\ book' = IF choice # "bypass" THEN Finished(b, {rec}, "consumed")
                      ELSE IF goesOn
                      THEN [b EXCEPT !.live = (@ \ {rec}) \cup {deciding}]
                      ELSE Finished(b, {rec}, "stale")
           /\ phase' = [phase EXCEPT ![a] = IF choice = "cancel" THEN "cancelled"
                                            ELSE IF goesOn THEN "checking"
                                            ELSE "stale"]
           /\ IF goesOn THEN Reserve(a, s) ELSE UNCHANGED <<lease, stamped>>
    BY DEF AnswerTaken
<1> DEFINE l == rec.launch
           s == sessionOf[l]
           goesOn == choice # "cancel" /\ lease[s] = Nothing /\ rec.stamp \in stamped
<1>3. Fits(book', issued) /\ rec \in book.live /\ AnsweredBook(book, book')
  <2> DEFINE e == Expired(book)
             new == [rec EXCEPT !.state = "deciding", !.choice = choice]
             renewed == [e EXCEPT !.live = (@ \ {rec}) \cup {new}]
  <2>1. book' = IF choice # "bypass" THEN Finished(e, {rec}, "consumed")
                ELSE IF goesOn THEN renewed ELSE Finished(e, {rec}, "stale")
    BY <1>2
  <2>2. Fits(e, issued) /\ Shrunk(book, e) /\ rec \in e.live
    BY <1>1, ExpiredFits
  <2>3. rec \in book.live /\ rec \in LiveRecord
    BY <2>2 DEF Shrunk, Fits, Book
  <2>4. /\ new \in LiveRecord /\ new.id = rec.id /\ new.launch = rec.launch
        /\ new.stamp = rec.stamp
    BY <2>3 DEF LiveRecord
  <2> HIDE DEF e, new
  <2>5. \A state \in {"consumed", "stale"} :
          LET c == Finished(e, {rec}, state) IN Fits(c, issued) /\ AnsweredBook(book, c)
    BY <1>1, <2>2, AnswerFinishes
  <2>6. Fits(renewed, issued) /\ AnsweredBook(book, renewed)
    BY <1>1, <2>2, <2>4, AnswerRenews
  <2> HIDE DEF renewed, goesOn
  <2> QED BY <2>1, <2>3, <2>5, <2>6
<1>4. /\ phase[a] = "new"
      /\ UNCHANGED <<intent, issued, grounded, terminal, sessionOf, disturbed>>
    BY DEF AnswerTaken, FirstNew
<1>5. answered[a] = Nothing
    BY <1>1, <1>4 DEF Calls
<1>6. /\ l \in Launch /\ s \in Session /\ Target(rec.stamp) = l /\ s = sessionOf[l]
    BY <1>1, <1>3 DEF Decisions, Owned, Fits, Book, LiveRecord
<1>7. /\ answered' \in [Answer -> Reply \cup {Nothing}]
      /\ answered'[a] # Nothing /\ answered'[a].launch = l
      /\ \A b \in Answer \ {a} : answered'[b] = answered[b]
  <2> DEFINE reply == [launch |-> l, decision |-> id, choice |-> choice]
  <2>1. reply \in Reply /\ reply.launch = l
    BY <1>1, <1>6 DEF Reply
  <2>2. answered' = [answered EXCEPT ![a] = reply]
    BY <1>2
  <2> HIDE DEF reply
  <2> QED BY <1>1, <2>1, <2>2, DecisionNumbers DEF DecisionTypes
<1>8. PICK how \in {"cancelled", "checking", "stale"} :
        phase' = [phase EXCEPT ![a] = how] /\ (how = "checking" => goesOn)
  <2> DEFINE how == IF choice = "cancel" THEN "cancelled"
                    ELSE IF goesOn THEN "checking" ELSE "stale"
  <2>1. how \in {"cancelled", "checking", "stale"} /\ (how = "checking" => goesOn)
    OBVIOUS
  <2>2. phase' = [phase EXCEPT ![a] = how]
    BY <1>2
  <2> HIDE DEF how, goesOn
  <2> QED BY <2>1, <2>2
<1>9. /\ phase' \in [Run -> Phases] /\ phase'[a] = how
      /\ \A r \in Run \ {a} : phase'[r] = phase[r]
    BY <1>1, <1>8 DEF DecisionTypes, Phases
<1>10. /\ goesOn => Reserve(a, s)
       /\ ~goesOn => UNCHANGED <<lease, stamped>>
    BY <1>2
<1>11. /\ goesOn => lease[s] = Nothing /\ rec.stamp \in stamped
    OBVIOUS
<1> HIDE DEF goesOn, s
<1>12. /\ lease' \in [Session -> Run \cup {Nothing, Other}]
       /\ \A t \in Session : lease'[t] = lease[t] \/ lease[t] = Nothing
       /\ how = "checking" => lease'[s] = a
       /\ stamped' \in SUBSET Run
       /\ \A r \in stamped' : r \in stamped \/ (r = a /\ goesOn)
  <2>1. CASE goesOn
    <3>1. lease' = [lease EXCEPT ![s] = a] /\ stamped' = (stamped \ RunsOn(s)) \cup {a}
      BY <1>1, <1>10, <2>1 DEF Reserve
    <3> QED BY <1>1, <1>6, <1>11, <2>1, <3>1 DEF DecisionTypes
  <2>2. CASE ~goesOn
    BY <1>1, <1>8, <1>10, <2>2 DEF DecisionTypes
  <2> QED BY <2>1, <2>2
<1>13. /\ \A m \in Launch : sessionOf[m] # Nothing => sessionOf'[m] = sessionOf[m]
       /\ \A b \in Answer : answered[b] # Nothing => answered'[b] = answered[b]
    BY <1>4, <1>5, <1>7
<1>14. ASSUME NEW r \in Run, Made(r)
       PROVE  Target(r)' = Target(r) /\ Home(r)' = Home(r) /\ Made(r)' /\ Home(r) \in Session
    BY <1>13, <1>14, MadeStays DEF Made
<1>15. Target(a)' = l /\ Home(a)' = s /\ Made(a)'
    BY <1>1, <1>4, <1>6, <1>7 DEF Target, Home, Made
<1>16. Calls'
  <2>1. \A m \in Launch : phase'[m] = "new" => sessionOf'[m] = Nothing
    BY <1>1, <1>4, <1>9, DecisionNumbers DEF Calls
  <2>2. \A b \in Answer : phase'[b] = "new" => answered'[b] = Nothing
    BY <1>1, <1>7, <1>8, <1>9, DecisionNumbers DEF Calls
  <2>3. \A b \in Answer : answered'[b] # Nothing => sessionOf'[answered'[b].launch] # Nothing
    BY <1>1, <1>4, <1>6, <1>7, DecisionNumbers DEF Calls
  <2>4. ASSUME NEW r \in Run, Active(r)' \/ r \in stamped' PROVE Made(r)'
    <3>1. CASE r = a
      BY <1>15, <3>1
    <3>2. CASE r # a
      <4>1. Active(r) \/ r \in stamped
        BY <1>9, <1>12, <2>4, <3>2 DEF Active
      <4>2. Made(r)
        BY <1>1, <4>1 DEF Calls
      <4> QED BY <1>14, <4>2
    <3> QED BY <3>1, <3>2
  <2>5. /\ \A t \in Session : intent'[t] # Nothing => sessionOf'[intent'[t]] = t
        /\ \A m \in disturbed' : sessionOf'[m] # Nothing
    BY <1>1, <1>4 DEF Calls
  <2> QED BY <2>1, <2>2, <2>3, <2>4, <2>5 DEF Calls
<1>17. Leases'
  <2>1. ASSUME NEW r \in Run, phase'[r] \in {"checking", "entered", "running"}
        PROVE  lease'[Home(r)'] = r
    <3>1. CASE r = a
      BY <1>8, <1>9, <1>12, <1>15, <2>1, <3>1
    <3>2. CASE r # a
      <4>1. phase[r] \in {"checking", "entered", "running"} /\ lease[Home(r)] = r
        BY <1>1, <1>9, <2>1, <3>2 DEF Leases
      <4>2. Made(r)
        BY <1>1, <4>1 DEF Calls, Active
      <4> QED BY <1>12, <1>14, <4>1, <4>2, DecisionNumbers
    <3> QED BY <3>1, <3>2
  <2> QED BY <2>1 DEF Leases
<1>18. Decisions'
  <2>1. ASSUME NEW x \in book'.live PROVE Owned(x)'
    <3>1. PICK was \in book.live :
            /\ x.id = was.id /\ x.launch = was.launch /\ x.stamp = was.stamp
            /\ \A t \in Session : book.decisionOf[t] = was.id => book'.decisionOf[t] = was.id
      BY <1>3, <2>1 DEF AnsweredBook
    <3>2. Owned(was) /\ was \in LiveRecord
      BY <1>1, <3>1 DEF Decisions, Fits, Book
    <3>3. LET t == sessionOf[was.launch] IN
          intent'[t] = intent[t] /\ book'.decisionOf[t] = book.decisionOf[t]
      BY <1>4, <3>1, <3>2 DEF Owned
    <3> QED BY <1>13, <3>1, <3>2, <3>3, OwnedStays
  <2> QED BY <1>3, <1>4, <2>1 DEF Decisions
<1>19. Undisturbed'
  <2>1. ASSUME NEW m \in disturbed'
        PROVE  \/ intent'[sessionOf'[m]] # m \/ m \notin grounded'
               \/ \A r \in stamped' : Target(r)' # m
    <3>1. \/ intent'[sessionOf'[m]] # m \/ m \notin grounded'
          \/ \A r \in stamped : Target(r) # m
      BY <1>1, <1>4, <2>1 DEF Undisturbed
    <3>2. ASSUME \A r \in stamped : Target(r) # m, NEW r \in stamped' PROVE Target(r)' # m
      <4>1. CASE r = a /\ goesOn
        BY <1>6, <1>11, <1>15, <3>2, <4>1
      <4>2. CASE r \in stamped
        <5>1. r \in Run /\ Made(r)
          BY <1>1, <4>2 DEF Calls, DecisionTypes
        <5> QED BY <1>14, <3>2, <4>2, <5>1
      <4> QED BY <1>12, <3>2, <4>1, <4>2
    <3> QED BY <3>1, <3>2
  <2> QED BY <2>1 DEF Undisturbed
<1>20. Terminals'
  <2>1. ASSUME NEW r \in Run, NEW t \in Session, terminal'[t].by = r
        PROVE  phase'[r] \notin Early
    <3>1. phase[r] \notin Early
      BY <1>1, <1>4, <2>1 DEF Terminals, Early
    <3> QED BY <1>4, <1>9, <3>1 DEF Early
  <2>2. ASSUME NEW r \in Run, phase'[r] = "running", intent'[Home(r)'] = Target(r)'
        PROVE  terminal'[Home(r)'] = [by |-> r, runs |-> TRUE]
    <3>1. r # a /\ phase[r] = "running"
      BY <1>8, <1>9, <2>2
    <3>2. Made(r)
      BY <1>1, <3>1 DEF Calls, Active
    <3>3. Home(r)' = Home(r) /\ Target(r)' = Target(r)
      BY <1>14, <3>2
    <3> QED BY <1>1, <1>4, <2>2, <3>1, <3>3 DEF Terminals
  <2> QED BY <2>1, <2>2 DEF Terminals, Early
<1>21. DecisionTypes'
    BY <1>1, <1>4, <1>7, <1>9, <1>12 DEF DecisionTypes
<1> QED BY <1>16, <1>17, <1>18, <1>19, <1>20, <1>21 DEF DecisionIInv

(* At the start there is no call and no decision. *)
THEOREM DecisionStart == ASSUME DecisionInit PROVE DecisionIInv
<1>1. DecisionTypes
    BY DecisionNumbers DEF DecisionInit, DecisionTypes, Phases
<1>2. Calls /\ Leases /\ Undisturbed /\ Terminals
    BY DecisionNumbers DEF DecisionInit, Calls, Leases, Undisturbed, Terminals, Active
<1>3. book.live = {} /\ book.ended = <<>> /\ book.decisionOf = [s \in Session |-> Nothing]
    BY DEF DecisionInit
<1>4. book \in Book
    BY DEF DecisionInit, Book
<1>5. IsFiniteSet({}) /\ Cardinality({}) = 0 /\ Len(book.ended) = 0
    BY <1>3, FS_EmptySet
<1>6. Fits(book, issued)
    BY <1>3, <1>4, <1>5, LimitAssumption DEF Fits
<1>7. Decisions
    BY <1>3, <1>6 DEF Decisions
<1> QED BY <1>1, <1>2, <1>7 DEF DecisionIInv

(* Every step of a run, an answer, the clock or somebody else keeps the    *)
(* invariant.                                                              *)
THEOREM DecisionStep == ASSUME DecisionIInv, [DecisionNext]_decisionVars PROVE DecisionIInv'
<1>1. ASSUME NEW l \in Launch, NEW s \in Session, BeginLaunch(l, s) PROVE DecisionIInv'
    BY <1>1, BeginLaunchKeeps
<1>2. ASSUME NEW r \in Run, RunStep(r) PROVE DecisionIInv'
    BY <1>2, EnterKeeps, RestartTerminalKeeps, RestartFailsKeeps, CompleteKeeps, FailKeeps,
       BlockKeeps, PauseKeeps, PauseRefusedKeeps DEF RunStep
<1>3. ASSUME NEW a \in Answer, NEW id \in 1 .. issued, AnswerRefused(a, id)
      PROVE  DecisionIInv'
    BY <1>3, AnswerRefusedKeeps
<1>4. ASSUME NEW a \in Answer, NEW id \in 1 .. issued, NEW c \in Choice, AnswerTaken(a, id, c)
      PROVE  DecisionIInv'
    BY <1>4, AnswerTakenKeeps
<1>5. CASE TimePasses
    BY <1>5, TimePassesKeeps
<1>6. CASE ExpiryTimer
    BY <1>6, ExpiryTimerKeeps
<1>7. CASE InvalidateAll
    BY <1>7, InvalidateAllKeeps
<1>8. ASSUME NEW s \in Session,
             \/ OtherOperation(s) \/ OtherEnds(s) \/ InvalidateOperation(s)
             \/ TerminalFails(s) \/ TerminalReplaced(s) \/ ConfigurationChanges(s)
      PROVE  DecisionIInv'
    BY <1>8, OtherOperationKeeps, OtherEndsKeeps, InvalidateOperationKeeps,
       TerminalFailsKeeps, TerminalReplacedKeeps, ConfigurationChangesKeeps
<1>9. CASE UNCHANGED decisionVars
    BY <1>9, StutterKeeps
<1> QED BY <1>1, <1>2, <1>3, <1>4, <1>5, <1>6, <1>7, <1>8, <1>9 DEF DecisionNext

(* The five parts of the invariant hold together, always. *)
THEOREM DecisionInductive == DecisionSpec => []DecisionIInv
<1>1. DecisionInit => DecisionIInv
    BY DecisionStart
<1>2. DecisionIInv /\ [DecisionNext]_decisionVars => DecisionIInv'
    BY DecisionStep
<1> QED BY <1>1, <1>2, PTL DEF DecisionSpec

(* Of all the decisions kept, those that can still be answered are the     *)
(* newest launches' of their sessions, one for each, and the session knows *)
(* it; both limits hold.                                                   *)
THEOREM LiveDecisions == DecisionSpec => []LiveDecisionIsNewest
<1>1. DecisionIInv => LiveDecisionIsNewest
    BY DEF DecisionIInv, Decisions, Owned, Fits, LiveDecisionIsNewest
<1> QED BY <1>1, DecisionInductive, PTL

(* Whoever changes the phase of a run from checking to entered is Enter. *)
LEMMA OnlyEnterEnters ==
    ASSUME DecisionIInv, [DecisionNext]_decisionVars, NEW a \in Answer,
           phase[a] = "checking", phase'[a] = "entered"
    PROVE  Enter(a)
<1>1. phase \in [Run -> Phases] /\ a \in Run
    BY DecisionNumbers DEF DecisionIInv, DecisionTypes
<1>2. ASSUME NEW r \in Run, RunStep(r) PROVE Enter(a)
  <2>1. \/ Enter(r)
        \/ \E how \in {"running", "failed", "completed", "stale", "blocked", "paused"} :
              phase' = [phase EXCEPT ![r] = how]
    BY <1>2 DEF RunStep, RestartTerminal, RestartFails, Complete, Fail, Block, Pause,
                PauseRefused, Ends
  <2>2. Enter(r)
    BY <1>1, <2>1
  <2>3. phase' = [phase EXCEPT ![r] = "entered"]
    BY <2>2 DEF Enter
  <2> QED BY <1>1, <2>2, <2>3
<1>3. \A l \in Launch, s \in Session : ~BeginLaunch(l, s)
  <2>1. ASSUME NEW l \in Launch, NEW s \in Session, BeginLaunch(l, s) PROVE FALSE
    <3>1. \E how \in {"checking", "failed"} : phase' = [phase EXCEPT ![l] = how]
      BY <2>1 DEF BeginLaunch
    <3> QED BY <1>1, <3>1
  <2> QED BY <2>1
<1>4. \A b \in Answer, id \in 1 .. issued : ~AnswerRefused(b, id)
  <2>1. ASSUME NEW b \in Answer, NEW id \in 1 .. issued, AnswerRefused(b, id) PROVE FALSE
    <3>1. \E how \in {"consumed", "stale"} : phase' = [phase EXCEPT ![b] = how]
      BY <2>1 DEF AnswerRefused
    <3> QED BY <1>1, <3>1
  <2> QED BY <2>1
<1>5. \A b \in Answer, id \in 1 .. issued, c \in Choice : ~AnswerTaken(b, id, c)
  <2>1. ASSUME NEW b \in Answer, NEW id \in 1 .. issued, NEW c \in Choice,
               AnswerTaken(b, id, c)
        PROVE FALSE
    <3>1. \E how \in {"cancelled", "checking", "stale"} : phase' = [phase EXCEPT ![b] = how]
      BY <2>1 DEF AnswerTaken
    <3> QED BY <1>1, <3>1
  <2> QED BY <2>1
<1>6. phase' # phase
    BY <1>1
<1>7. /\ ~TimePasses /\ ~ExpiryTimer /\ ~InvalidateAll /\ ~UNCHANGED decisionVars
      /\ \A s \in Session : /\ ~OtherOperation(s) /\ ~OtherEnds(s) /\ ~InvalidateOperation(s)
                            /\ ~TerminalFails(s) /\ ~TerminalReplaced(s)
                            /\ ~ConfigurationChanges(s)
    BY <1>6 DEF TimePasses, ExpiryTimer, InvalidateAll, decisionVars, OtherOperation, OtherEnds,
                InvalidateOperation, TerminalFails, TerminalReplaced, ConfigurationChanges,
                Interferes
<1> QED BY <1>2, <1>3, <1>4, <1>5, <1>7 DEF DecisionNext

(* An answer enters the launch only if, from the launch's own start to the *)
(* entry, nothing happened to the session, its terminal and its            *)
(* configuration, and a bypass only before the decision's time is up.      *)
THEOREM EntryIsUndisturbed == DecisionSpec => EntersUndisturbed
<1>1. ASSUME DecisionIInv, [DecisionNext]_decisionVars, NEW a \in Answer,
             phase[a] = "checking", phase'[a] = "entered"
      PROVE  /\ answered[a].launch \notin disturbed
             /\ answered[a].choice = "bypass" =>
                  \A rec \in book.live : rec.id = answered[a].decision => ~rec.due
  <2>1. Enter(a)
    BY <1>1, OnlyEnterEnters
  <2>2. /\ a \in stamped /\ intent[Home(a)] = Target(a) /\ Target(a) \in grounded
        /\ Target(a) = answered[a].launch /\ Home(a) = sessionOf[Target(a)]
    BY <2>1, DecisionNumbers DEF Enter, AssertPreparationCurrent, AssertCurrent,
       AssertIntentCurrent, Target, Home
  <2>3. answered[a].launch \notin disturbed
    BY <1>1, <2>2 DEF DecisionIInv, Undisturbed
  <2>4. ASSUME answered[a].choice = "bypass", NEW rec \in book.live,
               rec.id = answered[a].decision
        PROVE  ~rec.due
    <3>1. Reservation(Expired(book), a) # {}
      BY <2>1, <2>4 DEF Enter, ConsumeReservation
    <3>2. PICK x \in Expired(book).live : x.id = answered[a].decision
      BY <3>1 DEF Reservation
    <3>3. /\ Expired(book).live = {y \in book.live : ~y.due}
          /\ \A y, z \in book.live : y.id = z.id => y = z
      <4>1. Fits(book, issued) /\ issued \in Nat
        BY <1>1 DEF DecisionIInv, DecisionTypes, Decisions
      <4> QED BY <4>1, ExpiredFits DEF Fits
    <3> QED BY <2>4, <3>2, <3>3
  <2> QED BY <2>3, <2>4
<1>2. DecisionIInv /\ [DecisionNext]_decisionVars =>
        [\A a \in Answer : phase[a] = "checking" /\ phase'[a] = "entered" =>
           /\ answered[a].launch \notin disturbed
           /\ answered[a].choice = "bypass" =>
                \A rec \in book.live : rec.id = answered[a].decision => ~rec.due]_decisionVars
    BY <1>1
<1> QED BY <1>2, DecisionInductive, PTL DEF DecisionSpec, EntersUndisturbed

(* What holds of a run when it ends, by its own step. *)
LEMMA OwnEndTellsTerminal ==
    ASSUME DecisionIInv, NEW q \in Run, RunStep(q), Active(q), ~Active(q)'
    PROVE  (phase'[q] = "completed") <=> (terminal'[Home(q)] = [by |-> q, runs |-> TRUE])
<1>1. DecisionTypes /\ Calls /\ Terminals
    BY DEF DecisionIInv
<1> DEFINE h == Home(q)
           mine == [by |-> q, runs |-> TRUE]
<1>2. h \in Session
    BY <1>1 DEF Calls, Made
<1>3. ASSUME NEW how, phase' = [phase EXCEPT ![q] = how] PROVE phase'[q] = how
    BY <1>1, <1>3 DEF DecisionTypes
<1>4. ~Enter(q) /\ ~RestartTerminal(q) /\ ~Block(q)
    BY <1>3 DEF Enter, RestartTerminal, Block, Ends, Active
<1>5. CASE RestartFails(q)
  <2>1. phase'[q] = "failed" /\ terminal' = [terminal EXCEPT ![h] = [by |-> q, runs |-> FALSE]]
    BY <1>3, <1>5 DEF RestartFails, Ends
  <2>2. terminal'[h].runs = FALSE
    BY <1>1, <1>2, <2>1 DEF DecisionTypes
  <2> QED BY <2>1, <2>2
<1>6. CASE Complete(q)
  <2>1. /\ phase'[q] = "completed" /\ phase[q] = "running" /\ intent[h] = Target(q)
        /\ terminal' = terminal
    BY <1>3, <1>6 DEF Complete, Ends, AssertCurrent, AssertIntentCurrent
  <2>2. terminal[h] = mine
    BY <1>1, <2>1 DEF Terminals
  <2> QED BY <2>1, <2>2
<1>7. CASE Fail(q)
  <2>1. phase'[q] \in {"stale", "failed"} /\ Cleanup(q)
    BY <1>3, <1>7 DEF Fail, Ends
  <2>2. terminal'[h] # mine
    <3>1. CASE terminal[h] = mine
      <4>1. terminal' = [terminal EXCEPT ![h].runs = FALSE]
        BY <2>1, <3>1 DEF Cleanup
      <4>2. terminal'[h].runs = FALSE
        BY <1>1, <1>2, <4>1 DEF DecisionTypes
      <4> QED BY <4>2
    <3>2. CASE terminal[h] # mine
      <4>1. terminal' = terminal
        BY <2>1, <3>2 DEF Cleanup
      <4> QED BY <3>2, <4>1
    <3> QED BY <3>1, <3>2
  <2> QED BY <2>1, <2>2
<1>8. CASE Pause(q) \/ PauseRefused(q)
  <2>1. phase'[q] \in {"paused", "stale", "failed"} /\ phase[q] = "blocked" /\ terminal' = terminal
    BY <1>3, <1>8 DEF Pause, PauseRefused
  <2>2. terminal[h].by # q
    BY <1>1, <1>2, <2>1 DEF Terminals
  <2> QED BY <2>1, <2>2
<1> QED BY <1>4, <1>5, <1>6, <1>7, <1>8 DEF RunStep

(* A run that is under way is ended by its own step alone. *)
LEMMA RunsEndThemselves ==
    ASSUME DecisionIInv, [DecisionNext]_decisionVars, NEW r \in Run, Active(r), ~Active(r)'
    PROVE  RunStep(r)
<1>1. phase \in [Run -> Phases] /\ phase[r] # "new" /\ phase'[r] # phase[r]
    BY DEF DecisionIInv, DecisionTypes, Active
<1>2. ASSUME NEW q \in Run, RunStep(q) PROVE RunStep(r)
  <2>1. \E how : phase' = [phase EXCEPT ![q] = how]
    BY <1>2 DEF RunStep, Enter, RestartTerminal, RestartFails, Complete, Fail, Block, Pause,
                PauseRefused, Ends
  <2>2. q = r
    BY <1>1, <2>1
  <2> QED BY <1>2, <2>2
<1>3. ASSUME NEW q, phase[q] = "new", \E how : phase' = [phase EXCEPT ![q] = how]
      PROVE  FALSE
    BY <1>1, <1>3
<1>4. \A l \in Launch, s \in Session : ~BeginLaunch(l, s)
  <2>1. ASSUME NEW l \in Launch, NEW s \in Session, BeginLaunch(l, s)
        PROVE  phase[l] = "new" /\ \E how : phase' = [phase EXCEPT ![l] = how]
    BY <2>1 DEF BeginLaunch, FirstNew
  <2> QED BY <1>3, <2>1
<1>5. \A b \in Answer, id \in 1 .. issued : ~AnswerRefused(b, id)
  <2>1. ASSUME NEW b \in Answer, NEW id \in 1 .. issued, AnswerRefused(b, id)
        PROVE  phase[b] = "new" /\ \E how : phase' = [phase EXCEPT ![b] = how]
    BY <2>1 DEF AnswerRefused, FirstNew
  <2> QED BY <1>3, <2>1
<1>6. \A b \in Answer, id \in 1 .. issued, c \in Choice : ~AnswerTaken(b, id, c)
  <2>1. ASSUME NEW b \in Answer, NEW id \in 1 .. issued, NEW c \in Choice,
               AnswerTaken(b, id, c)
        PROVE  phase[b] = "new" /\ \E how : phase' = [phase EXCEPT ![b] = how]
    BY <2>1 DEF AnswerTaken, FirstNew
  <2> QED BY <1>3, <2>1
<1>7. phase' # phase
    BY <1>1
<1>8. /\ ~TimePasses /\ ~ExpiryTimer /\ ~InvalidateAll /\ ~UNCHANGED decisionVars
      /\ \A s \in Session : /\ ~OtherOperation(s) /\ ~OtherEnds(s) /\ ~InvalidateOperation(s)
                            /\ ~TerminalFails(s) /\ ~TerminalReplaced(s)
                            /\ ~ConfigurationChanges(s)
    BY <1>7 DEF TimePasses, ExpiryTimer, InvalidateAll, decisionVars, OtherOperation, OtherEnds,
                InvalidateOperation, TerminalFails, TerminalReplaced, ConfigurationChanges,
                Interferes
<1> QED BY <1>2, <1>4, <1>5, <1>6, <1>8 DEF DecisionNext

(* A run, whoever else replaced or stopped the terminal in the meantime,   *)
(* is told as completed exactly when it leaves a terminal of its own       *)
(* running.                                                                *)
THEOREM OutcomesTellTerminals == DecisionSpec => OutcomeTellsTerminal
<1>1. ASSUME DecisionIInv, [DecisionNext]_decisionVars, NEW r \in Run, Active(r), ~Active(r)'
      PROVE  (phase'[r] = "completed") <=> (terminal'[Home(r)] = [by |-> r, runs |-> TRUE])
    BY <1>1, RunsEndThemselves, OwnEndTellsTerminal
<1>2. DecisionIInv /\ [DecisionNext]_decisionVars =>
        [\A r \in Run : Active(r) /\ ~Active(r)' =>
           (phase'[r] = "completed") <=> (terminal'[Home(r)] = [by |-> r, runs |-> TRUE])
        ]_decisionVars
    BY <1>1
<1> QED BY <1>2, DecisionInductive, PTL DEF DecisionSpec, OutcomeTellsTerminal
==============================================================================
