--------------------------- MODULE ControlledQuit ---------------------------
(***************************************************************************)
(* Leaving the application: the quit controller of app/lifecycle.ts, the   *)
(* two channels the renderer answers it on (ipc/app.ts, preload/bridges/   *)
(* app.ts, renderer/shell/dialogs-quit.ts), and what the window does to it *)
(* (app/window.ts).                                                        *)
(*                                                                         *)
(* A request to quit is put to the user in a dialog of the renderer, which *)
(* has three seconds to acknowledge it.  Then conversations and processes  *)
(* are cleaned up within a budget, and if some resist the user is asked a  *)
(* second time, by the renderer or, when it cannot, by the system.  The    *)
(* renderer may be slow, hang, crash or be reloaded, and its answers       *)
(* travel while the main process goes on; a prompt is known by its id.     *)
(***************************************************************************)
EXTENDS Naturals, Sequences

CONSTANTS MaxRequests,  \* bound: requests to quit
          MaxPrompts,   \* bound: prompts shown, of either kind
          MaxEvents,    \* bound: crashes, hangs, reloads, ends of the session
          NoPrompt

VARIABLES
  isQuitting,    \* the latch that lets the application go
  cleanup,       \* "idle"; "running" is quitCleanupInProgress; "late": the
                 \*   budget is spent and the cleanup goes on detached
  forced,        \* forceWithResidualProcesses of the latest cleanup
  residual,      \* whether the latest cleanup that ended left something
  confirmation,  \* quitConfirmation: the one open prompt
  timer,         \* whether quitConfirmationTimer is set
  issued,        \* the number of prompts issued
  dialogs,       \* ids of the system dialogs on the screen
  retry,         \* whether a setImmediate(requestQuit) is pending
  leaving,       \* how far the process is: "no", "asked", "torn", "gone"
  renderer,      \* "up", "hung", "loading", "gone"
  shown,         \* the prompt the renderer's dialog shows
  toRenderer,    \* messages to the renderer
  toMain,        \* messages from the renderer
  requests, events,
  will,          \* history: what the user last had the chance to say
  owed           \* history: a request to quit is not answered yet

mainVars == <<isQuitting, cleanup, forced, residual, confirmation, timer,
              issued, dialogs, retry, leaving>>
screenVars == <<renderer, shown, toRenderer, toMain>>
quitVars == <<mainVars, screenVars, requests, events, will, owed>>

Prompt == 1..MaxPrompts
Confirmation == [id : Prompt, mode : {"ordinary", "residual"},
                 owner : {"renderer", "native"}]

ASSUME QuitAssumption ==
  /\ MaxRequests \in Nat /\ MaxPrompts \in Nat /\ MaxEvents \in Nat
  /\ NoPrompt \notin Confirmation \cup [id : Prompt, mode : {"ordinary", "residual"}]

IsOpen(id, owner) == /\ confirmation # NoPrompt
                     /\ confirmation.id = id /\ confirmation.owner = owner

(* webContents can take messages: neither destroyed nor crashed nor        *)
(* loading.  A hung renderer cannot be told from one that is busy.         *)
CanAsk == renderer \in {"up", "hung"}

Busy == isQuitting \/ cleanup = "running"

QuitInit ==
  /\ isQuitting = FALSE /\ cleanup = "idle" /\ forced = FALSE
  /\ residual = FALSE /\ confirmation = NoPrompt /\ timer = FALSE /\ issued = 0
  /\ dialogs = {} /\ retry = FALSE /\ leaving = "no"
  /\ renderer = "up" /\ shown = NoPrompt /\ toRenderer = <<>> /\ toMain = <<>>
  /\ requests = 0 /\ events = 0 /\ will = "none" /\ owed = FALSE

----------------------------------------------------------------------------
(* Steps the handlers are made of.  The prompt that is open, and what is   *)
(* on its way to the renderer, are changed together.                       *)

\* Faulty: the prompt is forgotten and the renderer is not told.
SilentWithdrawal == <<>>

(* The messages that withdraw the open prompt, if there is one to withdraw.*)
Withdrawal ==
  IF confirmation # NoPrompt /\ confirmation.owner = "renderer"
     /\ renderer # "gone"
  THEN <<[kind |-> "invalidated", id |-> confirmation.id]>>
  ELSE <<>>

(* invalidateQuitConfirmation *)
Invalidate ==
  /\ confirmation' = NoPrompt /\ timer' = FALSE
  /\ toRenderer' = toRenderer \o Withdrawal
  /\ UNCHANGED <<issued, dialogs>>

(* A prompt of the renderer, with the timer that covers its delivery.      *)
AskRenderer(mode) ==
  /\ issued < MaxPrompts /\ issued' = issued + 1
  /\ confirmation' = [id |-> issued + 1, mode |-> mode, owner |-> "renderer"]
  /\ timer' = TRUE
  /\ toRenderer' = Append(toRenderer, [kind |-> "requested", id |-> issued + 1,
                                       mode |-> mode])
  /\ UNCHANGED dialogs

(* showNativeFallback: whatever prompt is open gives way to the system's.  *)
AskNative ==
  /\ issued < MaxPrompts /\ issued' = issued + 1
  /\ confirmation' = [id |-> issued + 1, mode |-> "residual", owner |-> "native"]
  /\ timer' = FALSE
  /\ toRenderer' = toRenderer \o Withdrawal
  /\ dialogs' = dialogs \cup {issued + 1}

(* sendQuitCleanupConfirmation *)
AskResidual == IF CanAsk THEN AskRenderer("residual") ELSE AskNative

(* beginControlledQuit up to its race, once a prompt is settled.  A quit   *)
(* under way makes the call an empty one.                                  *)
Begin(force) ==
  IF Busy THEN UNCHANGED <<cleanup, forced>>
  ELSE cleanup' = "running" /\ forced' = force

(* finishControlledQuit *)
Finish ==
  IF isQuitting THEN UNCHANGED <<isQuitting, leaving>>
  ELSE isQuitting' = TRUE /\ leaving' = "asked"

(* requestQuit: asks, or, when the renderer cannot be asked or already is, *)
(* goes on to the cleanup.  An exception on the way takes the second path. *)
RequestQuit ==
  \/ /\ Busy
     /\ UNCHANGED <<cleanup, forced, confirmation, timer, toRenderer, issued,
                    dialogs>>
  \/ /\ ~Busy /\ CanAsk /\ confirmation = NoPrompt
     /\ AskRenderer("ordinary")
     /\ UNCHANGED <<cleanup, forced>>
  \/ /\ ~Busy /\ (CanAsk => confirmation # NoPrompt)
     /\ Invalidate
     /\ Begin(FALSE)

----------------------------------------------------------------------------
(* The main process.                                                       *)

Alive == leaving # "gone"

(* The window is closed, the tray or the menu is used, the session asks:   *)
(* close and before-quit end in requestQuit.                               *)
Request ==
  /\ Alive /\ requests < MaxRequests /\ requests' = requests + 1
  /\ RequestQuit
  /\ owed' = TRUE
  /\ will' = IF Busy THEN will ELSE "quit"
  /\ UNCHANGED <<isQuitting, residual, retry, leaving, renderer, shown, toMain,
                 events>>

(* The quit a crash of the renderer asks for again.                        *)
Retry ==
  /\ Alive /\ retry /\ retry' = FALSE
  /\ RequestQuit
  /\ UNCHANGED <<isQuitting, residual, leaving, renderer, shown, toMain,
                 requests, events, will, owed>>

(* Nobody acknowledged the prompt within QUIT_CONFIRMATION_DELIVERY_TIMEOUT*)
DeliveryTimesOut ==
  /\ Alive /\ timer
  /\ \/ /\ confirmation.mode = "ordinary"
        /\ Invalidate
        /\ Begin(FALSE)
     \/ /\ confirmation.mode = "residual"
        /\ AskNative
        /\ UNCHANGED <<cleanup, forced>>
  /\ UNCHANGED <<isQuitting, residual, retry, leaving, renderer, shown, toMain,
                 requests, events, will, owed>>

(* The cleanup ends within the budget.  What it could not end is shown to  *)
(* the user, unless the user has already accepted it, or the application   *)
(* is leaving all the same.                                                *)
CleanupEnds ==
  /\ Alive /\ cleanup = "running" /\ cleanup' = "idle"
  /\ residual' \in BOOLEAN
  /\ \/ /\ residual' /\ ~forced /\ ~isQuitting
        /\ AskResidual
        /\ UNCHANGED <<isQuitting, leaving>>
     \/ /\ residual' => forced \/ isQuitting
        /\ Finish
        /\ UNCHANGED <<confirmation, timer, toRenderer, issued, dialogs>>
  /\ UNCHANGED <<forced, retry, renderer, shown, toMain, requests, events, will,
                 owed>>

(* QUIT_CLEANUP_BUDGET_MS is spent: the quit goes on without the cleanup.  *)
BudgetSpent ==
  /\ Alive /\ cleanup = "running" /\ cleanup' = "late"
  /\ Finish
  /\ UNCHANGED <<forced, residual, confirmation, timer, toRenderer, issued,
                 dialogs, retry, renderer, shown, toMain, requests, events, will,
                 owed>>

(* The cleanup that outlived its budget ends.  It would ask as any other,  *)
(* but for isQuitting.                                                     *)
LateCleanupEnds ==
  /\ Alive /\ cleanup = "late" /\ cleanup' = "idle"
  /\ residual' \in BOOLEAN
  /\ IF residual' /\ ~forced /\ ~isQuitting THEN AskResidual
     ELSE UNCHANGED <<confirmation, timer, toRenderer, issued, dialogs>>
  /\ UNCHANGED <<isQuitting, forced, retry, leaving, renderer, shown, toMain,
                 requests, events, will, owed>>

(* A system dialog is answered: cleanup once more, or leave regardless.    *)
AnswerNative ==
  \E id \in dialogs, force \in BOOLEAN :
    /\ Alive /\ dialogs' = dialogs \ {id}
    /\ \/ /\ ~isQuitting /\ IsOpen(id, "native")
          /\ confirmation' = NoPrompt
          /\ Begin(force)
          /\ will' = IF force THEN "force" ELSE "quit"
       \/ /\ isQuitting \/ ~IsOpen(id, "native")
          /\ UNCHANGED <<confirmation, cleanup, forced, will>>
    /\ UNCHANGED <<isQuitting, residual, timer, issued, retry, leaving,
                   screenVars, requests, events, owed>>

(* The system cannot show its dialog.  The prompt is forgotten, and with   *)
(* it the request: the application stays.                                  *)
NativeFails ==
  \E id \in dialogs :
    /\ Alive /\ events < MaxEvents /\ events' = events + 1
    /\ dialogs' = dialogs \ {id}
    /\ confirmation' = IF IsOpen(id, "native") THEN NoPrompt ELSE confirmation
    /\ owed' = (owed /\ ~IsOpen(id, "native"))
    /\ UNCHANGED <<isQuitting, cleanup, forced, residual, timer, issued, retry,
                   leaving, screenVars, requests, will>>

(* before-quit with the latch set: the last contributions and the watchdog,*)
(* which ends the process if nothing else does.                            *)
BeforeQuit ==
  /\ leaving = "asked" /\ isQuitting /\ leaving' = "torn"
  /\ UNCHANGED <<isQuitting, cleanup, forced, residual, confirmation, timer,
                 issued, dialogs, retry, screenVars, requests, events, will, owed>>

Exit ==
  /\ leaving = "torn" /\ leaving' = "gone"
  /\ owed' = FALSE
  /\ UNCHANGED <<isQuitting, cleanup, forced, residual, confirmation, timer,
                 issued, dialogs, retry, screenVars, requests, events, will>>

----------------------------------------------------------------------------
(* The renderer's messages, in the order they were sent.                   *)

(* APP_QUIT_REQUEST_RECEIVED *)
TakeAcknowledgement(m) ==
  /\ m.kind = "received"
  /\ timer' = (timer /\ ~IsOpen(m.id, "renderer"))
  /\ UNCHANGED <<confirmation, cleanup, forced, owed>>

\* Faulty: the answer's id is not compared with the open prompt's.
AdmissibleForAny(m) ==
  /\ confirmation # NoPrompt /\ confirmation.owner = "renderer"
  /\ confirmation.mode = "ordinary" => m.decision # "retry"
  /\ confirmation.mode = "residual" => m.decision \in {"quit", "retry"}

(* An answer counts for the prompt it was given to, and only if that kind  *)
(* of prompt offers it.                                                    *)
Admissible(m) ==
  /\ IsOpen(m.id, "renderer")
  /\ confirmation.mode = "ordinary" => m.decision # "retry"
  /\ confirmation.mode = "residual" => m.decision \in {"quit", "retry"}

(* APP_CONFIRM_QUIT.  "cancel" stands for minimising to the tray too.      *)
TakeAnswer(m) ==
  /\ m.kind = "confirm"
  /\ \/ /\ Admissible(m)
        /\ confirmation' = NoPrompt /\ timer' = FALSE
        /\ \/ /\ m.decision = "cancel"
              /\ owed' = FALSE
              /\ UNCHANGED <<cleanup, forced>>
           \/ /\ m.decision # "cancel"
              /\ Begin(m.decision = "quit" /\ confirmation.mode = "residual")
              /\ UNCHANGED owed
     \/ /\ ~Admissible(m)
        /\ UNCHANGED <<confirmation, timer, cleanup, forced, owed>>

MainReceives ==
  /\ Alive /\ toMain # <<>> /\ toMain' = Tail(toMain)
  /\ TakeAcknowledgement(Head(toMain)) \/ TakeAnswer(Head(toMain))
  /\ UNCHANGED <<isQuitting, residual, issued, dialogs, retry, leaving, renderer,
                 shown, toRenderer, requests, events, will>>

----------------------------------------------------------------------------
(* The renderer and its user.                                              *)

(* renderQuitConfirmation shows the prompt over any other, and the preload *)
(* acknowledges it; an invalidated prompt is taken off the screen.         *)
RendererReceives ==
  /\ Alive /\ renderer = "up" /\ toRenderer # <<>>
  /\ toRenderer' = Tail(toRenderer)
  /\ LET m == Head(toRenderer) IN
     \/ /\ m.kind = "requested"
        /\ shown' = [id |-> m.id, mode |-> m.mode]
        /\ toMain' = Append(toMain, [kind |-> "received", id |-> m.id])
     \/ /\ m.kind = "invalidated"
        /\ shown' = IF shown # NoPrompt /\ shown.id = m.id THEN NoPrompt ELSE shown
        /\ UNCHANGED toMain
  /\ UNCHANGED <<mainVars, renderer, requests, events, will, owed>>

(* The answers each dialog has a button for.                               *)
Offered(mode) ==
  IF mode = "residual" THEN {"quit", "retry"} ELSE {"quit", "cancel"}

(* What an answer tells of the user's will: nothing if the prompt has been *)
(* withdrawn meanwhile.  A refusal counts once the main process knows the  *)
(* prompt was delivered: until then it may take the silence for an answer. *)
WillAfter(decision) ==
  IF ~IsOpen(shown.id, "renderer") THEN will
  ELSE CASE decision = "cancel" -> IF timer THEN will ELSE "declined"
         [] decision = "quit" /\ shown.mode = "residual" -> "force"
         [] OTHER -> "quit"

Decide ==
  /\ Alive /\ renderer = "up" /\ shown # NoPrompt
  /\ \E decision \in Offered(shown.mode) :
       /\ toMain' = Append(toMain, [kind |-> "confirm", id |-> shown.id,
                                    decision |-> decision])
       /\ will' = WillAfter(decision)
  /\ shown' = NoPrompt
  /\ UNCHANGED <<mainVars, renderer, toRenderer, requests, events, owed>>

(* Messages the renderer sent before its end may still arrive, or not.     *)
LosesMessages == /\ toRenderer' = <<>> /\ shown' = NoPrompt
                 /\ toMain' \in {toMain, <<>>}

Event == Alive /\ events < MaxEvents /\ events' = events + 1

\* Faulty: the prompt that went with the renderer is only forgotten.
RenderProcessGoneForgets ==
  /\ Event /\ renderer # "gone" /\ renderer' = "gone"
  /\ LosesMessages
  /\ IF confirmation # NoPrompt /\ confirmation.owner = "renderer"
     THEN confirmation' = NoPrompt /\ timer' = FALSE /\ will' = "quit"
     ELSE UNCHANGED <<confirmation, timer, will>>
  /\ UNCHANGED <<isQuitting, cleanup, forced, residual, issued, dialogs, retry,
                 leaving, requests, owed>>

(* render-process-gone: a prompt that went with the renderer is asked for  *)
(* again as a new request.                                                 *)
RenderProcessGone ==
  /\ Event /\ renderer # "gone" /\ renderer' = "gone"
  /\ LosesMessages
  /\ IF confirmation # NoPrompt /\ confirmation.owner = "renderer"
     THEN confirmation' = NoPrompt /\ timer' = FALSE /\ retry' = TRUE /\ will' = "quit"
     ELSE UNCHANGED <<confirmation, timer, retry, will>>
  /\ UNCHANGED <<isQuitting, cleanup, forced, residual, issued, dialogs, leaving,
                 requests, owed>>

(* The user reloads the page.  The main process is not told: a prompt the  *)
(* renderer had received is gone from the screen until the next request,   *)
(* and the user has seen it go.  One still on its way is never received,   *)
(* which its timer covers.                                                 *)
Reload ==
  /\ Event /\ renderer' = "loading"
  /\ LosesMessages
  /\ owed' = (owed /\ ~ /\ confirmation # NoPrompt
                        /\ confirmation.owner = "renderer"
                        /\ \A i \in DOMAIN toRenderer :
                             toRenderer[i].id # confirmation.id)
  /\ UNCHANGED <<mainVars, requests, will>>

(* A load takes longer than an immediate.                                  *)
Loaded ==
  /\ Alive /\ renderer = "loading" /\ ~retry /\ renderer' = "up"
  /\ UNCHANGED <<mainVars, shown, toRenderer, toMain, requests, events, will,
                 owed>>

Hang ==
  /\ Event /\ renderer = "up" /\ renderer' = "hung"
  /\ UNCHANGED <<mainVars, shown, toRenderer, toMain, requests, will, owed>>

Wake ==
  /\ Alive /\ renderer = "hung" /\ renderer' = "up"
  /\ UNCHANGED <<mainVars, shown, toRenderer, toMain, requests, events, will,
                 owed>>

(* session-end: the system logs out and is not to be questioned.           *)
SessionEnds ==
  /\ Event /\ ~isQuitting
  /\ isQuitting' = TRUE /\ confirmation' = NoPrompt /\ timer' = FALSE
  /\ leaving' = "asked"
  /\ UNCHANGED <<cleanup, forced, residual, issued, dialogs, retry, screenVars,
                 requests, will, owed>>

----------------------------------------------------------------------------

QuitNext ==
  \/ Request \/ Retry \/ DeliveryTimesOut
  \/ CleanupEnds \/ BudgetSpent \/ LateCleanupEnds
  \/ AnswerNative \/ NativeFails
  \/ BeforeQuit \/ Exit
  \/ MainReceives \/ RendererReceives \/ Decide
  \/ RenderProcessGone \/ Reload \/ Loaded \/ Hang \/ Wake \/ SessionEnds

QuitSpec == QuitInit /\ [][QuitNext]_quitVars

(* Timers fire, messages of a renderer that runs arrive, a page loads, a   *)
(* cleanup ends or misses its budget, and the watchdog ends the process.   *)
(* Nothing makes the user answer, nor a hung renderer wake.                *)
FairQuitSpec ==
  /\ QuitSpec
  /\ WF_quitVars(Retry) /\ WF_quitVars(DeliveryTimesOut)
  /\ WF_quitVars(CleanupEnds \/ BudgetSpent)
  /\ WF_quitVars(BeforeQuit) /\ WF_quitVars(Exit)
  /\ WF_quitVars(MainReceives) /\ WF_quitVars(RendererReceives) /\ WF_quitVars(Loaded)

----------------------------------------------------------------------------

QuitTypeOK ==
  /\ isQuitting \in BOOLEAN /\ forced \in BOOLEAN /\ residual \in BOOLEAN
  /\ cleanup \in {"idle", "running", "late"}
  /\ confirmation \in Confirmation \cup {NoPrompt} /\ timer \in BOOLEAN
  /\ timer => confirmation # NoPrompt /\ confirmation.owner = "renderer"
  /\ issued \in 0..MaxPrompts /\ dialogs \subseteq Prompt
  /\ retry \in BOOLEAN /\ leaving \in {"no", "asked", "torn", "gone"}
  /\ renderer \in {"up", "hung", "loading", "gone"}
  /\ requests \in 0..MaxRequests /\ events \in 0..MaxEvents
  /\ will \in {"none", "quit", "declined", "force"} /\ owed \in BOOLEAN

(* A dialog on the screen can be answered: once nothing is on its way, the *)
(* prompt the renderer shows is the open one, and a quit that goes through *)
(* leaves no prompt open.  Superseding requests, timeouts, fallbacks and   *)
(* crashes all replace prompts, and the withdrawal must reach the dialog   *)
(* in the right order (invalidateQuitConfirmation, renderQuitConfirmation).*)
PromptsAgree ==
  /\ isQuitting => confirmation = NoPrompt
  /\ cleanup = "running" => confirmation = NoPrompt
  /\ ~isQuitting /\ shown # NoPrompt /\ toRenderer = <<>> /\ toMain = <<>>
       => IsOpen(shown.id, "renderer")

(* What the user said is what happens.  No cleanup begins after the user   *)
(* declined until a quit is asked for again; a forced cleanup, and leaving *)
(* behind what a finished cleanup could not end, take the user's explicit  *)
(* word on the second prompt - however late or to whichever prompt an      *)
(* answer arrives (APP_CONFIRM_QUIT, showNativeQuitCleanupConfirmation).   *)
UserDecides ==
  [][ /\ cleanup = "idle" /\ cleanup' = "running" =>
           will' # "declined" /\ (forced' => will' = "force")
      /\ leaving = "no" /\ leaving' = "asked" /\ cleanup = "running"
           /\ cleanup' = "idle" /\ residual' => will = "force" ]_quitVars

Visible ==
  confirmation # NoPrompt
    /\ CASE confirmation.owner = "renderer" ->
              shown # NoPrompt /\ shown.id = confirmation.id
         [] OTHER -> confirmation.id \in dialogs

(* A request to quit is never lost: time and again it is settled - the     *)
(* process is gone, the user declined - or a prompt stands on the screen,  *)
(* whether the renderer crashes, hangs or is slow, and whether the cleanup *)
(* ends (quitConfirmationTimer, render-process-gone, QUIT_CLEANUP_BUDGET_MS*)
(* and the watchdog).  Past MaxPrompts the model shows no further prompt.   *)
QuitResolves == []<>(~owed \/ Visible \/ issued = MaxPrompts)

=============================================================================
