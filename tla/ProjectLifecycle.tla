--------------------------- MODULE ProjectLifecycle ---------------------------
(***************************************************************************)
(* One project folder: opening it, closing it, forgetting it, resuming its *)
(* conversations and deleting them for good.  Each is a handler of several *)
(* steps that works on the folder's tabs, and two coordinators decide who  *)
(* yields:                                                                 *)
(*   coordination/project-directory-lifecycle.ts: a later command for the  *)
(*     folder supersedes a closure that has not taken effect;              *)
(*   claude/conversation-lifecycle.ts: a deletion supersedes the resumes   *)
(*     under way and keeps new ones out.                                   *)
(* What works in a tab goes through its queue of session operations, whose *)
(* head runs and whose last member, unless cancelled, is entitled to: see  *)
(* SessionOperation and SessionLock.                                       *)
(***************************************************************************)
EXTENDS Naturals, Sequences, FiniteSets

CONSTANTS Conversation,   \* transcripts of the folder
          Tab,            \* visible workspace sessions
          Deletion,       \* deletions that may run at the same time
          Closure,        \* closures ("close" or "forget") that may run at the same time
          Kinds,          \* kinds of launches
          None

Unnamed == "unnamed"

ASSUME LifecycleAssumption ==
    /\ Kinds \subseteq {"continue", "resume", "authorized-resume", "switch"}
    /\ None \notin Conversation \cup Tab \cup Deletion \cup Closure
    /\ Unnamed \notin Conversation \cup {None} /\ "launch" \notin Deletion

VARIABLES
    transcripts,   \* the JSONL files on disk
    stored,        \* WorkspaceStore has the folder
    tab,           \* workspace and runtime: open, and what Claude runs
    queue,         \* session operations of the tab, the running one first
    live,          \* its newest operation is not cancelled
    launch,        \* the launch that runs in the tab
    deletion, closure,
    closeIntent,   \* ProjectDirectoryLifecycleState.closeIntent
    lastWord       \* history: what the user asked of the folder last

vars == <<transcripts, stored, tab, queue, live, launch, deletion, closure,
          closeIntent, lastWord>>

folderVars == <<stored, closeIntent, lastWord>>

NoLaunch == [kind |-> None, c |-> None, pc |-> "idle", intent |-> FALSE, superseded |-> FALSE]
NoDeletion == [c |-> None, waits |-> {}]
NoClosure == [kind |-> None, tabs |-> {}, awaits |-> {}, pc |-> "idle", superseded |-> FALSE]

Deleting == {deletion[d].c : d \in Deletion} \ {None}

(* "resumed": by a resume that registered when it was requested.           *)
TabRecord == [open : BOOLEAN, runs : Conversation \cup {None, Unnamed}, resumed : BOOLEAN]
LaunchRecord == [kind : Kinds \cup {None}, c : Conversation \cup {None},
                 pc : {"idle", "authorizing", "preparing", "confirming"},
                 intent : BOOLEAN, superseded : BOOLEAN]
DeletionRecord == [c : Conversation \cup {None}, waits : SUBSET Tab]
ClosureRecord == [kind : {"close", "forget", None}, tabs : SUBSET Tab,
                  awaits : SUBSET (Tab \X (Deletion \cup {"launch"})),
                  pc : {"idle", "waiting", "terminating"}, superseded : BOOLEAN]

TypeOK ==
    /\ transcripts \subseteq Conversation
    /\ stored \in BOOLEAN
    /\ tab \in [Tab -> TabRecord]
    /\ queue \in [Tab -> Seq(Deletion \cup {"launch"})]
    /\ live \in [Tab -> BOOLEAN]
    /\ launch \in [Tab -> LaunchRecord]
    /\ deletion \in [Deletion -> DeletionRecord]
    /\ closure \in [Closure -> ClosureRecord]
    /\ \A t \in Tab : launch[t].pc # "idle" <=> (queue[t] # <<>> /\ Head(queue[t]) = "launch")
    /\ \A d \in Deletion : \A e \in Deletion \ {d} :
          deletion[d].c # None => deletion[e].c # deletion[d].c
    /\ closeIntent \in Closure \cup {None}

Init ==
    /\ transcripts = Conversation
    /\ stored = TRUE
    /\ tab = [t \in Tab |-> [open |-> TRUE, runs |-> None, resumed |-> FALSE]]
    /\ queue = [t \in Tab |-> <<>>]
    /\ live = [t \in Tab |-> FALSE]
    /\ launch = [t \in Tab |-> NoLaunch]
    /\ deletion = [d \in Deletion |-> NoDeletion]
    /\ closure = [k \in Closure |-> NoClosure]
    /\ closeIntent = None
    /\ lastWord = None

-----------------------------------------------------------------------------
(* Session operations. *)

Current(t, x) == queue[t] # <<>> /\ queue[t][Len(queue[t])] = x /\ live[t]

LeaveUntold(t, x) ==   \* faulty: whoever waits for the operation is not told
    /\ queue' = [queue EXCEPT ![t] = Tail(@)]
    /\ live' = [live EXCEPT ![t] = @ /\ Len(queue[t]) > 1]
    /\ closure' = closure
(* The operation at the head has unwound: the next one takes over, and the *)
(* closures that wait for it go on.                                        *)
Leave(t, x) ==
    /\ queue' = [queue EXCEPT ![t] = Tail(@)]
    /\ live' = [live EXCEPT ![t] = @ /\ Len(queue[t]) > 1]
    /\ closure' = [k \in Closure |-> [closure[k] EXCEPT !.awaits = @ \ {<<t, x>>}]]

Gone == [open |-> FALSE, runs |-> None, resumed |-> FALSE]

CloseAll(T) == tab' = [t \in Tab |-> IF t \in T THEN Gone ELSE tab[t]]

-----------------------------------------------------------------------------
(* Launches that name a transcript, or leave the choice to Claude.         *)

(* assertLaunchAllowed: c is not being deleted; nothing is, if Claude may  *)
(* choose.                                                                 *)
Allowed(c) == IF c = None THEN Deleting = {} ELSE c \notin Deleting

(* "continue" leaves the choice to Claude.  A "resume" names a transcript; *)
(* if it asks for network access it does so before runResume ("authorized  *)
(* resume").  "switch", native to terminal, does without runResume: the    *)
(* guard of the runtime, asked while it is prepared, is all it has.        *)
RequestLaunch(t, kind, c) ==
    /\ tab[t].open /\ queue[t] = <<>>
    /\ IF kind = "continue" THEN c = None ELSE c \in transcripts
    /\ kind # "authorized-resume" => Allowed(c)
    /\ launch' = [launch EXCEPT ![t] =
           [kind |-> kind, c |-> c, superseded |-> FALSE,
            pc |-> IF kind = "authorized-resume" THEN "authorizing" ELSE "preparing",
            intent |-> kind \in {"continue", "resume"}]]
    /\ queue' = [queue EXCEPT ![t] = <<"launch">>]
    /\ live' = [live EXCEPT ![t] = TRUE]
    /\ UNCHANGED <<transcripts, tab, deletion, closure, folderVars>>

(* reserveResume, after the network was authorized. *)
RegisterResume(t) ==
    /\ launch[t].pc = "authorizing"
    /\ Current(t, "launch") /\ Allowed(launch[t].c)
    /\ launch' = [launch EXCEPT ![t].pc = "preparing", ![t].intent = TRUE]
    /\ UNCHANGED <<transcripts, tab, queue, live, deletion, closure, folderVars>>

(* The PTY is replaced by one that runs Claude. *)
Launch(t) ==
    /\ launch[t].pc = "preparing"
    /\ Current(t, "launch") /\ ~launch[t].superseded
    /\ tab' = [tab EXCEPT ![t].resumed = (launch[t].kind = "resume"),
                          ![t].runs = IF launch[t].c = None THEN Unnamed ELSE launch[t].c]
    /\ launch' = [launch EXCEPT ![t].pc = "confirming"]
    /\ UNCHANGED <<transcripts, queue, live, deletion, closure, folderVars>>

ConfirmLaunch(t) ==
    /\ launch[t].pc = "confirming"
    /\ Current(t, "launch") /\ ~launch[t].superseded
    /\ launch' = [launch EXCEPT ![t] = NoLaunch]
    /\ Leave(t, "launch")
    /\ UNCHANGED <<transcripts, tab, deletion, folderVars>>

(* It failed or was cancelled: what it launched is stopped. *)
LaunchFails(t) ==
    /\ launch[t].pc # "idle"
    /\ tab' = IF launch[t].pc = "confirming"
              THEN [tab EXCEPT ![t].runs = None, ![t].resumed = FALSE] ELSE tab
    /\ launch' = [launch EXCEPT ![t] = NoLaunch]
    /\ Leave(t, "launch")
    /\ UNCHANGED <<transcripts, deletion, folderVars>>

(* Claude has chosen, and reports it. *)
ClaudeChooses(t, c) ==
    /\ tab[t].runs = Unnamed /\ c \in transcripts
    /\ tab' = [tab EXCEPT ![t].runs = c]
    /\ UNCHANGED <<transcripts, queue, live, launch, deletion, closure, folderVars>>

ClaudeExits(t) ==
    /\ tab[t].runs # None
    /\ tab' = [tab EXCEPT ![t].runs = None, ![t].resumed = FALSE]
    /\ UNCHANGED <<transcripts, queue, live, launch, deletion, closure, folderVars>>

-----------------------------------------------------------------------------
(* Deleting a conversation for good (runOwnedClaudeConversationDeletion).  *)

MatchesUnnamed(t, c) == launch[t].intent /\ launch[t].c = None   \* faulty: names never match
Matches(t, c) == launch[t].intent /\ launch[t].c \in {c, None}
Owns(t, c) == tab[t].open /\ tab[t].runs = c

Supersede(c) ==
    [t \in Tab |-> IF Matches(t, c) THEN [launch[t] EXCEPT !.superseded = TRUE] ELSE launch[t]]

(* The deletion is reserved, matching resumes are cancelled, and each tab  *)
(* concerned is asked for: runLatest replaces the operation there.         *)
RequestDeletion(d, c) ==
    LET T == {t \in Tab : tab[t].open /\ (Matches(t, c) \/ Owns(t, c))} IN
    /\ deletion[d] = NoDeletion
    /\ \A t \in Tab : \A i \in 1..Len(queue[t]) : queue[t][i] # d
    /\ c \in transcripts /\ c \notin Deleting
    /\ deletion' = [deletion EXCEPT ![d] = [c |-> c, waits |-> T]]
    /\ launch' = Supersede(c)
    /\ queue' = [t \in Tab |-> IF t \in T THEN Append(queue[t], d) ELSE queue[t]]
    /\ live' = [t \in Tab |-> t \in T \/ live[t]]
    /\ UNCHANGED <<transcripts, tab, closure, folderVars>>

DeletionHasTabUnchecked(d, t) ==   \* faulty: what the tab runs now is not asked
    /\ queue[t] # <<>> /\ Head(queue[t]) = d
    /\ t \in deletion[d].waits /\ Current(t, d)
    /\ deletion' = [deletion EXCEPT ![d].waits = @ \ {t}]
    /\ queue' = [queue EXCEPT ![t] = Tail(@)]
    /\ closure' = [k \in Closure |-> [closure[k] EXCEPT !.awaits = @ \ {<<t, d>>}]]
    /\ CloseAll({t})
    /\ live' = [live EXCEPT ![t] = FALSE]
    /\ UNCHANGED <<transcripts, launch, folderVars>>
(* Its turn in a tab, which it closes if the conversation still runs there.*)
DeletionHasTab(d, t) ==
    /\ queue[t] # <<>> /\ Head(queue[t]) = d
    /\ t \in deletion[d].waits /\ Current(t, d)
    /\ deletion' = [deletion EXCEPT ![d].waits = @ \ {t}]
    /\ Leave(t, d)
    /\ CloseAll(IF Owns(t, deletion[d].c) THEN {t} ELSE {})
    /\ UNCHANGED <<transcripts, launch, folderVars>>

(* It was replaced or cancelled there: that fails the deletion, unless the *)
(* tab is gone.  A deletion that has failed does nothing with its turn.    *)
DeletionLostTab(d, t) ==
    /\ queue[t] # <<>> /\ Head(queue[t]) = d
    /\ t \notin deletion[d].waits \/ ~Current(t, d)
    /\ Leave(t, d)
    /\ deletion' = IF t \notin deletion[d].waits THEN deletion
                   ELSE IF tab[t].open THEN [deletion EXCEPT ![d] = NoDeletion]
                   ELSE [deletion EXCEPT ![d].waits = @ \ {t}]
    /\ UNCHANGED <<transcripts, tab, launch, folderVars>>

(* Every tab was asked: the file goes, or cannot be removed. *)
DeleteTranscript(d) ==
    /\ deletion[d].c # None /\ deletion[d].waits = {}
    /\ transcripts' \in {transcripts, transcripts \ {deletion[d].c}}
    /\ deletion' = [deletion EXCEPT ![d] = NoDeletion]
    /\ UNCHANGED <<tab, queue, live, launch, closure, folderVars>>

-----------------------------------------------------------------------------
(* The folder. *)

SupersededBy(k) == [j \in Closure |-> IF j = k THEN [closure[j] EXCEPT !.superseded = TRUE] ELSE closure[j]]

OpenBesideClosure(t) ==   \* faulty: the pending closure goes on
    /\ ~tab[t].open => queue[t] = <<>>
    /\ tab' = [tab EXCEPT ![t].open = TRUE]
    /\ stored' = TRUE
    /\ lastWord' = None
    /\ UNCHANGED <<transcripts, queue, live, launch, deletion, closure, closeIntent>>
(* runOpenSync: the folder is opened in a new tab or in one it has, and a  *)
(* pending closure is superseded.                                          *)
OpenFolder(t) ==
    /\ ~tab[t].open => queue[t] = <<>>
    /\ tab' = [tab EXCEPT ![t].open = TRUE]
    /\ closure' = SupersededBy(closeIntent)
    /\ closeIntent' = None
    /\ stored' = TRUE
    /\ lastWord' = None
    /\ UNCHANGED <<transcripts, queue, live, launch, deletion>>

(* reserveClosure, the sessions captured, their operations cancelled. *)
RequestClosure(k, kind) ==
    LET T == {t \in Tab : tab[t].open} IN
    /\ closure[k] = NoClosure
    /\ closure' = [SupersededBy(closeIntent) EXCEPT ![k] =
           [kind |-> kind, tabs |-> T, pc |-> "waiting", superseded |-> FALSE,
            awaits |-> UNION {{<<t, queue[t][i]>> : i \in 1..Len(queue[t])} : t \in T}]]
    /\ closeIntent' = k
    /\ live' = [t \in Tab |-> t \notin T /\ live[t]]
    /\ lastWord' = k
    /\ UNCHANGED <<transcripts, stored, tab, queue, launch, deletion>>

OwnsUnfinished(k) == closure[k].pc # "idle"   \* faulty: superseding is not asked
OwnsClosure(k) == ~closure[k].superseded /\ closeIntent = k

(* The captured operations have unwound; the processes are terminated. *)
ClosureWaited(k) ==
    /\ closure[k].pc = "waiting" /\ closure[k].awaits = {}
    /\ OwnsClosure(k)
    /\ closure' = [closure EXCEPT ![k].pc = "terminating"]
    /\ UNCHANGED <<transcripts, tab, queue, live, launch, deletion, folderVars>>

(* The captured tabs are closed, and the folder forgotten, in one go. *)
ClosureTakesEffect(k) ==
    /\ closure[k].pc = "terminating"
    /\ OwnsClosure(k)
    /\ CloseAll(closure[k].tabs)
    /\ live' = [t \in Tab |-> t \notin closure[k].tabs /\ live[t]]
    /\ stored' = IF closure[k].kind = "forget" THEN FALSE ELSE stored
    /\ closeIntent' = None
    /\ closure' = [closure EXCEPT ![k] = NoClosure]
    /\ UNCHANGED <<transcripts, queue, launch, deletion, lastWord>>

(* It was superseded, or its processes could not be terminated. *)
ClosureFails(k) ==
    /\ \/ closure[k].pc = "waiting" /\ closure[k].awaits = {} /\ ~OwnsClosure(k)
       \/ closure[k].pc = "terminating"
    /\ closeIntent' = IF closeIntent = k THEN None ELSE closeIntent
    /\ closure' = [closure EXCEPT ![k] = NoClosure]
    /\ UNCHANGED <<transcripts, stored, tab, queue, live, launch, deletion, lastWord>>

(* PROJECT_CLOSE removes a single tab, whatever has begun there since its  *)
(* operations were cancelled and had unwound; that part is in              *)
(* DevelopmentSession, and is here no more than RequestClosure does.       *)
CloseTab(t) ==
    /\ tab[t].open
    /\ CloseAll({t})
    /\ live' = [live EXCEPT ![t] = FALSE]
    /\ UNCHANGED <<transcripts, queue, launch, deletion, closure, folderVars>>

-----------------------------------------------------------------------------
LaunchGoesOn(t) == RegisterResume(t) \/ Launch(t) \/ ConfirmLaunch(t) \/ LaunchFails(t)
DeletionGoesOn(d) == \/ \E t \in Tab : DeletionHasTab(d, t) \/ DeletionLostTab(d, t)
                     \/ DeleteTranscript(d)
ClosureGoesOn(k) == ClosureWaited(k) \/ ClosureTakesEffect(k) \/ ClosureFails(k)

Next ==
    \/ \E t \in Tab, kind \in Kinds, c \in Conversation \cup {None} : RequestLaunch(t, kind, c)
    \/ \E t \in Tab : LaunchGoesOn(t) \/ ClaudeExits(t) \/ OpenFolder(t) \/ CloseTab(t)
    \/ \E t \in Tab, c \in Conversation : ClaudeChooses(t, c)
    \/ \E d \in Deletion, c \in Conversation : RequestDeletion(d, c)
    \/ \E d \in Deletion : DeletionGoesOn(d)
    \/ \E k \in Closure, kind \in {"close", "forget"} : RequestClosure(k, kind)
    \/ \E k \in Closure : ClosureGoesOn(k)

(* Every await of a handler has an outcome. *)
Fairness ==
    /\ \A t \in Tab : WF_vars(LaunchGoesOn(t))
    /\ \A d \in Deletion : WF_vars(DeletionGoesOn(d))
    /\ \A k \in Closure : WF_vars(ClosureGoesOn(k))

Spec == Init /\ [][Next]_vars /\ Fairness

-----------------------------------------------------------------------------
(* "Deletion ... cancels older matching resumes, and blocks": a transcript *)
(* that was deleted is not run by a resume that registered with the        *)
(* coordinator when it was requested.  The other kinds that name one have  *)
(* no such promise: a deletion neither cancels them nor waits for them.    *)
DeletedIsNotResumed ==
    \A t \in Tab : tab[t].resumed => tab[t].runs \in transcripts

(* Deletions and the work in other tabs respect each other.  A deletion    *)
(* closes a tab only if the conversation runs in it then, and never under  *)
(* an operation that still works there; and while something is deleted,    *)
(* Claude is not started to choose a transcript by itself: such a launch is*)
(* refused, or stops what it started.                                      *)
DeletionSparesOthers ==
    [][/\ \A d \in Deletion : \A t \in deletion[d].waits :
            (t \notin deletion'[d].waits /\ tab[t].open /\ ~tab'[t].open)
            => tab[t].runs = deletion[d].c /\ launch[t] = NoLaunch
       /\ \A t \in Tab :
            (/\ launch[t].kind = "continue" /\ launch[t].pc = "confirming"
             /\ launch'[t].pc = "idle" /\ tab'[t].runs # None)
            => Deleting = {}]_vars

(* Whatever is cancelled when: nothing is started in a tab that is closed, *)
(* and a folder that has tabs is in the list of projects.                  *)
TabsAreAccountedFor ==
    /\ \A t \in Tab : ~tab[t].open => tab[t].runs = None
    /\ (\E t \in Tab : tab[t].open) => stored

(* A closure that takes effect is what the user asked of the folder last:  *)
(* it closes no tab and forgets no folder that was opened again since.     *)
LastWordCounts ==
    [][\A k \in Closure :
          (closure[k].pc = "terminating" /\ closure'[k].pc = "idle" /\ tab' # tab)
          => lastWord = k]_vars

(* Deletions and closures wait for operations, and for each other's turns; *)
(* they always end.                                                        *)
CommandsEnd ==
    /\ \A d \in Deletion : deletion[d].c # None ~> deletion[d].c = None
    /\ \A k \in Closure : closure[k].pc # "idle" ~> closure[k].pc = "idle"
=============================================================================
