------------------------- MODULE ConversationOwnership -------------------------
(***************************************************************************)
(* Who may write a transcript.  A Claude conversation can be continued by  *)
(* the native interface (an SDK process, conversation/service.ts and       *)
(* claude/agent-adapter.ts) or by Claude Code inside a terminal tab; both  *)
(* append to one JSONL file.  conversation/owner-registry.ts keeps the one *)
(* owner of each conversation, terminalConversationOwners (index.ts) what  *)
(* each tab holds, and the IPC handlers of ipc/conversation.ts and         *)
(* ipc/claude-launch.ts move a conversation between the two surfaces       *)
(* across several awaits.                                                  *)
(*                                                                         *)
(* A request is one running handler.  Its "pc" is the await it is at; what *)
(* it does between two awaits is one step.                                 *)
(***************************************************************************)
EXTENDS Naturals, FiniteSets

CONSTANTS Conversations,      \* canonical transcript UUIDs of one project
          Tabs,               \* workspace sessions, all of the Claude runtime
          Requests,           \* handlers that may run at the same time
          MaxPty,             \* bound: PTY generations of a tab
          MaxNative,          \* bound: native generations of a conversation
          Overlaps,           \* the overlapping requests the user may make
          None

ASSUME OwnershipAssumption ==
    /\ MaxPty \in Nat \ {0}
    /\ MaxNative \in Nat
    /\ Overlaps \subseteq {"switch-while-starting", "close-while-switching",
                          "close-tab-while-switching", "adopt-while-resuming",
                          "adopt-what-moved", "switch-twice",
                          "take-a-busy-tab"}
    /\ None \notin Conversations \cup Tabs \cup Requests

VARIABLES
    owner,      \* ConversationOwnerRegistry.owners
    active,     \* NativeConversationService.active: generation of the entry, or 0
    generation, \* NativeConversationService.generations
    switching,  \* entries whose "transfer" is set
    native,     \* ClaudeAgentAdapter.sessions: conversations with an SDK process
    tab,        \* the workspace: PTY generation, and the conversation Claude runs in it
    tabOwner,   \* terminalConversationOwners
    moving,     \* terminalTransferSessions
    request     \* the handlers

vars == <<owner, active, generation, switching, native, tab, tabOwner, moving, request>>

TerminalOwner(t, g, phase) == [kind |-> "terminal", by |-> t, gen |-> g, phase |-> phase]
NativeOwner(g, phase) == [kind |-> "native", by |-> None, gen |-> g, phase |-> phase]

Phases == {"starting", "active", "stopping"}

Owners == [kind : {"terminal"}, by : Tabs, gen : 1..MaxPty + 1, phase : Phases]
          \cup [kind : {"native"}, by : {None}, gen : 1..MaxNative, phase : Phases]

(* What a tab has on record: its conversation, and the resume that claimed it. *)
Holdings == [conv : Conversations, gen : 1..MaxPty + 1, via : Requests \cup {None}]

(* The value for absence is neither an owner nor such a record. *)
ASSUME AbsenceAssumption == None \notin Owners \cup Holdings

(* "by" says who launched what runs in the tab: a handler, or the user in the shell. *)
TabStates == [open : BOOLEAN, live : BOOLEAN, pty : 1..MaxPty,
              runs : Conversations \cup {None}, by : {"app", "user"}]

Idle == [kind |-> "none", c |-> None, t |-> None, gen |-> 0, pc |-> "done",
         saved |-> None, lost |-> FALSE, stale |-> FALSE]

Kinds == {"start", "switch", "adopt", "resume"}
Places == {"authorizing", "preparing", "launching", "confirming", "stopping",
           "spawn", "init", "restoring"}

(* ids and generations are right; every map has its domain. *)
TypeOK ==
    /\ owner \in [Conversations -> Owners \cup {None}]
    /\ active \in [Conversations -> 0..MaxNative]
    /\ generation \in [Conversations -> 0..MaxNative]
    /\ switching \subseteq Conversations
    /\ native \subseteq Conversations
    /\ tab \in [Tabs -> TabStates]
    /\ tabOwner \in [Tabs -> Holdings \cup {None}]
    /\ moving \subseteq Tabs
    /\ \A r \in Requests :
          \/ request[r] = Idle
          \/ /\ request[r].kind \in Kinds
             /\ request[r].pc \in Places
             /\ request[r].c \in Conversations

Init ==
    /\ owner = [c \in Conversations |-> None]
    /\ active = [c \in Conversations |-> 0]
    /\ generation = [c \in Conversations |-> 0]
    /\ switching = {}
    /\ native = {}
    /\ tab = [t \in Tabs |-> [open |-> TRUE, live |-> TRUE, pty |-> 1,
                              runs |-> None, by |-> "user"]]
    /\ tabOwner = [t \in Tabs |-> None]
    /\ moving = {}
    /\ request = [r \in Requests |-> Idle]

-----------------------------------------------------------------------------
(* The registry. *)

SameOwner(o, p) == o # None /\ p # None /\ o.kind = p.kind /\ o.by = p.by /\ o.gen = p.gen

(* release: deletes the entry of exactly that owner. *)
ReleaseOwner(own, c, o) == IF SameOwner(own[c], o) THEN [own EXCEPT ![c] = None] ELSE own

(* commitTransfer succeeds only while the previous owner is still registered. *)
CanCommit(c, saved) == SameOwner(owner[c], saved)

RollbackTransfer(own, c, saved) ==
    IF SameOwner(own[c], saved) THEN [own EXCEPT ![c] = saved] ELSE own

(* releaseTerminalConversationOwner, on the registry. *)
ReleaseTab(own, t) ==
    IF tabOwner[t] = None THEN own
    ELSE ReleaseOwner(own, tabOwner[t].conv, TerminalOwner(t, tabOwner[t].gen, "active"))

(* NativeConversationService.release of the entry in "active". *)
ReleaseNative(own, c) ==
    IF active[c] = 0 THEN own ELSE ReleaseOwner(own, c, NativeOwner(active[c], "active"))

-----------------------------------------------------------------------------
(* The handlers. *)

Step(r, place) == request' = [request EXCEPT ![r].pc = place]
Finish(r) == request' = [request EXCEPT ![r] = Idle]

(* Operations run under the tab's session coordinator: a newer one makes   *)
(* the older one stale and waits for it to leave.                          *)
InOperation(q) == \/ q.kind = "resume" /\ q.pc \in {"authorizing", "launching", "confirming"}
                  \/ q.kind = "switch" /\ q.pc = "launching"
                  \/ q.pc = "restoring"

Invalidate(req, r, t) ==
    [q \in Requests |-> IF q # r /\ req[q].t = t /\ InOperation(req[q])
                        THEN [req[q] EXCEPT !.stale = TRUE] ELSE req[q]]

(* A PTY that ends makes every operation of the tab stale. *)
Disturbed(t) == Invalidate(request, None, t)

OthersLeft(r, t) ==
    \A q \in Requests \ {r} : ~(request[q].t = t /\ InOperation(request[q]) /\ request[q].stale)

(* Another request is switching a conversation into or out of the tab. *)
Switched(r, t) ==
    \E q \in Requests \ {r} : request[q].t = t /\ request[q].kind \in {"switch", "adopt"}

(* The tab holds another conversation. *)
Busy(t, c) == tabOwner[t] # None /\ tabOwner[t].conv # c

(* adapter.close and adapter.start bump the start revision: a start that   *)
(* is still under way finds itself cancelled.                              *)
CancelStarts(req, r, c) ==
    [q \in Requests |-> IF q # r /\ req[q].c = c /\ req[q].pc \in {"spawn", "init"}
                        THEN [req[q] EXCEPT !.lost = TRUE] ELSE req[q]]

(* The request enters adapter.start, which throws if a process is there. *)
Starting(req, r, c) ==
    IF c \in native THEN [req EXCEPT ![r].pc = "spawn", ![r].lost = TRUE]
    ELSE [CancelStarts(req, r, c) EXCEPT ![r].pc = "spawn", ![r].lost = FALSE]

(* The PTY of the tab is replaced by one that resumes c; or it is stopped. *)
Relaunched(t, c) == [tab EXCEPT ![t].pty = @ + 1, ![t].live = TRUE, ![t].runs = c, ![t].by = "app"]
Stopped(t) == [tab EXCEPT ![t].live = FALSE, ![t].runs = None, ![t].by = "user"]
FailedLaunch(t) == [Stopped(t) EXCEPT ![t].pty = @ + 1]

CanLaunch(r, t) == tab[t].open /\ tab[t].pty < MaxPty /\ OthersLeft(r, t) /\ ~request[r].stale

(* The workspace callback: a tab found stopped gives up its conversation,  *)
(* unless a switch replaces its PTY on purpose.                            *)
StopTab(t) ==
    /\ tab' = Stopped(t)
    /\ IF t \in moving
       THEN UNCHANGED <<owner, tabOwner>>
       ELSE /\ owner' = ReleaseTab(owner, t)
            /\ tabOwner' = [tabOwner EXCEPT ![t] = None]

-----------------------------------------------------------------------------
(* Starting a native conversation (NativeConversationService.start). *)

StartNative(r, c) ==
    /\ request[r] = Idle
    /\ generation[c] < MaxNative
    /\ generation' = [generation EXCEPT ![c] = @ + 1]
    /\ \/ /\ owner[c] # None                 \* conflict: reported as reused
          /\ UNCHANGED <<owner, active, request>>
       \/ /\ owner[c] = None
          /\ owner' = [owner EXCEPT ![c] = NativeOwner(generation'[c], "starting")]
          /\ active' = [active EXCEPT ![c] = generation'[c]]
          /\ request' = Starting([request EXCEPT ![r] = [Idle EXCEPT !.kind = "start", !.c = c,
                                                         !.gen = generation'[c]]], r, c)
    /\ UNCHANGED <<switching, native, tab, tabOwner, moving>>

(* The executable is resolved and the SDK query created. *)
Spawn(r) ==
    LET q == request[r] IN
    /\ q.pc = "spawn" /\ ~q.lost
    /\ native' = native \cup {q.c}
    /\ Step(r, "init")
    /\ UNCHANGED <<owner, active, generation, switching, tab, tabOwner, moving>>

(* adapter.start returned to "start". *)
StartReturns(r) ==
    LET q == request[r] IN
    /\ q.kind = "start" /\ q.pc = "init" /\ ~q.lost
    /\ active[q.c] = q.gen
    /\ SameOwner(owner[q.c], NativeOwner(q.gen, "active"))
    /\ owner' = [owner EXCEPT ![q.c].phase = "active"]
    /\ Finish(r)
    /\ UNCHANGED <<active, generation, switching, native, tab, tabOwner, moving>>

(* adapter.start threw, or what it returned to had been cancelled: the     *)
(* entry, if it is still this one's, is closed and released; if it is not, *)
(* a process that did start stays.                                         *)
StartFails(r) ==
    LET q == request[r] IN
    /\ q.kind = "start" /\ q.pc \in {"spawn", "init"}
    /\ IF active[q.c] = q.gen
       THEN /\ native' = native \ {q.c}
            /\ owner' = ReleaseNative(owner, q.c)
            /\ active' = [active EXCEPT ![q.c] = 0]
            /\ request' = [CancelStarts(request, r, q.c) EXCEPT ![r] = Idle]
       ELSE /\ native' \in {native, IF q.pc = "init" /\ ~q.lost THEN native \ {q.c} ELSE native}
            /\ Finish(r)
            /\ UNCHANGED <<owner, active>>
    /\ UNCHANGED <<generation, switching, tab, tabOwner, moving>>

(* The SDK process ends by itself: conversation.error releases the entry,  *)
(* also in the middle of a switch.                                         *)
ProcessEnds(c) ==
    /\ c \in native
    /\ native' = native \ {c}
    /\ owner' = ReleaseNative(owner, c)
    /\ active' = [active EXCEPT ![c] = 0]
    /\ switching' = switching \ {c}
    /\ request' = [r \in Requests |-> IF request[r].c = c /\ request[r].pc = "init"
                                      THEN [request[r] EXCEPT !.lost = TRUE] ELSE request[r]]
    /\ UNCHANGED <<generation, tab, tabOwner, moving>>

(* NativeConversationService.close. *)
CloseNative(c) ==
    /\ active[c] # 0
    /\ c \in switching => "close-while-switching" \in Overlaps
    /\ native' = native \ {c}
    /\ owner' = ReleaseNative(owner, c)
    /\ active' = [active EXCEPT ![c] = 0]
    /\ switching' = switching \ {c}
    /\ request' = CancelStarts(request, None, c)
    /\ UNCHANGED <<generation, tab, tabOwner, moving>>

-----------------------------------------------------------------------------
(* Native to terminal (transferToTerminal). *)

RequestSwitch(r, c) ==
    /\ request[r] = Idle
    /\ active[c] # 0 /\ c \notin switching
    /\ owner[c].phase = "starting" => "switch-while-starting" \in Overlaps
    /\ request' = [request EXCEPT ![r] = [Idle EXCEPT !.kind = "switch", !.c = c,
                                          !.gen = active[c], !.pc = "authorizing"]]
    /\ UNCHANGED <<owner, active, generation, switching, native, tab, tabOwner, moving>>

(* performTransfer up to the launch: the SDK process is closed and the     *)
(* owner kept as stopping.  The tab is the bound one or the active one.    *)
BeginSwitch(r, t) ==
    LET q == request[r] IN
    /\ q.kind = "switch" /\ q.pc = "authorizing"
    /\ active[q.c] = q.gen /\ q.c \notin switching
    /\ SameOwner(owner[q.c], NativeOwner(q.gen, "active"))
    /\ tab[t].open
    /\ Switched(r, t) => "switch-twice" \in Overlaps
    /\ Busy(t, q.c) => "take-a-busy-tab" \in Overlaps
    /\ owner' = [owner EXCEPT ![q.c].phase = "stopping"]
    /\ switching' = switching \cup {q.c}
    /\ native' = native \ {q.c}
    /\ moving' = moving \cup {t}
    /\ request' = Invalidate(
           [CancelStarts(request, r, q.c) EXCEPT ![r].pc = "launching", ![r].t = t,
                                                 ![r].saved = owner[q.c]], r, t)
    /\ UNCHANGED <<active, generation, tab, tabOwner>>

SwitchRefused(r) ==
    LET q == request[r] IN
    /\ q.kind = "switch" /\ q.pc = "authorizing"
    /\ Finish(r)
    /\ UNCHANGED <<owner, active, generation, switching, native, tab, tabOwner, moving>>

(* The tab runs the conversation and the registry accepts the new owner. *)
CommitSwitch(r) ==
    LET q == request[r] IN
    /\ q.kind = "switch" /\ q.pc = "launching" /\ CanLaunch(r, q.t)
    /\ CanCommit(q.c, q.saved)
    /\ tab' = Relaunched(q.t, q.c)
    /\ owner' = [owner EXCEPT ![q.c] = TerminalOwner(q.t, tab'[q.t].pty, "active")]
    /\ active' = [active EXCEPT ![q.c] = 0]
    /\ switching' = switching \ {q.c}
    /\ tabOwner' = [tabOwner EXCEPT ![q.t] = [conv |-> q.c, gen |-> tab'[q.t].pty, via |-> None]]
    /\ moving' = moving \ {q.t}
    /\ Finish(r)
    /\ UNCHANGED <<generation, native>>

(* No launch, or the registry has another owner by now: the native process *)
(* is resumed.                                                             *)
SwitchFails(r) ==
    LET q == request[r] IN
    /\ q.kind = "switch" /\ q.pc = "launching"
    /\ \/ UNCHANGED tab
       \/ CanLaunch(r, q.t) /\ tab' = FailedLaunch(q.t)
       \/ CanLaunch(r, q.t) /\ ~CanCommit(q.c, q.saved) /\ tab' = Relaunched(q.t, q.c)
    /\ request' = Starting(request, r, q.c)
    /\ UNCHANGED <<owner, active, generation, switching, native, tabOwner, moving>>

(* The native process is back. *)
SwitchRolledBack(r) ==
    LET q == request[r] IN
    /\ q.kind = "switch" /\ q.pc = "init" /\ ~q.lost
    /\ owner' = RollbackTransfer(owner, q.c, q.saved)
    /\ switching' = IF active[q.c] = q.gen THEN switching \ {q.c} ELSE switching
    /\ moving' = moving \ {q.t}
    /\ Finish(r)
    /\ UNCHANGED <<active, generation, native, tab, tabOwner>>

(* Neither surface runs: the conversation is released. *)
SwitchAbandoned(r) ==
    LET q == request[r]
        restored == RollbackTransfer(owner, q.c, q.saved) IN
    /\ q.kind = "switch" /\ q.pc \in {"spawn", "init"}
    /\ native' = IF q.pc = "init" /\ ~q.lost THEN native \ {q.c} ELSE native
    /\ IF active[q.c] = q.gen
       THEN /\ owner' = ReleaseNative(restored, q.c)
            /\ active' = [active EXCEPT ![q.c] = 0]
            /\ switching' = switching \ {q.c}
       ELSE /\ owner' = restored
            /\ UNCHANGED <<active, switching>>
    /\ moving' = moving \ {q.t}
    /\ Finish(r)
    /\ UNCHANGED <<generation, tab, tabOwner>>

-----------------------------------------------------------------------------
(* Terminal to native (adoptFromTerminal). *)

RequestAdoption(r, t) ==
    /\ request[r] = Idle
    /\ tab[t].open /\ tabOwner[t] # None
    /\ Switched(r, t) => "switch-twice" \in Overlaps
    /\ request' = [request EXCEPT ![r] = [Idle EXCEPT !.kind = "adopt", !.c = tabOwner[t].conv,
                                          !.t = t, !.pc = "preparing"]]
    /\ UNCHANGED <<owner, active, generation, switching, native, tab, tabOwner, moving>>

(* The conversation is native already: the tab gives up its entry. *)
AlreadyNative(r) ==
    LET q == request[r] IN
    /\ q.kind = "adopt" /\ q.pc = "preparing"
    /\ tab[q.t].open /\ active[q.c] # 0
    /\ Busy(q.t, q.c) => "adopt-what-moved" \in Overlaps
    /\ tabOwner' = [tabOwner EXCEPT ![q.t] = None]
    /\ moving' = moving \ {q.t}
    /\ Finish(r)
    /\ UNCHANGED <<owner, active, generation, switching, native, tab>>

(* The owner is whichever terminal is registered now, not the tab that was *)
(* asked for; operations under way on the tab are made stale.              *)
BeginAdoption(r) ==
    LET q == request[r] IN
    /\ q.kind = "adopt" /\ q.pc = "preparing"
    /\ tab[q.t].open /\ active[q.c] = 0
    /\ owner[q.c] # None /\ owner[q.c].kind = "terminal"
    /\ owner[q.c].phase = "starting" => "adopt-while-resuming" \in Overlaps
    /\ owner[q.c].by # q.t => "adopt-what-moved" \in Overlaps
    /\ generation[q.c] < MaxNative
    /\ generation' = [generation EXCEPT ![q.c] = @ + 1]
    /\ owner' = [owner EXCEPT ![q.c].phase = "stopping"]
    /\ active' = [active EXCEPT ![q.c] = generation'[q.c]]
    /\ switching' = switching \cup {q.c}
    /\ moving' = moving \cup {q.t}
    /\ request' = Invalidate([request EXCEPT ![r].pc = "stopping", ![r].saved = owner[q.c],
                                             ![r].gen = generation'[q.c]], r, q.t)
    /\ UNCHANGED <<native, tab, tabOwner>>

(* The tab is gone, has work to confirm, or holds no terminal owner. *)
AdoptionRefused(r) ==
    LET q == request[r] IN
    /\ q.kind = "adopt" /\ q.pc = "preparing"
    /\ moving' = IF tab[q.t].open /\ active[q.c] = 0 /\ (owner[q.c] # None => owner[q.c].kind = "native")
                 THEN moving \ {q.t} ELSE moving
    /\ Finish(r)
    /\ UNCHANGED <<owner, active, generation, switching, native, tab, tabOwner>>

StartBesideTerminal(r) ==   \* faulty: the PTY keeps running
    LET q == request[r] IN
    /\ q.kind = "adopt" /\ q.pc = "stopping" /\ OthersLeft(r, q.t)
    /\ request' = Starting(request, r, q.c)
    /\ UNCHANGED <<owner, tab, tabOwner, active, generation, switching, native, moving>>
(* stopTerminal: the operations left, the PTY is stopped, the tab stays. *)
StopForAdoption(r) ==
    LET q == request[r] IN
    /\ q.kind = "adopt" /\ q.pc = "stopping" /\ OthersLeft(r, q.t)
    /\ IF tab[q.t].open THEN StopTab(q.t) ELSE UNCHANGED <<owner, tab, tabOwner>>
    /\ request' = Starting(request, r, q.c)
    /\ UNCHANGED <<active, generation, switching, native, moving>>

CommitAdoption(r) ==
    LET q == request[r] IN
    /\ q.kind = "adopt" /\ q.pc = "init" /\ ~q.lost
    /\ CanCommit(q.c, q.saved)
    /\ owner' = [owner EXCEPT ![q.c] = NativeOwner(q.gen, "active")]
    /\ switching' = IF active[q.c] = q.gen THEN switching \ {q.c} ELSE switching
    /\ tabOwner' = [tabOwner EXCEPT ![q.t] = None]
    /\ moving' = moving \ {q.t}
    /\ Finish(r)
    /\ UNCHANGED <<active, generation, native, tab>>

(* The start failed, or the registry refused: the entry is dropped, the    *)
(* terminal owner put back and the terminal restored.  A process that did  *)
(* start is not closed.                                                    *)
AdoptionFails(r) ==
    LET q == request[r] IN
    /\ q.kind = "adopt" /\ q.pc \in {"spawn", "init"}
    /\ \/ UNCHANGED native /\ (q.pc = "init" /\ ~q.lost => ~CanCommit(q.c, q.saved))
       \/ q.pc = "init" /\ ~q.lost /\ native' = native \ {q.c}
    /\ active' = [active EXCEPT ![q.c] = 0]
    /\ switching' = switching \ {q.c}
    /\ owner' = RollbackTransfer(owner, q.c, q.saved)
    /\ request' = Invalidate([request EXCEPT ![r].pc = "restoring"], r, q.t)
    /\ UNCHANGED <<generation, tab, tabOwner, moving>>

RestoreTerminal(r) ==
    LET q == request[r] IN
    /\ q.pc = "restoring"
    /\ \/ UNCHANGED tab
       \/ CanLaunch(r, q.t) /\ tab' = FailedLaunch(q.t)
       \/ CanLaunch(r, q.t) /\ tab' = Relaunched(q.t, q.c)
    /\ moving' = moving \ {q.t}
    /\ Finish(r)
    /\ UNCHANGED <<owner, active, generation, switching, native, tabOwner>>

-----------------------------------------------------------------------------
(* Resuming a conversation in a tab (executeClaudeSessionResume). *)

RequestResume(r, t, c) ==
    /\ request[r] = Idle
    /\ tab[t].open
    /\ request' = Invalidate(
           [request EXCEPT ![r] = [Idle EXCEPT !.kind = "resume", !.c = c, !.t = t,
                                   !.gen = tab[t].pty + 1, !.pc = "authorizing"]], r, t)
    /\ UNCHANGED <<owner, active, generation, switching, native, tab, tabOwner, moving>>

Undisturbed(r) == LET q == request[r] IN
    CanLaunch(r, q.t) /\ tab[q.t].pty + 1 = q.gen

ClaimUnasked(r) ==   \* faulty: the owner was looked up before the authorization
    LET q == request[r] IN
    /\ q.kind = "resume" /\ q.pc = "authorizing" /\ Undisturbed(r)
    /\ Busy(q.t, q.c) => "take-a-busy-tab" \in Overlaps
    /\ owner' = [owner EXCEPT ![q.c] = TerminalOwner(q.t, q.gen, "starting")]
    /\ tabOwner' = [tabOwner EXCEPT ![q.t] = [conv |-> q.c, gen |-> q.gen, via |-> r]]
    /\ Step(r, "launching")
    /\ UNCHANGED <<active, generation, switching, native, tab, moving>>
(* The conversation is claimed for the PTY generation the launch will get. *)
ClaimForResume(r) ==
    LET q == request[r] IN
    /\ q.kind = "resume" /\ q.pc = "authorizing" /\ Undisturbed(r)
    /\ owner[q.c] = None
    /\ Busy(q.t, q.c) => "take-a-busy-tab" \in Overlaps
    /\ owner' = [owner EXCEPT ![q.c] = TerminalOwner(q.t, q.gen, "starting")]
    /\ tabOwner' = [tabOwner EXCEPT ![q.t] = [conv |-> q.c, gen |-> q.gen, via |-> r]]
    /\ Step(r, "launching")
    /\ UNCHANGED <<active, generation, switching, native, tab, moving>>

LaunchResume(r) ==
    LET q == request[r] IN
    /\ q.kind = "resume" /\ q.pc = "launching" /\ Undisturbed(r)
    /\ tab' = Relaunched(q.t, q.c)
    /\ Step(r, "confirming")
    /\ UNCHANGED <<owner, active, generation, switching, native, tabOwner, moving>>

ConfirmResume(r) ==
    LET q == request[r] IN
    /\ q.kind = "resume" /\ q.pc = "confirming" /\ ~q.stale /\ tab[q.t].open
    /\ SameOwner(owner[q.c], TerminalOwner(q.t, q.gen, "active"))
    /\ owner' = [owner EXCEPT ![q.c].phase = "active"]
    /\ Finish(r)
    /\ UNCHANGED <<active, generation, switching, native, tab, tabOwner, moving>>

(* The launch it made is stopped, and the claim, if the tab still holds    *)
(* this very one, released.                                                *)
ResumeFails(r) ==
    LET q == request[r]
        launched == q.pc = "confirming" /\ tab[q.t].open /\ tab[q.t].pty = q.gen
        held == q.pc # "authorizing" /\ tabOwner[q.t] # None /\ tabOwner[q.t].via = r IN
    /\ q.kind = "resume" /\ InOperation(q)
    /\ tab' = IF launched THEN Stopped(q.t) ELSE tab
    /\ IF held \/ (launched /\ q.t \notin moving)
       THEN /\ owner' = ReleaseTab(owner, q.t)
            /\ tabOwner' = [tabOwner EXCEPT ![q.t] = None]
       ELSE UNCHANGED <<owner, tabOwner>>
    /\ Finish(r)
    /\ UNCHANGED <<active, generation, switching, native, moving>>

-----------------------------------------------------------------------------
(* The terminal, its user and the reports of its status line. *)

(* A launch that names no conversation ("new", "continue", the picker):    *)
(* what Claude settles on is known only when it reports.                   *)
LaunchUnnamed(t, c) ==
    /\ tab[t].open /\ tab[t].pty < MaxPty
    /\ \A r \in Requests : request[r].t = t => ~InOperation(request[r])
    /\ tab' = [Relaunched(t, c) EXCEPT ![t].by = "user"]
    /\ UNCHANGED <<owner, active, generation, switching, native, tabOwner, moving, request>>

(* "/resume" or "/clear" inside the running Claude. *)
UserSwitches(t, c) ==
    /\ tab[t].runs \notin {None, c}
    /\ tab' = [tab EXCEPT ![t].runs = c, ![t].by = "user"]
    /\ UNCHANGED <<owner, active, generation, switching, native, tabOwner, moving, request>>

(* Claude returns to the shell: launches prepared for the old state of the *)
(* runtime are stale.                                                      *)
ClaudeExits(t) ==
    /\ tab[t].runs # None
    /\ tab' = [tab EXCEPT ![t].runs = None, ![t].by = "user"]
    /\ request' = [r \in Requests |->
           IF request[r].t = t /\ request[r].kind = "resume" /\ request[r].pc # "confirming"
           THEN [request[r] EXCEPT !.stale = TRUE] ELSE request[r]]
    /\ UNCHANGED <<owner, active, generation, switching, native, tabOwner, moving>>

ShellExits(t) ==
    /\ tab[t].open /\ tab[t].live
    /\ StopTab(t)
    /\ request' = Disturbed(t)
    /\ UNCHANGED <<active, generation, switching, native, moving>>

(* publishClaudeProjectState: Claude has gone. *)
ReportInactive(t) ==
    /\ tab[t].open /\ t \notin moving
    /\ tab[t].runs = None /\ tabOwner[t] # None
    /\ owner' = ReleaseTab(owner, t)
    /\ tabOwner' = [tabOwner EXCEPT ![t] = None]
    /\ UNCHANGED <<active, generation, switching, native, tab, moving, request>>

ReportWithoutRelease(t) ==   \* faulty: what the tab held before is kept
    LET c == tab[t].runs
        mine == TerminalOwner(t, tab[t].pty, "active") IN
    /\ tab[t].open /\ c # None /\ t \notin moving /\ owner[c] = None
    /\ owner' = [owner EXCEPT ![c] = mine]
    /\ tabOwner' = [tabOwner EXCEPT ![t] = [conv |-> c, gen |-> tab[t].pty, via |-> None]]
    /\ UNCHANGED <<active, generation, switching, native, tab, moving, request>>
(* publishClaudeProjectState: the status line names the conversation.  The *)
(* tab claims it; a tab that comes second is stopped by a microtask, which *)
(* runs before any other event.                                            *)
ReportActive(t) ==
    LET c == tab[t].runs
        mine == TerminalOwner(t, tab[t].pty, "active")
        changed == tabOwner[t] # None /\ (tabOwner[t].conv # c \/ tabOwner[t].gen # tab[t].pty)
        own == IF changed THEN ReleaseTab(owner, t) ELSE owner
        entry == [conv |-> c, gen |-> tab[t].pty, via |-> None] IN
    /\ tab[t].open /\ c # None /\ t \notin moving
    /\ \/ /\ own[c] = None \/ SameOwner(own[c], mine)
          /\ owner' = IF own[c] = None THEN [own EXCEPT ![c] = mine] ELSE own
          /\ tabOwner' = [tabOwner EXCEPT ![t] = entry]
          /\ UNCHANGED <<tab, request>>
       \/ /\ own[c] # None /\ ~SameOwner(own[c], mine)
          /\ owner' = ReleaseTab(own, t)
          /\ tabOwner' = [tabOwner EXCEPT ![t] = None]
          /\ tab' = Stopped(t)
          /\ request' = Disturbed(t)
    /\ UNCHANGED <<active, generation, switching, native, moving>>

(* The tab is closed once its operations have left: its entry is released  *)
(* even when a switch is under way.                                        *)
CloseTab(t) ==
    /\ tab[t].open
    /\ t \in moving => "close-tab-while-switching" \in Overlaps
    /\ \A r \in Requests : request[r].t = t => ~InOperation(request[r])
    /\ tab' = [Stopped(t) EXCEPT ![t].open = FALSE]
    /\ owner' = ReleaseTab(owner, t)
    /\ tabOwner' = [tabOwner EXCEPT ![t] = None]
    /\ UNCHANGED <<active, generation, switching, native, moving, request>>

-----------------------------------------------------------------------------
Continue(r) ==
    \/ Spawn(r) \/ StartReturns(r) \/ StartFails(r)
    \/ \E t \in Tabs : BeginSwitch(r, t)
    \/ SwitchRefused(r) \/ CommitSwitch(r) \/ SwitchFails(r)
    \/ SwitchRolledBack(r) \/ SwitchAbandoned(r)
    \/ AlreadyNative(r) \/ BeginAdoption(r) \/ AdoptionRefused(r) \/ StopForAdoption(r)
    \/ CommitAdoption(r) \/ AdoptionFails(r) \/ RestoreTerminal(r)
    \/ ClaimForResume(r) \/ LaunchResume(r) \/ ConfirmResume(r) \/ ResumeFails(r)

Report(t) == ReportInactive(t) \/ ReportActive(t)

Next ==
    \/ \E r \in Requests, c \in Conversations : StartNative(r, c) \/ RequestSwitch(r, c)
    \/ \E r \in Requests, t \in Tabs : RequestAdoption(r, t)
    \/ \E r \in Requests, t \in Tabs, c \in Conversations : RequestResume(r, t, c)
    \/ \E r \in Requests : Continue(r)
    \/ \E c \in Conversations : ProcessEnds(c) \/ CloseNative(c)
    \/ \E t \in Tabs, c \in Conversations : LaunchUnnamed(t, c) \/ UserSwitches(t, c)
    \/ \E t \in Tabs : ClaudeExits(t) \/ ShellExits(t) \/ Report(t) \/ CloseTab(t)

(* Every handler goes on: each await has a timeout or an outcome.  The     *)
(* status line of a running Claude reports again and again, so a report    *)
(* comes between any two requests of the user.                             *)
Fairness ==
    /\ \A r \in Requests : WF_vars(Continue(r))
    /\ \A t \in Tabs : SF_vars(Report(t))

Spec == Init /\ [][Next]_vars /\ Fairness

-----------------------------------------------------------------------------
Writers(c) == {t \in Tabs : tab[t].runs = c} \cup (IF c \in native THEN {None} ELSE {})

LaunchedWriters(c) == {t \in Tabs : tab[t].runs = c /\ tab[t].by = "app"}
                      \cup (IF c \in native THEN {None} ELSE {})

(* A resume launched its tab and has still to find its claim in place. *)
Unconfirmed(t) == \E r \in Requests : request[r].t = t /\ request[r].pc = "confirming"

ConfirmedWriters(c) == {t \in LaunchedWriters(c) : t = None \/ ~Unconfirmed(t)}

Quiet(c) == \A r \in Requests : request[r].c # c

(* The application does not keep two processes of its own on a transcript: *)
(* "Leaving it running would put two writers on one JSONL".                *)
OneWriter ==
    \A c \in Conversations : Cardinality(ConfirmedWriters(c)) <= 1

(* Processes and owners come and go together.  Outside the handlers an SDK *)
(* process belongs to an entry of the service (so it can be closed) and its*)
(* generation owns the conversation; no conversation stays locked by an    *)
(* owner that is gone, be it a native one without its process or a tab that*)
(* holds something else; and a tab that is closed owns nothing.            *)
ProcessAndOwnerAgree ==
    \A c \in Conversations :
       /\ (Quiet(c) /\ c \in native) =>
            active[c] # 0 /\ SameOwner(owner[c], NativeOwner(active[c], "active"))
       /\ (Quiet(c) /\ owner[c] # None) =>
            IF owner[c].kind = "native"
            THEN active[c] = owner[c].gen /\ c \in native
            ELSE LET held == tabOwner[owner[c].by] IN
                 held # None /\ held.conv = c /\ held.gen = owner[c].gen
       /\ (owner[c] # None /\ owner[c].kind = "terminal") => tab[owner[c].by].open

(* The conversation of a native entry that is not being switched passes to *)
(* nobody else: claim and commitTransfer refuse what was begun for an      *)
(* earlier owner and took its time.                                        *)
EntryKeepsItsConversation ==
    [][\A c \in Conversations :
          (active[c] # 0 /\ c \notin switching
             /\ SameOwner(owner[c], NativeOwner(active[c], "active")))
          => owner'[c] = None \/ SameOwner(owner'[c], owner[c])]_vars

(* Two writers, which the user can produce with a raw "/resume", never     *)
(* last.                                                                   *)
WritersConverge == \A c \in Conversations : []<>(Cardinality(Writers(c)) <= 1)
=============================================================================
