# ClaudeDock, specified and checked

ClaudeDock is an Electron application that runs Claude Code and Codex for many
projects: in terminal tabs, and through a native chat that drives the Claude SDK.
Everything that decides who may act is in its main process, which runs on one
thread; what interleaves are its asynchronous handlers, at each of their awaits,
and what fails are processes, files and networks. The specifications here are
about that: the coordinators that decide which handler goes on, and the stores,
owners and files that several of them change.

Paths are given below `src/src/main/` unless they say otherwise.

## Contents

| module | what it is | source |
| --- | --- | --- |
| `SessionOperation` | leases on sessions: start, replace, cancel, wait, stamps | `coordination/session-operation.ts` |
| `SessionLock` | what it promises: one holder and one heir per session | (abstract) |
| `SessionOperationProof` | theorems about both, with their proofs | |
| `DevelopmentSession` | sessions of a directory under three coordinators | `coordination/development-session.ts`, `coordination/main-process-operation.ts`, `ipc/project.ts`, `ipc/runtime.ts` |
| `DevelopmentSessionProof` | theorems about it | |
| `ConfigTransaction` | a profile is saved, completed or rolled back; history and Router | `coordination/main-process-operation.ts`, `claude/project-config-transaction.ts`, `claude/runtime-connection-config.ts`, `claude/router-manager.ts` |
| `AtomicProfile` | what it promises: an atomic register per profile | (abstract) |
| `ConversationOwnership` | who writes a transcript: native chat or terminal | `conversation/owner-registry.ts`, `conversation/service.ts`, `claude/agent-adapter.ts`, `claude/state-publisher.ts`, `index.ts`, `ipc/conversation.ts`, `ipc/claude-launch.ts` |
| `ConversationOwnershipProof` | theorems about it | |
| `NativeTurns` | prompts of a native conversation: its journal, their turns and leases, across failed saves and restarts | `conversation/recovery-store.ts`, `conversation/service.ts`, `claude/agent-adapter*.ts`, `app/bootstrap.ts` |
| `ProjectLifecycle` | opening, closing, forgetting a folder; resuming and deleting its transcripts | `coordination/project-directory-lifecycle.ts`, `claude/conversation-lifecycle.ts`, `conversation/deletion.ts`, `ipc/claude-launch.ts` |
| `ManagedAuthTransaction` | replacing an authorization on disk, across failures and crashes | `claude/managed-chatgpt-auth-transaction.ts`, `claude/managed-chatgpt-gateway.ts` |
| `TransactionsProof` | theorems about `ConfigTransaction` with `AtomicProfile`, and `ManagedAuthTransaction` | |
| `DownloadTask` | one download: items, timers, files and journal, across ends of the application | `download/engine.ts`, `download/engine-retry.ts`, `download/engine-state.ts`, `download/journal.ts`, `download/safety.ts` |
| `DownloadTaskProof` | theorems about it | |
| `ApplicationProxy` | leases on the proxy routes, the queue of saves, their rollback | `proxy/application-proxy-coordinator.ts` |
| `NetworkPreflight` | who may talk to a provider, over those leases: checks, retries, nested operations | `network/provider-access-guard.ts`, `network/preflight-service.ts` |
| `NetworkPreflightProof` | theorems about it and `ApplicationProxy` | |
| `LaunchPreflightDecision` | a launch the check paused, and the user's answer | `coordination/launch-preflight-decision.ts`, `claude/launch-decision-ipc.ts`, `ipc/claude-launch.ts`, `claude/launch-operations.ts`, `index.ts` |
| `LaunchAndTurnsProof` | theorems about it and `NativeTurns` | |
| `ControlledQuit` | leaving: prompts, answers, the cleanup and its budget | `app/lifecycle.ts`, `ipc/app.ts`, `app/window.ts`, `preload/bridges/app.ts`, `renderer/shell/dialogs-quit.ts` |
| `LifecycleProof` | theorems about `ProjectLifecycle` and `ControlledQuit` | |
| `MC*` | instances for the model checker: symmetry sets, the proxy configurations for the model checker | |

The `.cfg` files give the constants their values. Definitions marked "faulty" in
a comment are variants of the definition that follows them, with one plausible
slip; putting the variant in its place makes the checker refute a property.
They are how each property was seen to be able to fail, and belong to no
specification.

## The system

### Components, their state and what makes them correct

**Session operation coordinator** (`coordination/session-operation.ts`). State:
a lease per session, a revision per session, counters. `run` refuses a busy
session, `runLatest` takes the lease at once and starts its callback after its
predecessor has unwound, `runIfStampCurrent` starts only if nothing happened in
the session since a stamp was captured; `invalidate` cancels, the two
`invalidateAndWait` also wait; `removeSession` forgets the session but not its
revision. Correct if callbacks never overlap, a cancelled callback keeps the
session busy until it has unwound, and an answer to "may I still act" is never
stale.

**Development session coordination** (`coordination/development-session.ts`,
`coordination/main-process-operation.ts`). It puts every operation under the
session coordinator, the runtime switch coordinator (per directory: a reserved
intent that a later one replaces) and the config transaction coordinator (per
directory a FIFO, with isolation of sibling sessions). Each refuses or waits for
the others. Correct if a switch and a transaction exclude each other, an engine
is replaced only in a quiet directory, no session is launched with a profile that
is old or may be rolled back, and nobody waits in a circle.

**Config transactions** (`runOwnedConfigTransaction`,
`claude/project-config-transaction.ts`) with the stores under them:
`claude/config-store.ts` (a profile per directory or conversation),
`claude/connection-history.ts` (one list for all), the external Router
(`claude/router-manager.ts`, one configuration, over HTTP). Correct if a failed
transaction leaves no trace and overwrites nobody.

**Conversation ownership**: `conversation/owner-registry.ts` (one owner per
transcript, as a kind, an id, a generation and a phase),
`conversation/service.ts` (native entries), `claude/agent-adapter.ts` (SDK
processes), the owner each tab holds (`index.ts`), and the handlers that start,
close, switch, adopt and resume. Correct if a transcript has one writer and no
owner outlives what it stands for.

**Folder and transcript lifecycle**: `coordination/project-directory-lifecycle.ts`
(open, close, forget), `claude/conversation-lifecycle.ts` and
`conversation/deletion.ts` (resume, delete). Correct if the user's last word
counts, a deleted transcript is not resumed, nothing else is closed, and
everything ends.

**Managed authorization**: `claude/managed-chatgpt-auth-transaction.ts`, driven by
`claude/managed-chatgpt-gateway.ts`. State is on the disk: authorization files
and a quarantine directory with a phase. Correct if, wherever the application
ends or a call fails, the user keeps an authorization and never gets half of one.

**Launch decisions** (`coordination/launch-preflight-decision.ts`, with its handler
`claude/launch-decision-ipc.ts`): a launch the network check paused, waiting for
the user's answer. State: an intent per session, records of decisions (pending,
deciding, or how they ended), a timer, two limits. Correct if an answer carries on
only the newest launch of its session, over ground nothing has changed meanwhile,
and a decision that was withdrawn is gone.

**Route lifecycle** (`coordination/route-lifecycle.ts`): reservations that keep a
local proxy service up. **Startup connection**
(`app/startup-model-connection-coordinator.ts`): one operation, a time limit, a
cancellation.

**Provider access guard** (`network/provider-access-guard.ts`) with the preflight
service (`network/preflight-service.ts`): who may talk to a provider. State: leases
on a route, checks under way, shared or remembered. **Application proxy**
(`proxy/`): two Electron sessions that are set together, a queue of grants and
saves, a file. Correct if a route does not change under an operation that was
checked for it, a superseded verdict admits nobody, a failed save leaves the
stored routes, and every lease comes back.

**Egress diagnostics** (`egress-diagnostics/`, 9,000 lines): collectors and
reports, and a repair with a write-ahead journal (`repair-journal.ts`,
`repair-applier.ts`), which no service of the application constructs yet.

**Download engine** (`download/`): downloads that resume after failures and
restarts. State: a record of the task, Electron's items, a staging file, its copy,
a journal. Correct if what the journal says can be continued exists, only a
verified file is published, and a transfer ends or waits for the user.

**Recovery journal** (`conversation/recovery-store.ts`): what became of a submitted
prompt across a restart. State: a record per conversation with its prompts, on the
disk, and the turn and the network lease of the prompt that is being answered. Correct
if no prompt is lost, none that may have been sent counts as unsent, and a lease lasts
as long as its turn.

**Terminal workspace** (`terminal/`): sessions, their PTY and its generation,
output batching. **Claude and Codex runtimes** (`claude/runtime*.ts`, `codex/`):
launch, hand-over, controls, polling, protocols. **Process and activity
registry** (`runtime/`): process trees read from the operating system.

**Application** (`app/`): bootstrap, window, tray, and leaving
(`app/lifecycle.ts`). State: the open prompt and its timer, a cleanup under way, a
latch. Correct if the user decides what is cleaned up and left behind, a prompt on
the screen can be answered, and no request to quit is lost. **Chat, MCP, subscriptions, usage, updates**: features
beside the core with their own request queues. **Stores and infrastructure**
(`stores/`, `infra/`): settings files, caches. **IPC** (`ipc/`, 33 files): the
handlers, which validate and call the above; those that keep state over awaits
are modelled with what they call. **Preload and renderer**: interface.

### How they interact

A window calls a handler over IPC. A handler that works in a terminal asks
`withDevelopmentSessionOperation` for an operation on the session; the operation
is admitted unless the session is busy, a switch is reserved or a transaction is
in the way. Inside it the handler reads the profile, asks the access guard for
the network, claims the conversation in the owner registry and launches into the
PTY. A save of the connection is a transaction inside such an operation, which
invalidates and awaits the operations of all other sessions of the directory
before its commit. A switch of the engine invalidates and awaits all of them.
Deleting a transcript queues an operation (`runLatest`) in every tab that runs
or resumes it; closing a tab or a folder invalidates and awaits. The status line
of a running Claude reports from outside, through `claude/state-publisher.ts`,
and may claim, release or stop. So almost every hard case is a handler that comes
back from an await to a world somebody else has changed, and most defences are
of one form: capture a stamp, a lease, a generation or an owner before, compare
it after.

### What is hard

- state read before an await and used after it: leases, stamps, profiles,
  owners, PTY generations (sessions, transactions, ownership, folder lifecycle);
- two reservations taken in two orders, waits that meet (switch, transaction,
  close, deletion);
- a failure in the middle of several steps, and in the undoing of them
  (transactions, hand-over of a conversation, authorization files);
- an end of the application between two calls on the file system (authorization,
  downloads, recovery);
- late answers: an SDK process, an OAuth process, a report, a retry, a download
  item, a verdict, an answer to a prompt that another has replaced;
- things shared by those who joined: a check of the network and the lease it runs
  under;
- bounds: three attempts, queues, records that are pruned.

`PROJECT.json` lists these one by one, at the line where they bite, with the
properties that would catch them.

## The modules and the code

One rule throughout: what a handler does between two awaits is one step, because
nothing else runs meanwhile; every await, and every call whose failure the code
handles, is a place where others come in. In `ManagedAuthTransaction` each call on
the file system is a step of its own, as there the application may end.

### SessionOperation, SessionLock

`Op` is the set of calls of the three run methods; an element stands for the call
and for its lease. `status` is the progress of its callback, `leases`,
`revisionBySession`, `generation`, `cancelled` are the fields of the code, `live`
is what `hasSession` answers. `Run`, `RunIfStampCurrent` and `RunLatest` are the
entries of the three methods up to their first await; `TakeOver` and `TooLate`
are `runLatest` after it; `Finish` is the `finally` of a callback; `Invalidate`,
`InvalidateAndWait`, `InvalidateAndWaitIfSignal`, `WaitReturns`, `CaptureStamp`,
`RemoveSession`, `CreateSession` are what they are called. Three history variables
(`owed`, `disturbed`, `grantedAt`) let the properties speak about earlier states;
no guard reads them. `AssertCurrent` is what a callback checks after its awaits:
it changes nothing and appears as a predicate.

`SessionLock` forgets leases, revisions and promises: a session has a holder and
an heir, a claim replaces the heir for good, and the heir inherits only a session
without a holder. The refinement maps the running callback to the holder and an
uncancelled waiting leaseholder to the heir.

### DevelopmentSession

The sessions of one directory (directories share no state). As `SessionOperation`
is proved to admit one operation per session, an operation is named by its session
here, with `phase` for its progress. `BeginOperation` is admission in
`withDevelopmentSessionOperation`; `ReserveConfig`, `ActivateConfig`,
`IsolationAcquired`, `CommitConfig`, `CompleteConfig` and `RollBackConfig` follow
the config transaction; `ReserveSwitch`, `StartSwitch`, `InvalidateSessions`,
`CleanUp` and `CommitSwitch` the switch; `BeginClose` and `EndClose` the handler
that closes a tab. `awaited` records, for each who waits, the operations whose
settling it waits for. Network access, routing clean-up and the relaunch of an
engine are awaits that go on or fail. The sessions are the visible ones:
`sessionIdsForDirectory` (`terminal/workspace.ts`) leaves background sessions out.

### ConfigTransaction, AtomicProfile

Stores are abstracted to who wrote them: a profile is the name of the transaction
that saved it, the history the set of transactions it has a record of, the Router
the set of those whose provider it holds. `tx` holds the progress of each
transaction and what it remembers: its snapshot, what it read from the Router,
what it applied. Saves that do not go through the coordinator are `SaveOutside`,
deletions of a history record `DeleteRecord`; an operation may be cancelled and
its session disappear at any time. Read and write of the Router, its compare and
its restore are separate steps, as they are separate requests.

`AtomicProfile` promises a reader who waits for a transaction to end an atomic
register: only first-time saves change it, so what was replaced never returns.

### ConversationOwnership

A `request` is a running handler with its place (`pc`) and what it holds in local
variables over its awaits (`saved`, `gen`, `lost`, `stale`). Starting, switching to
a terminal, adopting into the native chat and resuming in a tab each have their
steps, failures and rollbacks; tabs may be closed, their shell or Claude may end,
an SDK process may end, the user may type `/resume` or `claude` in a shell
(`UserSwitches`, `LaunchUnnamed`), and the status line reports (`ReportActive`,
`ReportInactive`). `native` are the SDK processes that exist, `active` the
entries of the service: the difference is what the properties are about. Which
launched process counts as a writer is explained at `ConfirmedWriters`: a resume
that has just launched has still to find its claim in place, and stops the tab
if it does not.

The interface starts one handler at a time for a conversation and a tab, but the
handlers do not enforce that. `Overlaps` names the requests that may come while
another is under way. With none, all properties hold; each overlap breaks some, as
listed under *What the runs show*.

### NativeTurns

One conversation. `journal` is the store's copy and `disk` the file; a mutation is
adopted when it is saved (`Saved`) and else forgotten (`NotSaved`). `entry` is the
active conversation with its turn and what its snapshot says, `sdk` the process with the prompts
it has not answered, `waiting` the handlers in `submitAndWaitForTurn`, each of which
holds a lease of the network while it waits. `Shown` is what every event of the process
ends with, `Release` the end of an entry. `starts` are calls of `start` that may outlive
their entry. `End` takes what is in memory, at any moment; `Restart` is the reconciliation of the
journal. `accepted`, `handed`, `confirmed` and `dropped` are history.
The claim, the switch and the adoption are as in `ConversationOwnership`, without the
steps that no prompt can tell apart, and with its restriction on a close during a switch.
A reservation that cannot be saved is modelled in `Start`; after a switch or an
adoption it leaves two processes (see *Observations*) and is left out.

### ProjectLifecycle

One folder with its tabs, transcripts, deletions and closures. `queue` and `live`
are the session operations of a tab in the form `SessionLock` gives them: the head
runs, the last is entitled to unless it is cancelled. `launch` is the launch that
works in a tab, of one of four kinds:

- `continue`: continue or pick, which leaves the transcript to Claude; it registers
  when it is requested, and matches every deletion
  (`claude/launch-decision-ipc.ts:347`);
- `resume`: an exact resume that registers at once;
- `authorized-resume`: one that awaits the network first
  (`ipc/claude-launch.ts:361`);
- `switch`: a launch with only the runtime's own guard (`claude/runtime.ts:768`):
  the switch of a conversation to a terminal, the restore of an adoption, a
  relaunch after a save.

A deletion supersedes the resumes that match, queues an operation in each tab that
runs the transcript or resumes it, and looks again at what runs there when its turn
comes; a closure invalidates, waits, terminates and then asks whether it is still
the folder's last command. `OpenFolder` has no await between its reservation and
its end, so what the code has for superseding an open cannot happen and is not
modelled. The choice Claude makes and its report of it are one step.

### ManagedAuthTransaction

An element of `Account` is the content of an authorization file; `files` are those
the gateway would read, `quarantine` the directories with their marker and
artifacts. `io` is the synchronous work on the file system (recovery, sweep,
quarantine, rollback, commit), one call per step; `FileSystemFails` lets the next
call fail in the way its caller handles that, `Crash` ends the application before
it. `op` is the operation of the gateway's lifecycle queue, a setup or a logout:
its login, up to three attempts, readiness, commit, rollback. `ReadAuthentication`
is a reading by the interface, which may sweep committed directories, at any await
of an operation. The removal of a directory unlinks its entries one by one.

### DownloadTask

`task` is the engine's record (with `auto` and `stall` for its timers), `requests`
the items Electron was asked for and has not delivered, `disk` the staging file,
its copy, the journal's entry and the published file, each as the version and the
number of bytes of its content. An action is what the engine does at one event: a
request of the user (`Start` to `DeleteHistory`), an item that arrives
(`ItemArrives`) or reports (`Progress`, `ServerRestarts`, `Interrupted`,
`Completed`), a timer (`AutoFires`, `StallFires`), the end of a hash
(`VerifyEnds`, `StaleVerifyEnds`). `Faulty` lets a call on a file fail in the
middle of it, and `End` may leave the disk in any state between two calls
(`TornDisks`); `Restart` reads what is left. Assumed: a cancelled item's file is
gone within the time the engine waits for it (`REBIND_SETTLE_MS`); items that are
refused or not yet bound touch no file; an item reports only after the startup has
settled; the journal is replaced atomically by its rename.

`owed` is history: the user still has a claim on the recorded bytes. It is given
up when the user discards or the download fails for good, when a server began
again at byte 0 and nothing has been recorded since, and while an older, shorter
copy is relied on until the next record. A record written while a creation is
unsettled (`rebind`, `startup`) does not restore it: if the creation is refused, the
older record is written back, and that may be longer than any file that is left.
One failing call suffices for that when a server begins again twice: the shorter
record is in the journal, the creation that was to bring the older bytes is refused,
writing the older record back fails once, and disposing of the engine writes it, after
which the copy holds fewer bytes than the journal names.

### ApplicationProxy, NetworkPreflight

`ApplicationProxy` is the coordinator: `session` and the file hold a configuration
each, `queue` the grants and saves, `leases` the epochs their holders work under.
A save waits for every lease, sets one session after the other and commits; any
call may fail, and so may the rollback. `NetworkPreflight` extends it with the
holders: `caller` is a request of the guard from its lease to the end of its
operation, `run` a check, which callers join, force anew, cancel or invalidate,
and `nested` an operation that runs inside another under its lease. A run's key is
the epochs of its lease, its generation the flag `current`. A grant and what its
holder does next are one step, so are the end of a check and its settling. A
remembered verdict may expire whenever it is looked up, and a failure inside the
check appears as such a verdict. Requests while diagnostics are switched off enter
like a bypass. `reconcile` runs at the start only, as it does in the application.

### LaunchPreflightDecision

Calls are numbered: `Launch` are the calls of the launch channels, `Answer` those of
the decision channel. `book` holds the live records, the finished ones in their order and
the pointer of each session (in the one `Map` of the code a live record stays at its place
and a finished one is put at the end, so the live ones are in the order of their
ids and a set tells as much), `intent` the newest launch of a session, `lease` and `aborted` its operation.
Stamps and baselines are only compared for equality, so `stamped` and `grounded`
keep whether they still hold. `BeginLaunch` is a handler up to its first await;
`Block`, `Pause` and `Fail` what follows a verdict; `AnswerTaken` reserves the
decision and starts the answer's own operation; `AssertPreparationCurrent` and
`AssertCurrent` are the checks before and after it has restarted the terminal.
The release of the lease (`Block`) and the handler that pauses (`Pause`) are two steps, as another handler
runs between them. The terminal the launch itself replaces (`RestartTerminal`, with the
map of expected replacements in `index.ts`) is told from one anybody else does.

### ControlledQuit

`confirmation` and `timer` are `quitConfirmation` and its timer, `cleanup` is
`running` while `quitCleanupInProgress` and `late` when the budget is spent and it
goes on detached. `toRenderer` and `toMain` carry the messages in order; `shown` is
the renderer's dialog, `dialogs` are those of the system. `RequestQuit`,
`Invalidate`, `AskResidual`, `Begin`, `Finish` are the functions of `lifecycle.ts`
that the actions are made of. What the cleanup closes is an outcome: it ends with
or without something left (`residual`). The renderer may crash (which asks again
at the next immediate, `Retry`), hang, or be reloaded; the session may end. `will`
and `owed` are history: what the user last had the chance to say, and whether a
request is unanswered. A refusal counts once the main process knows the prompt
was delivered; a reload that takes a delivered prompt with it, and a system dialog
that cannot be shown, give the request up, as the code does.

## The runs

Each run is a small instance explored completely. `tlc -config X.cfg M`; symmetry is
used where only safety is checked.

| run | instance | states | shows |
| --- | --- | --- | --- |
| `session_operation` | 1 session, 3 operations, 2 waiters, 1 stamp, 5 revisions | 133,000 | exclusion, currency, refinement of the lock; every waiter and queued operation gets its turn |
| `development_session` | 2 sessions, 2 switches, 2 engines, 2 profiles, 2 PTY generations | 1,233,000 | guards in both directions, quiet directories, no launch with a stale or tentative profile |
| `development_session_live` | 2 sessions, 1 switch, 2 engines, 1 profile | 190,000 | transactions, switches and closes end |
| `config_transaction` | 2 transactions of a scope, 1 save from outside | 109,000 | the profile is an atomic register, history and Router agree with the outcomes |
| `conversation_ownership` | 2 conversations, 2 tabs, 2 handlers, 2 PTY and 2 native generations | 1,112,000 | one writer, owners, entries, tabs and processes agree, nothing is taken from a native entry |
| `native_turns` | 3 prompts, 3 native lives per run of the application, 2 failed saves, 2 ends | 215,000 | no prompt is lost, none that was sent is offered as a draft, a lease follows its turn |
| `project_lifecycle` | 1 transcript, 2 tabs, 1 deletion, 1 closure, four kinds of launch | 338,000 | superseded commands have no effect, deletions and closures end |
| `managed_auth` | 4 accounts, 2 directories, 2 failing calls, 2 crashes | 147,000 | authorizations are atomic and survive, operations end |
| `download_task` | 2 contents, 2 bytes, 1 automatic continuation, and one each of: request, failing call, server that begins again, end of the application | 428,000 | recorded bytes exist, only verified files are published, transfers end or wait for the user |
| `network_preflight` | 2 callers through both sessions, 2 requests, 2 configurations, 1 save, 2 events | 586,000 | routes hold under their operations, superseded verdicts admit nobody, rollbacks restore, all leases come back |
| `launch_preflight_decision` | 2 sessions, 2 launches, 2 answers, 1 open decision, 2 records, 1 interference | 150,000 | an answer carries on only over untouched ground, withdrawn decisions are gone, all end |
| `controlled_quit` | 2 requests, 5 prompts, 2 crashes, hangs, reloads or ends of the session | 773,000 | the user decides, prompts can be answered, no request is lost |

Deadlock is checked in the authorization run only. In the others a bounded
supply (operations, PTY generations, transactions) is used up and nobody is
obliged to ask for anything more, so the system may really stop.

### The bounds and why they are enough

- *Sessions.* `SessionOperationCoordinator` keeps a record per session and its
  methods touch one, so one session shows all; three operations give a running
  one, one it replaced and one that replaces it, two waiters a wait that is
  superseded; `MaxRevision` allows a stamp to be outdated and renewed. The theorems
  need none of these bounds.
- *Directory.* Isolation and quiet need a session and a sibling; a replaced switch
  needs two; two profiles distinguish old from new; two PTY generations a session
  that was relaunched or reopened.
- *Transactions.* One runs at a time in a scope, so a rollback can disturb what one
  predecessor, one successor or an outsider saved.
- *Ownership.* Two writers need two tabs, or a tab and the native chat; two handlers
  interleave; two native generations let an owner of an earlier life come back, two
  conversations follow one another in a tab. A third PTY generation was explored with one
  conversation (472,000 states), a fourth with one tab (236,000), without a violation.
  `WritersConverge` is not among the runs, as liveness over the instance above takes too
  long; it holds with one conversation and two tabs.
- *Turns.* Three prompts: one that was answered, one that is being answered and a draft. The
  third native life lets a start that was closed fail while another is active and a later
  one begins; a second failed save and a second end meet what the first left. Left out are
  three things a constant names, each of which breaks a property (*Observations*).
- *Folder.* A deletion with its turn in one tab and a launch in the other, a closure
  over both. Also explored, without a violation: two transcripts and two closures
  under symmetry (15 million states, not finished), one transcript with two tabs and two
  closures without the `switch` kind (2.2 million), two transcripts with one tab and
  two closures, liveness included (242,000).
- *Authorization.* Two failures let a rollback fail after a failure; two crashes
  let the recovery itself be interrupted; a login that is repeated needs old,
  new and newer files and one that a logout meets. The second directory is for a login that begins
  while an older one is still there, which none should.
- *Download.* Tasks have different files, so one shows all; two bytes make a file that
  is empty, partial or whole, two contents one that is right and one that is not. The
  code's twelve continuations are one here, so that the last comes soon. The safety
  properties also hold with two requests and two ends (4.3 million states), liveness
  with two ends (899,000).
- *Network.* A check is shared by two, and a save meets the lease of either. The events
  (a decision, a nested operation, a retry, an abort, an invalidation, a failing call)
  share a budget of two. With larger ones the safety properties hold over 9.3 million
  states.
- *Launch decisions.* The limit on open decisions is one, so that a second session's
  evicts the first's. With three launches, two interferences and two open decisions
  no violation was found in the first 18 million states.
- *Quit.* A second request, a crash and a timeout replace a prompt each; beyond
  `MaxPrompts` no further one is shown, and `QuitResolves` asks nothing more. With
  three events 1.7 million states, without a violation.

### Fairness

- `SessionOperation`: a callback ends (`Finish`), a queued operation is continued
  once its predecessor has settled, a resolved wait returns. Callbacks unwind on
  their aborted signal or at the time limits of what they await.
- `DevelopmentSession`: operations, transactions, switches and closes go on, for the
  same reason; launches, opens and requests are not obliged to happen.
- `NativeTurns`: none; only safety is stated, as Claude need not answer.
- `ConversationOwnership`: handlers go on (weak fairness of `Continue`). A tab
  reports again and again, on every render of the status line and every poll of the
  runtime, so a report comes between any two requests of the user: strong fairness
  of `Report`, as a request that is repeated disables it in between. `WritersConverge`
  needs it: the late tab is stopped when it reports.
- `ProjectLifecycle`: launches, deletions and closures go on; each await has an
  outcome.
- `ManagedAuthTransaction`: a synchronous section runs to its end, an operation's
  await ends in success or failure at its time limit.
- `DownloadTask`: the engine's timers fire and a hash ends. Neither Electron nor a
  server nor the user need do anything: that a transfer does not hang is the timers' work.
- `NetworkPreflight`: the queue, checks, operations and their callers go on; probes have
  time limits.
- `LaunchPreflightDecision`: handlers go on and the expiry timer fires; nobody needs to
  answer.
- `ControlledQuit`: timers and immediates fire, messages of a renderer that runs arrive,
  a page loads, a cleanup ends or misses its budget, the watchdog ends the process. Nobody
  makes the user answer or a hung renderer wake.

### What the runs show

Every property named in `PROJECT.json` is stated in a comment at its definition.
The ones that hold say that the defences of this code work where they exist: a
cancelled operation keeps its session busy until it is gone; isolation does not
wait for who waits behind it; a rollback spares newer saves of its own profile; a
late SDK process never stays without an entry; a closure that was superseded closes
nothing; files of an authorization are old or new at every reading; a route is held by
the lease of a check for everybody who joined it, even when the one who brought the lease
has gone; the terminal a launch replaces itself is told from one that was replaced
under it; an answer meant for one prompt to quit never counts for another.

Type invariants (`TypeOK` of every module) hold on the same instances; they are not
among the runs' properties, which are kept for what could be wrong.

### Observations

Where the code and what it says of itself disagree. The first five are counterexamples
TLC finds when a restriction of an instance is lifted, as given; the runs keep the
restrictions, and show that nothing else breaks the properties there.

1. **A rollback rewrites the history of all projects**
   (`TracesFollowOutcome`, with two scopes and a transaction in each). The snapshot of a transaction
   has the whole connection history (`claude/runtime-connection-config.ts:661`); the
   history is then merged as if all of it were the transaction's own (:676), so the
   drift check (`main-process-operation.ts:447`) passes and a rollback (:668) drops a record that a
   transaction of another scope saved meanwhile.
2. **Closing during a switch leaves two writers** (`OneWriter`,
   with `"close-while-switching"` in `Overlaps`). `service.ts:393` releases the owner while `transferToTerminal`
   awaits; the commit throws, the launched terminal is left running and the catch
   (:535) starts the SDK process again, which no entry refers to.
3. **A busy tab is taken over without releasing what it holds**
   (`ProcessAndOwnerAgree`, with two conversations, one tab and `"take-a-busy-tab"` in
   `Overlaps`). `ipc/claude-launch.ts:389` and
   `ipc/conversation.ts:475` overwrite the tab's record; the earlier conversation
   stays locked by a tab that no longer runs it, even after the tab is closed.
4. **A quarantine directory without a marker counts as active**
   (`OwnedSurvives`, with `MarkerlessStops`). An end of the application between
   `mkdirSync` and the first `writeFileSync`
   (`claude/managed-chatgpt-auth-transaction.ts:181-182`) makes the next login's
   recovery delete the current authorization.
5. **A switch that interrupts a reply keeps its network lease** (`LeaseFollowsTurn`, with
   `"that-succeed"` in `Interruptions`). When a confirmed switch to a terminal takes a
   running turn away, `conversation/service.ts:525` drops the entry without finishing the turn. The handler
   of the prompt never returns, although :270 has the lease end with the turn, and
   a proxy setting that is saved later waits for it without end
   (`proxy/application-proxy-coordinator.ts:248`). With
   `"of-tasks"` the same follows from a switch that fails: the restored conversation still
   shows the tasks of the process that was closed.

Seen on the way, by reading or by a variation of an instance:

- If `dispatched` cannot be written after the hand-over (`conversation/service.ts:240`, `"dispatch"` in
  `FailingSaves`), the prompt is reported as failed while Claude answers it, and offered
  as an unsent draft after a restart (`JournalTellsTheTruth`).
- With `IdleOvertaken`: a prompt sent between a result and the `idle` that follows it loses its lease
  to that `idle` (`LeaseFollowsTurn`).
- A reservation that cannot be saved leaves the conversation claimed until the
  application ends (`conversation/service.ts:146`, outside of the `try`); after the commit of a switch or an
  adoption (:518, :658) it leaves an SDK process and a terminal running.
- A recovery card can be discarded while its conversation is active; every later prompt
  is then refused (`recovery-store.ts:484`). A draft kept at a switch is not offered after a
  normal close, and one that was restored and sent stays on its card, as it is sent
  under a new name.

- With one of the other `Overlaps`: a switch while the start has not returned, a tab closed
  while a conversation is switched into it, an adoption while a resume has not
  ended, an adoption of what has moved to another tab (`service.ts:596` reads the
  owner again and stops the wrong tab), two switches at once: each breaks one of
  `OneWriter`, `ProcessAndOwnerAgree`. `EntryKeepsItsConversation` holds with all of
  them.
- An adoption that fails after its tab was closed leaves an SDK process without an
  owner (`service.ts:671`). A claim made for the PTY generation of a launch is
  released if a snapshot of the old, stopped PTY is published before it
  (`index.ts:165`).
- With `RetriedRollback` in `ManagedAuthTransaction`: a rollback that fails half way
  (`managed-chatgpt-gateway.ts:404`) is called again by the handler of the setup
  (:448), and the second call deletes what the first restored (`OwnedSurvives`). The
  same follows from a commit whose `rmSync` unlinks the marker and then fails, as
  the error is ignored (`managed-chatgpt-auth-transaction.ts:219`).
- Compare and restore of a Router configuration are two requests
  (`router-manager.ts:503`); a change of the Router between them is lost.
- A switch to a terminal opens a tab past the folder lifecycle
  (`ipc/conversation.ts:422`) and resumes past the conversation lifecycle (:431):
  a deletion neither cancels nor awaits it, although `conversation/deletion.ts:36` says
  "Deleting a transcript outranks every resume launch". A deletion does not look at
  native conversations at all. This is why `DeletedIsNotResumed` is stated for
  resumes that registered when they were requested.
- A copy of a partial download that an earlier life of the application left is taken for
  one that covers the record, whatever its length (`download/engine-state.ts:241`); the item
  is then cancelled, and progress is lost although a comment (:87) says a cancellation
  cannot erase it. With changed content on the server such a copy, if longer, replaces
  the newer partial file at the next start.
- A download restored at the start that cannot be resumed goes on by itself
  (`download/engine-retry.ts:185`), while `download/engine.ts:192` asks for explicit consent.
  `recoverySnapshotPending` stays set if a refused restore interrupts a held copy.
- Two launches of a busy session: the second supersedes the intent of the first and then
  fails because the session is busy, so both fail. `LiveDecisionIsNewest` shows that
  the intent check of `reserve` (`coordination/launch-preflight-decision.ts:511`) never decides.
- `isQuitting` is called a one-way latch (`app/lifecycle.ts:715`), but a failed installation of
  an update resets it (`ipc/software.ts:45`, `app/bootstrap.ts:839`): a quit asked for
  meanwhile is lost. If writing the download journal throws at the end of a
  session (`app/window.ts:167`), the latch is not set.
- A page that is reloaded after it received a prompt to quit takes it along; nothing tells the
  main process, and the next request goes to the cleanup without asking. A refusal the
  main process has not read when the three seconds end comes too late. A system dialog that
  was superseded stays open, and its answer does nothing.
- The repair journal identifies policies by the hash of their content: a prepared change that
  is followed by an opposite or equal one is later reconciled against what happened
  (`egress-diagnostics/repair-journal.ts:389`).
- A startup connection cancelled after its commit is reported as cancelled
  (`app/startup-model-connection-coordinator.ts:135`).

## Proofs

Eight modules hold theorems; `tlapm` checks each of them by itself. A theorem is about every
value of the constants that satisfies the module's named assumption, which says
what the code takes for granted: that the value for absence is none of the things it is
absent from, that the bounds which keep the explored instances finite are natural numbers,
whichever they are, and what `Route` and `Effective` have in common. Where a run gives a switch of the
model the value under which a property holds (`Overlaps`, `RetriedRollback` and the like), the
theorem has that value as a hypothesis and leaves everything else open. All of them are about `Spec`, or the specification so named in its module (`AuthSpec`, `DownloadSpec`), and use no fairness.

### The session coordinator

`SessionOperationProof` has theorems about `SessionOperation` for every number of
sessions, operations, waiters and stamps. They assume `NoneAssumption` and
`MaxRevisionAssumption`.

| theorem | says |
| --- | --- |
| `TypeCorrect` | `TypeOK` always holds |
| `MutualExclusion` | no two callbacks of a session overlap |
| `LeaseFollowsNewest` | the newest unfinished operation holds the lease |
| `AuthorityHolds` | who passes `assertCurrent` was reserved by the session's last event |
| `LeasesAreTrue` | the two together, `LeaseTellsTheTruth` of the run |
| `WaitIsFinal` | a resolved wait covers all work the session had at the call |
| `StampsAreOneLife` | a stamp admits only if nothing happened since the capture |
| `CoordinatorIsALock` | `Spec` implements `SessionLock` |

*The argument.* Mutual exclusion is not inductive: from "at most one runs" nothing
follows about an operation that is about to take over. The invariant `Queue` says
what `runLatest` builds. A lease belongs to an unfinished operation of its session
(`LeaseSound`), generations tell reservations apart (`DistinctGenerations`), the
newest unfinished operation has the lease (`NewestHoldsLease`), and the unfinished
operations of a session form a line (`Line`): of any two, the newer one waits, for
a predecessor of that session that is unfinished and at least as new as the older
one. So only the oldest can run (`ExclusionFromQueue`). The preservation has a lemma
for each way the line changes: joining at the end (`ReservationQueues`), settling of the
oldest or of one that waits (`SettlingQueues`), taking over (`TakingOverQueues`); cancelling,
waiting and stamping do not touch it (`QueueStutters`). That an operation which settles
is the oldest of its session is `OldestMoves`: this is where `runLatest`'s await of
its predecessor is needed.

On top of `Queue` stand three smaller invariants. `Authority` says that the holder of
an uncancelled lease was reserved at its session's present revision. `Debt` says that
what a waiter is owed has settled or is not newer than what it awaits, which is
unfinished too; as the line settles in order, the wait is final. `StampsAge` says that a
stamp never has a revision ahead of its session's, and one behind if anything has
happened since.

The refinement (`StepRefines`) has a lemma for each kind of step of the lock it maps
to: starting acquires, replacing claims, taking over inherits, finishing releases,
leaving the line and cancelling revoke or stutter. `Holder` is a `CHOOSE`; the lemmas
`HolderIsRunning`, `HolderWillBeRunning` and `HolderStays` say, by mutual exclusion, which operation it is.

### The sessions of a directory

`DevelopmentSessionProof`, for any sets of sessions, switches, engines and profiles.

| theorem | says |
| --- | --- |
| `TypeCorrect` | `TypeOK` always holds |
| `TransactionsAreAlone` | `TransactionIsAlone` |
| `CommitsAreQuiet` | `QuietCommit` |
| `LaunchesAreCurrent` | `LaunchUsesPersistedProfile` |

*The argument.* `TransactionIsAlone` is about the sessions beside the one whose transaction
has been isolated; to keep it, one has to know how it came about. `Reservations` is the shape of the
bookkeeping: the queue names nobody twice and names exactly the sessions in or before a
transaction (`Line`), its head is the active one (`HeadIsActive`), a switch is reserved only
while the queue is empty (`SwitchIsAlone`), and a dropped session never comes back
(`NeverReopened`): otherwise its operation, which may still unwind, would become a sibling
nobody waits for. `SiblingsUnwind` says what the isolating transaction still awaits,
`SwitchUnwinds` the same of a switch; when the last of them has settled, the directory is
quiet. `ReadsCurrentProfile` says that a session at work has read the profile that is
persisted now, which holds because a transaction that completes has all others out of the way.

### Config transactions

`TransactionsProof`, for any sets of transactions, scopes and writers past them.

| theorem | says |
| --- | --- |
| `TypeCorrect` | `TypeOK` always holds |
| `ProfileIsAtomic` | `ConfigTransaction` implements `AtomicProfile`, scope by scope |
| `TracesAreTrue` | with one scope: `TracesFollowOutcome` |

*The argument.* `Transactions` has two parts beside the types: a transaction that was
reserved is in its scope's queue until it is over, and at the head when it acts (`Turns`);
it has a snapshot from then on, and its outcome is settled only when it fails or ends
(`Remembers`). As only the head acts, a compensation finds what its own snapshot says,
and each step maps to a save as a whole, a rollback as a whole or a stutter. `Traces`
adds that the history has a record of exactly the transactions whose outcome says so, in the
snapshot to go back to as well (`HistoryFollows`), and whose provider the Router may hold
(`RouterFollows`). `TracesAreTrue` needs its hypothesis, a single scope: the first
of the disagreements listed above refutes it for two.

### Downloads

`DownloadTaskProof`, for any contents a server may deliver, any length and any number of
requests, faults, servers that begin again and ends of the application.

| theorem | says |
| --- | --- |
| `DownloadTypeCorrect` | `DownloadTypeOK` always holds |
| `FinalIsVerified` | `FinalIsWanted`: only the wanted content, whole, is ever published |
| `RecordedBytesKept` | with at most one failing call: `RecordedBytesExist`, the recorded bytes are in the staging file or its copy whenever the application may end |
| `LiveIsRecorded` | a live download has its record in the journal, and a task that is over has left neither item, timer nor claim on items that come late |

*The argument.* A synchronous section of the engine takes a world (task, disk, requests,
faults) to one of several, according to which of its calls fail; a world is `Good` if it is
`Sound` and its task is either `Alive` or `Finished`. `Sound` is what publication rests on:
a verdict is about the bytes that lie in the staging file now, it goes with the item it
was given for, and while an item is bound nobody waits for another or begins again
underneath it. `Alive` is what the rollbacks rest on: whenever the engine holds an item to
write a record back, there is a record to write back. Each operator of the model has its
lemma, from good worlds to good worlds, so an action is the composition of a few of them.

`RecordedBytesKept` needs more, which `Kept` says of a world while the bytes are owed. The
record the task goes by (`Authority`: the one that was set aside, or else the journal's) is in the
file that the next step looks at (`Guarded`): in the copy if a record was set aside, else in the staging
file. An item claims no byte its file does not hold (`Behind`), and one that writes on has
reached what is recorded (`Moving`). The rest is about the three records a failure may write
back: the one set aside is the journal's own until its write-back has failed (`Fallbacks`);
that of the start is no longer than any written since (`Originals`); that of a creation under way is the
journal's until the item comes, and no longer than the copy made for it from then on
(`Creating`). Without a copy each of them is empty, unless making the copy was the call that failed
and the item is held for it (`Uncopied`). `Begun` adds the order of the creation at the start.
`Spent`, that the one call has failed, occurs in these parts because after it every further
call succeeds, so that a world in which a write-back has failed is followed by one in
which it is done. Again each operator has its lemma, and each action composes them.

The hypothesis is needed. TLC finds, with `MaxFaults = 2`: a server begins
again, the write of the record fails while the engine is being disposed of, a creation
that was late is refused, and the write that would go back to the older record fails
too; the next disposal then writes that older record while the only copy is shorter. The next
start drops such a record and downloads from byte 0, so the bytes are lost but nothing
wrong is published: that is what `FinalIsVerified` says for any number of faults.

### Prompts of a native conversation

`LaunchAndTurnsProof`, for any number of prompts, native lives, failures and ends of the application.

| theorem | says | where |
| --- | --- | --- |
| `JournalIsTrue` | `JournalTellsTheTruth` | a hand-over can always be noted (`"dispatch"` is not in `FailingSaves`) |
| `LeaseIsHeld` | `LeaseFollowsTurn` | and no turn is interrupted by a switch or a task, no prompt overtakes the `idle` of the last |

The hypotheses are those of the run: without each of them, the property fails in a way listed above.

*The argument.* `Journal` says that a running application has in memory what is on the disk
and that an SDK process is up exactly while the conversation is active (`Alive`), that starts
still under way belong to different generations, and to a fresh conversation only before its first
prompt (`Lives`), and what the record on the disk tells of each prompt that was taken
(`Tells`): that it is there, and ambiguous once it was handed over. It is kept by
each mutation of the journal, with a lemma for each, whether or not its save succeeds. `Turn` adds, for the
leases, that the phase of the entry is that of the process, which works on one prompt at most.

### Owners of a conversation

`ConversationOwnershipProof`, for any number of conversations, tabs, handlers, PTY and native generations.

| theorem | says |
| --- | --- |
| `TypeCorrect` | `TypeOK` always holds |
| `OneWriterAtATime` | `OneWriter` |
| `OwnersAreTrue` | `ProcessAndOwnerAgree` |
| `EntriesKeepTheirConversation` | `EntryKeepsItsConversation` |

All four have the hypothesis `Overlaps = {}`, which is that of the run: each of the overlaps refutes
one of the first two properties. TLC finds the last one true with all of them; the proof does not
show that, since it needs the invariant, which the overlaps break.

*The argument.* The properties speak of moments at which no handler works; the invariant has to say what
a handler has done at each of its awaits. A handler in flight *drives* the entry of its conversation
until it is `lost`, which is exactly when the entry is not its own any more (`Flight`); an entry has one
driver at most (`OneDriver`), and either a driver or a process and the registry (`Entries`). A terminal
owner is what its tab has on record, and the tab is open (`Records`). A tab has one
handler at most that moves a conversation into or out of it (`OneMover`), and what such a handler
holds is still so (`Movers`): the owner an adoption took is the owner until the adoption ends, and
the tab runs nothing of the application's while its native process starts. Of the operations of a tab
all but one are stale (`OneOperation`); a claim a tab has on record by a resume is that resume's (`Claims`); and what the
application launched in a tab, once confirmed, belongs to the tab (`Launched`). `OneWriter` then follows from
`Launched` and `Entries`: two tabs would both be the owner, and a tab and an SDK process leave only
an adoption that `Movers` excludes. Each handler step is a lemma; steps that end alike share one
(`HandlerDropsKeeps`: a handler gives up the entry; `EntryEndsKeeps`: an entry goes with its
process; `TabFreedKeeps`: a tab gives up what it holds; `ReportClaimsKeeps`: a report claims).

### Projects

`LifecycleProof`, for any number of conversations, tabs, deletions and closures.

| theorem | says |
| --- | --- |
| `TypeCorrect` | `TypeOK` always holds |
| `TabsAccounted` | `TabsAreAccountedFor` |
| `ClosuresAreWanted` | `LastWordCounts` |
| `DeletedStayDeleted` | `DeletedIsNotResumed` |
| `DeletionsSpareOthers` | `DeletionSparesOthers` |

*The argument.* `Types` includes the shape of the queues of the tabs: nobody twice, and a launch
only at the head. `Accounted` says that what lives is an open tab, that a folder with open tabs is
listed, and that a closure which has not been overtaken is the last word and has captured
every open tab. `Respected` is about resumes: one that registered names no transcript under
deletion and one that exists (`Barred`), and a deletion waits for every tab that resumed what it deletes
(`Asked`). The order of the handlers' steps is what keeps these: the barrier goes up before the
deletion looks for tabs, and a launch registers before its first await.

### Decisions on a paused launch

`LaunchAndTurnsProof` again, for any sessions, launches, answers, decisions and
interferences, and for any two limits of which the one on live decisions is not the greater.

| theorem | says |
| --- | --- |
| `LiveDecisions` | `LiveDecisionIsNewest`: what can be answered is the newest launch's of its session, the session points to it and to nothing else, both limits hold |
| `EntryIsUndisturbed` | `EntersUndisturbed`: an answer enters a launch only if nothing happened to the session since that launch began |
| `OutcomesTellTerminals` | `OutcomeTellsTerminal`: a run is told as completed exactly when it leaves a terminal of its own running |

*The argument.* `DecisionIInv` has five parts beside the types. `Calls`: a call that was not made is
of no session, what is under way or stamped was made, an intent is a launch of its session.
`Leases`: a run inside its operation holds its session's lease, so two runs of a session never are.
`Decisions`: the book by itself (`Fits`: ids are told apart and were issued, pointers lead to live
records, both limits hold) and among the launches (`Owned`: a live decision is the
newest launch's, its session's pointer leads to it, and the run that stamped it belongs to that
launch). `Undisturbed`: a launch whose session saw an interference is no longer the newest, or has lost
its ground, or no run of it has a stamp that is worth anything; an answer gets a stamp only
against the paused run's, which is why `Owned` has to tell of stamps. `Terminals`: a run
has started no terminal before its launch was prepared, and afterwards the session's terminal is its own
as long as its launch is the newest. None of the three properties is inductive without the
others: that an entered run is undisturbed rests on intents and stamps, that a stamp is
good on leases and calls, that a completed run's terminal is its own on the intent.

Every operation of the coordinator has a lemma that it leads from a book that fits to one
that does. That eviction takes a live record needs the oldest of a set to exist, hence that a
nonempty set of numbers has a least one (`LeastNumber`, from the library's theorem that
the numbers are well-founded), the one place where an induction is used. A step is then quiet
(`QuietStep`: it withdraws and ends, and opens nothing) or one of `BeginLaunch`, `AnswerTaken`,
`Pause` and `TimePasses`, which have a proof each. TLC found the invariant to hold of the run's
instance and of a larger one before it was proved.

### Leaving the application

`LifecycleProof`, too, which extends both modules (that is why the quit's specification is
`QuitSpec`), for any number of requests, prompts, crashes, hangs and reloads and queues of any
length between the processes.

| theorem | says |
| --- | --- |
| `QuitTypeCorrect` | `QuitTypeOK` always holds |
| `PromptOnScreenIsOpen` | `PromptsAgree` |
| `UserHasTheWord` | `UserDecides` |

The invariant `QuitIInv` says what is under way. Prompts are numbered as they are issued, so that a
prompt on its way to the renderer is newer than the one it shows, and both are newer than any it has
answered (`Numbered`); each prompt that is shown or under way is open, or followed in the queue by a
newer one or its withdrawal (`Agree`); the renderer shows the open prompt as what it is (`Alike`). So
an answer that arrives for the open prompt is no older than any other, and what will be done on it is
what the user last said (`Willed`): nobody has declined while a delivery timer or a cleanup runs,
and a forced cleanup has the user's word. A quit to be asked for again after a crash finds the
renderer gone or loading (`Apart`), and so skips the prompt. What a step does to the queues is proved
once for each way they change (`QueuesStand`, `WithdrawalQueues`, `RequestQueues`, `LossQueues`,
`ReceiptQueues`, `DeliveryQueues`, `DecisionQueues`) and cited by the lemmas of the actions. TLC found the invariant's parts
to hold in the run's instance before they were proved.

### The authorization transaction

`TransactionsProof`, for any sets of accounts and directories and any number of failing calls and
ends of the application.

| theorem | says |
| --- | --- |
| `AuthTypeCorrect` | `AuthTypeOK` always holds |
| `ReadableAreOwned` | `ReadableIsOwned` |
| `OwnedStays` | `OwnedSurvives` |
| `FilesStand` | `FilesStandWhileRunning` |

The hypothesis `Sheltered` is that of the run: no call fails and no end comes in the two stretches where a
directory has no marker (`MarkerlessStops`), and no failing call interrupts the rollback between two attempts,
which is then called again (`RetriedRollback`). Without either, authorizations are lost as listed above.

*The argument.* There is one directory at most (`Alone`), so its marker can say where what the user owns is:
none, in the files (`Settled`); preparing or restoring, in the files and the artifacts together; active or
discarding, in the artifacts; committed, in the files (`Told`). For the marker to be true after every single call,
the call has to come at a stage that fits it: `Stands` has the marker each stage of the work relies on,
`Aimed` what the stage is part of, `Visits` which directories a recovery or a sweep has still before it. `Placed` and
`Owned` relate the work to the operation that waits for it: a transaction in a local variable is active at each await. With
`Served`, that a gateway runs only where the operation exchanges nothing, the properties follow. The argument is by stage
and not by operation: an end of the application keeps the marker and the artifacts, and the recovery begins with what they say.

### The proxy and the access guard

`NetworkPreflightProof`, for any number of callers, checks, leases and configurations, of `ApplicationProxy` under `NetworkPreflight`.

| theorem | says |
| --- | --- |
| `TypeCorrect` | `TypeOK` always holds |
| `StableUsesStored` | `StableIsStored` |
| `LastWordAdmits` | `EntersOnLastWord` |
| `RoutesAreHeld` | `RouteIsHeld` |

*The argument.* `Types` has, beside `TypeOK`, what makes the table lookups of the steps
meaningful: whose acquisitions are in the queue and in which order (`Order`), which fields of a
request are set in which phase (`Fits`), that a check has a key and a route once it is under way.
`Storing` says how far a save has come: each scope outside of what was touched is settled with
the stored configuration, each one that is done with the new one (`Saving`), and the way back
settles the touched ones again (`Undoing`); a scope that is not stable has no credentials but those of
the change under way (`Coherent`). `LastWordAdmits` follows from a lemma about which steps let
a caller enter at all (`OnlyEnters`, `OnlyNestedEnters`).

`RouteIsHeld` by itself is not inductive: what keeps the route of an operation may be the
lease of another caller, whose check it joined and who left first. `Lent` relates each lease to
whoever will return it. `LeasesHold`: while a lease is out nothing works at the head of the
queue and its scopes are stable under its epochs. `RunsSaw` and `CallersSaw`: what a check, a
verdict in use or a blocked request saw under certain epochs is so as long as the scopes have
these epochs, and no such epoch is still to be drawn. `Held`: a lease has at most one owner
(`OneOwner`), a check, or a caller that did not join one; a check that somebody waits for, or that
is under way, has its lease among those that are out; who operates on a check's lease is
among its waiters; and a check that borrows its lease does so from somebody who cannot
leave before it has ended (`Backs`: the caller waits for it to drain). A lender may itself
share another check that borrows, and so on; that such chains end at an owner is `Grounded`,
stated over sets of checks: every nonempty set of checks that have leases contains one that
owns it or borrows it from outside the set. So a lease that its owner returns is nobody
else's (`LeasesGone`). Each action is shown to lead from one such table of checks and callers to
another, by the general lemmas `Moves` (one caller goes on), `NewRunHeld` (a check begins),
`BecomesHeld` (what is drained is tidied up and returned) and `SeenUntilThen` (sessions change
only while no lease is out). TLC found `Lent` to be an invariant of a small instance (three requests, two events)
before it was proved. The theorem has no bound on callers, checks, nested operations or
retries beyond the constants, and needs no fairness.

### Only model-checked

Every invariant, action property and refinement the runs check is stated by a theorem, some under
the hypotheses named with it. Liveness (`NobodyWaitsForever` and the
like) stays with TLC, and so does what depends on `ENABLED`, which the prover cannot treat. `DevelopmentSession` and
`ProjectLifecycle` rely on what is proved of the session coordinator when they name an
operation by its session or keep a queue per tab; that reliance is not itself a theorem.

## Not modelled

- *Data*: contents of profiles, prompts, transcripts, terminal output; texts,
  formatting, logging; validation of arguments in the handlers.
- *The operating system*: process trees (`runtime/process-registry.ts`) are read from
  snapshots whose timing a model could only assume; PTYs, named pipes, proxies, HTTP.
  Their calls appear as awaits that succeed or fail.
- *Interface*: preload, renderer, window and tray, but for what `ControlledQuit` has of
  them; the reducer of conversation events is
  pure and covered by its tests.
- *Features beside the core*: chat, MCP, subscriptions, usage, updates, plugins. They
  share no state with the modelled parts but the registry of busy work.
- *Left out of modelled parts*: background sessions and the
  separate coordinator of conversation-scoped profiles (which has no isolation) in
  `DevelopmentSession`; permission requests, controls and attachments of native conversations, and the
  backup of their journal; the installer and configuration files of the managed gateway; the check that a quarantine
  directory is owned and has no unknown entries, a call that may fail; an OAuth process that writes after it was given up;
  the list of finished downloads, mirrors and speeds; keys of a check that differ in more than the
  route, the rules for a verdict, the lease of the egress diagnostics; the kinds of launch and the refusals
  while a project switches in `LaunchPreflightDecision`; the installer of updates in `ControlledQuit`.
- *Repair of the egress policy*: its journal and applier are used by tests only.
- *Route lifecycle, startup connection, background tasks*: see the plan.

`PROJECT.json` lists every component with what is left out of it.

## Plan

Done, in this order: the session coordinator with its lock and its proof; the
directory's coordinators over it; transactions and the atomic register; ownership of
conversations; the folder lifecycle; the authorization transaction; the download task;
the proxy and the access guard over it; launch decisions; leaving; prompts and their
journal.

Modules that could follow: the route lifecycle with the startup connection under a
launch; the repair of the egress policy once the application uses it.
