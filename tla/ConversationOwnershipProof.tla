----------------------- MODULE ConversationOwnershipProof -----------------------
(***************************************************************************)
(* What TLAPS proves about the ownership of conversations: that the        *)
(* application keeps one process of its own on a transcript, that          *)
(* processes and owners come and go together, and that a native entry      *)
(* keeps its conversation, for every set of conversations, tabs and        *)
(* handlers and every number of generations, as long as the user's         *)
(* requests do not overlap (the run of ConversationOwnership.cfg shows the *)
(* same on a small instance, under the same hypothesis).                   *)
(***************************************************************************)
EXTENDS ConversationOwnership, FiniteSetTheorems, TLAPS

RequestRecord == [kind : Kinds \cup {"none"}, c : Conversations \cup {None},
                  t : Tabs \cup {None}, gen : Nat, pc : Places \cup {"done"},
                  saved : Owners \cup {None}, lost : BOOLEAN, stale : BOOLEAN]

(* The awaits of each kind of handler, and what it has in its variables.   *)
Located(q) ==
  /\ q.kind = "none" => q = Idle
  /\ q.kind = "start" => q.pc \in {"spawn", "init"}
  /\ q.kind = "switch" => q.pc \in {"authorizing", "launching", "spawn", "init"}
  /\ q.kind = "adopt" => q.pc \in {"preparing", "stopping", "spawn", "init", "restoring"}
  /\ q.kind = "resume" => q.pc \in {"authorizing", "launching", "confirming"}
  /\ q.kind # "none" => q.c \in Conversations
  /\ q.kind \in {"adopt", "resume"} => q.t \in Tabs
  /\ q.kind = "switch" /\ q.pc # "authorizing" => q.t \in Tabs
  /\ q.kind = "start" \/ (q.kind = "switch" /\ q.pc = "authorizing") => q.t = None
  /\ q.pc \in {"authorizing", "preparing"} => ~q.lost

Typed ==
  /\ owner \in [Conversations -> Owners \cup {None}]
  /\ active \in [Conversations -> 0..MaxNative]
  /\ generation \in [Conversations -> 0..MaxNative]
  /\ switching \subseteq Conversations /\ native \subseteq Conversations
  /\ tab \in [Tabs -> TabStates]
  /\ tabOwner \in [Tabs -> Holdings \cup {None}]
  /\ moving \subseteq Tabs
  /\ request \in [Requests -> RequestRecord]

Placed == \A r \in Requests : Located(request[r])

(* A step leaves what the handler is for, and what it remembers.           *)
Kept(r) ==
  /\ request'[r].kind = request[r].kind /\ request'[r].c = request[r].c
  /\ request'[r].t = request[r].t /\ request'[r].gen = request[r].gen
  /\ request'[r].saved = request[r].saved

(* A step of others at most makes the handler stale.                       *)
Aside(s) ==
  /\ Kept(s) /\ request'[s].pc = request[s].pc /\ request'[s].lost = request[s].lost
  /\ request[s].kind = "none" => request'[s] = request[s]

(* A handler that works on an entry of the service, and one that still     *)
(* finds it the one it works on.                                           *)
InFlight(q) ==
  \/ q.kind = "start"
  \/ q.kind = "switch" /\ q.pc # "authorizing"
  \/ q.kind = "adopt" /\ q.pc \in {"stopping", "spawn", "init"}

Drives(q) == InFlight(q) /\ ~q.lost

Generations ==
  /\ \A c \in Conversations : active[c] <= generation[c]
  /\ \A r \in Requests :
       InFlight(request[r]) \/ request[r].kind = "switch" =>
         request[r].gen \in 1..generation[request[r].c]

(* A handler in flight is lost exactly when the entry is not its own any   *)
(* more; until then the registry, the processes and the switches are what  *)
(* its place says.                                                         *)
FlightOf(r) ==
  LET q == request[r] IN
  InFlight(q) =>
     /\ q.lost <=> active[q.c] # q.gen
     /\ q.pc \in {"launching", "stopping"} => ~q.lost
     /\ q.kind \in {"switch", "adopt"} /\ q.pc = "spawn" => ~q.lost
     /\ q.kind = "adopt" /\ q.lost => active[q.c] = 0
     /\ q.kind = "start" /\ ~q.lost => owner[q.c] = NativeOwner(q.gen, "starting")
     /\ q.kind = "switch" /\ ~q.lost => SameOwner(owner[q.c], NativeOwner(q.gen, "active"))
     /\ q.kind = "switch" => SameOwner(q.saved, NativeOwner(q.gen, "active"))
     /\ ~q.lost => (q.c \in native <=> q.pc = "init")
     /\ ~q.lost => (q.c \in switching <=> q.kind \in {"switch", "adopt"})

Flight == \A r \in Requests : FlightOf(r)

OneDriver ==
  \A r, s \in Requests :
    Drives(request[r]) /\ Drives(request[s]) /\ request[r].c = request[s].c => r = s

(* No switch is asked for while the start of that generation is under way. *)
StartedFirst ==
  \A r, s \in Requests :
    /\ request[r].kind = "start" /\ ~request[r].lost
    /\ request[s].kind = "switch" /\ request[r].c = request[s].c
    => request[r].gen # request[s].gen

(* An entry has a handler that drives it, or a process and the registry.   *)
Driven(c) == \E r \in Requests : Drives(request[r]) /\ request[r].c = c
Adopted(c) ==
  \E r \in Requests : Drives(request[r]) /\ request[r].kind = "adopt" /\ request[r].c = c

Entry(c) ==
  /\ c \in native \/ c \in switching => active[c] # 0
  /\ active[c] # 0 /\ ~Driven(c) => c \in native /\ c \notin switching
  /\ active[c] # 0 /\ ~Adopted(c) => SameOwner(owner[c], NativeOwner(active[c], "active"))
  /\ owner[c] # None /\ owner[c].kind = "native" => active[c] = owner[c].gen

Entries == \A c \in Conversations : Entry(c)

(* A terminal owner is what its tab has on record.                         *)
Holds(t, c) == owner[c] # None /\ owner[c].kind = "terminal" /\ owner[c].by = t

Records ==
  \A c \in Conversations, t \in Tabs : Holds(t, c) =>
     /\ tab[t].open /\ tabOwner[t] # None
     /\ tabOwner[t].conv = c /\ tabOwner[t].gen = owner[c].gen

(* One handler at most moves a conversation into or out of a tab.          *)
Moves(q) == (q.kind = "switch" /\ q.pc # "authorizing") \/ q.kind = "adopt"

OneMover ==
  \A r, s \in Requests :
    Moves(request[r]) /\ Moves(request[s]) /\ request[r].t = request[s].t => r = s

(* The terminal owner an adoption took stays the owner until it ends.      *)
Adopting(q) == q.kind = "adopt" /\ q.pc # "preparing"

MoverOf(r) ==
    LET q == request[r] IN
    /\ Moves(q) /\ q.pc # "preparing" => q.t \in moving
    /\ Adopting(q) =>
         /\ tab[q.t].open
         /\ q.saved # None /\ q.saved.kind = "terminal" /\ q.saved.by = q.t
         /\ q.saved.phase # "starting"
         /\ SameOwner(owner[q.c], q.saved) /\ owner[q.c].phase # "starting"
         /\ q.pc = "restoring" => active[q.c] = 0
         /\ q.pc \in {"spawn", "init"} => tab[q.t].by = "user"
    /\ q.kind = "switch" /\ q.pc = "launching" => ~Busy(q.t, q.c)

Movers == \A r \in Requests : MoverOf(r)

OneOperation ==
  \A r, s \in Requests :
    /\ r # s /\ request[r].t = request[s].t
    /\ InOperation(request[r]) /\ InOperation(request[s])
    => request[r].stale \/ request[s].stale

(* What a resume has claimed is its own until it is confirmed.             *)
Resuming(q) == q.kind = "resume" /\ q.pc # "authorizing"

ClaimOf(r) ==
  LET q == request[r] IN
  Resuming(q) =>
    /\ tabOwner[q.t] # None /\ tabOwner[q.t].via = r =>
         /\ tabOwner[q.t].conv = q.c /\ tabOwner[q.t].gen = q.gen
         /\ Holds(q.t, q.c) => owner[q.c].phase = "starting"
    /\ ~q.stale /\ tabOwner[q.t] # None => tabOwner[q.t].via \in {r, None}
    /\ q.pc = "launching" => tab[q.t].by = "user"
    /\ q.pc = "confirming" =>
         /\ tab[q.t].open /\ tab[q.t].pty = q.gen
         /\ tab[q.t].by = "app" => tab[q.t].runs = q.c
    /\ \A s \in Requests : Adopting(request[s]) /\ request[s].t = q.t =>
         request[s].pc = "stopping" /\ q.stale

Claims == \A r \in Requests : ClaimOf(r)

(* What the application launched in a tab belongs to the tab.              *)
Launching(t) ==
  /\ tab[t].by = "app" => tab[t].runs # None
  /\ tab[t].by = "app" /\ ~Unconfirmed(t) => Holds(t, tab[t].runs)
  /\ ~tab[t].open => tab[t].by = "user"

Launched == \A t \in Tabs : Launching(t)

IInv ==
  /\ Typed /\ Placed /\ Generations /\ Flight /\ OneDriver /\ StartedFirst /\ Entries
  /\ Records /\ OneMover /\ Movers /\ OneOperation /\ Claims /\ Launched

-----------------------------------------------------------------------------
(* The steps.                                                              *)

(* The records of the registry are of their types.                         *)
LEMMA OwnerTypes ==
  /\ \A t \in Tabs, g \in 1..MaxPty + 1, p \in Phases :
       TerminalOwner(t, g, p) \in Owners /\ TerminalOwner(t, g, p) # None
  /\ \A g \in 1..MaxNative, p \in Phases :
       NativeOwner(g, p) \in Owners /\ NativeOwner(g, p) # None
  BY AbsenceAssumption DEF TerminalOwner, NativeOwner, Owners

(* The phase does not matter for who an owner is.                          *)
LEMMA NativeOwners ==
  ASSUME NEW g \in 1..MaxNative, NEW p \in Phases, NEW o \in Phases
  PROVE  /\ SameOwner(NativeOwner(g, p), NativeOwner(g, o))
         /\ NativeOwner(g, p).kind = "native" /\ NativeOwner(g, p).gen = g
         /\ NativeOwner(g, p).phase = p
<1>1. NativeOwner(g, p) # None /\ NativeOwner(g, o) # None
  BY OwnerTypes
<1> QED
  BY <1>1 DEF SameOwner, NativeOwner

(* A handler begins with nothing.                                          *)
LEMMA IdleTyped == Idle \in RequestRecord
  BY DEF Idle, RequestRecord, Kinds, Places

(* Invalidation makes the operations of the tab stale, but for one, and    *)
(* changes nothing else.                                                   *)
LEMMA InvalidateStales ==
  ASSUME NEW req \in [Requests -> RequestRecord], NEW r, NEW t
  PROVE  LET inv == Invalidate(req, r, t) IN
         /\ inv \in [Requests -> RequestRecord]
         /\ \A s \in Requests :
              /\ inv[s].kind = req[s].kind /\ inv[s].c = req[s].c
              /\ inv[s].t = req[s].t /\ inv[s].gen = req[s].gen
              /\ inv[s].pc = req[s].pc /\ inv[s].saved = req[s].saved
              /\ inv[s].lost = req[s].lost
              /\ req[s].stale => inv[s].stale
              /\ s # r /\ req[s].t = t /\ InOperation(req[s]) => inv[s].stale
              /\ s = r \/ req[s].t # t \/ ~InOperation(req[s]) => inv[s] = req[s]
<1> DEFINE inv == Invalidate(req, r, t)
<1>1. inv = [q \in Requests |-> IF q # r /\ req[q].t = t /\ InOperation(req[q])
                                THEN [req[q] EXCEPT !.stale = TRUE] ELSE req[q]]
  BY DEF Invalidate
<1> HIDE DEF inv
<1>2. ASSUME NEW s \in Requests, s # r, req[s].t = t, InOperation(req[s])
      PROVE  inv[s] = [req[s] EXCEPT !.stale = TRUE]
  BY <1>1, <1>2
<1>3. ASSUME NEW s \in Requests, s = r \/ req[s].t # t \/ ~InOperation(req[s])
      PROVE  inv[s] = req[s]
  BY <1>1, <1>3
<1>4. inv \in [Requests -> RequestRecord]
  <2>1. ASSUME NEW s \in Requests PROVE inv[s] \in RequestRecord
    <3>1. req[s] \in RequestRecord
      OBVIOUS
    <3>2. [req[s] EXCEPT !.stale = TRUE] \in RequestRecord
      BY <3>1 DEF RequestRecord
    <3> QED
      BY <1>2, <1>3, <3>1, <3>2
  <2> QED
    BY <1>1, <2>1
<1> QED
  BY <1>2, <1>3, <1>4 DEF RequestRecord, inv

(* Cancelling makes the starts of the conversation lost, but for one, and  *)
(* changes nothing else.                                                   *)
LEMMA CancelLoses ==
  ASSUME NEW req \in [Requests -> RequestRecord], NEW r, NEW c
  PROVE  LET can == CancelStarts(req, r, c) IN
         /\ can \in [Requests -> RequestRecord]
         /\ \A s \in Requests :
              /\ can[s].kind = req[s].kind /\ can[s].c = req[s].c
              /\ can[s].t = req[s].t /\ can[s].gen = req[s].gen
              /\ can[s].pc = req[s].pc /\ can[s].saved = req[s].saved
              /\ can[s].stale = req[s].stale
              /\ s # r /\ req[s].c = c /\ req[s].pc \in {"spawn", "init"} => can[s].lost
              /\ s = r \/ req[s].c # c \/ req[s].pc \notin {"spawn", "init"} =>
                   can[s] = req[s]
<1> DEFINE can == CancelStarts(req, r, c)
<1>1. can = [q \in Requests |-> IF q # r /\ req[q].c = c /\ req[q].pc \in {"spawn", "init"}
                                THEN [req[q] EXCEPT !.lost = TRUE] ELSE req[q]]
  BY DEF CancelStarts
<1> HIDE DEF can
<1>2. ASSUME NEW s \in Requests, s # r, req[s].c = c, req[s].pc \in {"spawn", "init"}
      PROVE  can[s] = [req[s] EXCEPT !.lost = TRUE]
  BY <1>1, <1>2
<1>3. ASSUME NEW s \in Requests, s = r \/ req[s].c # c \/ req[s].pc \notin {"spawn", "init"}
      PROVE  can[s] = req[s]
  BY <1>1, <1>3
<1>4. can \in [Requests -> RequestRecord]
  <2>1. ASSUME NEW s \in Requests PROVE can[s] \in RequestRecord
    <3>1. req[s] \in RequestRecord
      OBVIOUS
    <3>2. [req[s] EXCEPT !.lost = TRUE] \in RequestRecord
      BY <3>1 DEF RequestRecord
    <3> QED
      BY <1>2, <1>3, <3>1, <3>2
  <2> QED
    BY <1>1, <2>1
<1> QED
  BY <1>2, <1>3, <1>4 DEF RequestRecord, can

(* A handler that drives an entry finds it as its own.                     *)
LEMMA DriverStands ==
  ASSUME IInv, NEW r \in Requests, Drives(request[r])
  PROVE  /\ request[r].c \in Conversations /\ request[r].gen \in 1..MaxNative
         /\ active[request[r].c] = request[r].gen /\ active[request[r].c] # 0
         /\ Driven(request[r].c)
         /\ \A s \in Requests : Drives(request[s]) /\ request[s].c = request[r].c => s = r
<1>1. InFlight(request[r]) /\ ~request[r].lost
  BY DEF Drives
<1>2. request[r].c \in Conversations
  BY <1>1 DEF IInv, Placed, Located, InFlight
<1>3. request[r].gen \in 1..generation[request[r].c]
  BY <1>1 DEF IInv, Generations
<1>4. request[r].gen \in 1..MaxNative
  <2>1. generation \in [Conversations -> 0..MaxNative]
    BY DEF IInv, Typed
  <2> QED
    BY <1>2, <1>3, <2>1, OwnershipAssumption
<1>5. active[request[r].c] = request[r].gen
  BY <1>1 DEF IInv, Flight, FlightOf
<1>6. \A s \in Requests : Drives(request[s]) /\ request[s].c = request[r].c => s = r
  BY DEF IInv, OneDriver
<1> QED
  BY <1>2, <1>4, <1>5, <1>6 DEF Driven

(* Releasing a tab frees the conversation it holds, and no other.          *)
LEMMA ReleaseTabFrees ==
  ASSUME IInv, NEW t \in Tabs
  PROVE  /\ ReleaseTab(owner, t) \in [Conversations -> Owners \cup {None}]
         /\ \A d \in Conversations :
              ReleaseTab(owner, t)[d] =
                IF tabOwner[t] # None /\ Holds(t, d) THEN None ELSE owner[d]
<1>1. CASE tabOwner[t] = None
  BY <1>1 DEF ReleaseTab, IInv, Typed
<1>2. CASE tabOwner[t] # None
  <2> DEFINE e == tabOwner[t].conv
             o == TerminalOwner(t, tabOwner[t].gen, "active")
  <2>1. e \in Conversations /\ tabOwner[t].gen \in 1..MaxPty + 1
    BY <1>2 DEF IInv, Typed, Holdings
  <2>2. ReleaseTab(owner, t) = IF SameOwner(owner[e], o) THEN [owner EXCEPT ![e] = None]
                               ELSE owner
    BY <1>2 DEF ReleaseTab, ReleaseOwner
  <2>3. SameOwner(owner[e], o) <=> Holds(t, e)
    <3>1. o # None /\ o.kind = "terminal" /\ o.by = t /\ o.gen = tabOwner[t].gen
      BY <2>1, OwnerTypes DEF TerminalOwner, Phases
    <3>2. Holds(t, e) => owner[e].gen = tabOwner[t].gen
      BY <2>1 DEF IInv, Records
    <3> QED
      BY <3>1, <3>2 DEF SameOwner, Holds
  <2>4. \A d \in Conversations : Holds(t, d) => d = e
    BY DEF IInv, Records
  <2> HIDE DEF e, o
  <2> QED
    BY <1>2, <2>1, <2>2, <2>3, <2>4 DEF IInv, Typed
<1> QED
  BY <1>1, <1>2

(* Where a handler is tells which kind it is.                              *)
LEMMA PlaceTells ==
  ASSUME Typed, Placed, NEW r \in Requests
  PROVE  /\ request[r].pc = "confirming" => request[r].kind = "resume"
         /\ request[r].pc \in {"stopping", "preparing", "restoring"} =>
              request[r].kind = "adopt"
         /\ request[r].pc \in {"spawn", "init"} =>
              InFlight(request[r]) /\ request[r].kind \in {"start", "switch", "adopt"}
         /\ InOperation(request[r]) => request[r].kind \in {"switch", "adopt", "resume"}
<1>1. request[r] \in RequestRecord /\ Located(request[r])
  BY DEF Typed, Placed
<1> QED
  BY <1>1 DEF RequestRecord, Kinds, Located, Idle, InFlight, InOperation

(* What stopping a tab changes.                                            *)
LEMMA StoppedTab ==
  ASSUME Typed, NEW t \in Tabs
  PROVE  /\ Stopped(t) \in [Tabs -> TabStates]
         /\ \A u \in Tabs : u # t => Stopped(t)[u] = tab[u]
         /\ Stopped(t)[t].open = tab[t].open /\ Stopped(t)[t].pty = tab[t].pty
         /\ Stopped(t)[t].runs = None /\ Stopped(t)[t].by = "user"
<1>1. tab \in [Tabs -> TabStates]
  BY DEF Typed
<1> QED
  BY <1>1 DEF Stopped, TabStates

(* What launching a conversation in a tab changes.                         *)
LEMMA RelaunchedTab ==
  ASSUME Typed, NEW t \in Tabs, NEW c \in Conversations, tab[t].pty < MaxPty
  PROVE  /\ Relaunched(t, c) \in [Tabs -> TabStates]
         /\ \A u \in Tabs : u # t => Relaunched(t, c)[u] = tab[u]
         /\ Relaunched(t, c)[t].open = tab[t].open
         /\ Relaunched(t, c)[t].pty = tab[t].pty + 1
         /\ Relaunched(t, c)[t].runs = c /\ Relaunched(t, c)[t].by = "app"
<1>1. tab \in [Tabs -> TabStates]
  BY DEF Typed
<1>2. tab[t].pty + 1 \in 1..MaxPty
  BY <1>1, OwnershipAssumption DEF TabStates
<1>3. PICK p : p = tab[t].pty + 1
  OBVIOUS
<1>4. PICK n : n = [tab[t] EXCEPT !.pty = p, !.live = TRUE, !.runs = c, !.by = "app"]
  OBVIOUS
<1>5. n \in TabStates /\ n.open = tab[t].open /\ n.pty = p /\ n.runs = c /\ n.by = "app"
  BY <1>1, <1>2, <1>3, <1>4 DEF TabStates
<1>6. Relaunched(t, c) = [tab EXCEPT ![t] = n]
  BY <1>1, <1>3, <1>4 DEF Relaunched, TabStates
<1> QED
  BY <1>1, <1>3, <1>5, <1>6

(* What a launch that fails changes.                                       *)
LEMMA FailedTab ==
  ASSUME Typed, NEW t \in Tabs, tab[t].pty < MaxPty
  PROVE  /\ FailedLaunch(t) \in [Tabs -> TabStates]
         /\ \A u \in Tabs : u # t => FailedLaunch(t)[u] = tab[u]
         /\ FailedLaunch(t)[t].open = tab[t].open
         /\ FailedLaunch(t)[t].runs = None /\ FailedLaunch(t)[t].by = "user"
<1>1. tab \in [Tabs -> TabStates]
  BY DEF Typed
<1>2. tab[t].pty + 1 \in 1..MaxPty
  BY <1>1, OwnershipAssumption DEF TabStates
<1>3. Stopped(t)[t].pty = tab[t].pty
  BY StoppedTab
<1> QED
  BY <1>2, <1>3, StoppedTab DEF FailedLaunch, TabStates

(* A change of the phase leaves who the owner is.                          *)
LEMMA PhaseChanges ==
  ASSUME Typed, NEW c \in Conversations, owner[c] # None, NEW p \in Phases
  PROVE  LET own == [owner EXCEPT ![c].phase = p] IN
         /\ own \in [Conversations -> Owners \cup {None}]
         /\ \A d \in Conversations : d # c => own[d] = owner[d]
         /\ own[c] # None /\ own[c].kind = owner[c].kind /\ own[c].by = owner[c].by
         /\ own[c].gen = owner[c].gen /\ own[c].phase = p
         /\ SameOwner(own[c], owner[c])
<1>1. owner[c] \in Owners
  BY DEF Typed
<1>2. PICK o : o = [owner[c] EXCEPT !.phase = p]
  OBVIOUS
<1>3. o \in Owners /\ o.kind = owner[c].kind /\ o.by = owner[c].by
      /\ o.gen = owner[c].gen /\ o.phase = p
  BY <1>1, <1>2 DEF Owners
<1>4. o # None
  BY <1>3, AbsenceAssumption
<1>5. [owner EXCEPT ![c].phase = p] = [owner EXCEPT ![c] = o]
  BY <1>2
<1> QED
  BY <1>3, <1>4, <1>5 DEF Typed, SameOwner

(* The starts of a conversation that drive nothing are lost already, so    *)
(* that cancelling them changes nothing.                                   *)
LEMMA CancelKeeps ==
  ASSUME IInv, NEW r, NEW c \in Conversations, NEW s \in Requests, s # r,
         Drives(request[s]) /\ request[s].c = c => FALSE
  PROVE  CancelStarts(request, r, c)[s] = request[s]
<1>1. request \in [Requests -> RequestRecord] /\ request[s] \in RequestRecord
  BY DEF IInv, Typed
<1>2. CASE request[s].c # c \/ request[s].pc \notin {"spawn", "init"}
  BY <1>1, <1>2, CancelLoses
<1>3. CASE request[s].c = c /\ request[s].pc \in {"spawn", "init"}
  <2>1. request[s].lost = TRUE
    BY <1>1, <1>3, PlaceTells DEF IInv, Drives, RequestRecord
  <2>2. [request[s] EXCEPT !.lost = TRUE] = request[s]
    BY <1>1, <2>1 DEF RequestRecord
  <2>3. CancelStarts(request, r, c)[s] = [request[s] EXCEPT !.lost = TRUE]
    BY <1>3 DEF CancelStarts
  <2> QED
    BY <2>2, <2>3
<1> QED
  BY <1>2, <1>3

(* Spawn: the process of a handler in flight.                              *)
LEMMA SpawnKeeps ==
  ASSUME Overlaps = {}, IInv, NEW r \in Requests, Spawn(r)
  PROVE  IInv'
<1>1. /\ Kept(r) /\ request'[r].pc = "init" /\ request'[r].kind # "none"
      /\ request'[r].lost = request[r].lost /\ request'[r].stale = request[r].stale
      /\ \A s \in Requests : s # r => request'[s] = request[s]
      /\ request' \in [Requests -> RequestRecord]
  BY DEF Spawn, Step, Kept, IInv, Typed, Placed, Located, Idle, RequestRecord, Places
<1>2. PICK c \in Conversations :
        /\ c = request[r].c /\ request[r].pc = "spawn"
        /\ request[r].kind \in {"start", "switch", "adopt"} /\ ~request[r].lost
  BY DEF Spawn, Kinds, Idle, IInv, Typed, Placed, Located, RequestRecord
<1>3. /\ native' = native \cup {c}
      /\ UNCHANGED <<owner, active, generation, switching, tab, tabOwner, moving>>
  BY <1>2 DEF Spawn
<1>4. \A d \in Conversations : (Driven(d)' <=> Driven(d)) /\ (Adopted(d)' <=> Adopted(d))
  BY <1>1, <1>2 DEF Kept, Driven, Adopted, Drives, InFlight
<1>5. \A u \in Tabs : Unconfirmed(u)' <=> Unconfirmed(u)
  BY <1>1, <1>2 DEF Unconfirmed
<1>6. active[c] # 0 /\ Driven(c)
  BY <1>2, DriverStands DEF Drives, InFlight
<1>7. Typed'
  BY <1>1, <1>3 DEF IInv, Typed
<1>8. Placed'
  BY <1>1, <1>2 DEF IInv, Placed, Located, Kept
<1>9. Generations'
  BY <1>1, <1>2, <1>3 DEF IInv, Generations, InFlight, Kept
<1>10. Flight'
  BY <1>1, <1>2, <1>3 DEF IInv, Flight, FlightOf, OneDriver, Drives, InFlight, Kept
<1>11. OneDriver'
  BY <1>1, <1>2 DEF IInv, OneDriver, Drives, InFlight, Kept
<1>12. StartedFirst'
  BY <1>1 DEF IInv, StartedFirst, Kept
<1>13. Entries'
  BY <1>3, <1>4, <1>6 DEF IInv, Entries, Entry
<1>14. Records'
  BY <1>3 DEF IInv, Records, Holds
<1>15. OneMover'
  BY <1>1, <1>2 DEF IInv, OneMover, Moves, Kept
<1>16. Movers'
  BY <1>1, <1>2, <1>3 DEF IInv, Movers, MoverOf, Moves, Adopting, Busy, Kept
<1>17. OneOperation'
  BY <1>1 DEF IInv, OneOperation, InOperation
<1>18. Claims'
  BY <1>1, <1>2, <1>3 DEF IInv, Claims, ClaimOf, Resuming, Adopting, Holds, Kept
<1>19. Launched'
  BY <1>3, <1>5 DEF IInv, Launched, Launching, Holds
<1> QED
  BY <1>7, <1>8, <1>9, <1>10, <1>11, <1>12, <1>13, <1>14, <1>15, <1>16, <1>17, <1>18,
     <1>19 DEF IInv

(* StartReturns: the entry of a start that returned has its process.       *)
LEMMA StartReturnsKeeps ==
  ASSUME Overlaps = {}, IInv, NEW r \in Requests, StartReturns(r)
  PROVE  IInv'
<1>1. /\ request'[r] = Idle
      /\ \A s \in Requests : s # r => request'[s] = request[s]
      /\ request' \in [Requests -> RequestRecord]
  BY DEF StartReturns, Finish, Idle, IInv, Typed, RequestRecord, Kinds, Places
<1>2. PICK c \in Conversations :
        /\ c = request[r].c /\ request[r].kind = "start" /\ request[r].pc = "init" /\ ~request[r].lost
        /\ request[r].gen \in 1..MaxNative
  BY DEF StartReturns, Generations, InFlight, IInv, Typed, Placed, Located,
     RequestRecord
<1>3. UNCHANGED <<active, generation, switching, native, tab, tabOwner, moving>>
  BY DEF StartReturns
<1>4. /\ owner[c] = NativeOwner(request[r].gen, "starting")
      /\ c \in native /\ c \notin switching
  BY <1>2 DEF IInv, Flight, FlightOf, InFlight
<1>5. owner' = [owner EXCEPT ![c] = NativeOwner(request[r].gen, "active")]
  <2>1. owner' = [owner EXCEPT ![c].phase = "active"]
    BY <1>2 DEF StartReturns
  <2>2. [owner[c] EXCEPT !.phase = "active"] = NativeOwner(request[r].gen, "active")
    BY <1>4 DEF NativeOwner
  <2> QED
    BY <2>1, <2>2
<1>6. owner' \in [Conversations -> Owners \cup {None}]
  BY <1>2, <1>5, OwnerTypes DEF Phases, IInv, Typed
<1>7. \A d \in Conversations : d # c =>
        (Driven(d)' <=> Driven(d)) /\ (Adopted(d)' <=> Adopted(d))
  BY <1>1, <1>2 DEF Driven, Adopted, Drives, InFlight, Placed, Located, IInv,
     Idle
<1>8. /\ active[c] = request[r].gen
      /\ \A s \in Requests : Drives(request[s]) /\ request[s].c = c => s = r
  BY <1>2, DriverStands DEF Drives, InFlight
<1>9. ~Driven(c)' /\ ~Adopted(c)'
  BY <1>1, <1>2, <1>8 DEF Driven, Adopted, Drives, InFlight, Placed, Located,
     IInv, Idle
<1>10. \A u \in Tabs : Unconfirmed(u)' <=> Unconfirmed(u)
  BY <1>1, <1>2 DEF Unconfirmed, IInv, Placed, Located, Idle
<1>11. /\ \A d \in Conversations : d # c => owner'[d] = owner[d]
       /\ owner[c].kind = "native" /\ owner'[c].kind = "native"
       /\ \A u \in Tabs : ~Holds(u, c)
       /\ \A u \in Tabs, d \in Conversations : Holds(u, d)' <=> Holds(u, d)
  <2>1. \A d \in Conversations : d # c => owner'[d] = owner[d]
    BY <1>5 DEF IInv, Typed
  <2>2. owner[c].kind = "native" /\ owner'[c].kind = "native"
    BY <1>2, <1>4, <1>5, NativeOwners DEF Phases, IInv, Typed
  <2> QED
    BY <2>1, <2>2 DEF Holds
<1>12. Typed'
  BY <1>1, <1>3, <1>6 DEF IInv, Typed
<1>13. Placed'
  BY <1>1 DEF IInv, Placed, Located, Idle
<1>14. Generations'
  BY <1>1, <1>3 DEF IInv, Generations, InFlight, Idle
<1>15. Flight'
  <2> SUFFICES ASSUME NEW s \in Requests PROVE FlightOf(s)'
    BY DEF Flight
  <2>1. CASE s = r
    BY <1>1, <2>1 DEF FlightOf, InFlight, Idle
  <2>2. CASE s # r
    <3>1. request'[s] = request[s] /\ FlightOf(s)
      BY <1>1, <2>2 DEF IInv, Flight
    <3>2. InFlight(request[s]) => request[s].c \in Conversations
      BY DEF IInv, Placed, Located, InFlight
    <3>3. InFlight(request[s]) /\ request[s].c = c => request[s].lost
      BY <1>8, <2>2 DEF Drives
    <3> QED
      BY <1>3, <1>11, <3>1, <3>2, <3>3 DEF FlightOf
  <2> QED
    BY <2>1, <2>2
<1>16. OneDriver'
  BY <1>1 DEF IInv, OneDriver, Drives, InFlight, Idle
<1>17. StartedFirst'
  BY <1>1 DEF IInv, StartedFirst, Idle
<1>18. Entries'
  <2> SUFFICES ASSUME NEW d \in Conversations PROVE Entry(d)'
    BY DEF Entries
  <2>1. CASE d = c
    <3>1. owner'[c] = NativeOwner(active[c], "active") /\ active[c] = request[r].gen
      BY <1>5, <1>8 DEF IInv, Typed
    <3>2. /\ SameOwner(owner'[c], NativeOwner(active[c], "active"))
          /\ owner'[c].gen = active[c]
      BY <1>2, <3>1, NativeOwners DEF Phases
    <3> QED
      BY <1>2, <1>3, <1>4, <1>8, <1>9, <2>1, <3>2 DEF Entry
  <2>2. CASE d # c
    BY <1>3, <1>5, <1>7, <2>2 DEF IInv, Typed, Entries, Entry
  <2> QED
    BY <2>1, <2>2
<1>19. Records'
  <2> SUFFICES ASSUME NEW d \in Conversations, NEW u \in Tabs, Holds(u, d)'
               PROVE  /\ tab'[u].open /\ tabOwner'[u] # None
                      /\ tabOwner'[u].conv = d /\ tabOwner'[u].gen = owner'[d].gen
    BY DEF Records
  <2>1. Holds(u, d) /\ d # c
    BY <1>11
  <2> QED
    BY <1>3, <1>11, <2>1 DEF IInv, Records
<1>20. OneMover'
  BY <1>1 DEF IInv, OneMover, Moves, Idle
<1>21. Movers'
  <2> SUFFICES ASSUME NEW s \in Requests PROVE MoverOf(s)'
    BY DEF Movers
  <2>1. CASE s = r
    BY <1>1, <2>1 DEF MoverOf, Moves, Adopting, Idle
  <2>2. CASE s # r
    <3>1. request'[s] = request[s] /\ MoverOf(s)
      BY <1>1, <2>2 DEF IInv, Movers
    <3>2. Adopting(request[s]) => request[s].c \in Conversations \ {c}
      BY <1>11, <3>1 DEF MoverOf, Adopting, SameOwner, IInv, Placed, Located
    <3> QED
      BY <1>3, <1>11, <3>1, <3>2 DEF MoverOf, Busy
  <2> QED
    BY <2>1, <2>2
<1>22. OneOperation'
  BY <1>1 DEF IInv, OneOperation, InOperation, Idle
<1>23. Claims'
  <2> SUFFICES ASSUME NEW s \in Requests PROVE ClaimOf(s)'
    BY DEF Claims
  <2>1. CASE s = r
    BY <1>1, <2>1 DEF ClaimOf, Resuming, Idle
  <2>2. CASE s # r
    <3>1. request'[s] = request[s] /\ ClaimOf(s)
      BY <1>1, <2>2 DEF IInv, Claims
    <3>2. Resuming(request[s]) => request[s].c \in Conversations /\ request[s].t \in Tabs
      BY DEF Resuming, IInv, Placed, Located
    <3>3. \A u \in Requests : Adopting(request'[u]) => request'[u] = request[u]
      BY <1>1 DEF Adopting, Idle
    <3>4. ASSUME NEW u \in Tabs, NEW d \in Conversations, Holds(u, d)'
          PROVE  Holds(u, d) /\ owner'[d] = owner[d]
      BY <1>11, <3>4
    <3> QED
      BY <1>3, <3>1, <3>2, <3>3, <3>4 DEF ClaimOf
  <2> QED
    BY <2>1, <2>2
<1>24. Launched'
  <2> SUFFICES ASSUME NEW u \in Tabs PROVE Launching(u)'
    BY DEF Launched
  <2>1. tab[u].runs \in Conversations \cup {None}
    BY DEF IInv, Typed, TabStates
  <2> QED
    BY <1>3, <1>10, <1>11, <2>1 DEF IInv, Launched, Launching
<1> QED
  BY <1>12, <1>13, <1>14, <1>15, <1>16, <1>17, <1>18, <1>19, <1>20, <1>21, <1>22, <1>23,
     <1>24 DEF IInv

(* SwitchRefused: nothing was done yet.                                    *)
LEMMA SwitchRefusedKeeps ==
  ASSUME Overlaps = {}, IInv, NEW r \in Requests, SwitchRefused(r)
  PROVE  IInv'
<1>1. /\ request'[r] = Idle
      /\ \A s \in Requests : s # r => request'[s] = request[s]
      /\ request' \in [Requests -> RequestRecord]
  BY DEF SwitchRefused, Finish, Idle, IInv, Typed, RequestRecord
<1>2. PICK c \in Conversations :
        /\ c = request[r].c /\ request[r].kind = "switch" /\ request[r].pc = "authorizing"
  BY DEF SwitchRefused, IInv, Typed, Placed, Located, RequestRecord
<1>3. UNCHANGED <<owner, active, generation, switching, native, tab, tabOwner, moving>>
  BY DEF SwitchRefused
<1>4. \A d \in Conversations : (Driven(d)' <=> Driven(d)) /\ (Adopted(d)' <=> Adopted(d))
  BY <1>1, <1>2 DEF Driven, Adopted, Drives, InFlight, Idle
<1>5. \A u \in Tabs : Unconfirmed(u)' <=> Unconfirmed(u)
  BY <1>1, <1>2 DEF Unconfirmed, Idle
<1>6. Typed'
  BY <1>1, <1>3 DEF IInv, Typed
<1>7. Placed'
  BY <1>1 DEF IInv, Placed, Located, Idle
<1>8. Generations'
  BY <1>1, <1>3 DEF IInv, Generations, InFlight, Idle
<1>9. Flight'
  BY <1>1, <1>3 DEF IInv, Flight, FlightOf, InFlight, Idle
<1>10. OneDriver'
  BY <1>1 DEF IInv, OneDriver, Drives, InFlight, Idle
<1>11. StartedFirst'
  BY <1>1 DEF IInv, StartedFirst, Idle
<1>12. Entries'
  BY <1>3, <1>4 DEF IInv, Entries, Entry
<1>13. Records'
  BY <1>3 DEF IInv, Records, Holds
<1>14. OneMover'
  BY <1>1 DEF IInv, OneMover, Moves, Idle
<1>15. Movers'
  BY <1>1, <1>3 DEF IInv, Movers, MoverOf, Moves, Adopting, Busy, Idle
<1>16. OneOperation'
  BY <1>1 DEF IInv, OneOperation, InOperation, Idle
<1>17. Claims'
  BY <1>1, <1>3 DEF IInv, Claims, ClaimOf, Resuming, Adopting, Holds, Idle
<1>18. Launched'
  BY <1>3, <1>5 DEF IInv, Launched, Launching, Holds
<1> QED
  BY <1>6, <1>7, <1>8, <1>9, <1>10, <1>11, <1>12, <1>13, <1>14, <1>15, <1>16, <1>17,
     <1>18 DEF IInv

(* RequestSwitch: a switch is asked for when the start has returned.       *)
LEMMA RequestSwitchKeeps ==
  ASSUME Overlaps = {}, IInv, NEW r \in Requests, NEW c \in Conversations, RequestSwitch(r, c)
  PROVE  IInv'
<1>1. /\ request[r] = Idle /\ active[c] # 0 /\ owner[c].phase # "starting"
      /\ UNCHANGED <<owner, active, generation, switching, native, tab, tabOwner, moving>>
  BY DEF RequestSwitch
<1>2. /\ request'[r].kind = "switch" /\ request'[r].c = c /\ request'[r].t = None
      /\ request'[r].gen = active[c] /\ request'[r].pc = "authorizing" /\ request'[r].saved = None
      /\ ~request'[r].lost /\ ~request'[r].stale
      /\ \A s \in Requests : s # r => request'[s] = request[s]
      /\ request' \in [Requests -> RequestRecord]
  <2>1. PICK q : q = [Idle EXCEPT !.kind = "switch", !.c = c,
                             !.gen = active[c], !.pc = "authorizing"]
    OBVIOUS
  <2>2. request' = [request EXCEPT ![r] = q]
    BY <2>1 DEF RequestSwitch
  <2>3. active \in [Conversations -> 0..MaxNative]
    BY DEF IInv, Typed
  <2>4. q \in RequestRecord
    <3>1. active[c] \in Nat
      BY <2>3, OwnershipAssumption
    <3> QED
      BY <2>1, <3>1, IdleTyped DEF RequestRecord, Kinds, Places
  <2> QED
    BY <2>1, <2>2, <2>4 DEF Idle, IInv, Typed
<1>3. \A d \in Conversations : (Driven(d)' <=> Driven(d)) /\ (Adopted(d)' <=> Adopted(d))
  BY <1>1, <1>2 DEF Driven, Adopted, Drives, InFlight, Idle
<1>4. \A u \in Tabs : Unconfirmed(u)' <=> Unconfirmed(u)
  BY <1>1, <1>2 DEF Unconfirmed, Idle
<1>5. Typed'
  BY <1>1, <1>2 DEF IInv, Typed
<1>6. Placed'
  BY <1>2 DEF IInv, Placed, Located
<1>7. Generations'
  BY <1>1, <1>2 DEF IInv, Typed, Generations
<1>8. Flight'
  BY <1>1, <1>2 DEF IInv, Flight, FlightOf, InFlight
<1>9. OneDriver'
  BY <1>2 DEF IInv, OneDriver, Drives, InFlight
<1>10. StartedFirst'
  <2>1. \A s \in Requests : request[s].kind = "start" /\ ~request[s].lost
                             /\ request[s].c = c => request[s].gen # active[c]
    <3> SUFFICES ASSUME NEW s \in Requests, request[s].kind = "start",
                        ~request[s].lost, request[s].c = c
                 PROVE  request[s].gen # active[c]
      OBVIOUS
    <3>1. owner[c] = NativeOwner(request[s].gen, "starting")
      BY DEF IInv, Flight, FlightOf, InFlight
    <3>2. owner[c].phase = "starting"
      BY <3>1 DEF NativeOwner
    <3> QED
      BY <1>1, <3>2
  <2> QED
    BY <1>2, <2>1 DEF IInv, StartedFirst
<1>11. Entries'
  BY <1>1, <1>3 DEF IInv, Entries, Entry
<1>12. Records'
  BY <1>1 DEF IInv, Records, Holds
<1>13. OneMover'
  BY <1>2 DEF IInv, OneMover, Moves
<1>14. Movers'
  BY <1>1, <1>2 DEF IInv, Movers, MoverOf, Moves, Adopting, Busy
<1>15. OneOperation'
  BY <1>2 DEF IInv, OneOperation, InOperation
<1>16. Claims'
  BY <1>1, <1>2 DEF IInv, Claims, ClaimOf, Resuming, Adopting, Holds
<1>17. Launched'
  BY <1>1, <1>4 DEF IInv, Launched, Launching, Holds
<1> QED
  BY <1>5, <1>6, <1>7, <1>8, <1>9, <1>10, <1>11, <1>12, <1>13, <1>14, <1>15, <1>16,
     <1>17 DEF IInv

(* LaunchUnnamed: a launch of the user is none of the application.         *)
LEMMA LaunchUnnamedKeeps ==
  ASSUME Overlaps = {}, IInv, NEW t \in Tabs, NEW c \in Conversations, LaunchUnnamed(t, c)
  PROVE  IInv'
<1>1. UNCHANGED <<owner, active, generation, switching, native, tabOwner, moving, request>>
  BY DEF LaunchUnnamed
<1>2. \A d \in Conversations : (Driven(d)' <=> Driven(d)) /\ (Adopted(d)' <=> Adopted(d))
  BY <1>1 DEF Driven, Adopted
<1>3. \A u \in Tabs : Unconfirmed(u)' <=> Unconfirmed(u)
  BY <1>1 DEF Unconfirmed
<1>4. /\ tab' \in [Tabs -> TabStates] /\ \A u \in Tabs : u # t => tab'[u] = tab[u]
      /\ tab'[t].open = tab[t].open /\ tab[t].open /\ tab'[t].by = "user"
      /\ \A s \in Requests : request[s].t = t => ~InOperation(request[s])
  <2>1. tab[t].pty < MaxPty /\ tab[t].open /\ tab' = [Relaunched(t, c) EXCEPT ![t].by = "user"]
        /\ \A s \in Requests : request[s].t = t => ~InOperation(request[s])
    BY DEF LaunchUnnamed
  <2>2. PICK f : f = Relaunched(t, c)
    OBVIOUS
  <2>3. f \in [Tabs -> TabStates] /\ f[t].open = tab[t].open
        /\ \A u \in Tabs : u # t => f[u] = tab[u]
    <3>1. /\ Relaunched(t, c) \in [Tabs -> TabStates]
          /\ Relaunched(t, c)[t].open = tab[t].open
          /\ \A u \in Tabs : u # t => Relaunched(t, c)[u] = tab[u]
      BY <2>1, RelaunchedTab DEF IInv
    <3> QED
      BY <2>2, <3>1
  <2>4. PICK n : n = [f[t] EXCEPT !.by = "user"]
    OBVIOUS
  <2>5. n \in TabStates /\ n.by = "user" /\ n.open = f[t].open
    BY <2>3, <2>4 DEF TabStates
  <2>6. tab' = [f EXCEPT ![t].by = "user"]
    BY <2>1, <2>2
  <2>7. tab' = [f EXCEPT ![t] = n]
    BY <2>3, <2>4, <2>6
  <2> QED
    BY <2>1, <2>3, <2>5, <2>7
<1>5. Typed'
  BY <1>1, <1>4 DEF IInv, Typed
<1>6. Placed'
  BY <1>1 DEF IInv, Placed
<1>7. Generations'
  BY <1>1 DEF IInv, Generations
<1>8. Flight'
  BY <1>1 DEF IInv, Flight, FlightOf
<1>9. OneDriver'
  BY <1>1 DEF IInv, OneDriver
<1>10. StartedFirst'
  BY <1>1 DEF IInv, StartedFirst
<1>11. Entries'
  BY <1>1, <1>2 DEF IInv, Entries, Entry
<1>12. Records'
  <2>1. \A u \in Tabs : tab'[u].open = tab[u].open
    BY <1>4
  <2> QED
    BY <1>1, <2>1 DEF IInv, Records, Holds
<1>13. OneMover'
  BY <1>1 DEF IInv, OneMover
<1>14. Movers'
  <2> SUFFICES ASSUME NEW s \in Requests PROVE MoverOf(s)'
    BY DEF Movers
  <2>1. MoverOf(s) /\ (Adopting(request[s]) => request[s].t \in Tabs)
    BY DEF IInv, Movers, Adopting, Placed, Located
  <2> QED
    BY <1>1, <1>4, <2>1 DEF MoverOf, Busy
<1>15. OneOperation'
  BY <1>1 DEF IInv, OneOperation
<1>16. Claims'
  <2> SUFFICES ASSUME NEW s \in Requests PROVE ClaimOf(s)'
    BY DEF Claims
  <2>1. ClaimOf(s)
    BY DEF IInv, Claims
  <2>2. Resuming(request[s]) => tab'[request[s].t] = tab[request[s].t]
    BY <1>4 DEF Resuming, InOperation, IInv, Placed, Located
  <2> QED
    BY <1>1, <2>1, <2>2 DEF ClaimOf, Holds
<1>17. Launched'
  <2> SUFFICES ASSUME NEW u \in Tabs PROVE Launching(u)'
    BY DEF Launched
  <2>1. CASE u = t
    BY <1>4, <2>1 DEF Launching
  <2>2. CASE u # t
    BY <1>1, <1>3, <1>4, <2>2 DEF IInv, Launched, Launching, Holds
  <2> QED
    BY <2>1, <2>2
<1> QED
  BY <1>5, <1>6, <1>7, <1>8, <1>9, <1>10, <1>11, <1>12, <1>13, <1>14, <1>15, <1>16, <1>17
     DEF IInv

(* UserSwitches: what the user asked for is none of the application.       *)
LEMMA UserSwitchesKeeps ==
  ASSUME Overlaps = {}, IInv, NEW t \in Tabs, NEW c \in Conversations, UserSwitches(t, c)
  PROVE  IInv'
<1>1. UNCHANGED <<owner, active, generation, switching, native, tabOwner, moving, request>>
  BY DEF UserSwitches
<1>2. \A d \in Conversations : (Driven(d)' <=> Driven(d)) /\ (Adopted(d)' <=> Adopted(d))
  BY <1>1 DEF Driven, Adopted
<1>3. \A u \in Tabs : Unconfirmed(u)' <=> Unconfirmed(u)
  BY <1>1 DEF Unconfirmed
<1>4. Typed'
  <2>1. tab[t] \in TabStates /\ tab \in [Tabs -> TabStates]
    BY DEF IInv, Typed
  <2>2. PICK n : n = [tab[t] EXCEPT !.runs = c, !.by = "user"]
    OBVIOUS
  <2>3. n \in TabStates
    BY <2>1, <2>2 DEF TabStates
  <2>4. tab' = [tab EXCEPT ![t] = n]
    BY <2>1, <2>2 DEF UserSwitches
  <2>5. tab' \in [Tabs -> TabStates]
    BY <2>1, <2>3, <2>4
  <2> QED
    BY <1>1, <2>5 DEF IInv, Typed
<1>5. Placed'
  BY DEF IInv, Placed, UserSwitches
<1>6. Generations'
  BY <1>1 DEF IInv, Generations
<1>7. Flight'
  BY <1>1 DEF IInv, Flight, FlightOf
<1>8. OneDriver'
  BY <1>1 DEF IInv, OneDriver
<1>9. StartedFirst'
  BY DEF IInv, StartedFirst, UserSwitches
<1>10. Entries'
  BY <1>1, <1>2 DEF IInv, Entries, Entry
<1>11. Records'
  BY DEF IInv, Typed, Records, Holds, UserSwitches
<1>12. OneMover'
  BY <1>1 DEF IInv, OneMover
<1>13. Movers'
  BY DEF IInv, Typed, Movers, MoverOf, Moves, Adopting, Busy, UserSwitches
<1>14. OneOperation'
  BY <1>1 DEF IInv, OneOperation
<1>15. Claims'
  BY DEF IInv, Typed, Placed, Located, Claims, ClaimOf, Resuming, Holds, UserSwitches
<1>16. Launched'
  BY <1>3 DEF IInv, Typed, Launched, Launching, Holds, UserSwitches
<1> QED
  BY <1>4, <1>5, <1>6, <1>7, <1>8, <1>9, <1>10, <1>11, <1>12, <1>13, <1>14, <1>15, <1>16
     DEF IInv

(* ReportInactive: a tab without Claude gives its conversation up.         *)
LEMMA ReportInactiveKeeps ==
  ASSUME Overlaps = {}, IInv, NEW t \in Tabs, ReportInactive(t)
  PROVE  IInv'
<1>1. UNCHANGED <<active, generation, switching, native, tab, moving, request>>
  BY DEF ReportInactive
<1>2. \A d \in Conversations : (Driven(d)' <=> Driven(d)) /\ (Adopted(d)' <=> Adopted(d))
  BY <1>1 DEF Driven, Adopted
<1>3. \A u \in Tabs : Unconfirmed(u)' <=> Unconfirmed(u)
  BY <1>1 DEF Unconfirmed
<1>4. /\ tab[t].open /\ t \notin moving /\ tab[t].runs = None /\ tabOwner[t] # None
      /\ tabOwner' = [tabOwner EXCEPT ![t] = None]
  BY DEF ReportInactive
<1>5. /\ owner' \in [Conversations -> Owners \cup {None}]
      /\ \A d \in Conversations :
           owner'[d] = IF tabOwner[t] # None /\ Holds(t, d) THEN None ELSE owner[d]
  BY ReleaseTabFrees DEF ReportInactive
<1>6. Typed'
  BY <1>1, <1>4, <1>5 DEF IInv, Typed
<1>7. Placed'
  BY <1>1 DEF IInv, Placed
<1>8. Generations'
  BY <1>1 DEF IInv, Generations
<1>9. Flight'
  BY <1>1, <1>5 DEF IInv, Placed, Located, Flight, FlightOf, SameOwner, NativeOwner,
     Holds
<1>10. OneDriver'
  BY <1>1 DEF IInv, OneDriver
<1>11. StartedFirst'
  BY <1>1 DEF IInv, StartedFirst
<1>12. Entries'
  BY <1>1, <1>2, <1>5 DEF IInv, Entries, Entry, SameOwner, NativeOwner, Holds
<1>13. Records'
  BY <1>1, <1>4, <1>5 DEF IInv, Records, Holds
<1>14. OneMover'
  BY <1>1 DEF IInv, OneMover
<1>15. Movers'
  BY <1>1, <1>4, <1>5 DEF IInv, Placed, Located, Movers, MoverOf, Moves, Adopting, Busy,
     SameOwner, Holds
<1>16. OneOperation'
  BY <1>1 DEF IInv, OneOperation
<1>17. Claims'
  BY <1>1, <1>4, <1>5 DEF IInv, Placed, Located, Claims, ClaimOf, Resuming, Holds
<1>18. Launched'
  <2> SUFFICES ASSUME NEW u \in Tabs PROVE Launching(u)'
    BY DEF Launched
  <2>1. CASE u = t
    BY <1>1, <1>4, <2>1 DEF IInv, Launched, Launching
  <2>2. CASE u # t
    <3>1. \A d \in Conversations : Holds(u, d) => Holds(u, d)'
      BY <1>5, <2>2 DEF Holds
    <3>2. tab[u].runs \in Conversations \cup {None}
      BY DEF IInv, Typed, TabStates
    <3> QED
      BY <1>1, <1>3, <3>1, <3>2 DEF IInv, Launched, Launching
  <2> QED
    BY <2>1, <2>2
<1> QED
  BY <1>6, <1>7, <1>8, <1>9, <1>10, <1>11, <1>12, <1>13, <1>14, <1>15, <1>16, <1>17,
     <1>18 DEF IInv

(* RequestAdoption: the tab has no other mover.                            *)
LEMMA RequestAdoptionKeeps ==
  ASSUME Overlaps = {}, IInv, NEW r \in Requests, NEW t \in Tabs, RequestAdoption(r, t)
  PROVE  IInv'
<1>1. PICK c \in Conversations : c = tabOwner[t].conv
  BY DEF RequestAdoption, IInv, Typed, Holdings
<1>2. /\ request[r] = Idle /\ tab[t].open /\ tabOwner[t] # None /\ ~Switched(r, t)
      /\ UNCHANGED <<owner, active, generation, switching, native, tab, tabOwner, moving>>
  BY DEF RequestAdoption
<1>3. /\ request'[r].kind = "adopt" /\ request'[r].c = c /\ request'[r].t = t
      /\ request'[r].gen = 0 /\ request'[r].pc = "preparing" /\ request'[r].saved = None
      /\ ~request'[r].lost /\ ~request'[r].stale
      /\ \A s \in Requests : s # r => request'[s] = request[s]
      /\ request' \in [Requests -> RequestRecord]
  <2>1. PICK q : q = [Idle EXCEPT !.kind = "adopt", !.c = c, !.t = t,
                             !.pc = "preparing"]
    OBVIOUS
  <2>2. request' = [request EXCEPT ![r] = q]
    BY <1>1, <2>1 DEF RequestAdoption
  <2>4. q \in RequestRecord
    BY <2>1, IdleTyped DEF RequestRecord, Kinds, Places
  <2> QED
    BY <2>1, <2>2, <2>4 DEF Idle, IInv, Typed
<1>4. \A d \in Conversations : (Driven(d)' <=> Driven(d)) /\ (Adopted(d)' <=> Adopted(d))
  BY <1>2, <1>3 DEF Driven, Adopted, Drives, InFlight, Idle
<1>5. \A u \in Tabs : Unconfirmed(u)' <=> Unconfirmed(u)
  BY <1>2, <1>3 DEF Unconfirmed, Idle
<1>6. Typed'
  BY <1>2, <1>3 DEF IInv, Typed
<1>7. Placed'
  BY <1>3 DEF IInv, Placed, Located
<1>8. Generations'
  BY <1>2, <1>3 DEF IInv, Generations, InFlight
<1>9. Flight'
  BY <1>2, <1>3 DEF IInv, Flight, FlightOf, InFlight
<1>10. OneDriver'
  BY <1>3 DEF IInv, OneDriver, Drives, InFlight
<1>11. StartedFirst'
  BY <1>3 DEF IInv, StartedFirst
<1>12. Entries'
  BY <1>2, <1>4 DEF IInv, Entries, Entry
<1>13. Records'
  BY <1>2 DEF IInv, Records, Holds
<1>14. OneMover'
  BY <1>2, <1>3 DEF IInv, OneMover, Moves, Switched
<1>15. Movers'
  BY <1>2, <1>3 DEF IInv, Movers, MoverOf, Adopting, Busy
<1>16. OneOperation'
  BY <1>3 DEF IInv, OneOperation, InOperation
<1>17. Claims'
  BY <1>2, <1>3 DEF IInv, Claims, ClaimOf, Resuming, Adopting, Holds
<1>18. Launched'
  BY <1>2, <1>5 DEF IInv, Launched, Launching, Holds
<1> QED
  BY <1>6, <1>7, <1>8, <1>9, <1>10, <1>11, <1>12, <1>13, <1>14, <1>15, <1>16, <1>17,
     <1>18 DEF IInv

(* RequestResume: an older operation of the tab becomes stale.             *)
LEMMA RequestResumeKeeps ==
  ASSUME Overlaps = {}, IInv, NEW r \in Requests, NEW t \in Tabs, NEW c \in Conversations, RequestResume(r, t, c)
  PROVE  IInv'
<1>1. /\ request[r] = Idle /\ tab[t].open
      /\ UNCHANGED <<owner, active, generation, switching, native, tab, tabOwner, moving>>
  BY DEF RequestResume
<1>2. /\ request'[r].kind = "resume" /\ request'[r].c = c /\ request'[r].t = t
      /\ request'[r].gen = tab[t].pty + 1 /\ request'[r].pc = "authorizing" /\ request'[r].saved = None
      /\ ~request'[r].lost /\ ~request'[r].stale
      /\ \A s \in Requests : s # r =>
           /\ Aside(s)
           /\ request[s].stale => request'[s].stale
           /\ request[s].t = t /\ InOperation(request[s]) => request'[s].stale
           /\ request[s].t # t \/ ~InOperation(request[s]) => request'[s] = request[s]
      /\ request' \in [Requests -> RequestRecord]
  <2>1. PICK q : q = [Idle EXCEPT !.kind = "resume", !.c = c, !.t = t,
                                   !.gen = tab[t].pty + 1, !.pc = "authorizing"]
    OBVIOUS
  <2>2. PICK req : req = [request EXCEPT ![r] = q]
    OBVIOUS
  <2>3. request' = Invalidate(req, r, t)
    BY <2>1, <2>2 DEF RequestResume
  <2>4. tab[t].pty + 1 \in Nat
    BY OwnershipAssumption DEF IInv, Typed, TabStates
  <2>5. q \in RequestRecord
    BY <2>1, <2>4, IdleTyped DEF RequestRecord, Kinds, Places
  <2>6. req \in [Requests -> RequestRecord] /\ req[r] = q
        /\ \A s \in Requests : s # r => req[s] = request[s]
    BY <2>2, <2>5 DEF IInv, Typed
  <2>7. Invalidate(req, r, t)[r] = q
    <3> DEFINE inv == Invalidate(req, r, t)
    <3>1. inv[r] = req[r]
      BY <2>6, InvalidateStales
    <3> QED
      BY <2>6, <3>1
  <2>8. request' \in [Requests -> RequestRecord] /\ request'[r] = q
    BY <2>3, <2>6, <2>7, InvalidateStales
  <2>9. ASSUME NEW s \in Requests, s # r
        PROVE  /\ Aside(s)
               /\ request[s].stale => request'[s].stale
               /\ request[s].t = t /\ InOperation(request[s]) => request'[s].stale
               /\ request[s].t # t \/ ~InOperation(request[s]) => request'[s] = request[s]
    <3>1. req[s] = request[s]
      BY <2>6, <2>9
    <3>2. request[s].kind = "none" => ~InOperation(request[s])
      BY DEF InOperation, IInv, Placed, Located, Idle
    <3> QED
      BY <2>3, <2>6, <2>9, <3>2, InvalidateStales DEF Aside, Kept
  <2>10. q.kind = "resume" /\ q.c = c /\ q.t = t /\ q.gen = tab[t].pty + 1
         /\ q.pc = "authorizing" /\ q.saved = None /\ ~q.lost /\ ~q.stale
    BY <2>1 DEF Idle
  <2> QED
    BY <2>8, <2>9, <2>10
<1>3. \A d \in Conversations : (Driven(d)' <=> Driven(d)) /\ (Adopted(d)' <=> Adopted(d))
  BY <1>1, <1>2 DEF Aside, Kept, Driven, Adopted, Drives, InFlight, Idle
<1>4. \A u \in Tabs : Unconfirmed(u)' <=> Unconfirmed(u)
  BY <1>1, <1>2 DEF Aside, Kept, Unconfirmed, Idle
<1>5. Typed'
  BY <1>1, <1>2 DEF IInv, Typed
<1>6. Placed'
  BY <1>2 DEF IInv, Placed, Located, Aside, Kept
<1>7. Generations'
  BY <1>1, <1>2 DEF IInv, Generations, InFlight, Aside, Kept
<1>8. Flight'
  BY <1>1, <1>2 DEF IInv, Flight, FlightOf, InFlight, Aside, Kept
<1>9. OneDriver'
  BY <1>2 DEF IInv, OneDriver, Drives, InFlight, Aside, Kept
<1>10. StartedFirst'
  BY <1>2 DEF IInv, StartedFirst, Aside, Kept
<1>11. Entries'
  BY <1>1, <1>3 DEF IInv, Entries, Entry
<1>12. Records'
  BY <1>1 DEF IInv, Records, Holds
<1>13. OneMover'
  BY <1>2 DEF IInv, OneMover, Moves, Aside, Kept
<1>14. Movers'
  BY <1>1, <1>2 DEF IInv, Movers, MoverOf, Moves, Adopting, Busy, Aside, Kept
<1>15. OneOperation'
  BY <1>2 DEF IInv, OneOperation
<1>16. Claims'
  BY <1>1, <1>2 DEF IInv, Claims, ClaimOf, Resuming, Adopting, Holds, Aside, Kept
<1>17. Launched'
  BY <1>1, <1>4 DEF IInv, Launched, Launching, Holds
<1> QED
  BY <1>5, <1>6, <1>7, <1>8, <1>9, <1>10, <1>11, <1>12, <1>13, <1>14, <1>15, <1>16,
     <1>17 DEF IInv

(* ClaudeExits: what runs in the tab is none of the application.           *)
LEMMA ClaudeExitsKeeps ==
  ASSUME Overlaps = {}, IInv, NEW t \in Tabs, ClaudeExits(t)
  PROVE  IInv'
<1>1. /\ tab' \in [Tabs -> TabStates]
      /\ \A u \in Tabs : u # t => tab'[u] = tab[u]
      /\ tab'[t].runs = None /\ tab'[t].by = "user"
      /\ tab'[t].open = tab[t].open /\ tab'[t].pty = tab[t].pty
      /\ UNCHANGED <<owner, active, generation, switching, native, tabOwner, moving>>
  BY DEF ClaudeExits, IInv, Typed, TabStates
<1>2. /\ \A s \in Requests :
           /\ Aside(s)
           /\ request[s].stale => request'[s].stale
           /\ request[s].kind # "resume" => request'[s] = request[s]
      /\ request' \in [Requests -> RequestRecord]
  <2>1. ASSUME NEW s \in Requests
        PROVE  /\ request'[s] \in RequestRecord /\ Aside(s)
               /\ request[s].stale => request'[s].stale
               /\ request[s].kind # "resume" => request'[s] = request[s]
    <3>1. request[s] \in RequestRecord
      BY DEF IInv, Typed
    <3>2. request'[s] = request[s] \/ (/\ request'[s] = [request[s] EXCEPT !.stale = TRUE]
                                       /\ request[s].kind = "resume")
      BY DEF ClaudeExits
    <3> QED
      BY <3>1, <3>2 DEF RequestRecord, Aside, Kept
  <2> QED
    BY <2>1 DEF ClaudeExits
<1>3. \A d \in Conversations : (Driven(d)' <=> Driven(d)) /\ (Adopted(d)' <=> Adopted(d))
  BY <1>2 DEF Aside, Kept, Driven, Adopted, Drives, InFlight
<1>4. \A u \in Tabs : Unconfirmed(u)' <=> Unconfirmed(u)
  BY <1>2 DEF Aside, Kept, Unconfirmed
<1>5. Typed'
  BY <1>1, <1>2 DEF IInv, Typed
<1>6. Placed'
  BY <1>2 DEF IInv, Placed, Located, Aside, Kept
<1>7. Generations'
  BY <1>1, <1>2 DEF IInv, Generations, InFlight, Aside, Kept
<1>8. Flight'
  BY <1>1, <1>2 DEF IInv, Flight, FlightOf, InFlight, Aside, Kept
<1>9. OneDriver'
  BY <1>2 DEF IInv, OneDriver, Drives, InFlight, Aside, Kept
<1>10. StartedFirst'
  BY <1>2 DEF IInv, StartedFirst, Aside, Kept
<1>11. Entries'
  BY <1>1, <1>3 DEF IInv, Entries, Entry
<1>12. Records'
  BY <1>1 DEF IInv, Records, Holds
<1>13. OneMover'
  BY <1>2 DEF IInv, OneMover, Moves, Aside, Kept
<1>14. Movers'
  BY <1>1, <1>2 DEF IInv, Typed, Movers, MoverOf, Moves, Adopting, Busy, Aside, Kept
<1>15. OneOperation'
  BY <1>2 DEF IInv, OneOperation, InOperation, Aside, Kept
<1>16. Claims'
  BY <1>1, <1>2 DEF IInv, Placed, Located, Claims, ClaimOf, Resuming, Adopting, Holds,
     Aside, Kept
<1>17. Launched'
  BY <1>1, <1>4 DEF IInv, Launched, Launching, Holds
<1> QED
  BY <1>5, <1>6, <1>7, <1>8, <1>9, <1>10, <1>11, <1>12, <1>13, <1>14, <1>15, <1>16,
     <1>17 DEF IInv

(* CloseTab: a tab that is closed holds nothing, and no handler works on   *)
(* it.                                                                     *)
LEMMA CloseTabKeeps ==
  ASSUME Overlaps = {}, IInv, NEW t \in Tabs, CloseTab(t)
  PROVE  IInv'
<1>1. /\ t \notin moving /\ tabOwner' = [tabOwner EXCEPT ![t] = None]
      /\ \A s \in Requests : request[s].t = t => ~InOperation(request[s])
      /\ UNCHANGED <<active, generation, switching, native, moving, request>>
  BY DEF CloseTab
<1>2. /\ tab' \in [Tabs -> TabStates]
      /\ \A u \in Tabs : u # t => tab'[u] = tab[u]
      /\ tab'[t].runs = None /\ tab'[t].by = "user"
  <2>1. PICK st : st = Stopped(t)
    OBVIOUS
  <2>2. /\ st \in [Tabs -> TabStates] /\ \A u \in Tabs : u # t => st[u] = tab[u]
        /\ st[t].runs = None /\ st[t].by = "user"
    BY <2>1, StoppedTab DEF IInv
  <2>3. tab' = [st EXCEPT ![t].open = FALSE]
    BY <2>1 DEF CloseTab
  <2> QED
    BY <2>2, <2>3 DEF TabStates
<1>3. /\ owner' \in [Conversations -> Owners \cup {None}]
      /\ \A d \in Conversations :
           owner'[d] = IF tabOwner[t] # None /\ Holds(t, d) THEN None ELSE owner[d]
  BY ReleaseTabFrees DEF CloseTab
<1>4. \A d \in Conversations : (Driven(d)' <=> Driven(d)) /\ (Adopted(d)' <=> Adopted(d))
  BY <1>1 DEF Driven, Adopted
<1>5. \A u \in Tabs : Unconfirmed(u)' <=> Unconfirmed(u)
  BY <1>1 DEF Unconfirmed
<1>6. Typed'
  BY <1>1, <1>2, <1>3, <1>4, <1>5 DEF IInv, Typed, Owners, Phases, TabStates, Holdings,
     Holds, InOperation
<1>7. Placed'
  BY <1>1 DEF IInv, Placed
<1>8. Generations'
  BY <1>1 DEF IInv, Generations
<1>9. Flight'
  BY <1>1, <1>3 DEF IInv, Placed, Located, Flight, FlightOf, SameOwner, NativeOwner,
     Holds
<1>10. OneDriver'
  BY <1>1 DEF IInv, OneDriver
<1>11. StartedFirst'
  BY <1>1 DEF IInv, StartedFirst
<1>12. Entries'
  BY <1>1, <1>3, <1>4 DEF IInv, Entries, Entry, SameOwner, NativeOwner, Holds
<1>13. Records'
  BY <1>1, <1>2, <1>3 DEF IInv, Records, Holds
<1>14. OneMover'
  BY <1>1 DEF IInv, OneMover
<1>15. Movers'
  BY <1>1, <1>2, <1>3 DEF IInv, Placed, Located, Movers, MoverOf, Moves, Adopting, Busy,
     SameOwner, Holds
<1>16. OneOperation'
  BY <1>1 DEF IInv, OneOperation
<1>17. Claims'
  BY <1>1, <1>2, <1>3 DEF IInv, Placed, Located, Claims, ClaimOf, Resuming, Holds,
     InOperation
<1>18. Launched'
  <2> SUFFICES ASSUME NEW u \in Tabs PROVE Launching(u)'
    BY DEF Launched
  <2>1. CASE u = t
    BY <1>2, <2>1 DEF Launching
  <2>2. CASE u # t
    <3>1. \A d \in Conversations : Holds(u, d) => Holds(u, d)'
      BY <1>3, <2>2 DEF Holds
    <3>2. tab[u].runs \in Conversations \cup {None}
      BY DEF IInv, Typed, TabStates
    <3> QED
      BY <1>2, <1>5, <3>1, <3>2 DEF IInv, Launched, Launching
  <2> QED
    BY <2>1, <2>2
<1> QED
  BY <1>6, <1>7, <1>8, <1>9, <1>10, <1>11, <1>12, <1>13, <1>14, <1>15, <1>16, <1>17,
     <1>18 DEF IInv

(* ConfirmResume: the tab that was launched is the owner.                  *)
LEMMA ConfirmResumeKeeps ==
  ASSUME Overlaps = {}, IInv, NEW r \in Requests, ConfirmResume(r)
  PROVE  IInv'
<1>1. /\ request'[r] = Idle
      /\ \A s \in Requests : s # r => request'[s] = request[s]
      /\ request' \in [Requests -> RequestRecord]
  BY DEF ConfirmResume, Finish, Idle, IInv, Typed, RequestRecord
<1>2. PICK c \in Conversations, t \in Tabs :
        /\ c = request[r].c /\ t = request[r].t
        /\ request[r].kind = "resume" /\ request[r].pc = "confirming"
  BY DEF ConfirmResume, IInv, Typed, Placed, Located, RequestRecord
<1>3. UNCHANGED <<active, generation, switching, native, tab, tabOwner, moving>> /\ ~request[r].stale
  BY DEF ConfirmResume
<1>4. Holds(t, c) /\ owner[c] # None
  BY <1>2 DEF ConfirmResume, SameOwner, TerminalOwner, Holds
<1>5. /\ owner' \in [Conversations -> Owners \cup {None}]
      /\ \A d \in Conversations : d # c => owner'[d] = owner[d]
      /\ owner'[c] # None /\ owner'[c].kind = owner[c].kind
      /\ owner'[c].by = owner[c].by /\ owner'[c].gen = owner[c].gen
      /\ owner'[c].phase = "active" /\ SameOwner(owner'[c], owner[c])
  <2>1. owner' = [owner EXCEPT ![c].phase = "active"]
    BY <1>2 DEF ConfirmResume
  <2> QED
    BY <1>4, <2>1, PhaseChanges DEF Phases, IInv
<1>6. \A s \in Requests : Adopting(request[s]) => request[s].c # c
  <2> SUFFICES ASSUME NEW s \in Requests, Adopting(request[s]), request[s].c = c
               PROVE  FALSE
    OBVIOUS
  <2>1. request[s].t = t
    BY <1>4 DEF IInv, Movers, MoverOf, SameOwner, Holds
  <2> QED
    BY <1>2, <1>3, <2>1 DEF IInv, Claims, ClaimOf, Resuming
<1>7. \A d \in Conversations : (Driven(d)' <=> Driven(d)) /\ (Adopted(d)' <=> Adopted(d))
  BY <1>1, <1>2 DEF Driven, Adopted, Drives, InFlight, Idle
<1>8. \A u \in Tabs : u # t => Unconfirmed(u)' = Unconfirmed(u)
  BY <1>1, <1>2 DEF Unconfirmed, Idle
<1>9. \A s \in Requests : Drives(request[s]) /\ request[s].kind \in {"start", "switch"} =>
        request[s].c # c
  <2> SUFFICES ASSUME NEW s \in Requests, Drives(request[s]), request[s].c = c,
                      request[s].kind \in {"start", "switch"}
               PROVE  FALSE
    OBVIOUS
  <2>1. /\ request[s].kind = "start" => owner[c] = NativeOwner(request[s].gen, "starting")
        /\ request[s].kind = "switch" =>
             SameOwner(owner[c], NativeOwner(request[s].gen, "active"))
    BY DEF IInv, Flight, FlightOf, Drives
  <2>2. owner[c].kind = "native"
    BY <2>1 DEF NativeOwner, SameOwner
  <2> QED
    BY <1>4, <2>2 DEF Holds
<1>10. \A u \in Tabs, d \in Conversations : Holds(u, d)' <=> Holds(u, d)
  BY <1>4, <1>5 DEF Holds
<1>11. /\ tabOwner[t].via \in {r, None}
       /\ tab[t].open /\ (tab[t].by = "app" => tab[t].runs = c)
  BY <1>2, <1>3, <1>4 DEF IInv, Claims, ClaimOf, Resuming, Records
<1>12. Typed'
  BY <1>1, <1>3, <1>5 DEF IInv, Typed
<1>13. Placed'
  BY <1>1 DEF IInv, Placed, Located, Idle
<1>14. Generations'
  BY <1>1, <1>3 DEF IInv, Generations, InFlight, Idle
<1>15. Flight'
  BY <1>1, <1>3, <1>5, <1>9 DEF IInv, Placed, Located, Flight, FlightOf, Drives,
     InFlight, Idle
<1>16. OneDriver'
  BY <1>1 DEF IInv, OneDriver, Drives, InFlight, Idle
<1>17. StartedFirst'
  BY <1>1 DEF IInv, StartedFirst, Idle
<1>18. Entries'
  BY <1>3, <1>5, <1>7 DEF IInv, Entries, Entry, SameOwner
<1>19. Records'
  BY <1>3, <1>4, <1>5 DEF IInv, Records, Holds
<1>20. OneMover'
  BY <1>1 DEF IInv, OneMover, Moves, Idle
<1>21. Movers'
  BY <1>1, <1>3, <1>5, <1>6 DEF IInv, Placed, Located, Movers, MoverOf, Moves, Adopting,
     Busy, Idle
<1>22. OneOperation'
  BY <1>1 DEF IInv, OneOperation, InOperation, Idle
<1>23. Claims'
  <2> SUFFICES ASSUME NEW s \in Requests PROVE ClaimOf(s)'
    BY DEF Claims
  <2>1. CASE s = r
    BY <1>1, <2>1 DEF ClaimOf, Resuming, Idle
  <2>2. CASE s # r
    <3>1. ASSUME NEW d \in Conversations, NEW u \in Tabs,
                 d = request[s].c, u = request[s].t,
                 Resuming(request[s]), tabOwner[u] # None, tabOwner[u].via = s
          PROVE  Holds(u, d)' => owner'[d].phase = "starting"
      <4>1. u # t
        BY <1>11, <2>2, <3>1, OwnershipAssumption
      <4>3. CASE d = c
        BY <1>4, <1>5, <4>1, <4>3 DEF Holds
      <4>4. CASE d # c
        BY <1>5, <3>1, <4>4 DEF Holds, IInv, Claims, ClaimOf
      <4> QED
        BY <4>3, <4>4
    <3>2. \A u \in Requests : Adopting(request'[u]) => request'[u] = request[u]
      BY <1>1 DEF Adopting, Idle
    <3> QED
      BY <1>1, <1>3, <2>2, <3>1, <3>2 DEF IInv, Claims, ClaimOf, Resuming, Placed,
         Located
  <2> QED
    BY <2>1, <2>2
<1>24. Launched'
  <2> SUFFICES ASSUME NEW u \in Tabs PROVE Launching(u)'
    BY DEF Launched
  <2>1. CASE u = t
    <3>1. c # None
      BY <1>2, OwnershipAssumption
    <3> QED
      BY <1>3, <1>4, <1>10, <1>11, <2>1, <3>1 DEF Launching
  <2>2. CASE u # t
    BY <1>3, <1>8, <1>10, <2>2 DEF IInv, Typed, TabStates, Launched, Launching
  <2> QED
    BY <2>1, <2>2
<1> QED
  BY <1>12, <1>13, <1>14, <1>15, <1>16, <1>17, <1>18, <1>19, <1>20, <1>21, <1>22, <1>23,
     <1>24 DEF IInv

(* LaunchResume: what was launched has still to be confirmed.              *)
LEMMA LaunchResumeKeeps ==
  ASSUME Overlaps = {}, IInv, NEW r \in Requests, LaunchResume(r)
  PROVE  IInv'
<1>1. /\ Kept(r) /\ request'[r].pc = "confirming" /\ request'[r].kind # "none"
      /\ request'[r].lost = request[r].lost /\ request'[r].stale = request[r].stale
      /\ \A s \in Requests : s # r => request'[s] = request[s]
      /\ request' \in [Requests -> RequestRecord]
  BY DEF LaunchResume, Step, Kept, IInv, Typed, RequestRecord, Places
<1>2. PICK c \in Conversations, t \in Tabs :
        /\ c = request[r].c /\ t = request[r].t
        /\ request[r].kind = "resume" /\ request[r].pc = "launching"
  BY DEF LaunchResume, IInv, Typed, Placed, Located, RequestRecord
<1>3. /\ tab[t].open /\ tab[t].pty < MaxPty /\ ~request[r].stale /\ OthersLeft(r, t)
      /\ tab[t].pty + 1 = request[r].gen /\ tab' = Relaunched(t, c)
      /\ UNCHANGED <<owner, active, generation, switching, native, tabOwner, moving>>
  BY <1>2 DEF LaunchResume, Undisturbed, CanLaunch
<1>4. /\ tab' \in [Tabs -> TabStates] /\ \A u \in Tabs : u # t => tab'[u] = tab[u]
      /\ tab'[t].open /\ tab'[t].pty = request[r].gen
      /\ tab'[t].runs = c /\ tab'[t].by = "app"
  BY <1>3, RelaunchedTab DEF IInv
<1>5. \A s \in Requests : s # r /\ request[s].t = t => ~InOperation(request[s])
  BY <1>2, <1>3 DEF IInv, OneOperation, OthersLeft, InOperation
<1>6. \A s \in Requests : Adopting(request[s]) => request[s].t # t
  BY <1>2, <1>3 DEF IInv, Claims, ClaimOf, Resuming
<1>7. \A d \in Conversations : (Driven(d)' <=> Driven(d)) /\ (Adopted(d)' <=> Adopted(d))
  BY <1>1, <1>2 DEF Kept, Driven, Adopted, Drives, InFlight
<1>8. \A u \in Tabs : u # t => Unconfirmed(u)' = Unconfirmed(u)
  BY <1>1, <1>2 DEF Kept, Unconfirmed
<1>9. Unconfirmed(t)'
  BY <1>1, <1>2 DEF Kept, Unconfirmed
<1>10. Typed'
  BY <1>1, <1>3, <1>4 DEF IInv, Typed
<1>11. Placed'
  BY <1>1, <1>2 DEF IInv, Placed, Located, Kept
<1>12. Generations'
  BY <1>1, <1>3 DEF IInv, Generations, InFlight, Kept
<1>13. Flight'
  BY <1>1, <1>2, <1>3 DEF IInv, Flight, FlightOf, InFlight, Kept
<1>14. OneDriver'
  BY <1>1, <1>2 DEF IInv, OneDriver, Drives, InFlight, Kept
<1>15. StartedFirst'
  BY <1>1 DEF IInv, StartedFirst, Kept
<1>16. Entries'
  BY <1>3, <1>7 DEF IInv, Entries, Entry
<1>17. Records'
  BY <1>3, <1>4 DEF IInv, Records, Holds
<1>18. OneMover'
  BY <1>1, <1>2 DEF IInv, OneMover, Moves, Kept
<1>19. Movers'
  BY <1>1, <1>2, <1>3, <1>4, <1>6 DEF IInv, Typed, Movers, MoverOf, Moves, Adopting,
     Busy, Kept
<1>20. OneOperation'
  BY <1>1 DEF IInv, Placed, Located, OneOperation, InOperation, Kept
<1>21. Claims'
  <2> SUFFICES ASSUME NEW s \in Requests PROVE ClaimOf(s)'
    BY DEF Claims
  <2>1. \A u \in Requests : Adopting(request'[u]) => request'[u] = request[u]
    BY <1>1, <1>2 DEF Adopting, Kept
  <2>2. CASE s = r
    <3>1. ClaimOf(r)
      BY DEF IInv, Claims
    <3>2. /\ tab'[t].open /\ tab'[t].pty = request[r].gen /\ tab'[t].runs = c
          /\ \A u \in Requests : Adopting(request'[u]) => request'[u].t # t
      BY <1>4, <1>6, <2>1
    <3> QED
      BY <1>1, <1>2, <1>3, <2>2, <3>1, <3>2 DEF ClaimOf, Resuming, Holds, Kept
  <2>3. CASE s # r
    <3>1. request'[s] = request[s] /\ ClaimOf(s)
      BY <1>1, <2>3 DEF IInv, Claims
    <3>2. Resuming(request[s]) => tab'[request[s].t] = tab[request[s].t]
      BY <1>4, <1>5, <2>3 DEF Resuming, InOperation, IInv, Placed, Located
    <3> QED
      BY <1>3, <2>1, <3>1, <3>2 DEF ClaimOf, Holds
  <2> QED
    BY <2>2, <2>3
<1>22. Launched'
  <2> SUFFICES ASSUME NEW u \in Tabs PROVE Launching(u)'
    BY DEF Launched
  <2>1. CASE u = t
    <3>1. c # None
      BY <1>2, OwnershipAssumption
    <3> QED
      BY <1>4, <1>9, <2>1, <3>1 DEF Launching
  <2>2. CASE u # t
    BY <1>3, <1>4, <1>8, <2>2 DEF IInv, Launched, Launching, Holds
  <2> QED
    BY <2>1, <2>2
<1> QED
  BY <1>10, <1>11, <1>12, <1>13, <1>14, <1>15, <1>16, <1>17, <1>18, <1>19, <1>20, <1>21,
     <1>22 DEF IInv

(* ClaimForResume: the claim is the only one the tab has, on what nobody   *)
(* owned.                                                                  *)
LEMMA ClaimForResumeKeeps ==
  ASSUME Overlaps = {}, IInv, NEW r \in Requests, ClaimForResume(r)
  PROVE  IInv'
<1>1. /\ Kept(r) /\ request'[r].pc = "launching" /\ request'[r].kind # "none"
      /\ request'[r].lost = request[r].lost /\ request'[r].stale = request[r].stale
      /\ \A s \in Requests : s # r => request'[s] = request[s]
      /\ request' \in [Requests -> RequestRecord]
  BY DEF ClaimForResume, Step, Kept, IInv, Typed, RequestRecord, Places
<1>2. PICK c \in Conversations, t \in Tabs :
        /\ c = request[r].c /\ t = request[r].t
        /\ request[r].kind = "resume" /\ request[r].pc = "authorizing"
  BY DEF ClaimForResume, IInv, Typed, Placed, Located, RequestRecord
<1>3. /\ tab[t].open /\ tab[t].pty < MaxPty /\ ~request[r].stale /\ OthersLeft(r, t)
      /\ tab[t].pty + 1 = request[r].gen /\ owner[c] = None /\ ~Busy(t, c)
      /\ owner' = [owner EXCEPT ![c] = TerminalOwner(t, request[r].gen, "starting")]
      /\ tabOwner' = [tabOwner EXCEPT ![t] = [conv |-> c, gen |-> request[r].gen, via |-> r]]
      /\ UNCHANGED <<active, generation, switching, native, tab, moving>>
  BY <1>2 DEF ClaimForResume, Undisturbed, CanLaunch
<1>4. request[r].gen \in 1..MaxPty + 1
  BY <1>3, OwnershipAssumption DEF IInv, Typed, TabStates
<1>5. /\ owner' \in [Conversations -> Owners \cup {None}]
      /\ \A d \in Conversations : d # c => owner'[d] = owner[d]
      /\ owner'[c] # None /\ owner'[c].kind = "terminal" /\ owner'[c].by = t
      /\ owner'[c].gen = request[r].gen /\ owner'[c].phase = "starting"
  <2>1. PICK o : o = TerminalOwner(t, request[r].gen, "starting")
    OBVIOUS
  <2>2. o \in Owners /\ o # None
    BY <1>4, <2>1, OwnerTypes DEF Phases
  <2>3. /\ o.kind = "terminal" /\ o.by = t /\ o.gen = request[r].gen
        /\ o.phase = "starting"
    BY <2>1 DEF TerminalOwner
  <2> QED
    BY <1>3, <2>1, <2>2, <2>3 DEF IInv, Typed
<1>6. /\ tabOwner' \in [Tabs -> Holdings \cup {None}]
      /\ \A u \in Tabs : u # t => tabOwner'[u] = tabOwner[u]
      /\ tabOwner'[t] # None /\ tabOwner'[t].conv = c
      /\ tabOwner'[t].gen = request[r].gen /\ tabOwner'[t].via = r
  <2>1. PICK h : h = [conv |-> c, gen |-> request[r].gen, via |-> r]
    OBVIOUS
  <2>2. h \in Holdings /\ h # None
    BY <1>4, <2>1, AbsenceAssumption DEF Holdings
  <2> QED
    BY <1>3, <2>1, <2>2 DEF IInv, Typed
<1>7. \A s \in Requests : s # r /\ request[s].t = t => ~InOperation(request[s])
  BY <1>2, <1>3 DEF IInv, OneOperation, OthersLeft, InOperation
<1>8. \A d \in Conversations : ~Holds(t, d)
  BY <1>3 DEF IInv, Records, Holds, Busy
<1>9. \A s \in Requests : Adopting(request[s]) => request[s].c # c /\ request[s].t # t
  BY <1>3, <1>8 DEF IInv, Movers, MoverOf, SameOwner, Holds, Placed, Located, Adopting
<1>10. \A d \in Conversations : (Driven(d)' <=> Driven(d)) /\ (Adopted(d)' <=> Adopted(d))
  BY <1>1, <1>2 DEF Kept, Driven, Adopted, Drives, InFlight
<1>11. \A u \in Tabs : Unconfirmed(u)' <=> Unconfirmed(u)
  BY <1>1, <1>2 DEF Unconfirmed
<1>12. tab[t].by = "user"
  <2>1. ~Unconfirmed(t)
    BY <1>2, <1>7, PlaceTells DEF Unconfirmed, InOperation, IInv
  <2>2. tab[t].by # "app"
    BY <1>8, <2>1 DEF IInv, Launched, Launching, Typed, TabStates
  <2> QED
    BY <2>2 DEF IInv, Typed, TabStates
<1>13. Typed'
  BY <1>1, <1>3, <1>5, <1>6 DEF IInv, Typed
<1>14. Placed'
  BY <1>1, <1>2 DEF IInv, Placed, Located, Kept
<1>15. Generations'
  BY <1>1, <1>3 DEF IInv, Generations, InFlight, Kept
<1>16. Flight'
  BY <1>1, <1>2, <1>3 DEF IInv, Generations, Flight, FlightOf, Drives, InFlight,
     Entries, Entry, Adopted, SameOwner, Kept
<1>17. OneDriver'
  BY <1>1, <1>2 DEF IInv, OneDriver, Drives, InFlight, Kept
<1>18. StartedFirst'
  BY <1>1 DEF IInv, StartedFirst, Kept
<1>19. Entries'
  BY <1>3, <1>10 DEF IInv, Entries, Entry, SameOwner, TerminalOwner
<1>20. Records'
  BY <1>3, <1>5, <1>6, <1>8 DEF IInv, Records, Holds
<1>21. OneMover'
  BY <1>1, <1>2 DEF IInv, OneMover, Moves, Kept
<1>22. Movers'
  <2> SUFFICES ASSUME NEW s \in Requests PROVE MoverOf(s)'
    BY DEF Movers
  <2>1. CASE s = r
    BY <1>1, <1>2, <2>1 DEF MoverOf, Moves, Kept, Adopting
  <2>2. CASE s # r
    BY <1>1, <1>3, <1>7, <1>9, <2>2 DEF IInv, Movers, MoverOf, Busy, InOperation
  <2> QED
    BY <2>1, <2>2
<1>23. OneOperation'
  BY <1>1, <1>2 DEF IInv, OneOperation, InOperation, Kept
<1>24. Claims'
  <2> SUFFICES ASSUME NEW s \in Requests PROVE ClaimOf(s)'
    BY DEF Claims
  <2>1. \A u \in Requests : Adopting(request'[u]) => request'[u] = request[u]
    BY <1>1, <1>2 DEF Adopting, Kept
  <2>2. CASE s = r
    <3>1. \A u \in Requests : Adopting(request'[u]) => request'[u].t # t
      BY <1>9, <2>1
    <3> QED
      BY <1>1, <1>2, <1>3, <1>5, <1>6, <1>12, <2>2, <3>1 DEF ClaimOf, Kept
  <2>3. CASE s # r
    <3>1. request'[s] = request[s] /\ ClaimOf(s)
      BY <1>1, <2>3 DEF IInv, Claims
    <3>2. Resuming(request[s]) => request[s].t \in Tabs /\ request[s].t # t
      BY <1>7, <2>3 DEF Resuming, InOperation, IInv, Placed, Located
    <3>3. ASSUME NEW u \in Tabs, u # t, NEW d \in Conversations, Holds(u, d)'
          PROVE  Holds(u, d) /\ owner'[d] = owner[d]
      BY <1>5, <3>3 DEF Holds
    <3>4. Resuming(request[s]) => request[s].c \in Conversations
      BY DEF Resuming, IInv, Placed, Located
    <3> QED
      BY <1>3, <1>6, <2>1, <3>1, <3>2, <3>3, <3>4 DEF ClaimOf
  <2> QED
    BY <2>2, <2>3
<1>25. Launched'
  BY <1>3, <1>11 DEF IInv, Launched, Launching, Holds
<1> QED
  BY <1>13, <1>14, <1>15, <1>16, <1>17, <1>18, <1>19, <1>20, <1>21, <1>22, <1>23, <1>24,
     <1>25 DEF IInv

(* AdoptionRefused: nothing was done yet.                                  *)
LEMMA AdoptionRefusedKeeps ==
  ASSUME Overlaps = {}, IInv, NEW r \in Requests, AdoptionRefused(r)
  PROVE  IInv'
<1>1. /\ request'[r] = Idle
      /\ \A s \in Requests : s # r => request'[s] = request[s]
      /\ request' \in [Requests -> RequestRecord]
  BY DEF AdoptionRefused, Finish, Idle, IInv, Typed, RequestRecord
<1>2. PICK c \in Conversations, t \in Tabs :
        /\ c = request[r].c /\ t = request[r].t
        /\ request[r].kind = "adopt" /\ request[r].pc = "preparing"
  BY DEF AdoptionRefused, IInv, Typed, Placed, Located, RequestRecord
<1>3. /\ moving' \in {moving, moving \ {t}}
      /\ UNCHANGED <<owner, active, generation, switching, native, tab, tabOwner>>
  BY <1>2 DEF AdoptionRefused
<1>4. \A s \in Requests : s # r /\ Moves(request[s]) => request[s].t # t
  BY <1>2 DEF IInv, OneMover, Moves
<1>5. \A d \in Conversations : (Driven(d)' <=> Driven(d)) /\ (Adopted(d)' <=> Adopted(d))
  BY <1>1, <1>2 DEF Driven, Adopted, Drives, InFlight, Idle
<1>6. \A u \in Tabs : Unconfirmed(u)' <=> Unconfirmed(u)
  BY <1>1, <1>2 DEF Unconfirmed, Idle
<1>7. Typed'
  BY <1>1, <1>3 DEF IInv, Typed
<1>8. Placed'
  BY <1>1 DEF IInv, Placed, Located, Idle
<1>9. Generations'
  BY <1>1, <1>3 DEF IInv, Generations, InFlight, Idle
<1>10. Flight'
  BY <1>1, <1>3 DEF IInv, Flight, FlightOf, InFlight, Idle
<1>11. OneDriver'
  BY <1>1 DEF IInv, OneDriver, Drives, InFlight, Idle
<1>12. StartedFirst'
  BY <1>1 DEF IInv, StartedFirst, Idle
<1>13. Entries'
  BY <1>3, <1>5 DEF IInv, Entries, Entry
<1>14. Records'
  BY <1>3 DEF IInv, Records, Holds
<1>15. OneMover'
  BY <1>1 DEF IInv, OneMover, Moves, Idle
<1>16. Movers'
  BY <1>1, <1>3, <1>4 DEF IInv, Movers, MoverOf, Moves, Adopting, Busy, Idle
<1>17. OneOperation'
  BY <1>1 DEF IInv, OneOperation, InOperation, Idle
<1>18. Claims'
  BY <1>1, <1>3 DEF IInv, Claims, ClaimOf, Resuming, Adopting, Holds, Idle
<1>19. Launched'
  BY <1>3, <1>6 DEF IInv, Launched, Launching, Holds
<1> QED
  BY <1>7, <1>8, <1>9, <1>10, <1>11, <1>12, <1>13, <1>14, <1>15, <1>16, <1>17, <1>18,
     <1>19 DEF IInv

(* HandlerDrops: the entry goes with the handler that drove it.            *)
LEMMA HandlerDropsKeeps ==
  ASSUME Overlaps = {}, IInv, NEW r \in Requests, NEW c \in Conversations, c = request[r].c,
         Drives(request[r]), request[r].kind \in {"start", "switch"},
         request'[r] = Idle, request' \in [Requests -> RequestRecord],
         \A s \in Requests : s # r => request'[s] = request[s],
         owner' = [owner EXCEPT ![c] = None], active' = [active EXCEPT ![c] = 0],
         native' = native \ {c}, switching' = switching \ {c},
         moving' = moving \/ (Moves(request[r]) /\ moving' = moving \ {request[r].t}),
         UNCHANGED <<generation, tab, tabOwner>>
  PROVE  IInv'
<1>1. /\ active[c] = request[r].gen /\ active[c] # 0
      /\ \A s \in Requests : Drives(request[s]) /\ request[s].c = c => s = r
  BY DriverStands
<1>2. owner[c] # None /\ owner[c].kind = "native"
  <2>1. request[r].gen \in 1..MaxNative
    BY DriverStands
  <2>2. request[r].kind = "start" => owner[c] = NativeOwner(request[r].gen, "starting")
    BY DEF IInv, Flight, FlightOf, Drives
  <2>3. request[r].kind = "switch" => SameOwner(owner[c], NativeOwner(request[r].gen, "active"))
    BY DEF IInv, Flight, FlightOf, Drives
  <2> QED
    BY <2>1, <2>2, <2>3, NativeOwners DEF SameOwner, Phases
<1>3. /\ owner' \in [Conversations -> Owners \cup {None}]
      /\ owner'[c] = None /\ \A d \in Conversations : d # c => owner'[d] = owner[d]
      /\ active' \in [Conversations -> 0..MaxNative]
      /\ active'[c] = 0 /\ \A d \in Conversations : d # c => active'[d] = active[d]
  BY OwnershipAssumption DEF IInv, Typed
<1>4. \A u \in Tabs, d \in Conversations : Holds(u, d)' <=> Holds(u, d)
  BY <1>2, <1>3 DEF Holds
<1>5. \A s \in Requests : Adopting(request[s]) => request[s].c # c
  BY <1>2 DEF IInv, Movers, MoverOf, SameOwner
<1>6. \A s \in Requests : s # r /\ InFlight(request[s]) /\ request[s].c = c => request[s].lost
  BY <1>1 DEF Drives
<1>7. \A d \in Conversations : d # c =>
        (Driven(d)' <=> Driven(d)) /\ (Adopted(d)' <=> Adopted(d))
  BY DEF Driven, Adopted, Drives, InFlight, Idle
<1>8. ~Driven(c)' /\ ~Adopted(c)'
  BY <1>1 DEF Driven, Adopted, Drives, InFlight, Idle
<1>9. \A u \in Tabs : Unconfirmed(u)' <=> Unconfirmed(u)
  BY PlaceTells DEF Unconfirmed, IInv, Idle
<1>10. \A s \in Requests : s # r /\ Moves(request[s]) /\ request[s].pc # "preparing" =>
         request[s].t \in moving'
  BY DEF IInv, OneMover, Movers, MoverOf
<1>11. Typed'
  BY <1>3 DEF IInv, Typed
<1>12. Placed'
  BY DEF IInv, Placed, Located, Idle
<1>13. Generations'
  BY DEF IInv, Typed, Generations, InFlight, Idle
<1>14. Flight'
  BY DEF IInv, Generations, Flight, FlightOf, OneDriver, Drives, InFlight, Idle
<1>15. OneDriver'
  BY DEF IInv, OneDriver, Drives, InFlight, Idle
<1>16. StartedFirst'
  BY DEF IInv, StartedFirst, Idle
<1>17. Entries'
  BY <1>7 DEF IInv, Typed, Entries, Entry
<1>18. Records'
  BY DEF IInv, Records, Holds
<1>19. OneMover'
  BY DEF IInv, OneMover, Moves, Idle
<1>20. Movers'
  BY <1>5 DEF IInv, OneMover, Movers, MoverOf, Moves, Adopting, Busy, Idle
<1>21. OneOperation'
  BY DEF IInv, OneOperation, InOperation, Idle
<1>22. Claims'
  BY DEF IInv, Claims, ClaimOf, Resuming, Adopting, Holds, Idle
<1>23. Launched'
  BY <1>4, <1>9 DEF IInv, Launched, Launching, Holds
<1> QED
  BY <1>11, <1>12, <1>13, <1>14, <1>15, <1>16, <1>17, <1>18, <1>19, <1>20, <1>21, <1>22,
     <1>23 DEF IInv

(* HandlerLeaves: a handler that lost its entry leaves nothing behind.     *)
LEMMA HandlerLeavesKeeps ==
  ASSUME Overlaps = {}, IInv, NEW r \in Requests, InFlight(request[r]), request[r].lost,
         request[r].kind \in {"start", "switch"},
         request'[r] = Idle, request' \in [Requests -> RequestRecord],
         \A s \in Requests : s # r => request'[s] = request[s],
         moving' = moving \/ (Moves(request[r]) /\ moving' = moving \ {request[r].t}),
         UNCHANGED <<owner, active, generation, switching, native, tab, tabOwner>>
  PROVE  IInv'
<1>1. \A d \in Conversations : (Driven(d)' <=> Driven(d)) /\ (Adopted(d)' <=> Adopted(d))
  BY DEF Driven, Adopted, Drives, InFlight, Idle
<1>2. \A u \in Tabs : Unconfirmed(u)' <=> Unconfirmed(u)
  BY DEF Unconfirmed, IInv, Idle, Placed, Located
<1>3. \A s \in Requests : s # r /\ Moves(request[s]) /\ request[s].pc # "preparing" =>
        request[s].t \in moving'
  BY DEF IInv, OneMover, Movers, MoverOf
<1>4. Typed'
  BY DEF IInv, Typed
<1>5. Placed'
  BY DEF IInv, Placed, Located, Idle
<1>6. Generations'
  BY DEF IInv, Generations, InFlight, Idle
<1>7. Flight'
  BY DEF IInv, Flight, FlightOf, InFlight, Idle
<1>8. OneDriver'
  BY DEF IInv, OneDriver, Drives, InFlight, Idle
<1>9. StartedFirst'
  BY DEF IInv, StartedFirst, Idle
<1>10. Entries'
  BY <1>1 DEF IInv, Entries, Entry
<1>11. Records'
  BY DEF IInv, Records, Holds
<1>12. OneMover'
  BY DEF IInv, OneMover, Moves, Idle
<1>13. Movers'
  BY <1>3 DEF IInv, Movers, MoverOf, Moves, Adopting, Busy, Idle
<1>14. OneOperation'
  BY DEF IInv, OneOperation, InOperation, Idle
<1>15. Claims'
  BY DEF IInv, Claims, ClaimOf, Resuming, Adopting, Holds, Idle
<1>16. Launched'
  BY <1>2 DEF IInv, Launched, Launching, Holds
<1> QED
  BY <1>4, <1>5, <1>6, <1>7, <1>8, <1>9, <1>10, <1>11, <1>12, <1>13, <1>14, <1>15, <1>16
     DEF IInv

(* StartFails: it releases what is its own.                                *)
LEMMA StartFailsKeeps ==
  ASSUME Overlaps = {}, IInv, NEW r \in Requests, StartFails(r)
  PROVE  IInv'
<1>1. PICK c \in Conversations :
        c = request[r].c /\ request[r].kind = "start" /\ request[r].pc \in {"spawn", "init"}
  BY DEF StartFails, IInv, Placed, Located
<1>2. InFlight(request[r]) /\ ~Moves(request[r])
  BY <1>1 DEF InFlight, Moves
<1>3. CASE active[c] = request[r].gen
  <2>1. ~request[r].lost /\ Drives(request[r])
    BY <1>1, <1>2, <1>3 DEF IInv, Flight, FlightOf, Drives
  <2>2. /\ active[c] # 0 /\ request[r].gen \in 1..MaxNative
        /\ \A s \in Requests : Drives(request[s]) /\ request[s].c = c => s = r
    BY <1>1, <2>1, DriverStands
  <2>3. /\ native' = native \ {c} /\ owner' = ReleaseNative(owner, c)
        /\ active' = [active EXCEPT ![c] = 0]
        /\ request' = [CancelStarts(request, r, c) EXCEPT ![r] = Idle]
        /\ UNCHANGED <<generation, switching, tab, tabOwner, moving>>
    BY <1>1, <1>3 DEF StartFails
  <2>4. owner[c] = NativeOwner(request[r].gen, "starting") /\ c \notin switching
    BY <1>1, <1>2, <2>1 DEF IInv, Flight, FlightOf
  <2>5. owner' = [owner EXCEPT ![c] = None]
    BY <1>3, <2>2, <2>3, <2>4, NativeOwners DEF ReleaseNative, ReleaseOwner, Phases
  <2>6. /\ request'[r] = Idle /\ request' \in [Requests -> RequestRecord]
        /\ \A s \in Requests : s # r => request'[s] = request[s]
    <3> DEFINE can == CancelStarts(request, r, c)
    <3>1. can \in [Requests -> RequestRecord]
      BY CancelLoses DEF IInv, Typed
    <3>2. ASSUME NEW s \in Requests, s # r PROVE can[s] = request[s]
      BY <2>2, <3>2, CancelKeeps
    <3> HIDE DEF can
    <3> QED
      BY <2>3, <3>1, <3>2, IdleTyped DEF can
  <2>7. switching' = switching \ {c}
    BY <2>3, <2>4
  <2> QED
    BY <1>1, <2>1, <2>3, <2>5, <2>6, <2>7, HandlerDropsKeeps
<1>4. CASE active[c] # request[r].gen
  <2>1. request[r].lost
    BY <1>1, <1>2, <1>4 DEF IInv, Flight, FlightOf
  <2>2. /\ Finish(r)
        /\ UNCHANGED <<owner, active, generation, switching, native, tab, tabOwner, moving>>
    BY <1>1, <1>4, <2>1 DEF StartFails
  <2>3. /\ request'[r] = Idle /\ request' \in [Requests -> RequestRecord]
        /\ \A s \in Requests : s # r => request'[s] = request[s]
    BY <2>2, IdleTyped DEF Finish, IInv, Typed
  <2> QED
    BY <1>1, <1>2, <2>1, <2>2, <2>3, HandlerLeavesKeeps
<1> QED
  BY <1>3, <1>4

(* SwitchAbandoned: the entry goes, unless it is gone already.             *)
LEMMA SwitchAbandonedKeeps ==
  ASSUME Overlaps = {}, IInv, NEW r \in Requests, SwitchAbandoned(r)
  PROVE  IInv'
<1>1. PICK c \in Conversations :
        c = request[r].c /\ request[r].kind = "switch" /\ request[r].pc \in {"spawn", "init"}
  BY DEF SwitchAbandoned, IInv, Placed, Located
<1>2. InFlight(request[r]) /\ Moves(request[r])
  BY <1>1 DEF InFlight, Moves
<1>3. /\ moving' = moving \ {request[r].t} /\ Finish(r)
      /\ UNCHANGED <<generation, tab, tabOwner>>
  BY DEF SwitchAbandoned
<1>4. /\ request'[r] = Idle /\ request' \in [Requests -> RequestRecord]
      /\ \A s \in Requests : s # r => request'[s] = request[s]
  BY <1>3, IdleTyped DEF Finish, IInv, Typed
<1>5. request[r].gen \in 1..MaxNative
  <2>1. request[r].gen \in 1..generation[c]
    BY <1>1, <1>2 DEF IInv, Generations
  <2>2. generation \in [Conversations -> 0..MaxNative]
    BY DEF IInv, Typed
  <2> QED
    BY <1>1, <2>1, <2>2, OwnershipAssumption
<1>6. /\ request[r].lost <=> active[c] # request[r].gen
      /\ ~request[r].lost => SameOwner(owner[c], NativeOwner(request[r].gen, "active"))
      /\ SameOwner(request[r].saved, NativeOwner(request[r].gen, "active"))
      /\ ~request[r].lost => (c \in native <=> request[r].pc = "init")
  BY <1>1, <1>2 DEF IInv, Flight, FlightOf
<1>7. CASE ~request[r].lost
  <2>1. active[c] = request[r].gen /\ active[c] # 0
    BY <1>5, <1>6, <1>7
  <2>2. SameOwner(owner[c], request[r].saved)
    BY <1>6, <1>7 DEF SameOwner
  <2> DEFINE restored == RollbackTransfer(owner, c, request[r].saved)
  <2>3. restored = [owner EXCEPT ![c] = request[r].saved]
    BY <2>2 DEF RollbackTransfer
  <2>4. /\ owner' = ReleaseNative(restored, c)
        /\ active' = [active EXCEPT ![c] = 0] /\ switching' = switching \ {c}
    BY <1>1, <2>1 DEF SwitchAbandoned
  <2> HIDE DEF restored
  <2>5. restored[c] = request[r].saved
    BY <2>3 DEF IInv, Typed
  <2>6. owner' = [restored EXCEPT ![c] = None]
    BY <1>6, <2>1, <2>4, <2>5 DEF ReleaseNative, ReleaseOwner
  <2>7. owner' = [owner EXCEPT ![c] = None]
    BY <2>3, <2>6 DEF IInv, Typed
  <2>8. native' = native \ {c}
    BY <1>1, <1>6, <1>7 DEF SwitchAbandoned
  <2> QED
    BY <1>1, <1>2, <1>3, <1>4, <1>7, <2>4, <2>7, <2>8, HandlerDropsKeeps DEF Drives
<1>8. CASE request[r].lost
  <2>1. active[c] # request[r].gen
    BY <1>6, <1>8
  <2>2. ~SameOwner(owner[c], request[r].saved)
    <3> SUFFICES ASSUME SameOwner(owner[c], request[r].saved) PROVE FALSE
      OBVIOUS
    <3>1. SameOwner(owner[c], NativeOwner(request[r].gen, "active"))
      BY <1>6 DEF SameOwner
    <3>2. owner[c] # None /\ owner[c].kind = "native" /\ owner[c].gen = request[r].gen
      BY <3>1 DEF SameOwner, NativeOwner
    <3> QED
      BY <2>1, <3>2 DEF IInv, Entries, Entry
  <2>3. /\ owner' = RollbackTransfer(owner, c, request[r].saved)
        /\ UNCHANGED <<active, switching>>
    BY <1>1, <2>1 DEF SwitchAbandoned
  <2>4. UNCHANGED <<owner, native>>
    BY <1>8, <2>2, <2>3 DEF SwitchAbandoned, RollbackTransfer
  <2> QED
    BY <1>1, <1>2, <1>3, <1>4, <1>8, <2>3, <2>4, HandlerLeavesKeeps
<1> QED
  BY <1>7, <1>8

(* EntryEnds: the entry ends; whoever works on it finds it gone.           *)
LEMMA EntryEndsKeeps ==
  ASSUME Overlaps = {}, IInv, NEW c \in Conversations, active[c] # 0,
         request' \in [Requests -> RequestRecord],
         \A s \in Requests : Kept(s) /\ request'[s].pc = request[s].pc
                             /\ request'[s].stale = request[s].stale,
         \A s \in Requests : request'[s] = request[s]
           \/ (request'[s].lost /\ InFlight(request[s]) /\ request[s].c = c),
         \A s \in Requests : Drives(request[s]) /\ request[s].c = c =>
           /\ request'[s].lost
           /\ request[s].pc = "init" \/ (request[s].kind = "start" /\ request[s].pc = "spawn"),
         owner' \in [Conversations -> Owners \cup {None}],
         \A d \in Conversations : d # c => owner'[d] = owner[d],
         owner'[c] = IF owner[c] # None /\ owner[c].kind = "native" THEN None ELSE owner[c],
         active' = [active EXCEPT ![c] = 0],
         native' = native \ {c}, switching' = switching \ {c},
         UNCHANGED <<generation, tab, tabOwner, moving>>
  PROVE  IInv'
<1>1. /\ active' \in [Conversations -> 0..MaxNative]
      /\ active'[c] = 0 /\ \A d \in Conversations : d # c => active'[d] = active[d]
  BY OwnershipAssumption DEF IInv, Typed
<1>2. \A u \in Tabs, d \in Conversations : Holds(u, d)' <=> Holds(u, d)
  BY DEF Holds
<1>3. \A s \in Requests : InFlight(request[s])' <=> InFlight(request[s])
  BY DEF Kept, InFlight
<1>4. \A d \in Conversations : d # c =>
        (Driven(d)' <=> Driven(d)) /\ (Adopted(d)' <=> Adopted(d))
  BY <1>3 DEF Kept, Driven, Adopted, Drives
<1>5. ~Driven(c)' /\ ~Adopted(c)'
  BY <1>3 DEF Driven, Adopted, Drives, Kept
<1>6. \A u \in Tabs : Unconfirmed(u)' <=> Unconfirmed(u)
  BY DEF Unconfirmed, Kept
<1>7. \A s \in Requests : InFlight(request[s]) /\ request[s].c = c =>
        request'[s].lost /\ (request[s].lost \/ request[s].pc = "init"
                               \/ (request[s].kind = "start" /\ request[s].pc = "spawn"))
  BY DEF Drives
<1>8. \A s \in Requests : Located(request'[s])
  BY DEF IInv, Placed, Located, Kept, InFlight, Idle
<1>9. Typed'
  BY <1>1 DEF IInv, Typed
<1>10. Placed'
  BY <1>8 DEF Placed
<1>11. Generations'
  BY DEF IInv, Typed, Generations, Kept
<1>12. Flight'
  BY DEF IInv, Typed, Placed, Located, Generations, Flight, FlightOf, Drives, Kept
<1>13. OneDriver'
  BY DEF IInv, OneDriver, Drives
<1>14. StartedFirst'
  BY DEF IInv, StartedFirst, Kept
<1>15. Entries'
  BY <1>4 DEF IInv, Typed, Entries, Entry
<1>16. Records'
  BY DEF IInv, Records, Holds
<1>17. OneMover'
  BY DEF IInv, OneMover, Moves, Kept
<1>18. Movers'
  BY <1>8 DEF IInv, Located, Movers, MoverOf, Moves, Adopting, Busy, SameOwner, Kept
<1>19. OneOperation'
  BY DEF IInv, OneOperation, InOperation, Kept
<1>20. Claims'
  BY <1>8 DEF IInv, Located, Claims, ClaimOf, Resuming, Adopting, Holds, Kept
<1>21. Launched'
  <2> SUFFICES ASSUME NEW u \in Tabs PROVE Launching(u)'
    BY DEF Launched
  <2>1. tab[u].runs \in Conversations \cup {None}
    BY DEF IInv, Typed, TabStates
  <2> QED
    BY <2>1, <1>6, <1>2 DEF IInv, Launched, Launching
<1> QED
  BY <1>9, <1>10, <1>11, <1>12, <1>13, <1>14, <1>15, <1>16, <1>17, <1>18, <1>19, <1>20,
     <1>21 DEF IInv

(* Releasing a native entry frees its conversation, if the service is the  *)
(* owner; a terminal that is being adopted keeps it.                       *)
LEMMA ReleaseNativeFrees ==
  ASSUME IInv, NEW c \in Conversations, active[c] # 0
  PROVE  LET own == ReleaseNative(owner, c) IN
         /\ own \in [Conversations -> Owners \cup {None}]
         /\ \A d \in Conversations : d # c => own[d] = owner[d]
         /\ own[c] = IF owner[c] # None /\ owner[c].kind = "native" THEN None ELSE owner[c]
<1> DEFINE o == NativeOwner(active[c], "active")
<1>1. active[c] \in 1..MaxNative
  BY OwnershipAssumption DEF IInv, Typed
<1>2. o # None /\ o.kind = "native" /\ o.by = None /\ o.gen = active[c]
  BY <1>1, OwnerTypes DEF NativeOwner, Phases
<1>3. owner[c] # None /\ owner[c].kind = "native" => owner[c].by = None
  BY DEF IInv, Typed, Owners
<1>4. owner[c] # None /\ owner[c].kind = "native" => owner[c].gen = active[c]
  BY DEF IInv, Entries, Entry
<1>5. SameOwner(owner[c], o) <=> owner[c] # None /\ owner[c].kind = "native"
  BY <1>2, <1>3, <1>4 DEF SameOwner
<1>6. ReleaseNative(owner, c) = IF SameOwner(owner[c], o) THEN [owner EXCEPT ![c] = None]
                                ELSE owner
  BY DEF ReleaseNative, ReleaseOwner
<1> HIDE DEF o
<1> QED
  BY <1>5, <1>6 DEF IInv, Typed

(* ProcessEnds: the entry of a process that ended is gone.                 *)
LEMMA ProcessEndsKeeps ==
  ASSUME Overlaps = {}, IInv, NEW c \in Conversations, ProcessEnds(c)
  PROVE  IInv'
<1>1. active[c] # 0
  BY DEF ProcessEnds, IInv, Entries, Entry
<1>2. /\ c \in native
      /\ native' = native \ {c} /\ owner' = ReleaseNative(owner, c)
      /\ active' = [active EXCEPT ![c] = 0] /\ switching' = switching \ {c}
      /\ UNCHANGED <<generation, tab, tabOwner, moving>>
  BY DEF ProcessEnds
<1>3. ASSUME NEW s \in Requests
      PROVE  /\ request'[s] \in RequestRecord /\ Kept(s) /\ request'[s].pc = request[s].pc
             /\ request'[s].stale = request[s].stale
             /\ request'[s] = request[s]
                  \/ (request'[s].lost /\ InFlight(request[s]) /\ request[s].c = c)
             /\ request[s].c = c /\ request[s].pc = "init" => request'[s].lost
  <2>1. request[s] \in RequestRecord
    BY DEF IInv, Typed
  <2>2. CASE request[s].c = c /\ request[s].pc = "init"
    <3>1. request'[s] = [request[s] EXCEPT !.lost = TRUE]
      BY <2>2 DEF ProcessEnds
    <3>2. InFlight(request[s])
      BY <2>2, PlaceTells DEF IInv
    <3>3. request'[s] \in RequestRecord
      BY <2>1, <3>1 DEF RequestRecord
    <3>4. Kept(s) /\ request'[s].pc = request[s].pc /\ request'[s].stale = request[s].stale
      BY <2>1, <3>1 DEF RequestRecord, Kept
    <3>5. request'[s].lost = TRUE
      BY <2>1, <3>1 DEF RequestRecord
    <3> QED
      BY <2>2, <3>2, <3>3, <3>4, <3>5
  <2>3. CASE ~(request[s].c = c /\ request[s].pc = "init")
    <3>1. request'[s] = request[s]
      BY <2>3 DEF ProcessEnds
    <3> QED
      BY <2>1, <2>3, <3>1 DEF Kept
  <2> QED
    BY <2>2, <2>3
<1>4. request' \in [Requests -> RequestRecord]
  BY <1>3 DEF ProcessEnds
<1>5. \A s \in Requests : Drives(request[s]) /\ request[s].c = c => request[s].pc = "init"
  BY <1>2 DEF IInv, Flight, FlightOf, Drives
<1> QED
  BY <1>1, <1>2, <1>3, <1>4, <1>5, ReleaseNativeFrees, EntryEndsKeeps

(* CloseNative: nobody closes what is being switched, so that only a start *)
(* can be under way.                                                       *)
LEMMA CloseNativeKeeps ==
  ASSUME Overlaps = {}, IInv, NEW c \in Conversations, CloseNative(c)
  PROVE  IInv'
<1>1. /\ active[c] # 0 /\ c \notin switching
      /\ native' = native \ {c} /\ owner' = ReleaseNative(owner, c)
      /\ active' = [active EXCEPT ![c] = 0] /\ switching' = switching \ {c}
      /\ request' = CancelStarts(request, None, c)
      /\ UNCHANGED <<generation, tab, tabOwner, moving>>
  BY DEF CloseNative
<1>2. request' \in [Requests -> RequestRecord]
  BY <1>1, CancelLoses DEF IInv, Typed
<1>3. ASSUME NEW s \in Requests
      PROVE  /\ Kept(s) /\ request'[s].pc = request[s].pc
             /\ request'[s].stale = request[s].stale
             /\ request'[s] = request[s]
                  \/ (request'[s].lost /\ InFlight(request[s]) /\ request[s].c = c)
             /\ request[s].c = c /\ request[s].pc \in {"spawn", "init"} => request'[s].lost
  <2>1. s # None
    BY OwnershipAssumption
  <2>2. request[s].pc \in {"spawn", "init"} => InFlight(request[s])
    BY PlaceTells DEF IInv
  <2> DEFINE can == CancelStarts(request, None, c)
  <2>3. /\ can[s].kind = request[s].kind /\ can[s].c = request[s].c
        /\ can[s].t = request[s].t /\ can[s].gen = request[s].gen
        /\ can[s].pc = request[s].pc /\ can[s].saved = request[s].saved
        /\ can[s].stale = request[s].stale
        /\ request[s].c = c /\ request[s].pc \in {"spawn", "init"} => can[s].lost
        /\ request[s].c # c \/ request[s].pc \notin {"spawn", "init"} => can[s] = request[s]
    BY <2>1, CancelLoses DEF IInv, Typed
  <2> HIDE DEF can
  <2>4. request'[s] = can[s]
    BY <1>1 DEF can
  <2> QED
    BY <2>2, <2>3, <2>4 DEF Kept
<1>4. ASSUME NEW s \in Requests, Drives(request[s]), request[s].c = c
      PROVE  request[s].kind = "start" /\ request[s].pc \in {"spawn", "init"}
  BY <1>1, <1>4 DEF IInv, Flight, FlightOf, Drives, InFlight, Placed, Located
<1>5. /\ owner' \in [Conversations -> Owners \cup {None}]
      /\ \A d \in Conversations : d # c => owner'[d] = owner[d]
      /\ owner'[c] = IF owner[c] # None /\ owner[c].kind = "native" THEN None ELSE owner[c]
  BY <1>1, ReleaseNativeFrees
<1>6. \A s \in Requests : Kept(s) /\ request'[s].pc = request[s].pc
                          /\ request'[s].stale = request[s].stale
  BY <1>3
<1>7. \A s \in Requests : request'[s] = request[s]
        \/ (request'[s].lost /\ InFlight(request[s]) /\ request[s].c = c)
  BY <1>3
<1>8. \A s \in Requests : Drives(request[s]) /\ request[s].c = c =>
        /\ request'[s].lost
        /\ request[s].pc = "init" \/ (request[s].kind = "start" /\ request[s].pc = "spawn")
  BY <1>3, <1>4
<1> QED
  BY <1>1, <1>2, <1>5, <1>6, <1>7, <1>8, EntryEndsKeeps

(* StartRefused: somebody has the conversation; only the generation is     *)
(* used up.                                                                *)
LEMMA StartRefusedKeeps ==
  ASSUME Overlaps = {}, IInv, NEW r \in Requests, NEW c \in Conversations, StartNative(r, c), owner[c] # None
  PROVE  IInv'
<1>1. /\ generation' = [generation EXCEPT ![c] = @ + 1] /\ generation[c] < MaxNative
      /\ UNCHANGED <<owner, active, switching, native, tab, tabOwner, moving, request>>
  BY DEF StartNative
<1>2. /\ generation' \in [Conversations -> 0..MaxNative]
      /\ \A d \in Conversations : generation[d] \in 0..generation'[d]
  BY <1>1, OwnershipAssumption DEF IInv, Typed
<1>3. \A d \in Conversations : (Driven(d)' <=> Driven(d)) /\ (Adopted(d)' <=> Adopted(d))
  BY <1>1 DEF Driven, Adopted
<1>4. \A u \in Tabs : Unconfirmed(u)' <=> Unconfirmed(u)
  BY <1>1 DEF Unconfirmed
<1>5. Typed'
  BY <1>1, <1>2 DEF IInv, Typed
<1>6. Placed'
  BY <1>1 DEF IInv, Typed, Placed
<1>7. Generations'
  BY <1>1 DEF IInv, Typed, Generations
<1>8. Flight'
  BY <1>1 DEF IInv, Flight, FlightOf
<1>9. OneDriver'
  BY <1>1 DEF IInv, OneDriver
<1>10. StartedFirst'
  BY <1>1 DEF IInv, StartedFirst
<1>11. Entries'
  BY <1>1, <1>3 DEF IInv, Entries, Entry
<1>12. Records'
  BY <1>1 DEF IInv, Records, Holds
<1>13. OneMover'
  BY <1>1 DEF IInv, OneMover
<1>14. Movers'
  BY <1>1 DEF IInv, Movers, MoverOf, Busy
<1>15. OneOperation'
  BY <1>1 DEF IInv, OneOperation
<1>16. Claims'
  BY <1>1 DEF IInv, Claims, ClaimOf, Holds
<1>17. Launched'
  <2> SUFFICES ASSUME NEW u \in Tabs PROVE Launching(u)'
    BY DEF Launched
  <2>1. tab[u].runs \in Conversations \cup {None}
    BY DEF IInv, Holds, Typed, TabStates
  <2> QED
    BY <1>4, <1>1 DEF IInv, Holds, Launched, Launching
<1> QED
  BY <1>5, <1>6, <1>7, <1>8, <1>9, <1>10, <1>11, <1>12, <1>13, <1>14, <1>15, <1>16,
     <1>17 DEF IInv

(* StartBegins: nobody has the conversation; the generation is new to      *)
(* every handler.                                                          *)
LEMMA StartBeginsKeeps ==
  ASSUME Overlaps = {}, IInv, NEW r \in Requests, NEW c \in Conversations, StartNative(r, c), owner[c] = None
  PROVE  IInv'
<1>1. \A s \in Requests : Adopting(request[s]) => request[s].c # c
  BY DEF IInv, Movers, MoverOf, SameOwner
<1>2. active[c] = 0
  <2>1. ~Adopted(c)
    BY <1>1 DEF Adopted, Drives, InFlight, Adopting
  <2> QED
    BY <2>1 DEF IInv, Entries, Entry, SameOwner
<1>3. c \notin native /\ c \notin switching
  BY <1>2 DEF IInv, Entries, Entry
<1>4. \A s \in Requests : Drives(request[s]) => request[s].c # c
  BY <1>2, DriverStands
<1>5. PICK g \in 1..MaxNative : g = generation[c] + 1
  BY OwnershipAssumption DEF StartNative, IInv, Typed
<1>6. /\ request[r] = Idle /\ generation' = [generation EXCEPT ![c] = g]
      /\ owner' = [owner EXCEPT ![c] = NativeOwner(g, "starting")]
      /\ active' = [active EXCEPT ![c] = g]
      /\ UNCHANGED <<switching, native, tab, tabOwner, moving>>
  <2>1. generation' = [generation EXCEPT ![c] = g] /\ generation'[c] = g
    BY <1>5 DEF StartNative, IInv, Typed
  <2> QED
    BY <2>1 DEF StartNative
<1>7. /\ generation' \in [Conversations -> 0..MaxNative] /\ generation'[c] = g
      /\ \A d \in Conversations : d # c => generation'[d] = generation[d]
      /\ active' \in [Conversations -> 0..MaxNative] /\ active'[c] = g /\ g # 0
      /\ \A d \in Conversations : d # c => active'[d] = active[d]
  BY <1>5, <1>6, OwnershipAssumption DEF IInv, Typed
<1>8. /\ owner' \in [Conversations -> Owners \cup {None}]
      /\ owner'[c] = NativeOwner(g, "starting") /\ owner'[c] # None
      /\ owner'[c].kind = "native" /\ owner'[c].gen = g
      /\ SameOwner(owner'[c], NativeOwner(g, "active"))
      /\ \A d \in Conversations : d # c => owner'[d] = owner[d]
  BY <1>6, OwnerTypes, NativeOwners DEF IInv, Typed, Phases
<1>9. /\ request'[r].kind = "start" /\ request'[r].c = c /\ request'[r].t = None
      /\ request'[r].gen = g /\ request'[r].pc = "spawn" /\ request'[r].saved = None
      /\ ~request'[r].lost /\ ~request'[r].stale
      /\ \A s \in Requests : s # r => request'[s] = request[s]
      /\ request' \in [Requests -> RequestRecord]
  <2>1. PICK q : q = [Idle EXCEPT !.kind = "start", !.c = c, !.gen = g]
    OBVIOUS
  <2>2. PICK req : req = [request EXCEPT ![r] = q]
    OBVIOUS
  <2>3. q.kind = "start" /\ q.c = c /\ q.t = None /\ q.gen = g /\ q.saved = None
        /\ ~q.stale /\ q.pc = "done"
    BY <2>1 DEF Idle
  <2>4. q \in RequestRecord
    <3>1. g \in Nat
      BY <1>5, OwnershipAssumption
    <3> QED
      BY <2>1, <3>1, IdleTyped DEF RequestRecord, Kinds
  <2>5. req \in [Requests -> RequestRecord] /\ req[r] = q
        /\ \A s \in Requests : s # r => req[s] = request[s]
    BY <2>2, <2>4 DEF IInv, Typed
  <2>6. request' = Starting(req, r, c)
    BY <1>7, <2>1, <2>2 DEF StartNative
  <2>7. PICK can : can = CancelStarts(req, r, c)
    OBVIOUS
  <2>8. request' = [can EXCEPT ![r].pc = "spawn", ![r].lost = FALSE]
    BY <1>3, <2>6, <2>7 DEF Starting
  <2>9. can \in [Requests -> RequestRecord] /\ can[r] = q
    BY <2>5, <2>7, CancelLoses
  <2>10. ASSUME NEW s \in Requests, s # r PROVE can[s] = request[s]
    <3>1. CancelStarts(request, r, c)[s] = request[s]
      BY <1>4, <2>10, CancelKeeps
    <3>2. CancelStarts(request, r, c)[s] = can[s]
      BY <2>5, <2>7, <2>10 DEF CancelStarts
    <3> QED
      BY <3>1, <3>2
  <2>11. PICK n : n = [can[r] EXCEPT !.pc = "spawn", !.lost = FALSE]
    OBVIOUS
  <2>12. n \in RequestRecord /\ n.kind = "start" /\ n.c = c /\ n.t = None /\ n.gen = g
         /\ n.saved = None /\ ~n.stale /\ n.pc = "spawn" /\ ~n.lost
    BY <2>3, <2>4, <2>9, <2>11 DEF RequestRecord, Places
  <2>13. request' = [can EXCEPT ![r] = n]
    BY <2>8, <2>9, <2>11
  <2> QED
    BY <2>9, <2>10, <2>12, <2>13
<1>10. \A d \in Conversations : d # c =>
         (Driven(d)' <=> Driven(d)) /\ (Adopted(d)' <=> Adopted(d))
  BY <1>6, <1>9 DEF Driven, Adopted, Drives, InFlight, Idle
<1>11. Driven(c)' /\ ~Adopted(c)'
  BY <1>4, <1>9 DEF Driven, Adopted, Drives, InFlight
<1>12. \A u \in Tabs : Unconfirmed(u)' <=> Unconfirmed(u)
  BY <1>6, <1>9 DEF Unconfirmed, Idle
<1>13. \A u \in Tabs, d \in Conversations : Holds(u, d)' <=> Holds(u, d)
  BY <1>8 DEF Holds
<1>14. \A s \in Requests : InFlight(request[s]) /\ request[s].c = c =>
         request[s].lost /\ request[s].kind # "adopt" /\ request[s].gen < g
  <2> SUFFICES ASSUME NEW s \in Requests, InFlight(request[s]), request[s].c = c
               PROVE  request[s].lost /\ request[s].kind # "adopt" /\ request[s].gen < g
    OBVIOUS
  <2>1. request[s].lost
    BY <1>4 DEF Drives
  <2>2. request[s].kind # "adopt"
    BY <1>1 DEF InFlight, Adopting
  <2>3. request[s].gen \in 1..generation[c]
    BY DEF IInv, Generations
  <2> QED
    BY <1>5, <2>1, <2>2, <2>3 DEF IInv, Typed
<1>15. \A s \in Requests : request[s].kind = "switch" /\ request[s].c = c => request[s].gen < g
  BY <1>5 DEF IInv, Typed, Generations
<1>16. Typed'
  BY <1>6, <1>8, <1>9 DEF IInv, Typed
<1>17. Placed'
  BY <1>9 DEF IInv, Placed, Located
<1>18. Generations'
  BY <1>5, <1>6, <1>9 DEF IInv, Typed, Generations
<1>19. Flight'
  BY <1>3, <1>6, <1>9, <1>14 DEF IInv, Typed, Flight, FlightOf
<1>20. OneDriver'
  BY <1>9, <1>14 DEF IInv, OneDriver, Drives
<1>21. StartedFirst'
  BY <1>9, <1>15 DEF IInv, StartedFirst
<1>22. Entries'
  BY <1>6, <1>8, <1>10, <1>11 DEF IInv, Typed, Entries, Entry
<1>23. Records'
  BY <1>6 DEF IInv, Records, Holds, NativeOwner
<1>24. OneMover'
  BY <1>9 DEF IInv, OneMover, Moves
<1>25. Movers'
  BY <1>6, <1>9 DEF IInv, Movers, MoverOf, Moves, Adopting, Busy, SameOwner
<1>26. OneOperation'
  BY <1>9 DEF IInv, OneOperation, InOperation
<1>27. Claims'
  <2> SUFFICES ASSUME NEW s \in Requests PROVE ClaimOf(s)'
    BY DEF Claims
  <2>3. \A u \in Requests : Adopting(request'[u]) => request'[u] = request[u]
    BY <1>9 DEF Adopting
  <2>4. \A d \in Conversations, u \in Tabs : Holds(u, d) => owner'[d] = owner[d]
    BY <1>8 DEF Holds
  <2>1. CASE s = r
    BY <1>9, <2>1 DEF ClaimOf, Resuming
  <2>2. CASE s # r
    BY <1>6, <1>8, <1>9 DEF IInv, Claims, ClaimOf, Resuming, Adopting, Holds
  <2> QED
    BY <2>1, <2>2
<1>28. Launched'
  <2> SUFFICES ASSUME NEW u \in Tabs PROVE Launching(u)'
    BY DEF Launched
  <2>1. tab[u].runs \in Conversations \cup {None}
    BY DEF IInv, Typed, TabStates
  <2> QED
    BY <1>6, <2>1, <1>12, <1>13 DEF IInv, Launched, Launching
<1> QED
  BY <1>16, <1>17, <1>18, <1>19, <1>20, <1>21, <1>22, <1>23, <1>24, <1>25, <1>26, <1>27,
     <1>28 DEF IInv

(* BeginSwitch: nobody else works on the entry, and no other handler moves *)
(* the tab.                                                                *)
LEMMA BeginSwitchKeeps ==
  ASSUME Overlaps = {}, IInv, NEW r \in Requests, NEW t \in Tabs, BeginSwitch(r, t)
  PROVE  IInv'
<1>1. PICK c \in Conversations :
        /\ c = request[r].c /\ request[r].kind = "switch" /\ request[r].pc = "authorizing"
  BY DEF BeginSwitch, IInv, Typed, Placed, Located, RequestRecord
<1>2. /\ active[c] = request[r].gen /\ c \notin switching /\ tab[t].open
      /\ SameOwner(owner[c], NativeOwner(request[r].gen, "active"))
      /\ ~Switched(r, t) /\ ~Busy(t, c)
      /\ owner' = [owner EXCEPT ![c].phase = "stopping"]
      /\ switching' = switching \cup {c} /\ native' = native \ {c}
      /\ moving' = moving \cup {t} /\ UNCHANGED <<active, generation, tab, tabOwner>>
  BY <1>1 DEF BeginSwitch
<1>3. /\ request[r].gen \in 1..generation[c] /\ active[c] # 0
      /\ ~request[r].lost /\ ~InFlight(request[r]) /\ owner[c] # None /\ owner[c].kind = "native"
  <2>1. request[r].gen \in 1..generation[c]
    BY <1>1 DEF IInv, Generations
  <2>2. ~request[r].lost
    BY <1>1 DEF IInv, Placed, Located
  <2>3. active[c] # 0
    BY <1>2, <2>1 DEF IInv, Typed
  <2> QED
    BY <1>1, <1>2, <2>1, <2>2 DEF SameOwner, NativeOwner, InFlight
<1>4. /\ owner' \in [Conversations -> Owners \cup {None}]
      /\ \A d \in Conversations : d # c => owner'[d] = owner[d]
      /\ owner'[c] # None /\ owner'[c].kind = owner[c].kind
      /\ owner'[c].by = owner[c].by /\ owner'[c].gen = owner[c].gen
      /\ owner'[c].phase = "stopping" /\ SameOwner(owner'[c], owner[c])
  BY <1>2, <1>3, PhaseChanges DEF Phases, IInv
<1>5. \A s \in Requests : Drives(request[s]) => request[s].c # c
  <2> SUFFICES ASSUME NEW s \in Requests, Drives(request[s]), request[s].c = c
               PROVE  FALSE
    OBVIOUS
  <2>1. active[c] = request[s].gen
    BY DriverStands
  <2>2. request[s].kind # "start"
    BY <1>1, <1>2, <2>1 DEF IInv, StartedFirst, Drives
  <2>3. c \in switching
    BY <2>2 DEF IInv, Flight, FlightOf, Drives, InFlight
  <2> QED
    BY <1>2, <2>3
<1>6. /\ request'[r].kind = "switch" /\ request'[r].c = c /\ request'[r].t = t
      /\ request'[r].gen = request[r].gen /\ request'[r].pc = "launching"
      /\ request'[r].saved = owner[c] /\ ~request'[r].lost
      /\ \A s \in Requests : s # r =>
           /\ Aside(s)
           /\ request[s].stale => request'[s].stale
           /\ request[s].t = t /\ InOperation(request[s]) => request'[s].stale
           /\ request[s].t # t \/ ~InOperation(request[s]) => request'[s] = request[s]
      /\ request' \in [Requests -> RequestRecord]
  <2>1. PICK can : can = CancelStarts(request, r, c)
    OBVIOUS
  <2>2. can \in [Requests -> RequestRecord] /\ can[r] = request[r]
    BY <2>1, CancelLoses DEF IInv, Typed
  <2>3. \A s \in Requests : s # r => can[s] = request[s]
    BY <1>5, <2>1, CancelKeeps
  <2>4. PICK n : n = [request[r] EXCEPT !.pc = "launching", !.t = t, !.saved = owner[c]]
    OBVIOUS
  <2>5. PICK req : req = [can EXCEPT ![r] = n]
    OBVIOUS
  <2>6. request' = Invalidate(req, r, t)
    BY <1>1, <2>1, <2>2, <2>4, <2>5 DEF BeginSwitch
  <2>7. n \in RequestRecord /\ n.kind = "switch" /\ n.c = c /\ n.t = t
        /\ n.gen = request[r].gen /\ n.pc = "launching" /\ n.saved = owner[c]
        /\ n.lost = request[r].lost
    BY <1>1, <2>2, <2>4 DEF RequestRecord, Places, IInv, Typed
  <2>8. req \in [Requests -> RequestRecord] /\ req[r] = n
        /\ \A s \in Requests : s # r => req[s] = request[s]
    BY <2>2, <2>3, <2>5, <2>7
  <2>9. request' \in [Requests -> RequestRecord] /\ request'[r] = n
    BY <2>6, <2>8, InvalidateStales
  <2>10. ASSUME NEW s \in Requests, s # r
         PROVE  /\ Aside(s)
                /\ request[s].stale => request'[s].stale
                /\ request[s].t = t /\ InOperation(request[s]) => request'[s].stale
                /\ request[s].t # t \/ ~InOperation(request[s]) => request'[s] = request[s]
    <3>1. req[s] = request[s]
      BY <2>8, <2>10
    <3>2. request[s].kind = "none" => ~InOperation(request[s])
      BY DEF InOperation, IInv, Placed, Located, Idle
    <3> QED
      BY <2>6, <2>8, <2>10, <3>2, InvalidateStales DEF Aside, Kept
  <2> QED
    BY <1>3, <2>7, <2>9, <2>10
<1>7. \A d \in Conversations : d # c =>
        (Driven(d)' <=> Driven(d)) /\ (Adopted(d)' <=> Adopted(d))
  BY <1>1, <1>6 DEF Aside, Kept, Driven, Adopted, Drives, InFlight
<1>8. Driven(c)' /\ ~Adopted(c)'
  BY <1>5, <1>6 DEF Aside, Kept, Driven, Adopted, Drives, InFlight
<1>9. \A u \in Tabs : Unconfirmed(u)' <=> Unconfirmed(u)
  BY <1>1, <1>6 DEF Aside, Kept, Unconfirmed
<1>10. \A u \in Tabs, d \in Conversations : Holds(u, d)' <=> Holds(u, d)
  BY <1>3, <1>4 DEF Holds
<1>11. \A s \in Requests : InFlight(request[s]) /\ request[s].c = c =>
         request[s].lost /\ request[s].kind # "adopt"
  BY <1>3, <1>5 DEF IInv, Flight, FlightOf, Drives
<1>12. \A s \in Requests : s # r => ~(Moves(request'[s]) /\ request'[s].t = t)
  BY <1>2, <1>6 DEF Switched, Aside, Kept, Moves
<1>13. \A s \in Requests : Adopting(request[s]) => request[s].c # c
  BY <1>3 DEF IInv, Movers, MoverOf, SameOwner
<1>14. Typed'
  BY <1>2, <1>4, <1>6 DEF IInv, Typed
<1>15. Placed'
  BY <1>6 DEF IInv, Placed, Located, Kept, Aside
<1>16. Generations'
  BY <1>2, <1>3, <1>6 DEF IInv, Generations, InFlight, Kept, Aside
<1>17. Flight'
  <2> SUFFICES ASSUME NEW s \in Requests PROVE FlightOf(s)'
    BY DEF Flight
  <2>1. CASE s = r
    <3>1. /\ SameOwner(owner'[c], NativeOwner(request[r].gen, "active"))
          /\ SameOwner(owner[c], NativeOwner(request[r].gen, "active"))
      BY <1>2, <1>4 DEF SameOwner
    <3>2. c \notin native' /\ c \in switching' /\ active'[c] = request[r].gen
      BY <1>2
    <3> QED
      BY <1>6, <2>1, <3>1, <3>2 DEF FlightOf
  <2>2. CASE s # r /\ request[s].c # c
    <3>1. Aside(s) /\ FlightOf(s)
      BY <1>6, <2>2 DEF IInv, Flight
    <3>2. InFlight(request[s]) => request[s].c \in Conversations
      BY DEF IInv, Placed, Located, InFlight
    <3> QED
      BY <1>2, <1>4, <2>2, <3>1, <3>2 DEF FlightOf, InFlight, Aside, Kept
  <2>3. CASE s # r /\ request[s].c = c
    <3>1. Aside(s) /\ FlightOf(s)
      BY <1>6, <2>3 DEF IInv, Flight
    <3> QED
      BY <1>2, <1>11, <2>3, <3>1 DEF FlightOf, InFlight, Aside, Kept
  <2> QED
    BY <2>1, <2>2, <2>3
<1>18. OneDriver'
  <2>1. \A s \in Requests : s # r =>
          request'[s].c = request[s].c /\ (Drives(request'[s]) <=> Drives(request[s]))
    BY <1>6 DEF Aside, Kept, Drives, InFlight
  <2> QED
    BY <1>5, <1>6, <2>1 DEF IInv, OneDriver
<1>19. StartedFirst'
  BY <1>6, <1>11 DEF IInv, StartedFirst, InFlight, Kept, Aside
<1>20. Entries'
  BY <1>2, <1>3, <1>4, <1>7, <1>8 DEF IInv, Entries, Entry, SameOwner
<1>21. Records'
  BY <1>2 DEF IInv, Records, Holds, SameOwner
<1>22. OneMover'
  BY <1>6, <1>12 DEF IInv, OneMover, Kept, Aside
<1>23. Movers'
  BY <1>2, <1>6, <1>13 DEF IInv, Movers, MoverOf, Adopting, Busy, Kept, Aside
<1>24. OneOperation'
  BY <1>6 DEF IInv, OneOperation
<1>25. Claims'
  BY <1>2, <1>3, <1>6 DEF IInv, Claims, ClaimOf, Resuming, Adopting, Holds, Kept, Aside
<1>26. Launched'
  BY <1>2, <1>3, <1>9 DEF IInv, Launched, Launching, Holds
<1> QED
  BY <1>14, <1>15, <1>16, <1>17, <1>18, <1>19, <1>20, <1>21, <1>22, <1>23, <1>24, <1>25,
     <1>26 DEF IInv

(* CommitSwitch: the terminal takes over what the native service owned.    *)
LEMMA CommitSwitchKeeps ==
  ASSUME Overlaps = {}, IInv, NEW r \in Requests, CommitSwitch(r)
  PROVE  IInv'
<1>1. PICK c \in Conversations, t \in Tabs :
        /\ c = request[r].c /\ t = request[r].t
        /\ request[r].kind = "switch" /\ request[r].pc = "launching"
  BY DEF CommitSwitch, IInv, Typed, Placed, Located, RequestRecord
<1>2. /\ Drives(request[r]) /\ request[r].gen \in 1..MaxNative
      /\ active[c] = request[r].gen /\ active[c] # 0
      /\ \A s \in Requests : Drives(request[s]) /\ request[s].c = c => s = r
  <2>1. Drives(request[r])
    BY <1>1 DEF Drives, InFlight, IInv, Flight, FlightOf
  <2> QED
    BY <1>1, <2>1, DriverStands
<1>3. /\ SameOwner(owner[c], NativeOwner(request[r].gen, "active"))
      /\ SameOwner(owner[c], request[r].saved)
      /\ owner[c] # None /\ owner[c].kind = "native"
      /\ owner[c].gen = active[c] /\ c \in switching /\ c \notin native
  BY <1>1, <1>2 DEF IInv, Flight, FlightOf, Drives, SameOwner, NativeOwner
<1>4. /\ tab[t].open /\ tab[t].pty < MaxPty /\ ~request[r].stale /\ OthersLeft(r, t)
      /\ tab' = Relaunched(t, c)
      /\ owner' = [owner EXCEPT ![c] = TerminalOwner(t, tab'[t].pty, "active")]
      /\ active' = [active EXCEPT ![c] = 0] /\ switching' = switching \ {c}
      /\ tabOwner' = [tabOwner EXCEPT ![t] = [conv |-> c, gen |-> tab'[t].pty, via |-> None]]
      /\ moving' = moving \ {t} /\ UNCHANGED <<generation, native>>
  BY <1>1 DEF CommitSwitch, CanLaunch
<1>5. /\ request'[r] = Idle
      /\ \A s \in Requests : s # r => request'[s] = request[s]
      /\ request' \in [Requests -> RequestRecord]
  BY DEF CommitSwitch, Finish, Idle, IInv, Typed, RequestRecord
<1>6. /\ tab' \in [Tabs -> TabStates] /\ \A u \in Tabs : u # t => tab'[u] = tab[u]
      /\ tab'[t].open /\ tab'[t].pty = tab[t].pty + 1
      /\ tab'[t].runs = c /\ tab'[t].by = "app"
  BY <1>4, RelaunchedTab DEF IInv
<1>7. tab'[t].pty \in 1..MaxPty + 1
  BY <1>6, OwnershipAssumption DEF TabStates
<1>8. /\ owner' \in [Conversations -> Owners \cup {None}]
      /\ \A d \in Conversations : d # c => owner'[d] = owner[d]
      /\ owner'[c] # None /\ owner'[c].kind = "terminal" /\ owner'[c].by = t
      /\ owner'[c].gen = tab'[t].pty
  <2>1. PICK g : g = tab'[t].pty
    OBVIOUS
  <2>2. PICK o : o = TerminalOwner(t, g, "active")
    OBVIOUS
  <2>3. o \in Owners /\ o # None
    BY <1>7, <2>1, <2>2, OwnerTypes DEF Phases
  <2>4. o.kind = "terminal" /\ o.by = t /\ o.gen = g
    BY <2>2 DEF TerminalOwner
  <2>5. owner' = [owner EXCEPT ![c] = o]
    BY <1>4, <2>1, <2>2
  <2> QED
    BY <2>1, <2>3, <2>4, <2>5 DEF IInv, Typed
<1>9. /\ tabOwner' \in [Tabs -> Holdings \cup {None}]
      /\ \A u \in Tabs : u # t => tabOwner'[u] = tabOwner[u]
      /\ tabOwner'[t] # None /\ tabOwner'[t].conv = c
      /\ tabOwner'[t].gen = tab'[t].pty
  <2>1. PICK g : g = tab'[t].pty
    OBVIOUS
  <2>2. PICK h : h = [conv |-> c, gen |-> g, via |-> None]
    OBVIOUS
  <2>3. h \in Holdings /\ h # None
    BY <1>7, <2>1, <2>2, AbsenceAssumption DEF Holdings
  <2>4. tabOwner' = [tabOwner EXCEPT ![t] = h]
    BY <1>4, <2>1, <2>2
  <2> QED
    BY <2>1, <2>2, <2>3, <2>4 DEF IInv, Typed
<1>10. /\ active' \in [Conversations -> 0..MaxNative] /\ active'[c] = 0
       /\ \A d \in Conversations : d # c => active'[d] = active[d]
  BY <1>4, OwnershipAssumption DEF IInv, Typed
<1>11. \A s \in Requests : s # r /\ request[s].t = t => ~InOperation(request[s])
  BY <1>1, <1>4 DEF IInv, OneOperation, OthersLeft, InOperation
<1>12. \A d \in Conversations : ~Holds(t, d)
  <2>1. ~Busy(t, c)
    BY <1>1 DEF IInv, Movers, MoverOf
  <2> QED
    BY <1>3, <2>1 DEF IInv, Records, Holds, Busy
<1>13. \A s \in Requests : Adopting(request[s]) => request[s].c # c
  BY <1>3 DEF IInv, Movers, MoverOf, SameOwner
<1>14. \A s \in Requests : s # r /\ Moves(request[s]) => request[s].t # t
  BY <1>1 DEF IInv, OneMover, Moves
<1>15. \A s \in Requests : s # r /\ InFlight(request[s]) /\ request[s].c = c => request[s].lost
  BY <1>2 DEF Drives
<1>16. \A d \in Conversations : d # c =>
         (Driven(d)' <=> Driven(d)) /\ (Adopted(d)' <=> Adopted(d))
  BY <1>1, <1>5 DEF Driven, Adopted, Drives, InFlight, Idle
<1>17. ~Driven(c)' /\ ~Adopted(c)'
  BY <1>2, <1>5 DEF Driven, Adopted, Drives, InFlight, Idle
<1>18. \A u \in Tabs : Unconfirmed(u)' <=> Unconfirmed(u)
  BY <1>1, <1>5 DEF Unconfirmed, Idle
<1>19. /\ \A u \in Tabs, d \in Conversations : u # t => (Holds(u, d)' <=> Holds(u, d))
       /\ Holds(t, c)' /\ \A d \in Conversations : d # c => ~Holds(t, d)'
  BY <1>3, <1>8, <1>12 DEF Holds
<1>20. Typed'
  BY <1>4, <1>5, <1>6, <1>8, <1>9, <1>10 DEF IInv, Typed
<1>21. Placed'
  BY <1>5 DEF IInv, Placed, Located, Idle
<1>22. Generations'
  BY <1>4, <1>5 DEF IInv, Typed, Generations, InFlight, Idle
<1>23. Flight'
  <2> SUFFICES ASSUME NEW s \in Requests PROVE FlightOf(s)'
    BY DEF Flight
  <2>1. CASE s = r
    BY <1>5, <2>1 DEF FlightOf, InFlight, Idle
  <2>2. CASE s # r /\ request[s].c # c
    <3>1. request'[s] = request[s] /\ FlightOf(s)
      BY <1>5, <2>2 DEF IInv, Flight
    <3>2. InFlight(request[s]) => request[s].c \in Conversations
      BY DEF IInv, Placed, Located, InFlight
    <3> QED
      BY <1>4, <1>8, <1>10, <2>2, <3>1, <3>2 DEF FlightOf
  <2>3. CASE s # r /\ request[s].c = c
    <3>1. request'[s] = request[s] /\ FlightOf(s)
      BY <1>5, <2>3 DEF IInv, Flight
    <3>2. InFlight(request[s]) => request[s].lost /\ request[s].gen # 0
      BY <1>15, <2>3 DEF IInv, Typed, Generations
    <3> QED
      BY <1>10, <2>3, <3>1, <3>2 DEF FlightOf
  <2> QED
    BY <2>1, <2>2, <2>3
<1>24. OneDriver'
  BY <1>5 DEF IInv, OneDriver, Drives, InFlight, Idle
<1>25. StartedFirst'
  BY <1>5 DEF IInv, StartedFirst, Idle
<1>26. Entries'
  BY <1>3, <1>4, <1>16 DEF IInv, Typed, Entries, Entry, TerminalOwner
<1>27. Records'
  <2> SUFFICES ASSUME NEW d \in Conversations, NEW u \in Tabs, Holds(u, d)'
               PROVE  /\ tab'[u].open /\ tabOwner'[u] # None
                      /\ tabOwner'[u].conv = d /\ tabOwner'[u].gen = owner'[d].gen
    BY DEF Records
  <2>1. CASE u = t
    BY <1>6, <1>8, <1>9, <1>19, <2>1
  <2>2. CASE u # t
    <3>1. Holds(u, d) /\ d # c
      BY <1>3, <1>19, <2>2 DEF Holds
    <3> QED
      BY <1>6, <1>8, <1>9, <2>2, <3>1 DEF IInv, Records
  <2> QED
    BY <2>1, <2>2
<1>28. OneMover'
  BY <1>5 DEF IInv, OneMover, Moves, Idle
<1>29. Movers'
  <2> SUFFICES ASSUME NEW s \in Requests PROVE MoverOf(s)'
    BY DEF Movers
  <2>1. CASE s = r
    BY <1>5, <2>1 DEF MoverOf, Moves, Adopting, Idle
  <2>2. CASE s # r
    BY <1>4, <1>5, <1>6, <1>13, <1>14, <2>2 DEF IInv, Movers, MoverOf, Moves, Adopting,
       Busy, Placed, Located
  <2> QED
    BY <2>1, <2>2
<1>30. OneOperation'
  BY <1>5 DEF IInv, OneOperation, InOperation, Idle
<1>31. Claims'
  <2> SUFFICES ASSUME NEW s \in Requests PROVE ClaimOf(s)'
    BY DEF Claims
  <2>3. \A u \in Requests : Adopting(request'[u]) => request'[u] = request[u]
    BY <1>5 DEF Adopting, Idle
  <2>4. ASSUME NEW v \in Requests, v # r, NEW d \in Conversations, NEW u \in Tabs,
               d = request[v].c, u = request[v].t, Resuming(request[v])
        PROVE  /\ u # t /\ tab'[u] = tab[u] /\ tabOwner'[u] = tabOwner[u]
               /\ Holds(u, d)' => Holds(u, d) /\ owner'[d] = owner[d]
    <3>1. u # t
      BY <1>11, <2>4 DEF Resuming, InOperation, IInv, Placed, Located
    <3> QED
      BY <1>6, <1>8, <1>9, <3>1 DEF Holds
  <2>1. CASE s = r
    BY <1>5, <2>1 DEF ClaimOf, Resuming, Idle
  <2>2. CASE s # r
    BY <1>5, <2>2, <2>3, <2>4 DEF IInv, Claims, ClaimOf, Resuming, Placed, Located
  <2> QED
    BY <2>1, <2>2
<1>32. Launched'
  <2> SUFFICES ASSUME NEW u \in Tabs PROVE Launching(u)'
    BY DEF Launched
  <2>1. CASE u = t
    <3>1. c # None
      BY OwnershipAssumption
    <3> QED
      BY <1>6, <1>19, <2>1, <3>1 DEF Launching
  <2>2. CASE u # t
    <3>1. tab[u].runs \in Conversations \cup {None}
      BY DEF IInv, Typed, TabStates
    <3> QED
      BY <1>6, <1>18, <1>19, <2>2, <3>1 DEF IInv, Launched, Launching
  <2> QED
    BY <2>1, <2>2
<1> QED
  BY <1>20, <1>21, <1>22, <1>23, <1>24, <1>25, <1>26, <1>27, <1>28, <1>29, <1>30, <1>31,
     <1>32 DEF IInv

(* SwitchFails: the native process is to be resumed.                       *)
LEMMA SwitchFailsKeeps ==
  ASSUME Overlaps = {}, IInv, NEW r \in Requests, SwitchFails(r)
  PROVE  IInv'
<1>1. PICK c \in Conversations, t \in Tabs :
        /\ c = request[r].c /\ t = request[r].t
        /\ request[r].kind = "switch" /\ request[r].pc = "launching"
  BY DEF SwitchFails, IInv, Typed, Placed, Located, RequestRecord
<1>2. /\ Drives(request[r]) /\ request[r].gen \in 1..MaxNative
      /\ active[c] = request[r].gen /\ active[c] # 0
      /\ \A s \in Requests : Drives(request[s]) /\ request[s].c = c => s = r
  <2>1. Drives(request[r])
    BY <1>1 DEF Drives, InFlight, IInv, Flight, FlightOf
  <2> QED
    BY <1>1, <2>1, DriverStands
<1>3. /\ SameOwner(owner[c], NativeOwner(request[r].gen, "active"))
      /\ SameOwner(owner[c], request[r].saved)
      /\ owner[c] # None /\ owner[c].kind = "native"
      /\ owner[c].gen = active[c] /\ c \in switching /\ c \notin native
  BY <1>1, <1>2 DEF IInv, Flight, FlightOf, Drives, SameOwner, NativeOwner
<1>4. /\ tab' = tab \/ (CanLaunch(r, t) /\ tab' = FailedLaunch(t))
      /\ request' = Starting(request, r, c)
      /\ UNCHANGED <<owner, active, generation, switching, native, tabOwner, moving>>
  BY <1>1, <1>3 DEF SwitchFails, CanCommit
<1>5. /\ tab' \in [Tabs -> TabStates] /\ \A u \in Tabs : u # t => tab'[u] = tab[u]
      /\ tab'[t].open = tab[t].open
      /\ tab'[t] = tab[t] \/ (tab'[t].runs = None /\ tab'[t].by = "user")
  BY <1>4, FailedTab DEF CanLaunch, IInv, Typed
<1>6. tab'[t] = tab[t] \/ \A s \in Requests : s # r /\ request[s].t = t => ~InOperation(request[s])
  BY <1>1, <1>4 DEF IInv, OneOperation, OthersLeft, InOperation, CanLaunch
<1>7. /\ Kept(r) /\ request'[r].pc = "spawn" /\ ~request'[r].lost
      /\ \A s \in Requests : s # r => request'[s] = request[s]
      /\ request' \in [Requests -> RequestRecord]
  <2>1. PICK can : can = CancelStarts(request, r, c)
    OBVIOUS
  <2>2. can \in [Requests -> RequestRecord] /\ can[r] = request[r]
    BY <2>1, CancelLoses DEF IInv, Typed
  <2>3. \A s \in Requests : s # r => can[s] = request[s]
    BY <1>2, <2>1, CancelKeeps
  <2>4. PICK n : n = [request[r] EXCEPT !.pc = "spawn", !.lost = FALSE]
    OBVIOUS
  <2>5. request' = [can EXCEPT ![r] = n]
    BY <1>3, <1>4, <2>1, <2>2, <2>4 DEF Starting
  <2>6. /\ n \in RequestRecord /\ n.pc = "spawn" /\ n.lost = FALSE
        /\ n.kind = request[r].kind /\ n.c = request[r].c /\ n.t = request[r].t
        /\ n.gen = request[r].gen /\ n.saved = request[r].saved
    <3>1. request[r] \in RequestRecord
      BY DEF IInv, Typed
    <3> QED
      BY <2>4, <3>1 DEF RequestRecord, Places
  <2> QED
    BY <2>2, <2>3, <2>5, <2>6 DEF Kept
<1>8. \A d \in Conversations : (Driven(d)' <=> Driven(d)) /\ (Adopted(d)' <=> Adopted(d))
  BY <1>2, <1>7 DEF Kept, Driven, Adopted, Drives, InFlight
<1>9. \A u \in Tabs : Unconfirmed(u)' <=> Unconfirmed(u)
  BY <1>1, <1>7 DEF Unconfirmed
<1>10. \A s \in Requests : s # r /\ Moves(request[s]) => request[s].t # t
  BY <1>1 DEF IInv, OneMover, Moves
<1>11. Typed'
  BY <1>4, <1>5, <1>7 DEF IInv, Typed
<1>12. Placed'
  BY <1>1, <1>7 DEF IInv, Placed, Located, Kept
<1>13. Generations'
  BY <1>1, <1>4, <1>7 DEF IInv, Generations, InFlight, Kept
<1>14. Flight'
  <2> SUFFICES ASSUME NEW s \in Requests PROVE FlightOf(s)'
    BY DEF Flight
  <2>1. CASE s = r
    BY <1>1, <1>4, <1>7 DEF IInv, Flight, FlightOf, InFlight, Kept
  <2>2. CASE s # r
    BY <1>4, <1>7, <2>2 DEF IInv, Flight, FlightOf
  <2> QED
    BY <2>1, <2>2
<1>15. OneDriver'
  BY <1>2, <1>7 DEF IInv, OneDriver, Kept
<1>16. StartedFirst'
  BY <1>1, <1>7 DEF IInv, StartedFirst, Kept
<1>17. Entries'
  BY <1>4, <1>8 DEF IInv, Entries, Entry
<1>18. Records'
  BY <1>4, <1>5 DEF IInv, Records, Holds
<1>19. OneMover'
  BY <1>1, <1>7 DEF IInv, OneMover, Moves, Kept
<1>20. Movers'
  <2> SUFFICES ASSUME NEW s \in Requests PROVE MoverOf(s)'
    BY DEF Movers
  <2>1. CASE s = r
    <3>1. t \in moving
      BY <1>1 DEF IInv, Movers, MoverOf, Moves
    <3> QED
      BY <1>1, <1>4, <1>7, <2>1, <3>1 DEF MoverOf, Adopting, Kept
  <2>2. CASE s # r
    <3>1. request'[s] = request[s] /\ MoverOf(s)
      BY <1>7, <2>2 DEF IInv, Movers
    <3>2. Adopting(request[s]) => tab'[request[s].t] = tab[request[s].t]
      BY <1>5, <1>10, <2>2 DEF Adopting, Moves, IInv, Placed, Located
    <3> QED
      BY <1>4, <3>1, <3>2 DEF MoverOf, Busy
  <2> QED
    BY <2>1, <2>2
<1>21. OneOperation'
  BY <1>7 DEF IInv, OneOperation, InOperation
<1>22. Claims'
  <2> SUFFICES ASSUME NEW s \in Requests PROVE ClaimOf(s)'
    BY DEF Claims
  <2>3. \A u \in Requests : Adopting(request'[u]) => request'[u] = request[u]
    BY <1>1, <1>7 DEF Adopting, Kept
  <2>1. CASE s = r
    BY <1>1, <1>7, <2>1 DEF ClaimOf, Resuming, Kept
  <2>2. CASE s # r
    BY <1>4, <1>5, <1>6, <1>7, <2>2, <2>3 DEF IInv, Claims, ClaimOf, Resuming, Placed,
       Located, Holds, InOperation
  <2> QED
    BY <2>1, <2>2
<1>23. Launched'
  BY <1>4, <1>5, <1>9 DEF IInv, Launched, Launching, Holds
<1> QED
  BY <1>11, <1>12, <1>13, <1>14, <1>15, <1>16, <1>17, <1>18, <1>19, <1>20, <1>21, <1>22,
     <1>23 DEF IInv

(* SwitchRolledBack: the native process is back, and its owner.            *)
LEMMA SwitchRolledBackKeeps ==
  ASSUME Overlaps = {}, IInv, NEW r \in Requests, SwitchRolledBack(r)
  PROVE  IInv'
<1>1. PICK c \in Conversations, t \in Tabs :
        /\ c = request[r].c /\ t = request[r].t
        /\ request[r].kind = "switch" /\ request[r].pc = "init" /\ ~request[r].lost
  BY DEF SwitchRolledBack, IInv, Typed, Placed, Located, RequestRecord
<1>2. /\ Drives(request[r]) /\ request[r].gen \in 1..MaxNative
      /\ active[c] = request[r].gen /\ active[c] # 0
      /\ \A s \in Requests : Drives(request[s]) /\ request[s].c = c => s = r
  <2>1. Drives(request[r])
    BY <1>1 DEF Drives, InFlight
  <2> QED
    BY <1>1, <2>1, DriverStands
<1>3. /\ SameOwner(owner[c], NativeOwner(request[r].gen, "active"))
      /\ SameOwner(owner[c], request[r].saved)
      /\ owner[c] # None /\ owner[c].kind = "native"
      /\ owner[c].gen = active[c] /\ c \in switching /\ c \in native
  BY <1>1, <1>2 DEF IInv, Flight, FlightOf, Drives, SameOwner, NativeOwner
<1>4. /\ owner' = [owner EXCEPT ![c] = request[r].saved] /\ switching' = switching \ {c}
      /\ moving' = moving \ {t} /\ UNCHANGED <<active, generation, native, tab, tabOwner>>
  BY <1>1, <1>2, <1>3 DEF SwitchRolledBack, RollbackTransfer
<1>5. /\ request'[r] = Idle
      /\ \A s \in Requests : s # r => request'[s] = request[s]
      /\ request' \in [Requests -> RequestRecord]
  BY DEF SwitchRolledBack, Finish, Idle, IInv, Typed, RequestRecord
<1>6. /\ request[r].saved \in Owners \cup {None}
      /\ SameOwner(request[r].saved, NativeOwner(request[r].gen, "active"))
  BY <1>1 DEF IInv, Typed, RequestRecord, Flight, FlightOf, InFlight
<1>7. /\ owner' \in [Conversations -> Owners \cup {None}]
      /\ \A d \in Conversations : d # c => owner'[d] = owner[d]
      /\ SameOwner(owner'[c], NativeOwner(active[c], "active"))
      /\ owner'[c] # None /\ owner'[c].kind = "native" /\ owner'[c].gen = active[c]
  BY <1>2, <1>4, <1>6 DEF IInv, Typed, SameOwner, NativeOwner
<1>8. \A u \in Tabs, d \in Conversations : Holds(u, d)' <=> Holds(u, d)
  BY <1>3, <1>7 DEF Holds
<1>9. \A s \in Requests : Adopting(request[s]) => request[s].c # c
  BY <1>3 DEF IInv, Movers, MoverOf, SameOwner
<1>10. \A s \in Requests : s # r /\ Moves(request[s]) => request[s].t # t
  BY <1>1 DEF IInv, OneMover, Moves
<1>11. \A s \in Requests : s # r /\ InFlight(request[s]) /\ request[s].c = c => request[s].lost
  BY <1>2 DEF Drives
<1>12. \A d \in Conversations : d # c =>
         (Driven(d)' <=> Driven(d)) /\ (Adopted(d)' <=> Adopted(d))
  BY <1>1, <1>5 DEF Driven, Adopted, Drives, InFlight, Idle
<1>13. ~Driven(c)' /\ ~Adopted(c)'
  BY <1>2, <1>5 DEF Driven, Adopted, Drives, InFlight, Idle
<1>14. \A u \in Tabs : Unconfirmed(u)' <=> Unconfirmed(u)
  BY <1>1, <1>5 DEF Unconfirmed, Idle
<1>15. Typed'
  BY <1>4, <1>5, <1>7 DEF IInv, Typed
<1>16. Placed'
  BY <1>5 DEF IInv, Placed, Located, Idle
<1>17. Generations'
  BY <1>4, <1>5 DEF IInv, Generations, InFlight, Idle
<1>18. Flight'
  BY <1>4, <1>5, <1>11 DEF IInv, Flight, FlightOf, InFlight, Idle
<1>19. OneDriver'
  BY <1>5 DEF IInv, OneDriver, Drives, InFlight, Idle
<1>20. StartedFirst'
  BY <1>5 DEF IInv, StartedFirst, Idle
<1>21. Entries'
  BY <1>3, <1>4, <1>7, <1>12 DEF IInv, Entries, Entry
<1>22. Records'
  BY <1>4, <1>7 DEF IInv, Records, Holds
<1>23. OneMover'
  BY <1>5 DEF IInv, OneMover, Moves, Idle
<1>24. Movers'
  <2> SUFFICES ASSUME NEW s \in Requests PROVE MoverOf(s)'
    BY DEF Movers
  <2>1. CASE s = r
    BY <1>5, <2>1 DEF MoverOf, Moves, Adopting, Idle
  <2>2. CASE s # r
    <3>1. request'[s] = request[s] /\ MoverOf(s)
      BY <1>5, <2>2 DEF IInv, Movers
    <3>2. Adopting(request[s]) => owner'[request[s].c] = owner[request[s].c]
      BY <1>7, <1>9, <2>2 DEF Adopting, IInv, Placed, Located
    <3>3. Moves(request[s]) => request[s].t # t
      BY <1>10, <2>2
    <3> QED
      BY <1>4, <3>1, <3>2, <3>3 DEF MoverOf, Moves, Busy
  <2> QED
    BY <2>1, <2>2
<1>25. OneOperation'
  BY <1>5 DEF IInv, OneOperation, InOperation, Idle
<1>26. Claims'
  BY <1>4, <1>5, <1>6 DEF IInv, Claims, ClaimOf, Resuming, Adopting, Holds, SameOwner,
     NativeOwner, Idle
<1>27. Launched'
  <2> SUFFICES ASSUME NEW u \in Tabs PROVE Launching(u)'
    BY DEF Launched
  <2>1. tab[u].runs \in Conversations \cup {None}
    BY DEF IInv, Typed, TabStates
  <2> QED
    BY <1>4, <2>1, <1>14, <1>8 DEF IInv, Launched, Launching
<1> QED
  BY <1>15, <1>16, <1>17, <1>18, <1>19, <1>20, <1>21, <1>22, <1>23, <1>24, <1>25, <1>26,
     <1>27 DEF IInv

(* AlreadyNative: the tab had nothing of what the native service owns.     *)
LEMMA AlreadyNativeKeeps ==
  ASSUME Overlaps = {}, IInv, NEW r \in Requests, AlreadyNative(r)
  PROVE  IInv'
<1>1. PICK c \in Conversations, t \in Tabs :
        /\ c = request[r].c /\ t = request[r].t
        /\ request[r].kind = "adopt" /\ request[r].pc = "preparing"
  BY DEF AlreadyNative, IInv, Typed, Placed, Located, RequestRecord
<1>2. /\ active[c] # 0 /\ ~Busy(t, c)
      /\ tabOwner' = [tabOwner EXCEPT ![t] = None] /\ moving' = moving \ {t}
      /\ UNCHANGED <<owner, active, generation, switching, native, tab>>
  BY <1>1 DEF AlreadyNative
<1>3. /\ request'[r] = Idle
      /\ \A s \in Requests : s # r => request'[s] = request[s]
      /\ request' \in [Requests -> RequestRecord]
  BY DEF AlreadyNative, Finish, Idle, IInv, Typed, RequestRecord
<1>4. \A s \in Requests : s # r /\ Moves(request[s]) => request[s].t # t
  BY <1>1 DEF IInv, OneMover, Moves
<1>5. \A d \in Conversations : ~Holds(t, d)
  <2>1. \A s \in Requests : Adopting(request[s]) => request[s].t # t
    BY <1>1, <1>4 DEF Adopting, Moves
  <2>2. ASSUME Holds(t, c) PROVE FALSE
    <3>1. Adopted(c)
      BY <1>2, <2>2 DEF Holds, IInv, Entries, Entry, SameOwner, NativeOwner
    <3>2. PICK s \in Requests : Drives(request[s]) /\ request[s].kind = "adopt" /\ request[s].c = c
      BY <3>1 DEF Adopted
    <3>3. Adopting(request[s])
      BY <3>2 DEF Drives, InFlight, Adopting
    <3>4. request[s].t = t
      BY <2>2, <3>2, <3>3 DEF IInv, Movers, MoverOf, SameOwner, Holds
    <3> QED
      BY <2>1, <3>3, <3>4
  <2> QED
    BY <1>2, <2>2 DEF IInv, Records, Holds, Busy
<1>6. \A d \in Conversations : (Driven(d)' <=> Driven(d)) /\ (Adopted(d)' <=> Adopted(d))
  BY <1>1, <1>3 DEF Driven, Adopted, Drives, InFlight, Idle
<1>7. \A u \in Tabs : Unconfirmed(u)' <=> Unconfirmed(u)
  BY <1>1, <1>3 DEF Unconfirmed, Idle
<1>8. \A u \in Tabs, d \in Conversations : Holds(u, d)' <=> Holds(u, d)
  BY <1>2 DEF Holds
<1>9. Typed'
  BY <1>2, <1>3 DEF IInv, Typed
<1>10. Placed'
  BY <1>3 DEF IInv, Placed, Located, Idle
<1>11. Generations'
  BY <1>2, <1>3 DEF IInv, Generations, InFlight, Idle
<1>12. Flight'
  BY <1>2, <1>3 DEF IInv, Flight, FlightOf, InFlight, Idle
<1>13. OneDriver'
  BY <1>3 DEF IInv, OneDriver, Drives, InFlight, Idle
<1>14. StartedFirst'
  BY <1>3 DEF IInv, StartedFirst, Idle
<1>15. Entries'
  BY <1>2, <1>6 DEF IInv, Entries, Entry
<1>16. Records'
  BY <1>2, <1>5 DEF IInv, Records, Holds
<1>17. OneMover'
  BY <1>3 DEF IInv, OneMover, Moves, Idle
<1>18. Movers'
  BY <1>2, <1>3, <1>4 DEF IInv, Movers, MoverOf, Moves, Adopting, Busy, Idle
<1>19. OneOperation'
  BY <1>3 DEF IInv, OneOperation, InOperation, Idle
<1>20. Claims'
  BY <1>2, <1>3 DEF IInv, Claims, ClaimOf, Resuming, Adopting, Holds, Idle
<1>21. Launched'
  BY <1>2, <1>7 DEF IInv, Launched, Launching, Holds
<1> QED
  BY <1>9, <1>10, <1>11, <1>12, <1>13, <1>14, <1>15, <1>16, <1>17, <1>18, <1>19, <1>20,
     <1>21 DEF IInv

(* BeginAdoption: the tab is the owner, nobody works on the entry, and no  *)
(* other handler moves the tab.                                            *)
LEMMA BeginAdoptionKeeps ==
  ASSUME Overlaps = {}, IInv, NEW r \in Requests, BeginAdoption(r)
  PROVE  IInv'
<1>1. PICK c \in Conversations, t \in Tabs :
        /\ c = request[r].c /\ t = request[r].t
        /\ request[r].kind = "adopt" /\ request[r].pc = "preparing"
  BY DEF BeginAdoption, IInv, Typed, Placed, Located, RequestRecord
<1>2. /\ tab[t].open /\ active[c] = 0 /\ generation[c] < MaxNative
      /\ owner[c] # None /\ owner[c].kind = "terminal" /\ owner[c].phase # "starting"
      /\ owner[c].by = t /\ owner' = [owner EXCEPT ![c].phase = "stopping"]
      /\ switching' = switching \cup {c} /\ moving' = moving \cup {t}
      /\ UNCHANGED <<native, tab, tabOwner>>
  BY <1>1 DEF BeginAdoption
<1>3. PICK g \in 1..MaxNative : g = generation[c] + 1
  BY <1>2, OwnershipAssumption DEF IInv, Typed
<1>4. /\ generation' \in [Conversations -> 0..MaxNative] /\ generation'[c] = g
      /\ \A d \in Conversations : d # c => generation'[d] = generation[d]
      /\ active' \in [Conversations -> 0..MaxNative] /\ active'[c] = g /\ g # 0
      /\ \A d \in Conversations : d # c => active'[d] = active[d]
  <2>1. generation' = [generation EXCEPT ![c] = g] /\ generation'[c] = g
    BY <1>1, <1>3 DEF BeginAdoption, IInv, Typed
  <2>2. active' = [active EXCEPT ![c] = g]
    BY <1>1, <2>1 DEF BeginAdoption
  <2> QED
    BY <1>3, <2>1, <2>2, OwnershipAssumption DEF IInv, Typed
<1>5. /\ owner' \in [Conversations -> Owners \cup {None}]
      /\ \A d \in Conversations : d # c => owner'[d] = owner[d]
      /\ owner'[c] # None /\ owner'[c].kind = owner[c].kind
      /\ owner'[c].by = owner[c].by /\ owner'[c].gen = owner[c].gen
      /\ owner'[c].phase = "stopping" /\ SameOwner(owner'[c], owner[c])
  BY <1>2, PhaseChanges DEF Phases, IInv
<1>6. c \notin native /\ c \notin switching /\ ~request[r].lost
  BY <1>1, <1>2 DEF IInv, Entries, Entry, Placed, Located
<1>7. \A s \in Requests : Drives(request[s]) => request[s].c # c
  BY <1>2, DriverStands
<1>8. \A s \in Requests : s # r /\ Moves(request[s]) => request[s].t # t
  BY <1>1 DEF IInv, OneMover, Moves
<1>9. \A s \in Requests : Adopting(request[s]) => request[s].c # c /\ request[s].t # t
  <2>1. \A s \in Requests : Adopting(request[s]) => request[s].t # t
    BY <1>1, <1>8 DEF Adopting, Moves
  <2> QED
    BY <1>2, <2>1 DEF IInv, Movers, MoverOf, SameOwner
<1>10. /\ request'[r].kind = "adopt" /\ request'[r].c = c /\ request'[r].t = t
       /\ request'[r].gen = g /\ request'[r].pc = "stopping"
       /\ request'[r].saved = owner[c] /\ ~request'[r].lost
       /\ \A s \in Requests : s # r =>
            /\ Aside(s)
            /\ request[s].stale => request'[s].stale
            /\ request[s].t = t /\ InOperation(request[s]) => request'[s].stale
            /\ request[s].t # t \/ ~InOperation(request[s]) => request'[s] = request[s]
       /\ request' \in [Requests -> RequestRecord]
  <2>4. PICK n : n = [request[r] EXCEPT !.pc = "stopping", !.saved = owner[c], !.gen = g]
    OBVIOUS
  <2>7. /\ n \in RequestRecord /\ n.kind = "adopt" /\ n.c = c /\ n.t = t /\ n.gen = g
        /\ n.pc = "stopping" /\ n.saved = owner[c] /\ n.lost = request[r].lost
    <3>1. request[r] \in RequestRecord /\ owner[c] \in Owners \cup {None}
      BY DEF IInv, Typed
    <3>2. g \in Nat
      BY OwnershipAssumption
    <3> QED
      BY <1>1, <2>4, <3>1, <3>2 DEF RequestRecord, Places
  <2>5. PICK req : req = [request EXCEPT ![r] = n]
    OBVIOUS
  <2>6. request' = Invalidate(req, r, t)
    <3>1. req = [request EXCEPT ![r].pc = "stopping", ![r].saved = owner[c], ![r].gen = g]
      BY <2>4, <2>5 DEF IInv, Typed
    <3>2. generation'[c] = g
      BY <1>4
    <3> QED
      BY <1>1, <3>1, <3>2 DEF BeginAdoption
  <2>8. req \in [Requests -> RequestRecord] /\ req[r] = n
        /\ \A s \in Requests : s # r => req[s] = request[s]
    BY <2>5, <2>7 DEF IInv, Typed
  <2>9. request' \in [Requests -> RequestRecord] /\ request'[r] = n
    BY <2>6, <2>8, InvalidateStales
  <2>10. ASSUME NEW s \in Requests, s # r
         PROVE  /\ Aside(s)
                /\ request[s].stale => request'[s].stale
                /\ request[s].t = t /\ InOperation(request[s]) => request'[s].stale
                /\ request[s].t # t \/ ~InOperation(request[s]) => request'[s] = request[s]
    <3>1. req[s] = request[s]
      BY <2>8, <2>10
    <3>2. request[s].kind = "none" => ~InOperation(request[s])
      BY DEF InOperation, IInv, Placed, Located, Idle
    <3> QED
      BY <2>6, <2>8, <2>10, <3>2, InvalidateStales DEF Aside, Kept
  <2> QED
    BY <1>6, <2>7, <2>9, <2>10
<1>11. \A d \in Conversations : d # c =>
         (Driven(d)' <=> Driven(d)) /\ (Adopted(d)' <=> Adopted(d))
  BY <1>1, <1>10 DEF Aside, Kept, Driven, Adopted, Drives, InFlight
<1>12. Driven(c)' /\ Adopted(c)'
  BY <1>10 DEF Driven, Adopted, Drives, InFlight
<1>13. \A u \in Tabs : Unconfirmed(u)' <=> Unconfirmed(u)
  BY <1>1, <1>10 DEF Aside, Kept, Unconfirmed
<1>14. \A u \in Tabs, d \in Conversations : Holds(u, d)' <=> Holds(u, d)
  BY <1>2, <1>5 DEF Holds
<1>15. \A s \in Requests : InFlight(request[s]) /\ request[s].c = c =>
         request[s].lost /\ request[s].kind # "adopt" /\ request[s].gen < g
  <2> SUFFICES ASSUME NEW s \in Requests, InFlight(request[s]), request[s].c = c
               PROVE  request[s].lost /\ request[s].kind # "adopt" /\ request[s].gen < g
    OBVIOUS
  <2>1. request[s].lost
    BY <1>7 DEF Drives
  <2>2. request[s].kind # "adopt"
    BY <1>9 DEF InFlight, Adopting
  <2>3. request[s].gen \in 1..generation[c]
    BY DEF IInv, Generations
  <2> QED
    BY <1>3, <2>1, <2>2, <2>3 DEF IInv, Typed
<1>16. Typed'
  <2>1. switching' \subseteq Conversations /\ native' \subseteq Conversations
        /\ moving' \subseteq Tabs
    BY <1>2 DEF IInv, Typed
  <2>2. tab' \in [Tabs -> TabStates] /\ tabOwner' \in [Tabs -> Holdings \cup {None}]
    BY <1>2 DEF IInv, Typed
  <2>3. owner' \in [Conversations -> Owners \cup {None}]
    BY <1>5
  <2>4. active' \in [Conversations -> 0..MaxNative]
    BY <1>4
  <2>5. generation' \in [Conversations -> 0..MaxNative]
    BY <1>4
  <2>6. request' \in [Requests -> RequestRecord]
    BY <1>10
  <2> QED
    BY <2>1, <2>2, <2>3, <2>4, <2>5, <2>6 DEF Typed
<1>17. Placed'
  BY <1>10 DEF IInv, Placed, Located, Kept, Aside
<1>18. Generations'
  BY <1>3, <1>4, <1>10 DEF IInv, Typed, Placed, Located, Generations, InFlight, Kept,
     Aside
<1>19. Flight'
  BY <1>2, <1>4, <1>10, <1>15 DEF IInv, Placed, Located, Flight, FlightOf, InFlight,
     Entries, Entry, Kept, Aside
<1>20. OneDriver'
  BY <1>7, <1>10 DEF IInv, OneDriver, Drives, InFlight, Kept, Aside
<1>21. StartedFirst'
  BY <1>10 DEF IInv, StartedFirst, Kept, Aside
<1>22. Entries'
  BY <1>2, <1>4, <1>5, <1>11, <1>12 DEF IInv, Entries, Entry
<1>23. Records'
  BY <1>2 DEF IInv, Records, Holds
<1>24. OneMover'
  BY <1>8, <1>10 DEF IInv, OneMover, Moves, Kept, Aside
<1>25. Movers'
  <2> SUFFICES ASSUME NEW s \in Requests PROVE MoverOf(s)'
    BY DEF Movers
  <2>1. CASE s = r
    <3>1. /\ t \in moving' /\ tab'[t].open /\ SameOwner(owner'[c], owner[c])
          /\ owner'[c].phase # "starting"
      BY <1>2, <1>5
    <3> QED
      BY <1>2, <1>10, <2>1, <3>1 DEF MoverOf
  <2>2. CASE s # r
    <3>1. Aside(s) /\ MoverOf(s)
      BY <1>10, <2>2 DEF IInv, Movers
    <3>2. Adopting(request[s]) => /\ owner'[request[s].c] = owner[request[s].c]
                                  /\ active'[request[s].c] = active[request[s].c]
      BY <1>4, <1>5, <1>9 DEF Adopting, IInv, Placed, Located
    <3> QED
      BY <1>2, <3>1, <3>2 DEF MoverOf, Moves, Adopting, Busy, Aside, Kept
  <2> QED
    BY <2>1, <2>2
<1>26. OneOperation'
  BY <1>10 DEF IInv, OneOperation
<1>27. Claims'
  <2> SUFFICES ASSUME NEW s \in Requests PROVE ClaimOf(s)'
    BY DEF Claims
  <2>3. ASSUME NEW u \in Requests, Adopting(request'[u])
        PROVE  /\ request'[u].pc = "stopping" \/ (u # r /\ Adopting(request[u]))
               /\ u # r => request'[u].t = request[u].t /\ request'[u].pc = request[u].pc
               /\ request'[u].t = t => u = r
    BY <1>9, <1>10, <2>3 DEF Adopting, Aside, Kept
  <2>4. ASSUME NEW v \in Requests, v # r, Resuming(request[v]), request[v].t = t
        PROVE  request'[v].stale
    <3>1. InOperation(request[v])
      BY <2>4 DEF Resuming, InOperation, IInv, Placed, Located
    <3> QED
      BY <1>10, <2>4, <3>1
  <2>5. ASSUME NEW v \in Requests, Resuming(request[v]), NEW u \in Tabs, u = request[v].t,
               NEW d \in Conversations, d = request[v].c,
               tabOwner[u] # None, tabOwner[u].via = v
        PROVE  Holds(u, d)' => owner'[d].phase = "starting"
    <3>1. Holds(u, d) => owner[d].phase = "starting"
      BY <2>5 DEF IInv, Claims, ClaimOf
    <3> QED
      BY <1>2, <1>5, <1>14, <3>1
  <2>1. CASE s = r
    BY <1>10, <2>1 DEF ClaimOf, Resuming
  <2>2. CASE s # r
    BY <1>2, <1>10, <2>3, <2>4, <2>5 DEF IInv, Claims, ClaimOf, Resuming, Aside, Kept,
       Placed, Located
  <2> QED
    BY <2>1, <2>2
<1>28. Launched'
  BY <1>2, <1>13, <1>14 DEF IInv, Launched, Launching, Holds
<1> QED
  BY <1>16, <1>17, <1>18, <1>19, <1>20, <1>21, <1>22, <1>23, <1>24, <1>25, <1>26, <1>27,
     <1>28 DEF IInv

(* StopForAdoption: the tab is stopped, and the native process is to be    *)
(* started.                                                                *)
LEMMA StopForAdoptionKeeps ==
  ASSUME Overlaps = {}, IInv, NEW r \in Requests, StopForAdoption(r)
  PROVE  IInv'
<1>1. PICK c \in Conversations, t \in Tabs :
        /\ c = request[r].c /\ t = request[r].t
        /\ request[r].kind = "adopt" /\ request[r].pc = "stopping"
  BY DEF StopForAdoption, IInv, Typed, Placed, Located, RequestRecord
<1>2. /\ Drives(request[r]) /\ request[r].gen \in 1..MaxNative
      /\ active[c] = request[r].gen /\ active[c] # 0
      /\ \A s \in Requests : Drives(request[s]) /\ request[s].c = c => s = r
  <2>1. Drives(request[r])
    BY <1>1 DEF Drives, InFlight, IInv, Flight, FlightOf
  <2> QED
    BY <1>1, <2>1, DriverStands
<1>3. /\ tab[t].open /\ request[r].saved # None /\ request[r].saved.kind = "terminal"
      /\ request[r].saved.by = t /\ SameOwner(owner[c], request[r].saved) /\ Holds(t, c)
      /\ request[r].saved.phase # "starting" /\ owner[c].phase # "starting"
      /\ t \in moving
  BY <1>1 DEF IInv, Movers, MoverOf, Adopting, SameOwner, Holds, Moves
<1>4. /\ OthersLeft(r, t) /\ tab' = Stopped(t) /\ request' = Starting(request, r, c)
      /\ UNCHANGED <<owner, active, generation, switching, native, tabOwner, moving>>
  BY <1>1, <1>3 DEF StopForAdoption, StopTab
<1>5. /\ tab' \in [Tabs -> TabStates] /\ \A u \in Tabs : u # t => tab'[u] = tab[u]
      /\ tab'[t].open = tab[t].open /\ tab'[t].pty = tab[t].pty
      /\ tab'[t].runs = None /\ tab'[t].by = "user"
  BY <1>4, StoppedTab DEF IInv
<1>6. c \notin native
  BY <1>1, <1>2 DEF IInv, Flight, FlightOf, Drives
<1>7. /\ Kept(r) /\ request'[r].pc = "spawn" /\ ~request'[r].lost
      /\ \A s \in Requests : s # r => request'[s] = request[s]
      /\ request' \in [Requests -> RequestRecord]
  <2>1. PICK can : can = CancelStarts(request, r, c)
    OBVIOUS
  <2>2. can \in [Requests -> RequestRecord] /\ can[r] = request[r]
    BY <2>1, CancelLoses DEF IInv, Typed
  <2>3. \A s \in Requests : s # r => can[s] = request[s]
    BY <1>2, <2>1, CancelKeeps
  <2>4. PICK n : n = [request[r] EXCEPT !.pc = "spawn", !.lost = FALSE]
    OBVIOUS
  <2>5. request' = [can EXCEPT ![r] = n]
    BY <1>4, <1>6, <2>1, <2>2, <2>4 DEF Starting
  <2>6. /\ n \in RequestRecord /\ n.pc = "spawn" /\ n.lost = FALSE
        /\ n.kind = request[r].kind /\ n.c = request[r].c /\ n.t = request[r].t
        /\ n.gen = request[r].gen /\ n.saved = request[r].saved
    <3>1. request[r] \in RequestRecord
      BY DEF IInv, Typed
    <3> QED
      BY <2>4, <3>1 DEF RequestRecord, Places
  <2> QED
    BY <2>2, <2>3, <2>5, <2>6 DEF Kept
<1>8. \A d \in Conversations : (Driven(d)' <=> Driven(d)) /\ (Adopted(d)' <=> Adopted(d))
  BY <1>2, <1>7 DEF Kept, Driven, Adopted, Drives, InFlight
<1>9. \A u \in Tabs : Unconfirmed(u)' <=> Unconfirmed(u)
  BY <1>1, <1>7 DEF Unconfirmed
<1>10. \A s \in Requests : s # r /\ Moves(request[s]) => request[s].t # t
  BY <1>1 DEF IInv, OneMover, Moves
<1>11. \A s \in Requests : Resuming(request[s]) => request[s].t # t
  <2> SUFFICES ASSUME NEW s \in Requests, Resuming(request[s]), request[s].t = t
               PROVE  FALSE
    OBVIOUS
  <2>1. request[s].stale
    BY <1>1 DEF IInv, Claims, ClaimOf, Adopting
  <2>2. InOperation(request[s]) /\ s # r
    BY <1>1 DEF Resuming, InOperation, IInv, Placed, Located
  <2> QED
    BY <1>4, <2>1, <2>2 DEF OthersLeft
<1>12. Typed'
  BY <1>4, <1>5, <1>7 DEF IInv, Typed
<1>13. Placed'
  BY <1>1, <1>7 DEF IInv, Placed, Located, Kept
<1>14. Generations'
  BY <1>1, <1>4, <1>7 DEF IInv, Generations, InFlight, Kept
<1>15. Flight'
  <2> SUFFICES ASSUME NEW s \in Requests PROVE FlightOf(s)'
    BY DEF Flight
  <2>1. CASE s = r
    <3>1. FlightOf(r)
      BY DEF IInv, Flight
    <3> QED
      BY <1>1, <1>2, <1>4, <1>6, <1>7, <2>1, <3>1 DEF FlightOf, InFlight, Drives, Kept
  <2>2. CASE s # r
    BY <1>4, <1>7, <2>2 DEF IInv, Flight, FlightOf
  <2> QED
    BY <2>1, <2>2
<1>16. OneDriver'
  BY <1>2, <1>7 DEF IInv, OneDriver, Kept
<1>17. StartedFirst'
  BY <1>1, <1>7 DEF IInv, StartedFirst, Kept
<1>18. Entries'
  BY <1>4, <1>8 DEF IInv, Entries, Entry
<1>19. Records'
  BY <1>4, <1>5 DEF IInv, Records, Holds
<1>20. OneMover'
  BY <1>1, <1>7 DEF IInv, OneMover, Moves, Kept
<1>21. Movers'
  <2> SUFFICES ASSUME NEW s \in Requests PROVE MoverOf(s)'
    BY DEF Movers
  <2>3. /\ request'[r].c = c /\ request'[r].t = t /\ request'[r].kind = "adopt"
        /\ request'[r].pc = "spawn" /\ request'[r].saved = request[r].saved
    BY <1>1, <1>7 DEF Kept
  <2>4. /\ tab'[t].open /\ tab'[t].by = "user" /\ t \in moving'
        /\ SameOwner(owner'[c], request[r].saved) /\ owner'[c].phase # "starting"
    BY <1>3, <1>4, <1>5
  <2>1. CASE s = r
    BY <1>3, <2>1, <2>3, <2>4 DEF MoverOf
  <2>2. CASE s # r
    BY <1>4, <1>5, <1>7, <2>2 DEF IInv, Movers, MoverOf, Adopting, Busy, Placed, Located
  <2> QED
    BY <2>1, <2>2
<1>22. OneOperation'
  BY <1>7 DEF IInv, OneOperation, InOperation
<1>23. Claims'
  <2> SUFFICES ASSUME NEW s \in Requests PROVE ClaimOf(s)'
    BY DEF Claims
  <2>1. CASE s = r
    BY <1>1, <1>7, <2>1 DEF ClaimOf, Resuming, Kept
  <2>2. CASE s # r
    <3>1. request'[s] = request[s] /\ ClaimOf(s)
      BY <1>7, <2>2 DEF IInv, Claims
    <3>2. Resuming(request[s]) => request[s].t \in Tabs /\ request[s].t # t
      BY <1>11 DEF Resuming, IInv, Placed, Located
    <3>3. Resuming(request[s]) => tab'[request[s].t] = tab[request[s].t]
      BY <1>5, <3>2
    <3>4. \A u \in Requests : u # r => request'[u] = request[u]
      BY <1>7
    <3>5. request'[r].t = t
      BY <1>1, <1>7 DEF Kept
    <3> QED
      BY <1>4, <3>1, <3>2, <3>3, <3>4, <3>5 DEF ClaimOf, Holds
  <2> QED
    BY <2>1, <2>2
<1>24. Launched'
  BY <1>4, <1>5, <1>9 DEF IInv, Launched, Launching, Holds
<1> QED
  BY <1>12, <1>13, <1>14, <1>15, <1>16, <1>17, <1>18, <1>19, <1>20, <1>21, <1>22, <1>23,
     <1>24 DEF IInv

(* CommitAdoption: the native process has taken over what the tab owned.   *)
LEMMA CommitAdoptionKeeps ==
  ASSUME Overlaps = {}, IInv, NEW r \in Requests, CommitAdoption(r)
  PROVE  IInv'
<1>1. PICK c \in Conversations, t \in Tabs :
        /\ c = request[r].c /\ t = request[r].t
        /\ request[r].kind = "adopt" /\ request[r].pc = "init" /\ ~request[r].lost
  BY DEF CommitAdoption, IInv, Typed, Placed, Located, RequestRecord
<1>2. /\ Drives(request[r]) /\ request[r].gen \in 1..MaxNative
      /\ active[c] = request[r].gen /\ active[c] # 0
      /\ \A s \in Requests : Drives(request[s]) /\ request[s].c = c => s = r
  <2>1. Drives(request[r])
    BY <1>1 DEF Drives, InFlight
  <2> QED
    BY <1>1, <2>1, DriverStands
<1>3. /\ tab[t].open /\ request[r].saved # None /\ request[r].saved.kind = "terminal"
      /\ request[r].saved.by = t /\ SameOwner(owner[c], request[r].saved) /\ Holds(t, c)
      /\ request[r].saved.phase # "starting" /\ owner[c].phase # "starting"
  BY <1>1 DEF IInv, Movers, MoverOf, Adopting, SameOwner, Holds
<1>4. tab[t].by = "user" /\ c \in native
  BY <1>1 DEF IInv, Movers, MoverOf, Adopting, Flight, FlightOf, InFlight
<1>5. /\ owner' = [owner EXCEPT ![c] = NativeOwner(request[r].gen, "active")]
      /\ switching' = switching \ {c} /\ moving' = moving \ {t}
      /\ tabOwner' = [tabOwner EXCEPT ![t] = None]
      /\ UNCHANGED <<active, generation, native, tab>>
  BY <1>1, <1>2 DEF CommitAdoption
<1>6. /\ request'[r] = Idle
      /\ \A s \in Requests : s # r => request'[s] = request[s]
      /\ request' \in [Requests -> RequestRecord]
  BY DEF CommitAdoption, Finish, Idle, IInv, Typed, RequestRecord
<1>7. /\ owner' \in [Conversations -> Owners \cup {None}]
      /\ \A d \in Conversations : d # c => owner'[d] = owner[d]
      /\ SameOwner(owner'[c], NativeOwner(active[c], "active"))
      /\ owner'[c] # None /\ owner'[c].kind = "native" /\ owner'[c].gen = active[c]
  BY <1>2, <1>5, OwnerTypes, NativeOwners DEF IInv, Typed, Phases
<1>8. /\ \A d \in Conversations : ~Holds(t, d)'
      /\ \A u \in Tabs, d \in Conversations : Holds(u, d)' => Holds(u, d) /\ owner'[d] = owner[d]
      /\ \A u \in Tabs, d \in Conversations : u # t /\ Holds(u, d) => Holds(u, d)'
  <2>1. \A d \in Conversations : Holds(t, d) => d = c
    BY <1>3 DEF IInv, Records
  <2> QED
    BY <1>3, <1>7, <2>1 DEF Holds
<1>9. \A s \in Requests : s # r /\ Moves(request[s]) => request[s].t # t
  BY <1>1 DEF IInv, OneMover, Moves
<1>10. \A s \in Requests : s # r /\ Adopting(request[s]) => request[s].c # c /\ request[s].t # t
  <2>1. \A s \in Requests : s # r /\ Adopting(request[s]) => request[s].t # t
    BY <1>9 DEF Adopting, Moves
  <2> QED
    BY <1>3, <2>1 DEF IInv, Movers, MoverOf, SameOwner
<1>11. \A s \in Requests : s # r /\ InFlight(request[s]) /\ request[s].c = c => request[s].lost
  BY <1>2 DEF Drives
<1>12. \A d \in Conversations : d # c =>
         (Driven(d)' <=> Driven(d)) /\ (Adopted(d)' <=> Adopted(d))
  BY <1>1, <1>6 DEF Driven, Adopted, Drives, InFlight, Idle
<1>13. ~Driven(c)' /\ ~Adopted(c)'
  BY <1>2, <1>6 DEF Driven, Adopted, Drives, InFlight, Idle
<1>14. \A u \in Tabs : Unconfirmed(u)' <=> Unconfirmed(u)
  BY <1>1, <1>6 DEF Unconfirmed, Idle
<1>15. Typed'
  BY <1>5, <1>6, <1>7 DEF IInv, Typed
<1>16. Placed'
  BY <1>6 DEF IInv, Placed, Located, Idle
<1>17. Generations'
  BY <1>5, <1>6 DEF IInv, Generations, InFlight, Idle
<1>18. Flight'
  BY <1>5, <1>6, <1>11 DEF IInv, Flight, FlightOf, InFlight, Idle
<1>19. OneDriver'
  BY <1>6 DEF IInv, OneDriver, Drives, InFlight, Idle
<1>20. StartedFirst'
  BY <1>6 DEF IInv, StartedFirst, Idle
<1>21. Entries'
  BY <1>4, <1>5, <1>7, <1>12 DEF IInv, Entries, Entry
<1>22. Records'
  BY <1>3, <1>5 DEF IInv, Typed, Records, Holds, NativeOwner
<1>23. OneMover'
  BY <1>6 DEF IInv, OneMover, Moves, Idle
<1>24. Movers'
  <2> SUFFICES ASSUME NEW s \in Requests PROVE MoverOf(s)'
    BY DEF Movers
  <2>1. CASE s = r
    BY <1>6, <2>1 DEF MoverOf, Moves, Adopting, Idle
  <2>2. CASE s # r
    <3>1. request'[s] = request[s] /\ MoverOf(s)
      BY <1>6, <2>2 DEF IInv, Movers
    <3>2. Adopting(request[s]) => owner'[request[s].c] = owner[request[s].c]
      BY <1>7, <1>10, <2>2 DEF Adopting, IInv, Placed, Located
    <3>3. Moves(request[s]) => request[s].t # t
      BY <1>9, <2>2
    <3> QED
      BY <1>5, <3>1, <3>2, <3>3 DEF MoverOf, Moves, Busy
  <2> QED
    BY <2>1, <2>2
<1>25. OneOperation'
  BY <1>6 DEF IInv, OneOperation, InOperation, Idle
<1>26. Claims'
  BY <1>5, <1>6 DEF IInv, Claims, ClaimOf, Resuming, Adopting, Holds, NativeOwner, Idle
<1>27. Launched'
  BY <1>3, <1>4, <1>5, <1>14 DEF IInv, Launched, Launching, Holds
<1> QED
  BY <1>15, <1>16, <1>17, <1>18, <1>19, <1>20, <1>21, <1>22, <1>23, <1>24, <1>25, <1>26,
     <1>27 DEF IInv

(* AdoptionFails: the tab owns the conversation again.                     *)
LEMMA AdoptionFailsKeeps ==
  ASSUME Overlaps = {}, IInv, NEW r \in Requests, AdoptionFails(r)
  PROVE  IInv'
<1>1. PICK c \in Conversations, t \in Tabs :
        /\ c = request[r].c /\ t = request[r].t
        /\ request[r].kind = "adopt" /\ request[r].pc \in {"spawn", "init"}
  BY DEF AdoptionFails, IInv, Typed, Placed, Located, RequestRecord
<1>2. /\ tab[t].open /\ request[r].saved # None /\ request[r].saved.kind = "terminal"
      /\ request[r].saved.by = t /\ SameOwner(owner[c], request[r].saved) /\ Holds(t, c)
      /\ request[r].saved.phase # "starting" /\ owner[c].phase # "starting" /\ t \in moving
  BY <1>1 DEF IInv, Movers, MoverOf, Adopting, SameOwner, Holds, Moves
<1>3. /\ request[r].gen \in 1..generation[c] /\ request[r].lost <=> active[c] # request[r].gen
      /\ request[r].lost => active[c] = 0
      /\ ~request[r].lost => (c \in native <=> request[r].pc = "init")
      /\ request[r].pc = "spawn" => ~request[r].lost
  BY <1>1 DEF IInv, Flight, FlightOf, Generations, InFlight
<1>4. native' = native \ {c}
  <2>1. request[r].lost => c \notin native
    BY <1>3 DEF IInv, Entries, Entry
  <2>2. SameOwner(owner[c], request[r].saved)
    BY <1>2
  <2> QED
    BY <1>1, <1>3, <2>1, <2>2 DEF AdoptionFails, CanCommit
<1>5. /\ owner' = [owner EXCEPT ![c] = request[r].saved]
      /\ active' = [active EXCEPT ![c] = 0] /\ switching' = switching \ {c}
      /\ UNCHANGED <<generation, tab, tabOwner, moving>>
  BY <1>1, <1>2 DEF AdoptionFails, RollbackTransfer
<1>6. /\ owner' \in [Conversations -> Owners \cup {None}]
      /\ \A d \in Conversations : d # c => owner'[d] = owner[d]
      /\ owner'[c] = request[r].saved /\ SameOwner(owner'[c], owner[c])
      /\ active' \in [Conversations -> 0..MaxNative] /\ active'[c] = 0
      /\ \A d \in Conversations : d # c => active'[d] = active[d]
  BY <1>2, <1>5, OwnershipAssumption DEF IInv, Typed, RequestRecord, SameOwner
<1>7. /\ Kept(r) /\ request'[r].pc = "restoring"
      /\ request'[r].lost = request[r].lost /\ request'[r].stale = request[r].stale
      /\ \A s \in Requests : s # r =>
           /\ Aside(s)
           /\ request[s].stale => request'[s].stale
           /\ request[s].t = t /\ InOperation(request[s]) => request'[s].stale
           /\ request[s].t # t \/ ~InOperation(request[s]) => request'[s] = request[s]
      /\ request' \in [Requests -> RequestRecord]
  <2>4. PICK n : n = [request[r] EXCEPT !.pc = "restoring"]
    OBVIOUS
  <2>7. /\ n \in RequestRecord /\ n.kind = request[r].kind /\ n.c = c /\ n.t = t
        /\ n.gen = request[r].gen /\ n.pc = "restoring" /\ n.saved = request[r].saved
        /\ n.lost = request[r].lost /\ n.stale = request[r].stale
    <3>1. request[r] \in RequestRecord
      BY DEF IInv, Typed
    <3> QED
      BY <1>1, <2>4, <3>1 DEF RequestRecord, Places
  <2>5. PICK req : req = [request EXCEPT ![r] = n]
    OBVIOUS
  <2>6. request' = Invalidate(req, r, t)
    BY <1>1, <2>4, <2>5 DEF AdoptionFails, IInv, Typed
  <2>8. req \in [Requests -> RequestRecord] /\ req[r] = n
        /\ \A s \in Requests : s # r => req[s] = request[s]
    BY <2>5, <2>7 DEF IInv, Typed
  <2>9. request' \in [Requests -> RequestRecord] /\ request'[r] = n
    BY <2>6, <2>8, InvalidateStales
  <2>10. ASSUME NEW s \in Requests, s # r
         PROVE  /\ Aside(s)
                /\ request[s].stale => request'[s].stale
                /\ request[s].t = t /\ InOperation(request[s]) => request'[s].stale
                /\ request[s].t # t \/ ~InOperation(request[s]) => request'[s] = request[s]
    <3>1. req[s] = request[s]
      BY <2>8, <2>10
    <3>2. request[s].kind = "none" => ~InOperation(request[s])
      BY DEF InOperation, IInv, Placed, Located, Idle
    <3> QED
      BY <2>6, <2>8, <2>10, <3>2, InvalidateStales DEF Aside, Kept
  <2> QED
    BY <1>1, <2>7, <2>9, <2>10 DEF Kept
<1>8. \A s \in Requests : s # r /\ Moves(request[s]) => request[s].t # t
  BY <1>1 DEF IInv, OneMover, Moves
<1>9. \A s \in Requests : Resuming(request[s]) => request[s].t # t
  BY <1>1 DEF IInv, Claims, ClaimOf, Adopting
<1>10. \A s \in Requests : s # r /\ Adopting(request[s]) => request[s].c # c /\ request[s].t # t
  <2>1. \A s \in Requests : s # r /\ Adopting(request[s]) => request[s].t # t
    BY <1>8 DEF Adopting, Moves
  <2> QED
    BY <1>2, <2>1 DEF IInv, Movers, MoverOf, SameOwner
<1>11. \A s \in Requests : s # r /\ InFlight(request[s]) /\ request[s].c = c => request[s].lost
  <2> SUFFICES ASSUME NEW s \in Requests, s # r, Drives(request[s]), request[s].c = c
               PROVE  FALSE
    BY DEF Drives
  <2>1. active[c] = request[s].gen /\ active[c] # 0
    BY DriverStands
  <2>2. Drives(request[r])
    BY <1>1, <1>3, <2>1 DEF Drives, InFlight
  <2> QED
    BY <1>1, <2>2 DEF IInv, OneDriver
<1>12. \A d \in Conversations : d # c =>
         (Driven(d)' <=> Driven(d)) /\ (Adopted(d)' <=> Adopted(d))
  BY <1>1, <1>7 DEF Aside, Kept, Driven, Adopted, Drives, InFlight
<1>13. ~Driven(c)' /\ ~Adopted(c)'
  BY <1>1, <1>7, <1>11 DEF Aside, Kept, Driven, Adopted, Drives, InFlight
<1>14. \A u \in Tabs : Unconfirmed(u)' <=> Unconfirmed(u)
  BY <1>1, <1>7 DEF Aside, Kept, Unconfirmed
<1>15. \A u \in Tabs, d \in Conversations : Holds(u, d)' <=> Holds(u, d)
  BY <1>6 DEF Holds, SameOwner
<1>16. Typed'
  BY <1>4, <1>5, <1>6, <1>7 DEF IInv, Typed
<1>17. Placed'
  BY <1>1, <1>7 DEF IInv, Placed, Located, Kept, Aside
<1>18. Generations'
  BY <1>5, <1>7 DEF IInv, Typed, Generations, InFlight, Kept, Aside
<1>19. Flight'
  BY <1>1, <1>4, <1>5, <1>7 DEF IInv, Generations, Flight, FlightOf, OneDriver, Drives,
     InFlight, Kept, Aside
<1>20. OneDriver'
  BY <1>1, <1>7 DEF IInv, OneDriver, Drives, InFlight, Kept, Aside
<1>21. StartedFirst'
  BY <1>7 DEF IInv, StartedFirst, Kept, Aside
<1>22. Entries'
  BY <1>2, <1>4, <1>5, <1>12 DEF IInv, Typed, Entries, Entry
<1>23. Records'
  BY <1>5, <1>6 DEF IInv, Records, Holds, SameOwner
<1>24. OneMover'
  BY <1>1, <1>7 DEF IInv, OneMover, Moves, Kept, Aside
<1>25. Movers'
  BY <1>1, <1>5, <1>7 DEF IInv, Typed, Movers, MoverOf, Moves, Adopting, Busy,
     SameOwner, Kept, Aside
<1>26. OneOperation'
  BY <1>1, <1>7 DEF IInv, OneOperation, Kept
<1>27. Claims'
  BY <1>1, <1>2, <1>5, <1>7 DEF IInv, Claims, ClaimOf, Resuming, Adopting, Holds, Kept,
     Aside
<1>28. Launched'
  BY <1>5, <1>14, <1>15 DEF IInv, Launched, Launching, Holds
<1> QED
  BY <1>16, <1>17, <1>18, <1>19, <1>20, <1>21, <1>22, <1>23, <1>24, <1>25, <1>26, <1>27,
     <1>28 DEF IInv

(* RestoreTerminal: the tab may be launched again with the conversation it *)
(* owns.                                                                   *)
LEMMA RestoreTerminalKeeps ==
  ASSUME Overlaps = {}, IInv, NEW r \in Requests, RestoreTerminal(r)
  PROVE  IInv'
<1>1. PICK c \in Conversations, t \in Tabs :
        /\ c = request[r].c /\ t = request[r].t
        /\ request[r].kind = "adopt" /\ request[r].pc = "restoring"
  BY PlaceTells DEF RestoreTerminal, IInv, Placed, Located
<1>2. /\ tab[t].open /\ request[r].saved # None /\ request[r].saved.kind = "terminal"
      /\ request[r].saved.by = t /\ SameOwner(owner[c], request[r].saved) /\ Holds(t, c)
      /\ request[r].saved.phase # "starting" /\ owner[c].phase # "starting"
  BY <1>1 DEF IInv, Movers, MoverOf, Adopting, SameOwner, Holds
<1>3. /\ tab' = tab \/ (CanLaunch(r, t) /\ tab' = FailedLaunch(t))
           \/ (CanLaunch(r, t) /\ tab' = Relaunched(t, c))
      /\ moving' = moving \ {t}
      /\ UNCHANGED <<owner, active, generation, switching, native, tabOwner>>
  BY <1>1 DEF RestoreTerminal
<1>4. /\ tab' \in [Tabs -> TabStates] /\ \A u \in Tabs : u # t => tab'[u] = tab[u]
      /\ tab'[t].open = tab[t].open
      /\ \/ tab'[t] = tab[t]
         \/ tab'[t].runs = None /\ tab'[t].by = "user"
         \/ tab'[t].runs = c /\ tab'[t].by = "app"
  BY <1>3, FailedTab, RelaunchedTab DEF CanLaunch, IInv, Typed
<1>5. /\ request'[r] = Idle
      /\ \A s \in Requests : s # r => request'[s] = request[s]
      /\ request' \in [Requests -> RequestRecord]
  BY DEF RestoreTerminal, Finish, Idle, IInv, Typed, RequestRecord
<1>6. \A s \in Requests : s # r /\ Moves(request[s]) => request[s].t # t
  BY <1>1 DEF IInv, OneMover, Moves
<1>7. \A s \in Requests : Resuming(request[s]) => request[s].t # t
  BY <1>1 DEF IInv, Claims, ClaimOf, Adopting
<1>8. \A d \in Conversations : (Driven(d)' <=> Driven(d)) /\ (Adopted(d)' <=> Adopted(d))
  BY <1>1, <1>5 DEF Driven, Adopted, Drives, InFlight, Idle
<1>9. \A u \in Tabs : Unconfirmed(u)' <=> Unconfirmed(u)
  BY <1>1, <1>5 DEF Unconfirmed, Idle
<1>10. Typed'
  BY <1>3, <1>4, <1>5 DEF IInv, Typed
<1>11. Placed'
  BY <1>5 DEF IInv, Placed, Located, Idle
<1>12. Generations'
  BY <1>3, <1>5 DEF IInv, Generations, InFlight, Idle
<1>13. Flight'
  BY <1>3, <1>5 DEF IInv, Flight, FlightOf, InFlight, Idle
<1>14. OneDriver'
  BY <1>5 DEF IInv, OneDriver, Drives, InFlight, Idle
<1>15. StartedFirst'
  BY <1>5 DEF IInv, StartedFirst, Idle
<1>16. Entries'
  BY <1>3, <1>8 DEF IInv, Entries, Entry
<1>17. Records'
  BY <1>3, <1>4 DEF IInv, Records, Holds
<1>18. OneMover'
  BY <1>5 DEF IInv, OneMover, Moves, Idle
<1>19. Movers'
  BY <1>3, <1>4, <1>5, <1>6 DEF IInv, Typed, Movers, MoverOf, Moves, Adopting, Busy,
     Idle
<1>20. OneOperation'
  BY <1>5 DEF IInv, OneOperation, InOperation, Idle
<1>21. Claims'
  BY <1>3, <1>4, <1>5, <1>7 DEF IInv, Placed, Located, Claims, ClaimOf, Resuming,
     Adopting, Holds, Idle
<1>22. Launched'
  <2> SUFFICES ASSUME NEW u \in Tabs PROVE Launching(u)'
    BY DEF Launched
  <2>1. tab[u].runs \in Conversations \cup {None} /\ c # None
    BY OwnershipAssumption DEF IInv, Typed, TabStates
  <2>2. CASE tab'[u] = tab[u]
    BY <1>3, <1>9, <2>2 DEF IInv, Launched, Launching, Holds
  <2>3. CASE tab'[u] # tab[u]
    <3>1. u = t
      BY <1>4, <2>3
    <3>2. Holds(t, c)'
      BY <1>2, <1>3 DEF Holds
    <3> QED
      BY <1>2, <1>4, <2>1, <2>3, <3>1, <3>2 DEF Launching
  <2> QED
    BY <2>2, <2>3
<1> QED
  BY <1>10, <1>11, <1>12, <1>13, <1>14, <1>15, <1>16, <1>17, <1>18, <1>19, <1>20, <1>21,
     <1>22 DEF IInv

(* TabKept: a tab that stops, if at all, and keeps what it has on record.  *)
LEMMA TabKeptKeeps ==
  ASSUME Overlaps = {}, IInv, NEW t \in Tabs, tab' \in [Tabs -> TabStates], \A u \in Tabs : u # t => tab'[u] = tab[u],
         tab'[t].open = tab[t].open, tab'[t].pty = tab[t].pty,
         tab'[t].by = "user" \/ (tab'[t] = tab[t] /\ (Unconfirmed(t)' <=> Unconfirmed(t))),
         request' \in [Requests -> RequestRecord],
         \A s \in Requests :
           \/ request'[s] = Idle /\ request[s].kind = "resume"
           \/ Aside(s) /\ (request[s].stale => request'[s].stale),
         \A u \in Tabs : u # t => (Unconfirmed(u)' <=> Unconfirmed(u)),
         UNCHANGED <<owner, active, generation, switching, native, tabOwner, moving>>
  PROVE  IInv'
<1>1. \A s \in Requests : request'[s].kind # "none" =>
        Kept(s) /\ request'[s].pc = request[s].pc /\ request'[s].lost = request[s].lost
          /\ (request[s].stale => request'[s].stale)
  BY DEF Aside, Idle
<1>2. \A s \in Requests : request'[s] = Idle \/ (Aside(s) /\ Located(request'[s]))
  BY DEF IInv, Placed, Located, Aside, Kept, Idle
<1>3. \A s \in Requests : request[s].kind \in {"start", "switch", "adopt"} =>
        /\ Kept(s) /\ request'[s].pc = request[s].pc /\ request'[s].lost = request[s].lost
  BY DEF Aside
<1>4. \A d \in Conversations : (Driven(d)' <=> Driven(d)) /\ (Adopted(d)' <=> Adopted(d))
  BY DEF Driven, Adopted, Drives, InFlight, Kept, Aside, Idle
<1>5. \A u \in Tabs, d \in Conversations : Holds(u, d)' <=> Holds(u, d)
  BY DEF Holds
<1>6. Typed'
  BY DEF IInv, Typed
<1>7. Placed'
  BY DEF IInv, Placed, Located, Aside, Kept, Idle
<1>8. Generations'
  BY DEF IInv, Generations, InFlight, Aside, Kept, Idle
<1>9. Flight'
  BY DEF IInv, Flight, FlightOf, InFlight, Aside, Kept, Idle
<1>10. OneDriver'
  BY DEF IInv, OneDriver, Drives, InFlight, Aside, Kept, Idle
<1>11. StartedFirst'
  BY DEF IInv, StartedFirst, Aside, Kept, Idle
<1>12. Entries'
  BY <1>4 DEF IInv, Entries, Entry
<1>13. Records'
  BY <1>5 DEF IInv, Records
<1>14. OneMover'
  BY DEF IInv, OneMover, Moves, Aside, Kept, Idle
<1>15. Movers'
  BY DEF IInv, Typed, Movers, MoverOf, Moves, Adopting, Busy, Aside, Kept, Idle
<1>16. OneOperation'
  BY DEF IInv, OneOperation, InOperation, Aside, Kept, Idle
<1>17. Claims'
  BY DEF IInv, Placed, Located, Claims, ClaimOf, Resuming, Adopting, Holds, Aside, Kept,
     Idle
<1>18. Launched'
  <2> SUFFICES ASSUME NEW u \in Tabs PROVE Launching(u)'
    BY DEF Launched
  <2>1. tab[u].runs \in Conversations \cup {None}
    BY DEF IInv, Typed, TabStates
  <2>2. CASE tab'[u].by = "user"
    BY <2>2 DEF Launching
  <2>3. CASE tab'[u].by # "user"
    BY <1>5, <2>1, <2>3 DEF IInv, Launched, Launching
  <2> QED
    BY <2>2, <2>3
<1> QED
  BY <1>6, <1>7, <1>8, <1>9, <1>10, <1>11, <1>12, <1>13, <1>14, <1>15, <1>16, <1>17,
     <1>18 DEF IInv

(* TabFreed: a tab that runs nothing of the application gives up what it   *)
(* has on record.                                                          *)
LEMMA TabFreedKeeps ==
  ASSUME Overlaps = {}, IInv, NEW t \in Tabs, tab' \in [Tabs -> TabStates], \A u \in Tabs : u # t => tab'[u] = tab[u],
         tab'[t].open = tab[t].open, tab'[t].pty = tab[t].pty,
         tab'[t].by = "user", owner' = ReleaseTab(owner, t),
         tabOwner' = [tabOwner EXCEPT ![t] = None],
         \A s \in Requests : Adopting(request[s]) => request[s].t # t,
         request' \in [Requests -> RequestRecord],
         \A s \in Requests :
           \/ request'[s] = Idle /\ request[s].kind = "resume"
           \/ Aside(s) /\ (request[s].stale => request'[s].stale),
         \A u \in Tabs : u # t => (Unconfirmed(u)' <=> Unconfirmed(u)),
         UNCHANGED <<active, generation, switching, native, moving>>
  PROVE  IInv'
<1>1. \A s \in Requests : request'[s].kind # "none" =>
        Kept(s) /\ request'[s].pc = request[s].pc /\ request'[s].lost = request[s].lost
          /\ (request[s].stale => request'[s].stale)
  BY DEF Aside, Idle
<1>2. \A s \in Requests : request'[s] = Idle \/ (Aside(s) /\ Located(request'[s]))
  BY DEF IInv, Placed, Located, Aside, Kept, Idle
<1>3. \A s \in Requests : request[s].kind \in {"start", "switch", "adopt"} =>
        /\ Kept(s) /\ request'[s].pc = request[s].pc /\ request'[s].lost = request[s].lost
  BY DEF Aside
<1>4. \A d \in Conversations : (Driven(d)' <=> Driven(d)) /\ (Adopted(d)' <=> Adopted(d))
  BY DEF Driven, Adopted, Drives, InFlight, Kept, Aside, Idle
<1>5. /\ owner' \in [Conversations -> Owners \cup {None}]
      /\ \A d \in Conversations :
           owner'[d] = IF tabOwner[t] # None /\ Holds(t, d) THEN None ELSE owner[d]
  BY ReleaseTabFrees
<1>6. /\ \A d \in Conversations : owner'[d] = IF Holds(t, d) THEN None ELSE owner[d]
      /\ \A d \in Conversations : ~Holds(t, d)'
      /\ \A u \in Tabs, d \in Conversations : Holds(u, d)' => Holds(u, d) /\ owner'[d] = owner[d]
      /\ \A u \in Tabs, d \in Conversations : u # t /\ Holds(u, d) => Holds(u, d)'
  <2>1. \A d \in Conversations : Holds(t, d) => tabOwner[t] # None
    BY DEF IInv, Records
  <2>2. \A d \in Conversations : owner'[d] = IF Holds(t, d) THEN None ELSE owner[d]
    BY <1>5, <2>1
  <2> QED
    BY <2>2 DEF Holds
<1>7. /\ tabOwner' \in [Tabs -> Holdings \cup {None}] /\ tabOwner'[t] = None
      /\ \A u \in Tabs : u # t => tabOwner'[u] = tabOwner[u]
  BY DEF IInv, Typed
<1>8. \A s \in Requests : Adopting(request[s]) => ~Holds(t, request[s].c)
  BY DEF IInv, Movers, MoverOf, SameOwner, Holds
<1>9. Typed'
  BY <1>5 DEF IInv, Typed
<1>10. Placed'
  BY DEF IInv, Placed, Located, Aside, Kept, Idle
<1>11. Generations'
  BY DEF IInv, Generations, InFlight, Aside, Kept, Idle
<1>12. Flight'
  <2> SUFFICES ASSUME NEW s \in Requests, InFlight(request'[s]) PROVE FlightOf(s)'
    BY DEF Flight, FlightOf
  <2>1. /\ Kept(s) /\ request'[s].pc = request[s].pc /\ request'[s].lost = request[s].lost
        /\ InFlight(request[s])
    BY <1>1 DEF InFlight, Kept
  <2>2. PICK d \in Conversations : d = request[s].c
    BY <2>1 DEF InFlight, IInv, Placed, Located
  <2>3. FlightOf(s)
    BY DEF IInv, Flight
  <2>4. owner[d] # None /\ owner[d].kind = "native" => owner'[d] = owner[d]
    BY <1>6 DEF Holds
  <2>5. /\ request[s].kind = "start" /\ ~request[s].lost => owner'[d] = owner[d]
        /\ request[s].kind = "switch" /\ ~request[s].lost => owner'[d] = owner[d]
    <3>1. request[s].gen \in 1..MaxNative
      <4>1. generation \in [Conversations -> 0..MaxNative]
        BY DEF IInv, Typed
      <4>2. request[s].gen \in 1..generation[d]
        BY <2>1, <2>2 DEF IInv, Generations
      <4> QED
        BY <4>1, <4>2, OwnershipAssumption
    <3>2. request[s].kind = "start" /\ ~request[s].lost =>
            owner[d] # None /\ owner[d].kind = "native"
      BY <2>1, <2>2, <2>3, <3>1, OwnerTypes, NativeOwners DEF FlightOf, Phases
    <3>3. request[s].kind = "switch" /\ ~request[s].lost =>
            owner[d] # None /\ owner[d].kind = "native"
      BY <2>1, <2>2, <2>3 DEF FlightOf, SameOwner, NativeOwner
    <3> QED
      BY <2>4, <3>2, <3>3
  <2> QED
    BY <2>1, <2>2, <2>3, <2>5 DEF FlightOf, Kept
<1>13. OneDriver'
  BY DEF IInv, OneDriver, Drives, InFlight, Aside, Kept, Idle
<1>14. StartedFirst'
  BY DEF IInv, StartedFirst, Aside, Kept, Idle
<1>15. Entries'
  <2> SUFFICES ASSUME NEW d \in Conversations PROVE Entry(d)'
    BY DEF Entries
  <2>1. Entry(d)
    BY DEF IInv, Entries
  <2>2. CASE Holds(t, d)
    BY <1>4, <1>6, <2>1 DEF Entry, Holds, SameOwner, NativeOwner
  <2>3. CASE ~Holds(t, d)
    <3>1. owner'[d] = owner[d]
      BY <1>6, <2>3
    <3> QED
      BY <1>4, <2>1, <3>1 DEF Entry
  <2> QED
    BY <2>2, <2>3
<1>16. Records'
  BY <1>6 DEF IInv, Records
<1>17. OneMover'
  BY DEF IInv, OneMover, Moves, Aside, Kept, Idle
<1>18. Movers'
  BY <1>6, <1>8 DEF IInv, Placed, Located, Movers, MoverOf, Moves, Adopting, Busy,
     Aside, Kept, Idle
<1>19. OneOperation'
  BY DEF IInv, OneOperation, InOperation, Aside, Kept, Idle
<1>20. Claims'
  BY <1>1, <1>2, <1>3, <1>5 DEF IInv, Placed, Located, Claims, ClaimOf, Resuming,
     Adopting, Holds, Kept
<1>21. Launched'
  <2> SUFFICES ASSUME NEW u \in Tabs PROVE Launching(u)'
    BY DEF Launched
  <2>1. tab[u].runs \in Conversations \cup {None}
    BY DEF IInv, Typed, TabStates
  <2>2. CASE tab'[u].by = "user"
    BY <2>2 DEF Launching
  <2>3. CASE tab'[u].by # "user"
    BY <1>6, <2>1, <2>3 DEF IInv, Launched, Launching
  <2> QED
    BY <2>2, <2>3
<1> QED
  BY <1>9, <1>10, <1>11, <1>12, <1>13, <1>14, <1>15, <1>16, <1>17, <1>18, <1>19, <1>20,
     <1>21 DEF IInv

(* Disturbing a tab makes handlers stale, and changes nothing else.        *)
LEMMA DisturbedKeeps ==
  ASSUME IInv, NEW t \in Tabs, request' = Disturbed(t)
  PROVE  /\ request' \in [Requests -> RequestRecord]
         /\ \A s \in Requests : Aside(s) /\ (request[s].stale => request'[s].stale)
         /\ \A u \in Tabs : Unconfirmed(u)' <=> Unconfirmed(u)
<1>1. request \in [Requests -> RequestRecord] /\ request' = Invalidate(request, None, t)
  BY DEF IInv, Typed, Disturbed
<1>2. request' \in [Requests -> RequestRecord]
  BY <1>1, InvalidateStales
<1>3. ASSUME NEW s \in Requests PROVE Aside(s) /\ (request[s].stale => request'[s].stale)
  <2>1. request[s].kind = "none" => ~InOperation(request[s])
    BY DEF InOperation, IInv, Placed, Located, Idle
  <2> QED
    BY <1>1, <2>1, InvalidateStales DEF Aside, Kept
<1> QED
  BY <1>2, <1>3 DEF Aside, Kept, Unconfirmed

(* ShellExits: a switch keeps what the tab has on record, and nobody else. *)
LEMMA ShellExitsKeeps ==
  ASSUME Overlaps = {}, IInv, NEW t \in Tabs, ShellExits(t)
  PROVE  IInv'
<1>1. /\ tab' = Stopped(t) /\ request' = Disturbed(t)
      /\ UNCHANGED <<active, generation, switching, native, moving>>
  BY DEF ShellExits, StopTab
<1>2. /\ tab' \in [Tabs -> TabStates] /\ \A u \in Tabs : u # t => tab'[u] = tab[u]
      /\ tab'[t].open = tab[t].open /\ tab'[t].pty = tab[t].pty /\ tab'[t].by = "user"
  BY <1>1, StoppedTab DEF IInv
<1>3. /\ request' \in [Requests -> RequestRecord]
      /\ \A s \in Requests : Aside(s) /\ (request[s].stale => request'[s].stale)
      /\ \A u \in Tabs : Unconfirmed(u)' <=> Unconfirmed(u)
  BY <1>1, DisturbedKeeps
<1>4. CASE t \in moving
  <2>1. UNCHANGED <<owner, tabOwner>>
    BY <1>4 DEF ShellExits, StopTab
  <2> QED
    BY <1>1, <1>2, <1>3, <2>1, TabKeptKeeps
<1>5. CASE t \notin moving
  <2>1. owner' = ReleaseTab(owner, t) /\ tabOwner' = [tabOwner EXCEPT ![t] = None]
    BY <1>5 DEF ShellExits, StopTab
  <2>2. \A s \in Requests : Adopting(request[s]) => request[s].t # t
    BY <1>5 DEF IInv, Movers, MoverOf, Moves, Adopting
  <2> QED
    BY <1>1, <1>2, <1>3, <2>1, <2>2, TabFreedKeeps
<1> QED
  BY <1>4, <1>5

(* ResumeFails: what was launched is stopped, and what was claimed is      *)
(* released; an adoption that has taken the tab over keeps it.             *)
LEMMA ResumeFailsKeeps ==
  ASSUME Overlaps = {}, IInv, NEW r \in Requests, ResumeFails(r)
  PROVE  IInv'
<1>1. PICK c \in Conversations, t \in Tabs :
        c = request[r].c /\ t = request[r].t /\ request[r].kind = "resume"
  BY DEF ResumeFails, IInv, Placed, Located
<1>2. Finish(r) /\ UNCHANGED <<active, generation, switching, native, moving>>
  BY DEF ResumeFails
<1>3. /\ request'[r] = Idle /\ request' \in [Requests -> RequestRecord]
      /\ \A s \in Requests : s # r => request'[s] = request[s]
  BY <1>2, IdleTyped DEF Finish, IInv, Typed
<1>4. /\ \A s \in Requests :
           \/ request'[s] = Idle /\ request[s].kind = "resume"
           \/ Aside(s) /\ (request[s].stale => request'[s].stale)
      /\ \A u \in Tabs : u # t => (Unconfirmed(u)' <=> Unconfirmed(u))
  BY <1>1, <1>3 DEF Aside, Kept, Unconfirmed, Idle
<1> DEFINE launched == request[r].pc = "confirming" /\ tab[t].open /\ tab[t].pty = request[r].gen
           held == request[r].pc # "authorizing" /\ tabOwner[t] # None /\ tabOwner[t].via = r
<1>5. /\ tab' = IF launched THEN Stopped(t) ELSE tab
      /\ IF held \/ (launched /\ t \notin moving)
         THEN owner' = ReleaseTab(owner, t) /\ tabOwner' = [tabOwner EXCEPT ![t] = None]
         ELSE UNCHANGED <<owner, tabOwner>>
  BY <1>1 DEF ResumeFails
<1>6. /\ tab' \in [Tabs -> TabStates] /\ \A u \in Tabs : u # t => tab'[u] = tab[u]
      /\ tab'[t].open = tab[t].open /\ tab'[t].pty = tab[t].pty
      /\ launched => tab'[t].by = "user"
      /\ ~launched => tab'[t] = tab[t]
  BY <1>5, StoppedTab DEF IInv, Typed
<1>7. request[r].pc = "confirming" => launched
  BY <1>1 DEF IInv, Claims, ClaimOf, Resuming
<1>8. CASE held \/ (launched /\ t \notin moving)
  <2>1. tab'[t].by = "user"
    <3>1. request[r].pc = "launching" => tab[t].by = "user"
      BY <1>1 DEF IInv, Claims, ClaimOf, Resuming
    <3>2. request[r].pc \in {"launching", "confirming"}
      BY <1>1, <1>8 DEF IInv, Placed, Located
    <3> QED
      BY <1>6, <1>7, <3>1, <3>2
  <2>2. ASSUME NEW s \in Requests, Adopting(request[s]), request[s].t = t PROVE FALSE
    <3>1. t \in moving
      BY <2>2 DEF IInv, Movers, MoverOf, Moves, Adopting
    <3>2. held
      BY <1>8, <3>1
    <3>3. PICK d \in Conversations : d = request[s].c
      BY <2>2 DEF Adopting, IInv, Placed, Located
    <3>4. Holds(t, d) /\ owner[d].phase # "starting"
      BY <2>2, <3>3 DEF IInv, Movers, MoverOf, SameOwner, Holds
    <3>5. tabOwner[t].conv = d
      BY <3>4 DEF IInv, Records
    <3>6. tabOwner[t].conv = c /\ (Holds(t, c) => owner[c].phase = "starting")
      BY <1>1, <3>2 DEF IInv, Claims, ClaimOf, Resuming
    <3> QED
      BY <3>4, <3>5, <3>6
  <2> HIDE DEF launched, held
  <2>3. owner' = ReleaseTab(owner, t) /\ tabOwner' = [tabOwner EXCEPT ![t] = None]
    BY <1>5, <1>8
  <2>4. \A s \in Requests : Adopting(request[s]) => request[s].t # t
    BY <2>2
  <2> QED
    BY <1>2, <1>3, <1>4, <1>6, <2>1, <2>3, <2>4, TabFreedKeeps
<1>9. CASE ~(held \/ (launched /\ t \notin moving))
  <2>1. UNCHANGED <<owner, tabOwner>>
    BY <1>5, <1>9
  <2>2. ~launched => (Unconfirmed(t)' <=> Unconfirmed(t))
    BY <1>1, <1>3, <1>7 DEF Unconfirmed, Idle
  <2> HIDE DEF launched, held
  <2> QED
    BY <1>2, <1>3, <1>4, <1>6, <2>1, <2>2, TabKeptKeeps
<1> QED
  BY <1>8, <1>9

(* ReportClaims: the tab claims what Claude reports.                       *)
LEMMA ReportClaimsKeeps ==
  ASSUME Overlaps = {}, IInv, NEW t \in Tabs, NEW c \in Conversations, t \notin moving,
         tab[t].open, tab[t].runs = c,
         owner' \in [Conversations -> Owners \cup {None}],
         owner[c] = None \/ Holds(t, c), Holds(t, c)', owner'[c].gen = tab[t].pty,
         \A d \in Conversations : d # c =>
           ~Holds(t, d)' /\ owner'[d] = IF Holds(t, d) THEN None ELSE owner[d],
         tabOwner' \in [Tabs -> Holdings \cup {None}],
         \A u \in Tabs : u # t => tabOwner'[u] = tabOwner[u],
         tabOwner'[t] # None, tabOwner'[t].conv = c, tabOwner'[t].gen = tab[t].pty,
         tabOwner'[t].via = None,
         UNCHANGED <<active, generation, switching, native, tab, moving, request>>
  PROVE  IInv'
<1>1. \A s \in Requests : Adopting(request[s]) => request[s].t # t
  BY DEF IInv, Movers, MoverOf, Moves, Adopting
<1>2. \A s \in Requests : Adopting(request[s]) =>
        request[s].c # c /\ ~Holds(t, request[s].c)
  BY <1>1 DEF IInv, Movers, MoverOf, SameOwner, Holds
<1>3. \A d \in Conversations : (Driven(d)' <=> Driven(d)) /\ (Adopted(d)' <=> Adopted(d))
  BY DEF Driven, Adopted
<1>4. \A u \in Tabs : Unconfirmed(u)' <=> Unconfirmed(u)
  BY DEF Unconfirmed
<1>5. /\ \A u \in Tabs, d \in Conversations : u # t =>
          (Holds(u, d)' <=> Holds(u, d)) /\ (Holds(u, d) => owner'[d] = owner[d])
      /\ \A d \in Conversations : owner[d] # None /\ owner[d].kind = "native" =>
           d # c /\ owner'[d] = owner[d]
  BY DEF Holds
<1>6. active[c] = 0
  <2>1. ~Adopted(c)
    BY <1>2 DEF Adopted, Drives, InFlight, Adopting
  <2> QED
    BY <2>1 DEF IInv, Entries, Entry, SameOwner, NativeOwner, Holds
<1>7. \A s \in Requests : request[s].kind = "switch" /\ request[s].pc = "launching" =>
        request[s].t # t
  BY DEF IInv, Movers, MoverOf, Moves
<1>8. Typed'
  BY DEF IInv, Typed
<1>9. Placed'
  BY DEF IInv, Placed
<1>10. Generations'
  BY DEF IInv, Generations
<1>11. Flight'
  <2> SUFFICES ASSUME NEW s \in Requests, InFlight(request'[s]) PROVE FlightOf(s)'
    BY DEF Flight, FlightOf
  <2>1. /\ Kept(s) /\ request'[s].pc = request[s].pc /\ request'[s].lost = request[s].lost
        /\ InFlight(request[s])
    BY DEF InFlight, Kept
  <2>2. PICK d \in Conversations : d = request[s].c
    BY <2>1 DEF InFlight, IInv, Placed, Located
  <2>3. FlightOf(s)
    BY DEF IInv, Flight
  <2>4. owner[d] # None /\ owner[d].kind = "native" => owner'[d] = owner[d]
    BY <1>5
  <2>5. /\ request[s].kind = "start" /\ ~request[s].lost => owner'[d] = owner[d]
        /\ request[s].kind = "switch" /\ ~request[s].lost => owner'[d] = owner[d]
    <3>1. request[s].gen \in 1..MaxNative
      <4>1. generation \in [Conversations -> 0..MaxNative]
        BY DEF IInv, Typed
      <4>2. request[s].gen \in 1..generation[d]
        BY <2>1, <2>2 DEF IInv, Generations
      <4> QED
        BY <4>1, <4>2, OwnershipAssumption
    <3>2. request[s].kind = "start" /\ ~request[s].lost =>
            owner[d] # None /\ owner[d].kind = "native"
      BY <2>2, <2>3, <3>1, OwnerTypes, NativeOwners DEF FlightOf, Phases
    <3>3. request[s].kind = "switch" /\ ~request[s].lost =>
            owner[d] # None /\ owner[d].kind = "native"
      BY <2>1, <2>2, <2>3 DEF FlightOf, SameOwner, NativeOwner
    <3> QED
      BY <2>4, <3>2, <3>3
  <2> QED
    BY <2>1, <2>2, <2>3, <2>5 DEF FlightOf, Kept
<1>12. OneDriver'
  BY DEF IInv, OneDriver
<1>13. StartedFirst'
  BY DEF IInv, StartedFirst
<1>14. Entries'
  <2> SUFFICES ASSUME NEW d \in Conversations PROVE Entry(d)'
    BY DEF Entries
  <2>1. Entry(d)
    BY DEF IInv, Entries
  <2>2. CASE d = c
    BY <1>6, <2>1, <2>2 DEF Entry, Holds
  <2>3. CASE d # c /\ Holds(t, d)
    BY <1>3, <2>1 DEF Entry, Holds, SameOwner, NativeOwner
  <2>4. CASE d # c /\ ~Holds(t, d)
    <3>1. owner'[d] = owner[d]
      BY <2>4
    <3> QED
      BY <1>3, <2>1, <3>1 DEF Entry
  <2> QED
    BY <2>2, <2>3, <2>4
<1>15. Records'
  BY <1>5 DEF IInv, Records
<1>16. OneMover'
  BY DEF IInv, OneMover
<1>17. Movers'
  BY <1>2 DEF IInv, Placed, Located, Movers, MoverOf, Moves, Adopting, Busy
<1>18. OneOperation'
  BY DEF IInv, OneOperation
<1>19. Claims'
  <2> SUFFICES ASSUME NEW s \in Requests, Resuming(request[s]) PROVE ClaimOf(s)'
    BY DEF Claims, ClaimOf
  <2>1. PICK u \in Tabs, d \in Conversations : u = request[s].t /\ d = request[s].c
    BY DEF Resuming, IInv, Placed, Located
  <2>2. ClaimOf(s)
    BY DEF IInv, Claims
  <2>3. s # None
    BY OwnershipAssumption
  <2>4. CASE u = t
    BY <2>1, <2>2, <2>3, <2>4 DEF ClaimOf
  <2>5. CASE u # t
    <3>1. tabOwner'[u] = tabOwner[u] /\ (Holds(u, d)' => Holds(u, d) /\ owner'[d] = owner[d])
      BY <1>5, <2>5
    <3> QED
      BY <2>1, <2>2, <3>1 DEF ClaimOf
  <2> QED
    BY <2>4, <2>5
<1>20. Launched'
  <2> SUFFICES ASSUME NEW u \in Tabs PROVE Launching(u)'
    BY DEF Launched
  <2>1. tab[u].runs \in Conversations \cup {None} /\ c # None
    BY OwnershipAssumption DEF IInv, Typed, TabStates
  <2>2. CASE u = t
    BY <2>1, <2>2 DEF Launching
  <2>3. CASE u # t
    BY <1>4, <1>5, <2>1 DEF IInv, Launched, Launching
  <2> QED
    BY <2>2, <2>3
<1> QED
  BY <1>8, <1>9, <1>10, <1>11, <1>12, <1>13, <1>14, <1>15, <1>16, <1>17, <1>18, <1>19,
     <1>20 DEF IInv

(* ReportActive: the tab claims what Claude reports, or is stopped because *)
(* another has it.                                                         *)
LEMMA ReportActiveKeeps ==
  ASSUME Overlaps = {}, IInv, NEW t \in Tabs, ReportActive(t)
  PROVE  IInv'
<1>1. PICK c \in Conversations : c = tab[t].runs
  BY DEF ReportActive, IInv, Typed, TabStates
<1> DEFINE g == tab[t].pty
           mine == TerminalOwner(t, g, "active")
           changed == tabOwner[t] # None /\ (tabOwner[t].conv # c \/ tabOwner[t].gen # g)
           own == IF changed THEN ReleaseTab(owner, t) ELSE owner
           entry == [conv |-> c, gen |-> g, via |-> None]
<1>2. tab[t].open /\ t \notin moving /\ UNCHANGED <<active, generation, switching, native, moving>>
  BY DEF ReportActive
<1>3. g \in 1..MaxPty + 1
  BY OwnershipAssumption DEF IInv, Typed, TabStates
<1>4. mine \in Owners /\ mine # None /\ mine.kind = "terminal" /\ mine.by = t /\ mine.gen = g
  BY <1>3, OwnerTypes DEF TerminalOwner, Phases
<1>5. entry \in Holdings /\ entry # None
  BY <1>3, AbsenceAssumption DEF Holdings
<1>6. /\ entry.conv = c /\ entry.gen = g /\ entry.via = None
  OBVIOUS
<1>7. /\ ReleaseTab(owner, t) \in [Conversations -> Owners \cup {None}]
      /\ \A d \in Conversations :
           ReleaseTab(owner, t)[d] = IF Holds(t, d) THEN None ELSE owner[d]
  BY ReleaseTabFrees DEF IInv, Records
<1>8. \A d \in Conversations : Holds(t, d) =>
        tabOwner[t] # None /\ tabOwner[t].conv = d /\ tabOwner[t].gen = owner[d].gen
  BY DEF IInv, Records
<1>9. /\ own \in [Conversations -> Owners \cup {None}]
      /\ \A d \in Conversations : d # c => own[d] = IF Holds(t, d) THEN None ELSE owner[d]
      /\ own[c] = owner[c] \/ (own[c] = None /\ Holds(t, c))
      /\ Holds(t, c) /\ own[c] # None => own[c].gen = g
  <2>1. CASE changed
    BY <1>7, <2>1
  <2>2. CASE ~changed
    BY <1>8, <2>2 DEF IInv, Typed
  <2> QED
    BY <2>1, <2>2
<1>10. CASE /\ own[c] = None \/ SameOwner(own[c], mine)
            /\ owner' = IF own[c] = None THEN [own EXCEPT ![c] = mine] ELSE own
            /\ tabOwner' = [tabOwner EXCEPT ![t] = entry]
            /\ UNCHANGED <<tab, request>>
  <2> HIDE DEF own, mine, entry, g
  <2>1. /\ owner' \in [Conversations -> Owners \cup {None}]
        /\ owner'[c] = IF own[c] = None THEN mine ELSE own[c]
        /\ \A d \in Conversations : d # c => owner'[d] = own[d]
    BY <1>4, <1>9, <1>10
  <2>2. owner'[c] # None /\ owner'[c].kind = "terminal" /\ owner'[c].by = t /\ owner'[c].gen = g
    BY <1>4, <1>10, <2>1 DEF SameOwner
  <2>3. owner[c] = None \/ Holds(t, c)
    BY <1>4, <1>9, <1>10 DEF SameOwner, Holds
  <2>4. \A d \in Conversations : d # c =>
          ~Holds(t, d)' /\ owner'[d] = IF Holds(t, d) THEN None ELSE owner[d]
    BY <1>9, <2>1 DEF Holds
  <2>5. /\ tabOwner' \in [Tabs -> Holdings \cup {None}]
        /\ \A u \in Tabs : u # t => tabOwner'[u] = tabOwner[u]
        /\ tabOwner'[t] # None /\ tabOwner'[t].conv = c /\ tabOwner'[t].gen = g
        /\ tabOwner'[t].via = None
    BY <1>5, <1>6, <1>10 DEF IInv, Typed
  <2>6. Holds(t, c)'
    BY <2>2 DEF Holds
  <2>7. g = tab[t].pty
    BY DEF g
  <2> QED
    BY <1>1, <1>2, <1>10, <2>1, <2>2, <2>3, <2>4, <2>5, <2>6, <2>7, ReportClaimsKeeps
<1>11. CASE /\ own[c] # None /\ ~SameOwner(own[c], mine)
            /\ owner' = ReleaseTab(own, t)
            /\ tabOwner' = [tabOwner EXCEPT ![t] = None]
            /\ tab' = Stopped(t) /\ request' = Disturbed(t)
  <2>1. /\ tab' \in [Tabs -> TabStates] /\ \A u \in Tabs : u # t => tab'[u] = tab[u]
        /\ tab'[t].open = tab[t].open /\ tab'[t].pty = tab[t].pty /\ tab'[t].by = "user"
    BY <1>11, StoppedTab DEF IInv
  <2>2. /\ request' \in [Requests -> RequestRecord]
        /\ \A s \in Requests : Aside(s) /\ (request[s].stale => request'[s].stale)
        /\ \A u \in Tabs : Unconfirmed(u)' <=> Unconfirmed(u)
    BY <1>11, DisturbedKeeps
  <2>3. \A s \in Requests : Adopting(request[s]) => request[s].t # t
    BY <1>2 DEF IInv, Movers, MoverOf, Moves, Adopting
  <2>4. owner' = ReleaseTab(owner, t)
    <3>1. CASE changed
      <4> DEFINE e == tabOwner[t].conv
                 freed == ReleaseTab(owner, t)
      <4>1. own = freed /\ e \in Conversations
        BY <3>1 DEF IInv, Typed, Holdings
      <4>2. freed[e] = None \/ (freed[e] = owner[e] /\ ~Holds(t, e))
        BY <1>7, <4>1
      <4>3. ~SameOwner(freed[e], TerminalOwner(t, tabOwner[t].gen, "active"))
        BY <4>2 DEF SameOwner, TerminalOwner, Holds
      <4>4. ReleaseTab(own, t) = ReleaseOwner(own, e, TerminalOwner(t, tabOwner[t].gen, "active"))
        BY <3>1 DEF ReleaseTab
      <4>5. ReleaseTab(own, t) = own
        BY <4>1, <4>3, <4>4 DEF ReleaseOwner
      <4> QED
        BY <1>11, <4>1, <4>5
    <3>2. CASE ~changed
      BY <1>11, <3>2
    <3> QED
      BY <3>1, <3>2
  <2> HIDE DEF own, mine, entry, g
  <2> QED
    BY <1>2, <1>11, <2>1, <2>2, <2>3, <2>4, TabFreedKeeps
<1> QED
  BY <1>1, <1>10, <1>11 DEF ReportActive

(* Without overlapping requests, every step keeps the invariant.           *)
LEMMA NextKeeps ==
  ASSUME Overlaps = {}, IInv, Next
  PROVE  IInv'
<1>1. ASSUME NEW r \in Requests, NEW c \in Conversations, StartNative(r, c)
      PROVE  IInv'
  BY <1>1, StartRefusedKeeps, StartBeginsKeeps
<1>2. ASSUME NEW r \in Requests, NEW c \in Conversations, RequestSwitch(r, c)
      PROVE  IInv'
  BY <1>2, RequestSwitchKeeps
<1>3. ASSUME NEW r \in Requests, NEW t \in Tabs, RequestAdoption(r, t)
      PROVE  IInv'
  BY <1>3, RequestAdoptionKeeps
<1>4. ASSUME NEW r \in Requests, NEW t \in Tabs, NEW c \in Conversations,
             RequestResume(r, t, c)
      PROVE  IInv'
  BY <1>4, RequestResumeKeeps
<1>5. ASSUME NEW r \in Requests, Continue(r)
      PROVE  IInv'
  <2>1. CASE Spawn(r) \/ StartReturns(r) \/ StartFails(r)
    BY <2>1, SpawnKeeps, StartReturnsKeeps, StartFailsKeeps
  <2>2. CASE \E t \in Tabs : BeginSwitch(r, t)
    BY <2>2, BeginSwitchKeeps
  <2>3. CASE \/ SwitchRefused(r) \/ CommitSwitch(r) \/ SwitchFails(r)
             \/ SwitchRolledBack(r) \/ SwitchAbandoned(r)
    BY <2>3, SwitchRefusedKeeps, CommitSwitchKeeps, SwitchFailsKeeps,
       SwitchRolledBackKeeps, SwitchAbandonedKeeps
  <2>4. CASE \/ AlreadyNative(r) \/ BeginAdoption(r) \/ AdoptionRefused(r)
             \/ StopForAdoption(r)
    BY <2>4, AlreadyNativeKeeps, BeginAdoptionKeeps, AdoptionRefusedKeeps,
       StopForAdoptionKeeps
  <2>5. CASE CommitAdoption(r) \/ AdoptionFails(r) \/ RestoreTerminal(r)
    BY <2>5, CommitAdoptionKeeps, AdoptionFailsKeeps, RestoreTerminalKeeps
  <2>6. CASE ClaimForResume(r) \/ LaunchResume(r) \/ ConfirmResume(r) \/ ResumeFails(r)
    BY <2>6, ClaimForResumeKeeps, LaunchResumeKeeps, ConfirmResumeKeeps,
       ResumeFailsKeeps
  <2> QED
    BY <1>5, <2>1, <2>2, <2>3, <2>4, <2>5, <2>6 DEF Continue
<1>6. ASSUME NEW c \in Conversations, ProcessEnds(c) \/ CloseNative(c)
      PROVE  IInv'
  BY <1>6, ProcessEndsKeeps, CloseNativeKeeps
<1>7. ASSUME NEW t \in Tabs, NEW c \in Conversations,
             LaunchUnnamed(t, c) \/ UserSwitches(t, c)
      PROVE  IInv'
  BY <1>7, LaunchUnnamedKeeps, UserSwitchesKeeps
<1>8. ASSUME NEW t \in Tabs, ClaudeExits(t) \/ ShellExits(t) \/ Report(t) \/ CloseTab(t)
      PROVE  IInv'
  BY <1>8, ClaudeExitsKeeps, ShellExitsKeeps, ReportInactiveKeeps, ReportActiveKeeps,
     CloseTabKeeps DEF Report
<1> QED
  BY <1>1, <1>2, <1>3, <1>4, <1>5, <1>6, <1>7, <1>8 DEF Next

(* It holds before anything runs.                                          *)
LEMMA InitIInv ==
  ASSUME Init
  PROVE  IInv
<1>1. /\ owner = [c \in Conversations |-> None]
      /\ active = [c \in Conversations |-> 0] /\ generation = [c \in Conversations |-> 0]
      /\ switching = {} /\ native = {} /\ moving = {}
      /\ tab = [t \in Tabs |-> [open |-> TRUE, live |-> TRUE, pty |-> 1,
                                runs |-> None, by |-> "user"]]
      /\ tabOwner = [t \in Tabs |-> None]
      /\ request = [r \in Requests |-> Idle]
  BY DEF Init
<1>2. \A r \in Requests : /\ request[r].kind = "none" /\ request[r].pc = "done"
                          /\ request[r] = Idle
  BY <1>1 DEF Idle
<1>3. Typed
  <2>1. [open |-> TRUE, live |-> TRUE, pty |-> 1, runs |-> None, by |-> "user"] \in TabStates
    BY OwnershipAssumption DEF TabStates
  <2>2. 0 \in 0..MaxNative
    BY OwnershipAssumption
  <2> QED
    BY <1>1, <2>1, <2>2, IdleTyped DEF Typed
<1>4. Placed /\ Generations
  BY <1>1, <1>2 DEF Placed, Located, Generations, InFlight
<1>5. Flight /\ OneDriver /\ StartedFirst
  BY <1>2 DEF Flight, FlightOf, OneDriver, Drives, StartedFirst, InFlight
<1>6. Entries /\ Records
  BY <1>1 DEF Entries, Entry, Records, Holds
<1>7. OneMover /\ Movers /\ OneOperation /\ Claims
  BY <1>2 DEF OneMover, Movers, MoverOf, Moves, Adopting, OneOperation, InOperation,
     Claims, ClaimOf, Resuming
<1>8. Launched
  BY <1>1 DEF Launched, Launching
<1> QED
  BY <1>3, <1>4, <1>5, <1>6, <1>7, <1>8 DEF IInv

(* The invariant holds of every behaviour without overlapping requests.    *)
LEMMA AlwaysIInv ==
  ASSUME Overlaps = {}
  PROVE  Spec => []IInv
<1>1. Init => IInv
  BY InitIInv
<1>2. IInv /\ [Next]_vars => IInv'
  <2> SUFFICES ASSUME IInv, [Next]_vars PROVE IInv'
    OBVIOUS
  <2>1. CASE Next
    BY <2>1, NextKeeps
  <2>2. CASE UNCHANGED vars
    BY <2>2 DEF vars, IInv, Typed, Placed, Generations, Flight, FlightOf, OneDriver,
       StartedFirst, Entries, Entry, Driven, Adopted, Records, Holds, OneMover, Movers,
       MoverOf, Busy, OneOperation, Claims, ClaimOf, Launched, Launching, Unconfirmed
  <2> QED
    BY <2>1, <2>2
<1> QED
  BY <1>1, <1>2, PTL DEF Spec

-----------------------------------------------------------------------------
(* What a step does to the owner of an entry.                              *)

(* The conversation keeps its owner, whatever its phase, or has none.      *)
Stays(c) == owner'[c] = None \/ SameOwner(owner'[c], owner[c])

(* Putting back a saved owner changes the phase at most, and a release     *)
(* leaves the owner or none.                                               *)
LEMMA ReturnsKeep ==
  ASSUME NEW own \in [Conversations -> Owners \cup {None}], NEW c \in Conversations,
         NEW d \in Conversations, NEW o
  PROVE  /\ RollbackTransfer(own, d, o)[c] = own[c]
            \/ (own[c] # None /\ SameOwner(RollbackTransfer(own, d, o)[c], own[c]))
         /\ ReleaseOwner(own, d, o)[c] \in {None, own[c]}
  BY DEF RollbackTransfer, ReleaseOwner, SameOwner

LEMMA HandlersLeaveTheEntry ==
  ASSUME IInv, NEW r \in Requests, Continue(r),
         NEW c \in Conversations, active[c] # 0, c \notin switching,
         SameOwner(owner[c], NativeOwner(active[c], "active"))
  PROVE  Stays(c)
<1>1. owner[c] # None /\ SameOwner(owner[c], owner[c])
  BY DEF SameOwner
<1>2. \A t \in Tabs : ~Holds(t, c)
  BY DEF SameOwner, NativeOwner, Holds
<1>3. owner \in [Conversations -> Owners \cup {None}]
  BY DEF IInv, Typed
<1>4. ASSUME UNCHANGED owner
      PROVE  Stays(c)
  BY <1>1, <1>4 DEF Stays
<1>5. ASSUME NEW t \in Tabs, owner' = ReleaseTab(owner, t)
      PROVE  Stays(c)
  BY <1>1, <1>5, ReleaseTabFrees DEF Stays
<1>6. ASSUME NEW d \in Conversations, d # c, owner'[c] = owner[c]
      PROVE  Stays(c)
  BY <1>1, <1>6 DEF Stays
<1>7. ASSUME NEW d \in Conversations, owner[d] # None, NEW q \in Phases,
             owner' = [owner EXCEPT ![d].phase = q]
      PROVE  Stays(c)
  <2>1. CASE d = c
    BY <1>7, <2>1, PhaseChanges DEF Stays, IInv
  <2>2. CASE d # c
    BY <1>1, <1>3, <1>7, <2>2 DEF Stays
  <2> QED
    BY <2>1, <2>2
<1>8. request[r].kind # "none" => request[r].c \in Conversations
  BY DEF IInv, Placed, Located
<1>9. CASE \/ Spawn(r) \/ SwitchRefused(r) \/ SwitchFails(r) \/ AlreadyNative(r)
           \/ AdoptionRefused(r) \/ RestoreTerminal(r) \/ LaunchResume(r)
  BY <1>4, <1>9 DEF Spawn, SwitchRefused, SwitchFails, AlreadyNative, AdoptionRefused,
     RestoreTerminal, LaunchResume
<1>10. CASE StartReturns(r)
  BY <1>7, <1>8, <1>10 DEF StartReturns, SameOwner, Phases
<1>11. CASE StartFails(r)
  <2>1. CASE UNCHANGED owner
    BY <1>4, <2>1
  <2>2. CASE ~UNCHANGED owner
    <3>1. request[r].c \in Conversations /\ owner' = ReleaseNative(owner, request[r].c)
      BY <1>8, <1>11, <2>2 DEF StartFails
    <3> QED
      BY <1>1, <1>3, <3>1, ReturnsKeep DEF ReleaseNative, Stays
  <2> QED
    BY <2>1, <2>2
<1>12. CASE \E t \in Tabs : BeginSwitch(r, t)
  BY <1>7, <1>8, <1>12 DEF BeginSwitch, SameOwner, Phases
<1>13. CASE CommitSwitch(r)
  <2>1. Drives(request[r]) /\ request[r].c \in Conversations
    BY <1>8, <1>13 DEF CommitSwitch, IInv, Flight, FlightOf, InFlight, Drives
  <2>2. request[r].c \in switching
    BY <1>13, <2>1 DEF CommitSwitch, IInv, Flight, FlightOf, Drives
  <2>3. owner'[c] = owner[c]
    BY <1>3, <1>13, <2>1, <2>2 DEF CommitSwitch
  <2> QED
    BY <1>1, <2>3 DEF Stays
<1>14. CASE SwitchRolledBack(r)
  <2>1. request[r].c \in Conversations
        /\ owner' = RollbackTransfer(owner, request[r].c, request[r].saved)
    BY <1>8, <1>14 DEF SwitchRolledBack
  <2> QED
    BY <1>1, <1>3, <2>1, ReturnsKeep DEF Stays
<1>15. CASE SwitchAbandoned(r)
  <2>1. PICK own : own = RollbackTransfer(owner, request[r].c, request[r].saved)
    OBVIOUS
  <2>2. request[r].c \in Conversations
    BY <1>8, <1>15 DEF SwitchAbandoned
  <2>3. own[c] = owner[c] \/ (owner[c] # None /\ SameOwner(own[c], owner[c]))
    BY <1>3, <2>1, <2>2, ReturnsKeep
  <2>4. own \in [Conversations -> Owners \cup {None}]
    <3>1. request[r].saved \in Owners \cup {None}
      BY DEF IInv, Typed, RequestRecord
    <3> QED
      BY <1>3, <2>1, <2>2, <3>1 DEF RollbackTransfer
  <2>5. owner' = own \/ owner' = ReleaseNative(own, request[r].c)
    BY <1>15, <2>1 DEF SwitchAbandoned
  <2>6. owner'[c] \in {None, own[c]}
    BY <2>2, <2>4, <2>5, ReturnsKeep DEF ReleaseNative
  <2> QED
    BY <1>1, <2>3, <2>6 DEF Stays
<1>16. CASE BeginAdoption(r)
  BY <1>7, <1>8, <1>16 DEF BeginAdoption, Phases
<1>17. CASE StopForAdoption(r)
  <2>1. request[r].t \in Tabs
    BY <1>17 DEF StopForAdoption, IInv, Placed, Located
  <2>2. UNCHANGED owner \/ owner' = ReleaseTab(owner, request[r].t)
    BY <1>17 DEF StopForAdoption, StopTab
  <2> QED
    BY <1>4, <1>5, <2>1, <2>2
<1>18. CASE CommitAdoption(r)
  <2>1. Drives(request[r]) /\ request[r].c \in Conversations
    BY <1>8, <1>18 DEF CommitAdoption, InFlight, Drives
  <2>2. request[r].c \in switching
    BY <1>18, <2>1 DEF CommitAdoption, IInv, Flight, FlightOf, Drives
  <2>3. owner'[c] = owner[c]
    BY <1>3, <1>18, <2>1, <2>2 DEF CommitAdoption
  <2> QED
    BY <1>1, <2>3 DEF Stays
<1>19. CASE AdoptionFails(r)
  <2>1. request[r].c \in Conversations
        /\ owner' = RollbackTransfer(owner, request[r].c, request[r].saved)
    BY <1>8, <1>19 DEF AdoptionFails
  <2> QED
    BY <1>1, <1>3, <2>1, ReturnsKeep DEF Stays
<1>20. CASE ClaimForResume(r)
  <2>1. request[r].c \in Conversations /\ owner[request[r].c] = None
    BY <1>8, <1>20 DEF ClaimForResume
  <2>2. owner'[c] = owner[c]
    BY <1>1, <1>3, <1>20, <2>1 DEF ClaimForResume
  <2> QED
    BY <1>1, <2>2 DEF Stays
<1>21. CASE ConfirmResume(r)
  BY <1>7, <1>8, <1>21 DEF ConfirmResume, SameOwner, Phases
<1>22. CASE ResumeFails(r)
  <2>1. request[r].t \in Tabs
    BY <1>22 DEF ResumeFails, IInv, Placed, Located
  <2>2. UNCHANGED owner \/ owner' = ReleaseTab(owner, request[r].t)
    BY <1>22 DEF ResumeFails
  <2> QED
    BY <1>4, <1>5, <2>1, <2>2
<1> QED
  BY <1>9, <1>10, <1>11, <1>12, <1>13, <1>14, <1>15, <1>16, <1>17, <1>18, <1>19, <1>20,
     <1>21, <1>22 DEF Continue

LEMMA StepsLeaveTheEntry ==
  ASSUME IInv, Next,
         NEW c \in Conversations, active[c] # 0, c \notin switching,
         SameOwner(owner[c], NativeOwner(active[c], "active"))
  PROVE  Stays(c)
<1>1. owner[c] # None /\ SameOwner(owner[c], owner[c])
  BY DEF SameOwner
<1>2. \A t \in Tabs : ~Holds(t, c)
  BY DEF SameOwner, NativeOwner, Holds
<1>3. owner \in [Conversations -> Owners \cup {None}]
  BY DEF IInv, Typed
<1>4. ASSUME UNCHANGED owner
      PROVE  Stays(c)
  BY <1>1, <1>4 DEF Stays
<1>5. ASSUME NEW t \in Tabs, owner' = ReleaseTab(owner, t)
      PROVE  Stays(c)
  BY <1>1, <1>5, ReleaseTabFrees DEF Stays
<1>6. ASSUME NEW r \in Requests, NEW d \in Conversations, StartNative(r, d)
      PROVE  Stays(c)
  <2>1. \/ UNCHANGED owner
        \/ owner[d] = None /\ \E o : owner' = [owner EXCEPT ![d] = o]
    BY <1>6 DEF StartNative
  <2>2. owner'[c] = owner[c]
    BY <1>1, <1>3, <2>1
  <2> QED
    BY <1>1, <2>2 DEF Stays
<1>7. ASSUME NEW r \in Requests,
             \/ \E d \in Conversations : RequestSwitch(r, d)
             \/ \E t \in Tabs : RequestAdoption(r, t)
             \/ \E t \in Tabs, d \in Conversations : RequestResume(r, t, d)
      PROVE  Stays(c)
  BY <1>4, <1>7 DEF RequestSwitch, RequestAdoption, RequestResume
<1>8. ASSUME NEW d \in Conversations, ProcessEnds(d) \/ CloseNative(d)
      PROVE  Stays(c)
  <2>1. owner' = ReleaseNative(owner, d)
    BY <1>8 DEF ProcessEnds, CloseNative
  <2> QED
    BY <1>1, <1>3, <2>1, ReturnsKeep DEF ReleaseNative, Stays
<1>9. ASSUME NEW t \in Tabs,
             \/ \E d \in Conversations : LaunchUnnamed(t, d) \/ UserSwitches(t, d)
             \/ ClaudeExits(t)
      PROVE  Stays(c)
  BY <1>4, <1>9 DEF LaunchUnnamed, UserSwitches, ClaudeExits
<1>10. ASSUME NEW t \in Tabs, ShellExits(t) \/ ReportInactive(t) \/ CloseTab(t)
       PROVE  Stays(c)
  <2>1. UNCHANGED owner \/ owner' = ReleaseTab(owner, t)
    BY <1>10 DEF ShellExits, StopTab, ReportInactive, CloseTab
  <2> QED
    BY <1>4, <1>5, <1>10, <2>1
<1>11. ASSUME NEW t \in Tabs, ReportActive(t)
       PROVE  Stays(c)
  <2>1. PICK d : d = tab[t].runs
    OBVIOUS
  <2>2. d \in Conversations
    BY <1>11, <2>1 DEF ReportActive, IInv, Typed, TabStates
  <2>3. PICK mine : mine = TerminalOwner(t, tab[t].pty, "active")
    OBVIOUS
  <2>4. PICK own : own = IF tabOwner[t] # None
                            /\ (tabOwner[t].conv # d \/ tabOwner[t].gen # tab[t].pty)
                         THEN ReleaseTab(owner, t) ELSE owner
    OBVIOUS
  <2>5. own \in [Conversations -> Owners \cup {None}] /\ own[c] = owner[c]
    BY <1>2, <1>3, <1>11, <2>4, ReleaseTabFrees
  <2>6. CASE owner' = IF own[d] = None THEN [own EXCEPT ![d] = mine] ELSE own
    <3>1. owner'[c] = own[c]
      BY <1>1, <2>2, <2>5, <2>6
    <3> QED
      BY <1>1, <2>5, <3>1 DEF Stays
  <2>7. CASE owner' = ReleaseTab(own, t)
    <3>1. owner'[c] \in {None, own[c]}
      <4>1. CASE tabOwner[t] = None
        BY <2>7, <4>1 DEF ReleaseTab
      <4>2. CASE tabOwner[t] # None
        <5>1. tabOwner[t].conv \in Conversations
          BY <1>11, <4>2 DEF IInv, Typed, Holdings
        <5> QED
          BY <2>5, <2>7, <4>2, <5>1, ReturnsKeep DEF ReleaseTab
      <4> QED
        BY <4>1, <4>2
    <3> QED
      BY <1>1, <2>5, <3>1 DEF Stays
  <2> QED
    BY <1>11, <2>1, <2>3, <2>4, <2>6, <2>7 DEF ReportActive
<1>12. ASSUME NEW r \in Requests, Continue(r)
       PROVE  Stays(c)
  BY <1>12, HandlersLeaveTheEntry
<1> QED
  BY <1>6, <1>7, <1>8, <1>9, <1>10, <1>11, <1>12 DEF Next, Report

-----------------------------------------------------------------------------
(* The theorems.                                                           *)

(* The registry, the entries and the tabs keep their types, and every      *)
(* handler is at one of its awaits.                                        *)
THEOREM TypeCorrect ==
  ASSUME Overlaps = {}
  PROVE  Spec => []TypeOK
<1>1. IInv => TypeOK
  <2> SUFFICES ASSUME IInv PROVE TypeOK
    OBVIOUS
  <2>1. ASSUME NEW r \in Requests, request[r] # Idle
        PROVE  /\ request[r].kind \in Kinds /\ request[r].pc \in Places
               /\ request[r].c \in Conversations
    <3>1. Located(request[r]) /\ request[r].kind \in Kinds \cup {"none"}
      BY DEF IInv, Typed, Placed, RequestRecord
    <3> QED
      BY <2>1, <3>1 DEF Located, Kinds, Places
  <2> QED
    BY <2>1 DEF IInv, Typed, TypeOK
<1> QED
  BY <1>1, AlwaysIInv, PTL

(* OneWriter: of the processes the application itself launched, and found  *)
(* their claim in place, one at most appends to a transcript: two tabs     *)
(* would both be the registered owner, and a tab and an SDK process never  *)
(* run while an adoption is under way.                                     *)
THEOREM OneWriterAtATime ==
  ASSUME Overlaps = {}
  PROVE  Spec => []OneWriter
<1>1. IInv => OneWriter
  <2> SUFFICES ASSUME IInv, NEW c \in Conversations
               PROVE  Cardinality(ConfirmedWriters(c)) <= 1
    BY DEF OneWriter
  <2>1. \A t \in Tabs : t \in ConfirmedWriters(c) => Holds(t, c) /\ tab[t].by = "app"
    BY OwnershipAssumption
       DEF ConfirmedWriters, LaunchedWriters, IInv, Launched, Launching
  <2>2. ASSUME None \in ConfirmedWriters(c), NEW t \in Tabs, t \in ConfirmedWriters(c)
        PROVE  FALSE
    <3>1. c \in native
      BY <2>2, OwnershipAssumption DEF ConfirmedWriters, LaunchedWriters
    <3>2. Holds(t, c) /\ tab[t].by = "app"
      BY <2>1, <2>2
    <3>3. Adopted(c)
      BY <3>1, <3>2 DEF IInv, Entries, Entry, Holds, SameOwner, NativeOwner
    <3>4. PICK r \in Requests :
            Drives(request[r]) /\ request[r].kind = "adopt" /\ request[r].c = c
      BY <3>3 DEF Adopted
    <3>5. request[r].pc = "init"
      BY <3>1, <3>4 DEF IInv, Flight, FlightOf, Drives
    <3>6. request[r].t = t /\ tab[t].by = "user"
      BY <3>2, <3>4, <3>5 DEF IInv, Movers, MoverOf, Adopting, SameOwner, Holds
    <3> QED
      BY <3>2, <3>6
  <2>3. \A w \in ConfirmedWriters(c) : w = None \/ w \in Tabs
    BY DEF ConfirmedWriters, LaunchedWriters
  <2>4. \A v, w \in ConfirmedWriters(c) : v = w
    BY <2>1, <2>2, <2>3 DEF Holds
  <2>5. CASE ConfirmedWriters(c) = {}
    BY <2>5, FS_EmptySet
  <2>6. CASE ConfirmedWriters(c) # {}
    <3>1. PICK w : w \in ConfirmedWriters(c)
      BY <2>6
    <3>2. ConfirmedWriters(c) = {w}
      BY <2>4, <3>1
    <3>3. Cardinality({w}) = 1
      BY FS_Singleton
    <3> QED
      BY <3>2, <3>3
  <2> QED
    BY <2>5, <2>6
<1> QED
  BY <1>1, AlwaysIInv, PTL

(* ProcessAndOwnerAgree: when no handler works on a conversation, an SDK   *)
(* process runs exactly when its entry owns it, a terminal owner is what   *)
(* its tab has on record, and a closed tab owns nothing.                   *)
THEOREM OwnersAreTrue ==
  ASSUME Overlaps = {}
  PROVE  Spec => []ProcessAndOwnerAgree
<1>1. IInv => ProcessAndOwnerAgree
  <2> SUFFICES ASSUME IInv, NEW c \in Conversations
               PROVE  /\ (Quiet(c) /\ c \in native) =>
                           /\ active[c] # 0
                           /\ SameOwner(owner[c], NativeOwner(active[c], "active"))
                      /\ (Quiet(c) /\ owner[c] # None) =>
                           IF owner[c].kind = "native"
                           THEN active[c] = owner[c].gen /\ c \in native
                           ELSE LET held == tabOwner[owner[c].by] IN
                                held # None /\ held.conv = c /\ held.gen = owner[c].gen
                      /\ (owner[c] # None /\ owner[c].kind = "terminal") =>
                           tab[owner[c].by].open
    BY DEF ProcessAndOwnerAgree
  <2>1. Entry(c)
    BY DEF IInv, Entries
  <2>2. Quiet(c) => ~Driven(c) /\ ~Adopted(c)
    BY DEF Quiet, Driven, Adopted
  <2>3. owner[c] # None /\ owner[c].kind # "native" =>
          Holds(owner[c].by, c) /\ owner[c].by \in Tabs
    BY DEF IInv, Typed, Owners, Holds
  <2>4. owner[c] # None /\ owner[c].kind # "native" =>
          /\ tab[owner[c].by].open /\ tabOwner[owner[c].by] # None
          /\ tabOwner[owner[c].by].conv = c /\ tabOwner[owner[c].by].gen = owner[c].gen
    BY <2>3 DEF IInv, Records
  <2>5. owner[c] # None /\ owner[c].kind = "native" =>
          active[c] = owner[c].gen /\ active[c] # 0
    <3>1. owner[c] # None /\ owner[c].kind = "native" => owner[c].gen \in 1..MaxNative
      BY DEF IInv, Typed, Owners
    <3> QED
      BY <2>1, <3>1 DEF Entry
  <2> QED
    BY <2>1, <2>2, <2>4, <2>5 DEF Entry
<1> QED
  BY <1>1, AlwaysIInv, PTL

(* EntryKeepsItsConversation: no step of anybody gives the conversation of *)
(* a native entry that is not being switched to another owner: what was    *)
(* begun for an earlier owner finds the entry in its place.                *)
THEOREM EntriesKeepTheirConversation ==
  ASSUME Overlaps = {}
  PROVE  Spec => EntryKeepsItsConversation
<1> DEFINE Keeps(c) ==
      (active[c] # 0 /\ c \notin switching
         /\ SameOwner(owner[c], NativeOwner(active[c], "active")))
      => owner'[c] = None \/ SameOwner(owner'[c], owner[c])
    Steps == \A c \in Conversations : Keeps(c)
<1>1. IInv /\ [Next]_vars => [Steps]_vars
  <2> SUFFICES ASSUME IInv, Next, NEW c \in Conversations PROVE Keeps(c)
    OBVIOUS
  <2> QED
    BY StepsLeaveTheEntry DEF Stays
<1> QED
  BY <1>1, AlwaysIInv, PTL DEF Spec, EntryKeepsItsConversation

=============================================================================
