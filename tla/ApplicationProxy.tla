-------------------------- MODULE ApplicationProxy --------------------------
(***************************************************************************)
(* The owner of the application's proxy routes:                            *)
(* proxy/application-proxy-coordinator.ts.                                 *)
(*                                                                         *)
(* Each scope is one Electron session.  A lease says through which epochs  *)
(* of the scopes its holder works; grants, saves and the reconciliation at *)
(* the start go through one queue, and a save waits until every lease has  *)
(* been returned.  NetworkPreflight composes this module with the holders. *)
(*                                                                         *)
(* A configuration is known by two functions: the route a session gets     *)
(* from it (rules and authentication) and its effective identity, in which *)
(* the application scope also counts what command line tools get.          *)
(***************************************************************************)
EXTENDS Integers, Sequences, FiniteSets

CONSTANTS
    Configs, Default,   \* proxy configurations; the one stored at the start
    Route, Effective,   \* [Configs -> [Scopes -> identity]]
    System,             \* the route of a session before the application sets one
    LeaseIds,           \* names for leases, reused when nobody knows them any more
    None,
    MaxSaves,           \* bound: saves
    MaxEvents           \* bound: events that do not happen to every request: see Event

Scopes == {"application", "conversation"}

\* What a session is known to be, what is noted of one or both sessions, the
\* leases and the work of the queue.
Identities == {Effective[c][s] : c \in Configs, s \in Scopes}
Sessions == {Route[c][s] : c \in Configs, s \in Scopes}
ScopeRecord == [health : {"uninitialized", "unknown", "stable"}, epoch : Nat,
                effective : Identities \cup {None}, session : Sessions \cup {None},
                credentials : Configs \cup {None}]
Tables(R) == [{"application"} -> R] \cup [{"conversation"} -> R] \cup [Scopes -> R]
Key == Tables(Nat)
Lease == [id : LeaseIds, epochs : Key]
WorkRecord == [to : Configs, todo : Seq(Scopes), touched : Seq(Scopes),
               applying : BOOLEAN, back : BOOLEAN]

ASSUME ProxyAssumption ==
    /\ Default \in Configs /\ None \notin Configs \cup Key \cup Lease \cup WorkRecord
    /\ \A c, d \in Configs, s \in Scopes :
          Effective[c][s] = Effective[d][s] => Route[c][s] = Route[d][s]
    /\ {MaxSaves, MaxEvents} \subseteq Nat

VARIABLES
    scope,      \* [Scopes -> what the coordinator knows of the session]
    electron,   \* [Scopes -> the route the session really uses]
    stored,     \* the committed configuration
    queue,      \* operations in order, the first is under way
    work,       \* the save or reconciliation that has passed the wait for leases
    leases,     \* granted and not returned
    epochs,     \* epochs drawn so far
    saves, events

proxyVars == <<scope, electron, stored, queue, work, leases, epochs, saves, events>>

Unknown == [health |-> "unknown", epoch |-> 0, effective |-> None, session |-> None,
            credentials |-> None]

ProxyInit ==
    /\ scope = [s \in Scopes |-> [Unknown EXCEPT !.health = "uninitialized"]]
    /\ electron = [s \in Scopes |-> System]
    /\ stored = Default
    /\ queue = <<[kind |-> "reconcile"]>>
    /\ work = None
    /\ leases = {}
    /\ epochs = 0 /\ saves = 0 /\ events = 0

\* A call that fails, and in NetworkPreflight a caller that is aborted, retries
\* or has something nested, a decision, an invalidation.
Event == events < MaxEvents /\ events' = events + 1

Enqueued(item) == queue' = Append(queue, item)
AtHead(kind) == queue # <<>> /\ Head(queue).kind = kind

-----------------------------------------------------------------------------
(* Leases.                                                                 *)

Stable(s) == scope[s].health = "stable"

\* The epochs a lease on scopes would be granted for: the route's revision.
EpochsOf(scopes) == [s \in scopes |-> scope[s].epoch]

LeaseCurrent(l) ==
    /\ l \in leases
    /\ \A s \in DOMAIN l.epochs : Stable(s) /\ scope[s].epoch = l.epochs[s]

LeasesDrained == leases = {}

-----------------------------------------------------------------------------
(* Saves and the reconciliation.  work.todo are the scopes still to be     *)
(* given the configuration work.to, work.touched those that were begun.    *)

Differs(s, c) ==
    \/ ~Stable(s)
    \/ scope[s].effective # Effective[c][s]
    \/ scope[s].session # Route[c][s]

\* In scopeOrder.
Affected(c) ==
    (IF Differs("application", c) THEN <<"application">> ELSE <<>>)
    \o (IF Differs("conversation", c) THEN <<"conversation">> ELSE <<>>)

\* Windows open and requests are served after initialize() has succeeded.
Initialized == epochs >= Cardinality(Scopes)

Save(c) ==
    /\ Initialized
    /\ saves < MaxSaves
    /\ saves' = saves + 1
    /\ Enqueued([kind |-> "save", to |-> c])
    /\ UNCHANGED <<scope, electron, stored, work, leases, epochs, events>>

\* Writes are not allowed for the moment, or the input is not a configuration.
SaveRefused ==
    /\ work = None /\ AtHead("save")
    /\ Event
    /\ queue' = Tail(queue)
    /\ UNCHANGED <<scope, electron, stored, work, leases, epochs, saves>>

WorkBegins ==
    /\ work = None /\ (AtHead("save") \/ AtHead("reconcile"))
    /\ LeasesDrained
    /\ LET to == IF AtHead("save") THEN Head(queue).to ELSE stored IN
          work' = [to |-> to, todo |-> Affected(to), touched |-> <<>>,
                   applying |-> FALSE, back |-> FALSE]
    /\ UNCHANGED <<scope, electron, stored, queue, leases, epochs, saves, events>>

SessionChanges(s) == ~Stable(s) \/ scope[s].session # Route[work.to][s]

\* The synchronous part of applySource: observers hear of the transition.
ApplyBegins ==
    /\ work # None
    /\ ~work.applying /\ work.todo # <<>>
    /\ LET s == Head(work.todo) IN
       /\ scope' = [scope EXCEPT
              ![s].credentials = IF SessionChanges(s) THEN None ELSE @,
              ![s].health = "unknown"]
       /\ work' = [work EXCEPT !.applying = TRUE,
              !.touched = IF work.back THEN @ ELSE Append(@, s)]
    /\ UNCHANGED <<electron, stored, queue, leases, epochs, saves, events>>

Applied ==
    /\ work # None
    /\ work.applying
    /\ LET s == Head(work.todo) IN
       /\ electron' = [electron EXCEPT ![s] = Route[work.to][s]]
       /\ scope' = [scope EXCEPT ![s] =
              [health |-> "stable", epoch |-> epochs + 1,
               effective |-> Effective[work.to][s], session |-> Route[work.to][s],
               credentials |-> IF @.credentials = None THEN work.to ELSE @.credentials]]
    /\ epochs' = epochs + 1
    /\ work' = [work EXCEPT !.applying = FALSE, !.todo = Tail(@)]
    /\ UNCHANGED <<stored, queue, leases, saves, events>>

Reversed(seq) == [i \in 1 .. Len(seq) |-> seq[Len(seq) + 1 - i]]

\* Faulty: the commit stands outside the try block.
CommitFailureKeeps == None

\* The catch block of save gives every touched scope the stored configuration.
RollbackWork ==
    [to |-> stored, todo |-> Reversed(work.touched), touched |-> work.touched,
     applying |-> FALSE, back |-> TRUE]

CommitFailed == RollbackWork

\* setProxy or closeAllConnections rejects; the first may have taken effect.
ApplyFails ==
    /\ work # None
    /\ work.applying
    /\ Event
    /\ LET s == Head(work.todo) IN
       /\ scope[s].credentials = None     \* else neither call is made
       /\ electron' \in {electron, [electron EXCEPT ![s] = Route[work.to][s]]}
       /\ scope' = [scope EXCEPT ![s] = Unknown]
       /\ IF work.back
          THEN work' = [work EXCEPT !.applying = FALSE, !.todo = Tail(@)] /\ UNCHANGED queue
          ELSE IF AtHead("save")
          THEN work' = RollbackWork /\ UNCHANGED queue
          ELSE work' = None /\ queue' = Tail(queue)
    /\ UNCHANGED <<stored, leases, epochs, saves>>

Committed ==
    /\ work # None
    /\ work.todo = <<>> /\ ~work.back /\ AtHead("save")
    /\ stored' = work.to
    /\ work' = None
    /\ queue' = Tail(queue)
    /\ UNCHANGED <<scope, electron, leases, epochs, saves, events>>

\* The store cannot write the file.
CommitFails ==
    /\ work # None
    /\ work.todo = <<>> /\ ~work.back /\ AtHead("save")
    /\ Event
    /\ work' = CommitFailed
    /\ queue' = IF CommitFailed = None THEN Tail(queue) ELSE queue
    /\ UNCHANGED <<scope, electron, stored, leases, epochs, saves>>

WorkEnds ==
    /\ work # None
    /\ work.todo = <<>> /\ (work.back \/ AtHead("reconcile"))
    /\ work' = None
    /\ queue' = Tail(queue)
    /\ UNCHANGED <<scope, electron, stored, leases, epochs, saves, events>>

-----------------------------------------------------------------------------
\* Those of the steps at which observers hear of a transition.
ProxyPublishes == ApplyBegins \/ Applied \/ ApplyFails
ProxyIsQuiet == WorkBegins \/ Committed \/ CommitFails \/ SaveRefused \/ WorkEnds

ProxyTypeOK ==
    /\ scope \in [Scopes -> ScopeRecord]
    /\ electron \in [Scopes -> Sessions \cup {System}]
    /\ stored \in Configs
    /\ work \in WorkRecord \cup {None}
    /\ leases \in SUBSET Lease
    /\ {epochs, saves, events} \subseteq Nat

(***************************************************************************)
(* Between two operations of the queue a scope that is called stable uses  *)
(* the stored configuration, for its route and for its credentials; any    *)
(* other scope answers no request for credentials.  A save changes two     *)
(* sessions and a file, each of which may fail, and takes them back in the *)
(* other order, which may fail as well.                                    *)
(***************************************************************************)
StableIsStored ==
    work = None =>
        \A s \in Scopes :
            IF Stable(s)
            THEN /\ electron[s] = Route[stored][s]
                 /\ scope[s].effective = Effective[stored][s]
                 /\ Route[scope[s].credentials][s] = Route[stored][s]
            ELSE scope[s].credentials = None
=============================================================================
