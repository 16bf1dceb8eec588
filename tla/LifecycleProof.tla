---------------------------- MODULE LifecycleProof ----------------------------
(***************************************************************************)
(* What TLAPS proves about the lifecycles: of a project's tabs and         *)
(* transcripts, for any number of conversations, tabs, deletions and       *)
(* closures, and of the application, for every number of requests to quit, *)
(* prompts, crashes, hangs and reloads.                                    *)
(***************************************************************************)
EXTENDS ProjectLifecycle, ControlledQuit, SequenceTheorems, TLAPS


Item == Deletion \cup {"launch"}

(* A queue names nobody twice, and a launch only at its head: launches are *)
(* requested in a tab where nothing works.                                 *)
Ordered(q) ==
    /\ \A i, j \in 1 .. Len(q) : q[i] = q[j] => i = j
    /\ \A i \in 1 .. Len(q) : q[i] = "launch" => i = 1

Queues == \A t \in Tab : Ordered(queue[t])

(* The head of an ordered queue leaves. *)
LEMMA TailOrdered ==
    ASSUME NEW q \in Seq(Item), q # <<>>, Ordered(q)
    PROVE  /\ Tail(q) \in Seq(Item)
           /\ Ordered(Tail(q))
           /\ Tail(q) # <<>> => Head(Tail(q)) # "launch"
           /\ Len(Tail(q)) = Len(q) - 1
<1>1. /\ Tail(q) \in Seq(Item) /\ Len(Tail(q)) = Len(q) - 1 /\ Len(q) \in Nat \ {0}
      /\ \A i \in 1 .. Len(Tail(q)) : Tail(q)[i] = q[i + 1]
    OBVIOUS
<1>2. \A i \in 1 .. Len(Tail(q)) : Tail(q)[i] # "launch"
  <2>1. TAKE i \in 1 .. Len(Tail(q))
  <2>2. /\ i + 1 \in 1 .. Len(q) /\ i + 1 # 1
    BY <1>1
  <2> QED BY <1>1, <2>2 DEF Ordered
<1>3. ASSUME NEW i \in 1 .. Len(Tail(q)), NEW j \in 1 .. Len(Tail(q)), Tail(q)[i] = Tail(q)[j]
      PROVE  i = j
  <2>1. i + 1 \in 1 .. Len(q) /\ j + 1 \in 1 .. Len(q)
    BY <1>1
  <2>2. i + 1 = j + 1
    BY <1>1, <1>3, <2>1 DEF Ordered
  <2> QED BY <2>2
<1>4. Tail(q) # <<>> => Head(Tail(q)) # "launch"
    BY <1>1, <1>2
<1>5. Ordered(Tail(q))
    BY <1>2, <1>3 DEF Ordered
<1> QED BY <1>1, <1>4, <1>5

(* A deletion that is not in it joins an ordered queue. *)
LEMMA AppendOrdered ==
    ASSUME NEW q \in Seq(Item), NEW d \in Deletion, Ordered(q),
           \A i \in 1 .. Len(q) : q[i] # d
    PROVE  /\ Append(q, d) \in Seq(Item)
           /\ Ordered(Append(q, d))
           /\ Append(q, d) # <<>>
           /\ Head(Append(q, d)) = "launch" <=> (q # <<>> /\ Head(q) = "launch")
<1>1. /\ Append(q, d) \in Seq(Item) /\ Len(Append(q, d)) = Len(q) + 1 /\ Len(q) \in Nat
      /\ \A i \in 1 .. Len(q) : Append(q, d)[i] = q[i]
      /\ Append(q, d)[Len(q) + 1] = d
    BY DEF Item
<1>2. d # "launch"
    BY LifecycleAssumption
<1>3. Head(Append(q, d)) = "launch" <=> (q # <<>> /\ Head(q) = "launch")
  <2>1. CASE q = <<>>
    BY <1>1, <1>2, <2>1
  <2>2. CASE q # <<>>
    <3>1. Len(q) > 0 /\ 1 \in 1 .. Len(q)
      BY <1>1, <2>2
    <3>2. Head(Append(q, d)) = Append(q, d)[1] /\ Head(q) = q[1] /\ Append(q, d) # <<>>
      BY <1>1, <3>1
    <3> QED BY <1>1, <2>2, <3>1, <3>2
  <2> QED BY <2>1, <2>2
<1>4. Ordered(Append(q, d))
  <2>1. ASSUME NEW i \in 1 .. Len(Append(q, d))
        PROVE  i \in 1 .. Len(q) \/ i = Len(q) + 1
    BY <1>1
  <2>2. ASSUME NEW i \in 1 .. Len(Append(q, d)), Append(q, d)[i] = "launch" PROVE i = 1
    BY <1>1, <1>2, <2>1, <2>2 DEF Ordered
  <2>3. ASSUME NEW i \in 1 .. Len(Append(q, d)), NEW j \in 1 .. Len(Append(q, d)),
               Append(q, d)[i] = Append(q, d)[j]
        PROVE  i = j
    BY <1>1, <2>1, <2>3 DEF Ordered
  <2> QED BY <2>2, <2>3 DEF Ordered
<1>5. Append(q, d) # <<>>
    BY <1>1
<1> QED BY <1>1, <1>3, <1>4, <1>5

(* The operation at the head of t's queue leaves it. *)
LEMMA Leaving ==
    ASSUME TypeOK, Queues, NEW t \in Tab, NEW x \in Item, queue[t] # <<>>, Leave(t, x)
    PROVE  /\ queue' \in [Tab -> Seq(Item)]
           /\ queue'[t] = Tail(queue[t])
           /\ Ordered(queue'[t])
           /\ queue'[t] # <<>> => Head(queue'[t]) # "launch"
           /\ \A s \in Tab \ {t} : queue'[s] = queue[s]
           /\ live' \in [Tab -> BOOLEAN]
           /\ live'[t] => (live[t] /\ Len(queue[t]) > 1)
           /\ \A s \in Tab \ {t} : live'[s] = live[s]
           /\ closure' \in [Closure -> ClosureRecord]
           /\ \A k \in Closure : /\ closure'[k].pc = closure[k].pc
                                 /\ closure'[k].tabs = closure[k].tabs
<1>1. queue[t] \in Seq(Item) /\ Ordered(queue[t])
    BY DEF TypeOK, Queues, Item
<1>2. /\ queue' = [queue EXCEPT ![t] = Tail(@)]
      /\ queue \in [Tab -> Seq(Item)]
    BY DEF Leave, TypeOK, Item
<1>3. /\ queue' \in [Tab -> Seq(Item)] /\ queue'[t] = Tail(queue[t])
      /\ \A s \in Tab \ {t} : queue'[s] = queue[s]
    BY <1>1, <1>2, TailOrdered
<1>4. /\ live' \in [Tab -> BOOLEAN]
      /\ live'[t] => (live[t] /\ Len(queue[t]) > 1)
      /\ \A s \in Tab \ {t} : live'[s] = live[s]
    BY DEF Leave, TypeOK
<1>5. ASSUME NEW k \in Closure
      PROVE  /\ closure'[k] \in ClosureRecord
             /\ closure'[k].pc = closure[k].pc
             /\ closure'[k].tabs = closure[k].tabs
  <2>1. closure'[k] = [closure[k] EXCEPT !.awaits = @ \ {<<t, x>>}]
    BY DEF Leave
  <2>2. closure[k] \in ClosureRecord
    BY DEF TypeOK
  <2> QED BY <2>1, <2>2 DEF ClosureRecord
<1>6. closure' \in [Closure -> ClosureRecord]
  <2>1. closure' = [k \in Closure |-> closure'[k]]
    BY DEF Leave
  <2> QED BY <1>5, <2>1
<1>7. Ordered(Tail(queue[t])) /\ (Tail(queue[t]) # <<>> => Head(Tail(queue[t])) # "launch")
    BY <1>1, TailOrdered
<1> QED BY <1>3, <1>4, <1>5, <1>6, <1>7

-----------------------------------------------------------------------------
(* The types, with the order of the queues. *)

HeadLaunches(q) == q # <<>> /\ Head(q) = "launch"

Types == TypeOK /\ Queues

(* What a closure or an opening does to the closures before it. *)
LEMMA Superseding ==
    ASSUME TypeOK, NEW k \in Closure \cup {None}
    PROVE  /\ SupersededBy(k) \in [Closure -> ClosureRecord]
           /\ \A j \in Closure : /\ SupersededBy(k)[j].pc = closure[j].pc
                                 /\ SupersededBy(k)[j].tabs = closure[j].tabs
                                 /\ j # k => SupersededBy(k)[j] = closure[j]
<1>1. ASSUME NEW j \in Closure
      PROVE  /\ SupersededBy(k)[j] \in ClosureRecord
             /\ SupersededBy(k)[j].pc = closure[j].pc
             /\ SupersededBy(k)[j].tabs = closure[j].tabs
             /\ j # k => SupersededBy(k)[j] = closure[j]
  <2>1. closure[j] \in ClosureRecord
    BY DEF TypeOK
  <2> QED BY <2>1 DEF SupersededBy, ClosureRecord
<1>2. SupersededBy(k) \in [Closure -> ClosureRecord]
  <2>1. SupersededBy(k) = [j \in Closure |-> SupersededBy(k)[j]]
    BY DEF SupersededBy
  <2> QED BY <1>1, <2>1
<1> QED BY <1>1, <1>2

(* Tabs are closed. *)
LEMMA Closing ==
    ASSUME TypeOK, NEW T \in SUBSET Tab, CloseAll(T)
    PROVE  /\ tab' \in [Tab -> TabRecord]
           /\ \A t \in T : tab'[t] = Gone
           /\ \A t \in Tab \ T : tab'[t] = tab[t]
BY DEF TypeOK, CloseAll, Gone, TabRecord

(* What a deletion does to the launches that would run its transcript. *)
LEMMA SupersedingLaunches ==
    ASSUME TypeOK, NEW c \in Conversation
    PROVE  /\ Supersede(c) \in [Tab -> LaunchRecord]
           /\ \A t \in Tab : /\ Supersede(c)[t].pc = launch[t].pc
                             /\ Supersede(c)[t].kind = launch[t].kind
                             /\ Supersede(c)[t].c = launch[t].c
                             /\ Supersede(c)[t].intent = launch[t].intent
                             /\ ~Matches(t, c) => Supersede(c)[t] = launch[t]
                             /\ Matches(t, c) => Supersede(c)[t].superseded
<1>1. ASSUME NEW t \in Tab
      PROVE  /\ Supersede(c)[t] \in LaunchRecord
             /\ Supersede(c)[t].pc = launch[t].pc
             /\ Supersede(c)[t].kind = launch[t].kind
             /\ Supersede(c)[t].c = launch[t].c
             /\ Supersede(c)[t].intent = launch[t].intent
             /\ ~Matches(t, c) => Supersede(c)[t] = launch[t]
             /\ Matches(t, c) => Supersede(c)[t].superseded
  <2>1. launch[t] \in LaunchRecord
    BY DEF TypeOK
  <2>2. Supersede(c)[t] = IF Matches(t, c) THEN [launch[t] EXCEPT !.superseded = TRUE] ELSE launch[t]
    BY DEF Supersede
  <2> HIDE DEF Matches
  <2> QED BY <2>1, <2>2 DEF LaunchRecord
<1>2. Supersede(c) \in [Tab -> LaunchRecord]
  <2>1. Supersede(c) = [t \in Tab |-> Supersede(c)[t]]
    BY DEF Supersede
  <2> QED BY <1>1, <2>1
<1> QED BY <1>1, <1>2

(* The conjuncts of the types, so that a step can be looked at one         *)
(* variable at a time.                                                     *)
TypesAre ==
    /\ transcripts \subseteq Conversation
    /\ stored \in BOOLEAN
    /\ tab \in [Tab -> TabRecord]
    /\ queue \in [Tab -> Seq(Item)]
    /\ live \in [Tab -> BOOLEAN]
    /\ launch \in [Tab -> LaunchRecord]
    /\ deletion \in [Deletion -> DeletionRecord]
    /\ closure \in [Closure -> ClosureRecord]
    /\ \A t \in Tab : launch[t].pc # "idle" <=> HeadLaunches(queue[t])
    /\ \A d \in Deletion : \A e \in Deletion \ {d} :
          deletion[d].c # None => deletion[e].c # deletion[d].c
    /\ closeIntent \in Closure \cup {None}
    /\ Queues

(* ... and that they are those of Types. *)
LEMMA TypesAreTypes == (Types <=> TypesAre) /\ (Types' <=> TypesAre')
BY DEF Types, TypesAre, TypeOK, Item, HeadLaunches

(* A launch is requested. *)
LEMMA RequestLaunchTyped ==
    ASSUME Types, NEW t \in Tab, NEW kind \in Kinds, NEW c \in Conversation \cup {None},
           RequestLaunch(t, kind, c)
    PROVE  Types'
<1> USE TypesAreTypes
<1>1. TypesAre OBVIOUS
<1>2. /\ queue[t] = <<>>
      /\ launch' = [launch EXCEPT ![t] =
           [kind |-> kind, c |-> c, superseded |-> FALSE,
            pc |-> IF kind = "authorized-resume" THEN "authorizing" ELSE "preparing",
            intent |-> kind \in {"continue", "resume"}]]
      /\ queue' = [queue EXCEPT ![t] = <<"launch">>]
      /\ live' = [live EXCEPT ![t] = TRUE]
      /\ UNCHANGED <<transcripts, tab, deletion, closure, stored, closeIntent>>
    BY DEF RequestLaunch, folderVars
<1>3. launch' \in [Tab -> LaunchRecord] /\ launch'[t].pc # "idle"
      /\ (\A s \in Tab \ {t} : launch'[s] = launch[s])
    BY <1>1, <1>2 DEF TypesAre, LaunchRecord
<1>4. <<"launch">> \in Seq(Item) /\ Ordered(<<"launch">>) /\ HeadLaunches(<<"launch">>)
    BY DEF Item, Ordered, HeadLaunches
<1>5. queue' \in [Tab -> Seq(Item)] /\ queue'[t] = <<"launch">>
      /\ (\A s \in Tab \ {t} : queue'[s] = queue[s])
    BY <1>1, <1>2, <1>4 DEF TypesAre
<1>6. live' \in [Tab -> BOOLEAN]
    BY <1>1, <1>2 DEF TypesAre
<1>7. Queues'
    BY <1>1, <1>4, <1>5 DEF TypesAre, Queues
<1>8. \A s \in Tab : launch'[s].pc # "idle" <=> HeadLaunches(queue'[s])
    BY <1>1, <1>3, <1>4, <1>5 DEF TypesAre
<1> QED BY <1>1, <1>2, <1>3, <1>5, <1>6, <1>7, <1>8 DEF TypesAre

(* What a launch leaves in the tab. *)
LEMMA Launched ==
    ASSUME Types, NEW t \in Tab, Launch(t)
    PROVE  \E b \in BOOLEAN, r \in Conversation \cup {None, Unnamed} :
              /\ tab' = [tab EXCEPT ![t].resumed = b, ![t].runs = r]
              /\ b <=> launch[t].kind = "resume"
              /\ r = IF launch[t].c = None THEN Unnamed ELSE launch[t].c
<1>1. launch[t] \in LaunchRecord
    BY DEF Types, TypeOK
<1>2. (IF launch[t].c = None THEN Unnamed ELSE launch[t].c) \in Conversation \cup {None, Unnamed}
    BY <1>1 DEF LaunchRecord
<1>3. (launch[t].kind = "resume") \in BOOLEAN
    OBVIOUS
<1>4. tab' = [tab EXCEPT ![t].resumed = (launch[t].kind = "resume"),
                         ![t].runs = IF launch[t].c = None THEN Unnamed ELSE launch[t].c]
    BY DEF Launch
<1> WITNESS (launch[t].kind = "resume") \in BOOLEAN,
            (IF launch[t].c = None THEN Unnamed ELSE launch[t].c)
               \in Conversation \cup {None, Unnamed}
<1> QED BY <1>4

(* A launch goes on, queued as it was. *)
LEMMA LaunchTyped ==
    ASSUME Types, NEW t \in Tab, RegisterResume(t) \/ Launch(t)
    PROVE  Types'
<1> USE TypesAreTypes
<1>1. TypesAre OBVIOUS
<1>2. /\ launch[t] \in LaunchRecord /\ tab[t] \in TabRecord
      /\ launch[t].pc # "idle"
      /\ UNCHANGED <<transcripts, queue, live, deletion, closure, stored, closeIntent>>
    BY <1>1 DEF TypesAre, RegisterResume, Launch, folderVars
<1>3. /\ launch' \in [Tab -> LaunchRecord] /\ launch'[t].pc # "idle"
      /\ \A s \in Tab \ {t} : launch'[s] = launch[s]
  <2>1. CASE RegisterResume(t)
    <3> DEFINE l == [launch[t] EXCEPT !.pc = "preparing", !.intent = TRUE]
    <3>1. launch' = [launch EXCEPT ![t] = l]
      BY <2>1 DEF RegisterResume
    <3>2. l \in LaunchRecord /\ l.pc # "idle"
      BY <1>2 DEF LaunchRecord
    <3> HIDE DEF l
    <3> QED BY <1>1, <3>1, <3>2 DEF TypesAre
  <2>2. CASE Launch(t)
    <3> DEFINE l == [launch[t] EXCEPT !.pc = "confirming"]
    <3>1. launch' = [launch EXCEPT ![t] = l]
      BY <2>2 DEF Launch
    <3>2. l \in LaunchRecord /\ l.pc # "idle"
      BY <1>2 DEF LaunchRecord
    <3> HIDE DEF l
    <3> QED BY <1>1, <3>1, <3>2 DEF TypesAre
  <2> QED BY <2>1, <2>2
<1>4. tab' \in [Tab -> TabRecord]
  <2>1. CASE RegisterResume(t)
    BY <1>1, <2>1 DEF RegisterResume, TypesAre
  <2>2. CASE Launch(t)
    <3>1. PICK b \in BOOLEAN, r \in Conversation \cup {None, Unnamed} :
             tab' = [tab EXCEPT ![t].resumed = b, ![t].runs = r]
      BY <2>2, Launched
    <3> DEFINE x == [tab[t] EXCEPT !.resumed = b, !.runs = r]
    <3>2. tab' = [tab EXCEPT ![t] = x]
      BY <3>1
    <3>3. x \in TabRecord
      BY <1>2 DEF TabRecord
    <3> HIDE DEF x
    <3> QED BY <1>1, <3>2, <3>3 DEF TypesAre
  <2> QED BY <2>1, <2>2
<1>5. \A s \in Tab : launch'[s].pc # "idle" <=> HeadLaunches(queue'[s])
    BY <1>1, <1>2, <1>3 DEF TypesAre
<1> QED BY <1>1, <1>2, <1>3, <1>4, <1>5 DEF TypesAre, Queues

(* A launch ends, well or badly. *)
LEMMA LaunchEndTyped ==
    ASSUME Types, NEW t \in Tab, ConfirmLaunch(t) \/ LaunchFails(t)
    PROVE  Types'
<1> USE TypesAreTypes
<1>1. TypesAre OBVIOUS
<1>2. /\ launch[t].pc # "idle" /\ launch' = [launch EXCEPT ![t] = NoLaunch]
      /\ Leave(t, "launch")
      /\ UNCHANGED <<transcripts, deletion, stored, closeIntent>>
    BY DEF ConfirmLaunch, LaunchFails, folderVars
<1>3. queue[t] # <<>> /\ "launch" \in Item
    BY <1>1, <1>2 DEF TypesAre, HeadLaunches, Item
<1>4. /\ queue' \in [Tab -> Seq(Item)]
      /\ Ordered(queue'[t])
      /\ ~HeadLaunches(queue'[t])
      /\ \A s \in Tab \ {t} : queue'[s] = queue[s]
      /\ live' \in [Tab -> BOOLEAN]
      /\ closure' \in [Closure -> ClosureRecord]
    BY <1>2, <1>3, Leaving DEF Types, HeadLaunches
<1>5. /\ launch' \in [Tab -> LaunchRecord] /\ launch'[t].pc = "idle"
      /\ \A s \in Tab \ {t} : launch'[s] = launch[s]
    BY <1>1, <1>2 DEF TypesAre, NoLaunch, LaunchRecord
<1>6. tab' \in [Tab -> TabRecord]
  <2> DEFINE x == [tab[t] EXCEPT !.runs = None, !.resumed = FALSE]
  <2>1. tab' = tab \/ tab' = [tab EXCEPT ![t] = x]
    <3>1. tab' = tab \/ tab' = [tab EXCEPT ![t].runs = None, ![t].resumed = FALSE]
      BY DEF ConfirmLaunch, LaunchFails
    <3> QED BY <3>1
  <2>2. tab[t] \in TabRecord
    BY <1>1 DEF TypesAre
  <2>3. x \in TabRecord
    BY <2>2 DEF TabRecord
  <2> HIDE DEF x
  <2> QED BY <1>1, <2>1, <2>3 DEF TypesAre
<1>7. \A s \in Tab : launch'[s].pc # "idle" <=> HeadLaunches(queue'[s])
    BY <1>1, <1>4, <1>5 DEF TypesAre
<1>8. Queues'
    BY <1>1, <1>4 DEF TypesAre, Queues
<1> QED BY <1>1, <1>2, <1>4, <1>5, <1>6, <1>7, <1>8 DEF TypesAre

(* Claude chooses or exits, the folder is opened, a tab is closed. *)
LEMMA TabTyped ==
    ASSUME Types, NEW t \in Tab,
           ClaudeExits(t) \/ (\E c \in Conversation : ClaudeChooses(t, c)) \/ OpenFolder(t) \/ CloseTab(t)
    PROVE  Types'
<1> USE TypesAreTypes
<1>1. TypesAre OBVIOUS
<1>2. UNCHANGED <<transcripts, queue, launch, deletion>>
    BY DEF ClaudeExits, ClaudeChooses, OpenFolder, CloseTab
<1>3. stored' \in BOOLEAN /\ closeIntent' \in Closure \cup {None}
    BY <1>1 DEF TypesAre, ClaudeExits, ClaudeChooses, OpenFolder, CloseTab, folderVars
<1>4. live' \in [Tab -> BOOLEAN]
    BY <1>1 DEF TypesAre, ClaudeExits, ClaudeChooses, OpenFolder, CloseTab
<1>5. closure' \in [Closure -> ClosureRecord]
  <2>1. closeIntent \in Closure \cup {None}
    BY <1>1 DEF TypesAre
  <2>2. closure' = closure \/ closure' = SupersededBy(closeIntent)
    BY DEF ClaudeExits, ClaudeChooses, OpenFolder, CloseTab
  <2> QED BY <1>1, <2>1, <2>2, Superseding DEF TypesAre, Types
<1>6. tab' \in [Tab -> TabRecord]
  <2>1. CASE CloseTab(t)
    BY <2>1, Closing DEF CloseTab, Types
  <2>2. CASE ClaudeExits(t)
    BY <1>1, <2>2 DEF ClaudeExits, TypesAre, TabRecord
  <2>3. CASE \E c \in Conversation : ClaudeChooses(t, c)
    <3>1. PICK c \in Conversation : tab' = [tab EXCEPT ![t].runs = c]
      BY <2>3 DEF ClaudeChooses
    <3> DEFINE x == [tab[t] EXCEPT !.runs = c]
    <3>2. tab' = [tab EXCEPT ![t] = x]
      BY <3>1
    <3>3. tab[t] \in TabRecord
      BY <1>1 DEF TypesAre
    <3>4. x \in TabRecord
      BY <3>3 DEF TabRecord
    <3> HIDE DEF x
    <3> QED BY <1>1, <3>2, <3>4 DEF TypesAre
  <2>4. CASE OpenFolder(t)
    BY <1>1, <2>4 DEF OpenFolder, TypesAre, TabRecord
  <2> QED BY <2>1, <2>2, <2>3, <2>4
<1> QED BY <1>1, <1>2, <1>3, <1>4, <1>5, <1>6 DEF TypesAre, Queues

(* A deletion is requested. *)
LEMMA RequestDeletionTyped ==
    ASSUME Types, NEW d \in Deletion, NEW c \in Conversation, RequestDeletion(d, c)
    PROVE  Types'
<1> USE TypesAreTypes
<1>1. TypesAre OBVIOUS
<1> DEFINE T == {t \in Tab : tab[t].open /\ (Matches(t, c) \/ Owns(t, c))}
<1>2. /\ deletion[d] = NoDeletion
      /\ \A t \in Tab : \A i \in 1..Len(queue[t]) : queue[t][i] # d
      /\ c \in transcripts /\ c \notin Deleting
      /\ deletion' = [deletion EXCEPT ![d] = [c |-> c, waits |-> T]]
      /\ launch' = Supersede(c)
      /\ queue' = [t \in Tab |-> IF t \in T THEN Append(queue[t], d) ELSE queue[t]]
      /\ live' = [t \in Tab |-> t \in T \/ live[t]]
      /\ UNCHANGED <<transcripts, tab, closure, stored, closeIntent>>
    BY DEF RequestDeletion, folderVars
<1>3. T \in SUBSET Tab
    OBVIOUS
<1> HIDE DEF T
<1>4. deletion' \in [Deletion -> DeletionRecord]
    BY <1>1, <1>2, <1>3 DEF TypesAre, DeletionRecord
<1>5. \A e \in Deletion \ {d} : deletion'[e] = deletion[e] /\ deletion[e].c # c
    BY <1>1, <1>2, LifecycleAssumption DEF TypesAre, Deleting
<1>6. deletion'[d].c = c
    BY <1>1, <1>2 DEF TypesAre
<1>7. \A e \in Deletion : \A f \in Deletion \ {e} :
          deletion'[e].c # None => deletion'[f].c # deletion'[e].c
  <2>1. SUFFICES ASSUME NEW e \in Deletion, NEW f \in Deletion \ {e}, deletion'[e].c # None
                 PROVE  deletion'[f].c # deletion'[e].c
    OBVIOUS
  <2>2. CASE e = d
    BY <1>5, <1>6, <2>1, <2>2
  <2>3. CASE f = d
    BY <1>5, <1>6, <2>1, <2>3
  <2>4. CASE e # d /\ f # d
    BY <1>1, <1>5, <2>1, <2>4 DEF TypesAre
  <2> QED BY <2>2, <2>3, <2>4
<1>8. launch' \in [Tab -> LaunchRecord] /\ (\A t \in Tab : launch'[t].pc = launch[t].pc)
    BY <1>2, SupersedingLaunches DEF Types
<1>9. ASSUME NEW t \in Tab
      PROVE  /\ queue'[t] \in Seq(Item) /\ Ordered(queue'[t])
             /\ HeadLaunches(queue'[t]) <=> HeadLaunches(queue[t])
  <2>1. queue[t] \in Seq(Item) /\ Ordered(queue[t])
    BY <1>1 DEF TypesAre, Queues
  <2>2. CASE t \in T
    BY <1>2, <2>1, <2>2, AppendOrdered DEF HeadLaunches
  <2>3. CASE t \notin T
    BY <1>2, <2>1, <2>3
  <2> QED BY <2>2, <2>3
<1>10. queue' \in [Tab -> Seq(Item)] /\ Queues'
  <2>1. queue' = [t \in Tab |-> queue'[t]]
    BY <1>2
  <2> QED BY <1>9, <2>1 DEF Queues
<1>11. \A t \in Tab : launch'[t].pc # "idle" <=> HeadLaunches(queue'[t])
    BY <1>1, <1>8, <1>9 DEF TypesAre
<1>12. live' \in [Tab -> BOOLEAN]
    BY <1>1, <1>2 DEF TypesAre
<1> QED BY <1>1, <1>2, <1>4, <1>7, <1>8, <1>10, <1>11, <1>12 DEF TypesAre

(* A deletion has its turn in a tab, or finds it lost there. *)
LEMMA DeletionTurnTyped ==
    ASSUME Types, NEW d \in Deletion, NEW t \in Tab, DeletionHasTab(d, t) \/ DeletionLostTab(d, t)
    PROVE  Types'
<1> USE TypesAreTypes
<1>1. TypesAre OBVIOUS
<1>2. /\ queue[t] # <<>> /\ Head(queue[t]) = d /\ Leave(t, d) /\ d \in Item /\ d # "launch"
      /\ UNCHANGED <<transcripts, launch, stored, closeIntent>>
    BY LifecycleAssumption DEF DeletionHasTab, DeletionLostTab, folderVars, Item
<1>3. /\ queue' \in [Tab -> Seq(Item)]
      /\ Ordered(queue'[t])
      /\ ~HeadLaunches(queue'[t])
      /\ \A s \in Tab \ {t} : queue'[s] = queue[s]
      /\ live' \in [Tab -> BOOLEAN]
      /\ closure' \in [Closure -> ClosureRecord]
    BY <1>2, Leaving DEF Types, HeadLaunches
<1>4. tab' \in [Tab -> TabRecord]
  <2>1. CASE DeletionHasTab(d, t)
    <3>1. CloseAll({t}) \/ CloseAll({})
      BY <2>1 DEF DeletionHasTab
    <3> QED BY <3>1, Closing DEF Types
  <2>2. CASE DeletionLostTab(d, t)
    BY <1>1, <2>2 DEF DeletionLostTab, TypesAre
  <2> QED BY <2>1, <2>2
<1>5. /\ deletion' \in [Deletion -> DeletionRecord]
      /\ \A e \in Deletion : deletion'[e].c \in {deletion[e].c, None}
  <2> DEFINE x == [deletion[d] EXCEPT !.waits = @ \ {t}]
  <2>1. \/ deletion' = [deletion EXCEPT ![d].waits = @ \ {t}]
        \/ deletion' = [deletion EXCEPT ![d] = NoDeletion]
        \/ deletion' = deletion
    BY DEF DeletionHasTab, DeletionLostTab
  <2>2. \/ deletion' = [deletion EXCEPT ![d] = x]
        \/ deletion' = [deletion EXCEPT ![d] = NoDeletion]
        \/ deletion' = deletion
    BY <2>1
  <2>3. deletion[d] \in DeletionRecord
    BY <1>1 DEF TypesAre
  <2>4. x \in DeletionRecord /\ x.c = deletion[d].c
    BY <2>3 DEF DeletionRecord
  <2>5. NoDeletion \in DeletionRecord /\ NoDeletion.c = None
    BY DEF NoDeletion, DeletionRecord
  <2> HIDE DEF x
  <2> QED BY <1>1, <2>2, <2>4, <2>5 DEF TypesAre
<1>6. \A e \in Deletion : \A f \in Deletion \ {e} :
          deletion'[e].c # None => deletion'[f].c # deletion'[e].c
    BY <1>1, <1>5 DEF TypesAre
<1>7. \A s \in Tab : launch'[s].pc # "idle" <=> HeadLaunches(queue'[s])
    BY <1>1, <1>2, <1>3 DEF TypesAre, HeadLaunches
<1>8. Queues'
    BY <1>1, <1>3 DEF TypesAre, Queues
<1> QED BY <1>1, <1>2, <1>3, <1>4, <1>5, <1>6, <1>7, <1>8 DEF TypesAre

(* A deletion removes the file, or cannot. *)
LEMMA DeleteTranscriptTyped ==
    ASSUME Types, NEW d \in Deletion, DeleteTranscript(d)
    PROVE  Types'
<1> USE TypesAreTypes
<1>1. TypesAre OBVIOUS
<1>2. /\ transcripts' \in {transcripts, transcripts \ {deletion[d].c}}
      /\ deletion' = [deletion EXCEPT ![d] = NoDeletion]
      /\ UNCHANGED <<tab, queue, live, launch, closure, stored, closeIntent>>
    BY DEF DeleteTranscript, folderVars
<1>3. /\ deletion' \in [Deletion -> DeletionRecord]
      /\ \A e \in Deletion : deletion'[e].c \in {deletion[e].c, None}
    BY <1>1, <1>2 DEF TypesAre, DeletionRecord, NoDeletion
<1>4. \A e \in Deletion : \A f \in Deletion \ {e} :
          deletion'[e].c # None => deletion'[f].c # deletion'[e].c
    BY <1>1, <1>3 DEF TypesAre
<1> QED BY <1>1, <1>2, <1>3, <1>4 DEF TypesAre, Queues

(* The steps of a closure. *)
LEMMA ClosureTyped ==
    ASSUME Types, NEW k \in Closure,
           (\E kind \in {"close", "forget"} : RequestClosure(k, kind)) \/ ClosureGoesOn(k)
    PROVE  Types'
<1> USE TypesAreTypes
<1>1. TypesAre OBVIOUS
<1>2. UNCHANGED <<transcripts, queue, launch, deletion>>
    BY DEF RequestClosure, ClosureGoesOn, ClosureWaited, ClosureTakesEffect, ClosureFails
<1>3. stored' \in BOOLEAN /\ closeIntent' \in Closure \cup {None}
    BY <1>1 DEF TypesAre, RequestClosure, ClosureGoesOn, ClosureWaited, ClosureTakesEffect,
                ClosureFails, folderVars
<1>4. live' \in [Tab -> BOOLEAN]
    BY <1>1 DEF TypesAre, RequestClosure, ClosureGoesOn, ClosureWaited, ClosureTakesEffect, ClosureFails
<1>5. closure' \in [Closure -> ClosureRecord]
  <2>1. CASE \E kind \in {"close", "forget"} : RequestClosure(k, kind)
    <3>1. PICK kind \in {"close", "forget"} : RequestClosure(k, kind)
      BY <2>1
    <3> DEFINE T == {t \in Tab : tab[t].open}
               A == UNION {{<<t, queue[t][i]>> : i \in 1..Len(queue[t])} : t \in T}
               n == [kind |-> kind, tabs |-> T, pc |-> "waiting", superseded |-> FALSE, awaits |-> A]
    <3>2. closure' = [SupersededBy(closeIntent) EXCEPT ![k] = n]
      BY <3>1 DEF RequestClosure
    <3>3. A \subseteq Tab \X Item
      <4>1. SUFFICES ASSUME NEW t \in T, NEW i \in 1 .. Len(queue[t])
                     PROVE  queue[t][i] \in Item
        OBVIOUS
      <4>2. queue[t] \in Seq(Item)
        BY <1>1 DEF TypesAre
      <4> QED BY <4>2
    <3>4. T \subseteq Tab
      OBVIOUS
    <3> HIDE DEF T, A
    <3>5. n \in ClosureRecord
      BY <3>3, <3>4 DEF ClosureRecord, Item
    <3>6. SupersededBy(closeIntent) \in [Closure -> ClosureRecord]
      BY <1>1, Superseding DEF TypesAre, Types
    <3> HIDE DEF n
    <3> QED BY <3>2, <3>5, <3>6
  <2>2. CASE ClosureGoesOn(k)
    <3>1. closure[k] \in ClosureRecord
      BY <1>1 DEF TypesAre
    <3>2. NoClosure \in ClosureRecord
      BY DEF NoClosure, ClosureRecord
    <3>3. [closure[k] EXCEPT !.pc = "terminating"] \in ClosureRecord
      BY <3>1 DEF ClosureRecord
    <3>4. \/ closure' = [closure EXCEPT ![k] = [closure[k] EXCEPT !.pc = "terminating"]]
          \/ closure' = [closure EXCEPT ![k] = NoClosure]
      <4>1. \/ closure' = [closure EXCEPT ![k].pc = "terminating"]
            \/ closure' = [closure EXCEPT ![k] = NoClosure]
        BY <2>2 DEF ClosureGoesOn, ClosureWaited, ClosureTakesEffect, ClosureFails
      <4> QED BY <1>1, <4>1 DEF TypesAre
    <3> QED BY <1>1, <3>2, <3>3, <3>4 DEF TypesAre
  <2> QED BY <2>1, <2>2
<1>6. tab' \in [Tab -> TabRecord]
  <2>1. tab' = tab \/ CloseAll(closure[k].tabs)
    BY DEF RequestClosure, ClosureGoesOn, ClosureWaited, ClosureTakesEffect, ClosureFails
  <2>2. closure[k].tabs \in SUBSET Tab
    BY <1>1 DEF TypesAre, ClosureRecord
  <2> QED BY <1>1, <2>1, <2>2, Closing DEF TypesAre, Types
<1> QED BY <1>1, <1>2, <1>3, <1>4, <1>5, <1>6 DEF TypesAre, Queues

(* Every step keeps the types and the order of the queues. *)
LEMMA TypesInductive == (Types /\ [Next]_vars) => Types'
<1> SUFFICES ASSUME Types, [Next]_vars PROVE Types'
    OBVIOUS
<1>1. ASSUME NEW t \in Tab, NEW kind \in Kinds, NEW c \in Conversation \cup {None},
             RequestLaunch(t, kind, c)
      PROVE  Types'
    BY <1>1, RequestLaunchTyped
<1>2. ASSUME NEW t \in Tab, LaunchGoesOn(t) PROVE Types'
    BY <1>2, LaunchTyped, LaunchEndTyped DEF LaunchGoesOn
<1>3. ASSUME NEW t \in Tab,
             ClaudeExits(t) \/ (\E c \in Conversation : ClaudeChooses(t, c)) \/ OpenFolder(t)
                            \/ CloseTab(t)
      PROVE  Types'
    BY <1>3, TabTyped
<1>4. ASSUME NEW d \in Deletion, NEW c \in Conversation, RequestDeletion(d, c) PROVE Types'
    BY <1>4, RequestDeletionTyped
<1>5. ASSUME NEW d \in Deletion, DeletionGoesOn(d) PROVE Types'
    BY <1>5, DeletionTurnTyped, DeleteTranscriptTyped DEF DeletionGoesOn
<1>6. ASSUME NEW k \in Closure,
             (\E kind \in {"close", "forget"} : RequestClosure(k, kind)) \/ ClosureGoesOn(k)
      PROVE  Types'
    BY <1>6, ClosureTyped
<1>7. CASE UNCHANGED vars
    BY <1>7, TypesAreTypes DEF vars, TypesAre, Queues
<1> QED BY <1>1, <1>2, <1>3, <1>4, <1>5, <1>6, <1>7 DEF Next

(* The initial state is typed. *)
LEMMA InitTyped == Init => Types
<1> SUFFICES ASSUME Init PROVE Types
    OBVIOUS
<1>1. <<>> \in Seq(Item) /\ Ordered(<<>>) /\ ~HeadLaunches(<<>>)
    BY DEF Ordered, HeadLaunches
<1>2. NoLaunch \in LaunchRecord /\ NoLaunch.pc = "idle"
    BY DEF NoLaunch, LaunchRecord
<1>3. NoDeletion \in DeletionRecord /\ NoDeletion.c = None
    BY DEF NoDeletion, DeletionRecord
<1>4. NoClosure \in ClosureRecord
    BY DEF NoClosure, ClosureRecord
<1>5. tab \in [Tab -> TabRecord]
    BY DEF Init, TabRecord
<1>6. /\ queue \in [Tab -> Seq(Item)] /\ Queues
      /\ \A t \in Tab : launch[t].pc # "idle" <=> HeadLaunches(queue[t])
    BY <1>1, <1>2 DEF Init, Queues
<1> QED BY <1>2, <1>3, <1>4, <1>5, <1>6, TypesAreTypes DEF Init, TypesAre

(***************************************************************************)
(* The types, for every instance: every launch that works in a tab is at   *)
(* the head of the tab's queue, and no two deletions are of one transcript.*)
(***************************************************************************)
THEOREM TypeCorrect == Spec => []TypeOK
<1>1. Types => TypeOK
    BY DEF Types
<1> QED BY <1>1, InitTyped, TypesInductive, PTL DEF Spec

-----------------------------------------------------------------------------
(* Tabs and the folder.  A tab where an operation is entitled to work is   *)
(* open, so nothing is launched in a closed one; and a closure that may    *)
(* still take effect has captured every tab that is open.                  *)

Tabs ==
    \A t \in Tab : /\ live[t] => tab[t].open
                   /\ ~tab[t].open => (tab[t].runs = None /\ ~tab[t].resumed)

Listed == \A t \in Tab : tab[t].open => stored

Captured ==
    closeIntent # None =>
        /\ lastWord = closeIntent
        /\ \A t \in Tab : tab[t].open => t \in closure[closeIntent].tabs

Accounted == Types /\ Tabs /\ Listed /\ Captured

(* What happens to the tab where a launch works, or Claude.                *)
LEMMA WorkInTab ==
    ASSUME Types, NEW t \in Tab,
           LaunchGoesOn(t) \/ ClaudeExits(t) \/ (\E c \in Conversation : ClaudeChooses(t, c))
    PROVE  /\ \A s \in Tab : tab'[s].open = tab[s].open
           /\ \A s \in Tab \ {t} : tab'[s] = tab[s]
           /\ \/ tab'[t] = tab[t]
              \/ tab'[t].runs = None /\ ~tab'[t].resumed
              \/ ClaudeChooses(t, tab'[t].runs) /\ tab'[t].resumed = tab[t].resumed
              \/ Launch(t)
<1> USE TypesAreTypes
<1>1. tab \in [Tab -> TabRecord] /\ tab[t] \in TabRecord
    BY DEF TypesAre
<1>2. CASE tab' = tab
    BY <1>2
<1>3. CASE tab' = [tab EXCEPT ![t].runs = None, ![t].resumed = FALSE]
    BY <1>1, <1>3 DEF TabRecord
<1>4. CASE \E c \in Conversation : ClaudeChooses(t, c)
  <2>1. PICK c \in Conversation : ClaudeChooses(t, c)
    BY <1>4
  <2>2. tab' = [tab EXCEPT ![t].runs = c]
    BY <2>1 DEF ClaudeChooses
  <2>3. /\ tab'[t].open = tab[t].open /\ tab'[t].runs = c /\ tab'[t].resumed = tab[t].resumed
        /\ \A s \in Tab \ {t} : tab'[s] = tab[s]
    BY <1>1, <2>2 DEF TabRecord
  <2>4. ClaudeChooses(t, tab'[t].runs)
    BY <2>1, <2>3
  <2> QED BY <2>3, <2>4
<1>5. CASE Launch(t)
  <2>1. PICK b \in BOOLEAN, r \in Conversation \cup {None, Unnamed} :
           tab' = [tab EXCEPT ![t].resumed = b, ![t].runs = r]
    BY <1>5, Launched
  <2>2. tab'[t].open = tab[t].open /\ (\A s \in Tab \ {t} : tab'[s] = tab[s])
    BY <1>1, <2>1 DEF TabRecord
  <2> QED BY <1>5, <2>2
<1>6. \/ tab' = tab
      \/ tab' = [tab EXCEPT ![t].runs = None, ![t].resumed = FALSE]
      \/ \E c \in Conversation : ClaudeChooses(t, c)
      \/ Launch(t)
  <2>1. CASE LaunchGoesOn(t)
    BY <2>1 DEF LaunchGoesOn, RegisterResume, ConfirmLaunch, LaunchFails
  <2>2. CASE ClaudeExits(t)
    BY <2>2 DEF ClaudeExits
  <2>3. CASE \E c \in Conversation : ClaudeChooses(t, c)
    BY <2>3
  <2> QED BY <2>1, <2>2, <2>3
<1> QED BY <1>2, <1>3, <1>4, <1>5, <1>6

(* Whoever leaves a queue leaves nobody entitled that was not before, and  *)
(* the closures have captured what they had.                               *)
LEMMA LeavingLess ==
    ASSUME Types, NEW t \in Tab, NEW x \in Item, queue[t] # <<>>, Leave(t, x)
    PROVE  /\ \A s \in Tab : live'[s] => live[s]
           /\ live'[t] => Len(queue[t]) > 1
           /\ \A k \in Closure : /\ closure'[k].tabs = closure[k].tabs
                                 /\ closure'[k].pc = closure[k].pc
BY Leaving DEF Types

(* A launch that works has its turn. *)
LEMMA LaunchAtHead ==
    ASSUME Types, NEW t \in Tab, launch[t].pc # "idle"
    PROVE  queue[t] # <<>> /\ Head(queue[t]) = "launch" /\ "launch" \in Item
BY TypesAreTypes DEF TypesAre, HeadLaunches, Item

(* The deletion that leaves a tab to nobody else was alone in its queue.   *)
LEMMA LastIsAlone ==
    ASSUME Types, NEW t \in Tab, NEW d \in Deletion,
           queue[t] # <<>>, Head(queue[t]) = d, Current(t, d)
    PROVE  Len(queue[t]) = 1
<1>1. queue[t] \in Seq(Item) /\ Ordered(queue[t])
    BY TypesAreTypes DEF TypesAre, Queues
<1>2. /\ Len(queue[t]) \in Nat /\ Len(queue[t]) > 0
      /\ queue[t][1] = d /\ queue[t][Len(queue[t])] = d
    BY <1>1 DEF Current
<1>3. 1 \in 1 .. Len(queue[t]) /\ Len(queue[t]) \in 1 .. Len(queue[t])
    BY <1>2
<1>4. 1 = Len(queue[t])
    BY <1>1, <1>2, <1>3 DEF Ordered
<1> QED BY <1>4

(* Every step keeps account of the tabs. *)
LEMMA AccountedInductive == (Accounted /\ [Next]_vars) => Accounted'
<1> SUFFICES ASSUME Accounted, [Next]_vars PROVE Accounted'
    OBVIOUS
<1> USE DEF Accounted
<1>1. Types'
    BY TypesInductive
<1>2. TypesAre /\ TypesAre'
    BY <1>1, TypesAreTypes
<1> DEFINE Rest == Tabs /\ Listed /\ Captured
<1>3. ASSUME NEW t \in Tab, NEW kind \in Kinds, NEW c \in Conversation \cup {None},
             RequestLaunch(t, kind, c)
      PROVE  Rest'
  <2>1. /\ tab[t].open /\ live' = [live EXCEPT ![t] = TRUE]
        /\ UNCHANGED <<tab, closure, stored, closeIntent, lastWord>>
    BY <1>3 DEF RequestLaunch, folderVars
  <2>2. Tabs'
    BY <1>2, <2>1 DEF Tabs, TypesAre
  <2> QED BY <2>1, <2>2 DEF Listed, Captured
<1>4. ASSUME NEW t \in Tab,
             LaunchGoesOn(t) \/ ClaudeExits(t) \/ (\E c \in Conversation : ClaudeChooses(t, c))
      PROVE  Rest'
  <2>1. /\ UNCHANGED <<stored, closeIntent, lastWord>>
        /\ \/ UNCHANGED <<live, closure>>
           \/ launch[t].pc # "idle" /\ Leave(t, "launch")
    BY <1>4 DEF LaunchGoesOn, RegisterResume, Launch, ConfirmLaunch, LaunchFails, ClaudeExits,
                ClaudeChooses, folderVars
  <2>2. /\ \A s \in Tab : live'[s] => live[s]
        /\ \A k \in Closure : closure'[k].tabs = closure[k].tabs
    BY <2>1, LeavingLess, LaunchAtHead
  <2>3. /\ \A s \in Tab : tab'[s].open = tab[s].open
        /\ \A s \in Tab \ {t} : tab'[s] = tab[s]
        /\ \/ tab'[t] = tab[t]
           \/ tab'[t].runs = None /\ ~tab'[t].resumed
           \/ ClaudeChooses(t, tab'[t].runs)
           \/ Launch(t)
    BY <1>4, WorkInTab
  <2>4. ClaudeChooses(t, tab'[t].runs) => tab[t].open
    BY LifecycleAssumption DEF ClaudeChooses, Tabs
  <2>5. Launch(t) => tab[t].open
    BY DEF Launch, Current, Tabs
  <2>6. Tabs'
    BY <2>2, <2>3, <2>4, <2>5 DEF Tabs
  <2>7. Listed'
    BY <2>1, <2>3 DEF Listed
  <2>8. Captured'
    BY <1>2, <2>1, <2>2, <2>3 DEF Captured, TypesAre
  <2> QED BY <2>6, <2>7, <2>8
<1>5. ASSUME NEW t \in Tab, OpenFolder(t) PROVE Rest'
  <2>1. /\ tab' = [tab EXCEPT ![t].open = TRUE]
        /\ stored' = TRUE /\ closeIntent' = None /\ live' = live
    BY <1>5 DEF OpenFolder
  <2>2. /\ \A s \in Tab \ {t} : tab'[s] = tab[s]
        /\ tab'[t].open
    BY <1>2, <2>1 DEF TypesAre, TabRecord
  <2>3. Tabs'
    BY <2>1, <2>2 DEF Tabs
  <2> QED BY <2>1, <2>3 DEF Listed, Captured
<1>6. ASSUME NEW t \in Tab, CloseTab(t) PROVE Rest'
  <2>1. /\ CloseAll({t}) /\ live' = [live EXCEPT ![t] = FALSE]
        /\ UNCHANGED <<closure, stored, closeIntent, lastWord>>
    BY <1>6 DEF CloseTab, folderVars
  <2>2. tab'[t] = Gone /\ (\A s \in Tab \ {t} : tab'[s] = tab[s])
    BY <2>1, Closing DEF Types
  <2>3. Gone.open = FALSE /\ Gone.runs = None /\ Gone.resumed = FALSE
    BY DEF Gone
  <2>4. Tabs'
    BY <1>2, <2>1, <2>2, <2>3 DEF Tabs, TypesAre
  <2>5. \A s \in Tab : tab'[s].open => tab[s].open
    BY <2>2, <2>3
  <2> QED BY <2>1, <2>4, <2>5 DEF Listed, Captured
<1>7. ASSUME NEW d \in Deletion, NEW c \in Conversation, RequestDeletion(d, c) PROVE Rest'
  <2> DEFINE T == {t \in Tab : tab[t].open /\ (Matches(t, c) \/ Owns(t, c))}
  <2>1. /\ live' = [t \in Tab |-> t \in T \/ live[t]]
        /\ UNCHANGED <<tab, closure, stored, closeIntent, lastWord>>
    BY <1>7 DEF RequestDeletion, folderVars
  <2>2. \A t \in T : tab[t].open
    OBVIOUS
  <2> HIDE DEF T
  <2>3. Tabs'
    BY <2>1, <2>2 DEF Tabs
  <2> QED BY <2>1, <2>3 DEF Listed, Captured
<1>8. ASSUME NEW d \in Deletion, NEW t \in Tab, DeletionHasTab(d, t) \/ DeletionLostTab(d, t)
      PROVE  Rest'
  <2>1. /\ queue[t] # <<>> /\ Head(queue[t]) = d /\ d \in Item
        /\ Leave(t, d)
        /\ UNCHANGED <<stored, closeIntent, lastWord>>
    BY <1>8 DEF DeletionHasTab, DeletionLostTab, folderVars, Item
  <2>2. /\ \A s \in Tab : live'[s] => live[s]
        /\ live'[t] => Len(queue[t]) > 1
        /\ \A k \in Closure : closure'[k].tabs = closure[k].tabs
    BY <2>1, LeavingLess
  <2>3. \/ tab' = tab
        \/ CloseAll({t}) /\ Current(t, d)
        \/ CloseAll({})
    BY <1>8 DEF DeletionHasTab, DeletionLostTab
  <2>4. \/ tab' = tab
        \/ tab'[t] = Gone /\ Current(t, d) /\ (\A s \in Tab \ {t} : tab'[s] = tab[s])
    <3>1. CASE CloseAll({t}) /\ Current(t, d)
      BY <3>1, Closing DEF Types
    <3>2. CASE CloseAll({})
      <4>1. tab' \in [Tab -> TabRecord] /\ (\A s \in Tab \ {} : tab'[s] = tab[s])
        BY <3>2, Closing DEF Types
      <4> QED BY <1>2, <4>1 DEF TypesAre
    <3> QED BY <2>3, <3>1, <3>2
  <2>5. Current(t, d) => ~live'[t]
    BY <2>1, <2>2, LastIsAlone
  <2>6. Gone.open = FALSE /\ Gone.runs = None /\ Gone.resumed = FALSE
    BY DEF Gone
  <2>7. Tabs'
    <3>1. CASE tab' = tab
      BY <2>2, <3>1 DEF Tabs
    <3>2. CASE tab'[t] = Gone /\ Current(t, d) /\ (\A s \in Tab \ {t} : tab'[s] = tab[s])
      BY <2>2, <2>5, <2>6, <3>2 DEF Tabs
    <3> QED BY <2>4, <3>1, <3>2
  <2>8. \A s \in Tab : tab'[s].open => tab[s].open
    BY <2>4, <2>6
  <2>9. Listed'
    BY <2>1, <2>8 DEF Listed
  <2>10. Captured'
    BY <1>2, <2>1, <2>2, <2>8 DEF Captured, TypesAre
  <2> QED BY <2>7, <2>9, <2>10
<1>9. ASSUME NEW d \in Deletion, DeleteTranscript(d) PROVE Rest'
  <2>1. UNCHANGED <<tab, live, closure, stored, closeIntent, lastWord>>
    BY <1>9 DEF DeleteTranscript, folderVars
  <2> QED BY <2>1 DEF Tabs, Listed, Captured
<1>10. ASSUME NEW k \in Closure, NEW kind \in {"close", "forget"}, RequestClosure(k, kind)
       PROVE  Rest'
  <2> DEFINE T == {t \in Tab : tab[t].open}
             A == UNION {{<<t, queue[t][i]>> : i \in 1..Len(queue[t])} : t \in T}
             n == [kind |-> kind, tabs |-> T, pc |-> "waiting", superseded |-> FALSE, awaits |-> A]
  <2>1. /\ closure' = [SupersededBy(closeIntent) EXCEPT ![k] = n]
        /\ live' = [t \in Tab |-> t \notin T /\ live[t]]
        /\ closeIntent' = k /\ lastWord' = k
        /\ UNCHANGED <<stored, tab>>
    BY <1>10 DEF RequestClosure
  <2>2. n.tabs = T /\ (\A t \in Tab : tab[t].open => t \in T)
    OBVIOUS
  <2> HIDE DEF A, n, T
  <2>3. closure'[k] = n
    BY <1>2, <2>1, Superseding DEF TypesAre, Types
  <2>4. Tabs'
    BY <2>1 DEF Tabs
  <2>5. Captured'
    BY <2>1, <2>2, <2>3 DEF Captured
  <2> QED BY <2>1, <2>4, <2>5 DEF Listed
<1>11. ASSUME NEW k \in Closure, ClosureWaited(k) \/ ClosureFails(k) PROVE Rest'
  <2>1. /\ UNCHANGED <<tab, live, stored, lastWord>>
        /\ closeIntent' \in {closeIntent, None}
        /\ \/ closure' = [closure EXCEPT ![k].pc = "terminating"]
           \/ closure' = [closure EXCEPT ![k] = NoClosure] /\ closeIntent' # k
    BY <1>11, LifecycleAssumption DEF ClosureWaited, ClosureFails, folderVars
  <2>2. \A j \in Closure : j = closeIntent' => closure'[j].tabs = closure[j].tabs
    BY <1>2, <2>1 DEF TypesAre, ClosureRecord
  <2>3. Captured'
    BY <1>2, <2>1, <2>2 DEF Captured, TypesAre
  <2> QED BY <2>1, <2>3 DEF Tabs, Listed
<1>12. ASSUME NEW k \in Closure, ClosureTakesEffect(k) PROVE Rest'
  <2> DEFINE T == closure[k].tabs
  <2>1. /\ closeIntent = k /\ CloseAll(T)
        /\ live' = [t \in Tab |-> t \notin T /\ live[t]]
        /\ closeIntent' = None
    BY <1>12 DEF ClosureTakesEffect, OwnsClosure
  <2>2. closure[k] \in ClosureRecord /\ T \in SUBSET Tab
    BY <1>2 DEF TypesAre, ClosureRecord
  <2>3. (\A t \in T : tab'[t] = Gone) /\ (\A t \in Tab \ T : tab'[t] = tab[t])
    BY <2>1, <2>2, Closing DEF Types
  <2>4. \A t \in Tab : tab[t].open => t \in T
    BY <2>1, LifecycleAssumption DEF Captured
  <2> HIDE DEF T
  <2>5. Gone.open = FALSE /\ Gone.runs = None /\ Gone.resumed = FALSE
    BY DEF Gone
  <2>6. \A t \in Tab : ~tab'[t].open
    BY <1>2, <2>3, <2>4, <2>5 DEF TypesAre, TabRecord
  <2>7. Tabs'
    BY <2>1, <2>3, <2>4, <2>5 DEF Tabs
  <2> QED BY <2>1, <2>6, <2>7 DEF Listed, Captured
<1>13. ASSUME UNCHANGED vars PROVE Rest'
    BY <1>13 DEF vars, Tabs, Listed, Captured
<1> HIDE DEF Rest
<1>14. Rest'
    BY <1>3, <1>4, <1>5, <1>6, <1>7, <1>8, <1>9, <1>10, <1>11, <1>12, <1>13
    DEF Next, DeletionGoesOn, ClosureGoesOn
<1> QED BY <1>1, <1>14 DEF Rest

(* Initially every tab is open, and the folder in the list. *)
LEMMA InitAccounted == Init => Accounted
BY InitTyped DEF Init, Accounted, Tabs, Listed, Captured

(***************************************************************************)
(* TabsAreAccountedFor, for every instance: nothing runs in a tab that is  *)
(* closed, and a folder that has tabs is in the list.                      *)
(***************************************************************************)
THEOREM TabsAccounted == Spec => []TabsAreAccountedFor
<1>1. Accounted => TabsAreAccountedFor
    BY DEF Accounted, Tabs, Listed, TabsAreAccountedFor
<1> QED BY <1>1, InitAccounted, AccountedInductive, PTL DEF Spec

(***************************************************************************)
(* LastWordCounts, for every instance: a closure that takes effect is what *)
(* the user asked of the folder last.                                      *)
(***************************************************************************)
THEOREM ClosuresAreWanted == Spec => LastWordCounts
<1> DEFINE Wanted ==
        \A k \in Closure :
            (closure[k].pc = "terminating" /\ closure'[k].pc = "idle" /\ tab' # tab)
            => lastWord = k
<1>1. Accounted /\ [Next]_vars => [Wanted]_vars
  <2> SUFFICES ASSUME Accounted, Next, NEW k \in Closure,
                      closure[k].pc = "terminating", closure'[k].pc = "idle", tab' # tab
               PROVE  lastWord = k
    BY DEF vars
  <2>1. Types /\ TypesAre
    BY TypesAreTypes DEF Accounted
  <2>2. ~(\E t \in Tab, kind \in Kinds, c \in Conversation \cup {None} : RequestLaunch(t, kind, c))
    BY DEF RequestLaunch
  <2>3. ASSUME NEW t \in Tab, LaunchGoesOn(t) PROVE FALSE
    <3>1. UNCHANGED closure \/ (launch[t].pc # "idle" /\ Leave(t, "launch"))
      BY <2>3 DEF LaunchGoesOn, RegisterResume, Launch, ConfirmLaunch, LaunchFails
    <3>2. closure'[k].pc = closure[k].pc
      BY <2>1, <3>1, LeavingLess, LaunchAtHead
    <3> QED BY <3>2
  <2>4. ASSUME NEW t \in Tab, OpenFolder(t) PROVE FALSE
    BY <2>1, <2>4, Superseding DEF OpenFolder, Types, TypesAre
  <2>5. ~(\E t \in Tab : ClaudeExits(t) \/ CloseTab(t) \/ (\E c \in Conversation : ClaudeChooses(t, c)))
    BY DEF ClaudeExits, CloseTab, ClaudeChooses
  <2>6. ~(\E d \in Deletion : DeleteTranscript(d) \/ (\E c \in Conversation : RequestDeletion(d, c)))
    BY DEF DeleteTranscript, RequestDeletion
  <2>7. ASSUME NEW d \in Deletion, NEW t \in Tab, DeletionHasTab(d, t) \/ DeletionLostTab(d, t)
        PROVE  FALSE
    <3>1. queue[t] # <<>> /\ Leave(t, d) /\ d \in Item
      BY <2>7 DEF DeletionHasTab, DeletionLostTab, Item
    <3>2. closure'[k].pc = closure[k].pc
      BY <2>1, <3>1, LeavingLess
    <3> QED BY <3>2
  <2>8. ~(\E j \in Closure : \/ ClosureWaited(j) \/ ClosureFails(j)
                            \/ \E kind \in {"close", "forget"} : RequestClosure(j, kind))
    BY DEF ClosureWaited, ClosureFails, RequestClosure
  <2>9. ASSUME NEW j \in Closure, ClosureTakesEffect(j) PROVE lastWord = k
    <3>1. closeIntent = j /\ closure' = [closure EXCEPT ![j] = NoClosure]
      BY <2>9 DEF ClosureTakesEffect, OwnsClosure
    <3>2. CASE j = k
      BY <3>1, <3>2, LifecycleAssumption DEF Accounted, Captured
    <3>3. CASE j # k
      BY <2>1, <3>1, <3>3 DEF TypesAre
    <3> QED BY <3>2, <3>3
  <2> QED BY <2>2, <2>3, <2>4, <2>5, <2>6, <2>7, <2>8, <2>9 DEF Next, DeletionGoesOn, ClosureGoesOn
<1>2. Accounted /\ [Next]_vars => Accounted'
    BY AccountedInductive
<1> QED BY <1>1, <1>2, InitAccounted, PTL DEF Spec, LastWordCounts

-----------------------------------------------------------------------------
(* Deletions and resumes.  A launch that a deletion has superseded may     *)
(* linger, but one that has not been is of nothing that is being deleted;  *)
(* and a tab that runs what is being deleted has still to be asked.        *)

Launches ==
    \A t \in Tab :
        /\ launch[t].pc = "idle" => launch[t] = NoLaunch
        /\ launch[t].pc # "idle" =>
              /\ launch[t].kind \in {"continue", "resume"} => launch[t].intent
              /\ launch[t].kind = "continue" => launch[t].c = None

Registered(t) ==
    launch[t].pc # "idle" /\ launch[t].kind \in {"continue", "resume"} /\ ~launch[t].superseded

Barred ==
    \A t \in Tab : Registered(t) =>
        /\ \A d \in Deletion : deletion[d].c # None =>
              launch[t].c # None /\ launch[t].c # deletion[d].c
        /\ launch[t].kind = "resume" => launch[t].c \in transcripts

Asked ==
    \A d \in Deletion, t \in Tab :
        (deletion[d].c # None /\ tab[t].resumed /\ tab[t].runs = deletion[d].c)
        => t \in deletion[d].waits

Respected == Accounted /\ Launches /\ Barred /\ Asked /\ DeletedIsNotResumed

(* What is not being deleted is allowed. *)
LEMMA AllowedIs ==
    ASSUME NEW c, Allowed(c), NEW d \in Deletion, deletion[d].c # None
    PROVE  c # None /\ c # deletion[d].c
BY DEF Allowed, Deleting

(* Nothing is started that was not registered.                             *)
LEMMA LaunchesKept ==
    ASSUME Launches, Barred,
           UNCHANGED transcripts,
           \A d \in Deletion : deletion'[d].c \in {deletion[d].c, None},
           \A t \in Tab : launch'[t] = launch[t] \/ launch'[t] = NoLaunch
    PROVE  Launches' /\ Barred'
<1>1. NoLaunch.pc = "idle"
    BY DEF NoLaunch
<1>2. Launches'
    BY <1>1 DEF Launches
<1>3. Barred'
    BY <1>1 DEF Barred, Registered
<1> QED BY <1>2, <1>3

(* No tab comes to run anything, and none that runs something was asked.   *)
LEMMA AskedKept ==
    ASSUME Asked, DeletedIsNotResumed, UNCHANGED transcripts,
           \A d \in Deletion : \/ deletion'[d].c = None
                               \/ /\ deletion'[d].c = deletion[d].c
                                  /\ deletion[d].waits \subseteq deletion'[d].waits,
           \A t \in Tab : \/ ~tab'[t].resumed
                          \/ tab'[t].resumed = tab[t].resumed /\ tab'[t].runs = tab[t].runs
    PROVE  Asked' /\ DeletedIsNotResumed'
BY DEF Asked, DeletedIsNotResumed

(* Every step keeps deletions and resumes apart. *)
LEMMA RespectedInductive == (Respected /\ [Next]_vars) => Respected'
<1> SUFFICES ASSUME Respected, [Next]_vars PROVE Respected'
    OBVIOUS
<1>1. Accounted /\ Accounted' /\ Types
    BY AccountedInductive DEF Respected, Accounted
<1>2. TypesAre /\ TypesAre'
    BY <1>1, TypesAreTypes DEF Accounted
<1>3. Launches /\ Barred /\ Asked /\ DeletedIsNotResumed /\ Tabs
    BY DEF Respected, Accounted
<1> DEFINE Rest == Launches /\ Barred /\ Asked /\ DeletedIsNotResumed
<1>4. ASSUME NEW t \in Tab, NEW kind \in Kinds, NEW c \in Conversation \cup {None},
             RequestLaunch(t, kind, c)
      PROVE  Rest'
  <2> DEFINE l == [kind |-> kind, c |-> c, superseded |-> FALSE,
                   pc |-> IF kind = "authorized-resume" THEN "authorizing" ELSE "preparing",
                   intent |-> kind \in {"continue", "resume"}]
  <2>1. /\ IF kind = "continue" THEN c = None ELSE c \in transcripts
        /\ kind # "authorized-resume" => Allowed(c)
        /\ launch' = [launch EXCEPT ![t] = l]
        /\ UNCHANGED <<transcripts, tab, deletion>>
    <3>1. /\ IF kind = "continue" THEN c = None ELSE c \in transcripts
          /\ kind # "authorized-resume" => Allowed(c)
          /\ UNCHANGED <<transcripts, tab, deletion>>
      BY <1>4 DEF RequestLaunch
    <3>2. launch' = [launch EXCEPT ![t] =
               [kind |-> kind, c |-> c, superseded |-> FALSE,
                pc |-> IF kind = "authorized-resume" THEN "authorizing" ELSE "preparing",
                intent |-> kind \in {"continue", "resume"}]]
      BY <1>4 DEF RequestLaunch
    <3>3. launch' = [launch EXCEPT ![t] = l]
      BY <3>2
    <3> HIDE DEF l
    <3> QED BY <3>1, <3>3
  <2>2. /\ l.kind = kind /\ l.c = c /\ l.pc # "idle" /\ l.superseded = FALSE
        /\ l.intent = (kind \in {"continue", "resume"})
    OBVIOUS
  <2> HIDE DEF l
  <2>3. launch'[t] = l /\ (\A s \in Tab \ {t} : launch'[s] = launch[s])
    BY <1>2, <2>1 DEF TypesAre
  <2>4. Launches'
    <3>1. l.kind \in {"continue", "resume"} => l.intent
      BY <2>2
    <3>2. l.kind = "continue" => l.c = None
      BY <2>1, <2>2
    <3> QED BY <1>3, <2>2, <2>3, <3>1, <3>2 DEF Launches
  <2>5. \A d \in Deletion : (kind \in {"continue", "resume"} /\ deletion[d].c # None)
                            => (c # None /\ c # deletion[d].c)
    BY <2>1, AllowedIs
  <2>6. Barred'
    BY <1>3, <2>1, <2>2, <2>3, <2>5 DEF Barred, Registered
  <2> QED BY <1>3, <2>1, <2>4, <2>6 DEF Asked, DeletedIsNotResumed
<1>5. ASSUME NEW t \in Tab, RegisterResume(t) PROVE Rest'
  <2> DEFINE l == [launch[t] EXCEPT !.pc = "preparing", !.intent = TRUE]
  <2>1. /\ launch[t].pc = "authorizing" /\ launch' = [launch EXCEPT ![t] = l]
        /\ UNCHANGED <<transcripts, tab, deletion>>
    BY <1>5 DEF RegisterResume
  <2>2. launch[t] \in LaunchRecord
    BY <1>2 DEF TypesAre
  <2>3. /\ l.kind = launch[t].kind /\ l.c = launch[t].c /\ l.pc # "idle"
        /\ l.superseded = launch[t].superseded /\ l.intent
    BY <2>2 DEF LaunchRecord
  <2> HIDE DEF l
  <2>4. launch'[t] = l /\ (\A s \in Tab \ {t} : launch'[s] = launch[s])
    BY <1>2, <2>1 DEF TypesAre
  <2>5. Launches'
    BY <1>3, <2>1, <2>3, <2>4 DEF Launches
  <2>6. Barred'
    BY <1>3, <2>1, <2>3, <2>4 DEF Barred, Registered
  <2> QED BY <1>3, <2>1, <2>5, <2>6 DEF Asked, DeletedIsNotResumed
<1>6. ASSUME NEW t \in Tab, Launch(t) PROVE Rest'
  <2> DEFINE l == [launch[t] EXCEPT !.pc = "confirming"]
  <2>1. /\ launch[t].pc = "preparing" /\ ~launch[t].superseded
        /\ launch' = [launch EXCEPT ![t].pc = "confirming"]
        /\ UNCHANGED <<transcripts, deletion>>
    BY <1>6 DEF Launch
  <2>2. launch[t] \in LaunchRecord /\ tab[t] \in TabRecord
    BY <1>2 DEF TypesAre
  <2>3. /\ l.kind = launch[t].kind /\ l.c = launch[t].c /\ l.pc = "confirming"
        /\ l.superseded = launch[t].superseded /\ l.intent = launch[t].intent
    BY <2>2 DEF LaunchRecord
  <2>4. launch' = [launch EXCEPT ![t] = l]
    BY <2>1
  <2> HIDE DEF l
  <2>5. launch'[t] = l /\ (\A s \in Tab \ {t} : launch'[s] = launch[s])
    BY <1>2, <2>4 DEF TypesAre
  <2>6. Launches'
    BY <1>3, <2>1, <2>3, <2>5 DEF Launches
  <2>7. Barred'
    BY <1>3, <2>1, <2>3, <2>5 DEF Barred, Registered
  <2>8. PICK b \in BOOLEAN, r \in Conversation \cup {None, Unnamed} :
              /\ tab' = [tab EXCEPT ![t].resumed = b, ![t].runs = r]
              /\ b <=> launch[t].kind = "resume"
              /\ r = IF launch[t].c = None THEN Unnamed ELSE launch[t].c
    BY <1>1, <1>6, Launched
  <2>9. tab'[t].resumed = b /\ tab'[t].runs = r /\ (\A s \in Tab \ {t} : tab'[s] = tab[s])
    BY <1>2, <2>2, <2>8 DEF TypesAre, TabRecord
  <2>10. launch[t].kind = "resume" =>
            /\ launch[t].c \in transcripts /\ launch[t].c # None
            /\ \A d \in Deletion : deletion[d].c # None => deletion[d].c # launch[t].c
    BY <1>2, <1>3, <2>1, LifecycleAssumption DEF Barred, Registered, TypesAre
  <2>11. tab'[t].resumed => launch[t].kind = "resume"
    BY <2>8, <2>9
  <2>12. tab'[t].resumed =>
            /\ tab'[t].runs \in transcripts
            /\ \A d \in Deletion : deletion[d].c # None => deletion[d].c # tab'[t].runs
    BY <2>8, <2>9, <2>10, <2>11
  <2>13. Asked'
    BY <1>3, <2>1, <2>9, <2>12 DEF Asked
  <2>14. DeletedIsNotResumed'
    BY <1>3, <2>1, <2>9, <2>12 DEF DeletedIsNotResumed
  <2> QED BY <2>6, <2>7, <2>13, <2>14
<1>7. ASSUME NEW t \in Tab, ConfirmLaunch(t) \/ LaunchFails(t) PROVE Rest'
  <2>1. /\ launch' = [launch EXCEPT ![t] = NoLaunch]
        /\ UNCHANGED <<transcripts, deletion>>
        /\ tab' = tab \/ tab' = [tab EXCEPT ![t].runs = None, ![t].resumed = FALSE]
    BY <1>7 DEF ConfirmLaunch, LaunchFails
  <2>2. \A s \in Tab : launch'[s] = launch[s] \/ launch'[s] = NoLaunch
    BY <1>2, <2>1 DEF TypesAre
  <2>3. \A s \in Tab : tab'[s] = tab[s] \/ ~tab'[s].resumed
    BY <1>2, <2>1 DEF TypesAre, TabRecord
  <2> QED BY <1>3, <2>1, <2>2, <2>3, LaunchesKept, AskedKept
<1>8. ASSUME NEW t \in Tab, ClaudeExits(t) \/ (\E c \in Conversation : ClaudeChooses(t, c))
      PROVE  Rest'
  <2>1. UNCHANGED <<launch, transcripts, deletion>>
    BY <1>8 DEF ClaudeExits, ClaudeChooses
  <2>2. /\ \A s \in Tab \ {t} : tab'[s] = tab[s]
        /\ \/ tab'[t] = tab[t]
           \/ tab'[t].runs = None /\ ~tab'[t].resumed
           \/ ClaudeChooses(t, tab'[t].runs) /\ tab'[t].resumed = tab[t].resumed
           \/ Launch(t)
    BY <1>1, <1>8, WorkInTab
  <2>3. ~Launch(t)
    BY <1>2, <2>1 DEF Launch, TypesAre, LaunchRecord
  <2>4. ClaudeChooses(t, tab'[t].runs) => ~tab[t].resumed
    BY <1>2, <1>3, LifecycleAssumption DEF ClaudeChooses, DeletedIsNotResumed, TypesAre
  <2>5. \A s \in Tab : tab'[s] = tab[s] \/ ~tab'[s].resumed
    BY <2>2, <2>3, <2>4
  <2> QED BY <1>3, <2>1, <2>5, LaunchesKept, AskedKept
<1>9. ASSUME NEW t \in Tab, OpenFolder(t) \/ CloseTab(t) PROVE Rest'
  <2>1. UNCHANGED <<launch, transcripts, deletion>>
    BY <1>9 DEF OpenFolder, CloseTab
  <2>2. CASE OpenFolder(t)
    <3>1. tab' = [tab EXCEPT ![t].open = TRUE]
      BY <2>2 DEF OpenFolder
    <3>2. \A s \in Tab : tab'[s].resumed = tab[s].resumed /\ tab'[s].runs = tab[s].runs
      BY <1>2, <3>1 DEF TypesAre, TabRecord
    <3> QED BY <1>3, <2>1, <3>2, LaunchesKept, AskedKept
  <2>3. CASE CloseTab(t)
    <3>1. \A s \in Tab : tab'[s] = tab[s] \/ tab'[s] = Gone
      BY <1>1, <2>3, Closing DEF CloseTab, Types
    <3>2. \A s \in Tab : tab'[s] = tab[s] \/ ~tab'[s].resumed
      BY <3>1 DEF Gone
    <3> QED BY <1>3, <2>1, <3>2, LaunchesKept, AskedKept
  <2> QED BY <1>9, <2>2, <2>3
<1>10. ASSUME NEW d \in Deletion, NEW c \in Conversation, RequestDeletion(d, c) PROVE Rest'
  <2> DEFINE T == {t \in Tab : tab[t].open /\ (Matches(t, c) \/ Owns(t, c))}
  <2>1. /\ c \in transcripts /\ c \notin Deleting
        /\ deletion' = [deletion EXCEPT ![d] = [c |-> c, waits |-> T]]
        /\ launch' = Supersede(c)
        /\ UNCHANGED <<transcripts, tab>>
    BY <1>10 DEF RequestDeletion
  <2>2. \A t \in Tab : (tab[t].resumed /\ tab[t].runs = c) => t \in T
    BY <1>2, <1>3 DEF Tabs, Owns, TypesAre, TabRecord
  <2> HIDE DEF T
  <2>3. /\ deletion'[d].c = c /\ deletion'[d].waits = T
        /\ \A e \in Deletion \ {d} : deletion'[e] = deletion[e]
    BY <1>2, <2>1 DEF TypesAre
  <2>4. Asked'
    BY <1>3, <2>1, <2>2, <2>3 DEF Asked
  <2>5. \A t \in Tab : /\ launch'[t].pc = launch[t].pc
                       /\ launch'[t].kind = launch[t].kind
                       /\ launch'[t].c = launch[t].c
                       /\ launch'[t].intent = launch[t].intent
                       /\ ~Matches(t, c) => launch'[t] = launch[t]
                       /\ Matches(t, c) => launch'[t].superseded
    BY <1>1, <2>1, SupersedingLaunches DEF Types
  <2>6. \A t \in Tab : launch[t].pc = "idle" => launch'[t] = NoLaunch
    <3>1. NoLaunch.intent = FALSE
      BY DEF NoLaunch
    <3>2. \A t \in Tab : launch[t].pc = "idle" => (launch[t] = NoLaunch /\ ~Matches(t, c))
      BY <1>3, <3>1 DEF Launches, Matches
    <3> QED BY <2>5, <3>2
  <2>7. Launches'
    BY <1>3, <2>5, <2>6 DEF Launches
  <2>8. Barred'
    <3>1. SUFFICES ASSUME NEW t \in Tab, Registered(t)'
                   PROVE  /\ \A e \in Deletion : deletion'[e].c # None =>
                                launch'[t].c # None /\ launch'[t].c # deletion'[e].c
                          /\ launch'[t].kind = "resume" => launch'[t].c \in transcripts'
      BY DEF Barred
    <3>2. ~Matches(t, c) /\ launch'[t] = launch[t]
      BY <2>5, <3>1 DEF Registered
    <3>3. Registered(t) /\ launch[t].intent
      BY <1>3, <3>1, <3>2 DEF Registered, Launches
    <3>4. launch[t].c # c /\ launch[t].c # None
      BY <3>2, <3>3 DEF Matches
    <3> QED BY <1>3, <2>1, <2>3, <3>2, <3>3, <3>4 DEF Barred
  <2> QED BY <1>3, <2>1, <2>4, <2>7, <2>8 DEF DeletedIsNotResumed
<1>11. ASSUME NEW d \in Deletion, NEW t \in Tab, DeletionHasTab(d, t) PROVE Rest'
  <2>1. /\ deletion' = [deletion EXCEPT ![d].waits = @ \ {t}]
        /\ CloseAll(IF Owns(t, deletion[d].c) THEN {t} ELSE {})
        /\ UNCHANGED <<transcripts, launch>>
    BY <1>11 DEF DeletionHasTab
  <2>2. /\ deletion'[d].c = deletion[d].c /\ deletion'[d].waits = deletion[d].waits \ {t}
        /\ \A e \in Deletion \ {d} : deletion'[e] = deletion[e]
    BY <1>2, <2>1 DEF TypesAre, DeletionRecord
  <2>3. Launches' /\ Barred'
    BY <1>3, <2>1, <2>2, LaunchesKept
  <2>4. \A s \in Tab : tab'[s] = Gone \/ tab'[s] = tab[s]
    BY <1>1, <2>1, Closing DEF Types
  <2>5. Owns(t, deletion[d].c) => tab'[t] = Gone
    BY <1>1, <2>1, Closing DEF Types
  <2>6. Gone.resumed = FALSE
    BY DEF Gone
  <2>7. ~(tab'[t].resumed /\ tab'[t].runs = deletion[d].c)
    BY <1>3, <2>4, <2>5, <2>6 DEF Owns, Tabs
  <2>8. Asked'
    BY <1>3, <2>2, <2>4, <2>6, <2>7 DEF Asked
  <2>9. DeletedIsNotResumed'
    BY <1>3, <2>1, <2>4, <2>6 DEF DeletedIsNotResumed
  <2> QED BY <2>3, <2>8, <2>9
<1>12. ASSUME NEW d \in Deletion, NEW t \in Tab, DeletionLostTab(d, t) PROVE Rest'
  <2>1. /\ deletion' = IF t \notin deletion[d].waits THEN deletion
                       ELSE IF tab[t].open THEN [deletion EXCEPT ![d] = NoDeletion]
                       ELSE [deletion EXCEPT ![d].waits = @ \ {t}]
        /\ UNCHANGED <<transcripts, tab, launch>>
    BY <1>12 DEF DeletionLostTab
  <2>2. CASE deletion' = deletion
    BY <1>3, <2>1, <2>2, LaunchesKept, AskedKept
  <2>3. CASE deletion' = [deletion EXCEPT ![d] = NoDeletion]
    <3>1. deletion'[d].c = None /\ (\A e \in Deletion \ {d} : deletion'[e] = deletion[e])
      BY <1>2, <2>3 DEF TypesAre, NoDeletion
    <3> QED BY <1>3, <2>1, <3>1, LaunchesKept, AskedKept
  <2>4. CASE deletion' = [deletion EXCEPT ![d].waits = @ \ {t}] /\ ~tab[t].open
    <3>1. /\ deletion'[d].c = deletion[d].c /\ deletion'[d].waits = deletion[d].waits \ {t}
          /\ \A e \in Deletion \ {d} : deletion'[e] = deletion[e]
      BY <1>2, <2>4 DEF TypesAre, DeletionRecord
    <3>2. Launches' /\ Barred'
      BY <1>3, <2>1, <3>1, LaunchesKept
    <3>3. ~tab'[t].resumed
      BY <1>3, <2>1, <2>4 DEF Tabs
    <3>4. Asked'
      BY <1>3, <2>1, <3>1, <3>3 DEF Asked
    <3> QED BY <1>3, <2>1, <3>2, <3>4 DEF DeletedIsNotResumed
  <2> QED BY <2>1, <2>2, <2>3, <2>4
<1>13. ASSUME NEW d \in Deletion, DeleteTranscript(d) PROVE Rest'
  <2> DEFINE c == deletion[d].c
  <2>1. /\ c # None /\ deletion[d].waits = {}
        /\ transcripts \ {c} \subseteq transcripts'
        /\ deletion' = [deletion EXCEPT ![d] = NoDeletion]
        /\ UNCHANGED <<tab, launch>>
    BY <1>13 DEF DeleteTranscript
  <2>2. deletion'[d].c = None /\ (\A e \in Deletion \ {d} : deletion'[e] = deletion[e])
    BY <1>2, <2>1 DEF TypesAre, NoDeletion
  <2>3. \A t \in Tab : tab[t].resumed => tab[t].runs # c
    BY <1>3, <2>1 DEF Asked
  <2>4. \A t \in Tab : Registered(t) => launch[t].c # c
    BY <1>3, <2>1 DEF Barred
  <2> HIDE DEF c
  <2>5. DeletedIsNotResumed'
    BY <1>3, <2>1, <2>3 DEF DeletedIsNotResumed
  <2>6. Barred'
    BY <1>3, <2>1, <2>2, <2>4 DEF Barred, Registered
  <2> QED BY <1>3, <2>1, <2>2, <2>5, <2>6 DEF Launches, Asked
<1>14. ASSUME NEW k \in Closure,
              (\E kind \in {"close", "forget"} : RequestClosure(k, kind)) \/ ClosureGoesOn(k)
       PROVE  Rest'
  <2>1. UNCHANGED <<launch, transcripts, deletion>>
    BY <1>14 DEF RequestClosure, ClosureGoesOn, ClosureWaited, ClosureTakesEffect, ClosureFails
  <2>2. tab' = tab \/ CloseAll(closure[k].tabs)
    BY <1>14 DEF RequestClosure, ClosureGoesOn, ClosureWaited, ClosureTakesEffect, ClosureFails
  <2>3. closure[k].tabs \in SUBSET Tab
    BY <1>2 DEF TypesAre, ClosureRecord
  <2>4. \A s \in Tab : tab'[s] = tab[s] \/ tab'[s] = Gone
    BY <1>1, <2>2, <2>3, Closing DEF Types
  <2>5. \A s \in Tab : tab'[s] = tab[s] \/ ~tab'[s].resumed
    BY <2>4 DEF Gone
  <2> QED BY <1>3, <2>1, <2>5, LaunchesKept, AskedKept
<1>15. ASSUME UNCHANGED vars PROVE Rest'
  <2>1. UNCHANGED <<launch, transcripts, deletion, tab>>
    BY <1>15 DEF vars
  <2> QED BY <1>3, <2>1, LaunchesKept, AskedKept
<1> HIDE DEF Rest
<1>16. Rest'
    BY <1>4, <1>5, <1>6, <1>7, <1>8, <1>9, <1>10, <1>11, <1>12, <1>13, <1>14, <1>15
    DEF Next, LaunchGoesOn, DeletionGoesOn
<1> QED BY <1>1, <1>16 DEF Rest, Respected

(* Initially nothing runs and nothing is deleted. *)
LEMMA InitRespected == Init => Respected
<1> SUFFICES ASSUME Init PROVE Respected
    OBVIOUS
<1>1. /\ \A t \in Tab : launch[t] = NoLaunch /\ tab[t].resumed = FALSE
      /\ \A d \in Deletion : deletion[d] = NoDeletion
    BY DEF Init
<1>2. NoLaunch.pc = "idle"
    BY DEF NoLaunch
<1>3. NoDeletion.c = None
    BY DEF NoDeletion
<1> QED BY <1>1, <1>2, <1>3, InitAccounted
        DEF Respected, Launches, Barred, Registered, Asked, DeletedIsNotResumed

(***************************************************************************)
(* DeletedIsNotResumed, for every instance: no resume that registered runs *)
(* a transcript that was deleted.                                          *)
(***************************************************************************)
THEOREM DeletedStayDeleted == Spec => []DeletedIsNotResumed
<1>1. Respected => DeletedIsNotResumed
    BY DEF Respected
<1> QED BY <1>1, InitRespected, RespectedInductive, PTL DEF Spec

(***************************************************************************)
(* DeletionSparesOthers, for every instance: a deletion closes a tab only  *)
(* if its conversation runs there and no launch works in it, and no launch *)
(* that leaves the choice to Claude succeeds while something is deleted.   *)
(***************************************************************************)
THEOREM DeletionsSpareOthers == Spec => DeletionSparesOthers
<1> DEFINE Closes(d, t) == t \notin deletion'[d].waits /\ tab[t].open /\ ~tab'[t].open
           Chosen(t) == /\ launch[t].kind = "continue" /\ launch[t].pc = "confirming"
                        /\ launch'[t].pc = "idle" /\ tab'[t].runs # None
           Spares ==
               /\ \A d \in Deletion : \A t \in deletion[d].waits :
                    (t \notin deletion'[d].waits /\ tab[t].open /\ ~tab'[t].open)
                    => tab[t].runs = deletion[d].c /\ launch[t] = NoLaunch
               /\ \A t \in Tab :
                    (/\ launch[t].kind = "continue" /\ launch[t].pc = "confirming"
                     /\ launch'[t].pc = "idle" /\ tab'[t].runs # None)
                    => Deleting = {}
<1>1. Respected /\ [Next]_vars => [Spares]_vars
  <2> SUFFICES ASSUME Respected, Next PROVE Spares
    BY DEF vars
  <2>1. Types /\ TypesAre /\ Launches /\ Barred
    BY TypesAreTypes DEF Respected, Accounted
  <2>2. ASSUME NEW d \in Deletion, NEW t \in deletion[d].waits, Closes(d, t)
        PROVE  tab[t].runs = deletion[d].c /\ launch[t] = NoLaunch
    <3>1. t \in Tab
      BY <2>1 DEF TypesAre, DeletionRecord
    <3>2. DeletionHasTab(d, t)
      <4>1. deletion' # deletion /\ tab' # tab
        BY <2>2
      <4>2. PICK e \in Deletion, s \in Tab : DeletionHasTab(e, s)
        BY <4>1 DEF Next, RequestLaunch, LaunchGoesOn, RegisterResume, Launch, ConfirmLaunch,
           LaunchFails, ClaudeExits, OpenFolder, CloseTab, ClaudeChooses, RequestDeletion,
           DeletionGoesOn, DeletionLostTab, DeleteTranscript, RequestClosure, ClosureGoesOn,
           ClosureWaited, ClosureTakesEffect, ClosureFails
      <4>3. deletion' = [deletion EXCEPT ![e].waits = @ \ {s}]
        BY <4>2 DEF DeletionHasTab
      <4>4. e = d
        BY <2>1, <2>2, <4>3 DEF TypesAre
      <4>5. s = t
        BY <2>1, <2>2, <4>3, <4>4 DEF TypesAre, DeletionRecord
      <4> QED BY <4>2, <4>4, <4>5
    <3>3. Owns(t, deletion[d].c)
      <4>1. CASE ~Owns(t, deletion[d].c)
        <5>1. CloseAll({})
          BY <3>2, <4>1 DEF DeletionHasTab
        <5>2. tab'[t] = tab[t]
          BY <2>1, <3>1, <5>1, Closing DEF Types
        <5> QED BY <2>2, <5>2
      <4> QED BY <4>1
    <3>4. ~HeadLaunches(queue[t])
      BY <3>2, LifecycleAssumption DEF DeletionHasTab, HeadLaunches
    <3>5. launch[t] = NoLaunch
      BY <2>1, <3>1, <3>4 DEF TypesAre, Launches
    <3> QED BY <3>3, <3>5 DEF Owns
  <2>3. ASSUME NEW t \in Tab, Chosen(t) PROVE Deleting = {}
    <3>1. /\ launch[t].pc = "confirming" /\ launch'[t].pc = "idle"
          /\ launch[t].kind = "continue" /\ tab'[t].runs # None
      BY <2>3
    <3>2. launch[t] \in LaunchRecord /\ tab[t] \in TabRecord
      BY <2>1 DEF TypesAre
    <3>3. ConfirmLaunch(t) \/ LaunchFails(t)
      <4>1. launch' # launch
        BY <3>1
      <4>2. ~(\E d \in Deletion, c \in Conversation : RequestDeletion(d, c))
        <5>1. SUFFICES ASSUME NEW d \in Deletion, NEW c \in Conversation, RequestDeletion(d, c)
                       PROVE  FALSE
          OBVIOUS
        <5>2. launch' = Supersede(c)
          BY <5>1 DEF RequestDeletion
        <5>3. launch'[t].pc = launch[t].pc
          BY <2>1, <5>2, SupersedingLaunches DEF Types
        <5> QED BY <3>1, <5>3
      <4>3. PICK s \in Tab : \/ \E kind \in Kinds, c \in Conversation \cup {None} : RequestLaunch(s, kind, c)
                            \/ LaunchGoesOn(s)
        BY <4>1, <4>2 DEF Next, ClaudeExits, OpenFolder, CloseTab, ClaudeChooses,
           DeletionGoesOn, DeletionHasTab, DeletionLostTab, DeleteTranscript, RequestClosure,
           ClosureGoesOn, ClosureWaited, ClosureTakesEffect, ClosureFails
      <4>4. \A r \in Tab \ {s} : launch'[r] = launch[r]
        BY <2>1, <4>3 DEF TypesAre, LaunchGoesOn, RequestLaunch, RegisterResume, Launch,
           ConfirmLaunch, LaunchFails
      <4>5. s = t
        BY <3>1, <4>4
      <4>6. ~(\E kind \in Kinds, c \in Conversation \cup {None} : RequestLaunch(t, kind, c))
        BY <2>1, <3>1 DEF RequestLaunch, TypesAre, HeadLaunches
      <4>7. ~RegisterResume(t) /\ ~Launch(t)
        BY <3>1 DEF RegisterResume, Launch
      <4> QED BY <4>3, <4>5, <4>6, <4>7 DEF LaunchGoesOn
    <3>4. ~LaunchFails(t)
      <4>1. LaunchFails(t) => tab' = [tab EXCEPT ![t].runs = None, ![t].resumed = FALSE]
        BY <3>1 DEF LaunchFails
      <4>2. LaunchFails(t) => tab'[t].runs = None
        BY <2>1, <4>1 DEF TypesAre, TabRecord
      <4> QED BY <3>1, <4>2
    <3>5. ~launch[t].superseded
      BY <3>3, <3>4 DEF ConfirmLaunch
    <3>6. launch[t].c = None
      BY <2>1, <3>1 DEF Launches
    <3>7. \A d \in Deletion : deletion[d].c = None
      BY <2>1, <3>1, <3>5, <3>6 DEF Barred, Registered
    <3> QED BY <3>7 DEF Deleting
  <2> QED BY <2>2, <2>3
<1>2. Respected /\ [Next]_vars => Respected'
    BY RespectedInductive
<1> HIDE DEF Closes, Chosen
<1> QED BY <1>1, <1>2, InitRespected, PTL DEF Spec, DeletionSparesOthers

-----------------------------------------------------------------------------
(* Leaving the application: the prompt on the screen is the one that can   *)
(* be answered, and what the user said is what happens.                    *)

Modes == {"ordinary", "residual"}
Shown == [id : Prompt, mode : Modes]
ToRenderer == [kind : {"requested"}, id : Prompt, mode : Modes]
              \cup [kind : {"invalidated"}, id : Prompt]
ToMain == [kind : {"received"}, id : Prompt]
          \cup [kind : {"confirm"}, id : Prompt, decision : {"quit", "retry", "cancel"}]

Requests(m) == m.kind = "requested"
Confirms(m) == m.kind = "confirm"

Messages ==
  /\ shown \in Shown \cup {NoPrompt}
  /\ toRenderer \in Seq(ToRenderer) /\ toMain \in Seq(ToMain)

(* No prompt is open while the application quits or cleans up.             *)
Rests ==
  /\ confirmation # NoPrompt => ~isQuitting /\ cleanup # "running" /\ confirmation.id <= issued
  /\ cleanup = "late" => isQuitting

(* Prompts are numbered in the order they are issued, so that a prompt on  *)
(* its way to the renderer is newer than the one it shows, and both newer  *)
(* than any it has answered.                                               *)
Numbered ==
  /\ shown # NoPrompt => shown.id <= issued
  /\ \A i \in DOMAIN toRenderer : toRenderer[i].id <= issued
  /\ \A k \in DOMAIN toMain : toMain[k].id <= issued
  /\ \A i \in DOMAIN toRenderer : shown # NoPrompt /\ Requests(toRenderer[i]) =>
       shown.id < toRenderer[i].id
  /\ \A i, j \in DOMAIN toRenderer :
       i < j /\ Requests(toRenderer[i]) /\ Requests(toRenderer[j]) =>
         toRenderer[i].id < toRenderer[j].id
  /\ \A k \in DOMAIN toMain : Confirms(toMain[k]) =>
       /\ shown # NoPrompt => toMain[k].id < shown.id
       /\ \A i \in DOMAIN toRenderer : Requests(toRenderer[i]) =>
            toMain[k].id < toRenderer[i].id

(* A prompt is open, or what replaces or withdraws it is under way behind  *)
(* the first k messages.                                                   *)
Followed(id, k) ==
  \/ IsOpen(id, "renderer")
  \/ \E j \in DOMAIN toRenderer :
       j > k /\ (Requests(toRenderer[j]) \/ toRenderer[j].id = id)

Agree == ~isQuitting =>
  /\ shown # NoPrompt => Followed(shown.id, 0)
  /\ \A i \in DOMAIN toRenderer : Requests(toRenderer[i]) => Followed(toRenderer[i].id, i)

(* The renderer shows the open prompt as what it is.                       *)
Alike ==
  /\ shown # NoPrompt /\ IsOpen(shown.id, "renderer") => shown.mode = confirmation.mode
  /\ \A i \in DOMAIN toRenderer :
       Requests(toRenderer[i]) /\ IsOpen(toRenderer[i].id, "renderer") =>
         toRenderer[i].mode = confirmation.mode

(* A renderer that is gone shows nothing and is told nothing; a quit that  *)
(* is to be asked for again cannot be declined.                            *)
Apart ==
  /\ renderer = "gone" => shown = NoPrompt /\ toRenderer = <<>>
  /\ retry => renderer \in {"gone", "loading"} /\ will # "declined"

(* What will be done, if nothing comes in between, is what the user said.  *)
Willed ==
  /\ timer => will # "declined"
  /\ cleanup = "running" => will # "declined" /\ (forced => will = "force")
  /\ \A k \in DOMAIN toMain :
       /\ Confirms(toMain[k]) /\ toMain[k].decision # "cancel"
       /\ IsOpen(toMain[k].id, "renderer")
       => /\ will # "declined"
          /\ toMain[k].decision = "quit" /\ confirmation.mode = "residual" =>
               will = "force"

Queue == Messages /\ Numbered /\ Agree /\ Alike

QuitIInv == QuitTypeOK /\ Rests /\ Queue /\ Apart /\ Willed

-----------------------------------------------------------------------------
(* The messages under way.                                                 *)

LEMMA MessageTypes ==
  /\ \A id \in Prompt, mode \in Modes :
       LET m == [kind |-> "requested", id |-> id, mode |-> mode] IN
       m \in ToRenderer /\ Requests(m) /\ m.id = id /\ m.mode = mode
  /\ \A id \in Prompt :
       LET m == [kind |-> "invalidated", id |-> id] IN
       m \in ToRenderer /\ ~Requests(m) /\ m.id = id
  /\ \A id \in Prompt :
       LET m == [kind |-> "received", id |-> id] IN
       m \in ToMain /\ ~Confirms(m) /\ m.id = id
  /\ \A id \in Prompt, d \in {"quit", "retry", "cancel"} :
       LET m == [kind |-> "confirm", id |-> id, decision |-> d] IN
       m \in ToMain /\ Confirms(m) /\ m.id = id /\ m.decision = d
  BY DEF ToRenderer, ToMain, Requests, Confirms

LEMMA Appended ==
  ASSUME NEW S, NEW s \in Seq(S), NEW e \in S
  PROVE  /\ Append(s, e) \in Seq(S) /\ DOMAIN s = 1..Len(s) /\ Len(s) \in Nat
         /\ DOMAIN Append(s, e) = 1..Len(s) + 1
         /\ \A i \in DOMAIN s : i # Len(s) + 1 /\ i \in 1..Len(s) + 1 /\ Append(s, e)[i] = s[i]
         /\ Append(s, e)[Len(s) + 1] = e
  BY AppendProperties, LenProperties

LEMMA HeadAndTail ==
  ASSUME NEW S, NEW s \in Seq(S), s # <<>>
  PROVE  /\ Tail(s) \in Seq(S) /\ Len(s) \in Nat \ {0} /\ DOMAIN s = 1..Len(s)
         /\ DOMAIN Tail(s) = 1..Len(s) - 1
         /\ \A i \in DOMAIN Tail(s) : i + 1 \in DOMAIN s /\ Tail(s)[i] = s[i + 1]
         /\ Head(s) = s[1] /\ 1 \in DOMAIN s /\ s[1] \in S
  BY HeadTailProperties, LenProperties

LEMMA Concatenated ==
  ASSUME NEW S, NEW s \in Seq(S), NEW e \in S
  PROVE  s \o <<e>> = Append(s, e) /\ s \o <<>> = s
  BY AppendProperties, ConcatProperties, LenProperties

(* The messages are left alone while the prompt stays, was not the         *)
(* renderer's anyway, or is dropped by an application that leaves.         *)
(* The ids messages carry.                                                 *)
LEMMA Ids ==
  ASSUME QuitTypeOK, Messages
  PROVE  /\ \A i \in DOMAIN toRenderer : toRenderer[i] \in ToRenderer
                                         /\ toRenderer[i].id \in Nat
         /\ \A k \in DOMAIN toMain : toMain[k] \in ToMain /\ toMain[k].id \in Nat
         /\ shown # NoPrompt => shown.id \in Nat
         /\ issued \in Nat
<1>1. \A m \in ToRenderer \cup ToMain \cup Shown : m.id \in Nat
  BY DEF ToRenderer, ToMain, Shown, Prompt
<1> QED
  BY <1>1, ElementOfSeq, QuitAssumption DEF Messages, QuitTypeOK

LEMMA QueuesStand ==
  ASSUME QuitTypeOK, Rests, Queue, issued' = issued,
         UNCHANGED <<shown, toRenderer, toMain>>, isQuitting => isQuitting',
         \/ UNCHANGED confirmation
         \/ isQuitting' /\ confirmation' = NoPrompt
         \/ (confirmation = NoPrompt \/ confirmation.owner = "native") /\ confirmation' = NoPrompt
  PROVE  Queue'
<1>1. \A id : IsOpen(id, "renderer")' => IsOpen(id, "renderer") /\ UNCHANGED confirmation
  BY DEF IsOpen
<1>2. ~isQuitting' => \A id : IsOpen(id, "renderer") => IsOpen(id, "renderer")'
  BY DEF IsOpen
<1>3. Messages'
  BY DEF Queue, Messages
<1>4. Numbered'
  BY DEF Queue, Numbered
<1>5. Agree'
  <2> SUFFICES ASSUME ~isQuitting' PROVE Agree'
    BY DEF Agree
  <2>1. \A id, k : Followed(id, k) => Followed(id, k)'
    BY <1>2 DEF Followed
  <2>2. ~isQuitting
    OBVIOUS
  <2> QED
    BY <2>1, <2>2 DEF Queue, Agree
<1>6. Alike'
  BY <1>1 DEF Queue, Alike
<1> QED
  BY <1>3, <1>4, <1>5, <1>6 DEF Queue

(* A prompt that is withdrawn, or gives way to the system's, leaves the    *)
(* messages as they were, with its withdrawal behind them.                 *)
LEMMA WithdrawalQueues ==
  ASSUME QuitTypeOK, Rests, Queue, Apart,
         issued' \in issued..MaxPrompts,
         toRenderer' = toRenderer \o Withdrawal, UNCHANGED <<shown, toMain, isQuitting>>,
         confirmation' = NoPrompt \/ confirmation'.owner = "native"
  PROVE  Queue' /\ (renderer = "gone" => toRenderer' = <<>>)
<1>1. \A id : ~IsOpen(id, "renderer")'
  BY DEF IsOpen
<1>2. toRenderer \in Seq(ToRenderer) /\ issued \in Nat /\ issued' \in Nat /\ issued <= issued'
  BY QuitAssumption DEF Queue, Messages, QuitTypeOK
<1>3. /\ \A i \in DOMAIN toRenderer : toRenderer[i].id \in Nat
      /\ \A k \in DOMAIN toMain : toMain[k].id \in Nat
      /\ shown # NoPrompt => shown.id \in Nat
  BY Ids DEF Queue
<1>4. CASE Withdrawal = <<>>
  <2>1. toRenderer' = toRenderer
    BY <1>2, <1>4, Concatenated
  <2>2. \/ ~(confirmation # NoPrompt /\ confirmation.owner = "renderer")
        \/ shown = NoPrompt /\ toRenderer = <<>>
    <3>1. SUFFICES ASSUME confirmation # NoPrompt, confirmation.owner = "renderer",
                          renderer # "gone"
                   PROVE  FALSE
      BY DEF Apart
    <3>2. Withdrawal = <<[kind |-> "invalidated", id |-> confirmation.id]>>
      BY <3>1 DEF Withdrawal
    <3> QED
      BY <1>4, <3>2
  <2>3. Messages' /\ Alike'
    BY <1>1, <2>1 DEF Queue, Messages, Alike
  <2>4. Numbered'
    BY <1>2, <1>3, <2>1 DEF Queue, Numbered
  <2>5. Agree'
    <3>1. CASE shown = NoPrompt /\ toRenderer = <<>>
      BY <2>1, <3>1 DEF Agree
    <3>2. CASE ~(confirmation # NoPrompt /\ confirmation.owner = "renderer")
      BY <1>1, <2>1, <3>2 DEF Queue, Agree, Followed, IsOpen
    <3> QED
      BY <2>2, <3>1, <3>2
  <2> QED
    BY <2>1, <2>3, <2>4, <2>5 DEF Queue, Apart
<1>5. CASE Withdrawal # <<>>
  <2> DEFINE e == [kind |-> "invalidated", id |-> confirmation.id]
             n == Len(toRenderer)
  <2>1. /\ confirmation # NoPrompt /\ confirmation.owner = "renderer"
        /\ renderer # "gone" /\ toRenderer' = toRenderer \o <<e>>
    BY <1>5 DEF Withdrawal
  <2>2. confirmation \in Confirmation /\ confirmation.id \in Prompt /\ confirmation.id <= issued
    BY <2>1 DEF QuitTypeOK, Confirmation, Rests
  <2>3. e \in ToRenderer /\ ~Requests(e) /\ e.id = confirmation.id
    BY <2>2, MessageTypes
  <2> HIDE DEF e
  <2>4. toRenderer' = Append(toRenderer, e)
    BY <1>2, <2>1, <2>3, Concatenated
  <2>5. /\ toRenderer' \in Seq(ToRenderer) /\ n \in Nat /\ DOMAIN toRenderer = 1..n
        /\ DOMAIN toRenderer' = 1..n + 1 /\ toRenderer'[n + 1] = e
        /\ \A i \in DOMAIN toRenderer :
             i \in 1..n + 1 /\ toRenderer'[i] = toRenderer[i]
    BY <1>2, <2>3, <2>4, Appended
  <2> HIDE DEF n
  <2>6. \A i \in DOMAIN toRenderer' :
          Requests(toRenderer'[i]) => i \in 1..n /\ toRenderer'[i] = toRenderer[i]
    BY <2>3, <2>5
  <2>7. Messages'
    BY <2>5 DEF Queue, Messages
  <2>8. Numbered'
    <3>1. \A i \in DOMAIN toRenderer' : toRenderer'[i].id <= issued'
      <4> SUFFICES ASSUME NEW i \in 1..n + 1 PROVE toRenderer'[i].id <= issued'
        BY <2>5
      <4>1. CASE i = n + 1
        BY <1>2, <2>2, <2>3, <2>5, <4>1 DEF Prompt
      <4>2. CASE i # n + 1
        <5>1. i \in 1..n
          BY <2>5, <4>2
        <5> QED
          BY <1>2, <1>3, <2>5, <5>1 DEF Queue, Numbered
      <4> QED
        BY <4>1, <4>2
    <3>2. /\ shown # NoPrompt => shown.id <= issued'
          /\ \A k \in DOMAIN toMain : toMain[k].id <= issued'
      BY <1>2, <1>3 DEF Queue, Numbered
    <3> QED
      BY <2>5, <2>6, <3>1, <3>2 DEF Queue, Numbered
  <2>9. Agree'
    <3> SUFFICES ASSUME ~isQuitting PROVE Agree'
      BY DEF Agree
    <3>1. ASSUME NEW id, NEW k \in 0..n, Followed(id, k)
          PROVE  \E j \in DOMAIN toRenderer' :
                   j > k /\ (Requests(toRenderer'[j]) \/ toRenderer'[j].id = id)
      <4>1. CASE IsOpen(id, "renderer")
        <5>1. n + 1 \in DOMAIN toRenderer' /\ n + 1 > k
          BY <2>5
        <5>2. toRenderer'[n + 1].id = id
          BY <2>3, <2>5, <4>1 DEF IsOpen
        <5> QED
          BY <5>1, <5>2
      <4>2. CASE \E j \in DOMAIN toRenderer :
                   j > k /\ (Requests(toRenderer[j]) \/ toRenderer[j].id = id)
        BY <2>5, <4>2
      <4> QED
        BY <3>1, <4>1, <4>2 DEF Followed
    <3>2. shown # NoPrompt =>
            \E j \in DOMAIN toRenderer' :
              j > 0 /\ (Requests(toRenderer'[j]) \/ toRenderer'[j].id = shown.id)
      <4>1. shown # NoPrompt => Followed(shown.id, 0)
        BY DEF Queue, Agree
      <4>2. 0 \in 0..n
        BY <2>5
      <4> QED
        BY <3>1, <4>1, <4>2
    <3>3. \A i \in DOMAIN toRenderer' :
            Requests(toRenderer'[i]) => Followed(toRenderer[i].id, i)
      BY <2>5, <2>6 DEF Queue, Agree
    <3>4. \A i \in DOMAIN toRenderer' :
            Requests(toRenderer'[i]) =>
              \E j \in DOMAIN toRenderer' :
                j > i /\ (Requests(toRenderer'[j]) \/ toRenderer'[j].id = toRenderer'[i].id)
      <4> SUFFICES ASSUME NEW i \in DOMAIN toRenderer', Requests(toRenderer'[i])
                   PROVE  \E j \in DOMAIN toRenderer' :
                            j > i /\ (Requests(toRenderer'[j])
                                      \/ toRenderer'[j].id = toRenderer'[i].id)
        OBVIOUS
      <4>1. i \in 0..n /\ toRenderer'[i] = toRenderer[i]
        BY <2>5, <2>6
      <4>2. \E j \in DOMAIN toRenderer' :
              j > i /\ (Requests(toRenderer'[j]) \/ toRenderer'[j].id = toRenderer[i].id)
        BY <3>1, <3>3, <4>1
      <4> QED
        BY <4>1, <4>2
    <3> QED
      BY <3>2, <3>4 DEF Agree, Followed
  <2>10. Alike'
    BY <1>1 DEF Alike
  <2> QED
    BY <2>1, <2>7, <2>8, <2>9, <2>10 DEF Queue
<1> QED
  BY <1>4, <1>5

(* A prompt of the renderer is asked for while no other is open.           *)
LEMMA RequestQueues ==
  ASSUME QuitTypeOK, Rests, Queue, confirmation = NoPrompt, CanAsk, NEW mode \in Modes,
         AskRenderer(mode), UNCHANGED <<shown, toMain, isQuitting>>
  PROVE  Queue'
<1> DEFINE e == [kind |-> "requested", id |-> issued + 1, mode |-> mode]
           n == Len(toRenderer)
<1>1. /\ issued \in Nat /\ issued' = issued + 1 /\ issued + 1 \in Prompt
      /\ toRenderer' = Append(toRenderer, e)
      /\ confirmation' = [id |-> issued + 1, mode |-> mode, owner |-> "renderer"]
  BY QuitAssumption DEF QuitTypeOK, AskRenderer, Prompt
<1>2. e \in ToRenderer /\ Requests(e) /\ e.id = issued + 1 /\ e.mode = mode
  BY <1>1, MessageTypes
<1>3. /\ confirmation' # NoPrompt /\ confirmation'.id = issued + 1
      /\ confirmation'.owner = "renderer" /\ confirmation'.mode = mode
  BY <1>1, QuitAssumption DEF Confirmation, Modes
<1> HIDE DEF e
<1>4. toRenderer \in Seq(ToRenderer)
  BY DEF Queue, Messages
<1>5. /\ toRenderer' \in Seq(ToRenderer) /\ n \in Nat /\ DOMAIN toRenderer = 1..n
      /\ DOMAIN toRenderer' = 1..n + 1 /\ toRenderer'[n + 1] = e
      /\ \A i \in DOMAIN toRenderer :
           i # n + 1 /\ i \in 1..n + 1 /\ toRenderer'[i] = toRenderer[i]
  BY <1>1, <1>2, <1>4, Appended
<1> HIDE DEF n
<1>6. /\ \A i \in DOMAIN toRenderer : toRenderer[i].id \in Nat
      /\ \A k \in DOMAIN toMain : toMain[k].id \in Nat
      /\ shown # NoPrompt => shown.id \in Nat
  BY Ids DEF Queue
<1>7. Messages'
  BY <1>5 DEF Queue, Messages
<1>8. /\ shown # NoPrompt => shown.id < issued + 1
      /\ \A i \in 1..n : toRenderer[i].id < issued + 1
      /\ \A k \in DOMAIN toMain : toMain[k].id < issued + 1
  BY <1>1, <1>5, <1>6 DEF Queue, Numbered
<1>9. Numbered'
  <2>1. /\ shown # NoPrompt => shown.id <= issued'
        /\ \A k \in DOMAIN toMain : toMain[k].id <= issued'
    BY <1>1, <1>6, <1>8
  <2>2. ASSUME NEW i \in 1..n + 1
        PROVE  toRenderer'[i].id <= issued'
               /\ (shown # NoPrompt /\ Requests(toRenderer'[i]) => shown.id < toRenderer'[i].id)
    <3>1. CASE i = n + 1
      BY <1>1, <1>2, <1>5, <1>8, <3>1
    <3>2. CASE i # n + 1
      <4>1. i \in DOMAIN toRenderer /\ toRenderer'[i] = toRenderer[i]
        BY <1>5, <3>2
      <4> QED
        BY <1>1, <1>6, <4>1 DEF Queue, Numbered
    <3> QED
      BY <3>1, <3>2
  <2>3. ASSUME NEW i \in 1..n + 1, NEW j \in 1..n + 1, i < j,
               Requests(toRenderer'[i]), Requests(toRenderer'[j])
        PROVE  toRenderer'[i].id < toRenderer'[j].id
    <3>1. i \in DOMAIN toRenderer /\ toRenderer'[i] = toRenderer[i]
      BY <1>5, <2>3
    <3>2. CASE j = n + 1
      BY <1>2, <1>5, <1>8, <3>1, <3>2
    <3>3. CASE j # n + 1
      <4>1. j \in DOMAIN toRenderer /\ toRenderer'[j] = toRenderer[j]
        BY <1>5, <3>3
      <4> QED
        BY <2>3, <3>1, <4>1 DEF Queue, Numbered
    <3> QED
      BY <3>2, <3>3
  <2>4. ASSUME NEW k \in DOMAIN toMain, Confirms(toMain[k])
        PROVE  /\ shown # NoPrompt => toMain[k].id < shown.id
               /\ \A i \in 1..n + 1 :
                    Requests(toRenderer'[i]) => toMain[k].id < toRenderer'[i].id
    <3>1. shown # NoPrompt => toMain[k].id < shown.id
      BY <2>4 DEF Queue, Numbered
    <3>2. ASSUME NEW i \in 1..n + 1, Requests(toRenderer'[i])
          PROVE  toMain[k].id < toRenderer'[i].id
      <4>1. CASE i = n + 1
        BY <1>2, <1>5, <1>8, <4>1
      <4>2. CASE i # n + 1
        <5>1. i \in DOMAIN toRenderer /\ toRenderer'[i] = toRenderer[i]
          BY <1>5, <4>2
        <5> QED
          BY <2>4, <3>2, <5>1 DEF Queue, Numbered
      <4> QED
        BY <4>1, <4>2
    <3> QED
      BY <3>1, <3>2
  <2> QED
    BY <1>5, <2>1, <2>2, <2>3, <2>4 DEF Numbered
<1>10. \A id : IsOpen(id, "renderer")' <=> id = issued + 1
  BY <1>3 DEF IsOpen
<1>11. Agree'
  <2>1. ASSUME NEW id, NEW k \in 0..n
        PROVE  \E j \in DOMAIN toRenderer' :
                 j > k /\ (Requests(toRenderer'[j]) \/ toRenderer'[j].id = id)
    <3>1. n + 1 \in DOMAIN toRenderer' /\ n + 1 > k
      BY <1>5
    <3> QED
      BY <1>2, <1>5, <3>1
  <2>2. shown # NoPrompt =>
          \E j \in DOMAIN toRenderer' :
            j > 0 /\ (Requests(toRenderer'[j]) \/ toRenderer'[j].id = shown.id)
    <3>1. 0 \in 0..n
      BY <1>5
    <3> QED
      BY <2>1, <3>1
  <2>3. ASSUME NEW i \in DOMAIN toRenderer'
        PROVE  \/ toRenderer'[i].id = issued + 1
               \/ \E j \in DOMAIN toRenderer' :
                    j > i /\ (Requests(toRenderer'[j])
                              \/ toRenderer'[j].id = toRenderer'[i].id)
    <3>1. CASE i = n + 1
      BY <1>2, <1>5, <3>1
    <3>2. CASE i # n + 1
      <4>1. i \in 0..n
        BY <1>5, <3>2
      <4> QED
        BY <2>1, <4>1
    <3> QED
      BY <3>1, <3>2
  <2> QED
    BY <1>10, <2>2, <2>3 DEF Agree, Followed
<1>12. Alike'
  <2>1. shown # NoPrompt => shown.id # issued + 1
    BY <1>1, <1>6, <1>8
  <2>2. ASSUME NEW i \in DOMAIN toRenderer', toRenderer'[i].id = issued + 1
        PROVE  toRenderer'[i].mode = confirmation'.mode
    <3>1. CASE i = n + 1
      BY <1>2, <1>3, <1>5, <3>1
    <3>2. CASE i # n + 1
      <4>1. i \in 1..n /\ toRenderer'[i] = toRenderer[i]
        BY <1>5, <3>2
      <4> QED
        BY <1>1, <1>5, <1>6, <1>8, <2>2, <4>1
    <3> QED
      BY <3>1, <3>2
  <2> QED
    BY <1>10, <2>1, <2>2 DEF Alike
<1> QED
  BY <1>7, <1>9, <1>11, <1>12 DEF Queue

(* The renderer is gone or reloads, and takes what it showed with it.      *)
LEMMA LossQueues ==
  ASSUME QuitTypeOK, Queue, issued' = issued, LosesMessages
  PROVE  Queue'
<1>1. toRenderer' = <<>> /\ shown' = NoPrompt /\ DOMAIN <<>> = {}
  BY DEF LosesMessages
<1>2. toMain' = toMain \/ toMain' = <<>>
  BY DEF LosesMessages
<1>3. Messages'
  <2>1. <<>> \in Seq(ToRenderer) /\ <<>> \in Seq(ToMain)
    BY EmptySeq
  <2> QED
    BY <1>1, <1>2, <2>1 DEF Queue, Messages
<1>4. Numbered'
  BY <1>1, <1>2 DEF Queue, Numbered
<1>5. Agree' /\ Alike'
  BY <1>1 DEF Agree, Alike
<1> QED
  BY <1>3, <1>4, <1>5 DEF Queue

(* The main process takes a message; if it answers the open prompt, none   *)
(* is open any more, and what the renderer shows by then is another one.   *)
LEMMA ReceiptQueues ==
  ASSUME QuitTypeOK, Queue, toMain # <<>>, toMain' = Tail(toMain),
         UNCHANGED <<issued, shown, toRenderer, isQuitting>>,
         \/ UNCHANGED confirmation
         \/ /\ confirmation' = NoPrompt
            /\ Confirms(Head(toMain)) /\ IsOpen(Head(toMain).id, "renderer")
  PROVE  Queue'
<1> DEFINE n == Len(toMain)
<1>1. /\ toMain' \in Seq(ToMain) /\ n \in Nat \ {0} /\ DOMAIN toMain = 1..n
      /\ DOMAIN toMain' = 1..n - 1 /\ 1 \in DOMAIN toMain /\ Head(toMain) = toMain[1]
      /\ \A k \in DOMAIN toMain' : k + 1 \in DOMAIN toMain /\ toMain'[k] = toMain[k + 1]
  BY HeadAndTail DEF Queue, Messages
<1> HIDE DEF n
<1>2. Messages'
  BY <1>1 DEF Queue, Messages
<1>3. Numbered'
  BY <1>1 DEF Queue, Numbered
<1>4. \A id : IsOpen(id, "renderer")' => IsOpen(id, "renderer") /\ UNCHANGED confirmation
  BY DEF IsOpen
<1>5. Alike'
  BY <1>4 DEF Queue, Alike
<1>6. CASE UNCHANGED confirmation
  <2>1. \A id, k : Followed(id, k) => Followed(id, k)'
    BY <1>6 DEF Followed, IsOpen
  <2>2. Agree'
    BY <2>1 DEF Queue, Agree
  <2> QED
    BY <1>2, <1>3, <1>5, <2>2 DEF Queue
<1>7. CASE /\ confirmation' = NoPrompt
           /\ Confirms(Head(toMain)) /\ IsOpen(Head(toMain).id, "renderer")
  <2>1. Confirms(toMain[1]) /\ IsOpen(toMain[1].id, "renderer")
    BY <1>1, <1>7
  <2>2. toMain[1].id \in Nat
    BY <1>1, Ids DEF Queue
  <2>3. /\ shown # NoPrompt => shown.id \in Nat /\ toMain[1].id < shown.id
        /\ \A i \in DOMAIN toRenderer : Requests(toRenderer[i]) =>
             toRenderer[i].id \in Nat /\ toMain[1].id < toRenderer[i].id
    BY <1>1, <2>1, Ids DEF Queue, Numbered
  <2>4. \A id \in Nat : IsOpen(id, "renderer") => id = toMain[1].id
    BY <2>1 DEF IsOpen
  <2>5. /\ shown # NoPrompt => ~IsOpen(shown.id, "renderer")
        /\ \A i \in DOMAIN toRenderer : Requests(toRenderer[i]) =>
             ~IsOpen(toRenderer[i].id, "renderer")
    BY <2>2, <2>3, <2>4
  <2>6. \A id, k : Followed(id, k) /\ ~IsOpen(id, "renderer") => Followed(id, k)'
    BY DEF Followed
  <2>7. Agree'
    BY <2>5, <2>6 DEF Queue, Agree
  <2> QED
    BY <1>2, <1>3, <1>5, <2>7 DEF Queue
<1> QED
  BY <1>6, <1>7

(* The renderer takes a message: a prompt it shows, and acknowledges, or a *)
(* withdrawal, which concerns what it shows or not.                        *)
LEMMA DeliveryQueues ==
  ASSUME QuitTypeOK, Queue, RendererReceives
  PROVE  Queue'
<1> DEFINE n == Len(toRenderer)
           m == Head(toRenderer)
<1>1. /\ toRenderer # <<>> /\ toRenderer' = Tail(toRenderer)
      /\ UNCHANGED <<confirmation, issued, isQuitting>>
  BY DEF RendererReceives, mainVars
<1>2. /\ toRenderer' \in Seq(ToRenderer) /\ n \in Nat \ {0} /\ DOMAIN toRenderer = 1..n
      /\ DOMAIN toRenderer' = 1..n - 1 /\ 1 \in DOMAIN toRenderer /\ m = toRenderer[1]
      /\ \A i \in DOMAIN toRenderer' :
           i + 1 \in DOMAIN toRenderer /\ toRenderer'[i] = toRenderer[i + 1]
  BY <1>1, HeadAndTail DEF Queue, Messages
<1> HIDE DEF n
<1>3. m \in ToRenderer /\ m.id \in Nat
  BY <1>2, Ids DEF Queue
<1>4. \A id : IsOpen(id, "renderer")' <=> IsOpen(id, "renderer")
  BY <1>1 DEF IsOpen
<1>5. ASSUME NEW id, NEW k \in 0..n - 1, Followed(id, k + 1) PROVE Followed(id, k)'
  <2>1. CASE IsOpen(id, "renderer")
    BY <1>4, <2>1 DEF Followed
  <2>2. CASE \E j \in DOMAIN toRenderer :
               j > k + 1 /\ (Requests(toRenderer[j]) \/ toRenderer[j].id = id)
    <3>1. PICK j \in DOMAIN toRenderer :
                 j > k + 1 /\ (Requests(toRenderer[j]) \/ toRenderer[j].id = id)
      BY <2>2
    <3>2. j - 1 \in DOMAIN toRenderer' /\ j - 1 > k /\ toRenderer'[j - 1] = toRenderer[j]
      BY <1>2, <3>1
    <3> QED
      BY <3>1, <3>2 DEF Followed
  <2> QED
    BY <1>5, <2>1, <2>2 DEF Followed
<1>6. ASSUME NEW i \in DOMAIN toRenderer', NEW id, id = toRenderer'[i].id,
             Requests(toRenderer'[i]), ~isQuitting
      PROVE  Followed(id, i)'
  <2>1. i + 1 \in DOMAIN toRenderer /\ Requests(toRenderer[i + 1]) /\ i \in 0..n - 1
        /\ id = toRenderer[i + 1].id
    BY <1>2, <1>6
  <2>2. Followed(id, i + 1)
    BY <1>6, <2>1 DEF Queue, Agree
  <2> QED
    BY <1>5, <2>1, <2>2
<1>7. \A i \in DOMAIN toRenderer' : Requests(toRenderer'[i]) /\ ~isQuitting' =>
        Followed(toRenderer[i].id, i)'
  BY <1>1, <1>6
<1>8. \A i \in DOMAIN toRenderer' :
        Requests(toRenderer'[i]) /\ IsOpen(toRenderer[i].id, "renderer")' =>
          toRenderer'[i].mode = confirmation'.mode
  <2> SUFFICES ASSUME NEW i \in DOMAIN toRenderer', NEW id, id = toRenderer'[i].id,
                      Requests(toRenderer'[i]), IsOpen(id, "renderer")'
               PROVE  toRenderer'[i].mode = confirmation'.mode
    OBVIOUS
  <2>1. i + 1 \in DOMAIN toRenderer /\ toRenderer[i + 1] = toRenderer'[i]
    BY <1>2
  <2> QED
    BY <1>1, <1>4, <2>1 DEF Queue, Alike
<1>9. ASSUME NEW i \in DOMAIN toRenderer'
      PROVE  /\ toRenderer'[i].id \in Nat /\ toRenderer'[i].id <= issued'
             /\ i + 1 \in DOMAIN toRenderer /\ toRenderer'[i] = toRenderer[i + 1]
  BY <1>1, <1>2, Ids DEF Queue, Numbered
<1>10. \A i, j \in DOMAIN toRenderer' :
         i < j /\ Requests(toRenderer'[i]) /\ Requests(toRenderer'[j]) =>
           toRenderer'[i].id < toRenderer'[j].id
  <2> SUFFICES ASSUME NEW i \in DOMAIN toRenderer', NEW j \in DOMAIN toRenderer', i < j,
                      Requests(toRenderer'[i]), Requests(toRenderer'[j])
               PROVE  toRenderer'[i].id < toRenderer'[j].id
    OBVIOUS
  <2>1. i + 1 < j + 1
    BY <1>2
  <2> QED
    BY <1>9, <2>1 DEF Queue, Numbered
<1>11. CASE /\ m.kind = "requested" /\ shown' = [id |-> m.id, mode |-> m.mode]
            /\ toMain' = Append(toMain, [kind |-> "received", id |-> m.id])
  <2> DEFINE e == [kind |-> "received", id |-> m.id]
             q == Len(toMain)
  <2>1. m.id \in Prompt /\ m.mode \in Modes /\ Requests(m)
    BY <1>3, <1>11 DEF ToRenderer, Requests
  <2>2. e \in ToMain /\ ~Confirms(e) /\ e.id = m.id
    BY <2>1, MessageTypes
  <2>3. shown' \in Shown /\ shown' # NoPrompt /\ shown'.id = m.id /\ shown'.mode = m.mode
    BY <1>11, <2>1, QuitAssumption DEF Shown, Modes
  <2>4. toMain' = Append(toMain, e)
    BY <1>11
  <2> HIDE DEF e
  <2>5. /\ toMain' \in Seq(ToMain) /\ q \in Nat /\ DOMAIN toMain = 1..q
        /\ DOMAIN toMain' = 1..q + 1 /\ toMain'[q + 1] = e
        /\ \A k \in DOMAIN toMain : k \in 1..q + 1 /\ toMain'[k] = toMain[k]
    BY <2>2, <2>4, Appended DEF Queue, Messages
  <2> HIDE DEF q
  <2>6. ASSUME NEW k \in DOMAIN toMain'
        PROVE  \/ k = q + 1 /\ toMain'[k] = e
               \/ k \in DOMAIN toMain /\ toMain'[k] = toMain[k]
    BY <2>5
  <2>7. Messages'
    BY <1>2, <2>3, <2>5 DEF Messages
  <2>8. m.id <= issued /\ issued' = issued /\ issued \in Nat
    BY <1>1, <1>2, Ids DEF Queue, Numbered
  <2>9. \A k \in DOMAIN toMain' : toMain'[k].id <= issued'
    BY <2>2, <2>6, <2>8 DEF Queue, Numbered
  <2>10. ASSUME NEW i \in DOMAIN toRenderer', Requests(toRenderer'[i])
         PROVE  m.id < toRenderer'[i].id
    <3>1. 1 < i + 1
      BY <1>2
    <3> QED
      BY <1>2, <1>9, <2>1, <2>10, <3>1 DEF Queue, Numbered
  <2>11. ASSUME NEW k \in DOMAIN toMain', Confirms(toMain'[k])
         PROVE  /\ toMain'[k].id < m.id
                /\ \A i \in DOMAIN toRenderer' : Requests(toRenderer'[i]) =>
                     toMain'[k].id < toRenderer'[i].id
    <3>1. k \in DOMAIN toMain /\ toMain'[k] = toMain[k]
      BY <2>2, <2>6, <2>11
    <3> QED
      BY <1>2, <1>9, <2>1, <2>11, <3>1 DEF Queue, Numbered
  <2>12. Numbered'
    BY <1>9, <1>10, <2>3, <2>8, <2>9, <2>10, <2>11 DEF Numbered
  <2>13. ~isQuitting => Followed(m.id, 1)
    BY <1>2, <2>1 DEF Queue, Agree
  <2>14. \A id : id = m.id /\ ~isQuitting => Followed(id, 0)'
    <3>1. 0 \in 0..n - 1 /\ 0 + 1 = 1
      BY <1>2
    <3> QED
      BY <1>5, <2>13, <3>1
  <2>15. Agree'
    BY <1>1, <1>7, <2>3, <2>14 DEF Agree
  <2>16. \A id : id = m.id /\ IsOpen(id, "renderer")' => m.mode = confirmation'.mode
    BY <1>1, <1>2, <1>4, <2>1 DEF Queue, Alike
  <2>17. Alike'
    BY <1>8, <2>3, <2>16 DEF Alike
  <2> QED
    BY <2>7, <2>12, <2>15, <2>17 DEF Queue
<1>12. CASE /\ m.kind = "invalidated" /\ UNCHANGED toMain
            /\ shown' = IF shown # NoPrompt /\ shown.id = m.id THEN NoPrompt ELSE shown
  <2>1. shown' # NoPrompt => shown' = shown /\ shown.id # m.id
    BY <1>12
  <2>2. ~Requests(m)
    BY <1>12 DEF Requests
  <2>3. Messages'
    BY <1>2, <1>12 DEF Queue, Messages
  <2>4. Numbered'
    BY <1>1, <1>9, <1>10, <1>12, <2>1 DEF Queue, Numbered
  <2>5. \A id : id # m.id /\ Followed(id, 0) => Followed(id, 1)
    BY <1>2, <2>2 DEF Followed
  <2>6. \A id : id # m.id /\ Followed(id, 0) => Followed(id, 0)'
    <3>1. 0 \in 0..n - 1 /\ 0 + 1 = 1
      BY <1>2
    <3> QED
      BY <1>5, <2>5, <3>1
  <2>7. shown' # NoPrompt /\ ~isQuitting => Followed(shown.id, 0)
    BY <2>1 DEF Queue, Agree
  <2>8. Agree'
    BY <1>1, <1>7, <2>1, <2>6, <2>7 DEF Agree
  <2>9. Alike'
    BY <1>1, <1>4, <1>8, <2>1 DEF Queue, Alike
  <2> QED
    BY <2>3, <2>4, <2>8, <2>9 DEF Queue
<1> QED
  BY <1>11, <1>12 DEF RendererReceives

(* The user answers what the renderer shows.                               *)
LEMMA DecisionQueues ==
  ASSUME QuitTypeOK, Queue, Decide
  PROVE  /\ Queue'
         /\ \A k \in DOMAIN toMain' :
              \/ k \in DOMAIN toMain /\ toMain'[k] = toMain[k]
                 /\ (Confirms(toMain[k]) => toMain[k].id < shown.id)
              \/ \E decision \in Offered(shown.mode) :
                   /\ toMain'[k] = [kind |-> "confirm", id |-> shown.id,
                                    decision |-> decision]
                   /\ will' = WillAfter(decision)
<1>1. /\ shown # NoPrompt /\ shown' = NoPrompt
      /\ UNCHANGED <<confirmation, issued, isQuitting, toRenderer>>
  BY DEF Decide, mainVars
<1>2. PICK decision \in Offered(shown.mode) :
        /\ toMain' = Append(toMain, [kind |-> "confirm", id |-> shown.id,
                                     decision |-> decision])
        /\ will' = WillAfter(decision)
  BY DEF Decide
<1> DEFINE e == [kind |-> "confirm", id |-> shown.id, decision |-> decision]
           q == Len(toMain)
<1>3. shown \in Shown /\ shown.id \in Prompt
  BY <1>1 DEF Queue, Messages, Shown
<1>4. e \in ToMain /\ Confirms(e) /\ e.id = shown.id
  BY <1>3, MessageTypes DEF Offered
<1>5. toMain' = Append(toMain, e)
  BY <1>2
<1>6. \A k \in DOMAIN toMain : Confirms(toMain[k]) => toMain[k].id < shown.id
  BY <1>1 DEF Queue, Numbered
<1>7. /\ shown.id \in Nat /\ shown.id <= issued /\ issued' = issued
      /\ \A i \in DOMAIN toRenderer : Requests(toRenderer[i]) => shown.id < toRenderer[i].id
  BY <1>1, Ids DEF Queue, Numbered
<1> HIDE DEF e
<1>8. /\ toMain' \in Seq(ToMain) /\ q \in Nat /\ DOMAIN toMain = 1..q
      /\ DOMAIN toMain' = 1..q + 1 /\ toMain'[q + 1] = e
      /\ \A k \in DOMAIN toMain : k \in 1..q + 1 /\ toMain'[k] = toMain[k]
  BY <1>4, <1>5, Appended DEF Queue, Messages
<1> HIDE DEF q
<1>9. ASSUME NEW k \in DOMAIN toMain'
      PROVE  \/ k = q + 1 /\ toMain'[k] = e
             \/ k \in DOMAIN toMain /\ toMain'[k] = toMain[k]
  BY <1>8
<1>10. Messages'
  BY <1>1, <1>8 DEF Queue, Messages
<1>11. \A k \in DOMAIN toMain' :
         /\ toMain'[k].id <= issued
         /\ \A i \in DOMAIN toRenderer : Confirms(toMain'[k]) /\ Requests(toRenderer[i]) =>
              toMain'[k].id < toRenderer[i].id
  BY <1>4, <1>7, <1>9 DEF Queue, Numbered
<1>12. Numbered'
  BY <1>1, <1>11 DEF Queue, Numbered
<1>13. \A id, k : Followed(id, k) => Followed(id, k)'
  BY <1>1 DEF Followed, IsOpen
<1>14. Agree'
  BY <1>1, <1>13 DEF Queue, Agree
<1>15. Alike'
  BY <1>1 DEF Queue, Alike, IsOpen
<1>16. \A k \in DOMAIN toMain' :
         \/ k \in DOMAIN toMain /\ toMain'[k] = toMain[k]
            /\ (Confirms(toMain[k]) => toMain[k].id < shown.id)
         \/ toMain'[k] = e
  BY <1>6, <1>9
<1> QED
  BY <1>2, <1>10, <1>12, <1>14, <1>15, <1>16 DEF Queue, e

-----------------------------------------------------------------------------
(* The initial states, and one lemma per action.                           *)

LEMMA QuitInitIInv == QuitInit => QuitIInv
<1> SUFFICES ASSUME QuitInit PROVE QuitIInv
  OBVIOUS
<1>1. <<>> \in Seq(ToRenderer) /\ <<>> \in Seq(ToMain) /\ DOMAIN <<>> = {}
  BY EmptySeq
<1>2. QuitTypeOK
  <2>1. 0 \in 0..MaxPrompts /\ 0 \in 0..MaxRequests /\ 0 \in 0..MaxEvents
    BY QuitAssumption
  <2> QED
    BY <2>1 DEF QuitInit, QuitTypeOK
<1>3. Rests /\ Apart
  BY DEF QuitInit, Rests, Apart
<1>4. Messages
  BY <1>1 DEF QuitInit, Messages
<1>5. Numbered /\ Agree /\ Alike
  BY <1>1 DEF QuitInit, Numbered, Agree, Alike
<1>6. Willed
  BY <1>1 DEF QuitInit, Willed
<1> QED
  BY <1>2, <1>3, <1>4, <1>5, <1>6 DEF QuitIInv, Queue

(* Invalidate, AskRenderer and AskNative, as the handlers use them.        *)
LEMMA InvalidateKeeps ==
  ASSUME QuitIInv, Invalidate, UNCHANGED <<shown, toMain, isQuitting, renderer>>
  PROVE  /\ Queue' /\ confirmation' = NoPrompt /\ ~timer' /\ UNCHANGED <<issued, dialogs>>
         /\ renderer' = "gone" => shown' = NoPrompt /\ toRenderer' = <<>>
<1>1. issued' \in issued..MaxPrompts
  BY QuitAssumption DEF QuitIInv, QuitTypeOK, Invalidate
<1>2. Queue' /\ (renderer = "gone" => toRenderer' = <<>>)
  BY <1>1, WithdrawalQueues DEF QuitIInv, Invalidate
<1> QED
  BY <1>2 DEF Invalidate, QuitIInv, Apart

LEMMA AskRendererKeeps ==
  ASSUME QuitIInv, NEW mode \in Modes, AskRenderer(mode), confirmation = NoPrompt, CanAsk,
         UNCHANGED <<shown, toMain, isQuitting, renderer>>
  PROVE  /\ Queue' /\ timer' /\ UNCHANGED dialogs /\ renderer' \in {"up", "hung"}
         /\ issued' \in 0..MaxPrompts
         /\ confirmation' \in Confirmation /\ confirmation'.owner = "renderer"
         /\ confirmation'.id = issued'
         /\ \A k \in DOMAIN toMain' : ~IsOpen(toMain[k].id, "renderer")'
<1>1. Queue'
  BY RequestQueues DEF QuitIInv
<1>2. /\ issued \in Nat /\ issued + 1 \in Prompt /\ issued' = issued + 1
      /\ issued' \in 0..MaxPrompts
  BY QuitAssumption DEF QuitIInv, QuitTypeOK, AskRenderer, Prompt
<1>3. /\ confirmation' \in Confirmation /\ confirmation'.owner = "renderer"
      /\ confirmation'.id = issued'
  BY <1>2 DEF AskRenderer, Confirmation, Modes
<1>4. \A k \in DOMAIN toMain : toMain[k].id \in Nat /\ toMain[k].id <= issued
  BY Ids DEF QuitIInv, Queue, Numbered
<1>5. \A k \in DOMAIN toMain' : ~IsOpen(toMain[k].id, "renderer")'
  BY <1>2, <1>3, <1>4 DEF IsOpen
<1> QED
  BY <1>1, <1>2, <1>3, <1>5 DEF AskRenderer, CanAsk

LEMMA AskNativeKeeps ==
  ASSUME QuitIInv, AskNative, UNCHANGED <<shown, toMain, isQuitting, renderer>>
  PROVE  /\ Queue' /\ ~timer' /\ dialogs' \subseteq Prompt /\ issued' \in 0..MaxPrompts
         /\ confirmation' \in Confirmation /\ confirmation'.owner = "native"
         /\ confirmation'.id = issued'
         /\ renderer' = "gone" => shown' = NoPrompt /\ toRenderer' = <<>>
<1>1. /\ issued \in Nat /\ issued + 1 \in Prompt /\ issued' = issued + 1
      /\ issued' \in 0..MaxPrompts /\ issued' \in issued..MaxPrompts
  BY QuitAssumption DEF QuitIInv, QuitTypeOK, AskNative, Prompt
<1>2. /\ confirmation' \in Confirmation /\ confirmation'.owner = "native"
      /\ confirmation'.id = issued'
  BY <1>1 DEF AskNative, Confirmation
<1>3. Queue' /\ (renderer = "gone" => toRenderer' = <<>>)
  BY <1>1, <1>2, WithdrawalQueues DEF QuitIInv, AskNative
<1> QED
  BY <1>1, <1>2, <1>3 DEF AskNative, QuitIInv, Apart, QuitTypeOK

LEMMA RequestQuitKeeps ==
  ASSUME QuitIInv, RequestQuit, UNCHANGED <<shown, toMain, isQuitting, residual, leaving, renderer>>,
         retry' \in BOOLEAN, retry' => retry /\ will' # "declined",
         requests' \in 0..MaxRequests, UNCHANGED events, owed' \in BOOLEAN,
         will' \in {"none", "quit", "declined", "force"},
         Busy => UNCHANGED will, ~Busy => will' # "declined"
  PROVE  QuitIInv'
<1>1. CASE Busy
  <2>1. UNCHANGED <<cleanup, forced, confirmation, timer, toRenderer, issued, dialogs>>
    BY <1>1 DEF RequestQuit
  <2>2. Queue'
    BY <2>1, QueuesStand DEF QuitIInv
  <2>3. QuitTypeOK'
    BY <2>1 DEF QuitIInv, QuitTypeOK
  <2>4. Rests' /\ Apart'
    BY <1>1, <2>1 DEF QuitIInv, Rests, Apart
  <2>5. Willed'
    BY <1>1, <2>1 DEF QuitIInv, Willed, IsOpen
  <2> QED
    BY <2>2, <2>3, <2>4, <2>5 DEF QuitIInv
<1>2. CASE /\ ~Busy /\ CanAsk /\ confirmation = NoPrompt
           /\ AskRenderer("ordinary") /\ UNCHANGED <<cleanup, forced>>
  <2>1. /\ Queue' /\ timer' /\ UNCHANGED dialogs /\ renderer' \in {"up", "hung"}
        /\ issued' \in 0..MaxPrompts
        /\ confirmation' \in Confirmation /\ confirmation'.owner = "renderer"
        /\ confirmation'.id = issued'
        /\ \A k \in DOMAIN toMain' : ~IsOpen(toMain[k].id, "renderer")'
    BY <1>2, AskRendererKeeps DEF Modes
  <2>2. confirmation' # NoPrompt
    BY <2>1, QuitAssumption
  <2>3. QuitTypeOK'
    BY <1>2, <2>1, <2>2 DEF QuitIInv, QuitTypeOK
  <2>4. Rests' /\ Apart'
    BY <1>2, <2>1 DEF QuitIInv, Rests, Apart, Busy, QuitTypeOK
  <2>5. Willed'
    BY <1>2, <2>1 DEF QuitIInv, Willed, Busy
  <2> QED
    BY <2>1, <2>3, <2>4, <2>5 DEF QuitIInv
<1>3. CASE ~Busy /\ (CanAsk => confirmation # NoPrompt) /\ Invalidate /\ Begin(FALSE)
  <2>1. /\ Queue' /\ confirmation' = NoPrompt /\ ~timer' /\ UNCHANGED <<issued, dialogs>>
        /\ (renderer' = "gone" => shown' = NoPrompt /\ toRenderer' = <<>>)
    BY <1>3, InvalidateKeeps
  <2>2. cleanup' = "running" /\ forced' = FALSE
    BY <1>3 DEF Begin
  <2>3. QuitTypeOK'
    BY <2>1, <2>2, <1>3 DEF QuitIInv, QuitTypeOK, Invalidate
  <2>4. Rests' /\ Apart'
    BY <2>1, <2>2 DEF QuitIInv, Rests, Apart
  <2>5. Willed'
    BY <1>3, <2>1, <2>2 DEF QuitIInv, Willed, IsOpen
  <2> QED
    BY <2>1, <2>3, <2>4, <2>5 DEF QuitIInv
<1> QED
  BY <1>1, <1>2, <1>3 DEF RequestQuit

LEMMA RequestKeeps == QuitIInv /\ Request => QuitIInv'
<1> SUFFICES ASSUME QuitIInv, Request PROVE QuitIInv'
  OBVIOUS
<1>1. /\ RequestQuit /\ UNCHANGED <<shown, toMain, isQuitting, residual, leaving, renderer>>
      /\ UNCHANGED <<retry, events>> /\ owed' \in BOOLEAN
      /\ will' = IF Busy THEN will ELSE "quit"
      /\ retry' \in BOOLEAN
  BY DEF Request, QuitIInv, QuitTypeOK
<1>2. requests' \in 0..MaxRequests
  BY QuitAssumption DEF Request, QuitIInv, QuitTypeOK
<1>3. will' \in {"none", "quit", "declined", "force"} /\ (retry => will' # "declined")
  BY <1>1 DEF QuitIInv, QuitTypeOK, Apart
<1> QED
  BY <1>1, <1>2, <1>3, RequestQuitKeeps

LEMMA RetryKeeps == QuitIInv /\ Retry => QuitIInv'
<1> SUFFICES ASSUME QuitIInv, Retry PROVE QuitIInv'
  OBVIOUS
<1>1. /\ RequestQuit /\ UNCHANGED <<shown, toMain, isQuitting, residual, leaving, renderer>>
      /\ UNCHANGED <<will, requests, events, owed>> /\ retry /\ retry' = FALSE
  BY DEF Retry
<1>2. /\ requests \in 0..MaxRequests /\ will \in {"none", "quit", "declined", "force"}
      /\ owed \in BOOLEAN /\ will # "declined"
  BY <1>1 DEF QuitIInv, QuitTypeOK, Apart
<1> QED
  BY <1>1, <1>2, RequestQuitKeeps

LEMMA DeliveryTimesOutKeeps == QuitIInv /\ DeliveryTimesOut => QuitIInv'
<1> SUFFICES ASSUME QuitIInv, DeliveryTimesOut PROVE QuitIInv'
  OBVIOUS
<1>1. /\ timer /\ confirmation # NoPrompt /\ confirmation.owner = "renderer" /\ will # "declined"
      /\ ~isQuitting /\ cleanup # "running"
      /\ UNCHANGED <<isQuitting, residual, retry, leaving, renderer, shown, toMain,
                     requests, events, will, owed>>
  BY DEF DeliveryTimesOut, QuitIInv, QuitTypeOK, Willed, Rests
<1>2. CASE Invalidate /\ Begin(FALSE)
  <2>1. /\ Queue' /\ confirmation' = NoPrompt /\ ~timer' /\ UNCHANGED <<issued, dialogs>>
        /\ (renderer' = "gone" => shown' = NoPrompt /\ toRenderer' = <<>>)
    BY <1>1, <1>2, InvalidateKeeps
  <2>2. cleanup' = "running" /\ forced' = FALSE
    BY <1>1, <1>2 DEF Begin, Busy
  <2>3. QuitTypeOK'
    BY <1>1, <1>2, <2>1, <2>2 DEF QuitIInv, QuitTypeOK, Invalidate
  <2>4. Rests' /\ Apart'
    BY <1>1, <2>1, <2>2 DEF QuitIInv, Rests, Apart
  <2>5. Willed'
    BY <1>1, <2>1, <2>2 DEF QuitIInv, Willed, IsOpen
  <2> QED
    BY <2>1, <2>3, <2>4, <2>5 DEF QuitIInv
<1>3. CASE AskNative /\ UNCHANGED <<cleanup, forced>>
  <2>1. /\ Queue' /\ ~timer' /\ dialogs' \subseteq Prompt /\ issued' \in 0..MaxPrompts
        /\ confirmation' \in Confirmation /\ confirmation'.owner = "native"
        /\ confirmation'.id = issued'
        /\ (renderer' = "gone" => shown' = NoPrompt /\ toRenderer' = <<>>)
    BY <1>1, <1>3, AskNativeKeeps
  <2>2. QuitTypeOK'
    BY <1>1, <1>3, <2>1 DEF QuitIInv, QuitTypeOK, AskNative
  <2>3. Rests' /\ Apart'
    BY <1>1, <1>3, <2>1 DEF QuitIInv, Rests, Apart, QuitTypeOK
  <2>4. Willed'
    BY <1>1, <1>3, <2>1 DEF QuitIInv, Willed, IsOpen
  <2> QED
    BY <2>1, <2>2, <2>3, <2>4 DEF QuitIInv
<1> QED
  BY <1>2, <1>3 DEF DeliveryTimesOut

LEMMA CleanupEndsKeeps == QuitIInv /\ CleanupEnds => QuitIInv'
<1> SUFFICES ASSUME QuitIInv, CleanupEnds PROVE QuitIInv'
  OBVIOUS
<1>1. /\ cleanup = "running" /\ confirmation = NoPrompt /\ will # "declined"
      /\ cleanup' = "idle" /\ residual' \in BOOLEAN
      /\ UNCHANGED <<forced, retry, renderer, shown, toMain, requests, events, will, owed>>
  BY DEF CleanupEnds, QuitIInv, Rests, Willed
<1>2. CASE ~isQuitting /\ AskResidual /\ UNCHANGED <<isQuitting, leaving>>
  <2>1. CASE CanAsk /\ AskRenderer("residual")
    <3>1. /\ Queue' /\ timer' /\ UNCHANGED dialogs /\ renderer' \in {"up", "hung"}
          /\ issued' \in 0..MaxPrompts
          /\ confirmation' \in Confirmation /\ confirmation'.owner = "renderer"
          /\ confirmation'.id = issued'
          /\ \A k \in DOMAIN toMain' : ~IsOpen(toMain[k].id, "renderer")'
      BY <1>1, <1>2, <2>1, AskRendererKeeps DEF Modes
    <3>2. confirmation' # NoPrompt /\ timer' = TRUE
      BY <2>1, <3>1, QuitAssumption DEF AskRenderer
    <3>3. QuitTypeOK'
      BY <1>1, <1>2, <3>1, <3>2 DEF QuitIInv, QuitTypeOK
    <3>4. Rests' /\ Apart'
      BY <1>1, <1>2, <3>1 DEF QuitIInv, Rests, Apart, QuitTypeOK
    <3>5. Willed'
      BY <1>1, <3>1 DEF Willed
    <3> QED
      BY <3>1, <3>3, <3>4, <3>5 DEF QuitIInv
  <2>2. CASE AskNative
    <3>1. /\ Queue' /\ ~timer' /\ dialogs' \subseteq Prompt /\ issued' \in 0..MaxPrompts
          /\ confirmation' \in Confirmation /\ confirmation'.owner = "native"
          /\ confirmation'.id = issued'
          /\ (renderer' = "gone" => shown' = NoPrompt /\ toRenderer' = <<>>)
      BY <1>1, <1>2, <2>2, AskNativeKeeps
    <3>2. timer' = FALSE
      BY <2>2 DEF AskNative
    <3>3. QuitTypeOK'
      BY <1>1, <1>2, <3>1, <3>2 DEF QuitIInv, QuitTypeOK
    <3>4. Rests' /\ Apart'
      BY <1>1, <1>2, <3>1 DEF QuitIInv, Rests, Apart, QuitTypeOK
    <3>5. Willed'
      BY <1>1, <3>1 DEF Willed, IsOpen
    <3> QED
      BY <3>1, <3>3, <3>4, <3>5 DEF QuitIInv
  <2> QED
    BY <1>2, <2>1, <2>2 DEF AskResidual
<1>3. CASE Finish /\ UNCHANGED <<confirmation, timer, toRenderer, issued, dialogs>>
  <2>1. isQuitting' = TRUE /\ leaving' \in {"no", "asked", "torn", "gone"}
    BY <1>3 DEF Finish, QuitIInv, QuitTypeOK
  <2>2. Queue'
    BY <1>1, <1>3, <2>1, QueuesStand DEF QuitIInv
  <2>3. QuitTypeOK'
    BY <1>1, <1>3, <2>1 DEF QuitIInv, QuitTypeOK
  <2>4. Rests' /\ Apart'
    BY <1>1, <1>3, <2>1 DEF QuitIInv, Rests, Apart
  <2>5. Willed'
    BY <1>1, <1>3 DEF QuitIInv, Willed, IsOpen
  <2> QED
    BY <2>2, <2>3, <2>4, <2>5 DEF QuitIInv
<1> QED
  BY <1>2, <1>3 DEF CleanupEnds

LEMMA BudgetSpentKeeps == QuitIInv /\ BudgetSpent => QuitIInv'
<1> SUFFICES ASSUME QuitIInv, BudgetSpent PROVE QuitIInv'
  OBVIOUS
<1>1. /\ cleanup = "running" /\ confirmation = NoPrompt /\ cleanup' = "late" /\ Finish
      /\ UNCHANGED <<forced, residual, confirmation, timer, toRenderer, issued, dialogs,
                     retry, renderer, shown, toMain, requests, events, will, owed>>
  BY DEF BudgetSpent, QuitIInv, Rests
<1>2. isQuitting' = TRUE /\ leaving' \in {"no", "asked", "torn", "gone"}
  BY <1>1 DEF Finish, QuitIInv, QuitTypeOK
<1>3. Queue'
  BY <1>1, <1>2, QueuesStand DEF QuitIInv
<1>4. QuitTypeOK'
  BY <1>1, <1>2 DEF QuitIInv, QuitTypeOK
<1>5. Rests' /\ Apart'
  BY <1>1, <1>2 DEF QuitIInv, Rests, Apart
<1>6. Willed'
  BY <1>1 DEF QuitIInv, Willed, IsOpen
<1> QED
  BY <1>3, <1>4, <1>5, <1>6 DEF QuitIInv

LEMMA LateCleanupEndsKeeps == QuitIInv /\ LateCleanupEnds => QuitIInv'
<1> SUFFICES ASSUME QuitIInv, LateCleanupEnds PROVE QuitIInv'
  OBVIOUS
<1>1. /\ cleanup = "late" /\ isQuitting /\ cleanup' = "idle" /\ residual' \in BOOLEAN
      /\ UNCHANGED <<confirmation, timer, toRenderer, issued, dialogs, isQuitting, forced,
                     retry, leaving, renderer, shown, toMain, requests, events, will, owed>>
  BY DEF LateCleanupEnds, QuitIInv, Rests
<1>2. Queue'
  BY <1>1, QueuesStand DEF QuitIInv
<1>3. QuitTypeOK'
  BY <1>1 DEF QuitIInv, QuitTypeOK
<1>4. Rests' /\ Apart'
  BY <1>1 DEF QuitIInv, Rests, Apart
<1>5. Willed'
  BY <1>1 DEF QuitIInv, Willed, IsOpen
<1> QED
  BY <1>2, <1>3, <1>4, <1>5 DEF QuitIInv

LEMMA AnswerNativeKeeps == QuitIInv /\ AnswerNative => QuitIInv'
<1> SUFFICES ASSUME QuitIInv, AnswerNative PROVE QuitIInv'
  OBVIOUS
<1>1. PICK id \in dialogs, force \in BOOLEAN :
        /\ dialogs' = dialogs \ {id}
        /\ \/ /\ ~isQuitting /\ IsOpen(id, "native") /\ confirmation' = NoPrompt
              /\ Begin(force) /\ will' = IF force THEN "force" ELSE "quit"
           \/ UNCHANGED <<confirmation, cleanup, forced, will>>
        /\ UNCHANGED <<isQuitting, residual, timer, issued, retry, leaving, screenVars,
                       requests, events, owed>>
  BY DEF AnswerNative
<1>2. dialogs' \subseteq Prompt
  BY <1>1 DEF QuitIInv, QuitTypeOK
<1>3. CASE UNCHANGED <<confirmation, cleanup, forced, will>>
  <2>1. Queue'
    BY <1>1, <1>3, QueuesStand DEF QuitIInv, screenVars
  <2>2. QuitTypeOK'
    BY <1>1, <1>2, <1>3 DEF QuitIInv, QuitTypeOK, screenVars
  <2>3. Rests' /\ Apart'
    BY <1>1, <1>3 DEF QuitIInv, Rests, Apart, screenVars
  <2>4. Willed'
    BY <1>1, <1>3 DEF QuitIInv, Willed, IsOpen, screenVars
  <2> QED
    BY <2>1, <2>2, <2>3, <2>4 DEF QuitIInv
<1>4. CASE /\ ~isQuitting /\ IsOpen(id, "native") /\ confirmation' = NoPrompt
           /\ Begin(force) /\ will' = IF force THEN "force" ELSE "quit"
  <2>1. /\ confirmation # NoPrompt /\ confirmation.owner = "native" /\ cleanup # "running"
        /\ timer = FALSE
    BY <1>4 DEF IsOpen, QuitIInv, Rests, QuitTypeOK
  <2>2. cleanup' = "running" /\ forced' = force
    BY <1>4, <2>1 DEF Begin, Busy
  <2>3. Queue'
    BY <1>1, <1>4, <2>1, QueuesStand DEF QuitIInv, screenVars
  <2>4. QuitTypeOK'
    BY <1>1, <1>2, <1>4, <2>1, <2>2 DEF QuitIInv, QuitTypeOK, screenVars
  <2>5. Rests' /\ Apart'
    BY <1>1, <1>4, <2>2 DEF QuitIInv, Rests, Apart, screenVars
  <2>6. Willed'
    BY <1>1, <1>4, <2>1, <2>2 DEF Willed, IsOpen, screenVars
  <2> QED
    BY <2>3, <2>4, <2>5, <2>6 DEF QuitIInv
<1> QED
  BY <1>1, <1>3, <1>4

LEMMA NativeFailsKeeps == QuitIInv /\ NativeFails => QuitIInv'
<1> SUFFICES ASSUME QuitIInv, NativeFails PROVE QuitIInv'
  OBVIOUS
<1>1. PICK id \in dialogs :
        /\ events < MaxEvents /\ events' = events + 1 /\ dialogs' = dialogs \ {id}
        /\ confirmation' = IF IsOpen(id, "native") THEN NoPrompt ELSE confirmation
        /\ owed' = (owed /\ ~IsOpen(id, "native"))
        /\ UNCHANGED <<isQuitting, cleanup, forced, residual, timer, issued, retry, leaving,
                       screenVars, requests, will>>
  BY DEF NativeFails
<1>2. dialogs' \subseteq Prompt /\ events' \in 0..MaxEvents /\ owed' \in BOOLEAN
  BY <1>1, QuitAssumption DEF QuitIInv, QuitTypeOK
<1>3. \/ UNCHANGED confirmation
      \/ /\ confirmation # NoPrompt /\ confirmation.owner = "native" /\ confirmation' = NoPrompt
         /\ ~timer
  BY <1>1 DEF IsOpen, QuitIInv, QuitTypeOK
<1>4. Queue'
  BY <1>1, <1>3, QueuesStand DEF QuitIInv, screenVars
<1>5. QuitTypeOK'
  BY <1>1, <1>2, <1>3 DEF QuitIInv, QuitTypeOK, screenVars
<1>6. Rests' /\ Apart'
  BY <1>1, <1>3 DEF QuitIInv, Rests, Apart, screenVars
<1>7. Willed'
  BY <1>1, <1>3 DEF QuitIInv, Willed, IsOpen, screenVars
<1> QED
  BY <1>4, <1>5, <1>6, <1>7 DEF QuitIInv

(* The process comes to its end, and the page loads, hangs and wakes, with *)
(* prompts and messages as they were.                                      *)
LEMMA AsideKeeps == QuitIInv /\ (BeforeQuit \/ Exit \/ Loaded \/ Hang \/ Wake) => QuitIInv'
<1> SUFFICES ASSUME QuitIInv, BeforeQuit \/ Exit \/ Loaded \/ Hang \/ Wake PROVE QuitIInv'
  OBVIOUS
<1>1. /\ UNCHANGED <<isQuitting, cleanup, forced, residual, confirmation, timer, issued,
                     dialogs, retry, shown, toRenderer, toMain, requests, will>>
      /\ leaving' \in {"no", "asked", "torn", "gone"} /\ owed' \in BOOLEAN
  BY DEF BeforeQuit, Exit, Loaded, Hang, Wake, mainVars, screenVars, QuitIInv, QuitTypeOK
<1>2. /\ renderer' \in {"up", "hung", "loading", "gone"} /\ (renderer' = "gone" => renderer = "gone")
      /\ renderer' # renderer => renderer \in {"up", "hung"} \/ ~retry
  BY DEF BeforeQuit, Exit, Loaded, Hang, Wake, mainVars, screenVars, QuitIInv, QuitTypeOK
<1>3. events' \in 0..MaxEvents
  BY QuitAssumption DEF BeforeQuit, Exit, Loaded, Hang, Wake, Event, QuitIInv, QuitTypeOK
<1>4. Queue'
  BY <1>1, QueuesStand DEF QuitIInv
<1>5. QuitTypeOK'
  BY <1>1, <1>2, <1>3 DEF QuitIInv, QuitTypeOK
<1>6. Rests' /\ Apart'
  BY <1>1, <1>2 DEF QuitIInv, Rests, Apart
<1>7. Willed'
  BY <1>1 DEF QuitIInv, Willed, IsOpen
<1> QED
  BY <1>4, <1>5, <1>6, <1>7 DEF QuitIInv

LEMMA MainReceivesKeeps == QuitIInv /\ MainReceives => QuitIInv'
<1> SUFFICES ASSUME QuitIInv, MainReceives PROVE QuitIInv'
  OBVIOUS
<1> DEFINE n == Len(toMain)
           m == Head(toMain)
<1>1. /\ toMain # <<>> /\ toMain' = Tail(toMain)
      /\ UNCHANGED <<isQuitting, residual, issued, dialogs, retry, leaving, renderer,
                     shown, toRenderer, requests, events, will>>
  BY DEF MainReceives
<1>2. /\ n \in Nat \ {0} /\ DOMAIN toMain = 1..n
      /\ DOMAIN toMain' = 1..n - 1 /\ 1 \in DOMAIN toMain /\ m = toMain[1]
      /\ \A k \in DOMAIN toMain' : k + 1 \in DOMAIN toMain /\ toMain'[k] = toMain[k + 1]
  BY <1>1, HeadAndTail DEF QuitIInv, Queue, Messages
<1> HIDE DEF n, m
<1>3. \A k \in DOMAIN toMain' : \E l \in DOMAIN toMain : toMain'[k] = toMain[l]
  BY <1>2
<1>4. CASE /\ timer' \in BOOLEAN /\ (timer' => timer) /\ owed' \in BOOLEAN
           /\ UNCHANGED <<confirmation, cleanup, forced>>
  <2>1. Queue'
    BY <1>1, <1>4, ReceiptQueues DEF QuitIInv
  <2>2. QuitTypeOK'
    BY <1>1, <1>4 DEF QuitIInv, QuitTypeOK
  <2>3. Rests' /\ Apart'
    BY <1>1, <1>4 DEF QuitIInv, Rests, Apart
  <2>4. Willed'
    BY <1>1, <1>3, <1>4 DEF QuitIInv, Willed, IsOpen
  <2> QED
    BY <2>1, <2>2, <2>3, <2>4 DEF QuitIInv
<1>5. CASE /\ m.kind = "confirm" /\ Admissible(m) /\ confirmation' = NoPrompt /\ timer' = FALSE
           /\ owed' \in BOOLEAN
           /\ \/ m.decision = "cancel" /\ UNCHANGED <<cleanup, forced>>
              \/ /\ m.decision # "cancel"
                 /\ Begin(m.decision = "quit" /\ confirmation.mode = "residual")
  <2>1. Confirms(m) /\ IsOpen(m.id, "renderer")
    BY <1>5 DEF Confirms, Admissible
  <2>2. Queue'
    BY <1>1, <1>5, <2>1, ReceiptQueues DEF QuitIInv, m
  <2>3. confirmation # NoPrompt /\ cleanup # "running" /\ ~isQuitting
    BY <2>1 DEF IsOpen, QuitIInv, Rests
  <2>4. m.decision # "cancel" =>
          will # "declined" /\ (m.decision = "quit" /\ confirmation.mode = "residual" =>
                                  will = "force")
    BY <1>2, <2>1 DEF QuitIInv, Willed
  <2>5. \/ UNCHANGED <<cleanup, forced>>
        \/ /\ m.decision # "cancel" /\ cleanup' = "running"
           /\ forced' = (m.decision = "quit" /\ confirmation.mode = "residual")
    BY <1>5, <2>3 DEF Begin, Busy
  <2>6. cleanup' = "running" => will # "declined" /\ (forced' => will = "force")
    BY <2>3, <2>4, <2>5
  <2>7. QuitTypeOK'
    <3>1. QuitTypeOK
      BY DEF QuitIInv
    <3>2. cleanup' \in {"idle", "running", "late"} /\ forced' \in BOOLEAN
      BY <2>5, <3>1 DEF QuitTypeOK
    <3> QED BY <1>1, <1>5, <3>1, <3>2 DEF QuitTypeOK
  <2>8. Rests' /\ Apart'
    BY <1>1, <1>5, <2>3, <2>5 DEF QuitIInv, Rests, Apart
  <2>9. Willed'
    BY <1>1, <1>5, <2>6 DEF Willed, IsOpen
  <2> QED
    BY <2>2, <2>7, <2>8, <2>9 DEF QuitIInv
<1>6. TakeAcknowledgement(m) \/ TakeAnswer(m)
  BY DEF MainReceives, m
<1>7. timer \in BOOLEAN /\ owed \in BOOLEAN
  BY DEF QuitIInv, QuitTypeOK
<1>8. CASE TakeAcknowledgement(m)
  <2>1. /\ timer' \in BOOLEAN /\ (timer' => timer) /\ owed' \in BOOLEAN
        /\ UNCHANGED <<confirmation, cleanup, forced>>
    BY <1>7, <1>8 DEF TakeAcknowledgement
  <2> QED
    BY <1>4, <2>1
<1>9. CASE m.kind = "confirm" /\ UNCHANGED <<confirmation, timer, cleanup, forced, owed>>
  BY <1>4, <1>7, <1>9
<1> QED
  BY <1>5, <1>6, <1>7, <1>8, <1>9 DEF TakeAnswer

LEMMA RendererReceivesKeeps == QuitIInv /\ RendererReceives => QuitIInv'
<1> SUFFICES ASSUME QuitIInv, RendererReceives PROVE QuitIInv'
  OBVIOUS
<1>1. /\ renderer = "up" /\ UNCHANGED <<mainVars, renderer, requests, events, will, owed>>
  BY DEF RendererReceives
<1>2. Queue'
  BY DeliveryQueues DEF QuitIInv
<1>3. QuitTypeOK'
  BY <1>1 DEF QuitIInv, QuitTypeOK, mainVars
<1>4. Rests' /\ Apart'
  BY <1>1 DEF QuitIInv, Rests, Apart, mainVars
<1>5. \A k \in DOMAIN toMain' : Confirms(toMain'[k]) =>
        k \in DOMAIN toMain /\ toMain'[k] = toMain[k]
  <2> SUFFICES ASSUME NEW id, toMain' = Append(toMain, [kind |-> "received", id |-> id])
               PROVE  \A k \in DOMAIN toMain' : Confirms(toMain'[k]) =>
                        k \in DOMAIN toMain /\ toMain'[k] = toMain[k]
    BY DEF RendererReceives
  <2>1. toMain \in Seq(ToMain)
    BY DEF QuitIInv, Queue, Messages
  <2>2. /\ DOMAIN toMain = 1..Len(toMain) /\ Len(toMain) \in Nat
        /\ DOMAIN toMain' = 1..Len(toMain) + 1
        /\ \A k \in 1..Len(toMain) : toMain'[k] = toMain[k]
        /\ toMain'[Len(toMain) + 1] = [kind |-> "received", id |-> id]
    BY <2>1
  <2>3. ~Confirms([kind |-> "received", id |-> id])
    BY DEF Confirms
  <2> QED
    BY <2>2, <2>3
<1>6. Willed'
  BY <1>1, <1>5 DEF QuitIInv, Willed, IsOpen, mainVars
<1> QED
  BY <1>2, <1>3, <1>4, <1>6 DEF QuitIInv

LEMMA DecideKeeps == QuitIInv /\ Decide => QuitIInv'
<1> SUFFICES ASSUME QuitIInv, Decide PROVE QuitIInv'
  OBVIOUS
<1>1. /\ renderer = "up" /\ shown # NoPrompt /\ shown' = NoPrompt
      /\ UNCHANGED <<mainVars, renderer, toRenderer, requests, events, owed>>
      /\ \E decision \in Offered(shown.mode) : will' = WillAfter(decision)
  BY DEF Decide
<1>2. Queue'
  BY DecisionQueues DEF QuitIInv
<1>3. ASSUME NEW decision \in Offered(shown.mode), will' = WillAfter(decision)
      PROVE  /\ will' \in {"none", "quit", "declined", "force"}
             /\ IsOpen(shown.id, "renderer") \/ will' = will
             /\ IsOpen(shown.id, "renderer") /\ timer /\ will # "declined" =>
                  will' # "declined"
             /\ IsOpen(shown.id, "renderer") /\ decision # "cancel" =>
                  /\ will' # "declined"
                  /\ decision = "quit" /\ shown.mode = "residual" => will' = "force"
  BY <1>3 DEF WillAfter, Offered, QuitIInv, QuitTypeOK
<1>4. PICK decision \in Offered(shown.mode) : will' = WillAfter(decision)
  BY <1>1
<1>5. timer => will' # "declined"
  BY <1>3, <1>4 DEF QuitIInv, Willed
<1>6. cleanup = "running" => will' = will
  BY <1>3, <1>4 DEF IsOpen, QuitIInv, Rests
<1>7. QuitTypeOK'
  BY <1>1, <1>3, <1>4 DEF QuitIInv, QuitTypeOK, mainVars
<1>8. Rests'
  BY <1>1 DEF QuitIInv, Rests, mainVars
<1>9. Apart'
  BY <1>1 DEF QuitIInv, Apart, mainVars
<1>10. ASSUME NEW k \in DOMAIN toMain',
              Confirms(toMain'[k]), toMain'[k].decision # "cancel",
              NEW id, id = toMain'[k].id, IsOpen(id, "renderer")
       PROVE  /\ will' # "declined"
              /\ toMain'[k].decision = "quit" /\ confirmation.mode = "residual" =>
                   will' = "force"
  <2>1. CASE k \in DOMAIN toMain /\ toMain'[k] = toMain[k] /\ toMain[k].id < shown.id
    <3>1. toMain[k].id \in Nat /\ shown.id \in Nat
      BY <1>1, <2>1, Ids DEF QuitIInv, Queue
    <3>2. ~IsOpen(shown.id, "renderer")
      BY <1>10, <2>1, <3>1 DEF IsOpen
    <3>3. will' = will
      BY <1>3, <1>4, <3>2
    <3> QED
      BY <1>10, <2>1, <3>3 DEF QuitIInv, Willed
  <2>2. ASSUME NEW d \in Offered(shown.mode), will' = WillAfter(d),
               toMain'[k] = [kind |-> "confirm", id |-> shown.id, decision |-> d]
        PROVE  /\ will' # "declined"
               /\ toMain'[k].decision = "quit" /\ confirmation.mode = "residual" =>
                    will' = "force"
    <3>1. IsOpen(shown.id, "renderer") /\ d # "cancel" /\ toMain'[k].decision = d
      BY <1>10, <2>2
    <3>2. shown.mode = confirmation.mode
      BY <1>1, <3>1 DEF QuitIInv, Queue, Alike
    <3> QED
      BY <1>3, <2>2, <3>1, <3>2
  <2> QED
    BY <1>10, <2>1, <2>2, DecisionQueues DEF QuitIInv
<1>11. \A k \in DOMAIN toMain' :
         /\ Confirms(toMain'[k]) /\ toMain'[k].decision # "cancel"
         /\ IsOpen(toMain[k].id, "renderer")'
         => /\ will' # "declined"
            /\ toMain'[k].decision = "quit" /\ confirmation'.mode = "residual" =>
                 will' = "force"
  <2>1. /\ confirmation' = confirmation
        /\ \A id : IsOpen(id, "renderer")' <=> IsOpen(id, "renderer")
    BY <1>1 DEF mainVars, IsOpen
  <2> QED
    BY <1>10, <2>1
<1>12. Willed'
  BY <1>1, <1>5, <1>6, <1>11 DEF QuitIInv, Willed, mainVars
<1> QED
  BY <1>2, <1>7, <1>8, <1>9, <1>12 DEF QuitIInv

LEMMA RenderProcessGoneKeeps == QuitIInv /\ RenderProcessGone => QuitIInv'
<1> SUFFICES ASSUME QuitIInv, RenderProcessGone PROVE QuitIInv'
  OBVIOUS
<1>1. /\ renderer' = "gone" /\ LosesMessages
      /\ UNCHANGED <<isQuitting, cleanup, forced, residual, issued, dialogs, leaving,
                     requests, owed>>
  BY DEF RenderProcessGone
<1>2. events' \in 0..MaxEvents
  BY QuitAssumption DEF RenderProcessGone, Event, QuitIInv, QuitTypeOK
<1>3. \/ /\ confirmation # NoPrompt /\ confirmation' = NoPrompt /\ timer' = FALSE
         /\ retry' = TRUE /\ will' = "quit"
      \/ UNCHANGED <<confirmation, timer, retry, will>>
  BY DEF RenderProcessGone
<1>4. Queue'
  BY <1>1, LossQueues DEF QuitIInv
<1>5. QuitTypeOK'
  <2>1. CASE confirmation' = NoPrompt /\ timer' = FALSE /\ retry' = TRUE /\ will' = "quit"
    BY <1>1, <1>2, <2>1 DEF QuitIInv, QuitTypeOK
  <2>2. CASE UNCHANGED <<confirmation, timer, retry, will>>
    BY <1>1, <1>2, <2>2 DEF QuitIInv, QuitTypeOK
  <2> QED
    BY <1>3, <2>1, <2>2
<1>6. Rests'
  BY <1>1, <1>3 DEF QuitIInv, Rests
<1>7. Apart'
  BY <1>1, <1>3 DEF QuitIInv, Apart, LosesMessages
<1>8. DOMAIN <<>> = {} /\ (toMain' = toMain \/ toMain' = <<>>)
  BY <1>1 DEF LosesMessages
<1>9. CASE confirmation # NoPrompt /\ confirmation' = NoPrompt /\ timer' = FALSE
  <2>1. cleanup' # "running"
    BY <1>1, <1>9 DEF QuitIInv, Rests
  <2> QED
    BY <1>2, <1>4, <1>5, <1>6, <1>7, <1>9, <2>1 DEF QuitIInv, Willed, IsOpen
<1>10. CASE UNCHANGED <<confirmation, timer, retry, will>>
  <2>1. Willed'
    BY <1>1, <1>8, <1>10 DEF QuitIInv, Willed, IsOpen
  <2> QED
    BY <1>4, <1>5, <1>6, <1>7, <2>1 DEF QuitIInv
<1> QED
  BY <1>3, <1>9, <1>10

LEMMA ReloadKeeps == QuitIInv /\ Reload => QuitIInv'
<1> SUFFICES ASSUME QuitIInv, Reload PROVE QuitIInv'
  OBVIOUS
<1>1. /\ renderer' = "loading" /\ LosesMessages /\ owed' \in BOOLEAN
      /\ UNCHANGED <<mainVars, requests, will>>
  BY DEF Reload, QuitIInv, QuitTypeOK
<1>2. events' \in 0..MaxEvents
  BY QuitAssumption DEF Reload, Event, QuitIInv, QuitTypeOK
<1>3. Queue'
  BY <1>1, LossQueues DEF QuitIInv, mainVars
<1>4. QuitTypeOK'
  BY <1>1, <1>2 DEF QuitIInv, QuitTypeOK, mainVars
<1>5. Rests' /\ Apart'
  BY <1>1 DEF QuitIInv, Rests, Apart, mainVars
<1>6. DOMAIN <<>> = {} /\ (toMain' = toMain \/ toMain' = <<>>)
  BY <1>1 DEF LosesMessages
<1>7. Willed'
  BY <1>1, <1>6 DEF QuitIInv, Willed, IsOpen, mainVars
<1> QED
  BY <1>3, <1>4, <1>5, <1>7 DEF QuitIInv

LEMMA SessionEndsKeeps == QuitIInv /\ SessionEnds => QuitIInv'
<1> SUFFICES ASSUME QuitIInv, SessionEnds PROVE QuitIInv'
  OBVIOUS
<1>1. /\ isQuitting' = TRUE /\ confirmation' = NoPrompt /\ timer' = FALSE /\ leaving' = "asked"
      /\ UNCHANGED <<cleanup, forced, residual, issued, dialogs, retry, screenVars,
                     requests, will, owed>>
  BY DEF SessionEnds
<1>2. events' \in 0..MaxEvents
  BY QuitAssumption DEF SessionEnds, Event, QuitIInv, QuitTypeOK
<1>3. Queue'
  BY <1>1, QueuesStand DEF QuitIInv, screenVars
<1>4. QuitTypeOK'
  BY <1>1, <1>2 DEF QuitIInv, QuitTypeOK, screenVars
<1>5. Rests' /\ Apart'
  BY <1>1 DEF QuitIInv, Rests, Apart, screenVars
<1>6. Willed'
  BY <1>1 DEF QuitIInv, Willed, IsOpen, screenVars
<1> QED
  BY <1>3, <1>4, <1>5, <1>6 DEF QuitIInv

LEMMA StutterKeeps == QuitIInv /\ UNCHANGED quitVars => QuitIInv'
<1> SUFFICES ASSUME QuitIInv, UNCHANGED quitVars PROVE QuitIInv'
  OBVIOUS
<1>1. UNCHANGED <<mainVars, screenVars, requests, events, will, owed>>
  BY DEF quitVars
<1>2. Queue'
  BY <1>1, QueuesStand DEF QuitIInv, mainVars, screenVars
<1>3. QuitTypeOK'
  BY <1>1 DEF QuitIInv, QuitTypeOK, mainVars, screenVars
<1>4. Rests' /\ Apart'
  BY <1>1 DEF QuitIInv, Rests, Apart, mainVars, screenVars
<1>5. Willed'
  BY <1>1 DEF QuitIInv, Willed, IsOpen, mainVars, screenVars
<1> QED
  BY <1>2, <1>3, <1>4, <1>5 DEF QuitIInv

LEMMA QuitNextKeeps == QuitIInv /\ [QuitNext]_quitVars => QuitIInv'
  BY RequestKeeps, RetryKeeps, DeliveryTimesOutKeeps, CleanupEndsKeeps, BudgetSpentKeeps,
     LateCleanupEndsKeeps, AnswerNativeKeeps, NativeFailsKeeps, AsideKeeps,
     MainReceivesKeeps, RendererReceivesKeeps, DecideKeeps, RenderProcessGoneKeeps,
     ReloadKeeps, SessionEndsKeeps, StutterKeeps DEF QuitNext

(* The inductive invariant holds of every state of the quit. *)
THEOREM QuitInvariance == QuitSpec => []QuitIInv
  BY QuitInitIInv, QuitNextKeeps, PTL DEF QuitSpec

(* Every variable stays in its set, and a delivery timer only runs for a   *)
(* prompt of the renderer.                                                 *)
THEOREM QuitTypeCorrect == QuitSpec => []QuitTypeOK
<1>1. QuitIInv => QuitTypeOK
  BY DEF QuitIInv
<1> QED
  BY <1>1, QuitInvariance, PTL

(* No prompt is open once the application cleans up or leaves, and when    *)
(* nothing is on its way the prompt on the screen is the one that can be   *)
(* answered.                                                               *)
THEOREM PromptOnScreenIsOpen == QuitSpec => []PromptsAgree
<1>1. QuitIInv => PromptsAgree
  <2> SUFFICES ASSUME QuitIInv PROVE PromptsAgree
    OBVIOUS
  <2>1. (isQuitting => confirmation = NoPrompt) /\ (cleanup = "running" => confirmation = NoPrompt)
    BY DEF QuitIInv, Rests
  <2>2. ASSUME ~isQuitting, shown # NoPrompt, toRenderer = <<>>
        PROVE  IsOpen(shown.id, "renderer")
    <3>1. DOMAIN toRenderer = {}
      BY <2>2
    <3> QED
      BY <2>2, <3>1 DEF QuitIInv, Queue, Agree, Followed
  <2> QED
    BY <2>1, <2>2 DEF PromptsAgree
<1> QED
  BY <1>1, QuitInvariance, PTL

(* No cleanup begins after the user declined, until a quit is asked for    *)
(* again, and a forced one, or leaving behind what a cleanup could not     *)
(* end, takes the user's word on the second prompt.                        *)
THEOREM UserHasTheWord == QuitSpec => UserDecides
<1>1. QuitIInv /\ QuitIInv' /\ [QuitNext]_quitVars =>
        [ /\ cleanup = "idle" /\ cleanup' = "running" =>
               will' # "declined" /\ (forced' => will' = "force")
          /\ leaving = "no" /\ leaving' = "asked" /\ cleanup = "running"
               /\ cleanup' = "idle" /\ residual' => will = "force" ]_quitVars
  <2> SUFFICES ASSUME QuitIInv, QuitIInv', QuitNext
               PROVE  /\ cleanup = "idle" /\ cleanup' = "running" =>
                           will' # "declined" /\ (forced' => will' = "force")
                      /\ leaving = "no" /\ leaving' = "asked" /\ cleanup = "running"
                           /\ cleanup' = "idle" /\ residual' => will = "force"
    OBVIOUS
  <2>1. cleanup' = "running" => will' # "declined" /\ (forced' => will' = "force")
    BY DEF QuitIInv, Willed
  <2>2. ASSUME leaving = "no", leaving' = "asked", cleanup = "running", cleanup' = "idle",
               residual'
        PROVE  will = "force"
    <3>1. CleanupEnds
      BY <2>2 DEF QuitNext, Request, Retry, DeliveryTimesOut, BudgetSpent, LateCleanupEnds,
         AnswerNative, NativeFails, BeforeQuit, Exit, MainReceives, RendererReceives,
         Decide, RenderProcessGone, Reload, Loaded, Hang, Wake, SessionEnds, mainVars
    <3>2. forced
      BY <2>2, <3>1 DEF CleanupEnds, Finish
    <3> QED
      BY <2>2, <3>2 DEF QuitIInv, Willed
  <2> QED
    BY <2>1, <2>2
<1> QED
  BY <1>1, QuitInvariance, PTL DEF QuitSpec, UserDecides

=============================================================================
