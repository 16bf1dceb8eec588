----------------------- MODULE NetworkPreflightProof -----------------------
(***************************************************************************)
(* What ApplicationProxy and NetworkPreflight promise for any number of    *)
(* callers, checks and configurations.                                     *)
(***************************************************************************)
EXTENDS NetworkPreflight, TLAPS

-----------------------------------------------------------------------------
(* Tables over sessions, and sequences of them.                            *)

(* There are three sets of sessions to work through. *)
LEMMA ScopeSets ==
    ASSUME NEW S \in SUBSET Scopes, S # {}
    PROVE  S = {"application"} \/ S = {"conversation"} \/ S = Scopes
BY DEF Scopes

(* What is noted of such a set is a table, and the other way round. *)
LEMMA TableRange ==
    ASSUME NEW R, NEW S \in SUBSET Scopes, S # {}, NEW f \in [S -> R]
    PROVE  f \in Tables(R)
BY ScopeSets DEF Tables

(* A table is noted of sessions. *)
LEMMA TableDomain ==
    ASSUME NEW R, NEW f \in Tables(R)
    PROVE  /\ DOMAIN f \in SUBSET Scopes /\ DOMAIN f # {}
           /\ f \in [DOMAIN f -> R]
BY DEF Tables, Scopes

Among(s, seq) == \E i \in 1 .. Len(seq) : seq[i] = s

(* What is in a sequence of sessions when one leaves, one comes, and when  *)
(* it is turned round.                                                     *)
LEMMA SequencesOfScopes ==
    ASSUME NEW q \in Seq(Scopes)
    PROVE  /\ Reversed(q) \in Seq(Scopes)
           /\ \A s \in Scopes : Among(s, Reversed(q)) <=> Among(s, q)
           /\ \A t \in Scopes : /\ Append(q, t) \in Seq(Scopes)
                                /\ \A s \in Scopes : Among(s, Append(q, t)) <=> (Among(s, q) \/ s = t)
           /\ q # <<>> => /\ Tail(q) \in Seq(Scopes) /\ Head(q) \in Scopes
                          /\ Among(Head(q), q)
                          /\ \A s \in Scopes : Among(s, q) => (s = Head(q) \/ Among(s, Tail(q)))
           /\ q = <<>> => \A s \in Scopes : ~Among(s, q)
<1>1. Len(q) \in Nat /\ (\A i \in 1 .. Len(q) : q[i] \in Scopes)
    OBVIOUS
<1>2. Reversed(q) \in Seq(Scopes) /\ Len(Reversed(q)) = Len(q)
  <2>1. Reversed(q) \in [1 .. Len(q) -> Scopes]
    BY <1>1 DEF Reversed
  <2> QED BY <1>1, <2>1
<1>3. ASSUME NEW s \in Scopes PROVE Among(s, Reversed(q)) <=> Among(s, q)
  <2>1. ASSUME NEW i \in 1 .. Len(q), q[i] = s PROVE Among(s, Reversed(q))
    <3>1. Len(q) + 1 - i \in 1 .. Len(q)
      BY <1>1
    <3>2. Reversed(q)[Len(q) + 1 - i] = q[Len(q) + 1 - (Len(q) + 1 - i)]
      BY <3>1 DEF Reversed
    <3>3. Len(q) + 1 - (Len(q) + 1 - i) = i
      BY <1>1
    <3> QED BY <1>2, <2>1, <3>1, <3>2, <3>3 DEF Among
  <2>2. ASSUME NEW i \in 1 .. Len(q), Reversed(q)[i] = s PROVE Among(s, q)
    <3>1. Len(q) + 1 - i \in 1 .. Len(q)
      BY <1>1
    <3>2. Reversed(q)[i] = q[Len(q) + 1 - i]
      BY DEF Reversed
    <3> QED BY <2>2, <3>1, <3>2 DEF Among
  <2> QED BY <1>2, <2>1, <2>2 DEF Among
<1>4. ASSUME NEW t \in Scopes
      PROVE  /\ Append(q, t) \in Seq(Scopes)
             /\ \A s \in Scopes : Among(s, Append(q, t)) <=> (Among(s, q) \/ s = t)
  <2>1. /\ Append(q, t) \in Seq(Scopes) /\ Len(Append(q, t)) = Len(q) + 1
        /\ Append(q, t)[Len(q) + 1] = t
        /\ \A i \in 1 .. Len(q) : Append(q, t)[i] = q[i]
    BY <1>1
  <2>2. \A i : i \in 1 .. (Len(q) + 1) <=> (i \in 1 .. Len(q) \/ i = Len(q) + 1)
    BY <1>1
  <2> QED BY <2>1, <2>2 DEF Among
<1>5. ASSUME q # <<>>
      PROVE  /\ Tail(q) \in Seq(Scopes) /\ Head(q) \in Scopes
             /\ Among(Head(q), q)
             /\ \A s \in Scopes : Among(s, q) => (s = Head(q) \/ Among(s, Tail(q)))
  <2>1. /\ Tail(q) \in Seq(Scopes) /\ Head(q) \in Scopes /\ Head(q) = q[1]
        /\ Len(Tail(q)) = Len(q) - 1 /\ 1 \in 1 .. Len(q)
        /\ \A i \in 1 .. Len(Tail(q)) : Tail(q)[i] = q[i + 1]
    BY <1>1, <1>5
  <2>2. ASSUME NEW i \in 1 .. Len(q), i # 1 PROVE i - 1 \in 1 .. Len(Tail(q)) /\ Tail(q)[i - 1] = q[i]
    <3>1. i - 1 \in 1 .. Len(Tail(q)) /\ (i - 1) + 1 = i
      BY <1>1, <2>1, <2>2
    <3> QED BY <2>1, <3>1
  <2>3. ASSUME NEW s \in Scopes, Among(s, q), s # Head(q) PROVE Among(s, Tail(q))
    <3>1. PICK i \in 1 .. Len(q) : q[i] = s
      BY <2>3 DEF Among
    <3>2. i # 1
      BY <2>1, <2>3, <3>1
    <3> QED BY <2>2, <3>1, <3>2 DEF Among
  <2>4. Among(Head(q), q)
    BY <2>1 DEF Among
  <2> QED BY <2>1, <2>3, <2>4
<1>6. q = <<>> => \A s \in Scopes : ~Among(s, q)
    BY DEF Among
<1> QED BY <1>2, <1>3, <1>4, <1>5, <1>6

(* Who joins the queue leaves its head alone. *)
LEMMA QueueGrows ==
    ASSUME NEW q \in Seq(Item), NEW x \in Item
    PROVE  /\ Append(q, x) \in Seq(Item)
           /\ Len(Append(q, x)) = Len(q) + 1 /\ Len(q) \in Nat
           /\ \A i \in 1 .. Len(q) : Append(q, x)[i] = q[i]
           /\ Append(q, x)[Len(q) + 1] = x
           /\ q # <<>> => Append(q, x) # <<>> /\ Head(Append(q, x)) = Head(q)
<1>1. /\ Append(q, x) \in Seq(Item) /\ Len(Append(q, x)) = Len(q) + 1 /\ Len(q) \in Nat
      /\ \A i \in 1 .. Len(q) : Append(q, x)[i] = q[i]
      /\ Append(q, x)[Len(q) + 1] = x
    OBVIOUS
<1>2. ASSUME q # <<>> PROVE Append(q, x) # <<>> /\ Head(Append(q, x)) = Head(q)
  <2>1. Len(q) > 0 /\ 1 \in 1 .. Len(q)
    BY <1>1, <1>2
  <2> QED BY <1>1, <2>1
<1> QED BY <1>1, <1>2

(* The head of the queue is done. *)
LEMMA QueueShrinks ==
    ASSUME NEW q \in Seq(Item), q # <<>>
    PROVE  /\ Tail(q) \in Seq(Item) /\ Head(q) \in Item /\ Head(q) = q[1]
           /\ Len(Tail(q)) = Len(q) - 1 /\ Len(q) \in Nat /\ 1 \in 1 .. Len(q)
           /\ \A i \in 1 .. Len(Tail(q)) : i + 1 \in 1 .. Len(q) /\ Tail(q)[i] = q[i + 1]
OBVIOUS

-----------------------------------------------------------------------------
(* Types.                                                                  *)

(* A check that was begun knows what it is about, and only such are cached. *)
SoundRun == {x \in RunRecord : x.st # "none" \/ x.cached => x.st # "none" /\ x.key # None
                                                                /\ x.route # None}

(* None is no table and no lease. *)
LEMMA NoneIsNothing ==
    /\ None \notin Lease /\ None \notin WorkRecord /\ None \notin Capture
    /\ None \notin Runs /\ None \notin Configs /\ None \notin Key /\ None \notin RouteTable
BY ProxyAssumption, PreflightAssumption

(* What becomes of typed tables of runs and leases. *)
LEMMA TidiedTyped ==
    ASSUME NEW rs \in [Runs -> SoundRun]
    PROVE  [r \in Runs |-> Tidied(rs, r)] \in [Runs -> SoundRun]
<1>1. ASSUME NEW r \in Runs PROVE Tidied(rs, r) \in SoundRun
  <2>1. rs[r] \in SoundRun
    OBVIOUS
  <2>2. NoRun \in SoundRun
    BY DEF NoRun, SoundRun, RunRecord
  <2>3. [rs[r] EXCEPT !.lease = None, !.owned = FALSE, !.awaited = {}] \in SoundRun
    BY <2>1 DEF SoundRun, RunRecord
  <2> QED BY <2>1, <2>2, <2>3 DEF Tidied
<1> QED BY <1>1

(* ... and when leases are returned as well. *)
LEMMA BecomesTyped ==
    ASSUME NEW rs \in [Runs -> SoundRun], NEW ls \in SUBSET Lease, Becomes(rs, ls)
    PROVE  run' \in [Runs -> SoundRun] /\ leases' \in SUBSET Lease
BY TidiedTyped DEF Becomes

(* What is done to tables of runs yields tables of runs. *)
LEMMA RunTables ==
    ASSUME NEW rs \in [Runs -> SoundRun]
    PROVE  /\ Invalidated(rs) \in [Runs -> SoundRun]
           /\ \A key : Superseding(rs, key) \in [Runs -> SoundRun]
           /\ \A r \in Runs, t \in Waiter : /\ Without(rs, r, t) \in [Runs -> SoundRun]
                                            /\ [rs EXCEPT ![r].waiters = @ \cup {t}]
                                                  \in [Runs -> SoundRun]
<1>1. ASSUME NEW r \in Runs
      PROVE  /\ Invalidated(rs)[r] \in SoundRun
             /\ \A key : Superseding(rs, key)[r] \in SoundRun
  <2>1. rs[r] \in SoundRun /\ (rs[r].aborted \/ rs[r].st = "probing") \in BOOLEAN
    BY DEF SoundRun, RunRecord
  <2> DEFINE b == rs[r].aborted \/ rs[r].st = "probing"
  <2>2. /\ Invalidated(rs)[r] = [rs[r] EXCEPT !.current = FALSE, !.latest = FALSE, !.cached = FALSE,
                                              !.shared = FALSE, !.aborted = b]
        /\ \A key : Superseding(rs, key)[r] =
              IF rs[r].key # key THEN rs[r] ELSE [rs[r] EXCEPT !.cached = FALSE, !.aborted = b]
    BY DEF Invalidated, Superseding
  <2>3. b \in BOOLEAN
    BY <2>1
  <2>4. [rs[r] EXCEPT !.cached = FALSE, !.aborted = b] \in SoundRun
    <3> HIDE DEF b
    <3> QED BY <2>1, <2>3 DEF SoundRun, RunRecord
  <2>5. [rs[r] EXCEPT !.current = FALSE, !.latest = FALSE, !.cached = FALSE,
                      !.shared = FALSE, !.aborted = b] \in SoundRun
    <3> HIDE DEF b
    <3> QED BY <2>1, <2>3 DEF SoundRun, RunRecord
  <2> HIDE DEF b
  <2>6. Invalidated(rs)[r] \in SoundRun
    BY <2>2, <2>5
  <2>7. ASSUME NEW key PROVE Superseding(rs, key)[r] \in SoundRun
    <3>1. CASE rs[r].key # key
      BY <2>1, <2>2, <3>1
    <3>2. CASE rs[r].key = key
      BY <2>2, <2>4, <3>2
    <3> QED BY <3>1, <3>2
  <2> QED BY <2>6, <2>7
<1>2. Invalidated(rs) \in [Runs -> SoundRun] /\ \A key : Superseding(rs, key) \in [Runs -> SoundRun]
  <2>1. /\ Invalidated(rs) = [r \in Runs |-> Invalidated(rs)[r]]
        /\ \A key : Superseding(rs, key) = [r \in Runs |-> Superseding(rs, key)[r]]
    BY DEF Invalidated, Superseding
  <2> QED BY <1>1, <2>1
<1>3. ASSUME NEW r \in Runs, NEW t \in Waiter
      PROVE  /\ Without(rs, r, t) \in [Runs -> SoundRun]
             /\ [rs EXCEPT ![r].waiters = @ \cup {t}] \in [Runs -> SoundRun]
  <2>1. rs[r] \in SoundRun
    OBVIOUS
  <2>2. /\ [rs[r] EXCEPT !.waiters = @ \ {t}] \in SoundRun
        /\ [rs[r] EXCEPT !.waiters = @ \cup {t}] \in SoundRun
    BY <2>1 DEF SoundRun, RunRecord
  <2> QED BY <2>2 DEF Without
<1> QED BY <1>2, <1>3

(* A check begins. *)
LEMMA NewRunTyped ==
    ASSUME NEW rs \in [Runs -> SoundRun], NEW r \in Runs, NEW l \in Lease,
           NEW owner \in SUBSET Callers, NEW t \in Waiter,
           electron \in [Scopes -> Sessions \cup {System}]
    PROVE  NewRun(rs, r, l.epochs, l, owner, t) \in [Runs -> SoundRun]
<1> DEFINE key == l.epochs
<1>1. key \in Key /\ RouteOf(DOMAIN key) \in RouteTable
  <2>1. key \in Key
    BY DEF Lease
  <2>2. DOMAIN key \in SUBSET Scopes /\ DOMAIN key # {}
    BY <2>1, TableDomain DEF Key
  <2>3. RouteOf(DOMAIN key) \in [DOMAIN key -> Sessions \cup {System}]
    BY <2>2 DEF RouteOf
  <2> QED BY <2>1, <2>2, <2>3, TableRange DEF RouteTable
<1>2. ASSUME NEW q \in Runs PROVE NewRun(rs, r, key, l, owner, t)[q] \in SoundRun
  <2>1. NewRun(rs, r, key, l, owner, t)[q] =
           IF q = r
           THEN [NoRun EXCEPT !.st = "probing", !.key = key, !.lease = l,
                     !.owned = (owner = {}), !.awaited = owner,
                     !.route = RouteOf(DOMAIN key),
                     !.current = TRUE, !.latest = TRUE, !.shared = TRUE, !.waiters = {t}]
           ELSE IF rs[q].key = key THEN [rs[q] EXCEPT !.latest = FALSE, !.shared = FALSE]
           ELSE rs[q]
    BY DEF NewRun
  <2>2. rs[q] \in SoundRun /\ [rs[q] EXCEPT !.latest = FALSE, !.shared = FALSE] \in SoundRun
    <3>1. rs[q] \in SoundRun
      OBVIOUS
    <3> QED BY <3>1 DEF SoundRun, RunRecord
  <2> HIDE DEF key
  <2>3. [NoRun EXCEPT !.st = "probing", !.key = key, !.lease = l,
                     !.owned = (owner = {}), !.awaited = owner,
                     !.route = RouteOf(DOMAIN key),
                     !.current = TRUE, !.latest = TRUE, !.shared = TRUE, !.waiters = {t}]
           \in SoundRun
    <3>1. (owner = {}) \in BOOLEAN /\ {t} \in SUBSET Waiter
      OBVIOUS
    <3> QED BY <1>1, <3>1, NoneIsNothing DEF SoundRun, RunRecord, NoRun
  <2> QED BY <2>1, <2>2, <2>3
<1>3. NewRun(rs, r, key, l, owner, t) = [q \in Runs |-> NewRun(rs, r, key, l, owner, t)[q]]
    BY DEF NewRun
<1> QED BY <1>2, <1>3

(* Waiters are callers and what is nested in them. *)
LEMMA Waiters ==
    ASSUME NEW c \in Callers
    PROVE  /\ Top(c) \in Waiter /\ Inner(c) \in Waiter /\ Top(c) # Inner(c)
           /\ \A d \in Callers : (Top(c) = Top(d) => c = d) /\ Top(c) # Inner(d)
BY DEF Top, Inner, Waiter

(* A caller that is queued for a lease is so once. *)
Wanted(item) == item.kind = "acquire" /\ ~item.abandoned

Order(q, cs) ==
    \A i \in 1 .. Len(q) :
       Wanted(q[i]) =>
          /\ cs[q[i].who].ph = "queued"
          /\ \A j \in 1 .. Len(q) : Wanted(q[j]) /\ q[j].who = q[i].who => i = j

(* What a request and the operation nested in it have when. *)
Fits(me, n) ==
    /\ me.ph \in {"idle", "queued", "paused"} => me.lease = None /\ me.run = None
    /\ n.ph # "none" => me.ph \in {"operating", "ending"}
    /\ me.active => me.ph = "operating"
    /\ me.ph = "queued" /\ me.kind # "guarded" => me.capture # None
    /\ me.ph = "paused" => me.capture # None
    /\ me.ph = "ending" /\ me.out = "blocked" => me.capture # None
    /\ me.ph = "waiting" \/ (me.ph = "operating" /\ me.kind = "recheck") => me.run # None
    /\ n.ph = "waiting" => n.run # None

UnderWay(q, w) ==
    w # None => /\ q # <<>> /\ Head(q).kind \in {"save", "reconcile"}
                /\ w.applying => w.todo # <<>>

Types ==
    /\ TypeOK
    /\ UnderWay(queue, work)
    /\ Order(queue, caller)
    /\ \A c \in Callers : Fits(caller[c], nested[c])
    /\ \A r \in Runs : run[r] \in SoundRun

(* The conjuncts of the types. *)
ProxyTypes ==
    /\ scope \in [Scopes -> ScopeRecord]
    /\ electron \in [Scopes -> Sessions \cup {System}]
    /\ stored \in Configs
    /\ work \in WorkRecord \cup {None}
    /\ epochs \in Nat /\ saves \in Nat
TypesAre ==
    /\ ProxyTypes
    /\ leases \in SUBSET Lease
    /\ events \in Nat /\ starts \in Nat
    /\ queue \in Seq(Item)
    /\ caller \in [Callers -> CallerRecord]
    /\ nested \in [Callers -> NestedRecord]
    /\ run \in [Runs -> SoundRun]
    /\ UnderWay(queue, work)
    /\ Order(queue, caller)
    /\ \A c \in Callers : Fits(caller[c], nested[c])

(* ... and that they are those of Types. *)
LEMMA TypesAreTypes == (Types <=> TypesAre) /\ (Types' <=> TypesAre')
<1>1. run \in [Runs -> SoundRun] <=> (run \in [Runs -> RunRecord] /\ \A r \in Runs : run[r] \in SoundRun)
    BY DEF SoundRun
<1>2. run' \in [Runs -> SoundRun] <=> (run' \in [Runs -> RunRecord] /\ \A r \in Runs : run'[r] \in SoundRun)
    BY DEF SoundRun
<1>3. Types <=> TypesAre
    BY <1>1 DEF Types, TypeOK, ProxyTypeOK, TypesAre, ProxyTypes
<1>4. Types' <=> TypesAre'
    BY <1>2 DEF Types, TypeOK, ProxyTypeOK, TypesAre, ProxyTypes
<1> QED BY <1>3, <1>4

(* The order survives when the head leaves and its caller goes on, *)
LEMMA OrderTail ==
    ASSUME NEW q \in Seq(Item), q # <<>>, NEW cs, Order(q, cs)
    PROVE  /\ Order(Tail(q), cs)
           /\ \A ds : /\ Wanted(Head(q))
                      /\ \A c \in Callers \ {Head(q).who} : ds[c].ph = cs[c].ph
                      => Order(Tail(q), ds)
<1>1. /\ Tail(q) \in Seq(Item) /\ Head(q) = q[1] /\ 1 \in 1 .. Len(q)
      /\ \A i \in 1 .. Len(Tail(q)) : i + 1 \in 1 .. Len(q) /\ Tail(q)[i] = q[i + 1]
    BY QueueShrinks
<1>2. \A i, j \in 1 .. Len(Tail(q)) : i + 1 = j + 1 => i = j
    OBVIOUS
<1>3. ASSUME NEW i \in 1 .. Len(Tail(q)), Wanted(Tail(q)[i])
      PROVE  /\ cs[Tail(q)[i].who].ph = "queued"
             /\ \A j \in 1 .. Len(Tail(q)) :
                   Wanted(Tail(q)[j]) /\ Tail(q)[j].who = Tail(q)[i].who => i = j
             /\ Wanted(Head(q)) => Head(q).who # Tail(q)[i].who
  <2>1. i + 1 \in 1 .. Len(q) /\ Tail(q)[i] = q[i + 1] /\ i + 1 # 1
    BY <1>1
  <2>2. /\ cs[q[i + 1].who].ph = "queued"
        /\ \A j \in 1 .. Len(q) : Wanted(q[j]) /\ q[j].who = q[i + 1].who => i + 1 = j
    BY <1>3, <2>1 DEF Order
  <2>3. ASSUME NEW j \in 1 .. Len(Tail(q)), Wanted(Tail(q)[j]), Tail(q)[j].who = Tail(q)[i].who
        PROVE  i = j
    BY <1>1, <1>2, <2>1, <2>2, <2>3
  <2>4. ASSUME Wanted(Head(q)), Head(q).who = Tail(q)[i].who PROVE FALSE
    BY <1>1, <2>1, <2>2, <2>4
  <2> QED BY <2>1, <2>2, <2>3, <2>4
<1>4. Order(Tail(q), cs)
    BY <1>3 DEF Order
<1>5. ASSUME NEW ds, Wanted(Head(q)), \A c \in Callers \ {Head(q).who} : ds[c].ph = cs[c].ph
      PROVE  Order(Tail(q), ds)
  <2>1. ASSUME NEW i \in 1 .. Len(Tail(q)), Wanted(Tail(q)[i])
        PROVE  ds[Tail(q)[i].who].ph = "queued"
    <3>1. Tail(q)[i] \in Item /\ Tail(q)[i].kind = "acquire"
      BY <1>1, <2>1 DEF Wanted
    <3>2. Tail(q)[i].who \in Callers
      BY <3>1 DEF Item
    <3> QED BY <1>3, <1>5, <2>1, <3>2
  <2> QED BY <1>3, <2>1 DEF Order
<1> QED BY <1>4, <1>5

(* ... when somebody joins, and no caller that is queued goes on, *)
LEMMA OrderAppend ==
    ASSUME NEW q \in Seq(Item), NEW cs, NEW ds, NEW x \in Item, Order(q, cs),
           \A c \in Callers : cs[c].ph = "queued" => ds[c].ph = "queued",
           Wanted(x) => ds[x.who].ph = "queued" /\ cs[x.who].ph # "queued"
    PROVE  Order(Append(q, x), ds)
<1>1. /\ \A i \in 1 .. Len(q) : Append(q, x)[i] = q[i]
      /\ Append(q, x)[Len(q) + 1] = x
      /\ \A i \in 1 .. Len(Append(q, x)) : i \in 1 .. Len(q) \/ i = Len(q) + 1
    BY QueueGrows
<1>2. ASSUME NEW i \in 1 .. Len(q), Wanted(q[i])
      PROVE  /\ cs[q[i].who].ph = "queued" /\ ds[q[i].who].ph = "queued"
             /\ \A j \in 1 .. Len(q) : Wanted(q[j]) /\ q[j].who = q[i].who => i = j
  <2>1. q[i] \in Item /\ q[i].kind = "acquire"
    BY <1>2 DEF Wanted
  <2>2. q[i].who \in Callers
    BY <2>1 DEF Item
  <2> QED BY <1>2, <2>2 DEF Order
<1>3. ASSUME NEW i \in 1 .. Len(Append(q, x)), Wanted(Append(q, x)[i])
      PROVE  ds[Append(q, x)[i].who].ph = "queued"
    BY <1>1, <1>2, <1>3
<1>4. ASSUME NEW i \in 1 .. Len(Append(q, x)), Wanted(Append(q, x)[i]),
             NEW j \in 1 .. Len(Append(q, x)), Wanted(Append(q, x)[j]),
             Append(q, x)[j].who = Append(q, x)[i].who
      PROVE  i = j
  <2>1. CASE i \in 1 .. Len(q) /\ j \in 1 .. Len(q)
    BY <1>1, <1>2, <1>4, <2>1
  <2>2. CASE i = Len(q) + 1 /\ j = Len(q) + 1
    BY <2>2
  <2>3. CASE i \in 1 .. Len(q) /\ j = Len(q) + 1
    BY <1>1, <1>2, <1>4, <2>3
  <2>4. CASE j \in 1 .. Len(q) /\ i = Len(q) + 1
    BY <1>1, <1>2, <1>4, <2>4
  <2> QED BY <1>1, <2>1, <2>2, <2>3, <2>4
<1> QED BY <1>3, <1>4 DEF Order

(* ... and when nobody does. *)
LEMMA OrderKept ==
    ASSUME NEW q \in Seq(Item), NEW cs, NEW ds, Order(q, cs),
           \A c \in Callers : cs[c].ph = "queued" => ds[c].ph = "queued"
    PROVE  Order(q, ds)
<1>1. ASSUME NEW i \in 1 .. Len(q), Wanted(q[i]) PROVE q[i].who \in Callers
  <2>1. q[i] \in Item /\ q[i].kind = "acquire"
    BY <1>1 DEF Wanted
  <2> QED BY <2>1 DEF Item
<1> QED BY <1>1 DEF Order

(* Who has left the queue leaves the acquisition behind. *)
AbandonedBy(q, c) ==
    [i \in DOMAIN q |-> IF q[i] = Acquisition(c) THEN [q[i] EXCEPT !.abandoned = TRUE] ELSE q[i]]

(* ... which changes nothing else in the queue. *)
LEMMA OrderAbandoned ==
    ASSUME NEW q \in Seq(Item), NEW cs, NEW ds, NEW c \in Callers, Order(q, cs),
           \A d \in Callers \ {c} : ds[d].ph = cs[d].ph
    PROVE  /\ AbandonedBy(q, c) \in Seq(Item)
           /\ Order(AbandonedBy(q, c), ds)
           /\ q # <<>> => /\ AbandonedBy(q, c) # <<>>
                          /\ Head(AbandonedBy(q, c)).kind = Head(q).kind
<1> DEFINE p == AbandonedBy(q, c)
<1>1. Len(q) \in Nat /\ DOMAIN q = 1 .. Len(q) /\ \A i \in 1 .. Len(q) : q[i] \in Item
    OBVIOUS
<1>2. Acquisition(c) \in Item
    BY DEF Acquisition, Item
<1>3. ASSUME NEW i \in 1 .. Len(q)
      PROVE  /\ p[i] \in Item /\ p[i].kind = q[i].kind
             /\ Wanted(p[i]) => p[i] = q[i] /\ q[i].who \in Callers \ {c}
  <2>1. p[i] = IF q[i] = Acquisition(c) THEN [q[i] EXCEPT !.abandoned = TRUE] ELSE q[i]
    BY <1>1 DEF AbandonedBy
  <2>2. CASE q[i] = Acquisition(c)
    <3> HIDE DEF p
    <3>1. p[i] = [Acquisition(c) EXCEPT !.abandoned = TRUE]
      BY <2>1, <2>2
    <3>2. p[i] = [kind |-> "acquire", who |-> c, abandoned |-> TRUE]
      BY <3>1 DEF Acquisition
    <3>3. p[i] \in Item
      BY <3>2 DEF Item
    <3> QED BY <2>2, <3>2, <3>3 DEF Acquisition, Wanted
  <2>3. CASE q[i] # Acquisition(c)
    <3>1. p[i] = q[i]
      BY <2>1, <2>3
    <3>2. ASSUME Wanted(q[i]) PROVE q[i].who \in Callers \ {c}
      <4>1. q[i] \in [kind : {"acquire"}, who : Callers, abandoned : BOOLEAN]
        BY <1>1, <3>2 DEF Item, Wanted
      <4>2. q[i] = [kind |-> "acquire", who |-> q[i].who, abandoned |-> q[i].abandoned]
        BY <4>1
      <4>3. q[i].abandoned = FALSE
        BY <3>2, <4>1 DEF Wanted
      <4> QED BY <2>3, <4>1, <4>2, <4>3 DEF Acquisition
    <3> QED BY <1>1, <3>1, <3>2
  <2> QED BY <2>2, <2>3
<1>4. p \in Seq(Item) /\ Len(p) = Len(q)
  <2>1. p \in [1 .. Len(q) -> Item]
    <3>1. p = [i \in 1 .. Len(q) |-> p[i]]
      BY <1>1 DEF AbandonedBy
    <3> HIDE DEF p
    <3> QED BY <1>3, <3>1
  <2> HIDE DEF p
  <2> QED BY <1>1, <2>1
<1> HIDE DEF p
<1>5. Order(p, ds)
  <2>1. ASSUME NEW i \in 1 .. Len(q), Wanted(p[i])
        PROVE  /\ ds[p[i].who].ph = "queued"
               /\ \A j \in 1 .. Len(q) : Wanted(p[j]) /\ p[j].who = p[i].who => i = j
    <3>1. p[i] = q[i] /\ q[i].who \in Callers \ {c}
      BY <1>3, <2>1
    <3>2. /\ cs[q[i].who].ph = "queued"
          /\ \A j \in 1 .. Len(q) : Wanted(q[j]) /\ q[j].who = q[i].who => i = j
      BY <2>1, <3>1 DEF Order
    <3> QED BY <1>3, <3>1, <3>2
  <2> QED BY <1>4, <2>1 DEF Order
<1>6. ASSUME q # <<>> PROVE p # <<>> /\ Head(p).kind = Head(q).kind
  <2>1. Len(q) > 0 /\ 1 \in 1 .. Len(q) /\ Head(q) = q[1]
    BY <1>1, <1>6
  <2>2. p # <<>> /\ Head(p) = p[1]
    BY <1>4, <2>1
  <2> QED BY <1>3, <2>1, <2>2
<1> QED BY <1>4, <1>5, <1>6 DEF p

(* The configuration of the scopes affected by c, and what a rollback does. *)
LEMMA WorkTyped ==
    ASSUME TypesAre
    PROVE  /\ \A c \in Configs : Affected(c) \in Seq(Scopes)
           /\ work # None => RollbackWork \in WorkRecord
<1>1. ASSUME NEW c \in Configs PROVE Affected(c) \in Seq(Scopes)
  <2>1. <<"application">> \in Seq(Scopes) /\ <<"conversation">> \in Seq(Scopes) /\ <<>> \in Seq(Scopes)
    BY DEF Scopes
  <2>2. /\ (IF Differs("application", c) THEN <<"application">> ELSE <<>>) \in Seq(Scopes)
        /\ (IF Differs("conversation", c) THEN <<"conversation">> ELSE <<>>) \in Seq(Scopes)
    BY <2>1
  <2> QED BY <2>2 DEF Affected
<1>2. ASSUME work # None PROVE RollbackWork \in WorkRecord
  <2>1. work.touched \in Seq(Scopes) /\ stored \in Configs
    BY <1>2 DEF TypesAre, ProxyTypes, WorkRecord
  <2>2. Reversed(work.touched) \in Seq(Scopes)
    BY <2>1, SequencesOfScopes
  <2> QED BY <2>1, <2>2 DEF RollbackWork, WorkRecord
<1> QED BY <1>1, <1>2

(* A step of the proxy that observers hear of, *)
LEMMA PublishTyped ==
    ASSUME TypesAre, ProxyPublishes
    PROVE  /\ ProxyTypes' /\ leases' = leases /\ events' \in Nat
           /\ queue' = queue \/ (queue # <<>> /\ queue' = Tail(queue))
           /\ UnderWay(queue', work')
<1>1. /\ scope \in [Scopes -> ScopeRecord] /\ electron \in [Scopes -> Sessions \cup {System}]
      /\ stored \in Configs /\ epochs \in Nat /\ saves \in Nat /\ events \in Nat
      /\ queue \in Seq(Item) /\ UnderWay(queue, work)
    BY DEF TypesAre, ProxyTypes
<1>2. work # None /\ work \in WorkRecord
  <2>1. work # None
    BY DEF ProxyPublishes, ApplyBegins, Applied, ApplyFails
  <2> QED BY <2>1 DEF TypesAre, ProxyTypes
<1>3. work.to \in Configs /\ work.todo \in Seq(Scopes) /\ work.touched \in Seq(Scopes)
    BY <1>2 DEF WorkRecord
<1>4. work.todo # <<>>
    BY <1>1, <1>2 DEF ProxyPublishes, ApplyBegins, Applied, ApplyFails, UnderWay
<1> DEFINE s == Head(work.todo)
<1>5. s \in Scopes /\ Tail(work.todo) \in Seq(Scopes) /\ Append(work.touched, s) \in Seq(Scopes)
    BY <1>3, <1>4, SequencesOfScopes
<1>6. /\ scope[s] \in ScopeRecord /\ Route[work.to][s] \in Sessions
      /\ Effective[work.to][s] \in Identities
    BY <1>1, <1>3, <1>5 DEF Sessions, Identities
<1> HIDE DEF s
<1>7. CASE ApplyBegins
  <2> DEFINE x == [scope[s] EXCEPT !.credentials = IF SessionChanges(s) THEN None ELSE @,
                                   !.health = "unknown"]
             w == [work EXCEPT !.applying = TRUE,
                               !.touched = IF work.back THEN @ ELSE Append(@, s)]
  <2>1. x \in ScopeRecord
    BY <1>6 DEF ScopeRecord
  <2>2. w \in WorkRecord /\ w.todo = work.todo
    BY <1>2, <1>5 DEF WorkRecord
  <2>3. scope' = [scope EXCEPT ![s] = x] /\ work' = w
    BY <1>1, <1>7 DEF ApplyBegins, s
  <2>4. UNCHANGED <<electron, stored, queue, leases, epochs, saves, events>>
    BY <1>7 DEF ApplyBegins
  <2> HIDE DEF x, w
  <2>5. scope' \in [Scopes -> ScopeRecord]
    BY <1>1, <2>1, <2>3
  <2>6. UnderWay(queue', work')
    BY <1>1, <1>2, <1>4, <2>2, <2>3, <2>4 DEF UnderWay
  <2> QED BY <1>1, <2>2, <2>3, <2>4, <2>5, <2>6 DEF ProxyTypes
<1>8. CASE Applied
  <2> DEFINE x == [health |-> "stable", epoch |-> epochs + 1,
                   effective |-> Effective[work.to][s], session |-> Route[work.to][s],
                   credentials |-> IF scope[s].credentials = None THEN work.to
                                   ELSE scope[s].credentials]
             w == [work EXCEPT !.applying = FALSE, !.todo = Tail(@)]
  <2>1. x \in ScopeRecord
    <3>1. (IF scope[s].credentials = None THEN work.to ELSE scope[s].credentials) \in Configs \cup {None}
      BY <1>3, <1>6 DEF ScopeRecord
    <3>2. epochs + 1 \in Nat
      BY <1>1
    <3> QED BY <1>6, <3>1, <3>2 DEF ScopeRecord
  <2>2. w \in WorkRecord /\ w.applying = FALSE
    BY <1>2, <1>5 DEF WorkRecord
  <2>3. /\ scope' = [scope EXCEPT ![s] = x] /\ work' = w
        /\ electron' = [electron EXCEPT ![s] = Route[work.to][s]] /\ epochs' = epochs + 1
    BY <1>1, <1>5, <1>8 DEF Applied, s
  <2>4. UNCHANGED <<stored, queue, leases, saves, events>>
    BY <1>8 DEF Applied
  <2> HIDE DEF x, w
  <2>5. scope' \in [Scopes -> ScopeRecord] /\ electron' \in [Scopes -> Sessions \cup {System}]
    BY <1>1, <1>6, <2>1, <2>3
  <2>6. UnderWay(queue', work')
    BY <1>1, <1>2, <2>2, <2>3, <2>4 DEF UnderWay
  <2>7. epochs' \in Nat
    BY <1>1, <2>3
  <2> QED BY <1>1, <2>2, <2>3, <2>4, <2>5, <2>6, <2>7 DEF ProxyTypes
<1>9. CASE ApplyFails
  <2> DEFINE w == [work EXCEPT !.applying = FALSE, !.todo = Tail(@)]
  <2>1. w \in WorkRecord /\ w.applying = FALSE /\ RollbackWork \in WorkRecord
        /\ RollbackWork.applying = FALSE
    <3>1. w \in WorkRecord /\ w.applying = FALSE
      BY <1>2, <1>5 DEF WorkRecord, s
    <3> QED BY <3>1, <1>2, WorkTyped DEF RollbackWork
  <2>2. Unknown \in ScopeRecord
    BY DEF Unknown, ScopeRecord
  <2>3. /\ scope' = [scope EXCEPT ![s] = Unknown]
        /\ electron' \in {electron, [electron EXCEPT ![s] = Route[work.to][s]]}
        /\ \/ work' = w /\ queue' = queue
           \/ work' = RollbackWork /\ queue' = queue
           \/ work' = None /\ queue' = Tail(queue)
    BY <1>9 DEF ApplyFails, s
  <2>4. UNCHANGED <<stored, leases, epochs, saves>> /\ events' \in Nat
    BY <1>1, <1>9 DEF ApplyFails, Event
  <2> HIDE DEF w
  <2>5. scope' \in [Scopes -> ScopeRecord] /\ electron' \in [Scopes -> Sessions \cup {System}]
    BY <1>1, <1>6, <2>2, <2>3
  <2>6. work' \in WorkRecord \cup {None}
    BY <2>1, <2>3
  <2>7. /\ UnderWay(queue', work')
        /\ queue' = queue \/ (queue # <<>> /\ queue' = Tail(queue))
    BY <1>1, <1>2, <2>1, <2>3 DEF UnderWay
  <2> QED BY <1>1, <2>4, <2>5, <2>6, <2>7 DEF ProxyTypes
<1> QED BY <1>7, <1>8, <1>9 DEF ProxyPublishes

(* ... and one that they do not. *)
LEMMA QuietTyped ==
    ASSUME TypesAre, ProxyIsQuiet
    PROVE  /\ ProxyTypes' /\ leases' = leases /\ events' \in Nat
           /\ queue' = queue \/ (queue # <<>> /\ queue' = Tail(queue))
           /\ UnderWay(queue', work')
<1>1. /\ scope \in [Scopes -> ScopeRecord] /\ electron \in [Scopes -> Sessions \cup {System}]
      /\ stored \in Configs /\ epochs \in Nat /\ saves \in Nat /\ events \in Nat
      /\ queue \in Seq(Item) /\ UnderWay(queue, work) /\ work \in WorkRecord \cup {None}
    BY DEF TypesAre, ProxyTypes
<1>2. UNCHANGED <<scope, electron, epochs, saves, leases>> /\ events' \in Nat
    BY <1>1 DEF ProxyIsQuiet, WorkBegins, Committed, CommitFails, SaveRefused, WorkEnds, Event
<1>3. CASE WorkBegins
  <2> DEFINE to == IF AtHead("save") THEN Head(queue).to ELSE stored
             w == [to |-> to, todo |-> Affected(to), touched |-> <<>>,
                   applying |-> FALSE, back |-> FALSE]
  <2>1. to \in Configs
    <3>1. ASSUME AtHead("save") PROVE Head(queue).to \in Configs
      <4>1. Head(queue) \in Item /\ Head(queue).kind = "save"
        BY <1>1, <3>1, QueueShrinks DEF AtHead
      <4> QED BY <4>1 DEF Item
    <3> QED BY <1>1, <3>1
  <2>2. Affected(to) \in Seq(Scopes) /\ <<>> \in Seq(Scopes)
    BY <2>1, WorkTyped
  <2>3. work' = w /\ stored' = stored /\ queue' = queue
    BY <1>3 DEF WorkBegins
  <2> HIDE DEF to
  <2>4. w \in WorkRecord /\ w.applying = FALSE
    BY <2>1, <2>2 DEF WorkRecord
  <2> HIDE DEF w
  <2>5. UnderWay(queue', work')
    BY <1>3, <2>3, <2>4 DEF UnderWay, WorkBegins, AtHead
  <2> QED BY <1>1, <1>2, <2>3, <2>4, <2>5 DEF ProxyTypes
<1>4. CASE Committed
  <2>1. work.to \in Configs /\ queue # <<>>
    BY <1>1, <1>4 DEF Committed, WorkRecord, AtHead
  <2>2. stored' = work.to /\ work' = None /\ queue' = Tail(queue)
    BY <1>4 DEF Committed
  <2> QED BY <1>1, <1>2, <2>1, <2>2 DEF ProxyTypes, UnderWay
<1>5. CASE CommitFails
  <2>1. RollbackWork \in WorkRecord /\ RollbackWork.applying = FALSE
    BY <1>5, WorkTyped DEF CommitFails, RollbackWork
  <2>2. work' = RollbackWork /\ queue' = queue /\ stored' = stored /\ work # None
    <3>1. RollbackWork # None
      BY <2>1, NoneIsNothing
    <3> QED BY <1>5, <3>1 DEF CommitFails, CommitFailed
  <2>3. UnderWay(queue', work')
    BY <1>1, <2>1, <2>2 DEF UnderWay
  <2> QED BY <1>1, <1>2, <2>1, <2>2, <2>3 DEF ProxyTypes
<1>6. CASE SaveRefused
    BY <1>1, <1>2, <1>6 DEF SaveRefused, ProxyTypes, UnderWay, AtHead
<1>7. CASE WorkEnds
    BY <1>1, <1>2, <1>7 DEF WorkEnds, ProxyTypes, UnderWay, AtHead
<1> QED BY <1>3, <1>4, <1>5, <1>6, <1>7 DEF ProxyIsQuiet

(* The proxy steps. *)
LEMMA ProxyStepsTyped ==
    ASSUME TypesAre, ProxySteps
    PROVE  TypesAre'
<1>1. /\ ProxyTypes' /\ leases' = leases /\ events' \in Nat
      /\ queue' = queue \/ (queue # <<>> /\ queue' = Tail(queue))
      /\ UnderWay(queue', work')
    BY PublishTyped, QuietTyped DEF ProxySteps
<1>2. UNCHANGED <<caller, nested, starts>>
    BY DEF ProxySteps, preflightVars
<1>3. /\ run \in [Runs -> SoundRun] /\ leases \in SUBSET Lease /\ queue \in Seq(Item)
      /\ Order(queue, caller)
    BY DEF TypesAre
<1>4. run' \in [Runs -> SoundRun]
  <2>1. CASE run' = [r \in Runs |-> Tidied(Invalidated(run), r)]
    <3>1. Invalidated(run) \in [Runs -> SoundRun]
      BY <1>3, RunTables
    <3> QED BY <2>1, <3>1, TidiedTyped
  <2>2. CASE run' = run
    BY <1>3, <2>2
  <2> QED BY <2>1, <2>2 DEF ProxySteps, preflightVars
<1>5. queue' \in Seq(Item) /\ Order(queue', caller')
    BY <1>1, <1>2, <1>3, OrderTail, QueueShrinks
<1> QED BY <1>1, <1>2, <1>3, <1>4, <1>5 DEF TypesAre

(* A save is wanted. *)
LEMMA SaveTyped ==
    ASSUME TypesAre, NEW c \in Configs, Save(c), UNCHANGED preflightVars
    PROVE  TypesAre'
<1> DEFINE x == [kind |-> "save", to |-> c]
<1>1. x \in Item /\ ~Wanted(x)
    BY DEF Item, Wanted
<1>2. /\ queue' = Append(queue, x) /\ saves' = saves + 1
      /\ UNCHANGED <<scope, electron, stored, work, leases, epochs, events>>
      /\ UNCHANGED <<caller, nested, run, starts>>
    BY DEF Save, Enqueued, preflightVars
<1> HIDE DEF x
<1>3. ProxyTypes'
    BY <1>2 DEF ProxyTypes, TypesAre
<1>4. queue' \in Seq(Item) /\ Order(queue', caller')
    BY <1>1, <1>2, QueueGrows, OrderAppend DEF TypesAre
<1>5. UnderWay(queue', work')
    BY <1>1, <1>2, QueueGrows DEF TypesAre, UnderWay
<1> QED BY <1>2, <1>3, <1>4, <1>5 DEF TypesAre

(* What the steps of callers leave alone, *)
ProxyRests == UNCHANGED <<scope, electron, stored, work, epochs, saves>>

(* ... so that its types stay. *)
LEMMA ProxyRestsTyped ==
    ASSUME TypesAre, ProxyRests
    PROVE  ProxyTypes' /\ UnderWay(queue, work')
BY DEF TypesAre, ProxyTypes, ProxyRests

Goes(c, x) == caller' = [caller EXCEPT ![c] = x]

(* One caller goes on. *)
LEMMA CallerStep ==
    ASSUME TypesAre, ProxyRests, NEW c \in Callers, NEW x \in CallerRecord, Goes(c, x),
           nested' = nested, Fits(x, nested[c]),
           queue' \in Seq(Item), Order(queue', caller'), UnderWay(queue', work),
           events' \in Nat, starts' \in Nat,
           run' \in [Runs -> SoundRun], leases' \in SUBSET Lease
    PROVE  TypesAre'
<1>1. caller' \in [Callers -> CallerRecord] /\ caller \in [Callers -> CallerRecord]
    BY DEF Goes, TypesAre
<1>2. ASSUME NEW d \in Callers PROVE Fits(caller'[d], nested'[d])
    BY <1>1 DEF Goes, TypesAre
<1>3. ProxyTypes' /\ UnderWay(queue', work')
    BY ProxyRestsTyped DEF ProxyRests
<1> QED BY <1>1, <1>2, <1>3 DEF TypesAre

(* ... and joins the queue, *)
LEMMA CallerQueues ==
    ASSUME TypesAre, NEW c \in Callers, NEW x \in CallerRecord, caller[c].ph # "queued",
           Queued(c, x)
    PROVE  /\ Goes(c, [x EXCEPT !.ph = "queued"]) /\ [x EXCEPT !.ph = "queued"] \in CallerRecord
           /\ queue' \in Seq(Item) /\ Order(queue', caller') /\ UnderWay(queue', work)
<1>1. Acquisition(c) \in Item /\ Wanted(Acquisition(c)) /\ Acquisition(c).who = c
    BY DEF Acquisition, Item, Wanted
<1>2. queue' = Append(queue, Acquisition(c)) /\ Goes(c, [x EXCEPT !.ph = "queued"])
    BY DEF Queued, Enqueued, Goes
<1>3. [x EXCEPT !.ph = "queued"] \in CallerRecord /\ [x EXCEPT !.ph = "queued"].ph = "queued"
    BY DEF CallerRecord
<1>4. queue \in Seq(Item) /\ Order(queue, caller) /\ UnderWay(queue, work)
      /\ caller \in [Callers -> CallerRecord]
    BY DEF TypesAre
<1>5. caller'[c].ph = "queued" /\ \A d \in Callers \ {c} : caller'[d] = caller[d]
    BY <1>2, <1>3, <1>4 DEF Goes
<1>6. Order(queue', caller')
  <2>1. \A d \in Callers : caller[d].ph = "queued" => caller'[d].ph = "queued"
    BY <1>5
  <2> QED BY <1>1, <1>2, <1>4, <1>5, <2>1, OrderAppend
<1>7. queue' \in Seq(Item) /\ UnderWay(queue', work)
    BY <1>1, <1>2, <1>4, QueueGrows DEF UnderWay
<1> QED BY <1>2, <1>3, <1>6, <1>7

(* ... or does not. *)
LEMMA CallerGoes ==
    ASSUME TypesAre, ProxyRests, NEW c \in Callers, NEW x \in CallerRecord, Goes(c, x),
           UNCHANGED <<nested, queue>>, Fits(x, nested[c]), caller[c].ph # "queued",
           events' \in Nat, starts' \in Nat,
           run' \in [Runs -> SoundRun], leases' \in SUBSET Lease
    PROVE  TypesAre'
<1>1. queue \in Seq(Item) /\ Order(queue, caller) /\ UnderWay(queue, work)
      /\ caller \in [Callers -> CallerRecord]
    BY DEF TypesAre
<1>2. \A d \in Callers : caller[d].ph = "queued" => caller'[d].ph = "queued"
    BY <1>1 DEF Goes
<1>3. Order(queue', caller')
    BY <1>1, <1>2, OrderKept
<1> QED BY <1>1, <1>3, CallerStep

(* A request is made, or a decision on one. *)
LEMMA RequestIs ==
    ASSUME TypesAre, NEW c \in Callers,
           Request(c) \/ \E kind \in {"recheck", "bypass"} : Decide(c, kind)
    PROVE  /\ ProxyRests /\ UNCHANGED <<leases, nested, run>> /\ events' \in Nat /\ starts' \in Nat
           /\ caller[c].ph \in {"idle", "paused"}
           /\ \E x \in CallerRecord :
                 /\ Queued(c, x)
                 /\ x.lease = None /\ x.run = None /\ ~x.active
                 /\ x.kind # "guarded" => x.capture # None
                 /\ x.capture \in {None, caller[c].capture}
<1>1. events \in Nat /\ starts \in Nat /\ caller[c] \in CallerRecord /\ Fits(caller[c], nested[c])
    BY DEF TypesAre
<1>2. Idle \in CallerRecord
    BY DEF Idle, CallerRecord
<1>3. CASE Request(c)
  <2>1. ProxyRests /\ UNCHANGED <<leases, nested, run>> /\ events' \in Nat /\ starts' \in Nat
        /\ caller[c].ph \in {"idle", "paused"} /\ Queued(c, Idle)
    BY <1>1, <1>3 DEF Request, ProxyRests
  <2>2. Idle.lease = None /\ Idle.run = None /\ ~Idle.active /\ Idle.kind = "guarded"
        /\ Idle.capture = None
    BY DEF Idle
  <2> QED BY <1>2, <2>1, <2>2
<1>4. ASSUME NEW kind \in {"recheck", "bypass"}, Decide(c, kind)
      PROVE  /\ ProxyRests /\ UNCHANGED <<leases, nested, run>> /\ events' \in Nat /\ starts' \in Nat
             /\ caller[c].ph = "paused"
             /\ \E x \in CallerRecord :
                   /\ Queued(c, x)
                   /\ x.lease = None /\ x.run = None /\ ~x.active
                   /\ x.kind # "guarded" => x.capture # None
                   /\ x.capture \in {None, caller[c].capture}
  <2> DEFINE x == [Idle EXCEPT !.kind = kind, !.capture = caller[c].capture]
  <2>1. ProxyRests /\ UNCHANGED <<leases, nested, run>> /\ events' \in Nat /\ starts' \in Nat
        /\ caller[c].ph = "paused" /\ Queued(c, x)
    <3>1. caller[c].ph = "paused" /\ Event /\ Queued(c, x)
      BY <1>4 DEF Decide
    <3>2. UNCHANGED <<scope, electron, stored, work, leases, epochs, saves, nested, run, starts>>
      BY <1>4 DEF Decide
    <3>3. events' \in Nat
      BY <1>1, <3>1 DEF Event
    <3> HIDE DEF x
    <3> QED BY <1>1, <3>1, <3>2, <3>3 DEF ProxyRests
  <2>2. x \in CallerRecord /\ x.lease = None /\ x.run = None /\ ~x.active
        /\ x.capture = caller[c].capture
    <3>1. caller[c].capture \in Capture \cup {None}
      BY <1>1 DEF CallerRecord
    <3>2. kind \in {"guarded", "recheck", "bypass"}
      BY <1>4
    <3>3. x \in CallerRecord
      BY <1>2, <3>1, <3>2 DEF CallerRecord
    <3>4. x.lease = None /\ x.run = None /\ ~x.active /\ x.capture = caller[c].capture
      BY DEF Idle
    <3> QED BY <3>3, <3>4
  <2>3. caller[c].capture # None
    BY <1>1, <2>1 DEF Fits
  <2> HIDE DEF x
  <2> QED BY <2>1, <2>2, <2>3
<1> QED BY <1>3, <1>4

(* ... of the types. *)
LEMMA RequestTyped ==
    ASSUME TypesAre, NEW c \in Callers,
           Request(c) \/ \E kind \in {"recheck", "bypass"} : Decide(c, kind)
    PROVE  TypesAre'
<1>1. /\ ProxyRests /\ UNCHANGED <<leases, nested, run>> /\ events' \in Nat /\ starts' \in Nat
      /\ caller[c].ph \in {"idle", "paused"}
    BY RequestIs
<1>2. PICK x \in CallerRecord :
         /\ Queued(c, x)
         /\ x.lease = None /\ x.run = None /\ ~x.active
         /\ x.kind # "guarded" => x.capture # None
    BY RequestIs
<1> DEFINE y == [x EXCEPT !.ph = "queued"]
<1>3. y \in CallerRecord /\ y.ph = "queued" /\ y.lease = None /\ y.run = None /\ ~y.active
      /\ (y.kind # "guarded" => y.capture # None)
    BY <1>2 DEF CallerRecord
<1> HIDE DEF y
<1>4. Goes(c, y) /\ queue' \in Seq(Item) /\ Order(queue', caller') /\ UnderWay(queue', work)
    BY <1>1, <1>2, CallerQueues DEF y
<1>5. Fits(y, nested[c])
  <2>1. nested[c].ph = "none"
    <3>1. nested[c] \in NestedRecord /\ Fits(caller[c], nested[c])
      BY DEF TypesAre
    <3> QED BY <1>1, <3>1 DEF Fits
  <2> QED BY <1>3, <2>1 DEF Fits
<1>6. run' \in [Runs -> SoundRun] /\ leases' \in SUBSET Lease
    BY <1>1 DEF TypesAre
<1> QED BY <1>1, <1>3, <1>4, <1>5, <1>6, CallerStep

-----------------------------------------------------------------------------
(* What a grant may lead to.                                               *)

(* Nobody knows the lease yet. *)
Fresh(l) ==
    /\ l \notin leases
    /\ \A c \in Callers : caller[c].lease # l
    /\ \A r \in Runs : run[r].lease # l

Dropped(key) ==
    [r \in Runs |-> IF run[r].key = key THEN [run[r] EXCEPT !.cached = FALSE] ELSE run[r]]

(* A caller that is not to decide anything joins a check, *)
Joins(c, l) ==
    /\ caller[c].kind = "guarded"
    /\ \E r \in Runs :
          /\ run[r].shared /\ run[r].key = l.epochs
          /\ Goes(c, [caller[c] EXCEPT !.ph = "waiting", !.run = r, !.lease = run[r].lease])
          /\ Becomes([run EXCEPT ![r].waiters = @ \cup {Top(c)}], leases)

(* ... takes a verdict, *)
Reuses(c, l) ==
    /\ caller[c].kind = "guarded"
    /\ \E r \in Runs :
          /\ run[r].cached /\ run[r].key = l.epochs
          /\ Goes(c, Judged([caller[c] EXCEPT !.lease = l], r, l))
          /\ Becomes(run, leases \cup {l})

(* ... or checks. *)
Probes(c, l) ==
    /\ caller[c].kind = "guarded"
    /\ \E r \in Runs :
          /\ run[r] = NoRun
          /\ Goes(c, [caller[c] EXCEPT !.ph = "waiting", !.run = r, !.lease = l])
          /\ Becomes(NewRun(Dropped(l.epochs), r, l.epochs, l, {}, Top(c)), leases \cup {l})

(* One that is checks by force, *)
Forces(c, l) ==
    /\ caller[c].kind = "recheck"
    /\ \E r \in Runs :
          /\ run[r] = NoRun
          /\ Goes(c, [caller[c] EXCEPT !.ph = "waiting", !.run = r, !.lease = l, !.capture = None])
          /\ Becomes(NewRun(Superseding(run, l.epochs), r, l.epochs, l, {c}, Top(c)),
                     leases \cup {l})

(* ... goes on without, *)
GoesOn(c, l) ==
    /\ caller[c].kind = "bypass" /\ caller[c].capture.key = l.epochs
    /\ Goes(c, [Idle EXCEPT !.ph = "operating", !.kind = "bypass", !.active = TRUE,
                            !.lease = l, !.route = caller[c].capture.route])
    /\ Becomes(run, leases \cup {l})

(* ... or is told that the route is no longer the one that was blocked. *)
TurnedAway(c) ==
    /\ Goes(c, Idle)
    /\ Becomes(run, leases)

Grants(c, l) ==
    \/ Joins(c, l) \/ Reuses(c, l) \/ Probes(c, l)
    \/ Forces(c, l) \/ GoesOn(c, l) \/ TurnedAway(c)

(* The lease that Granted draws is one that nobody knows. *)
LEMMA FreshLease ==
    ASSUME TypesAre, FreeLeaseIds # {}, NEW e \in Key
    PROVE  /\ [id |-> AnyLeaseId, epochs |-> e] \in Lease
           /\ Fresh([id |-> AnyLeaseId, epochs |-> e])
<1> DEFINE l == [id |-> AnyLeaseId, epochs |-> e]
<1>1. AnyLeaseId \in FreeLeaseIds
    BY DEF AnyLeaseId
<1>2. AnyLeaseId \in LeaseIds /\ \A k \in LeasesKnown \ {None} : AnyLeaseId # k.id
    BY <1>1 DEF FreeLeaseIds
<1>3. l \in Lease /\ l.id = AnyLeaseId /\ l # None
  <2>1. l \in Lease
    BY <1>2 DEF Lease
  <2> QED BY <2>1, NoneIsNothing
<1> HIDE DEF l
<1>4. l \notin LeasesKnown
    BY <1>2, <1>3
<1>5. Fresh(l)
    BY <1>4 DEF Fresh, LeasesKnown
<1> QED BY <1>3, <1>5 DEF l

(* What a grant may lead to. *)
LEMMA GrantedIs ==
    ASSUME TypesAre, Granted
    PROVE  /\ ProxyRests /\ UNCHANGED <<events, nested, starts>>
           /\ work = None /\ queue # <<>> /\ queue' = Tail(queue)
           /\ Head(queue) \in Item /\ Head(queue).kind = "acquire"
           /\ \/ UNCHANGED <<caller, leases, run>> /\ Head(queue).abandoned
              \/ /\ Goes(Head(queue).who, Idle) /\ UNCHANGED <<leases, run>>
                 /\ ~Head(queue).abandoned
              \/ \E l \in Lease :
                    /\ Fresh(l) /\ ~Head(queue).abandoned
                    /\ l.epochs = EpochsOf(Needs[Head(queue).who])
                    /\ \A s \in Needs[Head(queue).who] : Stable(s)
                    /\ Grants(Head(queue).who, l)
<1> DEFINE c == Head(queue).who
           e == EpochsOf(Needs[c])
           l == [id |-> AnyLeaseId, epochs |-> e]
<1>1. /\ ProxyRests /\ UNCHANGED <<events, nested, starts>>
      /\ work = None /\ queue # <<>> /\ queue' = Tail(queue) /\ Head(queue).kind = "acquire"
      /\ FreeRuns # {} /\ FreeLeaseIds # {}
    BY DEF Granted, ProxyRests, AtHead
<1>2. Head(queue) \in Item
    BY <1>1, QueueShrinks DEF TypesAre
<1>3. c \in Callers
    BY <1>1, <1>2 DEF Item
<1>4. e \in Key
  <2>1. Needs[c] \in SUBSET Scopes /\ Needs[c] # {}
    BY <1>3, PreflightAssumption
  <2>2. scope \in [Scopes -> ScopeRecord]
    BY DEF TypesAre, ProxyTypes
  <2>3. \A s \in Needs[c] : scope[s].epoch \in Nat
    BY <2>1, <2>2 DEF ScopeRecord
  <2>4. e \in [Needs[c] -> Nat]
    BY <2>3 DEF EpochsOf
  <2> HIDE DEF e
  <2> QED BY <2>1, <2>4, TableRange DEF Key
<1> HIDE DEF e
<1>5. l \in Lease /\ Fresh(l) /\ l.epochs = e
    BY <1>1, <1>4, FreshLease
<1>6. leases \cup LateLease(l) = leases /\ (leases \cup {l}) \ {l} = leases
    BY <1>5 DEF LateLease, Fresh
<1>7. caller[c] \in CallerRecord
    BY <1>3 DEF TypesAre
<1>8. AnyRun \in Runs /\ run[AnyRun] = NoRun
  <2>1. AnyRun \in FreeRuns
    BY <1>1 DEF AnyRun
  <2> QED BY <2>1 DEF FreeRuns
<1>9. CASE \E s \in Needs[c] : ~Stable(s)
  <2>1. /\ caller' = IF Head(queue).abandoned THEN caller ELSE [caller EXCEPT ![c] = Idle]
        /\ UNCHANGED <<leases, run>>
    BY <1>9 DEF Granted
  <2> QED BY <1>1, <1>2, <2>1 DEF Goes, Item
<1>10. CASE ~(\E s \in Needs[c] : ~Stable(s)) /\ Head(queue).abandoned
  <2>1. leases' = leases \cup LateLease(l) /\ UNCHANGED <<caller, run>>
    BY <1>10 DEF Granted, e
  <2> QED BY <1>1, <1>2, <1>6, <1>10, <2>1
<1>11. CASE ~(\E s \in Needs[c] : ~Stable(s)) /\ ~Head(queue).abandoned
  <2>1. CASE caller[c].kind = "guarded"
    <3>1. GuardedBegins(c, l, leases \cup {l})
      BY <1>11, <2>1 DEF Granted, e
    <3> HIDE DEF c, l
    <3> DEFINE req == [caller[c] EXCEPT !.lease = l]
    <3>2. [req EXCEPT !.ph = "waiting", !.run = AnyRun]
             = [caller[c] EXCEPT !.ph = "waiting", !.run = AnyRun, !.lease = l]
      BY <1>7 DEF CallerRecord
    <3>3. ASSUME NEW r
          PROVE  [req EXCEPT !.ph = "waiting", !.run = r, !.lease = run[r].lease]
                    = [caller[c] EXCEPT !.ph = "waiting", !.run = r, !.lease = run[r].lease]
      BY <1>7 DEF CallerRecord
    <3>4. CASE InFlight(e) # {}
      <4>1. PICK r \in InFlight(e) :
               /\ caller' = [caller EXCEPT ![c] =
                      [req EXCEPT !.ph = "waiting", !.run = r, !.lease = run[r].lease]]
               /\ Becomes([run EXCEPT ![r].waiters = @ \cup {Top(c)}], (leases \cup {l}) \ {l})
        BY <1>5, <3>1, <3>4 DEF GuardedBegins
      <4> HIDE DEF req
      <4>2. r \in Runs /\ run[r].shared /\ run[r].key = l.epochs
        BY <1>5 DEF InFlight
      <4>3. Joins(c, l)
        BY <1>6, <2>1, <3>3, <4>1, <4>2 DEF Joins, Goes, req
      <4> QED BY <1>1, <1>2, <1>5, <1>11, <4>3 DEF Grants, c, e
    <3>5. CASE InFlight(e) = {}
      <4>1. \/ \E r \in Cached(e) :
                  /\ caller' = [caller EXCEPT ![c] = Judged(req, r, l)]
                  /\ Becomes(run, leases \cup {l})
            \/ /\ caller' = [caller EXCEPT ![c] = [req EXCEPT !.ph = "waiting", !.run = AnyRun]]
               /\ Becomes(NewRun(Dropped(e), AnyRun, e, l, {}, Top(c)), leases \cup {l})
        BY <1>5, <3>1, <3>5 DEF GuardedBegins, Dropped
      <4>2. Reuses(c, l) \/ Probes(c, l)
        <5> HIDE DEF req
        <5>1. CASE \E r \in Cached(e) :
                  /\ caller' = [caller EXCEPT ![c] = Judged(req, r, l)]
                  /\ Becomes(run, leases \cup {l})
          <6>1. PICK r \in Cached(e) :
                  /\ caller' = [caller EXCEPT ![c] = Judged(req, r, l)]
                  /\ Becomes(run, leases \cup {l})
            BY <5>1
          <6>2. r \in Runs /\ run[r].cached /\ run[r].key = l.epochs
            BY <1>5 DEF Cached
          <6> QED BY <2>1, <6>1, <6>2 DEF Reuses, Goes, req
        <5>2. CASE /\ caller' = [caller EXCEPT ![c] = [req EXCEPT !.ph = "waiting", !.run = AnyRun]]
                   /\ Becomes(NewRun(Dropped(e), AnyRun, e, l, {}, Top(c)), leases \cup {l})
          BY <1>5, <1>8, <2>1, <3>2, <5>2 DEF Probes, Goes, req
        <5> QED BY <4>1, <5>1, <5>2
      <4> QED BY <1>1, <1>2, <1>5, <1>11, <4>2 DEF Grants, c, e
    <3> QED BY <3>4, <3>5
  <2>2. CASE caller[c].kind = "recheck"
    <3>1. RecheckBegins(c, l, leases \cup {l})
      BY <1>11, <2>2 DEF Granted, e
    <3> HIDE DEF c, l
    <3>2. TurnedAway(c) \/ Forces(c, l)
      <4>1. CASE caller[c].capture.key # l.epochs
        BY <1>6, <3>1, <4>1 DEF RecheckBegins, TurnedAway, Goes
      <4>2. CASE caller[c].capture.key = l.epochs
        <5>1. /\ caller' = [caller EXCEPT ![c] =
                    [@ EXCEPT !.ph = "waiting", !.run = AnyRun, !.lease = l, !.capture = None]]
              /\ Becomes(NewRun(Superseding(run, l.epochs), AnyRun, l.epochs, l, {c}, Top(c)),
                         leases \cup {l})
          BY <3>1, <4>2 DEF RecheckBegins
        <5>2. Goes(c, [caller[c] EXCEPT !.ph = "waiting", !.run = AnyRun, !.lease = l,
                                        !.capture = None])
          <6>1. caller \in [Callers -> CallerRecord] /\ c \in Callers
            BY <1>3 DEF TypesAre, c
          <6> QED BY <5>1, <6>1 DEF Goes
        <5> QED BY <1>8, <2>2, <5>1, <5>2 DEF Forces
      <4> QED BY <4>1, <4>2
    <3> QED BY <1>1, <1>2, <1>5, <1>11, <3>2 DEF Grants, c, e
  <2>3. CASE caller[c].kind = "bypass"
    <3>1. BypassBegins(c, l, leases \cup {l})
      BY <1>11, <2>3 DEF Granted, e
    <3> HIDE DEF c, l
    <3>2. TurnedAway(c) \/ GoesOn(c, l)
      <4>1. caller \in [Callers -> CallerRecord] /\ c \in Callers
        BY <1>3 DEF TypesAre, c
      <4>2. CASE caller[c].capture.key # l.epochs
        BY <1>6, <3>1, <4>1, <4>2 DEF BypassBegins, TurnedAway, Goes
      <4>3. CASE caller[c].capture.key = l.epochs
        BY <2>3, <3>1, <4>1, <4>3 DEF BypassBegins, GoesOn, Goes
      <4> QED BY <4>2, <4>3
    <3> QED BY <1>1, <1>2, <1>5, <1>11, <3>2 DEF Grants, c, e
  <2> QED BY <1>7, <2>1, <2>2, <2>3 DEF CallerRecord
<1> QED BY <1>9, <1>10, <1>11

(* The verdict of a check is looked at. *)
LEMMA JudgedTyped ==
    ASSUME NEW req \in CallerRecord, NEW r \in Runs, NEW l \in Lease, NEW n \in NestedRecord,
           run[r] \in SoundRun, run[r].cached, n.ph = "none"
    PROVE  /\ Judged(req, r, l) \in CallerRecord
           /\ ~req.active /\ req.run = None /\ req.kind = "guarded" => Fits(Judged(req, r, l), n)
<1>1. run[r].key \in Key /\ run[r].route \in RouteTable
    BY DEF SoundRun, RunRecord
<1>2. CASE run[r].verdict = "allowed"
  <2> DEFINE x == [Idle EXCEPT !.ph = "operating", !.kind = req.kind, !.active = TRUE, !.lease = l,
                               !.route = run[r].route]
  <2>1. x \in CallerRecord /\ x.ph = "operating" /\ x.run = None /\ x.kind = req.kind
    BY <1>1 DEF CallerRecord, Idle
  <2>2. Judged(req, r, l) = x
    BY <1>2 DEF Judged, Working
  <2> HIDE DEF x
  <2> QED BY <2>1, <2>2 DEF Fits
<1>3. CASE run[r].verdict # "allowed"
  <2> DEFINE p == [key |-> run[r].key, route |-> run[r].route]
             x == [req EXCEPT !.ph = "ending", !.lease = l, !.out = "blocked", !.capture = p]
  <2>1. p \in Capture /\ p # None
    BY <1>1, NoneIsNothing DEF Capture
  <2>2. Judged(req, r, l) = x
    BY <1>3 DEF Judged
  <2> HIDE DEF p
  <2>3. /\ x \in CallerRecord /\ x.ph = "ending" /\ x.run = req.run /\ x.kind = req.kind
        /\ x.capture # None /\ x.active = req.active
    BY <2>1 DEF CallerRecord
  <2> HIDE DEF x
  <2> QED BY <2>2, <2>3 DEF Fits
<1> QED BY <1>2, <1>3

(* Whoever gets a lease goes on with what a request may have. *)
LEMMA GrantsTyped ==
    ASSUME TypesAre, ProxyRests, nested' = nested, NEW c \in Callers, NEW l \in Lease, Grants(c, l),
           caller[c].ph = "queued"
    PROVE  /\ \E x \in CallerRecord : Goes(c, x) /\ Fits(x, nested[c])
           /\ run' \in [Runs -> SoundRun] /\ leases' \in SUBSET Lease
<1> DEFINE me == caller[c]
<1>1. /\ me \in CallerRecord /\ Fits(me, nested[c]) /\ nested[c] \in NestedRecord
      /\ run \in [Runs -> SoundRun] /\ leases \in SUBSET Lease
      /\ electron \in [Scopes -> Sessions \cup {System}]
    BY DEF TypesAre, ProxyTypes
<1> HIDE DEF me
<1>2. /\ me.lease = None /\ me.run = None /\ ~me.active /\ me.ph = "queued" /\ nested[c].ph = "none"
      /\ me.kind # "guarded" => me.capture # None
    <2>1. me.ph = "queued"
      BY DEF me
    <2>2. me.active \in BOOLEAN /\ nested[c].ph \in {"none", "waiting", "operating"}
      BY <1>1 DEF CallerRecord, NestedRecord
    <2> QED BY <1>1, <2>1, <2>2 DEF Fits
<1>3. Top(c) \in Waiter /\ leases \cup {l} \in SUBSET Lease /\ {} \in SUBSET Callers
      /\ {c} \in SUBSET Callers
    BY <1>1, Waiters
<1>4. ASSUME NEW r \in Runs, NEW k \in Lease \cup {None}, NEW p \in {me.capture, None}
      PROVE  LET x == [me EXCEPT !.ph = "waiting", !.run = r, !.lease = k, !.capture = p] IN
             x \in CallerRecord /\ Fits(x, nested[c])
  <2> DEFINE x == [me EXCEPT !.ph = "waiting", !.run = r, !.lease = k, !.capture = p]
  <2>1. x \in CallerRecord /\ x.ph = "waiting" /\ x.run = r /\ ~x.active
    BY <1>1, <1>2 DEF CallerRecord
  <2> HIDE DEF x
  <2>2. Fits(x, nested[c])
    BY <1>2, <2>1, NoneIsNothing DEF Fits
  <2> QED BY <2>1, <2>2 DEF x
<1>5. ASSUME NEW r \in Runs, NEW k \in Lease \cup {None}
      PROVE  LET x == [me EXCEPT !.ph = "waiting", !.run = r, !.lease = k] IN
             x \in CallerRecord /\ Fits(x, nested[c])
  <2>1. [me EXCEPT !.ph = "waiting", !.run = r, !.lease = k]
           = [me EXCEPT !.ph = "waiting", !.run = r, !.lease = k, !.capture = me.capture]
    BY <1>1 DEF CallerRecord
  <2> QED BY <1>4, <2>1
<1>6. CASE Joins(c, l)
  <2>1. PICK r \in Runs :
          /\ run[r].shared /\ run[r].key = l.epochs
          /\ Goes(c, [me EXCEPT !.ph = "waiting", !.run = r, !.lease = run[r].lease])
          /\ Becomes([run EXCEPT ![r].waiters = @ \cup {Top(c)}], leases)
    BY <1>6 DEF Joins, me
  <2>2. run[r].lease \in Lease \cup {None}
    <3>1. run[r] \in SoundRun
      BY <1>1
    <3> QED BY <3>1 DEF SoundRun, RunRecord
  <2>3. [run EXCEPT ![r].waiters = @ \cup {Top(c)}] \in [Runs -> SoundRun]
    BY <1>1, <1>3, RunTables
  <2>4. run' \in [Runs -> SoundRun] /\ leases' \in SUBSET Lease
    BY <1>1, <2>1, <2>3, BecomesTyped
  <2> QED BY <1>5, <2>1, <2>2, <2>4
<1>7. CASE Reuses(c, l)
  <2>1. PICK r \in Runs :
          /\ run[r].cached /\ run[r].key = l.epochs
          /\ Goes(c, Judged([me EXCEPT !.lease = l], r, l))
          /\ Becomes(run, leases \cup {l})
    BY <1>7 DEF Reuses, me
  <2> DEFINE req == [me EXCEPT !.lease = l]
  <2>2. req \in CallerRecord /\ ~req.active /\ req.run = None /\ req.kind = "guarded"
    <3>1. me.kind = "guarded"
      BY <1>7 DEF Reuses, me
    <3> QED BY <1>1, <1>2, <3>1 DEF CallerRecord
  <2>3. run[r] \in SoundRun
    BY <1>1
  <2> HIDE DEF req
  <2>4. Judged(req, r, l) \in CallerRecord /\ Fits(Judged(req, r, l), nested[c])
    BY <1>1, <1>2, <2>1, <2>2, <2>3, JudgedTyped
  <2>5. run' \in [Runs -> SoundRun] /\ leases' \in SUBSET Lease
    BY <1>1, <1>3, <2>1, BecomesTyped
  <2> QED BY <2>1, <2>4, <2>5 DEF req
<1>8. CASE Probes(c, l)
  <2>1. PICK r \in Runs :
          /\ run[r] = NoRun
          /\ Goes(c, [me EXCEPT !.ph = "waiting", !.run = r, !.lease = l])
          /\ Becomes(NewRun(Dropped(l.epochs), r, l.epochs, l, {}, Top(c)), leases \cup {l})
    BY <1>8 DEF Probes, me
  <2>2. Dropped(l.epochs) \in [Runs -> SoundRun]
    <3>1. ASSUME NEW q \in Runs
          PROVE  (IF run[q].key = l.epochs THEN [run[q] EXCEPT !.cached = FALSE] ELSE run[q])
                    \in SoundRun
      <4>1. run[q] \in SoundRun
        BY <1>1
      <4> QED BY <4>1 DEF SoundRun, RunRecord
    <3> QED BY <3>1 DEF Dropped
  <2>3. NewRun(Dropped(l.epochs), r, l.epochs, l, {}, Top(c)) \in [Runs -> SoundRun]
    BY <1>1, <1>3, <2>2, NewRunTyped
  <2>4. run' \in [Runs -> SoundRun] /\ leases' \in SUBSET Lease
    BY <1>3, <2>1, <2>3, BecomesTyped
  <2> QED BY <1>5, <2>1, <2>4
<1>9. CASE Forces(c, l)
  <2>1. PICK r \in Runs :
          /\ run[r] = NoRun
          /\ Goes(c, [me EXCEPT !.ph = "waiting", !.run = r, !.lease = l, !.capture = None])
          /\ Becomes(NewRun(Superseding(run, l.epochs), r, l.epochs, l, {c}, Top(c)),
                     leases \cup {l})
    BY <1>9 DEF Forces, me
  <2>2. Superseding(run, l.epochs) \in [Runs -> SoundRun]
    BY <1>1, RunTables
  <2>3. NewRun(Superseding(run, l.epochs), r, l.epochs, l, {c}, Top(c)) \in [Runs -> SoundRun]
    BY <1>1, <1>3, <2>2, NewRunTyped
  <2>4. run' \in [Runs -> SoundRun] /\ leases' \in SUBSET Lease
    BY <1>3, <2>1, <2>3, BecomesTyped
  <2> QED BY <1>4, <2>1, <2>4
<1>10. CASE GoesOn(c, l)
  <2> DEFINE x == [Idle EXCEPT !.ph = "operating", !.kind = "bypass", !.active = TRUE,
                               !.lease = l, !.route = me.capture.route]
  <2>1. me.kind = "bypass" /\ Goes(c, x) /\ Becomes(run, leases \cup {l})
    BY <1>10 DEF GoesOn, me
  <2>2. me.capture \in Capture
    BY <1>1, <1>2, <2>1 DEF CallerRecord
  <2>3. x \in CallerRecord /\ x.ph = "operating" /\ x.kind = "bypass"
    BY <2>2 DEF CallerRecord, Idle, Capture
  <2> HIDE DEF x
  <2>4. Fits(x, nested[c])
    BY <1>2, <2>3 DEF Fits
  <2>5. run' \in [Runs -> SoundRun] /\ leases' \in SUBSET Lease
    BY <1>1, <1>3, <2>1, BecomesTyped
  <2> QED BY <2>1, <2>3, <2>4, <2>5
<1>11. CASE TurnedAway(c)
  <2>1. Goes(c, Idle) /\ Becomes(run, leases)
    BY <1>11 DEF TurnedAway
  <2>2. Idle \in CallerRecord /\ Fits(Idle, nested[c])
    BY <1>2 DEF CallerRecord, Idle, Fits
  <2>3. run' \in [Runs -> SoundRun] /\ leases' \in SUBSET Lease
    BY <1>1, <2>1, BecomesTyped
  <2> QED BY <2>1, <2>2, <2>3
<1> QED BY <1>6, <1>7, <1>8, <1>9, <1>10, <1>11 DEF Grants

(* A grant leaves the types alone. *)
LEMMA GrantedTyped ==
    ASSUME TypesAre, Granted
    PROVE  TypesAre'
<1> DEFINE c == Head(queue).who
<1>1. /\ ProxyRests /\ UNCHANGED <<events, nested, starts>>
      /\ work = None /\ queue # <<>> /\ queue' = Tail(queue)
      /\ Head(queue) \in Item /\ Head(queue).kind = "acquire"
    BY GrantedIs
<1>2. /\ queue \in Seq(Item) /\ Order(queue, caller) /\ caller \in [Callers -> CallerRecord]
      /\ run \in [Runs -> SoundRun] /\ leases \in SUBSET Lease /\ events \in Nat /\ starts \in Nat
      /\ nested \in [Callers -> NestedRecord] /\ \A d \in Callers : Fits(caller[d], nested[d])
    BY DEF TypesAre
<1>3. c \in Callers /\ Head(queue).abandoned \in BOOLEAN
    BY <1>1 DEF Item
<1>4. queue' \in Seq(Item) /\ UnderWay(queue', work)
    BY <1>1, <1>2, QueueShrinks DEF UnderWay
<1>5. CASE UNCHANGED <<caller, leases, run>>
  <2>1. Order(queue', caller')
    BY <1>1, <1>2, <1>5, OrderTail
  <2>2. ProxyTypes' /\ UnderWay(queue', work')
    BY <1>1, <1>4, ProxyRestsTyped DEF ProxyRests
  <2> QED BY <1>1, <1>2, <1>4, <1>5, <2>1, <2>2 DEF TypesAre
<1>6. ASSUME ~Head(queue).abandoned,
             \E x \in CallerRecord : Goes(c, x) /\ Fits(x, nested[c]),
             run' \in [Runs -> SoundRun], leases' \in SUBSET Lease
      PROVE  TypesAre'
  <2>1. PICK x \in CallerRecord : Goes(c, x) /\ Fits(x, nested[c])
    BY <1>6
  <2>2. \A d \in Callers \ {c} : caller'[d].ph = caller[d].ph
    BY <1>2, <2>1 DEF Goes
  <2>3. Wanted(Head(queue))
    BY <1>1, <1>6 DEF Wanted
  <2>4. Order(queue', caller')
    BY <1>1, <1>2, <2>2, <2>3, OrderTail
  <2> HIDE DEF c
  <2> QED BY <1>1, <1>2, <1>3, <1>4, <1>6, <2>1, <2>4, CallerStep
<1>7. ASSUME ~Head(queue).abandoned PROVE caller[c].ph = "queued" /\ nested[c].ph = "none"
  <2>1. Wanted(Head(queue)) /\ Head(queue) = queue[1] /\ 1 \in 1 .. Len(queue)
    BY <1>1, <1>2, <1>7, QueueShrinks DEF Wanted
  <2>2. caller[c].ph = "queued"
    BY <1>2, <2>1 DEF Order
  <2>3. nested[c] \in NestedRecord /\ Fits(caller[c], nested[c])
    BY <1>2, <1>3
  <2> QED BY <2>2, <2>3 DEF Fits
<1>8. CASE Goes(c, Idle) /\ UNCHANGED <<leases, run>> /\ ~Head(queue).abandoned
  <2>1. Idle \in CallerRecord /\ Fits(Idle, nested[c])
    BY <1>7, <1>8 DEF CallerRecord, Idle, Fits
  <2> QED BY <1>2, <1>6, <1>8, <2>1
<1>9. CASE \E l \in Lease : ~Head(queue).abandoned /\ Grants(c, l)
  <2>1. PICK l \in Lease : ~Head(queue).abandoned /\ Grants(c, l)
    BY <1>9
  <2> HIDE DEF c
  <2>2. /\ \E x \in CallerRecord : Goes(c, x) /\ Fits(x, nested[c])
        /\ run' \in [Runs -> SoundRun] /\ leases' \in SUBSET Lease
    BY <1>1, <1>3, <1>7, <2>1, GrantsTyped
  <2> QED BY <1>6, <2>1, <2>2
<1> QED BY <1>5, <1>8, <1>9, GrantedIs

-----------------------------------------------------------------------------
(* Checks end, and verdicts are forgotten.                                 *)

(* Nothing changes that says whose a lease is or who waits for a check;    *)
(* a check under way may end, and one may no longer be shared or cached.   *)
Alike(rs, ps) ==
    \A r \in Runs :
       /\ rs[r].lease = ps[r].lease /\ rs[r].key = ps[r].key /\ rs[r].route = ps[r].route
       /\ rs[r].owned = ps[r].owned /\ rs[r].awaited = ps[r].awaited
       /\ rs[r].waiters = ps[r].waiters
       /\ rs[r].st = ps[r].st \/ (ps[r].st = "probing" /\ rs[r].st = "settled")
       /\ rs[r].shared => ps[r].shared /\ rs[r].st = ps[r].st
       /\ rs[r].cached => ps[r].cached \/ rs[r].st = "settled"

(* So it is when verdicts are forgotten, *)
LEMMA ForgottenAlike ==
    ASSUME NEW rs \in [Runs -> SoundRun]
    PROVE  /\ Alike(Invalidated(rs), rs)
           /\ \A key : Alike(Superseding(rs, key), rs)
<1>1. ASSUME NEW r \in Runs, NEW key
      PROVE  /\ LET x == Invalidated(rs)[r] IN
                /\ x.lease = rs[r].lease /\ x.key = rs[r].key /\ x.route = rs[r].route
                /\ x.owned = rs[r].owned /\ x.awaited = rs[r].awaited
                /\ x.waiters = rs[r].waiters /\ x.st = rs[r].st /\ x.shared = FALSE
                /\ x.cached = FALSE
             /\ LET x == Superseding(rs, key)[r] IN
                /\ x.lease = rs[r].lease /\ x.key = rs[r].key /\ x.route = rs[r].route
                /\ x.owned = rs[r].owned /\ x.awaited = rs[r].awaited
                /\ x.waiters = rs[r].waiters /\ x.st = rs[r].st /\ x.shared = rs[r].shared
                /\ x.cached = FALSE \/ x.cached = rs[r].cached
  <2> DEFINE b == rs[r].aborted \/ rs[r].st = "probing"
  <2>1. rs[r] \in SoundRun
    OBVIOUS
  <2>2. /\ Invalidated(rs)[r] = [rs[r] EXCEPT !.current = FALSE, !.latest = FALSE,
                    !.cached = FALSE, !.shared = FALSE, !.aborted = b]
        /\ Superseding(rs, key)[r] = IF rs[r].key # key THEN rs[r]
                    ELSE [rs[r] EXCEPT !.cached = FALSE, !.aborted = b]
    BY DEF Invalidated, Superseding
  <2> HIDE DEF b
  <2> QED BY <2>1, <2>2 DEF SoundRun, RunRecord
<1>2. Alike(Invalidated(rs), rs)
  <2>1. ASSUME NEW r \in Runs
        PROVE  LET x == Invalidated(rs)[r] IN
               /\ x.lease = rs[r].lease /\ x.key = rs[r].key /\ x.route = rs[r].route
               /\ x.owned = rs[r].owned /\ x.awaited = rs[r].awaited
               /\ x.waiters = rs[r].waiters /\ x.st = rs[r].st /\ x.shared = FALSE
               /\ x.cached = FALSE
    BY <1>1
  <2> QED BY <2>1 DEF Alike
<1>3. ASSUME NEW key PROVE Alike(Superseding(rs, key), rs)
  <2> DEFINE ps == Superseding(rs, key)
  <2>1. ASSUME NEW r \in Runs
        PROVE  /\ ps[r].lease = rs[r].lease /\ ps[r].key = rs[r].key /\ ps[r].route = rs[r].route
               /\ ps[r].owned = rs[r].owned /\ ps[r].awaited = rs[r].awaited
               /\ ps[r].waiters = rs[r].waiters /\ ps[r].st = rs[r].st
               /\ ps[r].shared => rs[r].shared
               /\ ps[r].cached => rs[r].cached
    <3>1. LET x == Superseding(rs, key)[r] IN
             /\ x.lease = rs[r].lease /\ x.key = rs[r].key /\ x.route = rs[r].route
             /\ x.owned = rs[r].owned /\ x.awaited = rs[r].awaited
             /\ x.waiters = rs[r].waiters /\ x.st = rs[r].st /\ x.shared = rs[r].shared
             /\ x.cached = FALSE \/ x.cached = rs[r].cached
      BY <1>1
    <3> QED BY <3>1
  <2> HIDE DEF ps
  <2>2. Alike(ps, rs)
    BY <2>1 DEF Alike
  <2> QED BY <2>2 DEF ps
<1> QED BY <1>2, <1>3

(* ... dropped *)
LEMMA DroppedAlike ==
    ASSUME run \in [Runs -> SoundRun], NEW key
    PROVE  Alike(Dropped(key), run) /\ Dropped(key) \in [Runs -> SoundRun]
<1>1. ASSUME NEW r \in Runs
      PROVE  LET x == Dropped(key)[r] IN
             /\ x.lease = run[r].lease /\ x.key = run[r].key /\ x.route = run[r].route
             /\ x.owned = run[r].owned /\ x.awaited = run[r].awaited
             /\ x.waiters = run[r].waiters /\ x.st = run[r].st /\ x.shared = run[r].shared
             /\ x.cached => run[r].cached
             /\ x \in SoundRun
  <2>1. run[r] \in SoundRun
    OBVIOUS
  <2>2. Dropped(key)[r] = IF run[r].key = key THEN [run[r] EXCEPT !.cached = FALSE] ELSE run[r]
    BY DEF Dropped
  <2> QED BY <2>1, <2>2 DEF SoundRun, RunRecord
<1>2. Dropped(key) = [r \in Runs |-> Dropped(key)[r]]
    BY DEF Dropped
<1> QED BY <1>1, <1>2 DEF Alike

(* ... and when a check ends. *)
LEMMA EndedRuns ==
    ASSUME TypesAre, NEW r \in Runs, RunEnds(r)
    PROVE  /\ ProxyRests /\ UNCHANGED <<queue, events, caller, nested, starts>>
           /\ \E rs \in [Runs -> SoundRun] : Alike(rs, run) /\ Becomes(rs, leases)
<1> DEFINE ended == [run EXCEPT ![r].st = "settled", ![r].shared = FALSE]
           late == [ended EXCEPT ![r].verdict = "superseded"]
           With(v) == [q \in Runs |->
               IF q = r THEN [ended[q] EXCEPT !.verdict = v, !.cached = TRUE]
               ELSE [ended[q] EXCEPT !.cached = @ /\ ended[q].key # run[r].key]]
<1>1. /\ ProxyRests /\ UNCHANGED <<queue, events, caller, nested, starts>>
      /\ run[r].st = "probing"
      /\ Becomes(late, leases) \/ \E v \in {"allowed", "blocked"} : Becomes(With(v), leases)
    BY DEF RunEnds, ProxyRests
<1>2. run \in [Runs -> SoundRun] /\ run[r] \in SoundRun
    BY DEF TypesAre
<1> DEFINE e == [run[r] EXCEPT !.st = "settled", !.shared = FALSE]
<1>3. e \in SoundRun
    BY <1>1, <1>2 DEF SoundRun, RunRecord
<1>4. ended = [run EXCEPT ![r] = e] /\ ended \in [Runs -> SoundRun] /\ ended[r] = e
  <2>1. ended = [run EXCEPT ![r] = e]
    BY <1>2
  <2> HIDE DEF e
  <2> QED BY <1>2, <1>3, <2>1
<1>5. e.st = "settled" /\ ~e.shared /\ e.lease = run[r].lease /\ e.key = run[r].key
      /\ e.route = run[r].route /\ e.owned = run[r].owned /\ e.awaited = run[r].awaited
      /\ e.waiters = run[r].waiters
    BY <1>2 DEF SoundRun, RunRecord
<1>6. \A q \in Runs \ {r} : ended[q] = run[q]
    BY <1>2
<1> HIDE DEF e, ended
<1>7. late \in [Runs -> SoundRun] /\ Alike(late, run)
  <2> DEFINE x == [e EXCEPT !.verdict = "superseded"]
  <2>1. x \in SoundRun /\ x.st = "settled" /\ ~x.shared /\ x.lease = e.lease /\ x.key = e.key
      /\ x.route = e.route /\ x.owned = e.owned /\ x.awaited = e.awaited
      /\ x.waiters = e.waiters
    BY <1>3, <1>5 DEF SoundRun, RunRecord
  <2>2. late = [ended EXCEPT ![r] = x]
    BY <1>4
  <2> HIDE DEF x
  <2>3. late \in [Runs -> SoundRun] /\ late[r] = x /\ \A q \in Runs \ {r} : late[q] = run[q]
    BY <1>4, <1>6, <2>1, <2>2
  <2> HIDE DEF late
  <2> QED BY <1>1, <1>2, <1>5, <2>1, <2>3 DEF Alike
<1>8. ASSUME NEW v \in {"allowed", "blocked"}
      PROVE  With(v) \in [Runs -> SoundRun] /\ Alike(With(v), run)
  <2> DEFINE x == [e EXCEPT !.verdict = v, !.cached = TRUE]
             y(q) == [run[q] EXCEPT !.cached = run[q].cached /\ run[q].key # run[r].key]
  <2>1. x \in SoundRun /\ x.st = "settled" /\ ~x.shared /\ x.lease = e.lease /\ x.key = e.key
      /\ x.route = e.route /\ x.owned = e.owned /\ x.awaited = e.awaited
      /\ x.waiters = e.waiters
    <3>1. e.key # None /\ e.route # None
      BY <1>3, <1>5 DEF SoundRun
    <3> QED BY <1>3, <1>5, <3>1 DEF SoundRun, RunRecord
  <2>2. ASSUME NEW q \in Runs \ {r}
        PROVE  y(q) \in SoundRun /\ y(q).st = run[q].st /\ y(q).shared = run[q].shared
               /\ y(q).lease = run[q].lease /\ y(q).key = run[q].key
               /\ y(q).route = run[q].route /\ y(q).owned = run[q].owned
               /\ y(q).awaited = run[q].awaited /\ y(q).waiters = run[q].waiters
               /\ (y(q).cached => run[q].cached)
    <3> DEFINE b == run[q].cached /\ run[q].key # run[r].key
    <3>1. run[q] \in SoundRun
      BY <1>2
    <3>2. b \in BOOLEAN /\ (b => run[q].cached)
      BY <3>1 DEF SoundRun, RunRecord
    <3> HIDE DEF b
    <3>3. [run[q] EXCEPT !.cached = b] \in SoundRun
      BY <3>1, <3>2 DEF SoundRun, RunRecord
    <3>4. y(q) = [run[q] EXCEPT !.cached = b]
      BY DEF b
    <3> HIDE DEF y
    <3> QED BY <3>1, <3>2, <3>3, <3>4 DEF SoundRun, RunRecord
  <2>3. With(v) = [q \in Runs |-> IF q = r THEN x ELSE y(q)]
    <3>1. \A q \in Runs : (IF q = r THEN [ended[q] EXCEPT !.verdict = v, !.cached = TRUE]
               ELSE [ended[q] EXCEPT !.cached = @ /\ ended[q].key # run[r].key])
                 = IF q = r THEN x ELSE y(q)
      BY <1>4, <1>6
    <3> HIDE DEF x, y
    <3> QED BY <3>1
  <2> HIDE DEF x, y, With
  <2>4. With(v) \in [Runs -> SoundRun]
    BY <2>1, <2>2, <2>3
  <2>5. ASSUME NEW q \in Runs
        PROVE  /\ q = r => With(v)[q] = x
               /\ q # r => With(v)[q] = y(q)
    BY <2>3
  <2>6. Alike(With(v), run)
    <3> SUFFICES ASSUME NEW q \in Runs
                 PROVE  /\ With(v)[q].lease = run[q].lease /\ With(v)[q].key = run[q].key
                        /\ With(v)[q].route = run[q].route
                        /\ With(v)[q].owned = run[q].owned /\ With(v)[q].awaited = run[q].awaited
                        /\ With(v)[q].waiters = run[q].waiters
                        /\ With(v)[q].st = run[q].st
                              \/ (run[q].st = "probing" /\ With(v)[q].st = "settled")
                        /\ With(v)[q].shared => run[q].shared /\ With(v)[q].st = run[q].st
                        /\ With(v)[q].cached => run[q].cached \/ With(v)[q].st = "settled"
      BY DEF Alike
    <3>1. CASE q = r
      BY <1>1, <1>5, <2>1, <2>5, <3>1
    <3>2. CASE q # r
      BY <2>2, <2>5, <3>2
    <3> QED BY <3>1, <3>2
  <2> QED BY <2>4, <2>6
<1> HIDE DEF late, With
<1> QED BY <1>1, <1>7, <1>8

(* When callers do not go on, the types stay. *)
LEMMA CallersRestTyped ==
    ASSUME TypesAre, ProxyRests, UNCHANGED <<queue, caller, nested, starts>>, events' \in Nat,
           run' \in [Runs -> SoundRun], leases' \in SUBSET Lease
    PROVE  TypesAre'
<1>1. ProxyTypes' /\ UnderWay(queue', work')
    BY ProxyRestsTyped DEF ProxyRests
<1> QED BY <1>1 DEF TypesAre

(* So they do when a check ends or all are obsolete. *)
LEMMA RunEndsTyped ==
    ASSUME TypesAre, Invalidate \/ \E r \in Runs : RunEnds(r)
    PROVE  TypesAre'
<1>1. run \in [Runs -> SoundRun] /\ leases \in SUBSET Lease /\ events \in Nat
    BY DEF TypesAre
<1>2. CASE Invalidate
  <2>1. ProxyRests /\ UNCHANGED <<queue, caller, nested, starts>> /\ events' \in Nat
        /\ Becomes(Invalidated(run), leases)
    BY <1>1, <1>2 DEF Invalidate, ProxyRests, Event
  <2>2. run' \in [Runs -> SoundRun] /\ leases' \in SUBSET Lease
    BY <1>1, <2>1, RunTables, BecomesTyped
  <2> QED BY <2>1, <2>2, CallersRestTyped
<1>3. ASSUME NEW r \in Runs, RunEnds(r) PROVE TypesAre'
  <2>1. ProxyRests /\ UNCHANGED <<queue, events, caller, nested, starts>>
    BY <1>3, EndedRuns
  <2>2. PICK rs \in [Runs -> SoundRun] : Alike(rs, run) /\ Becomes(rs, leases)
    BY <1>3, EndedRuns
  <2>3. run' \in [Runs -> SoundRun] /\ leases' \in SUBSET Lease
    BY <1>1, <2>2, BecomesTyped
  <2> QED BY <1>1, <2>1, <2>3, CallersRestTyped
<1> QED BY <1>2, <1>3

-----------------------------------------------------------------------------
(* Callers resume, operate and stop.                                       *)

(* It enters its operation. *)
Enters(c) ==
    LET r == caller[c].run IN
    /\ caller[c].ph = "waiting" /\ run[r].st = "settled"
    /\ run[r].verdict = "allowed" /\ RunCurrent(r, caller[c].lease)
    /\ Goes(c, [Idle EXCEPT !.ph = "operating", !.kind = caller[c].kind, !.active = TRUE,
                            !.lease = caller[c].lease, !.route = run[r].route, !.run = r])
    /\ UNCHANGED <<run, leases>>

(* What is left of a request that is over. *)
Stopped(me, x) ==
    /\ x.ph = "ending" /\ ~x.active /\ x.route = None
    /\ x.lease = me.lease /\ x.kind = me.kind
    /\ x.run = IF me.kind = "recheck" THEN None ELSE me.run
    /\ x.out = "blocked" => x.capture # None

(* It is over, before its operation or after it. *)
Stops(c) ==
    LET me == caller[c]
        r == me.run IN
    /\ me.ph \in {"waiting", "operating"}
    /\ \E x \in CallerRecord :
          /\ Stopped(me, x) /\ Goes(c, x)
          /\ \/ x.capture = me.capture
             \/ /\ me.ph = "waiting" /\ run[r].st = "settled"
                /\ x.capture = [key |-> run[r].key, route |-> run[r].route]
    /\ \E rs \in [Runs -> SoundRun] :
          /\ Becomes(rs, leases)
          /\ \/ rs = run /\ me.kind # "recheck"
             \/ rs = Without(run, r, Top(c)) /\ (me.ph = "waiting" \/ me.kind = "recheck")
             \/ rs = CancelledRun(r, c) /\ me.ph = "waiting"

(* A request that is over has a type. *)
LEMMA OverTyped ==
    ASSUME NEW me \in CallerRecord, NEW o \in {"done", "aborted", "superseded", "blocked"},
           NEW p \in Capture \cup {None}, o = "blocked" => p # None
    PROVE  LET x == [Over(me, o) EXCEPT !.capture = p] IN
           x \in CallerRecord /\ Stopped(me, x) /\ x.capture = p
<1> DEFINE q == IF me.kind = "recheck" THEN None ELSE me.run
           x == [me EXCEPT !.ph = "ending", !.active = FALSE, !.out = o, !.route = None,
                           !.run = q, !.capture = p]
<1>1. q \in Runs \cup {None}
    BY DEF CallerRecord
<1> HIDE DEF q
<1>2. /\ x \in CallerRecord /\ x.ph = "ending" /\ ~x.active /\ x.route = None
      /\ x.lease = me.lease /\ x.kind = me.kind /\ x.run = q /\ x.out = o /\ x.capture = p
    BY <1>1 DEF CallerRecord
<1>3. [Over(me, o) EXCEPT !.capture = p] = x
  <2>1. Over(me, o) = [me EXCEPT !.ph = "ending", !.active = FALSE, !.out = o, !.route = None,
                                 !.run = q]
    BY DEF Over, q
  <2> QED BY <1>1, <2>1 DEF CallerRecord
<1> HIDE DEF x
<1>4. Stopped(me, x)
    BY <1>2 DEF Stopped, q
<1> QED BY <1>2, <1>3, <1>4

(* ... also without a new capture. *)
LEMMA OverAsItIs ==
    ASSUME NEW me \in CallerRecord, NEW o \in {"done", "aborted", "superseded"}
    PROVE  Over(me, o) \in CallerRecord /\ Stopped(me, Over(me, o))
           /\ Over(me, o).capture = me.capture
<1> DEFINE q == IF me.kind = "recheck" THEN None ELSE me.run
           x == [me EXCEPT !.ph = "ending", !.active = FALSE, !.out = o, !.route = None, !.run = q]
<1>1. q \in Runs \cup {None}
    BY DEF CallerRecord
<1> HIDE DEF q
<1>2. /\ x \in CallerRecord /\ x.ph = "ending" /\ ~x.active /\ x.route = None
      /\ x.lease = me.lease /\ x.kind = me.kind /\ x.run = q /\ x.out = o
      /\ x.capture = me.capture
    BY <1>1 DEF CallerRecord
<1>3. Over(me, o) = x
    BY DEF Over, q
<1> HIDE DEF x
<1>4. Stopped(me, x)
    BY <1>2 DEF Stopped, q
<1> QED BY <1>2, <1>3, <1>4

(* The runs of those that stop. *)
LEMMA CancelledTyped ==
    ASSUME TypesAre, NEW c \in Callers, NEW r \in Runs
    PROVE  Without(run, r, Top(c)) \in [Runs -> SoundRun] /\ CancelledRun(r, c) \in [Runs -> SoundRun]
<1>1. run \in [Runs -> SoundRun] /\ Top(c) \in Waiter
    BY Waiters DEF TypesAre
<1> DEFINE rest == Without(run, r, Top(c))
<1>2. rest \in [Runs -> SoundRun]
    BY <1>1, RunTables
<1> HIDE DEF rest
<1> DEFINE x == [rest[r] EXCEPT !.shared = FALSE, !.aborted = TRUE, !.awaited = @ \cup {c}]
<1>3. x \in SoundRun
  <2>1. rest[r] \in SoundRun
    BY <1>2
  <2> QED BY <2>1 DEF SoundRun, RunRecord
<1>4. [rest EXCEPT ![r].shared = FALSE, ![r].aborted = TRUE, ![r].awaited = @ \cup {c}]
         = [rest EXCEPT ![r] = x]
    BY <1>2
<1> HIDE DEF x
<1>5. [rest EXCEPT ![r] = x] \in [Runs -> SoundRun]
    BY <1>2, <1>3
<1>6. CancelledRun(r, c) \in {rest, [rest EXCEPT ![r] = x]}
    BY <1>4 DEF CancelledRun, rest
<1> QED BY <1>2, <1>5, <1>6 DEF rest

(* A caller that resumes enters its operation or stops, *)
LEMMA ResumesIs ==
    ASSUME TypesAre, NEW c \in Callers, Resumes(c)
    PROVE  /\ ProxyRests /\ UNCHANGED <<queue, events, nested, starts>>
           /\ Enters(c) \/ Stops(c)
<1> DEFINE me == caller[c]
           r == me.run
           superseded == run[r].verdict = "superseded"
<1>1. me \in CallerRecord /\ Fits(me, nested[c]) /\ run \in [Runs -> SoundRun]
      /\ leases \in SUBSET Lease
    BY DEF TypesAre
<1>2. me.ph = "waiting" /\ run[r].st = "settled"
      /\ ProxyRests /\ UNCHANGED <<queue, events, nested, starts>>
    BY DEF Resumes, ProxyRests
<1>3. r \in Runs
    BY <1>1, <1>2 DEF Fits, CallerRecord
<1>4. run[r] \in SoundRun /\ run[r].verdict \in {None, "allowed", "blocked", "superseded"}
  <2>1. run[r] \in SoundRun
    BY <1>1, <1>3
  <2> QED BY <2>1 DEF SoundRun, RunRecord
<1>5. CASE ~superseded /\ RunCurrent(r, me.lease) /\ run[r].verdict = "allowed"
  <2>1. /\ caller' = [caller EXCEPT ![c] = [Working(me, r, me.lease) EXCEPT !.run = r]]
        /\ UNCHANGED <<run, leases>>
    BY <1>5 DEF Resumes
  <2> HIDE DEF r
  <2>2. [Working(me, r, me.lease) EXCEPT !.run = r]
          = [Idle EXCEPT !.ph = "operating", !.kind = me.kind, !.active = TRUE,
                         !.lease = me.lease, !.route = run[r].route, !.run = r]
    BY DEF Working, Idle
  <2>3. Enters(c)
    BY <1>2, <1>5, <2>1, <2>2 DEF Enters, Goes, r
  <2> QED BY <1>2, <2>3
<1>6. CASE ~(~superseded /\ RunCurrent(r, me.lease) /\ run[r].verdict = "allowed")
  <2> DEFINE p == [key |-> run[r].key, route |-> run[r].route]
             x == IF superseded \/ ~RunCurrent(r, me.lease) THEN Over(me, "superseded")
                  ELSE [Over(me, "blocked") EXCEPT !.capture = p]
             rs == IF superseded THEN Without(run, r, Top(c)) ELSE LetsGo(run, me, c)
  <2>1. Goes(c, x) /\ Becomes(rs, leases)
    BY <1>6 DEF Resumes, Goes
  <2>2. p \in Capture /\ p # None
    BY <1>2, <1>4, NoneIsNothing DEF SoundRun, RunRecord, Capture
  <2>3. x \in CallerRecord /\ Stopped(me, x) /\ x.capture \in {me.capture, p}
    <3> HIDE DEF p, me
    <3>1. Over(me, "superseded") \in CallerRecord /\ Stopped(me, Over(me, "superseded"))
          /\ Over(me, "superseded").capture = me.capture
      BY <1>1, OverAsItIs
    <3>2. LET y == [Over(me, "blocked") EXCEPT !.capture = p] IN
          y \in CallerRecord /\ Stopped(me, y) /\ y.capture = p
      BY <1>1, <2>2, OverTyped
    <3> HIDE DEF r, superseded
    <3> QED BY <3>1, <3>2
  <2>4. /\ rs \in [Runs -> SoundRun]
        /\ \/ rs = run /\ me.kind # "recheck"
           \/ rs = Without(run, r, Top(c))
    <3> HIDE DEF superseded
    <3> QED BY <1>1, <1>3, CancelledTyped DEF LetsGo
  <2> HIDE DEF x, rs
  <2>5. Stops(c)
    BY <1>2, <2>1, <2>3, <2>4 DEF Stops
  <2> QED BY <1>2, <2>5
<1> QED BY <1>5, <1>6

(* ... one whose operation has ended stops, *)
LEMMA OperationEndsIs ==
    ASSUME TypesAre, NEW c \in Callers, OperationEnds(c)
    PROVE  ProxyRests /\ UNCHANGED <<queue, events, nested, starts>> /\ Stops(c)
<1> DEFINE me == caller[c]
           r == me.run
           x == Over(me, "done")
           rs == LetsGo(run, me, c)
<1>1. me \in CallerRecord /\ Fits(me, nested[c]) /\ run \in [Runs -> SoundRun]
      /\ caller \in [Callers -> CallerRecord]
    BY DEF TypesAre
<1>2. me.ph = "operating" /\ ProxyRests /\ UNCHANGED <<queue, events, nested, starts>>
      /\ Goes(c, x) /\ Becomes(rs, leases)
    BY <1>1 DEF OperationEnds, ProxyRests, Goes
<1>3. x \in CallerRecord /\ Stopped(me, x) /\ x.capture = me.capture
    BY <1>1, OverAsItIs
<1>4. /\ rs \in [Runs -> SoundRun]
      /\ \/ rs = run /\ me.kind # "recheck"
         \/ rs = Without(run, r, Top(c)) /\ me.kind = "recheck"
  <2>1. ASSUME me.kind = "recheck" PROVE r \in Runs
    BY <1>1, <1>2, <2>1 DEF Fits, CallerRecord
  <2> QED BY <1>1, <2>1, CancelledTyped DEF LetsGo
<1> HIDE DEF x, rs
<1>5. Stops(c)
    BY <1>2, <1>3, <1>4 DEF Stops
<1> QED BY <1>2, <1>5

(* ... and one that is aborted leaves the queue, stops, or does not start  *)
(* anything nested any more.                                               *)
LEMMA AbortIs ==
    ASSUME TypesAre, NEW c \in Callers, Abort(c)
    PROVE  /\ ProxyRests /\ UNCHANGED <<nested, starts>> /\ events' \in Nat
           /\ \/ /\ caller[c].ph = "queued" /\ Goes(c, Idle) /\ queue' = AbandonedBy(queue, c)
                 /\ UNCHANGED <<run, leases>>
              \/ Stops(c) /\ UNCHANGED queue
              \/ /\ caller[c].ph = "operating"
                 /\ Goes(c, [caller[c] EXCEPT !.active = FALSE])
                 /\ UNCHANGED <<queue, run, leases>>
<1>1. /\ caller[c] \in CallerRecord /\ Fits(caller[c], nested[c]) /\ run \in [Runs -> SoundRun]
      /\ caller \in [Callers -> CallerRecord] /\ events \in Nat
    BY DEF TypesAre
<1>2. ProxyRests /\ UNCHANGED <<nested, starts>> /\ events' \in Nat
    BY <1>1 DEF Abort, ProxyRests, Event
<1>3. CASE /\ caller[c].ph = "queued"
           /\ caller' = [caller EXCEPT ![c] = Idle]
           /\ queue' = [i \in DOMAIN queue |->
                IF queue[i] = Acquisition(c) THEN [queue[i] EXCEPT !.abandoned = TRUE]
                ELSE queue[i]]
           /\ UNCHANGED <<run, leases>>
    BY <1>2, <1>3 DEF Goes, AbandonedBy
<1>4. CASE /\ caller[c].ph = "waiting"
           /\ caller' = [caller EXCEPT ![c] = Over(@, "aborted")]
           /\ Becomes(CancelledRun(caller[c].run, c), leases)
           /\ UNCHANGED queue
  <2>1. Goes(c, Over(caller[c], "aborted"))
    BY <1>1, <1>4 DEF Goes
  <2>2. caller[c].run \in Runs
    BY <1>1, <1>4 DEF Fits, CallerRecord
  <2>3. CancelledRun(caller[c].run, c) \in [Runs -> SoundRun]
    BY <2>2, CancelledTyped
  <2>4. LET x == Over(caller[c], "aborted") IN
        x \in CallerRecord /\ Stopped(caller[c], x) /\ x.capture = caller[c].capture
    BY <1>1, OverAsItIs
  <2>5. Stops(c)
    BY <1>4, <2>1, <2>3, <2>4 DEF Stops
  <2> QED BY <1>2, <1>4, <2>5
<1>5. CASE /\ caller[c].ph = "operating" /\ caller[c].active
           /\ caller' = [caller EXCEPT ![c].active = FALSE]
           /\ UNCHANGED <<queue, run, leases>>
    BY <1>1, <1>2, <1>5 DEF Goes
<1> QED BY <1>3, <1>4, <1>5 DEF Abort

(* A caller that enters is typed, *)
LEMMA EntersTyped ==
    ASSUME TypesAre, ProxyRests, UNCHANGED <<queue, events, nested, starts>>,
           NEW c \in Callers, Enters(c)
    PROVE  TypesAre'
<1> DEFINE me == caller[c]
           r == me.run
           x == [Idle EXCEPT !.ph = "operating", !.kind = me.kind, !.active = TRUE,
                            !.lease = me.lease, !.route = run[r].route, !.run = r]
<1>1. me \in CallerRecord /\ Fits(me, nested[c]) /\ run \in [Runs -> SoundRun]
      /\ leases \in SUBSET Lease /\ events \in Nat /\ starts \in Nat /\ nested[c] \in NestedRecord
    BY DEF TypesAre
<1>2. me.ph = "waiting" /\ run[r].st = "settled" /\ Goes(c, x) /\ UNCHANGED <<run, leases>>
    BY DEF Enters
<1>3. r \in Runs /\ r # None
    BY <1>1, <1>2 DEF Fits, CallerRecord
<1>4. run[r].route \in RouteTable
  <2>1. run[r] \in SoundRun
    BY <1>1, <1>3
  <2> QED BY <1>2, <2>1 DEF SoundRun, RunRecord
<1>5. x \in CallerRecord /\ x.ph = "operating" /\ x.run = r
  <2> HIDE DEF r
  <2> QED BY <1>1, <1>3, <1>4 DEF CallerRecord, Idle
<1> HIDE DEF x
<1>6. Fits(x, nested[c])
    BY <1>1, <1>2, <1>3, <1>5 DEF Fits
<1> QED BY <1>1, <1>2, <1>5, <1>6, CallerGoes

(* ... and so is one that stops. *)
LEMMA StopsTyped ==
    ASSUME TypesAre, ProxyRests, UNCHANGED <<queue, nested, starts>>, events' \in Nat,
           NEW c \in Callers, Stops(c)
    PROVE  TypesAre'
<1>1. caller[c] \in CallerRecord /\ Fits(caller[c], nested[c]) /\ nested[c] \in NestedRecord
      /\ leases \in SUBSET Lease /\ starts \in Nat
    BY DEF TypesAre
<1>2. caller[c].ph \in {"waiting", "operating"}
      /\ (\E x \in CallerRecord : Stopped(caller[c], x) /\ Goes(c, x))
      /\ (\E rs \in [Runs -> SoundRun] : Becomes(rs, leases))
    BY DEF Stops
<1>3. PICK x \in CallerRecord : Stopped(caller[c], x) /\ Goes(c, x)
    BY <1>2
<1>4. PICK rs \in [Runs -> SoundRun] : Becomes(rs, leases)
    BY <1>2
<1>5. run' \in [Runs -> SoundRun] /\ leases' \in SUBSET Lease
    BY <1>1, <1>4, BecomesTyped
<1>6. Fits(x, nested[c])
    BY <1>1, <1>3 DEF Fits, Stopped
<1> QED BY <1>1, <1>2, <1>3, <1>5, <1>6, CallerGoes

(* Nor does an aborted one leave its types. *)
LEMMA AbortTyped ==
    ASSUME TypesAre, NEW c \in Callers, Abort(c)
    PROVE  TypesAre'
<1>1. ProxyRests /\ UNCHANGED <<nested, starts>> /\ events' \in Nat
    BY AbortIs
<1>2. caller[c] \in CallerRecord /\ Fits(caller[c], nested[c]) /\ nested[c] \in NestedRecord
      /\ leases \in SUBSET Lease /\ starts \in Nat /\ run \in [Runs -> SoundRun]
      /\ queue \in Seq(Item) /\ Order(queue, caller) /\ UnderWay(queue, work)
      /\ caller \in [Callers -> CallerRecord]
    BY DEF TypesAre
<1>3. CASE /\ caller[c].ph = "queued" /\ Goes(c, Idle) /\ queue' = AbandonedBy(queue, c)
           /\ UNCHANGED <<run, leases>>
  <2>1. \A d \in Callers \ {c} : caller'[d].ph = caller[d].ph
    BY <1>2, <1>3 DEF Goes
  <2>2. /\ queue' \in Seq(Item) /\ Order(queue', caller')
        /\ queue # <<>> => queue' # <<>> /\ Head(queue').kind = Head(queue).kind
    BY <1>2, <1>3, <2>1, OrderAbandoned
  <2>3. UnderWay(queue', work)
    BY <1>2, <2>2 DEF UnderWay
  <2>4. Idle \in CallerRecord /\ Fits(Idle, nested[c])
    BY <1>2, <1>3 DEF CallerRecord, Idle, Fits
  <2> QED BY <1>1, <1>2, <1>3, <2>2, <2>3, <2>4, CallerStep
<1>4. CASE Stops(c) /\ UNCHANGED queue
    BY <1>1, <1>4, StopsTyped
<1>5. CASE /\ caller[c].ph = "operating"
           /\ Goes(c, [caller[c] EXCEPT !.active = FALSE])
           /\ UNCHANGED <<queue, run, leases>>
  <2> DEFINE x == [caller[c] EXCEPT !.active = FALSE]
  <2>1. x \in CallerRecord /\ ~x.active /\ x.ph = "operating" /\ x.run = caller[c].run
        /\ x.kind = caller[c].kind
    BY <1>2, <1>5 DEF CallerRecord
  <2> HIDE DEF x
  <2>2. Fits(x, nested[c])
    BY <1>2, <1>5, <2>1 DEF Fits
  <2>3. Goes(c, x)
    BY <1>5 DEF x
  <2> QED BY <1>1, <1>2, <1>5, <2>1, <2>2, <2>3, CallerGoes
<1> QED BY <1>3, <1>4, <1>5, AbortIs

(* The context of a request ends. *)
Leaves(c) ==
    LET me == caller[c] IN
    /\ me.ph = "ending" /\ ~Pending(c)
    /\ IF me.run = None THEN Becomes(run, leases \ {me.lease})
       ELSE Becomes(Without(run, me.run, Top(c)), leases)
    /\ \E x \in CallerRecord :
          /\ x.lease = None /\ x.run = None /\ ~x.active /\ x.kind = "guarded"
          /\ x.capture = None \/ (x.ph = "paused" /\ x.capture = me.capture /\ x.capture # None)
          /\ \/ x.ph \in {"idle", "paused"} /\ Goes(c, x) /\ UNCHANGED queue
                /\ (x.ph = "paused" => x.capture # None)
             \/ x.ph = "queued" /\ Queued(c, x)

(* Whatever becomes of the request then. *)
LEMMA EndsIs ==
    ASSUME TypesAre, NEW c \in Callers, Ends(c)
    PROVE  ProxyRests /\ UNCHANGED <<nested, starts>> /\ events' \in Nat /\ Leaves(c)
<1> DEFINE me == caller[c]
<1>1. me \in CallerRecord /\ Fits(me, nested[c]) /\ events \in Nat
    BY DEF TypesAre
<1> HIDE DEF me
<1> DEFINE May(x) ==
        /\ x \in CallerRecord
        /\ x.lease = None /\ x.run = None /\ ~x.active /\ x.kind = "guarded"
        /\ x.capture = None \/ (x.ph = "paused" /\ x.capture = me.capture /\ x.capture # None)
        /\ x.ph \in {"idle", "paused", "queued"}
        /\ x.ph = "paused" => x.capture # None
<1>2. \E x : Returns(c, x) /\ May(x)
  <2> DEFINE again == [Idle EXCEPT !.ph = "queued", !.retried = me.retried, !.fresh = me.fresh]
  <2>1. May(Idle) /\ May([again EXCEPT !.retried = TRUE]) /\ May([again EXCEPT !.fresh = TRUE])
    <3>1. me.retried \in BOOLEAN /\ me.fresh \in BOOLEAN
      BY <1>1 DEF CallerRecord
    <3>2. ASSUME NEW p \in BOOLEAN, NEW q \in BOOLEAN
          PROVE  May([Idle EXCEPT !.ph = "queued", !.retried = p, !.fresh = q])
      BY DEF Idle, CallerRecord
    <3>3. May(Idle)
      BY DEF Idle, CallerRecord
    <3>4. [again EXCEPT !.retried = TRUE]
             = [Idle EXCEPT !.ph = "queued", !.retried = TRUE, !.fresh = me.fresh]
      BY DEF Idle
    <3>5. [again EXCEPT !.fresh = TRUE]
             = [Idle EXCEPT !.ph = "queued", !.retried = me.retried, !.fresh = TRUE]
      BY DEF Idle
    <3> HIDE DEF May, again
    <3> QED BY <3>1, <3>2, <3>3, <3>4, <3>5
  <2>2. ASSUME me.ph = "ending", me.out = "blocked"
        PROVE  May([Idle EXCEPT !.ph = "paused", !.capture = me.capture])
    <3>1. me.capture # None /\ me.capture \in Capture
      BY <1>1, <2>2 DEF Fits, CallerRecord
    <3> QED BY <3>1 DEF Idle, CallerRecord
  <2>3. /\ me.ph = "ending"
        /\ \/ Returns(c, Idle)
           \/ Returns(c, [again EXCEPT !.retried = TRUE])
           \/ Returns(c, [again EXCEPT !.fresh = TRUE])
           \/ me.out = "blocked" /\ Returns(c, [Idle EXCEPT !.ph = "paused", !.capture = me.capture])
    BY DEF Ends, Returns, me
  <2> HIDE DEF May, again
  <2> QED BY <2>1, <2>2, <2>3
<1>3. PICK x : Returns(c, x) /\ May(x)
    BY <1>2
<1>4. ProxyRests /\ UNCHANGED <<nested, starts>>
    BY <1>3 DEF Returns, ProxyRests
<1>5. events' \in Nat
    BY <1>1 DEF Ends, Event
<1>6. /\ me.ph = "ending" /\ ~Pending(c)
      /\ IF me.run = None THEN Becomes(run, leases \ {me.lease})
         ELSE Becomes(Without(run, me.run, Top(c)), leases)
      /\ IF x.ph = "queued" THEN Queued(c, x) ELSE Goes(c, x) /\ UNCHANGED queue
    BY <1>3 DEF Returns, Goes, me
<1>7. Leaves(c)
    BY <1>3, <1>6 DEF Leaves, me
<1> QED BY <1>4, <1>5, <1>7

(* The types stay when it does. *)
LEMMA EndsTyped ==
    ASSUME TypesAre, NEW c \in Callers, Ends(c)
    PROVE  TypesAre'
<1>1. ProxyRests /\ UNCHANGED <<nested, starts>> /\ events' \in Nat /\ Leaves(c)
    BY EndsIs
<1>2. caller[c] \in CallerRecord /\ Fits(caller[c], nested[c]) /\ nested[c] \in NestedRecord
      /\ leases \in SUBSET Lease /\ starts \in Nat /\ run \in [Runs -> SoundRun]
      /\ queue \in Seq(Item) /\ Order(queue, caller) /\ UnderWay(queue, work)
    BY DEF TypesAre
<1>3. caller[c].ph = "ending" /\ nested[c].ph = "none"
    BY <1>1 DEF Leaves, Pending
<1>4. run' \in [Runs -> SoundRun] /\ leases' \in SUBSET Lease
  <2>1. CASE caller[c].run = None
    <3>1. Becomes(run, leases \ {caller[c].lease}) /\ leases \ {caller[c].lease} \in SUBSET Lease
      BY <1>1, <1>2, <2>1 DEF Leaves
    <3> QED BY <1>2, <3>1, BecomesTyped
  <2>2. CASE caller[c].run # None
    <3>1. caller[c].run \in Runs
      BY <1>2, <2>2 DEF CallerRecord
    <3>2. Becomes(Without(run, caller[c].run, Top(c)), leases)
      BY <1>1, <2>2 DEF Leaves
    <3>3. Without(run, caller[c].run, Top(c)) \in [Runs -> SoundRun]
      BY <3>1, CancelledTyped
    <3> QED BY <1>2, <3>2, <3>3, BecomesTyped
  <2> QED BY <2>1, <2>2
<1>5. PICK x \in CallerRecord :
          /\ x.lease = None /\ x.run = None /\ ~x.active /\ x.kind = "guarded"
          /\ \/ x.ph \in {"idle", "paused"} /\ Goes(c, x) /\ UNCHANGED queue
                /\ (x.ph = "paused" => x.capture # None)
             \/ x.ph = "queued" /\ Queued(c, x)
    BY <1>1 DEF Leaves
<1>6. CASE x.ph \in {"idle", "paused"} /\ Goes(c, x) /\ UNCHANGED queue
           /\ (x.ph = "paused" => x.capture # None)
  <2>1. Fits(x, nested[c])
    BY <1>3, <1>5, <1>6 DEF Fits
  <2> QED BY <1>1, <1>2, <1>3, <1>4, <1>6, <2>1, CallerGoes
<1>7. CASE x.ph = "queued" /\ Queued(c, x)
  <2>1. [x EXCEPT !.ph = "queued"] = x
    BY <1>7 DEF CallerRecord
  <2>2. Goes(c, x) /\ queue' \in Seq(Item) /\ Order(queue', caller') /\ UnderWay(queue', work)
    BY <1>3, <1>7, <2>1, CallerQueues
  <2>3. Fits(x, nested[c])
    BY <1>3, <1>5, <1>7 DEF Fits
  <2> QED BY <1>1, <1>2, <1>4, <2>2, <2>3, CallerStep
<1> QED BY <1>5, <1>6, <1>7

-----------------------------------------------------------------------------
(* Nested operations.                                                      *)

NestedGoes(c, n) == nested' = [nested EXCEPT ![c] = n]

NestedWaiting(r) == [NotNested EXCEPT !.ph = "waiting", !.run = r]

(* One is wanted: it joins a check, takes a verdict, checks, or is over. *)
NestedJoins(c) ==
    \E r \in Runs :
       /\ run[r].shared /\ run[r].key = caller[c].lease.epochs
       /\ NestedGoes(c, NestedWaiting(r))
       /\ Becomes([run EXCEPT ![r].waiters = @ \cup {Inner(c)}], leases)

NestedReuses(c) ==
    /\ \E r \in Runs :
          /\ run[r].cached /\ run[r].key = caller[c].lease.epochs
          /\ NestedGoes(c, [ph |-> "operating", run |-> None, route |-> run[r].route])
    /\ UNCHANGED <<run, leases>>

NestedProbes(c) ==
    \E r \in Runs :
       /\ run[r] = NoRun
       /\ NestedGoes(c, NestedWaiting(r))
       /\ Becomes(NewRun(run, r, caller[c].lease.epochs, caller[c].lease, {c}, Inner(c)), leases)

(* One has waited for a check: it enters, *)
NestedEnters(c) ==
    LET r == nested[c].run IN
    /\ nested[c].ph = "waiting" /\ run[r].st = "settled"
    /\ caller[c].active /\ run[r].verdict = "allowed" /\ RunCurrent(r, caller[c].lease)
    /\ NestedGoes(c, [ph |-> "operating", run |-> r, route |-> run[r].route])
    /\ Becomes(run, leases)

(* ... or it leaves, as it does in the end. *)
NestedLeaves(c) ==
    /\ nested[c].ph # "none"
    /\ NestedGoes(c, NotNested)
    /\ IF nested[c].run = None THEN UNCHANGED <<run, leases>>
       ELSE Becomes(Without(run, nested[c].run, Inner(c)), leases)

(* What a nested request may lead to. *)
LEMMA NestedRequestIs ==
    ASSUME TypesAre, NEW c \in Callers, NestedRequest(c)
    PROVE  /\ ProxyRests /\ UNCHANGED <<queue, caller, starts>> /\ events' \in Nat
           /\ caller[c].active /\ nested[c].ph = "none" /\ LeaseCurrent(caller[c].lease)
           /\ \/ NestedJoins(c) \/ NestedReuses(c) \/ NestedProbes(c)
              \/ NestedGoes(c, NotNested) /\ UNCHANGED <<run, leases>>
<1> DEFINE l == caller[c].lease
           key == l.epochs
<1>1. /\ ProxyRests /\ UNCHANGED <<queue, caller, starts>> /\ events' \in Nat
      /\ caller[c].active /\ nested[c].ph = "none" /\ LeaseCurrent(l) /\ FreeRuns # {}
  <2>1. events \in Nat
    BY DEF TypesAre
  <2>2. events' \in Nat
    <3>1. Event
      BY DEF NestedRequest
    <3> QED BY <2>1, <3>1 DEF Event
  <2>3. caller[c].active /\ nested[c].ph = "none" /\ LeaseCurrent(l) /\ FreeRuns # {}
    BY DEF NestedRequest
  <2>4. ProxyRests /\ UNCHANGED <<queue, caller, starts>>
    BY DEF NestedRequest, ProxyRests
  <2> QED BY <2>2, <2>3, <2>4
<1>2. AnyRun \in Runs /\ run[AnyRun] = NoRun
  <2>1. AnyRun \in FreeRuns
    BY <1>1 DEF AnyRun
  <2> QED BY <2>1 DEF FreeRuns
<1>3. ASSUME NEW r PROVE [NotNested EXCEPT !.ph = "waiting", !.run = r] = NestedWaiting(r)
    BY DEF NestedWaiting
<1>4. IF InFlight(key) # {}
      THEN \E r \in InFlight(key) :
               /\ nested' = [nested EXCEPT ![c] = [NotNested EXCEPT !.ph = "waiting", !.run = r]]
               /\ Becomes([run EXCEPT ![r].waiters = @ \cup {Inner(c)}], leases)
      ELSE \/ /\ \E r \in Cached(key) : NestedJudged(c, r, FALSE)
              /\ UNCHANGED <<run, leases>>
           \/ /\ nested' = [nested EXCEPT ![c] =
                     [NotNested EXCEPT !.ph = "waiting", !.run = AnyRun]]
              /\ Becomes(NewRun(run, AnyRun, key, l, {c}, Inner(c)), leases)
    BY DEF NestedRequest
<1> HIDE DEF l
<1>5. CASE \E r \in InFlight(key) :
               /\ nested' = [nested EXCEPT ![c] = [NotNested EXCEPT !.ph = "waiting", !.run = r]]
               /\ Becomes([run EXCEPT ![r].waiters = @ \cup {Inner(c)}], leases)
  <2>1. PICK r \in InFlight(key) :
               /\ nested' = [nested EXCEPT ![c] = [NotNested EXCEPT !.ph = "waiting", !.run = r]]
               /\ Becomes([run EXCEPT ![r].waiters = @ \cup {Inner(c)}], leases)
    BY <1>5
  <2>2. r \in Runs /\ run[r].shared /\ run[r].key = key
    BY DEF InFlight
  <2>3. NestedJoins(c)
    BY <1>3, <2>1, <2>2 DEF NestedJoins, NestedGoes, l
  <2> QED BY <1>1, <2>3 DEF l
<1>6. CASE (\E r \in Cached(key) : NestedJudged(c, r, FALSE)) /\ UNCHANGED <<run, leases>>
  <2>1. PICK r \in Cached(key) : NestedJudged(c, r, FALSE)
    BY <1>6
  <2>2. r \in Runs /\ run[r].cached /\ run[r].key = key
    BY DEF Cached
  <2>3. \/ NestedGoes(c, [ph |-> "operating", run |-> None, route |-> run[r].route])
        \/ NestedGoes(c, NotNested)
    BY <2>1 DEF NestedJudged, NestedOver, NestedGoes
  <2>4. NestedReuses(c) \/ NestedGoes(c, NotNested)
    BY <1>6, <2>2, <2>3 DEF NestedReuses, l
  <2> QED BY <1>1, <1>6, <2>4 DEF l
<1>7. CASE /\ nested' = [nested EXCEPT ![c] =
                     [NotNested EXCEPT !.ph = "waiting", !.run = AnyRun]]
           /\ Becomes(NewRun(run, AnyRun, key, l, {c}, Inner(c)), leases)
  <2>1. NestedProbes(c)
    BY <1>2, <1>3, <1>7 DEF NestedProbes, NestedGoes, l
  <2> QED BY <1>1, <2>1 DEF l
<1> QED BY <1>4, <1>5, <1>6, <1>7

(* What its end may. *)
LEMMA NestedStepsAre ==
    ASSUME TypesAre, NEW c \in Callers, NestedResumes(c) \/ NestedEnds(c)
    PROVE  /\ ProxyRests /\ UNCHANGED <<queue, events, caller, starts>>
           /\ NestedEnters(c) \/ NestedLeaves(c)
<1> DEFINE n == nested[c]
           r == n.run
<1>1. n \in NestedRecord /\ Fits(caller[c], n) /\ nested \in [Callers -> NestedRecord]
    BY DEF TypesAre
<1>2. CASE NestedResumes(c)
  <2>1. n.ph = "waiting" /\ run[r].st = "settled"
        /\ ProxyRests /\ UNCHANGED <<queue, events, caller, starts>>
    BY <1>2 DEF NestedResumes, ProxyRests
  <2>2. r # None
    BY <1>1, <2>1 DEF Fits
  <2>3. CASE run[r].verdict # "superseded" /\ RunCurrent(r, caller[c].lease)
    <3>1. NestedJudged(c, r, TRUE)
          /\ Becomes(IF nested'[c].ph = "operating" THEN run ELSE Without(run, r, Inner(c)), leases)
      BY <1>2, <2>3 DEF NestedResumes
    <3>2. CASE caller[c].active /\ run[r].verdict = "allowed"
      <4>1. NestedGoes(c, [ph |-> "operating", run |-> r, route |-> run[r].route])
        BY <3>1, <3>2 DEF NestedJudged, NestedGoes
      <4>2. nested'[c].ph = "operating"
        BY <1>1, <4>1 DEF NestedGoes
      <4>3. NestedEnters(c)
        BY <2>1, <2>3, <3>1, <3>2, <4>1, <4>2 DEF NestedEnters
      <4> QED BY <2>1, <4>3
    <3>3. CASE ~(caller[c].active /\ run[r].verdict = "allowed")
      <4>1. NestedGoes(c, NotNested)
        BY <3>1, <3>3 DEF NestedJudged, NestedGoes, NestedOver
      <4>2. nested'[c].ph # "operating"
        BY <1>1, <4>1 DEF NestedGoes, NotNested
      <4>3. NestedLeaves(c)
        BY <2>1, <2>2, <3>1, <4>1, <4>2 DEF NestedLeaves
      <4> QED BY <2>1, <4>3
    <3> QED BY <3>2, <3>3
  <2>4. CASE ~(run[r].verdict # "superseded" /\ RunCurrent(r, caller[c].lease))
    <3>1. NestedLeaves(c)
      BY <1>2, <2>1, <2>2, <2>4 DEF NestedResumes, NestedLeaves, NestedOver, NestedGoes
    <3> QED BY <2>1, <3>1
  <2> QED BY <2>3, <2>4
<1>3. CASE NestedEnds(c)
  <2>1. n.ph = "operating" /\ ProxyRests /\ UNCHANGED <<queue, events, caller, starts>>
    BY <1>3 DEF NestedEnds, ProxyRests
  <2>2. NestedLeaves(c)
    BY <1>3, <2>1 DEF NestedEnds, NestedLeaves, NestedOver, NestedGoes
  <2> QED BY <2>1, <2>2
<1> QED BY <1>2, <1>3

(* A nested operation goes on. *)
LEMMA NestedStepTyped ==
    ASSUME TypesAre, ProxyRests, UNCHANGED <<queue, caller, starts>>, events' \in Nat,
           NEW c \in Callers, NEW n \in NestedRecord, NestedGoes(c, n), Fits(caller[c], n),
           run' \in [Runs -> SoundRun], leases' \in SUBSET Lease
    PROVE  TypesAre'
<1>1. nested' \in [Callers -> NestedRecord] /\ nested \in [Callers -> NestedRecord]
    BY DEF NestedGoes, TypesAre
<1>2. ASSUME NEW d \in Callers PROVE Fits(caller'[d], nested'[d])
    BY <1>1 DEF NestedGoes, TypesAre
<1>3. ProxyTypes' /\ UnderWay(queue', work')
    BY ProxyRestsTyped DEF ProxyRests
<1> QED BY <1>1, <1>2, <1>3 DEF TypesAre

(* The types stay. *)
LEMMA NestedTyped ==
    ASSUME TypesAre, NEW c \in Callers, NestedRequest(c) \/ NestedResumes(c) \/ NestedEnds(c)
    PROVE  TypesAre'
<1>1. /\ caller[c] \in CallerRecord /\ Fits(caller[c], nested[c]) /\ nested[c] \in NestedRecord
      /\ leases \in SUBSET Lease /\ run \in [Runs -> SoundRun] /\ events \in Nat
      /\ electron \in [Scopes -> Sessions \cup {System}]
    BY DEF TypesAre, ProxyTypes
<1>2. NotNested \in NestedRecord /\ Fits(caller[c], NotNested) /\ Inner(c) \in Waiter
    BY <1>1, Waiters DEF NotNested, NestedRecord, Fits
<1>3. ASSUME NEW r \in Runs, caller[c].ph \in {"operating", "ending"}
      PROVE  NestedWaiting(r) \in NestedRecord /\ Fits(caller[c], NestedWaiting(r))
    BY <1>1, <1>3, NoneIsNothing DEF NestedWaiting, NotNested, NestedRecord, Fits
<1>4. ASSUME NEW r \in Runs \cup {None}, NEW p \in RouteTable,
             caller[c].ph \in {"operating", "ending"}
      PROVE  LET n == [ph |-> "operating", run |-> r, route |-> p] IN
             n \in NestedRecord /\ Fits(caller[c], n)
    BY <1>1, <1>4 DEF NestedRecord, Fits
<1>5. CASE NestedRequest(c)
  <2>1. /\ ProxyRests /\ UNCHANGED <<queue, caller, starts>> /\ events' \in Nat
        /\ caller[c].active /\ LeaseCurrent(caller[c].lease)
        /\ \/ NestedJoins(c) \/ NestedReuses(c) \/ NestedProbes(c)
           \/ NestedGoes(c, NotNested) /\ UNCHANGED <<run, leases>>
    BY <1>5, NestedRequestIs
  <2>2. caller[c].ph = "operating" /\ caller[c].lease \in Lease
    BY <1>1, <2>1 DEF Fits, LeaseCurrent
  <2>3. CASE NestedJoins(c)
    <3>1. PICK r \in Runs : NestedGoes(c, NestedWaiting(r))
             /\ Becomes([run EXCEPT ![r].waiters = @ \cup {Inner(c)}], leases)
      BY <2>3 DEF NestedJoins
    <3>2. [run EXCEPT ![r].waiters = @ \cup {Inner(c)}] \in [Runs -> SoundRun]
      BY <1>1, <1>2, RunTables
    <3>3. run' \in [Runs -> SoundRun] /\ leases' \in SUBSET Lease
      BY <1>1, <3>1, <3>2, BecomesTyped
    <3>4. NestedWaiting(r) \in NestedRecord /\ Fits(caller[c], NestedWaiting(r))
      BY <1>3, <2>2
    <3> QED BY <2>1, <3>1, <3>3, <3>4, NestedStepTyped
  <2>4. CASE NestedReuses(c)
    <3>1. PICK r \in Runs : run[r].cached
             /\ NestedGoes(c, [ph |-> "operating", run |-> None, route |-> run[r].route])
             /\ UNCHANGED <<run, leases>>
      BY <2>4 DEF NestedReuses
    <3>2. run[r] \in SoundRun
      BY <1>1
    <3>3. run[r].route \in RouteTable
      BY <3>1, <3>2 DEF SoundRun, RunRecord
    <3> DEFINE n == [ph |-> "operating", run |-> None, route |-> run[r].route]
    <3>4. n \in NestedRecord /\ Fits(caller[c], n)
      BY <1>4, <2>2, <3>3
    <3>5. NestedGoes(c, n)
      BY <3>1
    <3> HIDE DEF n
    <3> QED BY <1>1, <2>1, <3>1, <3>4, <3>5, NestedStepTyped
  <2>5. CASE NestedProbes(c)
    <3>1. PICK r \in Runs : NestedGoes(c, NestedWaiting(r))
             /\ Becomes(NewRun(run, r, caller[c].lease.epochs, caller[c].lease, {c}, Inner(c)),
                        leases)
      BY <2>5 DEF NestedProbes
    <3>2. {c} \in SUBSET Callers
      OBVIOUS
    <3>3. NewRun(run, r, caller[c].lease.epochs, caller[c].lease, {c}, Inner(c))
             \in [Runs -> SoundRun]
      BY <1>1, <1>2, <2>2, <3>2, NewRunTyped
    <3>4. run' \in [Runs -> SoundRun] /\ leases' \in SUBSET Lease
      BY <1>1, <3>1, <3>3, BecomesTyped
    <3>5. NestedWaiting(r) \in NestedRecord /\ Fits(caller[c], NestedWaiting(r))
      BY <1>3, <2>2
    <3> QED BY <2>1, <3>1, <3>4, <3>5, NestedStepTyped
  <2>6. CASE NestedGoes(c, NotNested) /\ UNCHANGED <<run, leases>>
    BY <1>1, <1>2, <2>1, <2>6, NestedStepTyped
  <2> QED BY <2>1, <2>3, <2>4, <2>5, <2>6
<1>6. CASE NestedResumes(c) \/ NestedEnds(c)
  <2>1. /\ ProxyRests /\ UNCHANGED <<queue, events, caller, starts>>
        /\ NestedEnters(c) \/ NestedLeaves(c)
    BY <1>6, NestedStepsAre
  <2>2. nested[c].ph # "none" /\ caller[c].ph \in {"operating", "ending"}
        /\ nested[c].run \in Runs \cup {None}
    BY <1>1, <2>1 DEF Fits, NestedEnters, NestedLeaves, NestedRecord
  <2>3. CASE NestedEnters(c)
    <3> DEFINE r == nested[c].run
               n == [ph |-> "operating", run |-> r, route |-> run[r].route]
    <3>1. r # None /\ NestedGoes(c, n) /\ Becomes(run, leases) /\ run[r].st = "settled"
      BY <1>1, <2>3 DEF NestedEnters, Fits
    <3>2. run[r] \in SoundRun /\ r \in Runs
      BY <1>1, <2>2, <3>1
    <3>3. run[r].route \in RouteTable
      BY <3>1, <3>2 DEF SoundRun, RunRecord
    <3>4. n \in NestedRecord /\ Fits(caller[c], n)
      <4> HIDE DEF r
      <4> QED BY <1>4, <2>2, <3>2, <3>3
    <3>5. run' \in [Runs -> SoundRun] /\ leases' \in SUBSET Lease
      BY <1>1, <3>1, BecomesTyped
    <3> HIDE DEF n
    <3> QED BY <1>1, <2>1, <3>1, <3>4, <3>5, NestedStepTyped
  <2>4. CASE NestedLeaves(c)
    <3>1. run' \in [Runs -> SoundRun] /\ leases' \in SUBSET Lease
      <4>1. CASE nested[c].run = None
        BY <1>1, <2>4, <4>1 DEF NestedLeaves
      <4>2. CASE nested[c].run # None
        <5>1. Becomes(Without(run, nested[c].run, Inner(c)), leases)
          BY <2>4, <4>2 DEF NestedLeaves
        <5>2. Without(run, nested[c].run, Inner(c)) \in [Runs -> SoundRun]
          BY <1>1, <1>2, <2>2, <4>2, RunTables
        <5> QED BY <1>1, <5>1, <5>2, BecomesTyped
      <4> QED BY <4>1, <4>2
    <3>2. NestedGoes(c, NotNested)
      BY <2>4 DEF NestedLeaves
    <3> QED BY <1>1, <1>2, <2>1, <3>1, <3>2, NestedStepTyped
  <2> QED BY <2>1, <2>3, <2>4
<1> QED BY <1>5, <1>6

-----------------------------------------------------------------------------
(* At the start nobody waits for anything but the reconciliation, *)
LEMMA TypesInit ==
    ASSUME Init
    PROVE  TypesAre
<1>1. ProxyTypes /\ leases \in SUBSET Lease /\ events \in Nat /\ work = None
  <2>1. [Unknown EXCEPT !.health = "uninitialized"] \in ScopeRecord
    BY DEF Unknown, ScopeRecord
  <2>2. scope \in [Scopes -> ScopeRecord]
    BY <2>1 DEF Init, ProxyInit
  <2>3. stored \in Configs
    BY ProxyAssumption DEF Init, ProxyInit
  <2> QED BY <2>2, <2>3 DEF Init, ProxyInit, ProxyTypes
<1>2. queue \in Seq(Item) /\ Order(queue, caller) /\ UnderWay(queue, work)
  <2>1. queue = <<[kind |-> "reconcile"]>> /\ [kind |-> "reconcile"] \in Item
    BY DEF Init, ProxyInit, Item
  <2>2. queue \in Seq(Item) /\ Len(queue) = 1 /\ ~Wanted(queue[1])
    BY <2>1 DEF Wanted
  <2>3. Order(queue, caller)
    BY <2>2 DEF Order
  <2> QED BY <1>1, <2>2, <2>3 DEF UnderWay
<1>3. caller \in [Callers -> CallerRecord] /\ nested \in [Callers -> NestedRecord]
      /\ \A c \in Callers : Fits(caller[c], nested[c])
  <2>1. Idle \in CallerRecord /\ NotNested \in NestedRecord /\ Fits(Idle, NotNested)
    BY DEF Idle, NotNested, CallerRecord, NestedRecord, Fits
  <2> QED BY <2>1 DEF Init
<1>4. run \in [Runs -> SoundRun] /\ starts \in Nat
  <2>1. NoRun \in SoundRun
    BY DEF NoRun, SoundRun, RunRecord
  <2> QED BY <2>1 DEF Init
<1> QED BY <1>1, <1>2, <1>3, <1>4 DEF TypesAre

(* ... and no step leaves the types. *)
LEMMA TypesKept ==
    ASSUME TypesAre, [Next]_vars
    PROVE  TypesAre'
<1>1. CASE ProxySteps
    BY <1>1, ProxyStepsTyped
<1>2. CASE Granted
    BY <1>2, GrantedTyped
<1>3. CASE Invalidate \/ \E r \in Runs : RunEnds(r)
    BY <1>3, RunEndsTyped
<1>4. ASSUME NEW c \in Configs, Save(c) /\ UNCHANGED preflightVars PROVE TypesAre'
    BY <1>4, SaveTyped
<1>5. ASSUME NEW c \in Callers, Request(c) \/ \E kind \in {"recheck", "bypass"} : Decide(c, kind)
      PROVE  TypesAre'
    BY <1>5, RequestTyped
<1>6. ASSUME NEW c \in Callers, NestedRequest(c) \/ NestedResumes(c) \/ NestedEnds(c)
      PROVE  TypesAre'
    BY <1>6, NestedTyped
<1>7. ASSUME NEW c \in Callers, Abort(c) PROVE TypesAre'
    BY <1>7, AbortTyped
<1>8. ASSUME NEW c \in Callers, Resumes(c) \/ OperationEnds(c) PROVE TypesAre'
  <2>1. /\ ProxyRests /\ UNCHANGED <<queue, events, nested, starts>>
        /\ Enters(c) \/ Stops(c)
    BY <1>8, ResumesIs, OperationEndsIs
  <2>2. events' \in Nat
    BY <2>1 DEF TypesAre
  <2> QED BY <2>1, <2>2, EntersTyped, StopsTyped
<1>9. ASSUME NEW c \in Callers, Ends(c) PROVE TypesAre'
    BY <1>9, EndsTyped
<1>10. CASE UNCHANGED vars
    BY <1>10 DEF vars, proxyVars, preflightVars, TypesAre, ProxyTypes
<1> QED BY <1>1, <1>2, <1>3, <1>4, <1>5, <1>6, <1>7, <1>8, <1>9, <1>10 DEF Next, Steps

(* The types are those the modules give: a request, a check and what the   *)
(* queue holds fit together.                                               *)
THEOREM TypeCorrect == Spec => []TypeOK
<1>1. Init => Types
    BY TypesInit, TypesAreTypes
<1>2. Types /\ [Next]_vars => Types'
    BY TypesKept, TypesAreTypes
<1>3. Types => TypeOK
    BY DEF Types
<1> QED BY <1>1, <1>2, <1>3, PTL DEF Spec

-----------------------------------------------------------------------------
(* While a lease is out the scopes it is for stay as they are.             *)
LeasesHold ==
    /\ leases # {} => work = None
    /\ \A l \in leases : LeaseCurrent(l)
    /\ \A s \in Scopes : scope[s].epoch <= epochs

(* What a check saw under epochs that have not passed is still so.         *)
Seen(key, route, sc, el, ep) ==
    /\ DOMAIN route = DOMAIN key
    /\ \A s \in DOMAIN key :
          /\ key[s] <= ep
          /\ sc[s].health = "stable" /\ sc[s].epoch = key[s] => el[s] = route[s]

RunsSaw(rs, sc, el, ep) ==
    \A r \in Runs : rs[r].st # "none" => Seen(rs[r].key, rs[r].route, sc, el, ep)

CallerSaw(me, n, sc, el, ep) ==
    /\ me.capture # None => Seen(me.capture.key, me.capture.route, sc, el, ep)
    /\ me.ph = "operating" => Seen(me.lease.epochs, me.route, sc, el, ep)
    /\ n.ph = "operating" => Seen(me.lease.epochs, n.route, sc, el, ep)

CallersSaw(cs, ns, sc, el, ep) == \A c \in Callers : CallerSaw(cs[c], ns[c], sc, el, ep)

-----------------------------------------------------------------------------
(* Whose a lease is.  The tables are parameters: a step builds a table of  *)
(* runs that Becomes then tidies up.                                       *)

(* It returns its lease itself. *)
Owns(me) ==
    \/ me.ph \in {"operating", "ending"} /\ me.run = None
    \/ me.ph \in {"waiting", "operating", "ending"} /\ me.kind = "recheck"

(* Its share in a run stands for the lease. *)
Shares(rs, cs, c) ==
    /\ cs[c].ph \in {"operating", "ending"} /\ cs[c].kind # "recheck"
    /\ cs[c].run # None
    /\ Top(c) \in rs[cs[c].run].waiters
    /\ cs[c].lease = rs[cs[c].run].lease

Backs(rs, cs, c, r) == c \in rs[r].awaited /\ cs[c].lease = rs[r].lease

RunsHold(rs, ls) ==
    \A r \in Runs :
       /\ rs[r].st = "probing" \/ rs[r].waiters # {} \/ rs[r].owned => rs[r].lease # None
       /\ rs[r].shared => rs[r].st = "probing"
       /\ rs[r].cached => rs[r].st = "settled"
       /\ rs[r].lease # None =>
             rs[r].lease \in ls /\ rs[r].key = rs[r].lease.epochs /\ rs[r].st # "none"

CallersHold(rs, ls, cs) ==
    \A c \in Callers :
       /\ Owns(cs[c]) => cs[c].lease \in ls
       /\ cs[c].ph = "waiting" \/ (cs[c].ph = "operating" /\ cs[c].run # None) =>
             /\ cs[c].run # None
             /\ Top(c) \in rs[cs[c].run].waiters
             /\ cs[c].lease = rs[cs[c].run].lease

NestedHold(rs, cs, ns) ==
    \A c \in Callers :
       /\ ns[c].ph # "none" => Owns(cs[c]) \/ Shares(rs, cs, c)
       /\ ns[c].ph = "waiting" =>
             /\ ns[c].run # None
             /\ Inner(c) \in rs[ns[c].run].waiters
             /\ rs[ns[c].run].key = cs[c].lease.epochs

OneOwner(rs, cs) ==
    /\ \A r, q \in Runs : rs[r].owned /\ rs[q].owned /\ rs[r].lease = rs[q].lease => r = q
    /\ \A c, d \in Callers : Owns(cs[c]) /\ Owns(cs[d]) /\ cs[c].lease = cs[d].lease => c = d
    /\ \A c \in Callers, r \in Runs : Owns(cs[c]) /\ rs[r].owned => cs[c].lease # rs[r].lease

(* A run that borrows its lease does so from a caller that waits for it;   *)
(* who shares another run that borrows it, and so on, but not in a circle. *)
Grounded(rs, cs) ==
    \A S \in SUBSET Runs :
       S # {} /\ (\A r \in S : rs[r].lease # None) =>
          \E r \in S :
             \/ rs[r].owned
             \/ \E c \in Callers :
                   /\ Backs(rs, cs, c, r)
                   /\ Owns(cs[c]) \/ (Shares(rs, cs, c) /\ cs[c].run \notin S)

Tidy(rs) == \A r \in Runs : Drained(rs, r) => rs[r].lease = None

Held(rs, ls, cs, ns) ==
    /\ RunsHold(rs, ls) /\ CallersHold(rs, ls, cs) /\ NestedHold(rs, cs, ns)
    /\ OneOwner(rs, cs) /\ Grounded(rs, cs)

Lent ==
    /\ LeasesHold
    /\ RunsSaw(run, scope, electron, epochs)
    /\ CallersSaw(caller, nested, scope, electron, epochs)
    /\ Held(run, leases, caller, nested) /\ Tidy(run)

-----------------------------------------------------------------------------
(* What a session is stable with, and how far the save has come.           *)
Settled(s, c) ==
    Stable(s) => scope[s].effective = Effective[c][s] /\ scope[s].session = Route[c][s]

Coherent(s) ==
    /\ Stable(s) => /\ electron[s] = scope[s].session
                    /\ scope[s].credentials # None
                    /\ Route[scope[s].credentials][s] = scope[s].session
    /\ ~Stable(s) /\ scope[s].credentials # None =>
          /\ work # None
          /\ work.applying /\ Head(work.todo) = s
          /\ Route[scope[s].credentials][s] = Route[work.to][s]

Saving ==
    /\ \A s \in Scopes : ~Among(s, work.touched) => Settled(s, stored)
    /\ \A s \in Scopes : ~Among(s, work.todo) => Stable(s) /\ Settled(s, work.to)
    /\ work.applying => Among(Head(work.todo), work.touched)

Undoing ==
    /\ work.to = stored
    /\ \A s \in Scopes : ~Among(s, work.todo) => Settled(s, stored)

Reconciling ==
    /\ work.to = stored
    /\ \A s \in Scopes : Settled(s, stored)

Storing ==
    /\ \A s \in Scopes : Coherent(s)
    /\ work = None => \A s \in Scopes : Settled(s, stored)
    /\ work # None =>
          /\ work.applying => work.todo # <<>> /\ ~Stable(Head(work.todo))
          /\ AtHead("save") \/ (AtHead("reconcile") /\ ~work.back)
          /\ IF work.back THEN Undoing ELSE IF AtHead("save") THEN Saving ELSE Reconciling

(* Which sessions a configuration affects. *)
LEMMA AffectedDiffer ==
    ASSUME NEW c \in Configs, NEW s \in Scopes
    PROVE  ~Among(s, Affected(c)) => ~Differs(s, c)
<1> DEFINE a == Differs("application", c)
           b == Differs("conversation", c)
           p == IF a THEN <<"application">> ELSE <<>>
           r == IF b THEN <<"conversation">> ELSE <<>>
           q == p \o r
<1>1. Affected(c) = q
    BY DEF Affected
<1>2. /\ p \in Seq(Scopes) /\ r \in Seq(Scopes)
      /\ a => Len(p) = 1 /\ p[1] = "application"
      /\ b => Len(r) = 1 /\ r[1] = "conversation"
  <2>1. <<"application">> \in Seq(Scopes) /\ <<"conversation">> \in Seq(Scopes) /\ <<>> \in Seq(Scopes)
    BY DEF Scopes
  <2> HIDE DEF a, b
  <2> QED BY <2>1
<1> HIDE DEF a, b, p, r
<1>3. /\ Len(p) \in Nat /\ Len(r) \in Nat /\ Len(q) = Len(p) + Len(r)
      /\ \A i \in 1 .. Len(p) : q[i] = p[i]
      /\ \A i \in 1 .. Len(r) : q[Len(p) + i] = r[i]
    BY <1>2
<1> HIDE DEF q
<1>4. ASSUME a PROVE Among("application", q)
  <2>0. Len(p) = 1 /\ p[1] = "application"
    BY <1>2, <1>4
  <2>1. 1 \in 1 .. Len(q) /\ q[1] = "application"
    BY <1>3, <2>0
  <2> QED BY <2>1 DEF Among
<1>5. ASSUME b PROVE Among("conversation", q)
  <2>0. Len(r) = 1 /\ r[1] = "conversation"
    BY <1>2, <1>5
  <2>1. Len(p) + 1 \in 1 .. Len(q) /\ q[Len(p) + 1] = "conversation"
    BY <1>3, <2>0
  <2> QED BY <2>1 DEF Among
<1>6. s = "application" \/ s = "conversation"
    BY DEF Scopes
<1> QED BY <1>1, <1>4, <1>5, <1>6 DEF a, b

(* The work on the queue begins, *)
LEMMA WorkBeginsStoring ==
    ASSUME TypesAre, Storing, WorkBegins
    PROVE  Storing'
<1>1. /\ work = None /\ UNCHANGED <<scope, electron, stored, queue>>
      /\ AtHead("save") \/ AtHead("reconcile")
    BY DEF WorkBegins
<1>2. \A s \in Scopes : Coherent(s) /\ Settled(s, stored)
    BY <1>1 DEF Storing
<1>3. PICK to : to = IF AtHead("save") THEN Head(queue).to ELSE stored
    OBVIOUS
<1>4. PICK w : w = [to |-> to, todo |-> Affected(to), touched |-> <<>>,
                    applying |-> FALSE, back |-> FALSE]
    OBVIOUS
<1>5. work' = w
    BY <1>3, <1>4 DEF WorkBegins
<1>6. to \in Configs
  <2>1. ASSUME AtHead("save") PROVE Head(queue).to \in Configs
    <3>1. Head(queue) \in Item /\ Head(queue).kind = "save"
      BY <2>1, QueueShrinks DEF AtHead, TypesAre
    <3> QED BY <3>1 DEF Item
  <2> QED BY <1>3, <2>1 DEF TypesAre, ProxyTypes
<1>7. w.to = to /\ w.todo = Affected(to) /\ w.touched = <<>> /\ ~w.applying /\ ~w.back /\ w # None
  <2>1. Affected(to) \in Seq(Scopes) /\ <<>> \in Seq(Scopes)
    BY <1>6, WorkTyped
  <2>2. w \in WorkRecord
    BY <1>4, <1>6, <2>1 DEF WorkRecord
  <2> QED BY <1>4, <2>2, NoneIsNothing
<1>8. \A s \in Scopes : Coherent(s)'
  <2> SUFFICES ASSUME NEW s \in Scopes PROVE Coherent(s)'
    OBVIOUS
  <2>1. Coherent(s)
    BY <1>2
  <2> QED BY <1>1, <2>1 DEF Coherent, Stable
<1>9. \A s \in Scopes : Settled(s, stored)'
    BY <1>1, <1>2 DEF Settled, Stable
<1>10. ASSUME NEW s \in Scopes, ~Among(s, w.todo) PROVE Stable(s)' /\ Settled(s, to)'
  <2>1. ~Differs(s, to)
    BY <1>6, <1>7, <1>10, AffectedDiffer
  <2> QED BY <1>1, <2>1 DEF Differs, Settled, Stable
<1>11. \A s \in Scopes : ~Among(s, work'.todo) => Stable(s)' /\ Settled(s, work.to)'
    BY <1>5, <1>7, <1>10
<1>12. Saving'
    BY <1>5, <1>7, <1>9, <1>11 DEF Saving
<1>13. ASSUME ~AtHead("save") PROVE Reconciling'
    BY <1>1, <1>3, <1>5, <1>7, <1>9, <1>13 DEF Reconciling
<1>14. (AtHead("save")' <=> AtHead("save")) /\ (AtHead("reconcile")' <=> AtHead("reconcile"))
    BY <1>1 DEF AtHead
<1> QED BY <1>1, <1>5, <1>7, <1>8, <1>12, <1>13, <1>14 DEF Storing

(* ... a session is about to be changed, *)
LEMMA ApplyBeginsStoring ==
    ASSUME TypesAre, Storing, ApplyBegins
    PROVE  Storing'
<1>1. /\ work # None /\ ~work.applying /\ work.todo # <<>>
      /\ UNCHANGED <<electron, stored, queue>>
    BY DEF ApplyBegins
<1>2. /\ work \in WorkRecord /\ work.todo \in Seq(Scopes) /\ work.touched \in Seq(Scopes)
      /\ scope \in [Scopes -> ScopeRecord]
    BY <1>1 DEF TypesAre, ProxyTypes, WorkRecord
<1>3. PICK s : s = Head(work.todo)
    OBVIOUS
<1>4. PICK x : x = [scope[s] EXCEPT !.credentials = IF SessionChanges(s) THEN None ELSE @,
                                    !.health = "unknown"]
    OBVIOUS
<1>5. PICK w : w = [work EXCEPT !.applying = TRUE,
                                !.touched = IF work.back THEN @ ELSE Append(@, s)]
    OBVIOUS
<1>6. scope' = [scope EXCEPT ![s] = x] /\ work' = w
    BY <1>2, <1>3, <1>4, <1>5 DEF ApplyBegins
<1>7. s \in Scopes /\ Among(s, work.todo)
    BY <1>1, <1>2, <1>3, SequencesOfScopes
<1>8. /\ x.health = "unknown"
      /\ x.credentials # None => ~SessionChanges(s) /\ x.credentials = scope[s].credentials
    BY <1>2, <1>4, <1>7 DEF ScopeRecord
<1>9. /\ w.to = work.to /\ w.todo = work.todo /\ w.applying /\ w.back = work.back /\ w # None
      /\ w.touched = IF work.back THEN work.touched ELSE Append(work.touched, s)
  <2>1. Append(work.touched, s) \in Seq(Scopes)
    BY <1>2, <1>7, SequencesOfScopes
  <2>2. w \in WorkRecord
    BY <1>2, <1>5, <2>1 DEF WorkRecord
  <2>3. w # None
    BY <2>2, NoneIsNothing
  <2> QED BY <1>2, <1>5, <2>3 DEF WorkRecord
<1>10. scope'[s] = x /\ (\A t \in Scopes \ {s} : scope'[t] = scope[t]) /\ ~Stable(s)'
    BY <1>2, <1>6, <1>7, <1>8 DEF Stable
<1>11. /\ \A t \in Scopes : Coherent(t)
       /\ AtHead("save") \/ (AtHead("reconcile") /\ ~work.back)
       /\ IF work.back THEN Undoing ELSE IF AtHead("save") THEN Saving ELSE Reconciling
    BY <1>1 DEF Storing
<1>12. ASSUME NEW t \in Scopes PROVE Coherent(t)'
  <2>0. Coherent(t)
    BY <1>11
  <2>1. CASE t = s
    <3>1. ASSUME scope'[s].credentials # None
          PROVE  Route[scope'[s].credentials][s] = Route[work'.to][s]
      <4>1. ~SessionChanges(s) /\ scope'[s].credentials = scope[s].credentials
        BY <1>8, <1>10, <3>1
      <4>2. Stable(s) /\ scope[s].session = Route[work.to][s]
        BY <4>1 DEF SessionChanges
      <4> QED BY <1>6, <1>9, <2>0, <2>1, <4>1, <4>2 DEF Coherent
    <3>2. work' # None /\ work'.applying /\ Head(work'.todo) = s
      BY <1>3, <1>6, <1>9
    <3> QED BY <1>10, <2>1, <3>1, <3>2 DEF Coherent
  <2>2. CASE t # s
    BY <1>1, <1>10, <2>0, <2>2 DEF Coherent, Stable
  <2> QED BY <2>1, <2>2
<1>13. ASSUME NEW t \in Scopes, NEW c
       PROVE  /\ Settled(t, c) => Settled(t, c)'
              /\ t # s /\ Stable(t) => Stable(t)'
  <2>1. CASE t = s
    BY <1>10, <2>1 DEF Settled
  <2>2. CASE t # s
    BY <1>10, <2>2 DEF Settled, Stable
  <2> QED BY <2>1, <2>2
<1>14. (AtHead("save")' <=> AtHead("save")) /\ (AtHead("reconcile")' <=> AtHead("reconcile"))
    BY <1>1 DEF AtHead
<1>15. work'.applying /\ work'.todo # <<>> /\ ~Stable(Head(work.todo))' /\ work' # None
       /\ (work'.back <=> work.back)
    BY <1>1, <1>3, <1>6, <1>9, <1>10
<1>16. \A t \in Scopes : Settled(t, stored) => Settled(t, stored)'
    BY <1>1, <1>13
<1>17. CASE work.back
  <2>1. Undoing
    BY <1>11, <1>17
  <2>2. Undoing'
    BY <1>1, <1>6, <1>9, <1>16, <2>1 DEF Undoing
  <2> QED BY <1>11, <1>12, <1>14, <1>15, <1>17, <2>2 DEF Storing
<1>18. CASE ~work.back /\ AtHead("save")
  <2>1. Among(s, w.touched) /\ \A t \in Scopes : ~Among(t, w.touched) => ~Among(t, work.touched)
    BY <1>2, <1>7, <1>9, <1>18, SequencesOfScopes
  <2>2. Saving
    BY <1>11, <1>18
  <2>3. \A t \in Scopes : ~Among(t, work'.touched) => Settled(t, stored)'
    BY <1>6, <1>16, <2>1, <2>2 DEF Saving
  <2>4. \A t \in Scopes : ~Among(t, work'.todo) => Stable(t)' /\ Settled(t, work.to)'
    <3> SUFFICES ASSUME NEW t \in Scopes, ~Among(t, work'.todo)
                 PROVE  Stable(t)' /\ Settled(t, work.to)'
      OBVIOUS
    <3>1. t # s /\ Stable(t) /\ Settled(t, work.to)
      BY <1>6, <1>7, <1>9, <2>2 DEF Saving
    <3> QED BY <1>6, <1>9, <1>13, <3>1
  <2>5. Among(Head(work'.todo), work'.touched)
    BY <1>3, <1>6, <1>9, <2>1
  <2>6. Saving'
    BY <2>3, <2>4, <2>5 DEF Saving
  <2> QED BY <1>11, <1>12, <1>14, <1>15, <1>18, <2>6 DEF Storing
<1>19. CASE ~work.back /\ ~AtHead("save")
  <2>1. Reconciling
    BY <1>11, <1>19
  <2>2. Reconciling'
    BY <1>1, <1>6, <1>9, <1>16, <2>1 DEF Reconciling
  <2> QED BY <1>11, <1>12, <1>14, <1>15, <1>19, <2>2 DEF Storing
<1> QED BY <1>17, <1>18, <1>19

(* ... it has been, *)
LEMMA AppliedStoring ==
    ASSUME TypesAre, Storing, Applied
    PROVE  Storing'
<1>1. work # None /\ work.applying /\ UNCHANGED <<stored, queue>>
    BY DEF Applied
<1>2. /\ work \in WorkRecord /\ work.todo \in Seq(Scopes) /\ work.touched \in Seq(Scopes)
      /\ scope \in [Scopes -> ScopeRecord] /\ electron \in [Scopes -> Sessions \cup {System}]
      /\ work.to \in Configs
    BY <1>1 DEF TypesAre, ProxyTypes, WorkRecord
<1>3. PICK s : s = Head(work.todo)
    OBVIOUS
<1>4. /\ \A t \in Scopes : Coherent(t)
      /\ work.todo # <<>> /\ ~Stable(s)
      /\ AtHead("save") \/ (AtHead("reconcile") /\ ~work.back)
      /\ IF work.back THEN Undoing ELSE IF AtHead("save") THEN Saving ELSE Reconciling
    BY <1>1, <1>3 DEF Storing
<1>5. /\ s \in Scopes
      /\ \A t \in Scopes : ~Among(t, Tail(work.todo)) => t = s \/ ~Among(t, work.todo)
    BY <1>2, <1>3, <1>4, SequencesOfScopes
<1>6. PICK x : x = [health |-> "stable", epoch |-> epochs + 1,
                    effective |-> Effective[work.to][s], session |-> Route[work.to][s],
                    credentials |-> IF scope[s].credentials = None THEN work.to
                                    ELSE scope[s].credentials]
    OBVIOUS
<1>7. PICK w : w = [work EXCEPT !.applying = FALSE, !.todo = Tail(@)]
    OBVIOUS
<1>8. /\ scope' = [scope EXCEPT ![s] = x] /\ work' = w
      /\ electron' = [electron EXCEPT ![s] = Route[work.to][s]]
    BY <1>2, <1>3, <1>5, <1>6, <1>7 DEF Applied
<1>9. /\ w.to = work.to /\ w.todo = Tail(work.todo) /\ ~w.applying /\ (w.back <=> work.back)
      /\ w.touched = work.touched /\ w # None
  <2>1. Tail(work.todo) \in Seq(Scopes)
    BY <1>2, <1>4, SequencesOfScopes
  <2>2. w \in WorkRecord
    BY <1>2, <1>7, <2>1 DEF WorkRecord
  <2> QED BY <1>2, <1>7, <2>2, NoneIsNothing DEF WorkRecord
<1>10. /\ scope'[s] = x /\ electron'[s] = Route[work.to][s]
       /\ \A t \in Scopes \ {s} : scope'[t] = scope[t] /\ electron'[t] = electron[t]
    BY <1>2, <1>5, <1>8
<1>11. x.credentials # None /\ Route[x.credentials][s] = Route[work.to][s]
  <2>1. CASE scope[s].credentials = None
    BY <1>2, <1>6, <2>1, NoneIsNothing
  <2>2. CASE scope[s].credentials # None
    <3>1. Coherent(s)
      BY <1>4, <1>5
    <3>2. Route[scope[s].credentials][s] = Route[work.to][s]
      BY <1>4, <2>2, <3>1 DEF Coherent
    <3> QED BY <1>6, <2>2, <3>2
  <2> QED BY <2>1, <2>2
<1>12. x.health = "stable" /\ x.effective = Effective[work.to][s] /\ x.session = Route[work.to][s]
    BY <1>6
<1>13. ASSUME NEW t \in Scopes PROVE Coherent(t)'
  <2>0. Coherent(t)
    BY <1>4
  <2>1. CASE t = s
    BY <1>10, <1>11, <1>12, <2>1 DEF Coherent, Stable
  <2>2. CASE t # s
    BY <1>1, <1>3, <1>10, <2>0, <2>2 DEF Coherent, Stable
  <2> QED BY <2>1, <2>2
<1>14. ASSUME NEW t \in Scopes, NEW c, t # s
       PROVE  (Settled(t, c) => Settled(t, c)') /\ (Stable(t) => Stable(t)')
    BY <1>10, <1>14 DEF Settled, Stable
<1>15. Stable(s)' /\ Settled(s, work.to)'
    BY <1>8, <1>9, <1>10, <1>12 DEF Settled, Stable
<1>16. (AtHead("save")' <=> AtHead("save")) /\ (AtHead("reconcile")' <=> AtHead("reconcile"))
    BY <1>1 DEF AtHead
<1>17. \A t \in Scopes : Settled(t, stored) /\ t # s => Settled(t, stored)'
    BY <1>1, <1>14
<1>18. CASE work.back
  <2>1. Undoing
    BY <1>4, <1>18
  <2>2. Settled(s, stored)'
    BY <1>1, <1>8, <1>9, <1>15, <2>1 DEF Undoing
  <2>3. Undoing'
    BY <1>1, <1>5, <1>8, <1>9, <1>17, <2>1, <2>2 DEF Undoing
  <2>4. work' # None /\ ~work'.applying /\ work'.back /\ AtHead("save")'
    BY <1>4, <1>8, <1>9, <1>16, <1>18
  <2> QED BY <1>1, <1>8, <1>13, <2>3, <2>4 DEF Storing
<1>19. CASE ~work.back /\ AtHead("save")
  <2>1. Saving
    BY <1>4, <1>19
  <2>2. \A t \in Scopes : ~Among(t, work'.touched) => Settled(t, stored)'
    BY <1>1, <1>3, <1>8, <1>9, <1>17, <2>1 DEF Saving
  <2>3. \A t \in Scopes : ~Among(t, work'.todo) => Stable(t)' /\ Settled(t, work.to)'
    <3> SUFFICES ASSUME NEW t \in Scopes, ~Among(t, work'.todo)
                 PROVE  Stable(t)' /\ Settled(t, work.to)'
      OBVIOUS
    <3>1. CASE t = s
      BY <1>15, <3>1
    <3>2. CASE t # s
      <4>1. Stable(t) /\ Settled(t, work.to)
        BY <1>5, <1>8, <1>9, <2>1, <3>2 DEF Saving
      <4> QED BY <1>8, <1>9, <1>14, <3>2, <4>1
    <3> QED BY <3>1, <3>2
  <2>4. Saving'
    BY <1>8, <1>9, <2>2, <2>3 DEF Saving
  <2>5. work' # None /\ ~work'.applying /\ ~work'.back /\ AtHead("save")'
    BY <1>8, <1>9, <1>16, <1>19
  <2> QED BY <1>8, <1>13, <2>4, <2>5 DEF Storing
<1>20. CASE ~work.back /\ ~AtHead("save")
  <2>1. Reconciling
    BY <1>4, <1>20
  <2>2. Settled(s, stored)'
    BY <1>1, <1>8, <1>9, <1>15, <2>1 DEF Reconciling
  <2>3. Reconciling'
    BY <1>1, <1>8, <1>9, <1>17, <2>1, <2>2 DEF Reconciling
  <2>4. work' # None /\ ~work'.applying /\ ~work'.back /\ ~AtHead("save")' /\ AtHead("reconcile")'
    BY <1>4, <1>8, <1>9, <1>16, <1>20
  <2> QED BY <1>8, <1>13, <2>3, <2>4 DEF Storing
<1> QED BY <1>18, <1>19, <1>20

(* A save that fails begins to take back what it has touched. *)
LEMMA RollsBack ==
    ASSUME TypesAre, work # None, work' = RollbackWork, stored' = stored, queue' = queue,
           AtHead("save"),
           \A t \in Scopes : Coherent(t)',
           \A t \in Scopes : ~Among(t, work.touched) => Settled(t, stored)'
    PROVE  Storing'
<1>1. work.touched \in Seq(Scopes)
    BY DEF TypesAre, ProxyTypes, WorkRecord
<1>2. /\ work'.to = stored /\ work'.todo = Reversed(work.touched)
      /\ ~work'.applying /\ work'.back
    BY DEF RollbackWork
<1>3. \A t \in Scopes : Among(t, work'.todo) <=> Among(t, work.touched)
    BY <1>1, <1>2, SequencesOfScopes
<1>4. Undoing'
    BY <1>2, <1>3 DEF Undoing
<1>5. AtHead("save")'
    BY DEF AtHead
<1>6. work' # None
  <2>1. RollbackWork \in WorkRecord
    BY WorkTyped
  <2> QED BY <2>1, NoneIsNothing
<1> QED BY <1>2, <1>4, <1>5, <1>6 DEF Storing

(* ... or it could not be, *)
LEMMA ApplyFailsStoring ==
    ASSUME TypesAre, Storing, ApplyFails
    PROVE  Storing'
<1>1. work # None /\ work.applying /\ stored' = stored
    BY DEF ApplyFails
<1>2. /\ work \in WorkRecord /\ work.todo \in Seq(Scopes) /\ work.touched \in Seq(Scopes)
      /\ scope \in [Scopes -> ScopeRecord] /\ electron \in [Scopes -> Sessions \cup {System}]
    BY <1>1 DEF TypesAre, ProxyTypes, WorkRecord
<1>3. PICK s : s = Head(work.todo)
    OBVIOUS
<1>4. /\ \A t \in Scopes : Coherent(t)
      /\ work.todo # <<>> /\ ~Stable(s)
      /\ AtHead("save") \/ (AtHead("reconcile") /\ ~work.back)
      /\ IF work.back THEN Undoing ELSE IF AtHead("save") THEN Saving ELSE Reconciling
    BY <1>1, <1>3 DEF Storing
<1>5. /\ s \in Scopes
      /\ \A t \in Scopes : ~Among(t, Tail(work.todo)) => t = s \/ ~Among(t, work.todo)
    BY <1>2, <1>3, <1>4, SequencesOfScopes
<1>6. PICK w : w = [work EXCEPT !.applying = FALSE, !.todo = Tail(@)]
    OBVIOUS
<1>7. /\ scope' = [scope EXCEPT ![s] = Unknown]
      /\ electron' \in {electron, [electron EXCEPT ![s] = Route[work.to][s]]}
      /\ \/ work.back /\ work' = w /\ queue' = queue
         \/ ~work.back /\ AtHead("save") /\ work' = RollbackWork /\ queue' = queue
         \/ ~work.back /\ ~AtHead("save") /\ work' = None
    BY <1>3, <1>6 DEF ApplyFails
<1>8. /\ ~Stable(s)' /\ scope'[s].credentials = None
      /\ \A t \in Scopes \ {s} : scope'[t] = scope[t] /\ electron'[t] = electron[t]
  <2>1. Unknown.health = "unknown" /\ Unknown.credentials = None
    BY DEF Unknown
  <2>2. \A t \in Scopes \ {s} : scope'[t] = scope[t]
    BY <1>2, <1>5, <1>7
  <2>3. \A t \in Scopes \ {s} : electron'[t] = electron[t]
    BY <1>2, <1>5, <1>7
  <2>4. scope'[s] = Unknown
    BY <1>2, <1>5, <1>7
  <2> QED BY <1>3, <2>1, <2>2, <2>3, <2>4 DEF Stable
<1>9. ASSUME NEW t \in Scopes PROVE Coherent(t)'
  <2>0. Coherent(t)
    BY <1>4
  <2>1. CASE t = s
    BY <1>8, <2>1 DEF Coherent
  <2>2. CASE t # s
    BY <1>3, <1>8, <2>0, <2>2 DEF Coherent, Stable
  <2> QED BY <2>1, <2>2
<1>10. \A t \in Scopes : (t # s => Settled(t, stored)) => Settled(t, stored)'
  <2> SUFFICES ASSUME NEW t \in Scopes, t # s => Settled(t, stored) PROVE Settled(t, stored)'
    OBVIOUS
  <2>1. CASE t = s
    BY <1>8, <2>1 DEF Settled
  <2>2. CASE t # s
    BY <1>1, <1>8, <2>2 DEF Settled, Stable
  <2> QED BY <2>1, <2>2
<1>11. CASE work.back /\ work' = w /\ queue' = queue
  <2>1. Undoing /\ AtHead("save")
    BY <1>4, <1>11
  <2>2. w.to = work.to /\ w.todo = Tail(work.todo) /\ ~w.applying /\ w.back /\ w # None
    <3>1. Tail(work.todo) \in Seq(Scopes)
      BY <1>2, <1>4, SequencesOfScopes
    <3>2. w \in WorkRecord
      BY <1>2, <1>6, <3>1 DEF WorkRecord
    <3> QED BY <1>2, <1>6, <1>11, <3>2, NoneIsNothing DEF WorkRecord
  <2>3. Undoing'
    BY <1>1, <1>5, <1>10, <1>11, <2>1, <2>2 DEF Undoing
  <2>4. AtHead("save")'
    BY <1>11, <2>1 DEF AtHead
  <2>5. work' # None /\ ~work'.applying /\ work'.back
    BY <1>11, <2>2
  <2> QED BY <1>9, <2>3, <2>4, <2>5 DEF Storing
<1>12. CASE ~work.back /\ AtHead("save") /\ work' = RollbackWork /\ queue' = queue
  <2>1. Saving
    BY <1>4, <1>12
  <2>2. \A t \in Scopes : ~Among(t, work.touched) => Settled(t, stored)'
    BY <1>10, <2>1 DEF Saving
  <2> QED BY <1>1, <1>9, <1>12, <2>2, RollsBack
<1>13. CASE ~work.back /\ ~AtHead("save") /\ work' = None
  <2>1. Reconciling
    BY <1>4, <1>13
  <2>2. \A t \in Scopes : Settled(t, stored)'
    BY <1>1, <1>10, <2>1 DEF Reconciling
  <2> QED BY <1>9, <1>13, <2>2 DEF Storing
<1> QED BY <1>7, <1>11, <1>12, <1>13

(* ... and the work ends. *)
LEMMA WorkEndsStoring ==
    ASSUME TypesAre, Storing, Committed \/ CommitFails \/ WorkEnds \/ SaveRefused
    PROVE  Storing'
<1>1. UNCHANGED <<scope, electron>>
    BY DEF Committed, CommitFails, WorkEnds, SaveRefused
<1>2. \A t \in Scopes : Coherent(t)
    BY DEF Storing
<1>3. CASE Committed \/ CommitFails \/ WorkEnds
  <2>1. work # None /\ work.todo = <<>>
    BY <1>3 DEF Committed, CommitFails, WorkEnds
  <2>2. ~work.applying
    BY <2>1 DEF Storing
  <2>3. IF work.back THEN Undoing ELSE IF AtHead("save") THEN Saving ELSE Reconciling
    BY <2>1 DEF Storing
  <2>4. \A t \in Scopes : ~Among(t, work.todo)
    BY <2>1 DEF Among
  <2>5. ASSUME NEW t \in Scopes PROVE Coherent(t)'
    <3>1. Coherent(t)
      BY <1>2
    <3> QED BY <1>1, <2>2, <3>1 DEF Coherent, Stable
  <2>6. CASE Committed
    <3>1. work' = None /\ stored' = work.to /\ Saving
      BY <2>3, <2>6 DEF Committed
    <3>2. \A t \in Scopes : Settled(t, stored)'
      BY <1>1, <2>4, <3>1 DEF Saving, Settled, Stable
    <3> QED BY <2>5, <3>1, <3>2 DEF Storing
  <2>7. CASE CommitFails
    <3>1. RollbackWork # None
      BY <2>1, WorkTyped, NoneIsNothing
    <3>2. work' = RollbackWork /\ stored' = stored /\ queue' = queue /\ AtHead("save") /\ Saving
      BY <2>3, <2>7, <3>1 DEF CommitFails, CommitFailed
    <3>3. \A t \in Scopes : ~Among(t, work.touched) => Settled(t, stored)'
      BY <1>1, <3>2 DEF Saving, Settled, Stable
    <3> QED BY <2>1, <2>5, <3>2, <3>3, RollsBack
  <2>8. CASE WorkEnds
    <3>1. work' = None /\ stored' = stored /\ (work.back \/ AtHead("reconcile"))
      BY <2>8 DEF WorkEnds
    <3>2. Undoing \/ Reconciling
      <4>1. AtHead("reconcile") => ~AtHead("save")
        BY DEF AtHead
      <4> QED BY <2>3, <3>1, <4>1
    <3>3. \A t \in Scopes : Settled(t, stored)
      BY <2>4, <3>2 DEF Undoing, Reconciling
    <3>4. \A t \in Scopes : Settled(t, stored)'
      BY <1>1, <3>1, <3>3 DEF Settled, Stable
    <3> QED BY <2>5, <3>1, <3>4 DEF Storing
  <2> QED BY <1>3, <2>6, <2>7, <2>8
<1>4. CASE SaveRefused
  <2>1. work = None /\ work' = None /\ stored' = stored
    BY <1>4 DEF SaveRefused
  <2>2. \A t \in Scopes : Settled(t, stored)
    BY <2>1 DEF Storing
  <2>3. \A t \in Scopes : Settled(t, stored)'
    BY <1>1, <2>1, <2>2 DEF Settled, Stable
  <2>4. ASSUME NEW t \in Scopes PROVE Coherent(t)'
    <3>1. Coherent(t)
      BY <1>2
    <3> QED BY <1>1, <2>1, <3>1 DEF Coherent, Stable
  <2> QED BY <2>1, <2>3, <2>4 DEF Storing
<1> QED BY <1>3, <1>4

(* Whatever else happens leaves the head of the queue as it is while it is *)
(* worked on.                                                              *)
LEMMA StoringRests ==
    ASSUME Storing, UNCHANGED <<scope, electron, stored, work>>,
           work # None /\ queue # <<>> => queue' # <<>> /\ Head(queue').kind = Head(queue).kind
    PROVE  Storing'
<1>1. /\ \A t \in Scopes : Coherent(t) <=> Coherent(t)'
      /\ \A t \in Scopes : Settled(t, stored) <=> Settled(t, stored)'
      /\ (Saving <=> Saving') /\ (Undoing <=> Undoing') /\ (Reconciling <=> Reconciling')
    BY DEF Coherent, Settled, Stable, Saving, Undoing, Reconciling
<1>2. CASE work = None
    BY <1>1, <1>2 DEF Storing
<1>3. CASE work # None
  <2>1. queue # <<>>
    BY <1>3 DEF Storing, AtHead
  <2>2. (AtHead("save") <=> AtHead("save")') /\ (AtHead("reconcile") <=> AtHead("reconcile")')
    BY <1>3, <2>1 DEF AtHead
  <2> QED BY <1>1, <1>3, <2>2 DEF Storing, Stable
<1> QED BY <1>2, <1>3

(* Who joins the queue does not become its head. *)
LEMMA HeadStays ==
    ASSUME TypesAre, NEW x \in Item, queue' = Append(queue, x), queue # <<>>
    PROVE  queue' # <<>> /\ Head(queue').kind = Head(queue).kind
<1>1. queue \in Seq(Item)
    BY DEF TypesAre
<1> QED BY <1>1, QueueGrows

(* The callers' steps leave alone what the proxy works on. *)
LEMMA CallersLeaveHead ==
    ASSUME TypesAre, NEW c \in Callers,
           \/ Request(c) \/ \E kind \in {"recheck", "bypass"} : Decide(c, kind)
           \/ NestedRequest(c) \/ Abort(c) \/ Steps(c)
    PROVE  /\ ProxyRests
           /\ queue # <<>> => queue' # <<>> /\ Head(queue').kind = Head(queue).kind
<1>1. Acquisition(c) \in Item
    BY DEF Acquisition, Item
<1>2. ASSUME NEW x, Queued(c, x), queue # <<>>
      PROVE  queue' # <<>> /\ Head(queue').kind = Head(queue).kind
    BY <1>1, <1>2, HeadStays DEF Queued, Enqueued
<1>3. CASE Request(c) \/ \E kind \in {"recheck", "bypass"} : Decide(c, kind)
  <2>1. ProxyRests /\ \E x \in CallerRecord : Queued(c, x)
    BY <1>3, RequestIs
  <2> QED BY <1>2, <2>1
<1>4. CASE NestedRequest(c) \/ NestedResumes(c) \/ NestedEnds(c)
    BY <1>4, NestedRequestIs, NestedStepsAre
<1>5. CASE Abort(c)
  <2>1. ProxyRests /\ (queue' = queue \/ queue' = AbandonedBy(queue, c))
    BY <1>5, AbortIs
  <2>2. queue \in Seq(Item) /\ Order(queue, caller)
    BY DEF TypesAre
  <2>3. queue # <<>> => /\ AbandonedBy(queue, c) # <<>>
                        /\ Head(AbandonedBy(queue, c)).kind = Head(queue).kind
    BY <2>2, OrderAbandoned
  <2> QED BY <2>1, <2>3
<1>6. CASE Resumes(c) \/ OperationEnds(c)
    BY <1>6, ResumesIs, OperationEndsIs
<1>7. CASE Ends(c)
  <2>1. ProxyRests /\ Leaves(c)
    BY <1>7, EndsIs
  <2>2. queue' = queue \/ \E x \in CallerRecord : Queued(c, x)
    BY <2>1 DEF Leaves
  <2> QED BY <1>2, <2>1, <2>2
<1> QED BY <1>3, <1>4, <1>5, <1>6, <1>7 DEF Steps

(* So what the sessions are stable with is what is stored, or what is      *)
(* under way will make it so.                                              *)
LEMMA StoringKept ==
    ASSUME TypesAre, Storing, [Next]_vars
    PROVE  Storing'
<1>1. CASE ProxySteps
    BY <1>1, WorkBeginsStoring, ApplyBeginsStoring, AppliedStoring, ApplyFailsStoring, WorkEndsStoring
       DEF ProxySteps, ProxyPublishes, ProxyIsQuiet
<1>2. CASE Granted
  <2>1. UNCHANGED <<scope, electron, stored, work>> /\ work = None
    BY <1>2, GrantedIs DEF ProxyRests
  <2> QED BY <2>1, StoringRests
<1>3. CASE Invalidate \/ \E r \in Runs : RunEnds(r)
  <2>1. UNCHANGED <<scope, electron, stored, work, queue>>
    BY <1>3 DEF Invalidate, RunEnds
  <2> QED BY <2>1, StoringRests
<1>4. ASSUME NEW c \in Configs, Save(c) PROVE Storing'
  <2>1. UNCHANGED <<scope, electron, stored, work>> /\ Enqueued([kind |-> "save", to |-> c])
    BY <1>4 DEF Save
  <2>2. [kind |-> "save", to |-> c] \in Item
    BY DEF Item
  <2> QED BY <2>1, <2>2, HeadStays, StoringRests DEF Enqueued
<1>5. ASSUME NEW c \in Callers,
             \/ Request(c) \/ \E kind \in {"recheck", "bypass"} : Decide(c, kind)
             \/ NestedRequest(c) \/ Abort(c) \/ Steps(c)
      PROVE  Storing'
  <2>1. /\ ProxyRests
        /\ queue # <<>> => queue' # <<>> /\ Head(queue').kind = Head(queue).kind
    BY <1>5, CallersLeaveHead
  <2> QED BY <2>1, StoringRests DEF ProxyRests
<1>6. CASE UNCHANGED vars
  <2>1. UNCHANGED <<scope, electron, stored, work, queue>>
    BY <1>6 DEF vars, proxyVars
  <2> QED BY <2>1, StoringRests
<1> QED BY <1>1, <1>2, <1>3, <1>4, <1>5, <1>6 DEF Next

(* Between two operations of the queue a scope that is called stable uses  *)
(* the stored configuration, and any other answers no request for          *)
(* credentials: whatever fails in a save, in the application, the commit   *)
(* or the way back.                                                        *)
THEOREM StableUsesStored == Spec => []StableIsStored
<1>1. Init => Types /\ Storing
  <2> SUFFICES ASSUME Init PROVE Types /\ Storing
    OBVIOUS
  <2>1. /\ work = None
        /\ \A s \in Scopes : scope[s] = [Unknown EXCEPT !.health = "uninitialized"]
    BY DEF Init, ProxyInit
  <2>2. \A s \in Scopes : ~Stable(s) /\ scope[s].credentials = None
    BY <2>1 DEF Stable, Unknown
  <2>3. Storing
    BY <2>1, <2>2 DEF Storing, Coherent, Settled
  <2> QED BY <2>3, TypesInit, TypesAreTypes
<1>2. (Types /\ Storing) /\ [Next]_vars => (Types /\ Storing)'
    BY TypesKept, TypesAreTypes, StoringKept
<1>3. Types /\ Storing => StableIsStored
  <2> SUFFICES ASSUME Storing, work = None, NEW s \in Scopes
               PROVE  IF Stable(s)
                      THEN /\ electron[s] = Route[stored][s]
                           /\ scope[s].effective = Effective[stored][s]
                           /\ Route[scope[s].credentials][s] = Route[stored][s]
                      ELSE scope[s].credentials = None
    BY DEF StableIsStored
  <2>1. Coherent(s) /\ Settled(s, stored)
    BY DEF Storing
  <2> QED BY <2>1 DEF Coherent, Settled
<1> QED BY <1>1, <1>2, <1>3, PTL DEF Spec


-----------------------------------------------------------------------------
(* Entering an operation.                                                  *)

(* Only a caller whose check has just been looked at enters. *)
LEMMA OnlyEnters ==
    ASSUME TypesAre, [Next]_vars, NEW c \in Callers,
           caller[c].ph = "waiting", caller'[c].ph = "operating"
    PROVE  Enters(c)
<1>1. caller \in [Callers -> CallerRecord] /\ queue \in Seq(Item) /\ Order(queue, caller)
    BY DEF TypesAre
<1>2. caller' # caller
    OBVIOUS
<1>3. ASSUME NEW d \in Callers, NEW x, Goes(d, x) PROVE d = c /\ x.ph = "operating"
  <2>1. d = c
    BY <1>1, <1>3 DEF Goes
  <2>2. caller'[c] = x
    BY <1>1, <1>3, <2>1 DEF Goes
  <2> QED BY <2>1, <2>2
<1>4. ASSUME NEW d \in Callers, Stops(d) PROVE FALSE
  <2>1. PICK x \in CallerRecord : Stopped(caller[d], x) /\ Goes(d, x)
    BY <1>4 DEF Stops
  <2>2. x.ph = "ending"
    BY <2>1 DEF Stopped
  <2> QED BY <1>3, <2>1, <2>2
<1>5. ASSUME NEW d \in Callers, NEW x \in CallerRecord, Queued(d, x) PROVE FALSE
  <2>1. Goes(d, [x EXCEPT !.ph = "queued"]) /\ [x EXCEPT !.ph = "queued"].ph = "queued"
    BY <1>5 DEF Queued, Goes, CallerRecord
  <2> QED BY <1>3, <2>1
<1>7. /\ ~ProxySteps /\ ~Invalidate /\ (\A r \in Runs : ~RunEnds(r))
      /\ \A d \in Callers : ~NestedRequest(d) /\ ~NestedResumes(d) /\ ~NestedEnds(d)
      /\ ~UNCHANGED vars /\ ~UNCHANGED preflightVars
    BY <1>2 DEF ProxySteps, Invalidate, RunEnds, NestedRequest, NestedResumes, NestedEnds, vars,
                preflightVars
<1>8. ~Granted
  <2> SUFFICES ASSUME Granted PROVE FALSE
    OBVIOUS
  <2>1. PICK d : d = Head(queue).who
    OBVIOUS
  <2>2. /\ queue # <<>> /\ Head(queue) \in Item /\ Head(queue).kind = "acquire"
        /\ ~Head(queue).abandoned /\ (Goes(d, Idle) \/ \E l \in Lease : Grants(d, l))
    BY <1>2, <2>1, GrantedIs
  <2>3. Wanted(queue[1]) /\ 1 \in 1 .. Len(queue) /\ queue[1].who = d /\ d \in Callers
    BY <1>1, <2>1, <2>2, QueueShrinks DEF Wanted, Item
  <2>4. caller[d].ph = "queued"
    BY <1>1, <2>3 DEF Order
  <2>5. \E x : Goes(d, x)
    BY <2>2 DEF Grants, Joins, Reuses, Probes, Forces, GoesOn, TurnedAway
  <2>6. PICK x : Goes(d, x)
    BY <2>5
  <2>7. d = c
    BY <1>3, <2>3, <2>6
  <2> QED BY <2>4, <2>7
<1>9. ASSUME NEW d \in Callers, Request(d) \/ \E kind \in {"recheck", "bypass"} : Decide(d, kind)
      PROVE  FALSE
  <2>1. \E x \in CallerRecord : Queued(d, x)
    BY <1>9, RequestIs
  <2> QED BY <1>5, <2>1
<1>10. ASSUME NEW d \in Callers, Abort(d) PROVE FALSE
  <2>1. CASE Goes(d, Idle)
    BY <1>3, <2>1 DEF Idle
  <2>2. CASE Stops(d)
    BY <1>4, <2>2
  <2>3. CASE caller[d].ph = "operating" /\ Goes(d, [caller[d] EXCEPT !.active = FALSE])
    <3>1. d = c
      BY <1>3, <2>3
    <3> QED BY <2>3, <3>1
  <2> QED BY <1>10, <2>1, <2>2, <2>3, AbortIs
<1>11. ASSUME NEW d \in Callers, Ends(d) PROVE FALSE
  <2>1. Leaves(d)
    BY <1>11, EndsIs
  <2>2. PICK x \in CallerRecord : \/ x.ph \in {"idle", "paused"} /\ Goes(d, x)
                                  \/ Queued(d, x)
    BY <2>1 DEF Leaves
  <2> QED BY <1>3, <1>5, <2>2
<1>12. ASSUME NEW d \in Callers, Resumes(d) \/ OperationEnds(d) PROVE Enters(c)
  <2>1. Enters(d)
    BY <1>4, <1>12, ResumesIs, OperationEndsIs
  <2>2. d = c
    BY <1>3, <2>1 DEF Enters
  <2> QED BY <2>1, <2>2
<1> QED BY <1>7, <1>8, <1>9, <1>10, <1>11, <1>12 DEF Next, Steps

(* So it is with nested operations. *)
LEMMA OnlyNestedEnters ==
    ASSUME TypesAre, [Next]_vars, NEW c \in Callers,
           nested[c].ph = "waiting", nested'[c].ph = "operating"
    PROVE  NestedEnters(c)
<1>1. nested \in [Callers -> NestedRecord]
    BY DEF TypesAre
<1>2. nested' # nested
    OBVIOUS
<1>3. ASSUME NEW d \in Callers, NEW n, NestedGoes(d, n) PROVE d = c /\ n.ph = "operating"
  <2>1. d = c
    BY <1>1, <1>3 DEF NestedGoes
  <2>2. nested'[c] = n
    BY <1>1, <1>3, <2>1 DEF NestedGoes
  <2> QED BY <2>1, <2>2
<1>4. /\ ~ProxySteps /\ ~Invalidate /\ (\A r \in Runs : ~RunEnds(r)) /\ ~Granted
      /\ ~UNCHANGED vars /\ ~UNCHANGED preflightVars
    BY <1>2 DEF ProxySteps, Invalidate, RunEnds, Granted, vars, preflightVars
<1>5. ASSUME NEW d \in Callers
      PROVE  /\ ~Request(d) /\ ~Abort(d) /\ ~Resumes(d) /\ ~OperationEnds(d) /\ ~Ends(d)
             /\ \A kind \in {"recheck", "bypass"} : ~Decide(d, kind)
  <2>1. ~Request(d) /\ ~Abort(d) /\ ~Resumes(d) /\ ~OperationEnds(d)
    BY <1>2 DEF Request, Abort, Resumes, OperationEnds
  <2>2. ~Ends(d)
    BY <1>2, EndsIs
  <2>3. \A kind \in {"recheck", "bypass"} : ~Decide(d, kind)
    BY <1>2 DEF Decide
  <2> QED BY <2>1, <2>2, <2>3
<1>6. ASSUME NEW d \in Callers, NestedRequest(d) PROVE FALSE
  <2>1. nested[d].ph = "none" /\ \E n : NestedGoes(d, n)
    BY <1>6, NestedRequestIs DEF NestedJoins, NestedReuses, NestedProbes
  <2>2. d = c
    BY <1>3, <2>1
  <2> QED BY <2>1, <2>2
<1>7. ASSUME NEW d \in Callers, NestedResumes(d) \/ NestedEnds(d) PROVE NestedEnters(c)
  <2>1. NestedEnters(d) \/ NestedGoes(d, NotNested)
    BY <1>7, NestedStepsAre DEF NestedLeaves
  <2>2. NestedEnters(d)
    BY <1>3, <2>1 DEF NotNested
  <2>3. d = c
    BY <1>3, <2>2 DEF NestedEnters
  <2> QED BY <2>2, <2>3
<1> QED BY <1>4, <1>5, <1>6, <1>7 DEF Next, Steps

(* A caller that waited for a check, or what is nested in it, enters only  *)
(* if that check is the last word on the route, however many others were   *)
(* begun, forced or made obsolete meanwhile.                               *)
THEOREM LastWordAdmits == Spec => EntersOnLastWord
<1> DEFINE Word ==
        \A c \in Callers :
          /\ caller[c].ph = "waiting" /\ caller'[c].ph = "operating" => LastWord(caller[c].run)
          /\ nested[c].ph = "waiting" /\ nested'[c].ph = "operating"
                => LastWord(nested[c].run) /\ caller[c].active
<1>1. Init => Types
    BY TypesInit, TypesAreTypes
<1>2. Types /\ [Next]_vars => Types'
    BY TypesKept, TypesAreTypes
<1>3. Types /\ [Next]_vars => [Word]_vars
  <2> SUFFICES ASSUME TypesAre, [Next]_vars, NEW c \in Callers
               PROVE  /\ caller[c].ph = "waiting" /\ caller'[c].ph = "operating"
                            => LastWord(caller[c].run)
                      /\ nested[c].ph = "waiting" /\ nested'[c].ph = "operating"
                            => LastWord(nested[c].run) /\ caller[c].active
    BY TypesAreTypes
  <2>1. ASSUME caller[c].ph = "waiting", caller'[c].ph = "operating"
        PROVE  LastWord(caller[c].run)
    <3>1. Enters(c)
      BY <2>1, OnlyEnters
    <3> QED BY <3>1 DEF Enters, RunCurrent, LastWord
  <2>2. ASSUME nested[c].ph = "waiting", nested'[c].ph = "operating"
        PROVE  LastWord(nested[c].run) /\ caller[c].active
    <3>1. NestedEnters(c)
      BY <2>2, OnlyNestedEnters
    <3> QED BY <3>1 DEF NestedEnters, RunCurrent, LastWord
  <2> QED BY <2>1, <2>2
<1> QED BY <1>1, <1>2, <1>3, PTL DEF Spec, EntersOnLastWord


-----------------------------------------------------------------------------
(* Whose leases are, when tables of runs and callers change.               *)

Unowned(rs, cs, l) ==
    /\ \A c \in Callers : Owns(cs[c]) => cs[c].lease # l
    /\ \A r \in Runs : rs[r].owned => rs[r].lease # l

(* What nobody owns can be returned: no check borrows it any more. *)
LEMMA LeasesGone ==
    ASSUME NEW rs, NEW ls, NEW cs \in [Callers -> CallerRecord], NEW ns, NEW K,
           Held(rs, ls, cs, ns), None \notin K,
           \A l \in K : Unowned(rs, cs, l)
    PROVE  Held(rs, ls \ K, cs, ns)
<1>1. ASSUME NEW q \in Runs, rs[q].lease \in K PROVE FALSE
  <2> DEFINE l == rs[q].lease
             S == {r \in Runs : rs[r].lease = l}
  <2>1. l # None /\ Unowned(rs, cs, l)
    BY <1>1
  <2> HIDE DEF l
  <2>2. S \in SUBSET Runs /\ S # {} /\ \A r \in S : rs[r].lease = l
    BY DEF l
  <2>3. \E r \in S :
             \/ rs[r].owned
             \/ \E c \in Callers :
                   /\ Backs(rs, cs, c, r)
                   /\ Owns(cs[c]) \/ (Shares(rs, cs, c) /\ cs[c].run \notin S)
    <3> HIDE DEF S
    <3>1. Grounded(rs, cs)
      BY DEF Held
    <3> QED BY <2>1, <2>2, <3>1 DEF Grounded
  <2>4. PICK r \in S :
             \/ rs[r].owned
             \/ \E c \in Callers :
                   /\ Backs(rs, cs, c, r)
                   /\ Owns(cs[c]) \/ (Shares(rs, cs, c) /\ cs[c].run \notin S)
    BY <2>3
  <2>5. r \in Runs /\ rs[r].lease = l
    OBVIOUS
  <2>6. ~rs[r].owned
    BY <2>1, <2>5 DEF Unowned
  <2>7. PICK c \in Callers :
                   /\ Backs(rs, cs, c, r)
                   /\ Owns(cs[c]) \/ (Shares(rs, cs, c) /\ cs[c].run \notin S)
    BY <2>4, <2>6
  <2>8. cs[c].lease = l
    BY <2>5, <2>7 DEF Backs
  <2>9. Shares(rs, cs, c) /\ cs[c].run \notin S
    BY <2>1, <2>7, <2>8 DEF Unowned
  <2>10. cs[c].run \in Runs
    BY <2>9 DEF Shares, CallerRecord
  <2> QED BY <2>8, <2>9, <2>10 DEF Shares
<1>2. RunsHold(rs, ls \ K)
    BY <1>1 DEF Held, RunsHold
<1>3. CallersHold(rs, ls \ K, cs)
  <2>1. ASSUME NEW c \in Callers, Owns(cs[c]) PROVE cs[c].lease \in ls \ K
    BY <2>1 DEF Held, CallersHold, Unowned
  <2> QED BY <2>1 DEF Held, CallersHold
<1> QED BY <1>2, <1>3 DEF Held

(* More leases do not hurt. *)
LEMMA MoreLeases ==
    ASSUME NEW rs, NEW ls, NEW ks, NEW cs, NEW ns, Held(rs, ls, cs, ns), ls \subseteq ks
    PROVE  Held(rs, ks, cs, ns)
<1>1. RunsHold(rs, ks)
    BY DEF Held, RunsHold
<1>2. CallersHold(rs, ks, cs)
    BY DEF Held, CallersHold
<1> QED BY <1>1, <1>2 DEF Held

(* Nor does it when checks end and verdicts are forgotten. *)
LEMMA AlikeHeld ==
    ASSUME NEW rs \in [Runs -> SoundRun], NEW ps \in [Runs -> SoundRun], NEW ls,
           NEW cs \in [Callers -> CallerRecord], NEW ns \in [Callers -> NestedRecord],
           Held(ps, ls, cs, ns), Alike(rs, ps)
    PROVE  Held(rs, ls, cs, ns)
<1>1. \A r \in Runs :
         /\ rs[r].lease = ps[r].lease /\ rs[r].key = ps[r].key
         /\ rs[r].owned = ps[r].owned /\ rs[r].awaited = ps[r].awaited
         /\ rs[r].waiters = ps[r].waiters
    BY DEF Alike
<1>2. RunsHold(rs, ls)
  <2> SUFFICES ASSUME NEW r \in Runs
               PROVE  /\ rs[r].st = "probing" \/ rs[r].waiters # {} \/ rs[r].owned
                            => rs[r].lease # None
                      /\ rs[r].shared => rs[r].st = "probing"
                      /\ rs[r].cached => rs[r].st = "settled"
                      /\ rs[r].lease # None =>
                            rs[r].lease \in ls /\ rs[r].key = rs[r].lease.epochs /\ rs[r].st # "none"
    BY DEF RunsHold
  <2>1. /\ ps[r].st = "probing" \/ ps[r].waiters # {} \/ ps[r].owned => ps[r].lease # None
        /\ ps[r].shared => ps[r].st = "probing"
        /\ ps[r].cached => ps[r].st = "settled"
        /\ ps[r].lease # None =>
              ps[r].lease \in ls /\ ps[r].key = ps[r].lease.epochs /\ ps[r].st # "none"
    BY DEF Held, RunsHold
  <2>2. /\ rs[r].st = ps[r].st \/ (ps[r].st = "probing" /\ rs[r].st = "settled")
        /\ rs[r].shared => ps[r].shared /\ rs[r].st = ps[r].st
        /\ rs[r].cached => ps[r].cached \/ rs[r].st = "settled"
    BY DEF Alike
  <2> QED BY <1>1, <2>1, <2>2
<1>3. \A c \in Callers : cs[c].run # None => cs[c].run \in Runs
    BY DEF CallerRecord
<1>4. \A c \in Callers : ns[c].run # None => ns[c].run \in Runs
    BY DEF NestedRecord
<1>5. CallersHold(rs, ls, cs)
    BY <1>1, <1>3 DEF Held, CallersHold
<1>6. \A c \in Callers : Shares(rs, cs, c) <=> Shares(ps, cs, c)
    BY <1>1, <1>3 DEF Shares
<1>7. NestedHold(rs, cs, ns)
    BY <1>1, <1>4, <1>6 DEF Held, NestedHold
<1>8. OneOwner(rs, cs)
    BY <1>1 DEF Held, OneOwner
<1>9. \A c \in Callers, r \in Runs : Backs(rs, cs, c, r) <=> Backs(ps, cs, c, r)
    BY <1>1 DEF Backs
<1>10. Grounded(rs, cs)
  <2> SUFFICES ASSUME NEW S \in SUBSET Runs, S # {}, \A r \in S : rs[r].lease # None
               PROVE  \E r \in S :
                         \/ rs[r].owned
                         \/ \E c \in Callers :
                               /\ Backs(rs, cs, c, r)
                               /\ Owns(cs[c]) \/ (Shares(rs, cs, c) /\ cs[c].run \notin S)
    BY DEF Grounded
  <2>1. \A r \in S : ps[r].lease # None
    BY <1>1
  <2>2. \E r \in S :
           \/ ps[r].owned
           \/ \E c \in Callers :
                 /\ Backs(ps, cs, c, r)
                 /\ Owns(cs[c]) \/ (Shares(ps, cs, c) /\ cs[c].run \notin S)
    BY <2>1 DEF Held, Grounded
  <2> QED BY <1>1, <1>6, <1>9, <2>2
<1> QED BY <1>2, <1>5, <1>7, <1>8, <1>10 DEF Held

(* What is tidied up is not missed. *)
LEMMA TidiedHeld ==
    ASSUME NEW rs \in [Runs -> SoundRun], NEW ls,
           NEW cs \in [Callers -> CallerRecord], NEW ns \in [Callers -> NestedRecord],
           NEW ps, ps = [r \in Runs |-> Tidied(rs, r)], Held(rs, ls, cs, ns)
    PROVE  /\ Held(ps, ls, cs, ns) /\ Tidy(ps)
           /\ \A r \in Runs : Drained(rs, r) => ~ps[r].owned
           /\ \A r \in Runs : ~Drained(rs, r) => ps[r] = rs[r]
<1>1. ASSUME NEW r \in Runs, ~Drained(rs, r) PROVE ps[r] = rs[r]
    BY <1>1 DEF Tidied
<1>2. ASSUME NEW r \in Runs, Drained(rs, r)
      PROVE  /\ ps[r].lease = None /\ ~ps[r].owned /\ ps[r].awaited = {} /\ ps[r].waiters = {}
             /\ ps[r].st \in {"none", "settled"} /\ ~ps[r].shared
             /\ ps[r].cached => ps[r].st = "settled"
  <2>1. rs[r] \in SoundRun /\ rs[r].st = "settled" /\ rs[r].waiters = {} /\ ~rs[r].shared
    <3>1. rs[r].shared => rs[r].st = "probing"
      BY DEF Held, RunsHold
    <3> QED BY <1>2, <3>1 DEF Drained
  <2>2. CASE rs[r].cached \/ rs[r].waiters # {}
    <3> DEFINE x == [rs[r] EXCEPT !.lease = None, !.owned = FALSE, !.awaited = {}]
    <3>1. ps[r] = x
      BY <1>2, <2>2 DEF Tidied
    <3>2. x.lease = None /\ ~x.owned /\ x.awaited = {} /\ x.waiters = {} /\ x.st = "settled" /\ ~x.shared
      BY <2>1 DEF SoundRun, RunRecord
    <3> QED BY <3>1, <3>2
  <2>3. CASE ~(rs[r].cached \/ rs[r].waiters # {})
    <3>1. ps[r] = NoRun
      BY <1>2, <2>3 DEF Tidied
    <3> QED BY <3>1 DEF NoRun
  <2> QED BY <2>2, <2>3
<1>3. RunsHold(ps, ls)
  <2> SUFFICES ASSUME NEW r \in Runs
               PROVE  /\ ps[r].st = "probing" \/ ps[r].waiters # {} \/ ps[r].owned
                            => ps[r].lease # None
                      /\ ps[r].shared => ps[r].st = "probing"
                      /\ ps[r].cached => ps[r].st = "settled"
                      /\ ps[r].lease # None =>
                            ps[r].lease \in ls /\ ps[r].key = ps[r].lease.epochs /\ ps[r].st # "none"
    BY DEF RunsHold
  <2>1. CASE Drained(rs, r)
    BY <1>2, <2>1
  <2>2. CASE ~Drained(rs, r)
    <3>1. ps[r] = rs[r]
      BY <1>1, <2>2
    <3> QED BY <3>1 DEF Held, RunsHold
  <2> QED BY <2>1, <2>2
<1>4. \A r \in Runs : rs[r].waiters # {} => ps[r] = rs[r]
    BY <1>1 DEF Drained
<1>5. \A c \in Callers : (cs[c].run # None => cs[c].run \in Runs)
                         /\ (ns[c].run # None => ns[c].run \in Runs)
    BY DEF CallerRecord, NestedRecord
<1>6. CallersHold(ps, ls, cs)
    BY <1>4, <1>5 DEF Held, CallersHold
<1>7. \A c \in Callers : Shares(rs, cs, c) => Shares(ps, cs, c)
    BY <1>4, <1>5 DEF Shares
<1>8. NestedHold(ps, cs, ns)
    BY <1>4, <1>5, <1>7 DEF Held, NestedHold
<1>9. \A r \in Runs : ps[r].owned => ps[r] = rs[r]
    BY <1>1, <1>2
<1>10. OneOwner(ps, cs)
    BY <1>9 DEF Held, OneOwner
<1>11. Grounded(ps, cs)
  <2> SUFFICES ASSUME NEW S \in SUBSET Runs, S # {}, \A r \in S : ps[r].lease # None
               PROVE  \E r \in S :
                         \/ ps[r].owned
                         \/ \E c \in Callers :
                               /\ Backs(ps, cs, c, r)
                               /\ Owns(cs[c]) \/ (Shares(ps, cs, c) /\ cs[c].run \notin S)
    BY DEF Grounded
  <2>1. \A r \in S : ps[r] = rs[r]
    BY <1>1, <1>2
  <2>2. \E r \in S :
           \/ rs[r].owned
           \/ \E c \in Callers :
                 /\ Backs(rs, cs, c, r)
                 /\ Owns(cs[c]) \/ (Shares(rs, cs, c) /\ cs[c].run \notin S)
    BY <2>1 DEF Held, Grounded
  <2>3. \A r \in S, c \in Callers : Backs(rs, cs, c, r) => Backs(ps, cs, c, r)
    BY <2>1 DEF Backs
  <2> QED BY <1>7, <2>1, <2>2, <2>3
<1>12. Tidy(ps)
    BY <1>1, <1>2 DEF Tidy, Drained
<1> QED BY <1>1, <1>2, <1>3, <1>6, <1>8, <1>10, <1>11, <1>12 DEF Held

(* So a step that has made runs and leases hold leaves them holding. *)
LEMMA BecomesHeld ==
    ASSUME NEW rs \in [Runs -> SoundRun], NEW ls,
           NEW cs \in [Callers -> CallerRecord], NEW ns \in [Callers -> NestedRecord],
           Held(rs, ls, cs, ns), Becomes(rs, ls)
    PROVE  Held(run', leases', cs, ns) /\ Tidy(run')
<1> DEFINE K == {rs[r].lease : r \in {q \in Runs : rs[q].owned /\ Drained(rs, q)}}
<1>1. leases' = ls \ K /\ run' = [r \in Runs |-> Tidied(rs, r)]
    BY DEF Becomes
<1>2. /\ Held(run', ls, cs, ns) /\ Tidy(run')
      /\ \A r \in Runs : Drained(rs, r) => ~run'[r].owned
      /\ \A r \in Runs : ~Drained(rs, r) => run'[r] = rs[r]
    BY <1>1, TidiedHeld
<1>3. ASSUME NEW l \in K PROVE l # None /\ Unowned(run', cs, l)
  <2>1. PICK q \in Runs : rs[q].owned /\ Drained(rs, q) /\ rs[q].lease = l
    OBVIOUS
  <2>2. l # None
    BY <2>1 DEF Held, RunsHold
  <2>3. \A c \in Callers : Owns(cs[c]) => cs[c].lease # l
    BY <2>1 DEF Held, OneOwner
  <2>4. \A r \in Runs : run'[r].owned => run'[r].lease # l
    BY <1>2, <2>1 DEF Held, OneOwner
  <2> QED BY <2>2, <2>3, <2>4 DEF Unowned
<1> HIDE DEF K
<1>4. Held(run', ls \ K, cs, ns)
    BY <1>2, <1>3, LeasesGone
<1> QED BY <1>1, <1>2, <1>4

(* What a step that is about one caller leaves of a table of runs. *)
Retained(rs, ps, c) ==
    \A r \in Runs :
       /\ rs[r].lease = ps[r].lease /\ rs[r].key = ps[r].key /\ rs[r].route = ps[r].route
       /\ rs[r].owned = ps[r].owned /\ rs[r].st = ps[r].st
       /\ ps[r].awaited \subseteq rs[r].awaited
       /\ rs[r].shared => ps[r].shared
       /\ rs[r].cached => ps[r].cached
       /\ rs[r].waiters # {} => rs[r].lease # None
       /\ \A d \in Callers \ {c} :
             /\ Top(d) \in ps[r].waiters => Top(d) \in rs[r].waiters
             /\ Inner(d) \in ps[r].waiters => Inner(d) \in rs[r].waiters

(* What that caller has to see to: the lease it works under is there and   *)
(* its own or that of the check it shares, and it keeps what it lends.     *)
Proper(rs, ps, ls, cs, ds, ms, c) ==
    /\ Owns(ds[c]) =>
          /\ ds[c].lease \in ls
          /\ (Owns(cs[c]) /\ cs[c].lease = ds[c].lease) \/ Unowned(ps, cs, ds[c].lease)
    /\ ds[c].ph = "waiting" \/ (ds[c].ph = "operating" /\ ds[c].run # None) =>
          /\ ds[c].run # None
          /\ Top(c) \in rs[ds[c].run].waiters
          /\ ds[c].lease = rs[ds[c].run].lease
    /\ ms[c].ph # "none" => Owns(ds[c]) \/ Shares(rs, ds, c)
    /\ ms[c].ph = "waiting" =>
          /\ ms[c].run # None
          /\ Inner(c) \in rs[ms[c].run].waiters
          /\ rs[ms[c].run].key = ds[c].lease.epochs
    /\ \/ \A r \in Runs : c \notin rs[r].awaited
       \/ /\ Owns(cs[c]) => Owns(ds[c]) /\ ds[c].lease = cs[c].lease
          /\ Shares(ps, cs, c) =>
                Shares(rs, ds, c) /\ ds[c].run = cs[c].run /\ ds[c].lease = cs[c].lease

(* Then all is as it should be afterwards. *)
LEMMA Moves ==
    ASSUME NEW rs \in [Runs -> SoundRun], NEW ps \in [Runs -> SoundRun], NEW ls,
           NEW cs \in [Callers -> CallerRecord], NEW ds \in [Callers -> CallerRecord],
           NEW ns \in [Callers -> NestedRecord], NEW ms \in [Callers -> NestedRecord],
           NEW c \in Callers, \A d \in Callers \ {c} : ds[d] = cs[d] /\ ms[d] = ns[d],
           Held(ps, ls, cs, ns), Retained(rs, ps, c), Proper(rs, ps, ls, cs, ds, ms, c)
    PROVE  Held(rs, ls, ds, ms)
<1>1. \A d \in Callers : /\ (cs[d].run # None => cs[d].run \in Runs)
                         /\ (ds[d].run # None => ds[d].run \in Runs)
                         /\ (ns[d].run # None => ns[d].run \in Runs)
                         /\ (ms[d].run # None => ms[d].run \in Runs)
    BY DEF CallerRecord, NestedRecord
<1>2. RunsHold(rs, ls)
    BY DEF Held, RunsHold, Retained
<1>3. CallersHold(rs, ls, ds)
  <2>1. ASSUME NEW d \in Callers
        PROVE  /\ Owns(ds[d]) => ds[d].lease \in ls
               /\ ds[d].ph = "waiting" \/ (ds[d].ph = "operating" /\ ds[d].run # None) =>
                     /\ ds[d].run # None
                     /\ Top(d) \in rs[ds[d].run].waiters
                     /\ ds[d].lease = rs[ds[d].run].lease
    <3>1. CASE d = c
      BY <3>1 DEF Proper
    <3>2. CASE d # c
      <4>1. ds[d] = cs[d]
        BY <3>2
      <4>2. /\ Owns(cs[d]) => cs[d].lease \in ls
            /\ cs[d].ph = "waiting" \/ (cs[d].ph = "operating" /\ cs[d].run # None) =>
                  /\ cs[d].run # None
                  /\ Top(d) \in ps[cs[d].run].waiters
                  /\ cs[d].lease = ps[cs[d].run].lease
        BY DEF Held, CallersHold
      <4> QED BY <1>1, <3>2, <4>1, <4>2 DEF Retained
    <3> QED BY <3>1, <3>2
  <2> QED BY <2>1 DEF CallersHold
<1>4. \A d \in Callers \ {c} : Shares(ps, cs, d) => Shares(rs, ds, d)
    BY <1>1 DEF Shares, Retained
<1>5. NestedHold(rs, ds, ms)
  <2>1. ASSUME NEW d \in Callers
        PROVE  /\ ms[d].ph # "none" => Owns(ds[d]) \/ Shares(rs, ds, d)
               /\ ms[d].ph = "waiting" =>
                     /\ ms[d].run # None
                     /\ Inner(d) \in rs[ms[d].run].waiters
                     /\ rs[ms[d].run].key = ds[d].lease.epochs
    <3>1. CASE d = c
      BY <3>1 DEF Proper
    <3>2. CASE d # c
      <4>1. ds[d] = cs[d] /\ ms[d] = ns[d]
        BY <3>2
      <4>2. /\ ns[d].ph # "none" => Owns(cs[d]) \/ Shares(ps, cs, d)
            /\ ns[d].ph = "waiting" =>
                  /\ ns[d].run # None
                  /\ Inner(d) \in ps[ns[d].run].waiters
                  /\ ps[ns[d].run].key = cs[d].lease.epochs
        BY DEF Held, NestedHold
      <4>3. ns[d].ph = "waiting" => Inner(d) \in rs[ns[d].run].waiters
                                    /\ rs[ns[d].run].key = cs[d].lease.epochs
        BY <1>1, <3>2, <4>2 DEF Retained
      <4> QED BY <1>4, <3>2, <4>1, <4>2, <4>3
    <3> QED BY <3>1, <3>2
  <2> QED BY <2>1 DEF NestedHold
<1>6. OneOwner(rs, ds)
  <2>1. \A r, q \in Runs : rs[r].owned /\ rs[q].owned /\ rs[r].lease = rs[q].lease => r = q
    BY DEF Held, OneOwner, Retained
  <2>2. ASSUME NEW d \in Callers \ {c}, Owns(ds[c]), Owns(ds[d]), ds[c].lease = ds[d].lease
        PROVE  FALSE
    BY <2>2 DEF Held, OneOwner, Proper, Unowned
  <2>3. \A d, e \in Callers : Owns(ds[d]) /\ Owns(ds[e]) /\ ds[d].lease = ds[e].lease => d = e
    BY <2>2 DEF Held, OneOwner
  <2>4. \A d \in Callers, r \in Runs : Owns(ds[d]) /\ rs[r].owned => ds[d].lease # rs[r].lease
    BY DEF Held, OneOwner, Retained, Proper, Unowned
  <2> QED BY <2>1, <2>3, <2>4 DEF OneOwner
<1>7. Grounded(rs, ds)
  <2> SUFFICES ASSUME NEW S \in SUBSET Runs, S # {}, \A r \in S : rs[r].lease # None
               PROVE  \E r \in S :
                         \/ rs[r].owned
                         \/ \E d \in Callers :
                               /\ Backs(rs, ds, d, r)
                               /\ Owns(ds[d]) \/ (Shares(rs, ds, d) /\ ds[d].run \notin S)
    BY DEF Grounded
  <2>1. \A r \in S : ps[r].lease # None
    BY DEF Retained
  <2>2. \E r \in S :
           \/ ps[r].owned
           \/ \E d \in Callers :
                 /\ Backs(ps, cs, d, r)
                 /\ Owns(cs[d]) \/ (Shares(ps, cs, d) /\ cs[d].run \notin S)
    BY <2>1 DEF Held, Grounded
  <2>3. PICK r \in S :
           \/ ps[r].owned
           \/ \E d \in Callers :
                 /\ Backs(ps, cs, d, r)
                 /\ Owns(cs[d]) \/ (Shares(ps, cs, d) /\ cs[d].run \notin S)
    BY <2>2
  <2>4. CASE ps[r].owned
    BY <2>4 DEF Retained
  <2>5. CASE ~ps[r].owned
    <3>1. PICK d \in Callers :
                 /\ Backs(ps, cs, d, r)
                 /\ Owns(cs[d]) \/ (Shares(ps, cs, d) /\ cs[d].run \notin S)
      BY <2>3, <2>5
    <3>2. d \in rs[r].awaited /\ cs[d].lease = rs[r].lease
      BY <3>1 DEF Backs, Retained
    <3>3. CASE d # c
      <4>1. Backs(rs, ds, d, r)
        BY <3>2, <3>3 DEF Backs
      <4>2. Owns(ds[d]) \/ (Shares(rs, ds, d) /\ ds[d].run \notin S)
        BY <1>4, <3>1, <3>3
      <4> QED BY <4>1, <4>2
    <3>4. CASE d = c
      <4>1. /\ Owns(cs[c]) => Owns(ds[c]) /\ ds[c].lease = cs[c].lease
            /\ Shares(ps, cs, c) =>
                  Shares(rs, ds, c) /\ ds[c].run = cs[c].run /\ ds[c].lease = cs[c].lease
        BY <3>2, <3>4 DEF Proper
      <4>2. Backs(rs, ds, d, r)
        BY <3>1, <3>2, <3>4, <4>1 DEF Backs
      <4> QED BY <3>1, <3>4, <4>1, <4>2
    <3> QED BY <3>3, <3>4
  <2> QED BY <2>4, <2>5
<1> QED BY <1>2, <1>3, <1>5, <1>6, <1>7 DEF Held

(* A check has begun, and what became of the others. *)
Begun(rs, ps, r, l, owner, t) ==
    /\ rs[r].st = "probing" /\ rs[r].key = l.epochs /\ rs[r].lease = l
    /\ rs[r].owned <=> owner = {}
    /\ rs[r].awaited = owner /\ ~rs[r].cached /\ rs[r].waiters = {t}
    /\ \A q \in Runs \ {r} :
          /\ rs[q].lease = ps[q].lease /\ rs[q].key = ps[q].key /\ rs[q].route = ps[q].route
          /\ rs[q].owned = ps[q].owned /\ rs[q].st = ps[q].st
          /\ rs[q].awaited = ps[q].awaited /\ rs[q].waiters = ps[q].waiters
          /\ rs[q].shared => ps[q].shared
          /\ rs[q].cached = ps[q].cached

(* This is what NewRun makes of a table. *)
LEMMA NewRunIs ==
    ASSUME NEW ps \in [Runs -> SoundRun], NEW r \in Runs, NEW l, NEW owner, NEW t
    PROVE  LET rs == NewRun(ps, r, l.epochs, l, owner, t) IN
           Begun(rs, ps, r, l, owner, t) /\ rs[r].route = RouteOf(DOMAIN l.epochs)
<1> DEFINE rs == NewRun(ps, r, l.epochs, l, owner, t)
           b == (owner = {})
           x == [NoRun EXCEPT !.st = "probing", !.key = l.epochs, !.lease = l,
                     !.owned = b, !.awaited = owner, !.route = RouteOf(DOMAIN l.epochs),
                     !.current = TRUE, !.latest = TRUE, !.shared = TRUE, !.waiters = {t}]
<1>1. /\ rs[r] = x
      /\ \A q \in Runs \ {r} :
            rs[q] = IF ps[q].key = l.epochs THEN [ps[q] EXCEPT !.latest = FALSE, !.shared = FALSE]
                    ELSE ps[q]
    BY DEF NewRun
<1> HIDE DEF rs
<1>2. /\ x.st = "probing" /\ x.key = l.epochs /\ x.lease = l
      /\ x.route = RouteOf(DOMAIN l.epochs)
      /\ x.owned = b /\ x.awaited = owner /\ ~x.cached /\ x.waiters = {t}
  <2> HIDE DEF b
  <2> QED BY DEF NoRun
<1> HIDE DEF x
<1>3. ASSUME NEW q \in Runs \ {r}
      PROVE  /\ rs[q].lease = ps[q].lease /\ rs[q].key = ps[q].key
             /\ rs[q].owned = ps[q].owned /\ rs[q].st = ps[q].st
             /\ rs[q].route = ps[q].route
             /\ rs[q].awaited = ps[q].awaited /\ rs[q].waiters = ps[q].waiters
             /\ rs[q].shared => ps[q].shared
             /\ rs[q].cached = ps[q].cached
  <2>1. ps[q] \in SoundRun
    OBVIOUS
  <2> QED BY <1>1, <2>1 DEF SoundRun, RunRecord
<1>4. rs[r].owned <=> owner = {}
    BY <1>1, <1>2
<1>5. Begun(rs, ps, r, l, owner, t)
    BY <1>1, <1>2, <1>3, <1>4 DEF Begun
<1> QED BY <1>1, <1>2, <1>5 DEF rs

(* A check begins under a lease that is its own from then on, or under     *)
(* that of a caller that will wait for it.                                 *)
LEMMA NewRunHeld ==
    ASSUME NEW ps \in [Runs -> SoundRun], NEW rs \in [Runs -> SoundRun], NEW ls,
           NEW cs \in [Callers -> CallerRecord],
           NEW ns \in [Callers -> NestedRecord], Held(ps, ls, cs, ns),
           NEW r \in Runs, ps[r].waiters = {}, NEW l \in ls, l # None, NEW owner, NEW t,
           Begun(rs, ps, r, l, owner, t),
           \/ owner = {} /\ Unowned(ps, cs, l)
           \/ \E c \in Callers : /\ owner = {c} /\ cs[c].lease = l
                                 /\ Owns(cs[c]) \/ Shares(ps, cs, c)
    PROVE  Held(rs, ls, cs, ns)
<1>1. /\ rs[r].st = "probing" /\ rs[r].key = l.epochs /\ rs[r].lease = l
      /\ rs[r].owned <=> owner = {}
      /\ rs[r].awaited = owner /\ ~rs[r].cached /\ rs[r].waiters = {t}
      /\ \A q \in Runs \ {r} :
            /\ rs[q].lease = ps[q].lease /\ rs[q].key = ps[q].key /\ rs[q].route = ps[q].route
            /\ rs[q].owned = ps[q].owned /\ rs[q].st = ps[q].st
            /\ rs[q].awaited = ps[q].awaited /\ rs[q].waiters = ps[q].waiters
            /\ rs[q].shared => ps[q].shared
            /\ rs[q].cached = ps[q].cached
    BY DEF Begun
<1>2. \A d \in Callers : /\ (cs[d].run # None => cs[d].run \in Runs)
                         /\ (ns[d].run # None => ns[d].run \in Runs)
    BY DEF CallerRecord, NestedRecord
<1>3. RunsHold(rs, ls)
  <2>1. ASSUME NEW q \in Runs
        PROVE  /\ rs[q].st = "probing" \/ rs[q].waiters # {} \/ rs[q].owned => rs[q].lease # None
               /\ rs[q].shared => rs[q].st = "probing"
               /\ rs[q].cached => rs[q].st = "settled"
               /\ rs[q].lease # None =>
                     rs[q].lease \in ls /\ rs[q].key = rs[q].lease.epochs /\ rs[q].st # "none"
    <3>1. CASE q = r
      BY <1>1, <3>1
    <3>2. CASE q # r
      BY <1>1, <3>2 DEF Held, RunsHold
    <3> QED BY <3>1, <3>2
  <2> QED BY <2>1 DEF RunsHold
<1>4. CallersHold(rs, ls, cs)
  <2>1. ASSUME NEW d \in Callers
        PROVE  /\ Owns(cs[d]) => cs[d].lease \in ls
               /\ cs[d].ph = "waiting" \/ (cs[d].ph = "operating" /\ cs[d].run # None) =>
                     /\ cs[d].run # None
                     /\ Top(d) \in rs[cs[d].run].waiters
                     /\ cs[d].lease = rs[cs[d].run].lease
    BY <1>1, <1>2 DEF Held, CallersHold
  <2> QED BY <2>1 DEF CallersHold
<1>5. \A d \in Callers : Shares(ps, cs, d) => Shares(rs, cs, d) /\ cs[d].run # r
    BY <1>1, <1>2 DEF Shares
<1>6. NestedHold(rs, cs, ns)
  <2>1. ASSUME NEW d \in Callers
        PROVE  /\ ns[d].ph # "none" => Owns(cs[d]) \/ Shares(rs, cs, d)
               /\ ns[d].ph = "waiting" =>
                     /\ ns[d].run # None
                     /\ Inner(d) \in rs[ns[d].run].waiters
                     /\ rs[ns[d].run].key = cs[d].lease.epochs
    BY <1>1, <1>2, <1>5 DEF Held, NestedHold
  <2> QED BY <2>1 DEF NestedHold
<1>7. rs[r].owned => Unowned(ps, cs, l)
    BY <1>1
<1>8. OneOwner(rs, cs)
  <2>1. ASSUME NEW p \in Runs, NEW q \in Runs, rs[p].owned, rs[q].owned,
               rs[p].lease = rs[q].lease
        PROVE  p = q
    BY <1>1, <1>7, <2>1 DEF Held, OneOwner, Unowned
  <2>2. \A d \in Callers, q \in Runs : Owns(cs[d]) /\ rs[q].owned => cs[d].lease # rs[q].lease
    BY <1>1, <1>7 DEF Held, OneOwner, Unowned
  <2> QED BY <2>1, <2>2 DEF Held, OneOwner
<1>9. Grounded(rs, cs)
  <2> SUFFICES ASSUME NEW S \in SUBSET Runs, S # {}, \A q \in S : rs[q].lease # None
               PROVE  \E q \in S :
                         \/ rs[q].owned
                         \/ \E d \in Callers :
                               /\ Backs(rs, cs, d, q)
                               /\ Owns(cs[d]) \/ (Shares(rs, cs, d) /\ cs[d].run \notin S)
    BY DEF Grounded
  <2>1. CASE S = {r}
    <3>1. CASE owner = {}
      BY <1>1, <2>1, <3>1
    <3>2. ASSUME NEW d \in Callers, owner = {d}, cs[d].lease = l, Owns(cs[d]) \/ Shares(ps, cs, d)
          PROVE  \E q \in S : \E e \in Callers :
                               /\ Backs(rs, cs, e, q)
                               /\ Owns(cs[e]) \/ (Shares(rs, cs, e) /\ cs[e].run \notin S)
      <4>1. Backs(rs, cs, d, r)
        BY <1>1, <3>2 DEF Backs
      <4>2. Owns(cs[d]) \/ (Shares(rs, cs, d) /\ cs[d].run \notin S)
        BY <1>5, <2>1, <3>2
      <4> QED BY <2>1, <4>1, <4>2
    <3> QED BY <3>1, <3>2
  <2>2. CASE S # {r}
    <3> DEFINE T == S \ {r}
    <3>1. T \in SUBSET Runs /\ T # {} /\ \A q \in T : ps[q].lease # None
      BY <1>1, <2>2
    <3>2. \E q \in T :
             \/ ps[q].owned
             \/ \E d \in Callers :
                   /\ Backs(ps, cs, d, q)
                   /\ Owns(cs[d]) \/ (Shares(ps, cs, d) /\ cs[d].run \notin T)
      <4> HIDE DEF T
      <4> QED BY <3>1 DEF Held, Grounded
    <3>3. PICK q \in T :
             \/ ps[q].owned
             \/ \E d \in Callers :
                   /\ Backs(ps, cs, d, q)
                   /\ Owns(cs[d]) \/ (Shares(ps, cs, d) /\ cs[d].run \notin T)
      BY <3>2
    <3>4. CASE ps[q].owned
      BY <1>1, <3>4
    <3>5. ASSUME NEW d \in Callers, Backs(ps, cs, d, q),
                 Owns(cs[d]) \/ (Shares(ps, cs, d) /\ cs[d].run \notin T)
          PROVE  Backs(rs, cs, d, q) /\ (Owns(cs[d]) \/ (Shares(rs, cs, d) /\ cs[d].run \notin S))
      <4>1. Backs(rs, cs, d, q)
        BY <1>1, <3>5 DEF Backs
      <4> QED BY <1>5, <3>5, <4>1
    <3> QED BY <3>3, <3>4, <3>5
  <2> QED BY <2>1, <2>2
<1> QED BY <1>3, <1>4, <1>6, <1>8, <1>9 DEF Held

(* Who comes to wait for a check or leaves it disturbs nobody else. *)
LEMMA WaitersRetained ==
    ASSUME NEW ps \in [Runs -> SoundRun], NEW ls, RunsHold(ps, ls), NEW c \in Callers
    PROVE  /\ Retained(ps, ps, c)
           /\ \A r \in Runs, t \in {Top(c), Inner(c)} :
                 /\ Retained(Without(ps, r, t), ps, c)
                 /\ ps[r].lease # None =>
                       Retained([ps EXCEPT ![r].waiters = @ \cup {t}], ps, c)
<1>1. \A r \in Runs : ps[r].waiters # {} => ps[r].lease # None
    BY DEF RunsHold
<1>2. Retained(ps, ps, c)
    BY <1>1 DEF Retained
<1>3. ASSUME NEW r \in Runs, NEW t \in {Top(c), Inner(c)}, NEW rs,
             \/ rs = Without(ps, r, t)
             \/ rs = [ps EXCEPT ![r].waiters = @ \cup {t}] /\ ps[r].lease # None
      PROVE  Retained(rs, ps, c)
  <2>1. \A q \in Runs : ps[q] \in SoundRun
    OBVIOUS
  <2>2. \A d \in Callers \ {c} : Top(d) # t /\ Inner(d) # t
    BY DEF Top, Inner
  <2>3. PICK w : rs = [ps EXCEPT ![r] = [ps[r] EXCEPT !.waiters = w]]
                 /\ (w = ps[r].waiters \ {t} \/ (w = ps[r].waiters \cup {t} /\ ps[r].lease # None))
    BY <1>3 DEF Without
  <2>4. /\ \A q \in Runs \ {r} : rs[q] = ps[q]
        /\ rs[r] = [ps[r] EXCEPT !.waiters = w]
    BY <2>3
  <2>5. /\ rs[r].lease = ps[r].lease /\ rs[r].key = ps[r].key /\ rs[r].route = ps[r].route
        /\ rs[r].owned = ps[r].owned /\ rs[r].st = ps[r].st
        /\ rs[r].awaited = ps[r].awaited
        /\ rs[r].shared = ps[r].shared
        /\ rs[r].cached = ps[r].cached
        /\ rs[r].waiters = w
    BY <2>1, <2>4 DEF SoundRun, RunRecord
  <2>6. ASSUME NEW q \in Runs
        PROVE  /\ rs[q].lease = ps[q].lease /\ rs[q].key = ps[q].key /\ rs[q].route = ps[q].route
               /\ rs[q].owned = ps[q].owned /\ rs[q].st = ps[q].st
               /\ ps[q].awaited \subseteq rs[q].awaited
               /\ rs[q].shared => ps[q].shared
               /\ rs[q].cached => ps[q].cached
    BY <2>4, <2>5
  <2>7. ASSUME NEW q \in Runs
        PROVE  /\ rs[q].waiters # {} => rs[q].lease # None
               /\ \A d \in Callers \ {c} :
                     /\ Top(d) \in ps[q].waiters => Top(d) \in rs[q].waiters
                     /\ Inner(d) \in ps[q].waiters => Inner(d) \in rs[q].waiters
    <3>1. CASE q = r
      <4>1. w # {} => ps[r].lease # None
        BY <1>1, <2>3
      <4>2. \A d \in Callers \ {c} : /\ Top(d) \in ps[r].waiters => Top(d) \in w
                                     /\ Inner(d) \in ps[r].waiters => Inner(d) \in w
        BY <2>2, <2>3
      <4> QED BY <2>5, <3>1, <4>1, <4>2
    <3>2. CASE q # r
      BY <1>1, <2>4, <3>2
    <3> QED BY <3>1, <3>2
  <2> QED BY <2>6, <2>7 DEF Retained
<1> QED BY <1>2, <1>3

(* ... nor does who gives up a check that nobody else waits for. *)
LEMMA CancelledRetained ==
    ASSUME run \in [Runs -> SoundRun], NEW ls, RunsHold(run, ls), NEW c \in Callers, NEW r \in Runs
    PROVE  Retained(CancelledRun(r, c), run, c)
<1> DEFINE rest == Without(run, r, Top(c))
<1>1. Retained(rest, run, c) /\ rest \in [Runs -> SoundRun]
    BY WaitersRetained, RunTables, Waiters
<1> HIDE DEF rest
<1> DEFINE x == [rest[r] EXCEPT !.shared = FALSE, !.aborted = TRUE, !.awaited = @ \cup {c}]
           rs == [rest EXCEPT ![r] = x]
<1>2. /\ x.lease = rest[r].lease /\ x.key = rest[r].key /\ x.route = rest[r].route
      /\ x.owned = rest[r].owned /\ x.st = rest[r].st
      /\ rest[r].awaited \subseteq x.awaited
      /\ ~x.shared
      /\ x.cached = rest[r].cached
      /\ x.waiters = rest[r].waiters
  <2>1. rest[r] \in SoundRun
    BY <1>1
  <2> QED BY <2>1 DEF SoundRun, RunRecord
<1>3. [rest EXCEPT ![r].shared = FALSE, ![r].aborted = TRUE, ![r].awaited = @ \cup {c}] = rs
    BY <1>1
<1> HIDE DEF x
<1>4. rs[r] = x /\ \A q \in Runs \ {r} : rs[q] = rest[q]
    BY <1>1
<1> HIDE DEF rs
<1>5. Retained(rs, run, c)
    BY <1>1, <1>2, <1>4 DEF Retained
<1>6. CancelledRun(r, c) \in {rest, rs}
    BY <1>3 DEF CancelledRun, rest
<1> QED BY <1>1, <1>5, <1>6

(* What checks saw does not change when they are tidied up. *)
LEMMA RunsStillSaw ==
    ASSUME NEW rs \in [Runs -> SoundRun], NEW ls, NEW sc, NEW el, NEW ep,
           RunsSaw(rs, sc, el, ep), Becomes(rs, ls)
    PROVE  RunsSaw(run', sc, el, ep)
<1>1. ASSUME NEW r \in Runs, run'[r].st # "none"
      PROVE  rs[r].st # "none" /\ run'[r].key = rs[r].key /\ run'[r].route = rs[r].route
  <2>1. run'[r] = Tidied(rs, r) /\ rs[r] \in SoundRun
    BY DEF Becomes
  <2>2. NoRun.st = "none"
    BY DEF NoRun
  <2>3. CASE run'[r] = rs[r]
    BY <1>1, <2>3
  <2>4. CASE run'[r] = [rs[r] EXCEPT !.lease = None, !.owned = FALSE, !.awaited = {}]
    BY <1>1, <2>1, <2>4 DEF SoundRun, RunRecord
  <2> QED BY <1>1, <2>1, <2>2, <2>3, <2>4 DEF Tidied
<1> QED BY <1>1 DEF RunsSaw

(* While nobody works through them sessions may change: what was seen      *)
(* under earlier epochs is not asked for any more.                         *)
LEMMA SeenUntilThen ==
    ASSUME TypesAre, LeasesHold, ProxyPublishes, NEW key \in Key, NEW route,
           Seen(key, route, scope, electron, epochs)
    PROVE  Seen(key, route, scope', electron', epochs')
<1>1. DOMAIN key \in SUBSET Scopes /\ \A s \in DOMAIN key : key[s] \in Nat
    BY TableDomain DEF Key, Tables
<1>2. /\ scope \in [Scopes -> ScopeRecord] /\ electron \in [Scopes -> Sessions \cup {System}]
      /\ epochs \in Nat
    BY DEF TypesAre, ProxyTypes
<1>3. ASSUME NEW s \in DOMAIN key
      PROVE  /\ key[s] <= epochs'
             /\ scope'[s].health = "stable" /\ scope'[s].epoch = key[s] => electron'[s] = route[s]
  <2>1. s \in Scopes /\ key[s] \in Nat /\ key[s] <= epochs
        /\ (scope[s].health = "stable" /\ scope[s].epoch = key[s] => electron[s] = route[s])
    BY <1>1 DEF Seen
  <2> DEFINE h == Head(work.todo)
  <2>2. CASE ApplyBegins
    <3>1. electron' = electron /\ epochs' = epochs
          /\ scope' = [scope EXCEPT ![h].credentials = IF SessionChanges(h) THEN None ELSE @,
                                    ![h].health = "unknown"]
      BY <2>2 DEF ApplyBegins
    <3>2. CASE s = h
      BY <1>2, <2>1, <3>1, <3>2 DEF ScopeRecord
    <3>3. CASE s # h
      BY <1>2, <2>1, <3>1, <3>3
    <3> QED BY <3>2, <3>3
  <2>3. CASE Applied
    <3>1. electron' = [electron EXCEPT ![h] = Route[work.to][h]] /\ epochs' = epochs + 1
          /\ scope' = [scope EXCEPT ![h] =
                [health |-> "stable", epoch |-> epochs + 1,
                 effective |-> Effective[work.to][h], session |-> Route[work.to][h],
                 credentials |-> IF @.credentials = None THEN work.to ELSE @.credentials]]
      BY <2>3 DEF Applied
    <3>2. CASE s = h
      <4>1. scope'[s].epoch = epochs + 1
        BY <1>2, <2>1, <3>1, <3>2
      <4> QED BY <1>2, <2>1, <3>1, <4>1
    <3>3. CASE s # h
      <4>1. scope'[s] = scope[s] /\ electron'[s] = electron[s]
        BY <1>2, <2>1, <3>1, <3>3
      <4> QED BY <1>2, <2>1, <3>1, <4>1
    <3> QED BY <3>2, <3>3
  <2>4. CASE ApplyFails
    <3>1. epochs' = epochs /\ scope' = [scope EXCEPT ![h] = Unknown]
          /\ electron' \in {electron, [electron EXCEPT ![h] = Route[work.to][h]]}
      BY <2>4 DEF ApplyFails
    <3>2. CASE s = h
      BY <1>2, <2>1, <3>1, <3>2 DEF Unknown
    <3>3. CASE s # h
      BY <1>2, <2>1, <3>1, <3>3
    <3> QED BY <3>2, <3>3
  <2> QED BY <2>2, <2>3, <2>4 DEF ProxyPublishes
<1> QED BY <1>3 DEF Seen

-----------------------------------------------------------------------------
(* What a step has to show for Lent.                                       *)

(* Leases that are added are for scopes that are stable. *)
Grantable(l) ==
    work = None /\ \A s \in DOMAIN l.epochs : Stable(s) /\ scope[s].epoch = l.epochs[s]

(* Leases hold as long as scopes rest. *)
LEMMA LeasesStillHold ==
    ASSUME LeasesHold, ProxyRests, NEW ls, leases' \subseteq ls,
           \A l \in ls : l \in leases \/ Grantable(l)
    PROVE  LeasesHold'
<1>1. leases' # {} => work' = None
    BY DEF LeasesHold, ProxyRests, Grantable
<1>2. ASSUME NEW l \in leases'
      PROVE  \A s \in DOMAIN l.epochs : scope'[s].health = "stable" /\ scope'[s].epoch = l.epochs[s]
    BY DEF LeasesHold, ProxyRests, Grantable, LeaseCurrent, Stable
<1>3. \A s \in Scopes : scope'[s].epoch <= epochs'
    BY DEF LeasesHold, ProxyRests
<1> QED BY <1>1, <1>2, <1>3 DEF LeasesHold, LeaseCurrent, Stable

(* A step of a caller that changes neither checks nor leases. *)
LEMMA LentStays ==
    ASSUME TypesAre, TypesAre', Lent, ProxyRests, NEW c \in Callers, UNCHANGED <<run, leases>>,
           \A d \in Callers \ {c} : caller'[d] = caller[d] /\ nested'[d] = nested[d],
           Proper(run, run, leases, caller, caller', nested', c),
           CallerSaw(caller'[c], nested'[c], scope, electron, epochs)
    PROVE  Lent'
<1>1. LeasesHold'
    BY LeasesStillHold DEF Lent
<1>2. /\ run \in [Runs -> SoundRun]
      /\ caller \in [Callers -> CallerRecord] /\ caller' \in [Callers -> CallerRecord]
      /\ nested \in [Callers -> NestedRecord] /\ nested' \in [Callers -> NestedRecord]
    BY DEF TypesAre
<1>3. Retained(run, run, c)
    BY <1>2, WaitersRetained DEF Lent, Held
<1>4. Held(run, leases, caller', nested')
    BY <1>2, <1>3, Moves DEF Lent
<1>5. scope' = scope /\ electron' = electron /\ epochs' = epochs /\ run' = run /\ leases' = leases
    BY DEF ProxyRests
<1>6. CallersSaw(caller', nested', scope, electron, epochs)
    BY DEF Lent, CallersSaw
<1> QED BY <1>1, <1>4, <1>5, <1>6 DEF Lent

(* A step that makes leases and checks become something. *)
LEMMA LentBecomes ==
    ASSUME TypesAre, TypesAre', Lent, ProxyRests, NEW rs \in [Runs -> SoundRun], NEW ls,
           Becomes(rs, ls), \A l \in ls : l \in leases \/ Grantable(l),
           Held(rs, ls, caller', nested'),
           RunsSaw(rs, scope, electron, epochs),
           CallersSaw(caller', nested', scope, electron, epochs)
    PROVE  Lent'
<1>1. leases' \subseteq ls
    BY DEF Becomes
<1>2. LeasesHold'
    BY <1>1, LeasesStillHold DEF Lent
<1>3. caller' \in [Callers -> CallerRecord] /\ nested' \in [Callers -> NestedRecord]
    BY DEF TypesAre
<1>4. Held(run', leases', caller', nested') /\ Tidy(run')
    BY <1>3, BecomesHeld
<1>5. RunsSaw(run', scope, electron, epochs)
    BY RunsStillSaw
<1>6. scope' = scope /\ electron' = electron /\ epochs' = epochs
    BY DEF ProxyRests
<1> QED BY <1>2, <1>4, <1>5, <1>6 DEF Lent

(* ... of a caller. *)
LEMMA LentMoves ==
    ASSUME TypesAre, TypesAre', Lent, ProxyRests, NEW c \in Callers,
           \A d \in Callers \ {c} : caller'[d] = caller[d] /\ nested'[d] = nested[d],
           NEW ps \in [Runs -> SoundRun], NEW rs \in [Runs -> SoundRun], NEW ls,
           Becomes(rs, ls), \A l \in ls : l \in leases \/ Grantable(l),
           Held(ps, ls, caller, nested), Retained(rs, ps, c),
           Proper(rs, ps, ls, caller, caller', nested', c),
           RunsSaw(rs, scope, electron, epochs),
           CallerSaw(caller'[c], nested'[c], scope, electron, epochs)
    PROVE  Lent'
<1>1. /\ caller \in [Callers -> CallerRecord] /\ caller' \in [Callers -> CallerRecord]
      /\ nested \in [Callers -> NestedRecord] /\ nested' \in [Callers -> NestedRecord]
    BY DEF TypesAre
<1>2. Held(rs, ls, caller', nested')
    BY <1>1, Moves
<1>3. CallersSaw(caller', nested', scope, electron, epochs)
    BY DEF Lent, CallersSaw
<1> QED BY <1>2, <1>3, LentBecomes

(* Checks end, or are made obsolete. *)
LEMMA RunEndsLent ==
    ASSUME TypesAre, TypesAre', Lent, Invalidate \/ \E r \in Runs : RunEnds(r)
    PROVE  Lent'
<1>1. run \in [Runs -> SoundRun] /\ caller \in [Callers -> CallerRecord]
      /\ nested \in [Callers -> NestedRecord]
    BY DEF TypesAre
<1>2. /\ ProxyRests /\ UNCHANGED <<caller, nested>>
      /\ \E rs \in [Runs -> SoundRun] : Alike(rs, run) /\ Becomes(rs, leases)
  <2>1. CASE Invalidate
    <3>1. Invalidated(run) \in [Runs -> SoundRun] /\ Alike(Invalidated(run), run)
      BY <1>1, RunTables, ForgottenAlike
    <3>2. ProxyRests /\ UNCHANGED <<caller, nested>> /\ Becomes(Invalidated(run), leases)
      BY <2>1 DEF Invalidate, ProxyRests
    <3> QED BY <3>1, <3>2
  <2>2. ASSUME NEW r \in Runs, RunEnds(r)
        PROVE  /\ ProxyRests /\ UNCHANGED <<caller, nested>>
               /\ \E rs \in [Runs -> SoundRun] : Alike(rs, run) /\ Becomes(rs, leases)
    BY <2>2, EndedRuns
  <2> QED BY <2>1, <2>2
<1>3. PICK rs \in [Runs -> SoundRun] : Alike(rs, run) /\ Becomes(rs, leases)
    BY <1>2
<1>4. Held(rs, leases, caller, nested)
    BY <1>1, <1>3, AlikeHeld DEF Lent
<1>5. RunsSaw(rs, scope, electron, epochs)
  <2>1. \A r \in Runs : /\ rs[r].st # "none" => run[r].st # "none"
                        /\ rs[r].key = run[r].key /\ rs[r].route = run[r].route
    BY <1>3 DEF Alike
  <2> QED BY <2>1 DEF Lent, RunsSaw
<1>6. CallersSaw(caller', nested', scope, electron, epochs) /\ Held(rs, leases, caller', nested')
    BY <1>2, <1>4 DEF Lent
<1> QED BY <1>2, <1>3, <1>5, <1>6, LentBecomes

-----------------------------------------------------------------------------
(* Callers resume, operate, stop and leave.                                *)

(* A caller that works through nothing has nothing to see to. *)
LEMMA RestsProper ==
    ASSUME NEW rs, NEW ps, NEW ls, NEW cs, NEW ds, NEW ms, NEW c,
           ds[c].ph \in {"idle", "queued", "paused"}, ms[c].ph = "none",
           (\A r \in Runs : c \notin rs[r].awaited) \/ cs[c].ph \in {"idle", "queued", "paused"}
    PROVE  Proper(rs, ps, ls, cs, ds, ms, c) /\ ~Owns(ds[c])
BY DEF Proper, Owns, Shares

(* What checks saw they saw also when others wait for them. *)
LEMMA RetainedSaw ==
    ASSUME NEW rs, NEW ps, NEW c, NEW sc, NEW el, NEW ep,
           RunsSaw(ps, sc, el, ep), Retained(rs, ps, c)
    PROVE  RunsSaw(rs, sc, el, ep)
BY DEF RunsSaw, Retained

(* What a caller waits for, or works through. *)
LEMMA Waits ==
    ASSUME TypesAre, Lent, NEW c \in Callers,
           caller[c].ph = "waiting" \/ (caller[c].ph = "operating" /\ caller[c].run # None)
    PROVE  LET r == caller[c].run IN
           /\ r \in Runs /\ r # None
           /\ Top(c) \in run[r].waiters
           /\ caller[c].lease = run[r].lease /\ run[r].lease # None
           /\ run[r].key = caller[c].lease.epochs
<1>1. caller[c] \in CallerRecord
    BY DEF TypesAre
<1>2. /\ caller[c].run # None /\ Top(c) \in run[caller[c].run].waiters
      /\ caller[c].lease = run[caller[c].run].lease
    BY DEF Lent, Held, CallersHold
<1>3. caller[c].run \in Runs
    BY <1>1, <1>2 DEF CallerRecord
<1>4. run[caller[c].run].lease # None
      /\ run[caller[c].run].key = run[caller[c].run].lease.epochs
    BY <1>2, <1>3 DEF Lent, Held, RunsHold
<1> QED BY <1>2, <1>3, <1>4

(* A caller enters its operation. *)
LEMMA EntersLent ==
    ASSUME TypesAre, TypesAre', Lent, ProxyRests, nested' = nested, NEW c \in Callers, Enters(c)
    PROVE  Lent'
<1> DEFINE me == caller[c]
           r == me.run
<1>1. /\ me \in CallerRecord /\ Fits(me, nested[c]) /\ caller \in [Callers -> CallerRecord]
    BY DEF TypesAre
<1>2. /\ me.ph = "waiting" /\ run[r].st = "settled"
      /\ Goes(c, [Idle EXCEPT !.ph = "operating", !.kind = me.kind, !.active = TRUE,
                              !.lease = me.lease, !.route = run[r].route, !.run = r])
      /\ UNCHANGED <<run, leases>>
    BY DEF Enters
<1>3. /\ r \in Runs /\ r # None /\ Top(c) \in run[r].waiters
      /\ me.lease = run[r].lease /\ run[r].key = me.lease.epochs
    BY <1>2, Waits
<1> HIDE DEF me, r
<1> DEFINE x == [Idle EXCEPT !.ph = "operating", !.kind = me.kind, !.active = TRUE,
                             !.lease = me.lease, !.route = run[r].route, !.run = r]
<1>4. /\ x.ph = "operating" /\ x.kind = me.kind /\ x.lease = me.lease
      /\ x.route = run[r].route /\ x.run = r /\ x.capture = None
    BY DEF Idle
<1>5. caller'[c] = x /\ \A d \in Callers \ {c} : caller'[d] = caller[d]
    BY <1>1, <1>2 DEF Goes
<1> HIDE DEF x
<1>6. nested[c].ph = "none"
  <2>1. nested[c] \in NestedRecord
    BY DEF TypesAre
  <2> QED BY <1>1, <1>2, <2>1 DEF Fits
<1>7. Proper(run, run, leases, caller, caller', nested', c)
  <2>1. Owns(x) <=> Owns(me)
    BY <1>2, <1>3, <1>4 DEF Owns
  <2>2. Owns(me) => me.lease \in leases
    BY DEF me, Lent, Held, CallersHold
  <2>3. ~Shares(run, caller, c)
    BY <1>2 DEF Shares, me
  <2>4. caller'[c] = x /\ nested'[c].ph = "none" /\ caller[c] = me
    BY <1>5, <1>6 DEF me
  <2> QED BY <1>3, <1>4, <2>1, <2>2, <2>3, <2>4 DEF Proper
<1>8. CallerSaw(caller'[c], nested'[c], scope, electron, epochs)
  <2>1. Seen(run[r].key, run[r].route, scope, electron, epochs)
    BY <1>2, <1>3 DEF Lent, RunsSaw
  <2> QED BY <1>3, <1>4, <1>5, <1>6, <2>1 DEF CallerSaw
<1> QED BY <1>2, <1>5, <1>7, <1>8, LentStays

(* A request is over. *)
LEMMA StopsLent ==
    ASSUME TypesAre, TypesAre', Lent, ProxyRests, nested' = nested, NEW c \in Callers, Stops(c)
    PROVE  Lent'
<1>0. PICK me, r : me = caller[c] /\ r = me.run
    OBVIOUS
<1>1. /\ me \in CallerRecord /\ Fits(me, nested[c]) /\ caller \in [Callers -> CallerRecord]
      /\ run \in [Runs -> SoundRun] /\ nested[c] \in NestedRecord
    BY <1>0 DEF TypesAre
<1>2. /\ me.ph \in {"waiting", "operating"}
      /\ \E x \in CallerRecord :
            /\ Stopped(me, x) /\ Goes(c, x)
            /\ \/ x.capture = me.capture
               \/ /\ me.ph = "waiting" /\ run[r].st = "settled"
                  /\ x.capture = [key |-> run[r].key, route |-> run[r].route]
      /\ \E rs \in [Runs -> SoundRun] :
            /\ Becomes(rs, leases)
            /\ \/ rs = run /\ me.kind # "recheck"
               \/ rs = Without(run, r, Top(c)) /\ (me.ph = "waiting" \/ me.kind = "recheck")
               \/ rs = CancelledRun(r, c) /\ me.ph = "waiting"
    BY <1>0 DEF Stops
<1>3. PICK x \in CallerRecord :
            /\ Stopped(me, x) /\ Goes(c, x)
            /\ \/ x.capture = me.capture
               \/ /\ me.ph = "waiting" /\ run[r].st = "settled"
                  /\ x.capture = [key |-> run[r].key, route |-> run[r].route]
    BY <1>2
<1>4. PICK rs \in [Runs -> SoundRun] :
            /\ Becomes(rs, leases)
            /\ \/ rs = run /\ me.kind # "recheck"
               \/ rs = Without(run, r, Top(c)) /\ (me.ph = "waiting" \/ me.kind = "recheck")
               \/ rs = CancelledRun(r, c) /\ me.ph = "waiting"
    BY <1>2
<1>5. caller'[c] = x /\ \A d \in Callers \ {c} : caller'[d] = caller[d] /\ nested'[d] = nested[d]
    BY <1>1, <1>3 DEF Goes
<1>6. me.ph = "waiting" \/ me.kind = "recheck" => r \in Runs /\ r # None
  <2>1. me.ph = "waiting" \/ (me.ph = "operating" /\ me.kind = "recheck") => me.run # None
    BY <1>1 DEF Fits
  <2> QED BY <1>0, <1>1, <1>2, <2>1 DEF CallerRecord
<1>7. RunsHold(run, leases) /\ RunsSaw(run, scope, electron, epochs)
    BY DEF Lent, Held
<1>8. Retained(rs, run, c)
    BY <1>1, <1>4, <1>6, <1>7, WaitersRetained, CancelledRetained
<1>9. /\ x.ph = "ending" /\ x.lease = me.lease /\ x.kind = me.kind
      /\ x.run = IF me.kind = "recheck" THEN None ELSE r
    BY <1>0, <1>3 DEF Stopped
<1>10. Owns(x) <=> Owns(me)
  <2>1. me.ph = "operating" /\ me.kind = "recheck" => r # None
    BY <1>6
  <2> QED BY <1>0, <1>2, <1>6, <1>9 DEF Owns
<1>11. Owns(me) => me.lease \in leases
    BY <1>0 DEF Lent, Held, CallersHold
<1>12. Shares(run, caller, c) =>
          Shares(rs, caller', c) /\ caller'[c].run = caller[c].run
  <2>1. ASSUME Shares(run, caller, c)
        PROVE  Shares(rs, caller', c) /\ caller'[c].run = caller[c].run
    <3>1. /\ me.ph = "operating" /\ me.kind # "recheck" /\ r # None
          /\ Top(c) \in run[r].waiters /\ me.lease = run[r].lease
      BY <1>0, <1>2, <2>1 DEF Shares
    <3>2. rs = run
      BY <1>4, <3>1
    <3>3. x.run = r
      BY <1>9, <3>1
    <3> QED BY <1>0, <1>5, <1>9, <3>1, <3>2, <3>3 DEF Shares
  <2> QED BY <2>1
<1>13. /\ nested[c].ph # "none" => Owns(me) \/ Shares(run, caller, c)
       /\ nested[c].ph = "waiting" =>
             /\ nested[c].run # None
             /\ Inner(c) \in rs[nested[c].run].waiters
             /\ rs[nested[c].run].key = me.lease.epochs
  <2>1. /\ nested[c].ph # "none" => Owns(me) \/ Shares(run, caller, c)
        /\ nested[c].ph = "waiting" =>
              /\ nested[c].run # None
              /\ Inner(c) \in run[nested[c].run].waiters
              /\ run[nested[c].run].key = me.lease.epochs
    BY <1>0 DEF Lent, Held, NestedHold
  <2>2. nested[c].ph # "none" => me.ph = "operating"
    BY <1>1, <1>2 DEF Fits
  <2>3. ASSUME nested[c].ph = "waiting"
        PROVE  /\ Inner(c) \in rs[nested[c].run].waiters
               /\ rs[nested[c].run].key = me.lease.epochs
    <3>1. nested[c].run \in Runs
      BY <1>1, <2>1, <2>3 DEF NestedRecord
    <3>2. rs[nested[c].run].key = run[nested[c].run].key
      BY <1>8, <3>1 DEF Retained
    <3>3. rs = run \/ (rs = Without(run, r, Top(c)) /\ r \in Runs)
      <4>1. me.ph # "waiting"
        BY <2>2, <2>3
      <4> QED BY <1>4, <1>6, <4>1
    <3>4. Inner(c) \in rs[nested[c].run].waiters
      <4>1. CASE rs = run
        BY <2>1, <2>3, <4>1
      <4>2. CASE rs = Without(run, r, Top(c)) /\ r \in Runs
        <5>1. rs = [run EXCEPT ![r] = [run[r] EXCEPT !.waiters = @ \ {Top(c)}]]
          BY <4>2 DEF Without
        <5>2. [run[r] EXCEPT !.waiters = @ \ {Top(c)}].waiters = run[r].waiters \ {Top(c)}
          <6>1. run[r] \in SoundRun
            BY <1>1, <4>2
          <6> QED BY <6>1 DEF SoundRun, RunRecord
        <5>3. Inner(c) # Top(c)
          BY Waiters
        <5>4. CASE nested[c].run = r
          BY <1>1, <2>1, <2>3, <4>2, <5>1, <5>2, <5>3, <5>4
        <5>5. CASE nested[c].run # r
          BY <1>1, <2>1, <2>3, <3>1, <4>2, <5>1, <5>5
        <5> QED BY <5>4, <5>5
      <4> QED BY <3>3, <4>1, <4>2
    <3> QED BY <2>1, <2>3, <3>2, <3>4
  <2> QED BY <2>1, <2>3
<1>14. Proper(rs, run, leases, caller, caller', nested', c)
  <2>1. /\ Owns(x) => x.lease \in leases /\ Owns(caller[c]) /\ caller[c].lease = x.lease
        /\ ~(x.ph = "waiting" \/ (x.ph = "operating" /\ x.run # None))
    BY <1>0, <1>9, <1>10, <1>11
  <2>2. nested[c].ph # "none" => Owns(x) \/ Shares(rs, caller', c)
    BY <1>10, <1>12, <1>13
  <2>3. Owns(caller[c]) => Owns(x) /\ x.lease = caller[c].lease
    BY <1>0, <1>9, <1>10
  <2>4. x.lease = caller[c].lease
    BY <1>0, <1>9
  <2> QED BY <1>5, <1>12, <1>13, <1>9, <2>1, <2>2, <2>3, <2>4 DEF Proper
<1>15. CallerSaw(caller'[c], nested'[c], scope, electron, epochs)
  <2>1. CallerSaw(me, nested[c], scope, electron, epochs)
    BY <1>0 DEF Lent, CallersSaw
  <2>2. x.capture # None => Seen(x.capture.key, x.capture.route, scope, electron, epochs)
    <3>1. CASE x.capture = me.capture
      BY <2>1, <3>1 DEF CallerSaw
    <3>2. CASE x.capture # me.capture
      <4>1. me.ph = "waiting" /\ run[r].st = "settled"
            /\ x.capture = [key |-> run[r].key, route |-> run[r].route]
        BY <1>3, <3>2
      <4>2. Seen(run[r].key, run[r].route, scope, electron, epochs)
        BY <1>6, <1>7, <4>1 DEF RunsSaw
      <4> QED BY <4>1, <4>2
    <3> QED BY <3>1, <3>2
  <2> QED BY <1>5, <1>9, <2>1, <2>2 DEF CallerSaw
<1>16. RunsSaw(rs, scope, electron, epochs)
    BY <1>7, <1>8, RetainedSaw
<1>17. Held(run, leases, caller, nested)
    BY DEF Lent
<1> QED BY <1>1, <1>4, <1>5, <1>8, <1>14, <1>15, <1>16, <1>17, LentMoves

(* A request is made or decided on, or leaves the queue. *)
LEMMA RestsLent ==
    ASSUME TypesAre, TypesAre', Lent, ProxyRests, UNCHANGED <<nested, run, leases>>,
           NEW c \in Callers, NEW x, x.ph \in {"idle", "queued", "paused"}, Goes(c, x),
           x.capture \in {None, caller[c].capture},
           caller[c].ph \in {"idle", "queued", "paused"}
    PROVE  Lent'
<1>1. /\ Fits(caller[c], nested[c]) /\ caller \in [Callers -> CallerRecord]
      /\ nested[c] \in NestedRecord
    BY DEF TypesAre
<1>2. nested[c].ph = "none"
    BY <1>1 DEF Fits
<1>3. caller'[c] = x /\ \A d \in Callers \ {c} : caller'[d] = caller[d] /\ nested'[d] = nested[d]
    BY <1>1 DEF Goes
<1>4. Proper(run, run, leases, caller, caller', nested', c)
    BY <1>2, <1>3, RestsProper
<1>5. CallerSaw(caller'[c], nested'[c], scope, electron, epochs)
  <2>1. CallerSaw(caller[c], nested[c], scope, electron, epochs)
    BY DEF Lent, CallersSaw
  <2> QED BY <1>2, <1>3, <2>1 DEF CallerSaw
<1> QED BY <1>3, <1>4, <1>5, LentStays

(* ... as a user does. *)
LEMMA RequestLent ==
    ASSUME TypesAre, TypesAre', Lent, NEW c \in Callers,
           Request(c) \/ \E kind \in {"recheck", "bypass"} : Decide(c, kind)
    PROVE  Lent'
<1>1. /\ ProxyRests /\ UNCHANGED <<leases, nested, run>>
      /\ caller[c].ph \in {"idle", "paused"}
    BY RequestIs
<1>2. PICK x \in CallerRecord : Queued(c, x) /\ x.capture \in {None, caller[c].capture}
    BY RequestIs
<1>3. PICK y : y = [x EXCEPT !.ph = "queued"]
    OBVIOUS
<1>4. y.ph = "queued" /\ y.capture = x.capture
    BY <1>3 DEF CallerRecord
<1>5. Goes(c, y)
    BY <1>2, <1>3 DEF Queued, Goes
<1> QED BY <1>1, <1>2, <1>4, <1>5, RestsLent

(* A request is aborted. *)
LEMMA AbortLent ==
    ASSUME TypesAre, TypesAre', Lent, NEW c \in Callers, Abort(c)
    PROVE  Lent'
<1>1. ProxyRests /\ UNCHANGED nested
    BY AbortIs
<1>2. CASE caller[c].ph = "queued" /\ Goes(c, Idle) /\ UNCHANGED <<run, leases>>
  <2>1. Idle.ph = "idle" /\ Idle.capture = None
    BY DEF Idle
  <2> QED BY <1>1, <1>2, <2>1, RestsLent
<1>3. CASE Stops(c)
    BY <1>1, <1>3, StopsLent
<1>4. CASE /\ caller[c].ph = "operating"
           /\ Goes(c, [caller[c] EXCEPT !.active = FALSE])
           /\ UNCHANGED <<run, leases>>
  <2>1. caller \in [Callers -> CallerRecord] /\ caller[c] \in CallerRecord
    BY DEF TypesAre
  <2>2. PICK x : x = [caller[c] EXCEPT !.active = FALSE]
    OBVIOUS
  <2>3. /\ x.ph = caller[c].ph /\ x.kind = caller[c].kind /\ x.lease = caller[c].lease
        /\ x.run = caller[c].run /\ x.capture = caller[c].capture /\ x.route = caller[c].route
    BY <2>1, <2>2 DEF CallerRecord
  <2>4. caller'[c] = x /\ \A d \in Callers \ {c} : caller'[d] = caller[d] /\ nested'[d] = nested[d]
    BY <1>1, <1>4, <2>1, <2>2 DEF Goes
  <2>5. (Owns(x) <=> Owns(caller[c])) /\ (Shares(run, caller', c) <=> Shares(run, caller, c))
    BY <2>3, <2>4 DEF Owns, Shares
  <2>6. Proper(run, run, leases, caller, caller', nested', c)
    BY <1>1, <2>3, <2>4, <2>5 DEF Proper, Lent, Held, CallersHold, NestedHold
  <2>7. CallerSaw(caller'[c], nested'[c], scope, electron, epochs)
    <3>1. CallerSaw(caller[c], nested[c], scope, electron, epochs)
      BY DEF Lent, CallersSaw
    <3> QED BY <1>1, <2>3, <2>4, <3>1 DEF CallerSaw
  <2> QED BY <1>1, <1>4, <2>4, <2>6, <2>7, LentStays
<1> QED BY <1>2, <1>3, <1>4, AbortIs

(* A request leaves, and with it its lease or its share. *)
LEMMA EndsLent ==
    ASSUME TypesAre, TypesAre', Lent, NEW c \in Callers, Ends(c)
    PROVE  Lent'
<1>0. PICK me : me = caller[c]
    OBVIOUS
<1>1. /\ me \in CallerRecord /\ caller \in [Callers -> CallerRecord]
      /\ caller' \in [Callers -> CallerRecord] /\ nested \in [Callers -> NestedRecord]
      /\ run \in [Runs -> SoundRun] /\ nested[c] \in NestedRecord /\ leases \in SUBSET Lease
    BY <1>0 DEF TypesAre
<1>2. ProxyRests /\ nested' = nested /\ Leaves(c)
    BY EndsIs
<1>3. /\ me.ph = "ending" /\ ~Pending(c)
      /\ IF me.run = None THEN Becomes(run, leases \ {me.lease})
         ELSE Becomes(Without(run, me.run, Top(c)), leases)
    BY <1>0, <1>2 DEF Leaves
<1>4. \E x : /\ x.ph \in {"idle", "queued", "paused"} /\ Goes(c, x)
             /\ x.capture \in {None, me.capture}
  <2>1. PICK x \in CallerRecord :
          /\ x.capture = None \/ (x.ph = "paused" /\ x.capture = me.capture /\ x.capture # None)
          /\ \/ x.ph \in {"idle", "paused"} /\ Goes(c, x)
             \/ x.ph = "queued" /\ Queued(c, x)
    BY <1>0, <1>2 DEF Leaves
  <2>2. PICK y : y = [x EXCEPT !.ph = "queued"]
    OBVIOUS
  <2>3. y.ph = "queued" /\ y.capture = x.capture
    BY <2>2 DEF CallerRecord
  <2>4. Queued(c, x) => Goes(c, y)
    BY <2>2 DEF Queued, Goes
  <2> QED BY <2>1, <2>3, <2>4
<1>5. PICK x : /\ x.ph \in {"idle", "queued", "paused"} /\ Goes(c, x)
               /\ x.capture \in {None, me.capture}
    BY <1>4
<1>6. nested[c].ph = "none" /\ \A r \in Runs : c \notin run[r].awaited
    BY <1>3 DEF Pending
<1>7. caller'[c] = x /\ \A d \in Callers \ {c} : caller'[d] = caller[d] /\ nested'[d] = nested[d]
    BY <1>1, <1>2, <1>5 DEF Goes
<1>8. CallerSaw(caller'[c], nested'[c], scope, electron, epochs)
  <2>1. CallerSaw(me, nested[c], scope, electron, epochs)
    BY <1>0 DEF Lent, CallersSaw
  <2> QED BY <1>2, <1>5, <1>6, <1>7, <2>1 DEF CallerSaw
<1>9. /\ Held(run, leases, caller, nested) /\ RunsSaw(run, scope, electron, epochs)
      /\ RunsHold(run, leases)
    BY DEF Lent, Held
<1>10. CASE me.run = None
  <2>1. Owns(me) /\ me.lease \in leases /\ me.lease # None
    <3>1. Owns(me)
      BY <1>3, <1>10 DEF Owns
    <3>2. me.lease \in leases
      BY <1>0, <3>1 DEF Lent, Held, CallersHold
    <3> QED BY <1>1, <3>1, <3>2, NoneIsNothing
  <2>2. Proper(run, run, leases, caller, caller', nested', c) /\ ~Owns(caller'[c])
    BY <1>2, <1>5, <1>6, <1>7, RestsProper
  <2>3. Retained(run, run, c)
    BY <1>1, <1>9, WaitersRetained
  <2>4. Held(run, leases, caller', nested)
    BY <1>1, <1>2, <1>7, <1>9, <2>2, <2>3, Moves
  <2>5. Unowned(run, caller', me.lease)
    BY <1>0, <1>7, <1>9, <2>1, <2>2 DEF Unowned, Held, OneOwner
  <2>6. Held(run, leases \ {me.lease}, caller', nested)
    BY <1>1, <2>1, <2>4, <2>5, LeasesGone
  <2>7. CallersSaw(caller', nested', scope, electron, epochs)
    BY <1>7, <1>8 DEF Lent, CallersSaw
  <2>8. Becomes(run, leases \ {me.lease})
    BY <1>3, <1>10
  <2> QED BY <1>1, <1>2, <1>9, <2>6, <2>7, <2>8, LentBecomes
<1>11. CASE me.run # None
  <2>1. PICK rs : rs = Without(run, me.run, Top(c))
    OBVIOUS
  <2>2. me.run \in Runs
    BY <1>1, <1>11 DEF CallerRecord
  <2>3. rs \in [Runs -> SoundRun] /\ Retained(rs, run, c)
    BY <1>1, <1>9, <2>1, <2>2, WaitersRetained, RunTables, Waiters
  <2>4. \A r \in Runs : rs[r].awaited = run[r].awaited
    <3>1. [run[me.run] EXCEPT !.waiters = @ \ {Top(c)}].awaited = run[me.run].awaited
      <4>1. run[me.run] \in SoundRun
        BY <1>1, <2>2
      <4> QED BY <4>1 DEF SoundRun, RunRecord
    <3> QED BY <1>1, <2>1, <2>2, <3>1 DEF Without
  <2>5. Proper(rs, run, leases, caller, caller', nested', c)
    BY <1>2, <1>5, <1>6, <1>7, <2>4, RestsProper
  <2>6. RunsSaw(rs, scope, electron, epochs)
    BY <1>9, <2>3, RetainedSaw
  <2>7. Becomes(rs, leases)
    BY <1>3, <1>11, <2>1
  <2> QED BY <1>1, <1>2, <1>7, <1>8, <1>9, <2>3, <2>5, <2>6, <2>7, LentMoves
<1> QED BY <1>10, <1>11

-----------------------------------------------------------------------------
(* A lease is granted.                                                     *)

(* What is read now is what was seen. *)
LEMMA SeenNow ==
    ASSUME TypesAre, LeasesHold, NEW key \in Key, \A s \in DOMAIN key : scope[s].epoch = key[s],
           NEW route, route = RouteOf(DOMAIN key)
    PROVE  Seen(key, route, scope, electron, epochs)
<1>1. DOMAIN key \in SUBSET Scopes
    BY TableDomain DEF Key
<1>2. DOMAIN route = DOMAIN key /\ \A s \in DOMAIN key : route[s] = electron[s]
    BY DEF RouteOf
<1>3. \A s \in DOMAIN key : key[s] <= epochs
    BY <1>1 DEF LeasesHold
<1> QED BY <1>2, <1>3 DEF Seen

(* A check that begins sees what it will say. *)
LEMMA BegunSees ==
    ASSUME TypesAre, LeasesHold, NEW ps \in [Runs -> SoundRun],
           RunsSaw(ps, scope, electron, epochs), NEW r \in Runs, NEW l \in Lease,
           \A s \in DOMAIN l.epochs : scope[s].epoch = l.epochs[s],
           NEW owner \in SUBSET Callers, NEW t \in Waiter,
           NEW rs, rs = NewRun(ps, r, l.epochs, l, owner, t)
    PROVE  /\ rs \in [Runs -> SoundRun]
           /\ Begun(rs, ps, r, l, owner, t)
           /\ RunsSaw(rs, scope, electron, epochs)
<1>1. rs \in [Runs -> SoundRun]
    BY NewRunTyped DEF TypesAre, ProxyTypes
<1>2. Begun(rs, ps, r, l, owner, t) /\ rs[r].route = RouteOf(DOMAIN l.epochs)
    BY NewRunIs
<1>3. l.epochs \in Key
    BY DEF Lease
<1>4. PICK route : route = RouteOf(DOMAIN l.epochs)
    OBVIOUS
<1>5. Seen(l.epochs, route, scope, electron, epochs)
    BY <1>3, <1>4, SeenNow
<1>6. rs[r].route = route
    BY <1>2, <1>4
<1>7. RunsSaw(rs, scope, electron, epochs)
  <2>1. ASSUME NEW q \in Runs, rs[q].st # "none"
        PROVE  Seen(rs[q].key, rs[q].route, scope, electron, epochs)
    <3>1. CASE q = r
      BY <1>2, <1>5, <1>6, <3>1 DEF Begun
    <3>2. CASE q # r
      BY <1>2, <2>1, <3>2 DEF Begun, RunsSaw
    <3> QED BY <3>1, <3>2
  <2> QED BY <2>1 DEF RunsSaw
<1> QED BY <1>1, <1>2, <1>7

(* Who waits for its lease has and lends nothing. *)
LEMMA QueuedHasNothing ==
    ASSUME TypesAre, NEW c \in Callers, caller[c].ph = "queued"
    PROVE  /\ caller[c] \in CallerRecord /\ caller[c].lease = None /\ caller[c].run = None
           /\ nested[c].ph = "none" /\ ~Owns(caller[c]) /\ \A rs : ~Shares(rs, caller, c)
<1>1. caller[c] \in CallerRecord /\ nested[c] \in NestedRecord /\ Fits(caller[c], nested[c])
    BY DEF TypesAre
<1>2. nested[c].ph = "none"
    BY <1>1 DEF Fits, NestedRecord
<1> QED BY <1>1, <1>2 DEF Fits, Owns, Shares

(* Nobody owns a lease that nobody knows. *)
LEMMA FreshUnowned ==
    ASSUME NEW l, Fresh(l), NEW rs, Alike(rs, run)
    PROVE  Unowned(rs, caller, l)
BY DEF Fresh, Unowned, Alike

(* A caller that joins a check waits with the others. *)
LEMMA JoinsLent ==
    ASSUME TypesAre, TypesAre', Lent, ProxyRests, nested' = nested, NEW c \in Callers, NEW l,
           caller[c].ph = "queued", Joins(c, l)
    PROVE  Lent'
<1>0. PICK me : me = caller[c]
    OBVIOUS
<1>1. /\ me \in CallerRecord /\ nested[c].ph = "none" /\ ~Owns(me) /\ ~Shares(run, caller, c)
      /\ caller \in [Callers -> CallerRecord] /\ run \in [Runs -> SoundRun]
    BY <1>0, QueuedHasNothing DEF TypesAre
<1>2. PICK r \in Runs :
          /\ run[r].shared
          /\ me.kind = "guarded"
          /\ Goes(c, [me EXCEPT !.ph = "waiting", !.run = r, !.lease = run[r].lease])
          /\ Becomes([run EXCEPT ![r].waiters = @ \cup {Top(c)}], leases)
    BY <1>0 DEF Joins
<1>3. PICK x : x = [me EXCEPT !.ph = "waiting", !.run = r, !.lease = run[r].lease]
    OBVIOUS
<1>4. x.ph = "waiting" /\ x.run = r /\ x.lease = run[r].lease /\ x.kind = "guarded"
      /\ x.capture = me.capture
    BY <1>1, <1>2, <1>3 DEF CallerRecord
<1>5. caller'[c] = x /\ \A d \in Callers \ {c} : caller'[d] = caller[d] /\ nested'[d] = nested[d]
    BY <1>1, <1>2, <1>3 DEF Goes
<1>6. PICK rs : rs = [run EXCEPT ![r].waiters = @ \cup {Top(c)}]
    OBVIOUS
<1>7. RunsHold(run, leases) /\ RunsSaw(run, scope, electron, epochs)
      /\ Held(run, leases, caller, nested)
    BY DEF Lent, Held
<1>8. run[r].lease # None
    BY <1>2, <1>7 DEF RunsHold
<1>9. rs \in [Runs -> SoundRun] /\ Retained(rs, run, c)
    BY <1>1, <1>6, <1>7, <1>8, WaitersRetained, RunTables, Waiters
<1>10. Top(c) \in rs[r].waiters /\ rs[r].lease = run[r].lease /\ r # None
  <2>1. run[r] \in SoundRun
    BY <1>1
  <2>2. rs[r] = [run[r] EXCEPT !.waiters = @ \cup {Top(c)}]
    BY <1>1, <1>6
  <2> QED BY <2>1, <2>2, NoneIsNothing DEF SoundRun, RunRecord
<1>11. Proper(rs, run, leases, caller, caller', nested', c)
  <2>1. ~Owns(x)
    BY <1>4 DEF Owns
  <2> QED BY <1>0, <1>1, <1>4, <1>5, <1>10, <2>1 DEF Proper
<1>12. CallerSaw(caller'[c], nested'[c], scope, electron, epochs)
  <2>1. CallerSaw(me, nested[c], scope, electron, epochs)
    BY <1>0 DEF Lent, CallersSaw
  <2> QED BY <1>1, <1>4, <1>5, <2>1 DEF CallerSaw
<1>13. RunsSaw(rs, scope, electron, epochs)
    BY <1>7, <1>9, RetainedSaw
<1>14. Becomes(rs, leases)
    BY <1>2, <1>6
<1> QED BY <1>1, <1>5, <1>7, <1>9, <1>11, <1>12, <1>13, <1>14, LentMoves

(* A caller that takes a verdict keeps its lease. *)
LEMMA TakesLent ==
    ASSUME TypesAre, TypesAre', Lent, ProxyRests, nested' = nested, NEW c \in Callers, NEW l,
           caller[c].ph = "queued", Fresh(l), Grantable(l),
           NEW x, Goes(c, x), Becomes(run, leases \cup {l}),
           x.ph \in {"operating", "ending"}, x.run = None, x.lease = l,
           CallerSaw(x, nested[c], scope, electron, epochs)
    PROVE  Lent'
<1>1. /\ nested[c].ph = "none" /\ ~Owns(caller[c]) /\ ~Shares(run, caller, c)
      /\ caller \in [Callers -> CallerRecord] /\ run \in [Runs -> SoundRun]
    BY QueuedHasNothing DEF TypesAre
<1>2. caller'[c] = x /\ \A d \in Callers \ {c} : caller'[d] = caller[d] /\ nested'[d] = nested[d]
    BY <1>1 DEF Goes
<1>3. PICK ls : ls = leases \cup {l}
    OBVIOUS
<1>4. RunsHold(run, leases) /\ RunsSaw(run, scope, electron, epochs)
      /\ Held(run, leases, caller, nested)
    BY DEF Lent, Held
<1>5. Held(run, ls, caller, nested)
    BY <1>1, <1>3, <1>4, MoreLeases
<1>6. Retained(run, run, c)
    BY <1>1, <1>4, WaitersRetained
<1>7. Unowned(run, caller, l)
    BY DEF Fresh, Unowned
<1>8. Owns(x)
    BY DEF Owns
<1>9. Proper(run, run, ls, caller, caller', nested', c)
    BY <1>1, <1>2, <1>3, <1>7, <1>8 DEF Proper
<1>10. \A k \in ls : k \in leases \/ Grantable(k)
    BY <1>3
<1>11. CallerSaw(caller'[c], nested'[c], scope, electron, epochs)
    BY <1>2
<1> QED BY <1>1, <1>2, <1>3, <1>4, <1>5, <1>6, <1>9, <1>10, <1>11, LentMoves

(* ... when it is one that is remembered, *)
LEMMA ReusesLent ==
    ASSUME TypesAre, TypesAre', Lent, ProxyRests, nested' = nested, NEW c \in Callers, NEW l,
           caller[c].ph = "queued", Fresh(l), Grantable(l), Reuses(c, l)
    PROVE  Lent'
<1>1. caller[c] \in CallerRecord /\ caller[c].run = None /\ nested[c].ph = "none"
    BY QueuedHasNothing
<1>2. PICK req : req = [caller[c] EXCEPT !.lease = l]
    OBVIOUS
<1>3. PICK r \in Runs :
          /\ run[r].cached /\ run[r].key = l.epochs
          /\ Goes(c, Judged(req, r, l))
          /\ Becomes(run, leases \cup {l})
    BY <1>2 DEF Reuses
<1>4. PICK x : x = Judged(req, r, l)
    OBVIOUS
<1>5. req.run = None
    BY <1>1, <1>2 DEF CallerRecord
<1>6. Seen(run[r].key, run[r].route, scope, electron, epochs)
  <2>1. run[r].st = "settled"
    BY <1>3 DEF Lent, Held, RunsHold
  <2> QED BY <2>1 DEF Lent, RunsSaw
<1>7. /\ x.ph \in {"operating", "ending"} /\ x.run = None /\ x.lease = l
      /\ x.ph = "operating" => x.route = run[r].route
      /\ x.capture # None => x.capture.key = run[r].key /\ x.capture.route = run[r].route
  <2>1. CASE run[r].verdict = "allowed"
    <3>1. x = [Idle EXCEPT !.ph = "operating", !.kind = req.kind, !.active = TRUE, !.lease = l,
                           !.route = run[r].route]
      BY <1>4, <2>1 DEF Judged, Working
    <3> QED BY <3>1 DEF Idle
  <2>2. CASE run[r].verdict # "allowed"
    <3>1. PICK p : p = [key |-> run[r].key, route |-> run[r].route]
      OBVIOUS
    <3>2. x = [caller[c] EXCEPT !.lease = l, !.ph = "ending", !.out = "blocked", !.capture = p]
      BY <1>1, <1>2, <1>4, <2>2, <3>1 DEF Judged, CallerRecord
    <3>3. x.ph = "ending" /\ x.run = None /\ x.lease = l /\ x.capture = p
      BY <1>1, <3>2 DEF CallerRecord
    <3> QED BY <3>1, <3>3
  <2> QED BY <2>1, <2>2
<1>8. CallerSaw(x, nested[c], scope, electron, epochs)
    BY <1>1, <1>3, <1>6, <1>7 DEF CallerSaw
<1> QED BY <1>3, <1>4, <1>7, <1>8, TakesLent

(* ... and when the user does without one. *)
LEMMA GoesOnLent ==
    ASSUME TypesAre, TypesAre', Lent, ProxyRests, nested' = nested, NEW c \in Callers, NEW l,
           caller[c].ph = "queued", Fresh(l), Grantable(l), GoesOn(c, l)
    PROVE  Lent'
<1>1. /\ caller[c] \in CallerRecord /\ nested[c].ph = "none" /\ Fits(caller[c], nested[c])
    BY QueuedHasNothing DEF TypesAre
<1>2. PICK x : x = [Idle EXCEPT !.ph = "operating", !.kind = "bypass", !.active = TRUE,
                                !.lease = l, !.route = caller[c].capture.route]
    OBVIOUS
<1>3. /\ x.ph = "operating" /\ x.run = None /\ x.lease = l /\ x.capture = None
      /\ x.route = caller[c].capture.route
    BY <1>2 DEF Idle
<1>4. caller[c].kind = "bypass" /\ caller[c].capture.key = l.epochs /\ Goes(c, x)
      /\ Becomes(run, leases \cup {l})
    BY <1>2 DEF GoesOn
<1>5. caller[c].capture # None
    BY <1>1, <1>4 DEF Fits
<1>6. Seen(l.epochs, x.route, scope, electron, epochs)
  <2>1. CallerSaw(caller[c], nested[c], scope, electron, epochs)
    BY DEF Lent, CallersSaw
  <2> QED BY <1>3, <1>4, <1>5, <2>1 DEF CallerSaw
<1>7. CallerSaw(x, nested[c], scope, electron, epochs)
    BY <1>1, <1>3, <1>6 DEF CallerSaw
<1> QED BY <1>3, <1>4, <1>7, TakesLent

(* A caller begins a check, to which it leaves its lease. *)
LEMMA ProbesLent ==
    ASSUME TypesAre, TypesAre', Lent, ProxyRests, nested' = nested, NEW c \in Callers,
           NEW l \in Lease,
           caller[c].ph = "queued", Fresh(l), Grantable(l), Probes(c, l)
    PROVE  Lent'
<1>0. PICK me : me = caller[c]
    OBVIOUS
<1>1. /\ me \in CallerRecord /\ nested[c].ph = "none" /\ ~Owns(me)
      /\ \A rs : ~Shares(rs, caller, c)
      /\ caller \in [Callers -> CallerRecord] /\ run \in [Runs -> SoundRun]
      /\ nested \in [Callers -> NestedRecord]
    BY <1>0, QueuedHasNothing DEF TypesAre
<1>2. PICK ps : ps = Dropped(l.epochs)
    OBVIOUS
<1>3. PICK r \in Runs :
          /\ run[r] = NoRun
          /\ me.kind = "guarded"
          /\ Goes(c, [me EXCEPT !.ph = "waiting", !.run = r, !.lease = l])
          /\ Becomes(NewRun(ps, r, l.epochs, l, {}, Top(c)), leases \cup {l})
    BY <1>0, <1>2 DEF Probes
<1>4. PICK x : x = [me EXCEPT !.ph = "waiting", !.run = r, !.lease = l]
    OBVIOUS
<1>5. x.ph = "waiting" /\ x.run = r /\ x.lease = l /\ x.kind = "guarded" /\ x.capture = me.capture
    BY <1>1, <1>3, <1>4 DEF CallerRecord
<1>6. caller'[c] = x /\ \A d \in Callers \ {c} : caller'[d] = caller[d] /\ nested'[d] = nested[d]
    BY <1>1, <1>3, <1>4 DEF Goes
<1>7. PICK ls : ls = leases \cup {l}
    OBVIOUS
<1>8. PICK rs : rs = NewRun(ps, r, l.epochs, l, {}, Top(c))
    OBVIOUS
<1>9. ps \in [Runs -> SoundRun] /\ Alike(ps, run)
    BY <1>1, <1>2, DroppedAlike
<1>10. RunsSaw(ps, scope, electron, epochs) /\ Held(ps, leases, caller, nested) /\ LeasesHold
  <2>1. \A q \in Runs : /\ ps[q].st # "none" => run[q].st # "none"
                        /\ ps[q].key = run[q].key /\ ps[q].route = run[q].route
    BY <1>9 DEF Alike
  <2>2. RunsSaw(ps, scope, electron, epochs)
    BY <2>1 DEF Lent, RunsSaw
  <2>3. Held(ps, leases, caller, nested)
    BY <1>1, <1>9, AlikeHeld DEF Lent
  <2> QED BY <2>2, <2>3 DEF Lent
<1>11. rs \in [Runs -> SoundRun] /\ Begun(rs, ps, r, l, {}, Top(c))
       /\ RunsSaw(rs, scope, electron, epochs)
  <2>1. \A s \in DOMAIN l.epochs : scope[s].epoch = l.epochs[s]
    BY DEF Grantable
  <2>2. Top(c) \in Waiter /\ {} \in SUBSET Callers
    BY Waiters
  <2> QED BY <1>8, <1>9, <1>10, <2>1, <2>2, BegunSees
<1>12. Held(rs, ls, caller, nested)
  <2>1. Held(ps, ls, caller, nested)
    BY <1>1, <1>7, <1>10, MoreLeases
  <2>2. Unowned(ps, caller, l)
    BY <1>9, FreshUnowned
  <2>3. ps[r].waiters = {}
    BY <1>3, <1>9 DEF Alike, NoRun
  <2>4. l \in ls /\ l # None
    BY <1>7, NoneIsNothing
  <2> QED BY <1>1, <1>9, <1>11, <2>1, <2>2, <2>3, <2>4, NewRunHeld
<1>13. Retained(rs, rs, c)
    BY <1>11, <1>12, WaitersRetained DEF Held
<1>14. Proper(rs, rs, ls, caller, caller', nested', c)
  <2>1. ~Owns(x)
    BY <1>5 DEF Owns
  <2>2. Top(c) \in rs[r].waiters /\ rs[r].lease = l /\ r # None
    BY <1>11, NoneIsNothing DEF Begun
  <2> QED BY <1>0, <1>1, <1>5, <1>6, <2>1, <2>2 DEF Proper
<1>15. CallerSaw(caller'[c], nested'[c], scope, electron, epochs)
  <2>1. CallerSaw(me, nested[c], scope, electron, epochs)
    BY <1>0 DEF Lent, CallersSaw
  <2> QED BY <1>1, <1>5, <1>6, <2>1 DEF CallerSaw
<1>16. \A k \in ls : k \in leases \/ Grantable(k)
    BY <1>7
<1>17. Becomes(rs, ls)
    BY <1>3, <1>7, <1>8
<1> QED BY <1>6, <1>11, <1>12, <1>13, <1>14, <1>15, <1>16, <1>17, LentMoves

(* A caller begins a forced check, which borrows its lease. *)
LEMMA ForcesLent ==
    ASSUME TypesAre, TypesAre', Lent, ProxyRests, nested' = nested, NEW c \in Callers,
           NEW l \in Lease,
           caller[c].ph = "queued", Fresh(l), Grantable(l), Forces(c, l)
    PROVE  Lent'
<1>0. PICK me : me = caller[c]
    OBVIOUS
<1>1. /\ me \in CallerRecord /\ nested[c].ph = "none" /\ ~Owns(me)
      /\ \A rs : ~Shares(rs, caller, c)
      /\ caller \in [Callers -> CallerRecord] /\ run \in [Runs -> SoundRun]
      /\ caller' \in [Callers -> CallerRecord]
      /\ nested \in [Callers -> NestedRecord]
    BY <1>0, QueuedHasNothing DEF TypesAre
<1>2. PICK ps : ps = Superseding(run, l.epochs)
    OBVIOUS
<1>3. PICK r \in Runs :
          /\ run[r] = NoRun
          /\ me.kind = "recheck"
          /\ Goes(c, [me EXCEPT !.ph = "waiting", !.run = r, !.lease = l, !.capture = None])
          /\ Becomes(NewRun(ps, r, l.epochs, l, {c}, Top(c)), leases \cup {l})
    BY <1>0, <1>2 DEF Forces
<1>4. PICK x : x = [me EXCEPT !.ph = "waiting", !.run = r, !.lease = l, !.capture = None]
    OBVIOUS
<1>5. x.ph = "waiting" /\ x.run = r /\ x.lease = l /\ x.kind = "recheck" /\ x.capture = None
    BY <1>1, <1>3, <1>4 DEF CallerRecord
<1>6. caller'[c] = x /\ \A d \in Callers \ {c} : caller'[d] = caller[d] /\ nested'[d] = nested[d]
    BY <1>1, <1>3, <1>4 DEF Goes
<1>7. PICK ls : ls = leases \cup {l}
    OBVIOUS
<1>8. PICK rs : rs = NewRun(ps, r, l.epochs, l, {c}, Top(c))
    OBVIOUS
<1>9. ps \in [Runs -> SoundRun] /\ Alike(ps, run)
    BY <1>1, <1>2, RunTables, ForgottenAlike
<1>10. RunsSaw(ps, scope, electron, epochs) /\ Held(ps, leases, caller, nested) /\ LeasesHold
  <2>1. \A q \in Runs : /\ ps[q].st # "none" => run[q].st # "none"
                        /\ ps[q].key = run[q].key /\ ps[q].route = run[q].route
    BY <1>9 DEF Alike
  <2>2. RunsSaw(ps, scope, electron, epochs)
    BY <2>1 DEF Lent, RunsSaw
  <2>3. Held(ps, leases, caller, nested)
    BY <1>1, <1>9, AlikeHeld DEF Lent
  <2> QED BY <2>2, <2>3 DEF Lent
<1>11. rs \in [Runs -> SoundRun] /\ Begun(rs, ps, r, l, {c}, Top(c))
       /\ RunsSaw(rs, scope, electron, epochs)
  <2>1. \A s \in DOMAIN l.epochs : scope[s].epoch = l.epochs[s]
    BY DEF Grantable
  <2>2. Top(c) \in Waiter /\ {c} \in SUBSET Callers
    BY Waiters
  <2> QED BY <1>8, <1>9, <1>10, <2>1, <2>2, BegunSees
\* Between: the caller owns the lease and does not wait yet.
<1>12. PICK y : y = [Idle EXCEPT !.ph = "ending", !.kind = "recheck", !.lease = l]
    OBVIOUS
<1>13. y \in CallerRecord /\ y.ph = "ending" /\ y.kind = "recheck" /\ y.lease = l /\ y.run = None
       /\ Owns(y)
    BY <1>12 DEF Idle, CallerRecord, Owns
<1>14. PICK cs : cs = [caller EXCEPT ![c] = y]
    OBVIOUS
<1>15. cs \in [Callers -> CallerRecord] /\ cs[c] = y /\ \A d \in Callers \ {c} : cs[d] = caller[d]
    BY <1>1, <1>13, <1>14
<1>16. Held(ps, ls, caller, nested) /\ l \in ls /\ l # None
    BY <1>1, <1>7, <1>10, MoreLeases, NoneIsNothing
<1>17. Held(ps, ls, cs, nested)
  <2>1. Retained(ps, ps, c)
    BY <1>9, <1>16, WaitersRetained DEF Held
  <2>2. Unowned(ps, caller, l)
    BY <1>9, FreshUnowned
  <2>3. Proper(ps, ps, ls, caller, cs, nested, c)
    BY <1>0, <1>1, <1>13, <1>15, <1>16, <2>2 DEF Proper
  <2> QED BY <1>1, <1>9, <1>15, <1>16, <2>1, <2>3, Moves
<1>18. Held(rs, ls, cs, nested)
  <2>1. ps[r].waiters = {}
    BY <1>3, <1>9 DEF Alike, NoRun
  <2> QED BY <1>1, <1>9, <1>11, <1>13, <1>15, <1>16, <1>17, <2>1, NewRunHeld
<1>19. Held(rs, ls, caller', nested')
  <2>1. Retained(rs, rs, c)
    BY <1>11, <1>18, WaitersRetained DEF Held
  <2>2. Top(c) \in rs[r].waiters /\ rs[r].lease = l /\ r # None
    BY <1>11, NoneIsNothing DEF Begun
  <2>3. Owns(x) /\ ~Shares(rs, cs, c)
    BY <1>5, <1>13, <1>15 DEF Owns, Shares
  <2>4. Proper(rs, rs, ls, cs, caller', nested', c)
    BY <1>1, <1>5, <1>6, <1>13, <1>15, <1>16, <2>2, <2>3 DEF Proper
  <2> QED BY <1>1, <1>6, <1>11, <1>15, <1>18, <2>1, <2>4, Moves
<1>20. CallersSaw(caller', nested', scope, electron, epochs)
  <2>1. CallerSaw(caller'[c], nested'[c], scope, electron, epochs)
    BY <1>1, <1>5, <1>6 DEF CallerSaw
  <2> QED BY <1>6, <2>1 DEF Lent, CallersSaw
<1>21. \A k \in ls : k \in leases \/ Grantable(k)
    BY <1>7
<1>22. Becomes(rs, ls)
    BY <1>3, <1>7, <1>8
<1> QED BY <1>11, <1>19, <1>20, <1>21, <1>22, LentBecomes

(* Whatever a grant leads to. *)
LEMMA GrantedLent ==
    ASSUME TypesAre, TypesAre', Lent, Granted
    PROVE  Lent'
<1>0. PICK c : c = Head(queue).who
    OBVIOUS
<1>1. /\ ProxyRests /\ nested' = nested /\ work = None /\ queue # <<>>
      /\ Head(queue) \in Item /\ Head(queue).kind = "acquire"
      /\ \/ UNCHANGED <<caller, leases, run>>
         \/ /\ Goes(c, Idle) /\ UNCHANGED <<leases, run>>
            /\ ~Head(queue).abandoned
         \/ \E l \in Lease :
               /\ Fresh(l) /\ ~Head(queue).abandoned
               /\ l.epochs = EpochsOf(Needs[c])
               /\ \A s \in Needs[c] : Stable(s)
               /\ Grants(c, l)
    BY <1>0, GrantedIs
<1>2. c \in Callers
    BY <1>0, <1>1 DEF Item
<1>3. ASSUME ~Head(queue).abandoned PROVE caller[c].ph = "queued"
  <2>1. queue \in Seq(Item) /\ Order(queue, caller)
    BY DEF TypesAre
  <2>2. Wanted(Head(queue)) /\ Head(queue) = queue[1] /\ 1 \in 1 .. Len(queue)
    BY <1>1, <1>3, <2>1, QueueShrinks DEF Wanted
  <2> QED BY <1>0, <2>1, <2>2 DEF Order
<1>4. CASE UNCHANGED <<caller, leases, run>>
  <2>1. LeasesHold'
    BY <1>1, <1>4, LeasesStillHold DEF Lent
  <2> QED BY <1>1, <1>4, <2>1 DEF Lent, ProxyRests
<1>5. CASE Goes(c, Idle) /\ UNCHANGED <<leases, run>> /\ ~Head(queue).abandoned
  <2>1. Idle.ph = "idle" /\ Idle.capture = None
    BY DEF Idle
  <2> QED BY <1>1, <1>2, <1>3, <1>5, <2>1, RestsLent
<1>6. ASSUME NEW l \in Lease, Fresh(l), ~Head(queue).abandoned,
             l.epochs = EpochsOf(Needs[c]), \A s \in Needs[c] : Stable(s), Grants(c, l)
      PROVE  Lent'
  <2>1. Grantable(l)
    BY <1>1, <1>6 DEF Grantable, EpochsOf
  <2>2. CASE TurnedAway(c)
    <3>1. Goes(c, Idle) /\ Becomes(run, leases)
      BY <2>2 DEF TurnedAway
    <3>2. /\ nested[c].ph = "none" /\ ~Owns(caller[c])
          /\ caller \in [Callers -> CallerRecord] /\ run \in [Runs -> SoundRun]
      BY <1>2, <1>3, <1>6, QueuedHasNothing DEF TypesAre
    <3>3. PICK x : x = Idle
      OBVIOUS
    <3>4. x.ph = "idle" /\ x.capture = None
      BY <3>3 DEF Idle
    <3>5. caller'[c] = x
          /\ \A d \in Callers \ {c} : caller'[d] = caller[d] /\ nested'[d] = nested[d]
      BY <1>1, <1>2, <3>1, <3>2, <3>3 DEF Goes
    <3>6. Proper(run, run, leases, caller, caller', nested', c)
      BY <1>1, <1>3, <1>6, <3>2, <3>4, <3>5, RestsProper
    <3>7. CallerSaw(caller'[c], nested'[c], scope, electron, epochs)
      BY <1>1, <3>2, <3>4, <3>5 DEF CallerSaw
    <3>8. RunsHold(run, leases) /\ RunsSaw(run, scope, electron, epochs)
          /\ Held(run, leases, caller, nested)
      BY DEF Lent, Held
    <3>9. Retained(run, run, c)
      BY <1>2, <3>2, <3>8, WaitersRetained
    <3> QED BY <1>1, <1>2, <3>1, <3>2, <3>5, <3>6, <3>7, <3>8, <3>9, LentMoves
  <2> QED BY <1>1, <1>2, <1>3, <1>6, <2>1, <2>2, JoinsLent, ReusesLent, ProbesLent, ForcesLent,
             GoesOnLent DEF Grants
<1> QED BY <1>1, <1>4, <1>5, <1>6

-----------------------------------------------------------------------------
(* Nested operations come and go.                                          *)

(* An operation has its lease or its share. *)
LEMMA OperatingHas ==
    ASSUME TypesAre, Lent, NEW c \in Callers, caller[c].ph = "operating"
    PROVE  Owns(caller[c]) \/ Shares(run, caller, c)
<1>1. CASE caller[c].run = None \/ caller[c].kind = "recheck"
    BY <1>1 DEF Owns
<1>2. CASE caller[c].run # None /\ caller[c].kind # "recheck"
    BY <1>2, Waits DEF Shares
<1> QED BY <1>1, <1>2

(* What a caller has is left to it when something nested goes on. *)
LEMMA NestedProper ==
    ASSUME NEW ps, NEW rs, NEW ls, NEW cs \in [Callers -> CallerRecord], NEW ms, NEW c \in Callers,
           CallersHold(ps, ls, cs), Retained(rs, ps, c),
           \A r \in Runs : Top(c) \in ps[r].waiters => Top(c) \in rs[r].waiters,
           ms[c].ph # "none" => Owns(cs[c]) \/ Shares(ps, cs, c),
           ms[c].ph = "waiting" =>
              /\ ms[c].run # None
              /\ Inner(c) \in rs[ms[c].run].waiters
              /\ rs[ms[c].run].key = cs[c].lease.epochs
    PROVE  Proper(rs, ps, ls, cs, cs, ms, c)
<1>1. cs[c].run # None => cs[c].run \in Runs
    BY DEF CallerRecord
<1>2. \A r \in Runs : rs[r].lease = ps[r].lease
    BY DEF Retained
<1>3. Owns(cs[c]) => cs[c].lease \in ls
    BY DEF CallersHold
<1>4. cs[c].ph = "waiting" \/ (cs[c].ph = "operating" /\ cs[c].run # None) =>
          /\ cs[c].run # None
          /\ Top(c) \in rs[cs[c].run].waiters
          /\ cs[c].lease = rs[cs[c].run].lease
    BY <1>1, <1>2 DEF CallersHold
<1>5. Shares(ps, cs, c) => Shares(rs, cs, c)
    BY <1>1, <1>2 DEF Shares
<1> QED BY <1>3, <1>4, <1>5 DEF Proper

(* Something nested goes on, *)
LEMMA NestedGoesLent ==
    ASSUME TypesAre, TypesAre', Lent, ProxyRests, caller' = caller, NEW c \in Callers,
           NEW n, NestedGoes(c, n),
           NEW ps \in [Runs -> SoundRun], NEW rs \in [Runs -> SoundRun],
           \/ Becomes(rs, leases)
           \/ UNCHANGED <<run, leases>> /\ rs = run /\ ps = run,
           Held(ps, leases, caller, nested), Retained(rs, ps, c),
           RunsSaw(rs, scope, electron, epochs),
           \A r \in Runs : Top(c) \in ps[r].waiters => Top(c) \in rs[r].waiters,
           n.ph # "none" => Owns(caller[c]) \/ Shares(ps, caller, c),
           n.ph = "waiting" =>
              /\ n.run # None
              /\ Inner(c) \in rs[n.run].waiters
              /\ rs[n.run].key = caller[c].lease.epochs,
           n.ph = "operating" => Seen(caller[c].lease.epochs, n.route, scope, electron, epochs)
    PROVE  Lent'
<1>1. caller \in [Callers -> CallerRecord] /\ nested \in [Callers -> NestedRecord]
    BY DEF TypesAre
<1>2. nested'[c] = n /\ \A d \in Callers \ {c} : caller'[d] = caller[d] /\ nested'[d] = nested[d]
    BY <1>1 DEF NestedGoes
<1>3. CallersHold(ps, leases, caller)
    BY DEF Held
<1>4. Proper(rs, ps, leases, caller, caller, nested', c)
    BY <1>1, <1>2, <1>3, NestedProper
<1>5. CallerSaw(caller'[c], nested'[c], scope, electron, epochs)
  <2>1. CallerSaw(caller[c], nested[c], scope, electron, epochs)
    BY DEF Lent, CallersSaw
  <2> QED BY <1>2, <2>1 DEF CallerSaw
<1>6. Proper(rs, ps, leases, caller, caller', nested', c)
    BY <1>4
<1>7. CASE Becomes(rs, leases)
    BY <1>2, <1>5, <1>6, <1>7, LentMoves
<1>8. CASE UNCHANGED <<run, leases>> /\ rs = run /\ ps = run
    BY <1>2, <1>5, <1>6, <1>8, LentStays
<1> QED BY <1>7, <1>8

(* ... begins *)
LEMMA NestedRequestLent ==
    ASSUME TypesAre, TypesAre', Lent, NEW c \in Callers, NestedRequest(c)
    PROVE  Lent'
<1>0. PICK l : l = caller[c].lease
    OBVIOUS
<1>1. /\ ProxyRests /\ caller' = caller
      /\ caller[c].active /\ nested[c].ph = "none" /\ LeaseCurrent(l)
      /\ \/ NestedJoins(c) \/ NestedReuses(c) \/ NestedProbes(c)
         \/ NestedGoes(c, NotNested) /\ UNCHANGED <<run, leases>>
    BY <1>0, NestedRequestIs
<1>2. /\ caller \in [Callers -> CallerRecord] /\ run \in [Runs -> SoundRun]
      /\ nested \in [Callers -> NestedRecord] /\ leases \in SUBSET Lease
      /\ Fits(caller[c], nested[c])
    BY DEF TypesAre
<1>3. Owns(caller[c]) \/ Shares(run, caller, c)
  <2>1. caller[c].ph = "operating"
    BY <1>1, <1>2 DEF Fits
  <2> QED BY <2>1, OperatingHas
<1>4. /\ RunsHold(run, leases) /\ RunsSaw(run, scope, electron, epochs)
      /\ Held(run, leases, caller, nested) /\ LeasesHold
    BY DEF Lent, Held
<1>5. Retained(run, run, c)
    BY <1>2, <1>4, WaitersRetained
<1>6. ASSUME NEW r
      PROVE  NestedWaiting(r).ph = "waiting" /\ NestedWaiting(r).run = r
    BY DEF NestedWaiting, NotNested
<1>7. CASE NestedJoins(c)
  <2>1. PICK r \in Runs :
          /\ run[r].shared /\ run[r].key = l.epochs
          /\ NestedGoes(c, NestedWaiting(r))
          /\ Becomes([run EXCEPT ![r].waiters = @ \cup {Inner(c)}], leases)
    BY <1>0, <1>7 DEF NestedJoins
  <2>2. PICK n : n = NestedWaiting(r)
    OBVIOUS
  <2>3. PICK rs : rs = [run EXCEPT ![r].waiters = @ \cup {Inner(c)}]
    OBVIOUS
  <2>4. n.ph = "waiting" /\ n.run = r /\ r # None
    BY <1>6, <2>2, NoneIsNothing
  <2>5. run[r].lease # None
    BY <1>4, <2>1 DEF RunsHold
  <2>6. rs \in [Runs -> SoundRun] /\ Retained(rs, run, c)
    BY <1>2, <1>4, <2>3, <2>5, WaitersRetained, RunTables, Waiters
  <2>7. /\ Inner(c) \in rs[r].waiters /\ rs[r].key = run[r].key
        /\ \A q \in Runs : Top(c) \in run[q].waiters => Top(c) \in rs[q].waiters
    <3>1. run[r] \in SoundRun
      BY <1>2
    <3>2. rs[r] = [run[r] EXCEPT !.waiters = @ \cup {Inner(c)}]
          /\ \A q \in Runs \ {r} : rs[q] = run[q]
      BY <1>2, <2>3
    <3>3. rs[r].waiters = run[r].waiters \cup {Inner(c)} /\ rs[r].key = run[r].key
      BY <3>1, <3>2 DEF SoundRun, RunRecord
    <3> QED BY <3>2, <3>3
  <2>8. RunsSaw(rs, scope, electron, epochs)
    BY <1>4, <2>6, RetainedSaw
  <2>9. Becomes(rs, leases) /\ NestedGoes(c, n)
    BY <2>1, <2>2, <2>3
  <2> QED BY <1>0, <1>1, <1>2, <1>3, <1>4, <2>1, <2>4, <2>6, <2>7, <2>8, <2>9, NestedGoesLent
<1>8. CASE NestedReuses(c)
  <2>1. PICK r \in Runs :
          /\ run[r].cached /\ run[r].key = l.epochs
          /\ NestedGoes(c, [ph |-> "operating", run |-> None, route |-> run[r].route])
    BY <1>0, <1>8 DEF NestedReuses
  <2>2. PICK n : n = [ph |-> "operating", run |-> None, route |-> run[r].route]
    OBVIOUS
  <2>3. n.ph = "operating" /\ n.route = run[r].route
    BY <2>2
  <2>4. Seen(run[r].key, run[r].route, scope, electron, epochs)
    <3>1. run[r].st = "settled"
      BY <1>4, <2>1 DEF RunsHold
    <3> QED BY <1>4, <3>1 DEF RunsSaw
  <2>5. UNCHANGED <<run, leases>> /\ NestedGoes(c, n)
    BY <1>8, <2>1, <2>2 DEF NestedReuses
  <2> QED BY <1>0, <1>1, <1>2, <1>3, <1>4, <1>5, <2>1, <2>3, <2>4, <2>5, NestedGoesLent
<1>9. CASE NestedProbes(c)
  <2>1. PICK r \in Runs :
          /\ run[r] = NoRun
          /\ NestedGoes(c, NestedWaiting(r))
          /\ Becomes(NewRun(run, r, l.epochs, l, {c}, Inner(c)), leases)
    BY <1>0, <1>9 DEF NestedProbes
  <2>2. PICK n : n = NestedWaiting(r)
    OBVIOUS
  <2>3. PICK rs : rs = NewRun(run, r, l.epochs, l, {c}, Inner(c))
    OBVIOUS
  <2>4. n.ph = "waiting" /\ n.run = r /\ r # None
    BY <1>6, <2>2, NoneIsNothing
  <2>5. l \in leases /\ l \in Lease /\ l # None
        /\ \A s \in DOMAIN l.epochs : scope[s].epoch = l.epochs[s]
    BY <1>1, <1>2, NoneIsNothing DEF LeaseCurrent
  <2>6. rs \in [Runs -> SoundRun] /\ Begun(rs, run, r, l, {c}, Inner(c))
        /\ RunsSaw(rs, scope, electron, epochs)
    <3>1. Inner(c) \in Waiter /\ {c} \in SUBSET Callers
      BY Waiters
    <3> QED BY <1>2, <1>4, <2>3, <2>5, <3>1, BegunSees
  <2>7. run[r].waiters = {}
    BY <2>1 DEF NoRun
  <2>8. Held(rs, leases, caller, nested)
    <3>1. \E d \in Callers : /\ {c} = {d} /\ caller[d].lease = l
                             /\ Owns(caller[d]) \/ Shares(run, caller, d)
      BY <1>0, <1>3
    <3> QED BY <1>2, <1>4, <2>5, <2>6, <2>7, <3>1, NewRunHeld
  <2>9. Retained(rs, rs, c)
    BY <2>6, <2>8, WaitersRetained DEF Held
  <2>10. Owns(caller[c]) \/ Shares(rs, caller, c)
    <3>1. ASSUME Shares(run, caller, c) PROVE Shares(rs, caller, c)
      <4>1. caller[c].run \in Runs /\ Top(c) \in run[caller[c].run].waiters
        BY <1>2, <3>1 DEF Shares, CallerRecord
      <4>2. caller[c].run # r
        BY <2>7, <4>1
      <4> QED BY <2>6, <3>1, <4>1, <4>2 DEF Shares, Begun
    <3> QED BY <1>3, <3>1
  <2>11. Inner(c) \in rs[r].waiters /\ rs[r].key = l.epochs
    BY <2>6 DEF Begun
  <2>12. Becomes(rs, leases) /\ NestedGoes(c, n)
    BY <2>1, <2>2, <2>3
  <2> QED BY <1>0, <1>1, <2>4, <2>6, <2>8, <2>9, <2>10, <2>11, <2>12, NestedGoesLent
<1>10. CASE NestedGoes(c, NotNested) /\ UNCHANGED <<run, leases>>
  <2>1. NotNested.ph = "none"
    BY DEF NotNested
  <2> QED BY <1>1, <1>2, <1>4, <1>5, <1>10, <2>1, NestedGoesLent
<1> QED BY <1>1, <1>7, <1>8, <1>9, <1>10

(* ... and ends. *)
LEMMA NestedStepsLent ==
    ASSUME TypesAre, TypesAre', Lent, NEW c \in Callers, NestedResumes(c) \/ NestedEnds(c)
    PROVE  Lent'
<1>0. PICK r : r = nested[c].run
    OBVIOUS
<1>1. /\ ProxyRests /\ caller' = caller
      /\ NestedEnters(c) \/ NestedLeaves(c)
    BY NestedStepsAre
<1>2. /\ caller \in [Callers -> CallerRecord] /\ run \in [Runs -> SoundRun]
      /\ nested \in [Callers -> NestedRecord] /\ nested[c] \in NestedRecord
    BY DEF TypesAre
<1>3. /\ RunsHold(run, leases) /\ RunsSaw(run, scope, electron, epochs)
      /\ Held(run, leases, caller, nested) /\ NestedHold(run, caller, nested)
    BY DEF Lent, Held
<1>4. Retained(run, run, c)
    BY <1>2, <1>3, WaitersRetained
<1>5. CASE NestedEnters(c)
  <2>1. /\ nested[c].ph = "waiting" /\ run[r].st = "settled"
        /\ NestedGoes(c, [ph |-> "operating", run |-> r, route |-> run[r].route])
        /\ Becomes(run, leases)
    BY <1>0, <1>5 DEF NestedEnters
  <2>2. PICK n : n = [ph |-> "operating", run |-> r, route |-> run[r].route]
    OBVIOUS
  <2>3. n.ph = "operating" /\ n.route = run[r].route /\ NestedGoes(c, n)
    BY <2>1, <2>2
  <2>4. /\ Owns(caller[c]) \/ Shares(run, caller, c)
        /\ r # None /\ run[r].key = caller[c].lease.epochs
    BY <1>0, <1>3, <2>1 DEF NestedHold
  <2>5. r \in Runs
    BY <1>0, <1>2, <2>4 DEF NestedRecord
  <2>6. Seen(run[r].key, run[r].route, scope, electron, epochs)
    BY <1>3, <2>1, <2>5 DEF RunsSaw
  <2> QED BY <1>1, <1>2, <1>3, <1>4, <2>1, <2>3, <2>4, <2>6, NestedGoesLent
<1>6. CASE NestedLeaves(c)
  <2>1. NestedGoes(c, NotNested) /\ NotNested.ph = "none"
    BY <1>6 DEF NestedLeaves, NotNested
  <2>2. CASE r = None
    <3>1. UNCHANGED <<run, leases>>
      BY <1>0, <1>6, <2>2 DEF NestedLeaves
    <3> QED BY <1>1, <1>2, <1>3, <1>4, <2>1, <3>1, NestedGoesLent
  <2>3. CASE r # None
    <3>1. PICK rs : rs = Without(run, r, Inner(c))
      OBVIOUS
    <3>2. Becomes(rs, leases) /\ r \in Runs
      BY <1>0, <1>2, <1>6, <2>3, <3>1 DEF NestedLeaves, NestedRecord
    <3>3. rs \in [Runs -> SoundRun] /\ Retained(rs, run, c)
      BY <1>2, <1>3, <3>1, <3>2, WaitersRetained, RunTables, Waiters
    <3>4. \A q \in Runs : Top(c) \in run[q].waiters => Top(c) \in rs[q].waiters
      <4>1. run[r] \in SoundRun
        BY <1>2, <3>2
      <4>2. rs[r] = [run[r] EXCEPT !.waiters = @ \ {Inner(c)}]
            /\ \A q \in Runs \ {r} : rs[q] = run[q]
        BY <1>2, <3>1, <3>2 DEF Without
      <4>3. rs[r].waiters = run[r].waiters \ {Inner(c)} /\ Top(c) # Inner(c)
        BY <4>1, <4>2, Waiters DEF SoundRun, RunRecord
      <4> QED BY <4>2, <4>3
    <3>5. RunsSaw(rs, scope, electron, epochs)
      BY <1>3, <3>3, RetainedSaw
    <3> QED BY <1>1, <1>2, <1>3, <2>1, <3>2, <3>3, <3>4, <3>5, NestedGoesLent
  <2> QED BY <2>2, <2>3
<1> QED BY <1>1, <1>5, <1>6

-----------------------------------------------------------------------------
(* Saves and the reconciliation: nobody works through anything meanwhile.  *)

(* Who operates, or has something nested, has a lease. *)
LEMMA SomebodyHasLease ==
    ASSUME TypesAre, Lent, NEW c \in Callers,
           caller[c].ph = "operating" \/ nested[c].ph = "operating"
    PROVE  caller[c].lease \in leases
<1>1. caller[c] \in CallerRecord /\ run \in [Runs -> SoundRun]
    BY DEF TypesAre
<1>2. Owns(caller[c]) \/ Shares(run, caller, c)
    BY OperatingHas DEF Lent, Held, NestedHold
<1>3. Owns(caller[c]) => caller[c].lease \in leases
    BY DEF Lent, Held, CallersHold
<1>4. ASSUME Shares(run, caller, c) PROVE caller[c].lease \in leases
  <2>1. /\ caller[c].run # None /\ Top(c) \in run[caller[c].run].waiters
        /\ caller[c].lease = run[caller[c].run].lease
    BY <1>4 DEF Shares
  <2>2. caller[c].run \in Runs
    BY <1>1, <2>1 DEF CallerRecord
  <2>3. run[caller[c].run].lease # None
    BY <2>1, <2>2 DEF Lent, Held, RunsHold
  <2> QED BY <2>1, <2>2, <2>3 DEF Lent, Held, RunsHold
<1> QED BY <1>2, <1>3, <1>4

(* Epochs are drawn in order. *)
LEMMA EpochsDrawn ==
    ASSUME TypesAre, LeasesHold, ProxyPublishes
    PROVE  leases = {} /\ leases' = {} /\ \A s \in Scopes : scope'[s].epoch <= epochs'
<1>1. leases = {} /\ leases' = {}
    BY DEF LeasesHold, ProxyPublishes, ApplyBegins, Applied, ApplyFails
<1>2. scope \in [Scopes -> ScopeRecord] /\ epochs \in Nat
    BY DEF TypesAre, ProxyTypes
<1>3. ASSUME NEW s \in Scopes PROVE scope'[s].epoch <= epochs'
  <2>1. scope[s].epoch <= epochs /\ scope[s].epoch \in Nat /\ scope[s] \in ScopeRecord
    BY <1>2 DEF LeasesHold, ScopeRecord
  <2> DEFINE h == Head(work.todo)
  <2>2. CASE ApplyBegins
    <3>1. epochs' = epochs
          /\ scope' = [scope EXCEPT ![h].credentials = IF SessionChanges(h) THEN None ELSE @,
                                    ![h].health = "unknown"]
      BY <2>2 DEF ApplyBegins
    <3>2. scope'[s].epoch = scope[s].epoch
      BY <1>2, <2>1, <3>1 DEF ScopeRecord
    <3> QED BY <2>1, <3>1, <3>2
  <2>3. CASE Applied
    <3>1. epochs' = epochs + 1
          /\ scope' = [scope EXCEPT ![h] =
                [health |-> "stable", epoch |-> epochs + 1,
                 effective |-> Effective[work.to][h], session |-> Route[work.to][h],
                 credentials |-> IF @.credentials = None THEN work.to ELSE @.credentials]]
      BY <2>3 DEF Applied
    <3>2. scope'[s].epoch = epochs + 1 \/ scope'[s] = scope[s]
      <4>1. CASE s = h
        BY <1>2, <3>1, <4>1
      <4>2. CASE s # h
        BY <1>2, <3>1, <4>2
      <4> QED BY <4>1, <4>2
    <3> QED BY <1>2, <2>1, <3>1, <3>2
  <2>4. CASE ApplyFails
    <3>1. epochs' = epochs /\ scope' = [scope EXCEPT ![h] = Unknown]
      BY <2>4 DEF ApplyFails
    <3>2. scope'[s] = Unknown \/ scope'[s] = scope[s]
      BY <1>2, <3>1
    <3>3. Unknown.epoch = 0
      BY DEF Unknown
    <3> QED BY <1>2, <2>1, <3>1, <3>2, <3>3
  <2> QED BY <2>2, <2>3, <2>4 DEF ProxyPublishes
<1> QED BY <1>1, <1>3

(* A transition makes every verdict obsolete, *)
LEMMA PublishesLent ==
    ASSUME TypesAre, TypesAre', Lent, ProxyPublishes,
           run' = [r \in Runs |-> Tidied(Invalidated(run), r)], UNCHANGED <<caller, nested>>
    PROVE  Lent'
<1>1. /\ run \in [Runs -> SoundRun] /\ run' \in [Runs -> SoundRun]
      /\ caller \in [Callers -> CallerRecord] /\ nested \in [Callers -> NestedRecord]
    BY DEF TypesAre
<1>2. leases = {} /\ leases' = {} /\ (\A s \in Scopes : scope'[s].epoch <= epochs') /\ LeasesHold
    BY EpochsDrawn DEF Lent
<1>3. LeasesHold'
    BY <1>2 DEF LeasesHold
<1>4. PICK rs : rs = Invalidated(run)
    OBVIOUS
<1>5. rs \in [Runs -> SoundRun] /\ Alike(rs, run)
    BY <1>1, <1>4, RunTables, ForgottenAlike
<1>6. Becomes(rs, leases)
    BY <1>2, <1>4 DEF Becomes
<1>7. Held(run', leases', caller, nested) /\ Tidy(run')
  <2>1. Held(rs, leases, caller, nested)
    BY <1>1, <1>5, AlikeHeld DEF Lent
  <2> QED BY <1>1, <1>5, <1>6, <2>1, BecomesHeld
<1>8. RunsSaw(run', scope', electron', epochs')
  <2>1. \A r \in Runs : /\ rs[r].st # "none" => run[r].st # "none"
                        /\ rs[r].key = run[r].key /\ rs[r].route = run[r].route
    BY <1>5 DEF Alike
  <2>2. RunsSaw(rs, scope, electron, epochs)
    BY <2>1 DEF Lent, RunsSaw
  <2>3. RunsSaw(run', scope, electron, epochs)
    BY <1>5, <1>6, <2>2, RunsStillSaw
  <2>4. ASSUME NEW r \in Runs, run'[r].st # "none"
        PROVE  Seen(run'[r].key, run'[r].route, scope', electron', epochs')
    <3>1. run'[r] \in SoundRun
      BY <1>1
    <3>2. PICK key, route : key = run'[r].key /\ route = run'[r].route
      OBVIOUS
    <3>3. key \in Key
      BY <2>4, <3>1, <3>2 DEF SoundRun, RunRecord
    <3>4. Seen(key, route, scope, electron, epochs)
      BY <2>3, <2>4, <3>2 DEF RunsSaw
    <3> QED BY <1>2, <3>2, <3>3, <3>4, SeenUntilThen
  <2> QED BY <2>4 DEF RunsSaw
<1>9. CallersSaw(caller', nested', scope', electron', epochs')
  <2>1. ASSUME NEW c \in Callers
        PROVE  CallerSaw(caller[c], nested[c], scope', electron', epochs')
    <3>1. caller[c].ph # "operating" /\ nested[c].ph # "operating"
      BY <1>2, SomebodyHasLease
    <3>2. ASSUME caller[c].capture # None
          PROVE  Seen(caller[c].capture.key, caller[c].capture.route, scope', electron', epochs')
      <4>1. caller[c].capture \in Capture
        BY <1>1, <3>2 DEF CallerRecord
      <4>2. PICK key, route : key = caller[c].capture.key /\ route = caller[c].capture.route
        OBVIOUS
      <4>3. key \in Key
        BY <4>1, <4>2 DEF Capture
      <4>4. Seen(key, route, scope, electron, epochs)
        BY <3>2, <4>2 DEF Lent, CallersSaw, CallerSaw
      <4> QED BY <1>2, <4>2, <4>3, <4>4, SeenUntilThen
    <3> QED BY <3>1, <3>2 DEF CallerSaw
  <2> QED BY <2>1 DEF CallersSaw
<1> QED BY <1>3, <1>7, <1>8, <1>9 DEF Lent

(* ... and the rest of a save leaves leases and verdicts alone. *)
LEMMA ProxyLent ==
    ASSUME TypesAre, TypesAre', Lent, ProxySteps
    PROVE  Lent'
<1>1. CASE /\ ProxyPublishes /\ run' = [r \in Runs |-> Tidied(Invalidated(run), r)]
           /\ UNCHANGED <<caller, nested, starts>>
    BY <1>1, PublishesLent
<1>2. CASE ProxyIsQuiet /\ UNCHANGED preflightVars
  <2>1. /\ UNCHANGED <<scope, electron, leases, epochs>>
        /\ work' = work \/ work # None \/ leases = {}
    BY <1>2 DEF ProxyIsQuiet, WorkBegins, Committed, CommitFails, SaveRefused, WorkEnds,
                LeasesDrained
  <2>2. LeasesHold'
    BY <2>1 DEF Lent, LeasesHold, LeaseCurrent, Stable
  <2>3. UNCHANGED <<caller, nested, run>>
    BY <1>2 DEF preflightVars
  <2> QED BY <2>1, <2>2, <2>3 DEF Lent
<1> QED BY <1>1, <1>2 DEF ProxySteps

-----------------------------------------------------------------------------
(* The route is held.                                                      *)

(* Nothing is lent at the start, *)
LEMMA LentInit ==
    ASSUME Init
    PROVE  Lent
<1>1. leases = {} /\ epochs = 0 /\ \A s \in Scopes : scope[s].epoch = 0
    BY DEF Init, ProxyInit, Unknown
<1>2. LeasesHold
    BY <1>1 DEF LeasesHold
<1>3. /\ \A r \in Runs : /\ run[r].st = "none" /\ run[r].lease = None /\ ~run[r].owned
                         /\ run[r].waiters = {} /\ ~run[r].shared /\ ~run[r].cached
      /\ \A c \in Callers : /\ caller[c].ph = "idle" /\ caller[c].capture = None
                            /\ nested[c].ph = "none"
    BY DEF Init, NoRun, Idle, NotNested
<1>4. \A c \in Callers : ~Owns(caller[c])
    BY <1>3 DEF Owns
<1>5. Held(run, leases, caller, nested)
  <2>1. RunsHold(run, leases)
    BY <1>3 DEF RunsHold
  <2>2. CallersHold(run, leases, caller) /\ NestedHold(run, caller, nested)
    BY <1>3, <1>4 DEF CallersHold, NestedHold
  <2>3. OneOwner(run, caller)
    BY <1>3, <1>4 DEF OneOwner
  <2>4. Grounded(run, caller)
    BY <1>3 DEF Grounded
  <2> QED BY <2>1, <2>2, <2>3, <2>4 DEF Held
<1>6. Tidy(run)
    BY <1>3 DEF Tidy
<1>7. RunsSaw(run, scope, electron, epochs) /\ CallersSaw(caller, nested, scope, electron, epochs)
    BY <1>3 DEF RunsSaw, CallersSaw, CallerSaw
<1> QED BY <1>2, <1>5, <1>6, <1>7 DEF Lent

(* ... and no step takes a lease from those that work under it. *)
LEMMA LentKept ==
    ASSUME TypesAre, TypesAre', Lent, [Next]_vars
    PROVE  Lent'
<1>1. CASE ProxySteps
    BY <1>1, ProxyLent
<1>2. CASE Granted
    BY <1>2, GrantedLent
<1>3. CASE Invalidate \/ \E r \in Runs : RunEnds(r)
    BY <1>3, RunEndsLent
<1>4. CASE UNCHANGED <<scope, electron, work, leases, epochs, caller, nested, run>>
  <2>1. LeasesHold'
    BY <1>4 DEF Lent, LeasesHold, LeaseCurrent, Stable
  <2> QED BY <1>4, <2>1 DEF Lent
<1>5. ASSUME NEW c \in Configs, Save(c) /\ UNCHANGED preflightVars
      PROVE  UNCHANGED <<scope, electron, work, leases, epochs, caller, nested, run>>
    BY <1>5 DEF Save, preflightVars
<1>6. ASSUME NEW c \in Callers, Request(c) \/ \E kind \in {"recheck", "bypass"} : Decide(c, kind)
      PROVE  Lent'
    BY <1>6, RequestLent
<1>7. ASSUME NEW c \in Callers, NestedRequest(c) PROVE Lent'
    BY <1>7, NestedRequestLent
<1>8. ASSUME NEW c \in Callers, NestedResumes(c) \/ NestedEnds(c) PROVE Lent'
    BY <1>8, NestedStepsLent
<1>9. ASSUME NEW c \in Callers, Abort(c) PROVE Lent'
    BY <1>9, AbortLent
<1>10. ASSUME NEW c \in Callers, Resumes(c) \/ OperationEnds(c) PROVE Lent'
  <2>1. /\ ProxyRests /\ nested' = nested
        /\ Enters(c) \/ Stops(c)
    BY <1>10, ResumesIs, OperationEndsIs
  <2> QED BY <2>1, EntersLent, StopsLent
<1>11. ASSUME NEW c \in Callers, Ends(c) PROVE Lent'
    BY <1>11, EndsLent
<1>12. UNCHANGED vars => UNCHANGED <<scope, electron, work, leases, epochs, caller, nested, run>>
    BY DEF vars, proxyVars, preflightVars
<1> QED BY <1>1, <1>2, <1>3, <1>4, <1>5, <1>6, <1>7, <1>8, <1>9, <1>10, <1>11, <1>12
        DEF Next, Steps

(* What was seen under a lease that is current is what is used. *)
LEMMA CurrentUses ==
    ASSUME Lent, NEW l \in leases, NEW route, Seen(l.epochs, route, scope, electron, epochs)
    PROVE  Uses(route)
BY DEF Lent, LeasesHold, LeaseCurrent, Stable, Seen, Uses

(* While an operation runs, by itself or nested, the sessions it works     *)
(* through use the route of its verdict, and a check under way sees one    *)
(* route, whoever holds the lease that keeps it.                           *)
THEOREM RoutesAreHeld == Spec => []RouteIsHeld
<1> DEFINE Safe == TypesAre /\ Lent
<1>1. Init => Safe
    BY TypesInit, LentInit
<1>2. Safe /\ [Next]_vars => Safe'
    BY TypesKept, LentKept
<1>3. Safe => RouteIsHeld
  <2> SUFFICES ASSUME TypesAre, Lent PROVE RouteIsHeld
    OBVIOUS
  <2>1. ASSUME NEW c \in Callers
        PROVE  /\ caller[c].ph = "operating" => Uses(caller[c].route)
               /\ nested[c].ph = "operating" => Uses(nested[c].route)
    <3>1. CallerSaw(caller[c], nested[c], scope, electron, epochs)
      BY DEF Lent, CallersSaw
    <3> QED BY <3>1, SomebodyHasLease, CurrentUses DEF CallerSaw
  <2>2. ASSUME NEW r \in Runs, run[r].st = "probing" PROVE Uses(run[r].route)
    <3>1. run[r].lease \in leases /\ run[r].key = run[r].lease.epochs
      BY <2>2 DEF Lent, Held, RunsHold
    <3>2. Seen(run[r].key, run[r].route, scope, electron, epochs)
      BY <2>2 DEF Lent, RunsSaw
    <3> QED BY <3>1, <3>2, CurrentUses
  <2> QED BY <2>1, <2>2 DEF RouteIsHeld
<1> QED BY <1>1, <1>2, <1>3, PTL DEF Spec

=============================================================================
