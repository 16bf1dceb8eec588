----------------------- MODULE DevelopmentSessionProof -----------------------
(***************************************************************************)
(* Safety of the development sessions of one directory, for every set of   *)
(* sessions, switches, engines and profiles, and every bound on launches.  *)
(***************************************************************************)
EXTENDS DevelopmentSession, TLAPS

(* TransactionIsAlone is not inductive.  It needs the shape of the queue:  *)
(* nobody is in it twice, and it holds exactly the sessions whose operation*)
(* runs a transaction or waits to ...                                      *)
Line ==
  /\ \A i, j \in 1 .. Len(queue) : queue[i] = queue[j] => i = j
  /\ \A s \in Session : Reserved(s) <=> phase[s] \in {"queued"} \cup InTransaction

(* ... the session at its head is the one whose transaction is active, and *)
(* the snapshot lives no longer than the transaction ...                   *)
HeadIsActive ==
  /\ isolated <=> activeConfig # None
  /\ activeConfig # None => queue # <<>> /\ Head(queue) = activeConfig
  /\ activeConfig = None => snapshot = None
  /\ \A s \in Session : phase[s] \in InTransaction <=> activeConfig = s
  /\ \A s \in Session : phase[s] \in InTransaction \ {"isolating"} => snapshot # None

(* ... no switch is reserved beside it ...                                 *)
SwitchIsAlone == current # None => queue = <<>>

(* ... a session that was dropped never returns to the workspace, so that  *)
(* its operation, if it still unwinds, cannot become a sibling ...         *)
NeverReopened == \A s \in Session :
  /\ s \in open => pty[s] # 0
  /\ Busy(s) => pty[s] # 0

(* ... and what the transaction that isolates itself still waits for.      *)
SiblingsUnwind ==
  \A s \in Session : phase[s] = "isolating" =>
    \A r \in open \ {s} : \/ phase[r] \in {"idle", "queued"}
                          \/ r \in awaited[<<"config", s>>]

(* The same of the newest switch, up to its clean-up.                      *)
SwitchUnwinds ==
  \A i \in Switch : current = i =>
    /\ switch[i].step = "invalidating" =>
         \A s \in open : Busy(s) => s \in awaited[i]
    /\ switch[i].step = "cleaning" => \A s \in open : ~Busy(s)

(* An operation that works has read the profile that is persisted now.     *)
ReadsCurrentProfile ==
  \A s \in open : phase[s] = "working" => seen[s] = profile

Reservations == /\ TypeOK /\ Line /\ HeadIsActive /\ SwitchIsAlone /\ NeverReopened

IInv == /\ Reservations /\ SiblingsUnwind /\ TransactionIsAlone
        /\ SwitchUnwinds /\ ReadsCurrentProfile

-----------------------------------------------------------------------------
(* Joining the end of a line.                                              *)
LEMMA JoinLine ==
  ASSUME NEW S, NEW q \in Seq(S), NEW e \in S,
         \A i, j \in 1 .. Len(q) : q[i] = q[j] => i = j,
         \A i \in 1 .. Len(q) : q[i] # e
  PROVE  LET r == Append(q, e) IN
         /\ r \in Seq(S)
         /\ r # <<>>
         /\ q # <<>> => Head(r) = Head(q)
         /\ \A i, j \in 1 .. Len(r) : r[i] = r[j] => i = j
         /\ \A x : (\E i \in 1 .. Len(r) : r[i] = x)
                   <=> x = e \/ \E i \in 1 .. Len(q) : q[i] = x
<1> DEFINE r == Append(q, e)
<1>1. /\ r \in Seq(S) /\ Len(r) = Len(q) + 1 /\ Len(q) \in Nat
      /\ r[Len(q) + 1] = e
      /\ \A i \in 1 .. Len(q) : r[i] = q[i]
  OBVIOUS
<1>2. r # <<>> /\ (q # <<>> => Head(r) = Head(q))
  BY <1>1
<1> HIDE DEF r
<1>3. \A i \in 1 .. Len(r) : i \in 1 .. Len(q) \/ i = Len(q) + 1
  BY <1>1
<1>4. \A i, j \in 1 .. Len(r) : r[i] = r[j] => i = j
  BY <1>1, <1>3
<1>5. \A x : (\E i \in 1 .. Len(r) : r[i] = x)
            <=> x = e \/ \E i \in 1 .. Len(q) : q[i] = x
  <2>1. Len(q) + 1 \in 1 .. Len(r) /\ \A i \in 1 .. Len(q) : i \in 1 .. Len(r)
    BY <1>1
  <2> QED
    BY <1>1, <1>3, <2>1
<1> QED
  BY <1>1, <1>2, <1>4, <1>5 DEF r

(* Leaving the head of a line.                                             *)
LEMMA LeaveLine ==
  ASSUME NEW S, NEW q \in Seq(S), q # <<>>,
         \A i, j \in 1 .. Len(q) : q[i] = q[j] => i = j
  PROVE  /\ Tail(q) \in Seq(S)
         /\ \A i, j \in 1 .. Len(Tail(q)) : Tail(q)[i] = Tail(q)[j] => i = j
         /\ \A x : (\E i \in 1 .. Len(Tail(q)) : Tail(q)[i] = x)
                   <=> x # Head(q) /\ \E i \in 1 .. Len(q) : q[i] = x
<1> DEFINE r == Tail(q)
<1>1. /\ r \in Seq(S) /\ Len(q) \in Nat \ {0} /\ Len(r) = Len(q) - 1
      /\ \A i \in 1 .. Len(r) : r[i] = q[i + 1]
      /\ Head(q) = q[1]
  OBVIOUS
<1> HIDE DEF r
<1>2. /\ \A i \in 1 .. Len(r) : i + 1 \in 1 .. Len(q) /\ i + 1 # 1
      /\ \A i \in 1 .. Len(q) : i # 1 => i - 1 \in 1 .. Len(r) /\ (i - 1) + 1 = i
      /\ 1 \in 1 .. Len(q)
  BY <1>1
<1>3. \A i, j \in 1 .. Len(r) : r[i] = r[j] => i = j
  <2> SUFFICES ASSUME NEW i \in 1 .. Len(r), NEW j \in 1 .. Len(r), r[i] = r[j]
               PROVE  i = j
    OBVIOUS
  <2>1. i + 1 = j + 1
    BY <1>1, <1>2
  <2> QED
    BY <2>1
<1>4. \A x : (\E i \in 1 .. Len(r) : r[i] = x)
            <=> x # Head(q) /\ \E i \in 1 .. Len(q) : q[i] = x
  <2>1. ASSUME NEW i \in 1 .. Len(r)
        PROVE  r[i] # Head(q) /\ \E j \in 1 .. Len(q) : q[j] = r[i]
    BY <1>1, <1>2
  <2>2. ASSUME NEW i \in 1 .. Len(q), q[i] # Head(q)
        PROVE  \E j \in 1 .. Len(r) : r[j] = q[i]
    <3>1. i # 1
      BY <2>2, <1>1
    <3>2. i - 1 \in 1 .. Len(r) /\ r[i - 1] = q[i]
      BY <3>1, <1>1, <1>2
    <3> QED
      BY <3>2
  <2> QED
    BY <2>1, <2>2
<1> QED
  BY <1>1, <1>3, <1>4 DEF r

-----------------------------------------------------------------------------
(* A transaction that is under way is active, at the head of the queue.    *)
LEMMA TransactionAtHead ==
  ASSUME Reservations, NEW s \in Session, phase[s] \in InTransaction
  PROVE  activeConfig = s /\ queue # <<>> /\ Head(queue) = s
BY DevelopmentAssumption DEF Reservations, HeadIsActive

(* What the finally clause of a transaction leaves behind.                 *)
LEMMA FinishType ==
  ASSUME TypeOK, queue # <<>>, NEW s \in Session, NEW next \in Phases,
         FinishTransaction(s, next)
  PROVE  /\ queue' \in Seq(Session) /\ activeConfig' = None /\ isolated' = FALSE
         /\ snapshot' = None /\ phase' \in [Session -> Phases]
BY DEF TypeOK, FinishTransaction

(* Every step keeps every variable in its range.  A transaction that rolls *)
(* back has its snapshot.                                                  *)
LEMMA TypeInductive ==
  ASSUME Reservations, [Next]_vars
  PROVE  TypeOK'
<1> USE DEF sessionVars, opVars, configVars, switchVars, Reservations
<1>t. TypeOK
  OBVIOUS
<1>p. /\ {"idle", "working", "unwinding", "launched", "discarding", "queued"}
            \subseteq Phases
      /\ InTransaction \subseteq Phases
      /\ InTransaction = {"isolating", "preparing", "completing", "relaunching"}
  BY DEF Phases, InTransaction
<1>w. /\ Switch \subseteq Waiter
      /\ \A s \in Session : <<"config", s>> \in Waiter /\ <<"close", s>> \in Waiter
  BY DEF Waiter
<1>1. ASSUME NEW s \in Session, BeginOperation(s) PROVE TypeOK'
  BY <1>t, <1>p, <1>1 DEF TypeOK, BeginOperation
<1>2. ASSUME NEW s \in Session, Launch(s) PROVE TypeOK'
  BY <1>t, <1>p, <1>2, DevelopmentAssumption DEF TypeOK, Launch, AssertCurrent
<1>3. ASSUME NEW s \in Session, EndOperation(s) PROVE TypeOK'
  BY <1>t, <1>p, <1>3 DEF TypeOK, EndOperation, Settle
<1>4. ASSUME NEW s \in Session, InvalidateOperation(s) \/ RuntimeExit(s) PROVE TypeOK'
  BY <1>t, <1>4 DEF TypeOK, InvalidateOperation, RuntimeExit
<1>5. ASSUME NEW s \in Session, OpenSession(s) \/ RestartTerminal(s) PROVE TypeOK'
  BY <1>t, <1>5, DevelopmentAssumption DEF TypeOK, OpenSession, RestartTerminal
<1>6. ASSUME NEW w \in Waiter, NEW S \in SUBSET Session, InvalidateAndWait(w, S)
      PROVE  cancelled' \in [Session -> BOOLEAN] /\ awaited' \in [Waiter -> SUBSET Session]
  BY <1>t, <1>6 DEF TypeOK, InvalidateAndWait
<1>7. ASSUME NEW s \in Session, BeginClose(s) PROVE TypeOK'
  <2>1. InvalidateAndWait(<<"close", s>>, {s})
    BY <1>7 DEF BeginClose
  <2>2. cancelled' \in [Session -> BOOLEAN] /\ awaited' \in [Waiter -> SUBSET Session]
    BY <2>1, <1>6, <1>w
  <2> QED
    BY <1>t, <1>7, <2>2 DEF TypeOK, BeginClose
<1>8. ASSUME NEW s \in Session, EndClose(s) PROVE TypeOK'
  BY <1>t, <1>8 DEF TypeOK, EndClose
<1>9. ASSUME NEW s \in Session, ReserveConfig(s) PROVE TypeOK'
  BY <1>t, <1>p, <1>9 DEF TypeOK, ReserveConfig
<1>10. ASSUME NEW s \in Session, ActivateConfig(s) PROVE TypeOK'
  <2> DEFINE S == {r \in open \ {s} : ~Reserved(r)}
  <2>1. InvalidateAndWait(<<"config", s>>, S) /\ S \in SUBSET Session
    BY <1>t, <1>10 DEF ActivateConfig, TypeOK
  <2>2. cancelled' \in [Session -> BOOLEAN] /\ awaited' \in [Waiter -> SUBSET Session]
    BY <2>1, <1>6, <1>w
  <2> QED
    BY <1>t, <1>p, <1>10, <2>2 DEF TypeOK, ActivateConfig
<1>11. ASSUME NEW s \in Session, ActivateTooLate(s) PROVE TypeOK'
  <2>1. queue # <<>>
    BY <1>11, <1>t, <1>p DEF ActivateTooLate, Line, Reserved
  <2>2. FinishTransaction(s, "unwinding")
    BY <1>11 DEF ActivateTooLate
  <2> QED
    BY <1>t, <1>p, <1>11, <2>1, <2>2, FinishType DEF TypeOK, ActivateTooLate
<1>12. ASSUME NEW s \in Session, IsolationAcquired(s) PROVE TypeOK'
  BY <1>t, <1>p, <1>12 DEF TypeOK, IsolationAcquired
<1>13. ASSUME NEW s \in Session, CommitConfig(s) PROVE TypeOK'
  BY <1>t, <1>p, <1>13 DEF TypeOK, CommitConfig
<1>14. ASSUME NEW s \in Session, Relaunch(s) PROVE TypeOK'
  BY <1>t, <1>p, <1>14, DevelopmentAssumption DEF TypeOK, Relaunch, AssertCurrent
<1>15. ASSUME NEW s \in Session, NEW next \in Phases, phase[s] \in InTransaction,
              FinishTransaction(s, next),
              profile' \in Profile, UNCHANGED <<sessionVars, cancelled, seen, switchVars, awaited>>
       PROVE  TypeOK'
  <2>1. queue # <<>>
    BY <1>15, TransactionAtHead
  <2> QED
    BY <1>t, <1>15, <2>1, FinishType DEF TypeOK
<1>16. ASSUME NEW s \in Session, IsolationLost(s) \/ PrepareFails(s) PROVE TypeOK'
  <2>1. /\ phase[s] \in InTransaction /\ FinishTransaction(s, "unwinding")
        /\ UNCHANGED <<sessionVars, cancelled, seen, profile, switchVars, awaited>>
    BY <1>16, <1>p DEF IsolationLost, PrepareFails
  <2> QED
    BY <1>t, <1>p, <1>15, <2>1 DEF TypeOK
<1>17. ASSUME NEW s \in Session, CompleteConfig(s) \/ RollBackConfig(s) PROVE TypeOK'
  <2>1. /\ phase[s] \in InTransaction
        /\ \E next \in {"launched", "discarding", "unwinding"} : FinishTransaction(s, next)
        /\ profile' = profile \/ profile' = snapshot
        /\ UNCHANGED <<sessionVars, cancelled, seen, switchVars, awaited>>
    BY <1>17, <1>p DEF CompleteConfig, RollBackConfig
  <2>2. snapshot \in Profile
    BY <1>17, <1>t, <1>p DEF CompleteConfig, RollBackConfig, HeadIsActive, TypeOK
  <2>3. profile' \in Profile
    BY <2>1, <2>2, <1>t DEF TypeOK
  <2>4. {"launched", "discarding", "unwinding"} \subseteq Phases
    BY <1>p
  <2> QED
    BY <1>15, <2>1, <2>3, <2>4
<1>18. ASSUME NEW i \in Switch, NEW s \in Session, NEW r \in Runtime, ReserveSwitch(i, s, r)
       PROVE  TypeOK'
  <2> DEFINE rec == [step |-> "queued", session |-> s, selected |-> r,
                     expected |-> runtime, initial |-> Sessions, predecessor |-> current]
  <2>1. Sessions \in UNION {[S -> 1 .. MaxPty] : S \in SUBSET Session}
    <3>1. \A x \in open : pty[x] \in 1 .. MaxPty
      BY <1>t, DevelopmentAssumption DEF TypeOK, NeverReopened
    <3>2. Sessions \in [open -> 1 .. MaxPty]
      BY <3>1 DEF Sessions
    <3> QED
      BY <3>2, <1>t DEF TypeOK
  <2> HIDE DEF Sessions
  <2>2. rec \in SwitchRecord
    BY <2>1, <1>t DEF TypeOK, SwitchRecord
  <2>3. switch' = [switch EXCEPT ![i] = rec]
    BY <1>18 DEF ReserveSwitch
  <2> HIDE DEF rec
  <2>4. switch' \in [Switch -> SwitchRecord]
    BY <2>2, <2>3, <1>t DEF TypeOK
  <2> QED
    BY <1>18, <1>t, <2>4 DEF ReserveSwitch, TypeOK
<1>19. ASSUME NEW i \in Switch, NEW from \in {"queued", "access", "invalidating", "cleaning"},
              NEW to \in {"queued", "access", "invalidating", "cleaning"}, Proceed(i, from, to)
       PROVE  switch' \in [Switch -> SwitchRecord]
  <2>1. switch \in [Switch -> SwitchRecord]
    BY <1>t DEF TypeOK
  <2>2. PICK rec : rec = [switch[i] EXCEPT !.step = to]
    OBVIOUS
  <2>3. rec \in SwitchRecord
    <3>1. switch[i] \in SwitchRecord /\ switch[i].step = from
      BY <1>19, <2>1 DEF Proceed
    <3>2. from \notin {"unused", "done"} /\ to \in {"queued", "access", "invalidating", "cleaning"}
      BY <1>19
    <3> QED
      BY <2>2, <3>1, <3>2 DEF SwitchRecord
  <2>4. switch' = [switch EXCEPT ![i] = rec]
    <3>1. switch' = [switch EXCEPT ![i] = [switch[i] EXCEPT !.step = to]]
      BY <1>19, <2>1 DEF Proceed
    <3> QED
      BY <2>2, <3>1
  <2> QED
    BY <2>1, <2>3, <2>4
<1>20. ASSUME NEW i \in Switch, Release(i)
       PROVE  current' \in Switch \cup {None} /\ switch' \in [Switch -> SwitchRecord]
  BY <1>20, <1>t DEF Release, TypeOK, SwitchRecord
<1>21. ASSUME NEW i \in Switch, SwitchStep(i) PROVE TypeOK'
  <2>1. CASE StartSwitch(i)
    <3>1. switch' \in [Switch -> SwitchRecord]
      BY <2>1, <1>19 DEF StartSwitch
    <3> QED
      BY <2>1, <3>1, <1>t DEF StartSwitch, TypeOK
  <2>2. CASE InvalidateSessions(i)
    <3>1. switch' \in [Switch -> SwitchRecord]
      BY <2>2, <1>19 DEF InvalidateSessions
    <3>2. InvalidateAndWait(i, open) /\ open \in SUBSET Session
      BY <2>2, <1>t DEF InvalidateSessions, TypeOK
    <3>3. cancelled' \in [Session -> BOOLEAN] /\ awaited' \in [Waiter -> SUBSET Session]
      BY <3>2, <1>6, <1>w
    <3> QED
      BY <2>2, <3>1, <3>3, <1>t DEF InvalidateSessions, TypeOK
  <2>3. CASE CleanUp(i)
    <3>1. switch' \in [Switch -> SwitchRecord]
      BY <2>3, <1>19 DEF CleanUp
    <3> QED
      BY <2>3, <3>1, <1>t DEF CleanUp, TypeOK
  <2>4. CASE CommitSwitch(i)
    <3>1. switch[i].selected \in Runtime
      BY <2>4, <1>t DEF CommitSwitch, TypeOK, SwitchRecord
    <3>2. current' \in Switch \cup {None} /\ switch' \in [Switch -> SwitchRecord]
      BY <2>4, <1>20 DEF CommitSwitch
    <3> QED
      BY <2>4, <3>1, <3>2, <1>t DEF CommitSwitch, TypeOK
  <2>5. CASE AbandonSwitch(i)
    <3>1. current' \in Switch \cup {None} /\ switch' \in [Switch -> SwitchRecord]
      BY <2>5, <1>20 DEF AbandonSwitch
    <3> QED
      BY <2>5, <3>1, <1>t DEF AbandonSwitch, TypeOK
  <2> QED
    BY <1>21, <2>1, <2>2, <2>3, <2>4, <2>5 DEF SwitchStep
<1>22. CASE UNCHANGED vars
  BY <1>22, <1>t DEF vars, TypeOK
<1> QED
  BY <1>1, <1>2, <1>3, <1>4, <1>5, <1>7, <1>8, <1>9, <1>10, <1>11, <1>12, <1>13,
     <1>14, <1>16, <1>17, <1>18, <1>21, <1>22
     DEF Next, OperationStep, TransactionStep

-----------------------------------------------------------------------------
(* The shape of the queue, by what a step does to it.                      *)
Outside == {"idle", "working", "unwinding", "launched", "discarding"}

(* No phase is both outside the queue and in it.                           *)
LEMMA PhasesSplit ==
  /\ Phases = Outside \cup {"queued"} \cup InTransaction
  /\ Outside \cap ({"queued"} \cup InTransaction) = {}
  /\ "queued" \notin InTransaction
BY DEF Phases, Outside, InTransaction

(* A session that is not in the queue moves on.                            *)
LEMMA ShapeOfOutsider ==
  ASSUME Reservations, NEW s \in Session, NEW p \in Outside, phase[s] \in Outside,
         phase' = [phase EXCEPT ![s] = p],
         UNCHANGED <<queue, activeConfig, isolated, snapshot>>
  PROVE  Line' /\ HeadIsActive'
<1>1. \A r \in Session : /\ phase'[r] \in InTransaction <=> phase[r] \in InTransaction
                         /\ phase'[r] = "queued" <=> phase[r] = "queued"
                         /\ phase'[r] = "isolating" <=> phase[r] = "isolating"
  BY PhasesSplit DEF Reservations, TypeOK, InTransaction, Outside
<1> QED
  BY <1>1 DEF Reservations, Line, HeadIsActive, Reserved

(* A transaction joins the line.                                           *)
LEMMA ShapeOfReservation ==
  ASSUME Reservations, NEW s \in Session, ReserveConfig(s)
  PROVE  Line' /\ HeadIsActive'
<1>1. /\ queue' = Append(queue, s) /\ phase' = [phase EXCEPT ![s] = "queued"]
      /\ UNCHANGED <<activeConfig, isolated, snapshot>>
      /\ phase[s] = "working" /\ queue \in Seq(Session) /\ phase \in [Session -> Phases]
  BY DEF ReserveConfig, Reservations, TypeOK
<1>2. \A i \in 1 .. Len(queue) : queue[i] # s
  BY <1>1, PhasesSplit DEF Reservations, Line, Reserved, Outside
<1>3. /\ queue' # <<>> /\ (queue # <<>> => Head(queue') = Head(queue))
      /\ \A i, j \in 1 .. Len(queue') : queue'[i] = queue'[j] => i = j
      /\ \A x : (\E i \in 1 .. Len(queue') : queue'[i] = x)
                <=> x = s \/ \E i \in 1 .. Len(queue) : queue[i] = x
  BY <1>1, <1>2, JoinLine DEF Reservations, Line
<1>4. \A r \in Session : phase'[r] \in InTransaction <=> phase[r] \in InTransaction
  BY <1>1, PhasesSplit DEF Outside
<1>5. Line'
  BY <1>1, <1>3, <1>4 DEF Line, Reserved, Reservations
<1>6. HeadIsActive'
  BY <1>1, <1>3, <1>4 DEF HeadIsActive, Reservations, InTransaction
<1> QED
  BY <1>5, <1>6

(* The session at the head leaves it, whether its transaction was active or*)
(* not.                                                                    *)
LEMMA ShapeOfDeparture ==
  ASSUME Reservations, NEW s \in Session, NEW next \in Outside,
         FinishTransaction(s, next),
         \/ phase[s] \in InTransaction
         \/ phase[s] = "queued" /\ Head(queue) = s /\ activeConfig = None
  PROVE  Line' /\ HeadIsActive'
<1>1. /\ queue' = Tail(queue) /\ phase' = [phase EXCEPT ![s] = next]
      /\ activeConfig' = None /\ isolated' = FALSE /\ snapshot' = None
      /\ queue \in Seq(Session) /\ phase \in [Session -> Phases]
  BY DEF FinishTransaction, Reservations, TypeOK
<1>2. queue # <<>> /\ Head(queue) = s
  <2>1. CASE phase[s] \in InTransaction
    BY <2>1, TransactionAtHead
  <2>2. CASE phase[s] = "queued" /\ Head(queue) = s
    <3>1. \E i \in 1 .. Len(queue) : queue[i] = s
      BY <2>2 DEF Reservations, Line, Reserved
    <3> QED
      BY <2>2, <3>1, <1>1
  <2> QED
    BY <2>1, <2>2
<1>3. /\ \A i, j \in 1 .. Len(queue') : queue'[i] = queue'[j] => i = j
      /\ \A x : (\E i \in 1 .. Len(queue') : queue'[i] = x)
                <=> x # s /\ \E i \in 1 .. Len(queue) : queue[i] = x
  <2>1. \A i, j \in 1 .. Len(queue) : queue[i] = queue[j] => i = j
    BY DEF Reservations, Line
  <2>2. /\ \A i, j \in 1 .. Len(Tail(queue)) : Tail(queue)[i] = Tail(queue)[j] => i = j
        /\ \A x : (\E i \in 1 .. Len(Tail(queue)) : Tail(queue)[i] = x)
                  <=> x # Head(queue) /\ \E i \in 1 .. Len(queue) : queue[i] = x
    <3>1. queue \in Seq(Session)
      BY <1>1
    <3>2. queue # <<>>
      BY <1>2
    <3> QED
      BY <2>1, <3>1, <3>2, LeaveLine
  <2> QED
    BY <1>1, <1>2, <2>2
<1>4. Line'
  <2>1. \A r \in Session : Reserved(r)' <=> r # s /\ Reserved(r)
    BY <1>3 DEF Reserved
  <2>2. phase'[s] = next /\ \A r \in Session \ {s} : phase'[r] = phase[r]
    BY <1>1
  <2> QED
    BY <1>3, <2>1, <2>2, PhasesSplit DEF Line, Reservations
<1>5. \A r \in Session : phase'[r] \notin InTransaction
  BY <1>1, PhasesSplit, DevelopmentAssumption DEF Reservations, HeadIsActive
<1>6. HeadIsActive'
  BY <1>1, <1>5, DevelopmentAssumption DEF HeadIsActive
<1> QED
  BY <1>4, <1>6

(* The transaction at the head becomes active, or moves on.                *)
LEMMA ShapeOfProgress ==
  ASSUME Reservations, NEW s \in Session, NEW next \in InTransaction,
         phase' = [phase EXCEPT ![s] = next],
         activeConfig' = s, isolated' = TRUE, UNCHANGED queue,
         \/ /\ phase[s] = "queued" /\ Head(queue) = s /\ activeConfig = None
            /\ next = "isolating"
         \/ phase[s] \in InTransaction /\ snapshot' # None
  PROVE  Line' /\ HeadIsActive'
<1>1. phase \in [Session -> Phases] /\ queue \in Seq(Session)
  BY DEF Reservations, TypeOK
<1>2. queue # <<>> /\ Head(queue) = s
  <2>1. CASE phase[s] \in InTransaction
    BY <2>1, TransactionAtHead
  <2>2. CASE phase[s] = "queued" /\ Head(queue) = s
    <3>1. \E i \in 1 .. Len(queue) : queue[i] = s
      BY <2>2 DEF Reservations, Line, Reserved
    <3> QED
      BY <2>2, <3>1, <1>1
  <2> QED
    BY <2>1, <2>2, PhasesSplit
<1>3. Line'
  BY <1>1, PhasesSplit DEF Line, Reserved, Reservations
<1>4. \A r \in Session : phase'[r] \in InTransaction <=> r = s
  BY <1>1, PhasesSplit, DevelopmentAssumption DEF Reservations, HeadIsActive
<1>5. \A r \in Session : phase'[r] \in InTransaction \ {"isolating"} => snapshot' # None
  BY <1>1, <1>4, PhasesSplit
<1>6. HeadIsActive'
  BY <1>1, <1>2, <1>4, <1>5, DevelopmentAssumption DEF HeadIsActive
<1> QED
  BY <1>3, <1>6

(* Nothing the shape depends on changes.                                   *)
LEMMA ShapeUntouched ==
  ASSUME Reservations, UNCHANGED <<phase, queue, activeConfig, isolated, snapshot>>
  PROVE  Line' /\ HeadIsActive'
BY DEF Reservations, Line, HeadIsActive, Reserved

(* The shape of the queue, the exclusion of switches and the permanence of *)
(* closing are kept by every step.                                         *)
LEMMA ReservationsInductive ==
  ASSUME Reservations, [Next]_vars
  PROVE  Reservations'
<1> USE DEF sessionVars, opVars, configVars, switchVars
<1>t. TypeOK'
  BY TypeInductive
<1>p. /\ Phases = Outside \cup {"queued"} \cup InTransaction
      /\ Outside = {"idle", "working", "unwinding", "launched", "discarding"}
      /\ InTransaction = {"isolating", "preparing", "completing", "relaunching"}
      /\ phase \in [Session -> Phases]
  BY PhasesSplit DEF Outside, InTransaction, Reservations, TypeOK
<1>1. Line' /\ HeadIsActive'
  <2>1. ASSUME NEW s \in Session, BeginOperation(s) PROVE Line' /\ HeadIsActive'
    BY <2>1, <1>p, ShapeOfOutsider DEF BeginOperation, Busy
  <2>2. ASSUME NEW s \in Session, Launch(s) PROVE Line' /\ HeadIsActive'
    BY <2>2, <1>p, ShapeOfOutsider DEF Launch
  <2>3. ASSUME NEW s \in Session, EndOperation(s) PROVE Line' /\ HeadIsActive'
    BY <2>3, <1>p, ShapeOfOutsider DEF EndOperation, Settle
  <2>4. ASSUME NEW s \in Session,
               \/ InvalidateOperation(s) \/ RuntimeExit(s) \/ OpenSession(s)
               \/ RestartTerminal(s) \/ BeginClose(s) \/ EndClose(s)
        PROVE  Line' /\ HeadIsActive'
    BY <2>4, ShapeUntouched DEF InvalidateOperation, RuntimeExit, OpenSession,
       RestartTerminal, BeginClose, EndClose
  <2>5. ASSUME NEW s \in Session, ReserveConfig(s) PROVE Line' /\ HeadIsActive'
    BY <2>5, ShapeOfReservation
  <2>6. ASSUME NEW s \in Session, ActivateConfig(s) PROVE Line' /\ HeadIsActive'
    BY <2>6, <1>p, ShapeOfProgress DEF ActivateConfig
  <2>7. ASSUME NEW s \in Session, ActivateTooLate(s) PROVE Line' /\ HeadIsActive'
    BY <2>7, <1>p, ShapeOfDeparture DEF ActivateTooLate
  <2>8. ASSUME NEW s \in Session, IsolationAcquired(s) \/ CommitConfig(s) \/ Relaunch(s)
        PROVE  Line' /\ HeadIsActive'
    <3>1. phase[s] \in InTransaction
      BY <2>8, <1>p DEF IsolationAcquired, CommitConfig, Relaunch
    <3>2. activeConfig' = s /\ isolated' = TRUE /\ UNCHANGED queue
      BY <2>8, <3>1, TransactionAtHead, DevelopmentAssumption
         DEF IsolationAcquired, CommitConfig, Relaunch, Reservations, HeadIsActive, TypeOK
    <3>3. snapshot' # None
      BY <2>8, <1>p, <3>1, DevelopmentAssumption
         DEF IsolationAcquired, CommitConfig, Relaunch, Reservations, HeadIsActive, TypeOK
    <3> QED
      BY <2>8, <1>p, <3>1, <3>2, <3>3, ShapeOfProgress
         DEF IsolationAcquired, CommitConfig, Relaunch
  <2>9. ASSUME NEW s \in Session,
               IsolationLost(s) \/ PrepareFails(s) \/ CompleteConfig(s) \/ RollBackConfig(s)
        PROVE  Line' /\ HeadIsActive'
    <3>1. /\ phase[s] \in InTransaction
          /\ \E next \in {"launched", "discarding", "unwinding"} : FinishTransaction(s, next)
      BY <2>9, <1>p DEF IsolationLost, PrepareFails, CompleteConfig, RollBackConfig
    <3> QED
      BY <3>1, <1>p, ShapeOfDeparture
  <2>10. ASSUME NEW i \in Switch,
                SwitchStep(i) \/ \E s \in Session, r \in Runtime : ReserveSwitch(i, s, r)
         PROVE  Line' /\ HeadIsActive'
    BY <2>10, ShapeUntouched DEF SwitchStep, ReserveSwitch, StartSwitch, InvalidateSessions,
       CleanUp, CommitSwitch, AbandonSwitch
  <2>11. CASE UNCHANGED vars
    BY <2>11, ShapeUntouched DEF vars
  <2> QED
    BY <2>1, <2>2, <2>3, <2>4, <2>5, <2>6, <2>7, <2>8, <2>9, <2>10, <2>11
       DEF Next, OperationStep, TransactionStep
<1>2. SwitchIsAlone'
  <2> USE DEF Reservations, SwitchIsAlone
  <2>1. ASSUME NEW s \in Session, NEW next, FinishTransaction(s, next),
               UNCHANGED current,
               \/ phase[s] \in InTransaction
               \/ \E i \in 1 .. Len(queue) : queue[i] = s
        PROVE  SwitchIsAlone'
    <3>1. queue # <<>>
      BY <2>1, TransactionAtHead DEF TypeOK
    <3> QED
      BY <2>1, <3>1
  <2>2. ASSUME NEW s \in Session, ActivateTooLate(s) PROVE SwitchIsAlone'
    <3>1. \E i \in 1 .. Len(queue) : queue[i] = s
      BY <2>2 DEF ActivateTooLate, Line, Reserved
    <3> QED
      BY <2>1, <2>2, <3>1 DEF ActivateTooLate
  <2>3. ASSUME NEW s \in Session,
               IsolationLost(s) \/ PrepareFails(s) \/ CompleteConfig(s) \/ RollBackConfig(s)
        PROVE  SwitchIsAlone'
    <3>1. /\ phase[s] \in InTransaction /\ UNCHANGED current
          /\ \E next \in {"launched", "discarding", "unwinding"} : FinishTransaction(s, next)
      BY <2>3, <1>p DEF IsolationLost, PrepareFails, CompleteConfig, RollBackConfig
    <3> QED
      BY <3>1, <2>1
  <2>4. ASSUME NEW s \in Session, ReserveConfig(s) PROVE SwitchIsAlone'
    BY <2>4 DEF ReserveConfig, NoSwitchReserved
  <2>5. ASSUME NEW i \in Switch,
               SwitchStep(i) \/ \E s \in Session, r \in Runtime : ReserveSwitch(i, s, r)
        PROVE  SwitchIsAlone'
    BY <2>5 DEF SwitchStep, ReserveSwitch, StartSwitch, InvalidateSessions,
       CleanUp, CommitSwitch, AbandonSwitch, Release
  <2>6. ASSUME NEW s \in Session,
               \/ BeginOperation(s) \/ OperationStep(s) \/ InvalidateOperation(s)
               \/ RuntimeExit(s) \/ OpenSession(s)
               \/ RestartTerminal(s) \/ BeginClose(s) \/ EndClose(s)
               \/ ActivateConfig(s) \/ IsolationAcquired(s) \/ CommitConfig(s) \/ Relaunch(s)
        PROVE  SwitchIsAlone'
    BY <2>6 DEF BeginOperation, OperationStep, Launch, EndOperation, InvalidateOperation,
       RuntimeExit, OpenSession, RestartTerminal, BeginClose, EndClose, ActivateConfig,
       IsolationAcquired, CommitConfig, Relaunch
  <2>7. CASE UNCHANGED vars
    BY <2>7 DEF vars
  <2> QED
    BY <2>2, <2>3, <2>4, <2>5, <2>6, <2>7 DEF Next, TransactionStep
<1>3. NeverReopened'
  <2> USE DEF Reservations, NeverReopened, Busy
  <2>1. ASSUME NEW s \in Session, pty' = pty \/ pty' = [pty EXCEPT ![s] = @ + 1],
               phase' = phase \/ \E p : phase[s] # "idle" /\ phase' = [phase EXCEPT ![s] = p],
               open' \subseteq open
        PROVE  NeverReopened'
    BY <2>1 DEF TypeOK
  <2>2. ASSUME NEW s \in Session, BeginOperation(s) PROVE NeverReopened'
    BY <2>2, <1>p DEF BeginOperation
  <2>3. ASSUME NEW s \in Session, OpenSession(s) PROVE NeverReopened'
    BY <2>3 DEF OpenSession, TypeOK
  <2>4. ASSUME NEW s \in Session,
               \/ OperationStep(s) \/ InvalidateOperation(s) \/ RuntimeExit(s)
               \/ RestartTerminal(s) \/ BeginClose(s) \/ EndClose(s) \/ ReserveConfig(s)
        PROVE  NeverReopened'
    BY <2>1, <2>4 DEF OperationStep, Launch, EndOperation, Settle, InvalidateOperation,
       RuntimeExit, RestartTerminal, BeginClose, EndClose, ReserveConfig
  <2>5. ASSUME NEW s \in Session, TransactionStep(s) PROVE NeverReopened'
    BY <2>1, <2>5 DEF TransactionStep, ActivateConfig, ActivateTooLate, IsolationAcquired,
       IsolationLost, CommitConfig, PrepareFails, Relaunch, CompleteConfig, RollBackConfig,
       FinishTransaction
  <2>6. ASSUME NEW i \in Switch,
               SwitchStep(i) \/ \E s \in Session, r \in Runtime : ReserveSwitch(i, s, r)
        PROVE  NeverReopened'
    BY <2>6 DEF SwitchStep, ReserveSwitch, StartSwitch, InvalidateSessions,
       CleanUp, CommitSwitch, AbandonSwitch
  <2>7. CASE UNCHANGED vars
    BY <2>7 DEF vars
  <2> QED
    BY <2>2, <2>3, <2>4, <2>5, <2>6, <2>7 DEF Next
<1> QED
  BY <1>t, <1>1, <1>2, <1>3 DEF Reservations

(* Nothing is reserved at first.                                           *)
LEMMA InitReservations == Init => Reservations
<1> SUFFICES ASSUME Init PROVE Reservations
  OBVIOUS
<1>1. TypeOK
  <2>1. [step |-> "unused"] \in SwitchRecord
    BY DEF SwitchRecord
  <2>2. switch \in [Switch -> SwitchRecord]
    BY <2>1 DEF Init
  <2>3. pty \in [Session -> 0 .. MaxPty]
    BY DevelopmentAssumption DEF Init
  <2>4. queue \in Seq(Session)
    BY DEF Init
  <2> QED
    BY <2>2, <2>3, <2>4 DEF Init, TypeOK, Phases
<1>2. Line /\ HeadIsActive
  BY DevelopmentAssumption DEF Init, Line, HeadIsActive, Reserved, InTransaction
<1>3. SwitchIsAlone /\ NeverReopened
  BY DEF Init, SwitchIsAlone, NeverReopened, Busy
<1> QED
  BY <1>1, <1>2, <1>3 DEF Reservations

(* The directory's variables stay in their ranges.                         *)
THEOREM TypeCorrect == Spec => []TypeOK
<1>1. Reservations => TypeOK
  BY DEF Reservations
<1> QED
  BY <1>1, InitReservations, ReservationsInductive, PTL DEF Spec

-----------------------------------------------------------------------------
(* While a transaction is active, nobody else's operation begins, joins the*)
(* queue or relaunches; the others can only unwind.                        *)
Tentative == InTransaction \ {"isolating"}

Harmless == {"idle", "queued"}

(* Another session begins nothing, and leaves once it has unwound. *)
LEMMA OthersOnlyUnwind ==
  ASSUME Reservations, [Next]_vars, NEW s \in Session, activeConfig = s,
         NEW r \in Session, r # s
  PROVE  /\ phase[r] \in Harmless => phase'[r] = phase[r]
         /\ phase'[r] \notin Harmless /\ r \in awaited[<<"config", s>>]
              => r \in awaited'[<<"config", s>>]
         /\ r \in open' \ open => phase'[r] = "idle"
<1> USE DEF sessionVars, opVars, configVars, switchVars
<1>p. /\ InTransaction = {"isolating", "preparing", "completing", "relaunching"}
      /\ Harmless = {"idle", "queued"}
      /\ phase \in [Session -> Phases] /\ awaited \in [Waiter -> SUBSET Session]
      /\ phase[r] \notin InTransaction /\ phase[s] \in InTransaction
      /\ queue # <<>> /\ Head(queue) = s /\ isolated /\ activeConfig # None
      /\ current = None
  BY DevelopmentAssumption
     DEF Harmless, InTransaction, Reservations, TypeOK, HeadIsActive, SwitchIsAlone
<1>w. <<"config", s>> \in Waiter
  BY DEF Waiter
<1> DEFINE Claim == /\ phase[r] \in Harmless => phase'[r] = phase[r]
                    /\ phase'[r] \notin Harmless /\ r \in awaited[<<"config", s>>]
                         => r \in awaited'[<<"config", s>>]
                    /\ r \in open' \ open => phase'[r] = "idle"
<1>1. ASSUME NEW x \in Session, BeginOperation(x) PROVE FALSE
  BY <1>1, <1>p DEF BeginOperation, ConfigAllows, Busy
<1>2. ASSUME NEW x \in Session, Launch(x) PROVE FALSE
  BY <1>2, <1>p DEF Launch, AssertCurrent, ConfigAllows
<1>3. ASSUME NEW x \in Session, EndOperation(x) PROVE Claim
  BY <1>3, <1>p, <1>w DEF EndOperation, Settle
<1>4. ASSUME NEW x \in Session,
             InvalidateOperation(x) \/ RuntimeExit(x) \/ RestartTerminal(x) \/ EndClose(x)
      PROVE  Claim
  BY <1>4 DEF InvalidateOperation, RuntimeExit, RestartTerminal, EndClose
<1>5. ASSUME NEW x \in Session, OpenSession(x) PROVE Claim
  BY <1>5, <1>p DEF OpenSession, Reservations, NeverReopened, Busy
<1>6. ASSUME NEW x \in Session, BeginClose(x) PROVE Claim
  <2>1. <<"close", x>> # <<"config", s>>
    OBVIOUS
  <2> QED
    BY <1>6, <1>p, <1>w, <2>1 DEF BeginClose, InvalidateAndWait
<1>7. ASSUME NEW x \in Session, ReserveConfig(x) \/ ActivateConfig(x) \/ ActivateTooLate(x)
      PROVE  FALSE
  BY <1>7, <1>p DEF ReserveConfig, ActivateConfig, ActivateTooLate
<1>8. ASSUME NEW x \in Session,
             \/ IsolationAcquired(x) \/ IsolationLost(x) \/ CommitConfig(x)
             \/ PrepareFails(x) \/ Relaunch(x) \/ CompleteConfig(x) \/ RollBackConfig(x)
      PROVE  Claim
  <2>1. phase[x] \in InTransaction
    BY <1>8, <1>p DEF IsolationAcquired, IsolationLost, CommitConfig, PrepareFails,
       Relaunch, CompleteConfig, RollBackConfig
  <2>2. x # r
    BY <2>1, <1>p
  <2>3. phase'[r] = phase[r] /\ UNCHANGED <<open, awaited>>
    BY <1>8, <1>p, <2>2 DEF IsolationAcquired, IsolationLost, CommitConfig, PrepareFails,
       Relaunch, CompleteConfig, RollBackConfig, FinishTransaction
  <2> QED
    BY <2>3
<1>9. ASSUME NEW i \in Switch,
             SwitchStep(i) \/ \E x \in Session, e \in Runtime : ReserveSwitch(i, x, e)
      PROVE  Claim
  <2>1. ~InvalidateSessions(i)
    BY <1>p, DevelopmentAssumption DEF InvalidateSessions, Stable
  <2> QED
    BY <1>9, <2>1 DEF SwitchStep, ReserveSwitch, StartSwitch, CleanUp, CommitSwitch, AbandonSwitch
<1>10. CASE UNCHANGED vars
  BY <1>10 DEF vars
<1> QED
  BY <1>1, <1>2, <1>3, <1>4, <1>5, <1>6, <1>7, <1>8, <1>9, <1>10
     DEF Next, OperationStep, TransactionStep

(* How a session comes to isolate itself, and from there to the tentative  *)
(* part of its transaction.                                                *)
LEMMA IntoTransaction ==
  ASSUME Reservations, [Next]_vars, NEW s \in Session, phase'[s] \in InTransaction
  PROVE  \/ ActivateConfig(s) /\ phase'[s] = "isolating"
         \/ IsolationAcquired(s) /\ phase'[s] \in Tentative
         \/ /\ activeConfig = s
            /\ phase'[s] = "isolating" => phase[s] = "isolating"
            /\ phase'[s] \in Tentative => phase[s] \in Tentative
<1> USE DEF sessionVars, opVars, configVars, switchVars
<1>p. /\ InTransaction = {"isolating", "preparing", "completing", "relaunching"}
      /\ Tentative = {"preparing", "completing", "relaunching"}
      /\ phase \in [Session -> Phases]
  BY DEF InTransaction, Tentative, Reservations, TypeOK
<1> DEFINE Stays == /\ activeConfig = s
                    /\ phase'[s] = "isolating" => phase[s] = "isolating"
                    /\ phase'[s] \in Tentative => phase[s] \in Tentative
<1>1. ASSUME phase'[s] = phase[s] PROVE Stays
  BY <1>1 DEF Reservations, HeadIsActive
<1>2. ASSUME NEW x \in Session, NEW p, p \notin InTransaction,
             phase' = [phase EXCEPT ![x] = p]
      PROVE  phase'[s] = phase[s]
  BY <1>2, <1>p
<1>3. ASSUME NEW x \in Session,
             BeginOperation(x) \/ OperationStep(x) \/ ReserveConfig(x)
      PROVE  phase'[s] = phase[s]
  BY <1>2, <1>3, <1>p DEF BeginOperation, OperationStep, Launch, EndOperation, Settle, ReserveConfig
<1>4. ASSUME NEW x \in Session,
             \/ ActivateTooLate(x) \/ IsolationLost(x) \/ PrepareFails(x)
             \/ CompleteConfig(x) \/ RollBackConfig(x)
      PROVE  phase'[s] = phase[s]
  BY <1>2, <1>4, <1>p DEF ActivateTooLate, IsolationLost, PrepareFails, CompleteConfig,
     RollBackConfig, FinishTransaction
<1>5. ASSUME NEW x \in Session, ActivateConfig(x)
      PROVE  phase'[s] = phase[s] \/ (ActivateConfig(s) /\ phase'[s] = "isolating")
  BY <1>5, <1>p DEF ActivateConfig
<1>6. ASSUME NEW x \in Session, IsolationAcquired(x)
      PROVE  phase'[s] = phase[s] \/ (IsolationAcquired(s) /\ phase'[s] \in Tentative)
  BY <1>6, <1>p DEF IsolationAcquired
<1>7. ASSUME NEW x \in Session, CommitConfig(x) \/ Relaunch(x)
      PROVE  Stays
  BY <1>1, <1>7, <1>p, TransactionAtHead DEF CommitConfig, Relaunch
<1>8. ASSUME NEW x \in Session,
             \/ InvalidateOperation(x) \/ RuntimeExit(x) \/ OpenSession(x)
             \/ RestartTerminal(x) \/ BeginClose(x) \/ EndClose(x)
      PROVE  phase' = phase
  BY <1>8 DEF InvalidateOperation, RuntimeExit, OpenSession, RestartTerminal, BeginClose, EndClose
<1>9. ASSUME NEW i \in Switch,
             SwitchStep(i) \/ \E x \in Session, e \in Runtime : ReserveSwitch(i, x, e)
      PROVE  phase' = phase
  BY <1>9 DEF SwitchStep, ReserveSwitch, StartSwitch, InvalidateSessions, CleanUp,
     CommitSwitch, AbandonSwitch
<1>10. UNCHANGED vars => phase' = phase
  BY DEF vars
<1> QED
  BY <1>1, <1>3, <1>4, <1>5, <1>6, <1>7, <1>8, <1>9, <1>10 DEF Next, TransactionStep

-----------------------------------------------------------------------------
(* The siblings of an isolating transaction unwind, and it alone remains.  *)
LEMMA IsolationInductive ==
  ASSUME Reservations, Reservations', SiblingsUnwind, TransactionIsAlone, [Next]_vars
  PROVE  SiblingsUnwind' /\ TransactionIsAlone'
<1> USE DEF sessionVars, opVars, configVars, switchVars
<1>p. /\ InTransaction = {"isolating", "preparing", "completing", "relaunching"}
      /\ Tentative = {"preparing", "completing", "relaunching"}
      /\ Harmless = {"idle", "queued"}
      /\ phase \in [Session -> Phases] /\ phase' \in [Session -> Phases]
      /\ open \subseteq Session /\ open' \subseteq Session
      /\ awaited \in [Waiter -> SUBSET Session]
  BY DEF Harmless, InTransaction, Tentative, Reservations, TypeOK
<1>w. \A s \in Session : <<"config", s>> \in Waiter
  BY DEF Waiter
<1>1. SiblingsUnwind'
  <2> SUFFICES ASSUME NEW s \in Session, phase'[s] = "isolating",
                      NEW r \in open' \ {s}, phase'[r] \notin Harmless
               PROVE  r \in awaited'[<<"config", s>>]
    BY <1>p DEF SiblingsUnwind
  <2>1. r \in Session /\ phase'[s] \in InTransaction
    BY <1>p
  <2>2. CASE ActivateConfig(s)
    <3>1. r \in open /\ phase[r] = phase'[r] /\ activeConfig = None
      BY <2>2, <1>p, <2>1 DEF ActivateConfig
    <3>2. phase[r] \notin InTransaction
      BY <3>1, <2>1, DevelopmentAssumption DEF Reservations, HeadIsActive
    <3>3. ~Reserved(r) /\ Busy(r)
      BY <3>1, <3>2, <2>1, <1>p DEF Reservations, Line, Busy
    <3> QED
      BY <2>2, <3>1, <3>3, <1>w, <1>p DEF ActivateConfig, InvalidateAndWait
  <2>3. CASE activeConfig = s /\ phase[s] = "isolating"
    <3>1. r \in open
      BY <2>1, <2>3, <1>p, OthersOnlyUnwind
    <3>2. phase[r] \notin Harmless
      BY <2>1, <2>3, <1>p, OthersOnlyUnwind
    <3>3. r \in awaited[<<"config", s>>]
      BY <3>1, <3>2, <2>3, <1>p DEF SiblingsUnwind
    <3> QED
      BY <3>3, <2>1, <2>3, <1>p, OthersOnlyUnwind
  <2> QED
    BY <2>1, <2>2, <2>3, <1>p, IntoTransaction
<1>2. ASSUME NEW s \in Session, phase'[s] \in Tentative, NEW r \in open' \ {s}
      PROVE  phase'[r] \in Harmless
  <2>1. r \in Session /\ phase'[s] \in InTransaction
    BY <1>p, <1>2
  <2>2. CASE IsolationAcquired(s)
    BY <2>2, <2>1, <1>p, <1>2 DEF IsolationAcquired, SiblingsUnwind
  <2>3. CASE activeConfig = s /\ phase[s] \in Tentative
    <3>1. r \in open => phase[r] \in Harmless
      BY <2>3, <1>p, <1>2 DEF TransactionIsAlone
    <3> QED
      BY <3>1, <2>1, <2>3, <1>2, <1>p, OthersOnlyUnwind
  <2> QED
    BY <2>1, <2>2, <2>3, <1>p, <1>2, IntoTransaction
<1>3. current' # None => activeConfig' = None /\ queue' = <<>>
  BY DEF Reservations, SwitchIsAlone, HeadIsActive
<1> QED
  BY <1>1, <1>2, <1>3, <1>p DEF TransactionIsAlone

(* No directory has a switch and a transaction at the same time; while a   *)
(* transaction prepares, commits and completes, every other session of its *)
(* directory is idle or queued behind it.                                  *)
THEOREM TransactionsAreAlone == Spec => []TransactionIsAlone
<1> DEFINE Inv == Reservations /\ SiblingsUnwind /\ TransactionIsAlone
<1>1. Init => Inv
  BY InitReservations DEF Init, SiblingsUnwind, TransactionIsAlone, InTransaction
<1>2. Inv /\ [Next]_vars => Inv'
  BY ReservationsInductive, IsolationInductive
<1>3. Inv => TransactionIsAlone
  OBVIOUS
<1> QED
  BY <1>1, <1>2, <1>3, PTL DEF Spec

-----------------------------------------------------------------------------
(* Every operation of the directory unwinds before a switch cleans up: none*)
(* begins while a switch is reserved, and an older intent never becomes the*)
(* newest again.                                                           *)
LEMMA SwitchInductive ==
  ASSUME Reservations, SwitchUnwinds, [Next]_vars
  PROVE  SwitchUnwinds'
<1> USE DEF sessionVars, opVars, configVars, switchVars
<1>p. /\ phase \in [Session -> Phases] /\ awaited \in [Waiter -> SUBSET Session]
      /\ open \subseteq Session /\ switch \in [Switch -> SwitchRecord]
      /\ Switch \subseteq Waiter
      /\ \A r \in SwitchRecord : "step" \in DOMAIN r
  BY DEF Waiter, SwitchRecord, Reservations, TypeOK
<1> SUFFICES ASSUME NEW i \in Switch, current' = i
             PROVE  /\ switch'[i].step = "invalidating" =>
                         \A s \in open' : Busy(s)' => s \in awaited'[i]
                    /\ switch'[i].step = "cleaning" => \A s \in open' : ~Busy(s)'
  BY DEF SwitchUnwinds
<1>n. i # None
  BY DevelopmentAssumption
<1> DEFINE Unwinds == /\ switch[i].step = "invalidating" =>
                           \A s \in open : Busy(s) => s \in awaited[i]
                      /\ switch[i].step = "cleaning" => \A s \in open : ~Busy(s)
<1>u. current = i => Unwinds
  BY DEF SwitchUnwinds
<1>1. ASSUME NEW x \in Switch, NEW s \in Session, NEW r \in Runtime, ReserveSwitch(x, s, r)
      PROVE  Unwinds'
  <2>1. x = i /\ switch'[i].step = "queued"
    BY <1>1, <1>p DEF ReserveSwitch
  <2> QED
    BY <2>1
<1>2. ASSUME current = i, switch' = switch, open' = open, UNCHANGED awaited,
             \A s \in Session : Busy(s)' => Busy(s)
      PROVE  Unwinds'
  BY <1>2, <1>u, <1>p
<1>3. ASSUME NEW s \in Session, BeginOperation(s) \/ Launch(s) \/ ReserveConfig(s) PROVE FALSE
  BY <1>3, <1>n DEF BeginOperation, Launch, ReserveConfig, AssertCurrent, NoSwitchReserved
<1>4. ASSUME NEW s \in Session, EndOperation(s) PROVE Unwinds'
  BY <1>4, <1>u, <1>p DEF EndOperation, Settle, Busy
<1>5. ASSUME NEW s \in Session, InvalidateOperation(s) \/ RuntimeExit(s) \/ RestartTerminal(s)
      PROVE  Unwinds'
  BY <1>2, <1>5 DEF InvalidateOperation, RuntimeExit, RestartTerminal, Busy
<1>6. ASSUME NEW s \in Session, OpenSession(s) PROVE Unwinds'
  <2>1. ~Busy(s) /\ UNCHANGED <<phase, current, switch, awaited>> /\ open' = open \cup {s}
    BY <1>6 DEF OpenSession, Reservations, NeverReopened
  <2> QED
    BY <2>1, <1>u DEF Busy
<1>7. ASSUME NEW s \in Session, BeginClose(s) PROVE Unwinds'
  <2>1. <<"close", s>> \notin Switch
    BY DevelopmentAssumption
  <2>2. awaited'[i] = awaited[i]
    BY <1>7, <2>1, <1>p DEF BeginClose, InvalidateAndWait
  <2> QED
    BY <1>7, <1>u, <2>2 DEF BeginClose, Busy
<1>8. ASSUME NEW s \in Session, EndClose(s) PROVE Unwinds'
  BY <1>8, <1>u DEF EndClose, Busy
<1>9. ASSUME NEW s \in Session, TransactionStep(s) PROVE FALSE
  <2>1. queue = <<>> /\ current # None
    BY <1>9, <1>n DEF TransactionStep, ActivateConfig, ActivateTooLate, IsolationAcquired,
       IsolationLost, CommitConfig, PrepareFails, Relaunch, CompleteConfig, RollBackConfig,
       Reservations, SwitchIsAlone
  <2>2. phase[s] \notin {"queued"} \cup InTransaction
    BY <2>1 DEF Reservations, Line, Reserved
  <2> QED
    BY <1>9, <2>2 DEF TransactionStep, ActivateConfig, ActivateTooLate, IsolationAcquired,
       IsolationLost, CommitConfig, PrepareFails, Relaunch, CompleteConfig, RollBackConfig,
       InTransaction
<1>10. ASSUME NEW x \in Switch, x # i, SwitchStep(x) PROVE Unwinds'
  <2>1. /\ current = i /\ UNCHANGED <<open, phase>> /\ switch'[i] = switch[i]
        /\ awaited'[i] = awaited[i]
    BY <1>10, <1>n, <1>p DEF SwitchStep, StartSwitch, InvalidateSessions, InvalidateAndWait,
       CleanUp, CommitSwitch, AbandonSwitch, Proceed, Release, Stable
  <2> QED
    BY <2>1, <1>u DEF Busy
<1>11. CASE StartSwitch(i)
  BY <1>11, <1>p DEF StartSwitch, Proceed
<1>12. CASE InvalidateSessions(i)
  BY <1>12, <1>p DEF InvalidateSessions, InvalidateAndWait, Proceed, Busy
<1>13. CASE CleanUp(i)
  BY <1>13, <1>p, <1>u DEF CleanUp, Proceed, Stable, Busy
<1>14. CASE CommitSwitch(i) \/ AbandonSwitch(i)
  BY <1>14, <1>n, <1>p DEF CommitSwitch, AbandonSwitch, Release
<1>15. CASE UNCHANGED vars
  BY <1>15, <1>u DEF vars, Busy
<1> QED
  BY <1>1, <1>3, <1>4, <1>5, <1>6, <1>7, <1>8, <1>9, <1>10, <1>11, <1>12, <1>13, <1>14,
     <1>15 DEF Next, OperationStep, SwitchStep

(* The profile is replaced and restored only while nobody else works.      *)
LEMMA ProfileInductive ==
  ASSUME Reservations, TransactionIsAlone, ReadsCurrentProfile, [Next]_vars
  PROVE  ReadsCurrentProfile'
<1> USE DEF sessionVars, opVars, configVars, switchVars, ReadsCurrentProfile
<1>p. /\ phase \in [Session -> Phases] /\ seen \in [Session -> Profile \cup {None}]
      /\ open \subseteq Session
      /\ InTransaction = {"isolating", "preparing", "completing", "relaunching"}
  BY DEF Reservations, TypeOK, InTransaction
<1>1. ASSUME NEW s \in Session, BeginOperation(s) PROVE ReadsCurrentProfile'
  BY <1>1, <1>p DEF BeginOperation
<1>2. ASSUME NEW s \in Session, open' \subseteq open, UNCHANGED <<profile, seen>>,
             phase' = phase \/ \E p : p # "working" /\ phase' = [phase EXCEPT ![s] = p]
      PROVE  ReadsCurrentProfile'
  BY <1>2, <1>p
<1>3. ASSUME NEW s \in Session,
             \/ Launch(s) \/ InvalidateOperation(s) \/ RuntimeExit(s) \/ RestartTerminal(s)
             \/ BeginClose(s) \/ EndClose(s) \/ ReserveConfig(s)
      PROVE  ReadsCurrentProfile'
  BY <1>2, <1>3 DEF Launch, InvalidateOperation, RuntimeExit, RestartTerminal, BeginClose,
     EndClose, ReserveConfig
<1>4. ASSUME NEW s \in Session, EndOperation(s) PROVE ReadsCurrentProfile'
  BY <1>4, <1>p DEF EndOperation, Settle
<1>5. ASSUME NEW s \in Session, OpenSession(s) PROVE ReadsCurrentProfile'
  BY <1>5, <1>p DEF OpenSession, Reservations, NeverReopened, Busy
<1>6. ASSUME NEW s \in Session,
             \/ ActivateConfig(s) \/ ActivateTooLate(s) \/ IsolationAcquired(s)
             \/ IsolationLost(s) \/ PrepareFails(s) \/ Relaunch(s) \/ CompleteConfig(s)
      PROVE  ReadsCurrentProfile'
  BY <1>2, <1>6 DEF ActivateConfig, ActivateTooLate, IsolationAcquired, IsolationLost,
     PrepareFails, Relaunch, CompleteConfig, FinishTransaction
<1>7. ASSUME NEW s \in Session, CommitConfig(s) \/ RollBackConfig(s) PROVE ReadsCurrentProfile'
  <2>1. phase[s] \in InTransaction \ {"isolating"}
    BY <1>7, <1>p DEF CommitConfig, RollBackConfig
  <2>2. \A r \in open \ {s} : phase[r] \in {"idle", "queued"}
    BY <2>1 DEF TransactionIsAlone
  <2>3. \A r \in open : phase'[r] # "working"
    BY <1>7, <2>2, <1>p DEF CommitConfig, RollBackConfig, FinishTransaction
  <2> QED
    BY <1>7, <2>3 DEF CommitConfig, RollBackConfig
<1>8. ASSUME NEW i \in Switch,
             SwitchStep(i) \/ \E x \in Session, e \in Runtime : ReserveSwitch(i, x, e)
      PROVE  ReadsCurrentProfile'
  BY <1>8 DEF SwitchStep, ReserveSwitch, StartSwitch, InvalidateSessions, CleanUp,
     CommitSwitch, AbandonSwitch
<1>9. CASE UNCHANGED vars
  BY <1>9 DEF vars
<1> QED
  BY <1>1, <1>3, <1>4, <1>5, <1>6, <1>7, <1>8, <1>9 DEF Next, OperationStep, TransactionStep

(* The invariant all the theorems rest on.                                 *)
LEMMA Inductive == Spec => []IInv
<1>1. Init => IInv
  BY InitReservations, DevelopmentAssumption
     DEF Init, IInv, SiblingsUnwind, TransactionIsAlone, InTransaction, SwitchUnwinds,
         ReadsCurrentProfile
<1>2. IInv /\ [Next]_vars => IInv'
  BY ReservationsInductive, IsolationInductive, SwitchInductive, ProfileInductive DEF IInv
<1> QED
  BY <1>1, <1>2, PTL DEF Spec

(* The engine of a directory is replaced only when no operation of its     *)
(* sessions is running, unwinding ones included, and no engine runs.       *)
THEOREM CommitsAreQuiet == Spec => QuietCommit
<1> DEFINE Quiet == \A i \in Switch : CommitSwitch(i) =>
                      /\ open \cap active = {}
                      /\ \A s \in open : ~Busy(s)
<1>1. IInv => Quiet
  BY DEF IInv, SwitchUnwinds, CommitSwitch, Stable
<1>2. IInv /\ [Next]_vars => [Quiet]_vars
  BY <1>1
<1> QED
  BY <1>2, Inductive, PTL DEF Spec, QuietCommit

(* A session is never launched with a profile that was replaced since its  *)
(* operation read it, nor with one a transaction may still roll back.      *)
THEOREM LaunchesAreCurrent == Spec => LaunchUsesPersistedProfile
<1> DEFINE Current == \A s \in Session : Launch(s) => seen[s] = profile /\ snapshot = None
<1>1. ASSUME IInv, NEW s \in Session, Launch(s) PROVE seen[s] = profile /\ snapshot = None
  <2>1. s \in open /\ seen[s] = profile
    BY <1>1 DEF IInv, ReadsCurrentProfile, Launch, AssertCurrent
  <2>2. activeConfig # s
    BY <1>1 DEF IInv, Reservations, HeadIsActive, InTransaction, Launch
  <2>3. activeConfig = None
    BY <1>1, <2>2 DEF Launch, AssertCurrent, ConfigAllows
  <2> QED
    BY <1>1, <2>1, <2>3 DEF IInv, Reservations, HeadIsActive
<1>2. IInv /\ [Next]_vars => [Current]_vars
  BY <1>1
<1> QED
  BY <1>2, Inductive, PTL DEF Spec, LaunchUsesPersistedProfile
=============================================================================
