---------------------------- MODULE SessionLock ----------------------------
(***************************************************************************)
(* What the session operation coordinator promises its callers, without    *)
(* leases, promises or revisions: one operation at a time works on a       *)
(* session (its holder), and at most one operation, the newest claimant,   *)
(* is entitled to take over when the holder is gone (its heir).  An        *)
(* operation that lost its claim never works on the session at all.        *)
(***************************************************************************)
CONSTANTS Session, Op, None

VARIABLES holder, heir, spent

vars == <<holder, heir, spent>>

TypeOK == /\ holder \in [Session -> Op \cup {None}]
          /\ heir \in [Session -> Op \cup {None}]
          /\ spent \subseteq Op

Init == /\ holder = [s \in Session |-> None]
        /\ heir = [s \in Session |-> None]
        /\ spent = {}

(* An idle session that nobody claims is taken at once.                    *)
Acquire(s, o) == /\ holder[s] = None /\ heir[s] = None
                 /\ o \notin spent
                 /\ holder' = [holder EXCEPT ![s] = o]
                 /\ spent' = spent \cup {o}
                 /\ UNCHANGED heir

(* A newer claim replaces an older one, for good.                          *)
Claim(s, o) == /\ o \notin spent
               /\ heir' = [heir EXCEPT ![s] = o]
               /\ spent' = spent \cup {o}
               /\ UNCHANGED holder

(* The claim is revoked.                                                   *)
Revoke(s) == /\ heir' = [heir EXCEPT ![s] = None]
             /\ UNCHANGED <<holder, spent>>

(* The heir takes over, but only a session that has no holder any more.    *)
Inherit(s) == /\ holder[s] = None /\ heir[s] # None
              /\ holder' = [holder EXCEPT ![s] = heir[s]]
              /\ heir' = [heir EXCEPT ![s] = None]
              /\ UNCHANGED spent

Release(s) == /\ holder[s] # None
              /\ holder' = [holder EXCEPT ![s] = None]
              /\ UNCHANGED <<heir, spent>>

Next == \E s \in Session :
          \/ \E o \in Op : Acquire(s, o) \/ Claim(s, o)
          \/ Revoke(s) \/ Inherit(s) \/ Release(s)

Spec == Init /\ [][Next]_vars
=============================================================================
