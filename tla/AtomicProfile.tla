--------------------------- MODULE AtomicProfile ---------------------------
(***************************************************************************)
(* What a project's stored connection profile promises to whoever reads it *)
(* while no transaction is half done: it only ever changes by a writer who *)
(* saves for the first time.  A value that was replaced never comes back,  *)
(* so no failed attempt undoes a newer save, and an attempt that failed    *)
(* leaves no trace.                                                        *)
(***************************************************************************)
CONSTANTS Scope,        \* profiles, one per directory or conversation
          Writer,       \* whoever may save, each of them once
          Original

VARIABLES value,        \* scope -> the writer whose profile is stored
          spent         \* writers that have saved

Init == /\ value = [c \in Scope |-> Original]
        /\ spent = {}

Save(c, w) ==
  /\ w \notin spent
  /\ value' = [value EXCEPT ![c] = w]
  /\ spent' = spent \cup {w}

Next == \E c \in Scope, w \in Writer : Save(c, w)

Spec == Init /\ [][Next]_<<value, spent>>
=============================================================================
