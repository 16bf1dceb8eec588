\* A conversation, a deletion and a closure over two tabs.
CONSTANTS
    Conversation = {c1}
    Tab = {t1, t2}
    Deletion = {d1}
    Closure = {k1}
    Kinds = {"continue", "resume", "authorized-resume", "switch"}
    None = None
SPECIFICATION Spec
CHECK_DEADLOCK FALSE
INVARIANTS DeletedIsNotResumed 
PROPERTIES  LastWordCounts CommandsEnd
