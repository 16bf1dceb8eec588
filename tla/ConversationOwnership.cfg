\* Two conversations, two tabs; the user's requests do not overlap.
CONSTANTS
    Conversations = {c1, c2}
    Tabs = {t1, t2}
    Requests = {r1, r2}
    MaxPty = 2
    MaxNative = 2
    Overlaps = {}
    None = None
SPECIFICATION Spec
SYMMETRY Symmetry
CHECK_DEADLOCK FALSE
  
PROPERTIES EntryKeepsItsConversation
