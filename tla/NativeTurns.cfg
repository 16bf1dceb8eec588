\* Three prompts, three native lives a run, two failed saves, two ends.  Left
\* out: a hand-over that cannot be noted, a prompt that overtakes the idle of
\* the last, and the interruptions after which a turn's handler waits forever.
CONSTANTS
    Prompt = {p1, p2, p3}
    FailingSaves = {"prepare", "confirm", "clean", "reserve"}
    Interruptions = {}
    IdleOvertaken = FALSE
    MaxGeneration = 3
    MaxFailures = 2
    MaxEnds = 2
    None = None
SPECIFICATION Spec
SYMMETRY Symmetry
CHECK_DEADLOCK FALSE
INVARIANTS JournalTellsTheTruth 
