\* Two sessions with room for one open decision: two launches, two answers,
\* one interference.
CONSTANTS
  Session = {s1, s2}
  MaxLaunches = 2
  MaxAnswers = 2
  MaxDecisions = 3
  MaxPending = 1
  MaxRecords = 2
  MaxEvents = 1
  Nothing = Nothing
  Other = Other

SPECIFICATION FairDecisionSpec

INVARIANTS
  LiveDecisionIsNewest

PROPERTIES
  EntersUndisturbed
  
  DecisionsEnd

\* The launches and answers end.
CHECK_DEADLOCK FALSE
