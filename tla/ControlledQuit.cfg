\* Two requests to quit, up to five prompts, two events around them.
CONSTANTS
  MaxRequests = 2
  MaxPrompts = 5
  MaxEvents = 2
  NoPrompt = NoPrompt

SPECIFICATION FairQuitSpec

INVARIANTS
  PromptsAgree

PROPERTIES
  UserDecides
  QuitResolves

\* The process ends.
CHECK_DEADLOCK FALSE
