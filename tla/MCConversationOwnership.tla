----------------------- MODULE MCConversationOwnership -----------------------
(* A symmetry set for ConversationOwnership: handlers, conversations and     *)
(* tabs are only compared with one another.                                  *)
EXTENDS ConversationOwnership, TLC

Symmetry == Permutations(Requests) \cup Permutations(Conversations) \cup Permutations(Tabs)
=============================================================================
