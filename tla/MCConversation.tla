--------------------------- MODULE MCConversation ---------------------------
(* Conversation for TLC: threads, conversations and models are interchangeable. *)
EXTENDS Conversation, TLC

Symmetry == Permutations(Threads) \cup Permutations(Convs) \cup Permutations(Models)
=============================================================================
