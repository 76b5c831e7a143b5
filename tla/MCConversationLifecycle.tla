---------------------- MODULE MCConversationLifecycle ----------------------
(* Small instances of ConversationLifecycle. *)
EXTENDS ConversationLifecycle

\* Requests of one kind are interchangeable.
LifecycleSymmetry ==
    Permutations(Workflow) \cup Permutations(Clink)
        \cup Permutations((Caller \ Clink) \ Workflow)
=============================================================================
