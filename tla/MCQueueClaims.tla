--------------------------- MODULE MCQueueClaims ---------------------------
(* What the documents say of the pending queues, checked against the code. *)
EXTENDS MCQueueSystem

(* Every queued entry reaches one definite end: it is not executed again    *)
(* once it was (dequeue_before_execute, and the completed plan P7's list of  *)
(* terminal states of an entry).                                            *)
EntriesRunOnce == \A s \in Serials : ran[s] <= 1
=============================================================================
