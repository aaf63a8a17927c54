--------------------------- MODULE MCBatchRunner ---------------------------
EXTENDS BatchRunner
CONSTANTS b1, b2, i1, i2
MCItems == {i1, i2}
MCOne == {b1}
MCTwo == {b1, b2}
(* One batch of two requests.                                              *)
MCWork == [b \in MCOne |-> MCItems]
(* A batch of two requests and one that asks one of them again.            *)
MCSharedWork == [b \in MCTwo |-> IF b = b1 THEN MCItems ELSE {i2}]
(* Two batches of the same single request.                                 *)
MCSmallWork == [b \in MCTwo |-> {i1}]
=============================================================================
