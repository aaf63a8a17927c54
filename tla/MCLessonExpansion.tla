------------------------- MODULE MCLessonExpansion -------------------------
EXTENDS LessonExpansion

(* The first lesson cites nothing, nor does the rewritten second one once  *)
(* it is edited.                                                           *)
MCClaimless == {<<1, 0, FALSE>>, <<2, 1, TRUE>>}
=============================================================================
