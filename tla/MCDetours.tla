----------------------------- MODULE MCDetours -----------------------------
EXTENDS Detours

CONSTANTS c1, c2, i1

(* Two modules of one lesson each.                                         *)
MCModuleOf == <<1, 2>>

(* A confident error in one concept, and a node that fails on both.        *)
MCSignals ==
    {[trigger |-> "confident_error", left |-> {c1}, item |-> i1],
     [trigger |-> "reinforcement_low", left |-> {c1, c2}, item |-> None]}
=============================================================================
