-------------------------- MODULE MCGenerationRun --------------------------
EXTENDS GenerationRun
(* A run in the foreground or in economy mode, and a regeneration.         *)
MCOptions ==
    {[kept |-> FALSE, waiting |-> TRUE, over |-> FALSE],
     [kept |-> FALSE, waiting |-> FALSE, over |-> FALSE],
     [kept |-> TRUE, waiting |-> TRUE, over |-> FALSE]}
=============================================================================
