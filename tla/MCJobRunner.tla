---------------------------- MODULE MCJobRunner ----------------------------
EXTENDS JobRunner
CONSTANTS j1, j2
MCJobs == {j1, j2}
MCPriority == [j \in MCJobs |-> IF j = j1 THEN 1 ELSE 0]
MCOneJob == {j1}
MCOnePriority == [j \in MCOneJob |-> 0]
=============================================================================
