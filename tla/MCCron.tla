-------------------------------- MODULE MCCron --------------------------------
(* Cron with one or two workers and one or two jobs: `all` may repeat the  *)
(* missed calls and may be limited to a number of them, `one` has no limit. *)
EXTENDS Cron, TLC

CONSTANTS w1, w2, all, one

TwoWorkers == {w1, w2}
OneWorker == {w1}
TwoJobs == {all, one}
OneJob == {all}

MCPriority == [j \in Job |-> IF j = all THEN 2 ELSE 1]
MCNumber == [j \in Job |-> IF j = all THEN 2 ELSE -1]
Unlimited == [j \in Job |-> -1]
MCDoAll == {all}
NoDoAll == {}

=============================================================================
