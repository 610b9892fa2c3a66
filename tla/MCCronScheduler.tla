-------------------------- MODULE MCCronScheduler --------------------------
EXTENDS CronScheduler, TLC
CONSTANTS l1, l2, c, a, once, hourly
MCTwo == {l1, l2}
MCProcs == {l1, c, a}
MCScope == l1 :> "local" @@ c :> "cloud" @@ a :> "all"
MCTwoScope == l1 :> "local" @@ l2 :> "all"
MCHourly == hourly :> "cloud"
MCOnce == once :> "local"
MCNoLane == <<>>
MCFires == [t \in Tasks |-> IF t = once THEN 2 ELSE 0]
=============================================================================
