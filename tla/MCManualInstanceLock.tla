------------------------ MODULE MCManualInstanceLock ------------------------
(* Four listeners: a dead owner, a recoverer that dies too, and two more     *)
(* that meet what the first two left behind.                                 *)
EXTENDS ManualInstanceLock, TLC

CONSTANTS p1, p2, p3, p4, p5

MCProcs == {p1, p2, p3, p4}
MCFiveProcs == {p1, p2, p3, p4, p5}

\* The failures under which the exclusion is promised: all but those of the
\* claim's owner before the stale file is gone.
MCSomeFail == {"link", "readClaim"}
MCBeforeUnlink == {"confirm"}

ProcSymmetry == Permutations(MCFiveProcs)
=============================================================================
