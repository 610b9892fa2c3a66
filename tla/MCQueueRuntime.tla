--------------------------- MODULE MCQueueRuntime ---------------------------
(* Soft limit 2 under ceiling 3: overflow by a barrier, refusal and the drop *)
(* of the oldest coalescable item all happen within five items.              *)
EXTENDS QueueRuntime

CONSTANTS s1, s2

MCScopes == {s1, s2}

MCInputs ==
  {[kind |-> "message", source |-> "user", scope |-> s1],
   [kind |-> "message", source |-> "user", scope |-> s2],
   [kind |-> "cron_prompt", source |-> "system", scope |-> s1],
   [kind |-> "approval_result", source |-> "system", scope |-> s1]}
=============================================================================
