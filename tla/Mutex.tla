-------------------------------- MODULE Mutex --------------------------------
(***************************************************************************)
(* What an exclusive lock promises: at most one client at a time holds it. *)
(* A client stops holding it by releasing it or by dying.  The lock files  *)
(* of the listener and of the cron scheduler are shown to implement this.  *)
(***************************************************************************)
CONSTANT Clients

VARIABLE holders

Init == holders = {}

Acquire(c) == holders = {} /\ holders' = {c}

LetGo(c) == c \in holders /\ holders' = holders \ {c}

Next == \E c \in Clients : Acquire(c) \/ LetGo(c)

Spec == Init /\ [][Next]_holders
=============================================================================
