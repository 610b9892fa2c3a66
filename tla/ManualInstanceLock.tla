------------------------- MODULE ManualInstanceLock -------------------------
(***************************************************************************)
(* The lock file that keeps two standalone listeners of one machine from   *)
(* serving the same registration slot.  The file is published by a hard    *)
(* link, so it appears with its record or not at all.  The file of a dead  *)
(* owner is taken away by whoever holds a recovery claim for that record:  *)
(* claims are files of their own, one per depth, and a claim whose owner   *)
(* died is passed by claiming the next depth.  Every file operation is a   *)
(* step of its own; a process may die between any two of them.             *)
(***************************************************************************)
EXTENDS Integers, FiniteSets

CONSTANTS
  Procs,    \* listener processes; each runs the command once
  NoProc,
  Depths,   \* RECOVERY_MAX_DEPTH: claims have depths 0 .. Depths - 1
  IoFails   \* the file operations that may fail for another reason than
            \* the file being there, or not being there

FileOps == {"link", "readLock", "linkClaim", "readClaim", "confirm", "unlink", "cleanup"}

ASSUME ProcAssumption == NoProc \notin Procs
ASSUME DepthAssumption == Depths \in Nat
ASSUME IoAssumption == IoFails \subseteq FileOps

VARIABLES
  alive,    \* the processes that run
  lock,     \* whose record the lock file holds, or NoProc: no file
  claims,   \* recovery claims: by whose record they are for, and depth
  pc,       \* where each process is in acquireManualListenerLock
  stale,    \* the record it recovers (incumbentContents)
  seen,     \* the owner it read last (incumbent, claimOwner)
  depth,    \* the depth it claims, or cleans up next
  ends      \* where it goes after cleanupRecoveryClaims

vars == <<alive, lock, claims, pc, stale, seen, depth, ends>>

Recovering == {"claim", "readClaim", "checkClaim", "confirm", "unlink", "cleanup"}
Trying == {"publish", "inspect", "check"} \cup Recovering
Holding == {"held", "releasing"}
Refused == {"refused", "unavailable"}
Level == 0 .. Depths - 1
PCs == {"idle", "failed", "released"} \cup Trying \cup Holding \cup Refused

TypeOK ==
  /\ alive \subseteq Procs
  /\ lock \in Procs \cup {NoProc}
  /\ claims \in [Procs \X Level -> Procs \cup {NoProc}]
  /\ pc \in [Procs -> PCs]
  /\ stale \in [Procs -> Procs \cup {NoProc}]
  /\ seen \in [Procs -> Procs \cup {NoProc}]
  /\ depth \in [Procs -> 0 .. Depths]
  /\ ends \in [Procs -> {"publish", "failed"}]

Init ==
  /\ alive = Procs
  /\ lock = NoProc
  /\ claims = [c \in Procs \X Level |-> NoProc]
  /\ pc = [p \in Procs |-> "idle"]
  /\ stale = [p \in Procs |-> NoProc]
  /\ seen = [p \in Procs |-> NoProc]
  /\ depth = [p \in Procs |-> 0]
  /\ ends = [p \in Procs |-> "publish"]

-----------------------------------------------------------------------------
At(p, place) == p \in alive /\ pc[p] = place

GoTo(p, place) == pc' = [pc EXCEPT ![p] = place]

\* A file operation of p fails, and acquireManualListenerLock throws.
Fails(p, op) ==
  /\ op \in IoFails
  /\ GoTo(p, "failed")

\* Which process starts next makes no difference.
NextProc == CHOOSE p \in alive : pc[p] = "idle"

Start(p) ==
  /\ At(p, "idle")
  /\ p = NextProc
  /\ GoTo(p, "publish")
  /\ UNCHANGED <<alive, lock, claims, stale, seen, depth, ends>>

PublishUnread(p) ==  \* reads the file back and takes its own record for another's
  /\ At(p, "publish")
  /\ lock' = IF lock = NoProc THEN p ELSE lock
  /\ GoTo(p, "inspect")
  /\ UNCHANGED <<alive, claims, stale, seen, depth, ends>>

Publish(p) ==
  /\ At(p, "publish")
  /\ \/ /\ lock = NoProc
        /\ lock' = p
        /\ GoTo(p, "held")
     \/ /\ lock # NoProc
        /\ GoTo(p, "inspect")
        /\ UNCHANGED lock
     \/ Fails(p, "link") /\ UNCHANGED lock
  /\ UNCHANGED <<alive, claims, stale, seen, depth, ends>>

Inspect(p) ==
  /\ At(p, "inspect")
  /\ \/ /\ lock = NoProc
        /\ GoTo(p, "publish")
        /\ UNCHANGED seen
     \/ /\ lock # NoProc
        /\ GoTo(p, "check")
        /\ seen' = [seen EXCEPT ![p] = lock]
     \/ Fails(p, "readLock") /\ UNCHANGED seen
  /\ UNCHANGED <<alive, lock, claims, stale, depth, ends>>

Check(p) ==
  /\ At(p, "check")
  /\ \/ /\ seen[p] \in alive
        /\ GoTo(p, "refused")
        /\ UNCHANGED <<stale, depth>>
     \/ /\ seen[p] \notin alive
        /\ GoTo(p, "claim")
        /\ stale' = [stale EXCEPT ![p] = seen[p]]
        /\ depth' = [depth EXCEPT ![p] = 0]
  /\ UNCHANGED <<alive, lock, claims, seen, ends>>

-----------------------------------------------------------------------------
(* recoverDeadOwner.                                                       *)

ClaimPath(p) == <<stale[p], depth[p]>>

Claim(p) ==
  /\ At(p, "claim")
  /\ \/ /\ depth[p] = Depths
        /\ GoTo(p, "failed")
        /\ UNCHANGED claims
     \/ /\ depth[p] < Depths
        /\ claims[ClaimPath(p)] = NoProc
        /\ claims' = [claims EXCEPT ![ClaimPath(p)] = p]
        /\ GoTo(p, "confirm")
     \/ /\ depth[p] < Depths
        /\ claims[ClaimPath(p)] # NoProc
        /\ GoTo(p, "readClaim")
        /\ UNCHANGED claims
     \/ Fails(p, "linkClaim") /\ UNCHANGED claims
  /\ UNCHANGED <<alive, lock, stale, seen, depth, ends>>

ReadClaim(p) ==
  /\ At(p, "readClaim")
  /\ \/ /\ claims[ClaimPath(p)] = NoProc
        /\ depth' = [depth EXCEPT ![p] = @ + 1]
        /\ GoTo(p, "claim")
        /\ UNCHANGED seen
     \/ /\ claims[ClaimPath(p)] # NoProc
        /\ seen' = [seen EXCEPT ![p] = claims[ClaimPath(p)]]
        /\ GoTo(p, "checkClaim")
        /\ UNCHANGED depth
     \/ Fails(p, "readClaim") /\ UNCHANGED <<seen, depth>>
  /\ UNCHANGED <<alive, lock, claims, stale, ends>>

CheckClaimAny(p) ==  \* passes the claims of the living
  /\ At(p, "checkClaim")
  /\ depth' = [depth EXCEPT ![p] = @ + 1]
  /\ GoTo(p, "claim")
  /\ UNCHANGED <<alive, lock, claims, stale, seen, ends>>

CheckClaimAgain(p) ==  \* tries the claim of a dead owner again
  /\ At(p, "checkClaim")
  /\ GoTo(p, IF seen[p] \in alive THEN "unavailable" ELSE "claim")
  /\ UNCHANGED <<alive, lock, claims, stale, seen, depth, ends>>

CheckClaim(p) ==
  /\ At(p, "checkClaim")
  /\ \/ /\ seen[p] \in alive
        /\ GoTo(p, "unavailable")
        /\ UNCHANGED depth
     \/ /\ seen[p] \notin alive
        /\ depth' = [depth EXCEPT ![p] = @ + 1]
        /\ GoTo(p, "claim")
  /\ UNCHANGED <<alive, lock, claims, stale, seen, ends>>

CleanupThen(p, place) ==
  /\ GoTo(p, "cleanup")
  /\ ends' = [ends EXCEPT ![p] = place]

ConfirmUnread(p) ==  \* trusts what it read before it had the claim
  /\ At(p, "confirm")
  /\ GoTo(p, "unlink")
  /\ UNCHANGED <<alive, lock, claims, stale, seen, depth, ends>>

\* The owner of a claim looks whether the lock still holds the stale record;
\* an unreadable lock is given up, and the claims with it.
Confirm(p) ==
  /\ At(p, "confirm")
  /\ \/ /\ lock = stale[p]
        /\ GoTo(p, "unlink")
        /\ UNCHANGED ends
     \/ lock # stale[p] /\ CleanupThen(p, "publish")
     \/ "confirm" \in IoFails /\ CleanupThen(p, "failed")
  /\ UNCHANGED <<alive, lock, claims, stale, seen, depth>>

\* unlink takes away whatever file is there by now.
Unlink(p) ==
  /\ At(p, "unlink")
  /\ \/ /\ lock # NoProc
        /\ lock' = NoProc
        /\ CleanupThen(p, "publish")
     \/ /\ lock = NoProc \/ "unlink" \in IoFails
        /\ CleanupThen(p, "failed")
        /\ UNCHANGED lock
  /\ UNCHANGED <<alive, claims, stale, seen, depth>>

\* cleanupRecoveryClaims removes every depth from the claimed one down to 0,
\* its own claim or not; a removal that fails is passed over.
Cleanup(p) ==
  /\ At(p, "cleanup")
  /\ \/ claims' = [claims EXCEPT ![ClaimPath(p)] = NoProc]
     \/ "cleanup" \in IoFails /\ UNCHANGED claims
  /\ \/ /\ depth[p] > 0
        /\ depth' = [depth EXCEPT ![p] = @ - 1]
        /\ UNCHANGED pc
     \/ /\ depth[p] = 0
        /\ GoTo(p, ends[p])
        /\ UNCHANGED depth
  /\ UNCHANGED <<alive, lock, stale, seen, ends>>

-----------------------------------------------------------------------------
(* The handle's release, and the end of a process.                         *)

Release(p) ==
  /\ At(p, "held")
  /\ \/ GoTo(p, IF lock = p THEN "releasing" ELSE "released")
     \/ "readLock" \in IoFails /\ GoTo(p, "failed")
  /\ UNCHANGED <<alive, lock, claims, stale, seen, depth, ends>>

ReleaseUnlink(p) ==
  /\ At(p, "releasing")
  /\ \/ lock # NoProc /\ lock' = NoProc /\ GoTo(p, "released")
     \/ /\ lock = NoProc \/ "unlink" \in IoFails
        /\ GoTo(p, "failed")
        /\ UNCHANGED lock
  /\ UNCHANGED <<alive, claims, stale, seen, depth, ends>>

Die(p) ==
  /\ p \in alive
  /\ pc[p] # "idle"
  /\ alive' = alive \ {p}
  /\ GoTo(p, "idle")
  /\ stale' = [stale EXCEPT ![p] = NoProc]
  /\ seen' = [seen EXCEPT ![p] = NoProc]
  /\ depth' = [depth EXCEPT ![p] = 0]
  /\ ends' = [ends EXCEPT ![p] = "publish"]
  /\ UNCHANGED <<lock, claims>>

-----------------------------------------------------------------------------
Acquiring(p) ==
  \/ Publish(p)
  \/ Inspect(p)
  \/ Check(p)
  \/ Claim(p)
  \/ ReadClaim(p)
  \/ CheckClaim(p)
  \/ Confirm(p)
  \/ Unlink(p)
  \/ Cleanup(p)

Next ==
  \E p \in Procs :
    Start(p) \/ Acquiring(p) \/ Release(p) \/ ReleaseUnlink(p) \/ Die(p)

Spec == Init /\ [][Next]_vars

\* A running process goes on with its file operations.
FairSpec == Spec /\ \A p \in Procs : WF_vars(Acquiring(p))

-----------------------------------------------------------------------------
Holders == {p \in alive : pc[p] \in Holding}

\* Two listeners never serve the same registration slot: the one that
\* recovers a dead owner's file never takes away a newer one.
MutualExclusion == \A p, q \in Holders : p = q

\* The lock file implements an exclusive lock, whoever dies and whenever.
M == INSTANCE Mutex WITH Clients <- Procs, holders <- Holders
ImplementsMutex == M!Spec

\* Listeners that start together are never all sent away on account of each
\* other: following the owners they were refused for leads to one that was
\* not refused.
NoMutualRefusal ==
  \A C \in SUBSET {p \in alive : pc[p] \in Refused} :
    C # {} => \E p \in C : seen[p] \notin C

\* acquireManualListenerLock loops without a bound and passes the claims of
\* the dead; it returns or throws all the same.
AcquireEnds ==
  \A p \in Procs : pc[p] \in Trying ~> (pc[p] \notin Trying \/ p \notin alive)
=============================================================================
