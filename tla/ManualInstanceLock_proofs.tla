----------------------- MODULE ManualInstanceLock_proofs -----------------------
(***************************************************************************)
(* Proofs, for any number of processes and any depth of the claim chain,   *)
(* that the lock file of standalone listeners excludes, and implements     *)
(* Mutex, as long as the owner of a claim can read and unlink the file;    *)
(* and that, whatever fails, no listeners send each other away (Ordered:   *)
(* the records have an order, in which refusals only look forward).        *)
(***************************************************************************)
EXTENDS ManualInstanceLock, WellFoundedInduction, TLAPS

\* What each place of the code knows about its own variables.
Located ==
  \A p \in Procs :
    /\ pc[p] \in {"readClaim", "checkClaim", "confirm", "unlink", "cleanup"} =>
         depth[p] < Depths
    /\ pc[p] \in {"check", "checkClaim"} => seen[p] \in Procs
    /\ pc[p] \in Recovering => stale[p] \in Procs \ alive

HoldersOwn == \A p \in Holders : lock = p

\* While the stale record is in the lock file, no claim for it is removed:
\* whoever is at some depth has dead owners below it.
Chained(p) ==
  /\ pc[p] # "cleanup"
  /\ \A d \in Level : d < depth[p] => claims[<<lock, d>>] \in Procs \ alive
  /\ pc[p] = "readClaim" => claims[<<lock, depth[p]>>] \in Procs
  /\ pc[p] = "checkClaim" => claims[<<lock, depth[p]>>] = seen[p]
  /\ pc[p] \in {"confirm", "unlink"} => claims[<<lock, depth[p]>>] = p

ClaimChain == \A p \in alive : pc[p] \in Recovering /\ stale[p] = lock => Chained(p)

UnlinksStale == \A p \in alive : pc[p] = "unlink" => stale[p] = lock

Exclusion == HoldersOwn /\ ClaimChain /\ UnlinksStale

\* Sets of places, for the provers.
LEMMA Places ==
  /\ {"idle", "publish", "inspect", "check", "claim", "readClaim", "checkClaim", "confirm",
      "unlink", "cleanup", "held", "releasing", "released", "refused", "unavailable", "failed"}
       \subseteq PCs
  /\ Recovering = {"claim", "readClaim", "checkClaim", "confirm", "unlink", "cleanup"}
  /\ Holding = {"held", "releasing"}
BY DEF PCs, Trying, Recovering, Holding, Refused

\* Every action keeps the types and what the places know.
LEMMA TypeStep == TypeOK /\ Located /\ [Next]_vars => TypeOK' /\ Located'
<1> SUFFICES ASSUME TypeOK, Located, [Next]_vars
             PROVE  TypeOK' /\ Located'
  OBVIOUS
<1> USE Places, ProcAssumption, DepthAssumption DEF TypeOK, Located, At, GoTo, Level, ClaimPath
<1>1. CASE UNCHANGED vars
  BY <1>1 DEF vars
<1>2. ASSUME NEW p \in Procs,
             Start(p) \/ Acquiring(p) \/ Release(p) \/ ReleaseUnlink(p) \/ Die(p)
      PROVE  TypeOK' /\ Located'
  <2>1. CASE Start(p)
    BY <2>1 DEF Start
  <2>2. CASE Publish(p)
    BY <2>2 DEF Publish, Fails
  <2>3. CASE Inspect(p)
    BY <2>3 DEF Inspect, Fails
  <2>4. CASE Check(p)
    BY <2>4 DEF Check
  <2>5. CASE Claim(p)
    BY <2>5 DEF Claim, Fails
  <2>6. CASE ReadClaim(p)
    BY <2>6 DEF ReadClaim, Fails
  <2>7. CASE CheckClaim(p)
    BY <2>7 DEF CheckClaim
  <2>8. CASE Confirm(p)
    BY <2>8 DEF Confirm, CleanupThen
  <2>9. CASE Unlink(p)
    BY <2>9 DEF Unlink, CleanupThen
  <2>10. CASE Cleanup(p)
    <3>1. claims' \in [Procs \X Level -> Procs \cup {NoProc}]
      BY <2>10 DEF Cleanup
    <3>2. /\ pc' \in [Procs -> PCs]
          /\ depth' \in [Procs -> 0 .. Depths]
          /\ \A q \in Procs \ {p} : pc'[q] = pc[q] /\ depth'[q] = depth[q]
          /\ \/ pc'[p] = ends[p] /\ depth'[p] = 0
             \/ pc'[p] = "cleanup" /\ depth'[p] = depth[p] - 1
      BY <2>10 DEF Cleanup
    <3>3. TypeOK'
      BY <2>10, <3>1, <3>2 DEF Cleanup
    <3>4. QED
      BY <2>10, <3>2, <3>3 DEF Cleanup
  <2>11. CASE Release(p)
    BY <2>11 DEF Release
  <2>12. CASE ReleaseUnlink(p)
    BY <2>12 DEF ReleaseUnlink
  <2>13. CASE Die(p)
    BY <2>13 DEF Die
  <2>14. QED
    BY <1>2, <2>1, <2>2, <2>3, <2>4, <2>5, <2>6, <2>7, <2>8, <2>9, <2>10, <2>11, <2>12, <2>13 DEF Acquiring
<1>3. QED
  BY <1>1, <1>2 DEF Next

ClaimantsSucceed == IoFails \cap {"confirm", "unlink"} = {}

\* Only one living process is past the claim for the record in the lock file:
\* of two, the one below would be dead for the other.
LEMMA OneClaimant ==
  ASSUME TypeOK, Located, ClaimChain,
         NEW p \in alive, NEW q \in alive,
         pc[p] \in {"confirm", "unlink"}, pc[q] \in {"confirm", "unlink"},
         stale[p] = lock, stale[q] = lock
  PROVE  p = q
<1>1. Chained(p) /\ Chained(q)
  BY Places DEF ClaimChain
<1>2. depth[p] \in Level /\ depth[q] \in Level
  BY DepthAssumption DEF TypeOK, Located, Level
<1>3. claims[<<lock, depth[p]>>] = p /\ claims[<<lock, depth[q]>>] = q
  BY <1>1 DEF Chained
<1>4. ~(depth[p] < depth[q]) /\ ~(depth[q] < depth[p])
  BY <1>1, <1>2, <1>3 DEF Chained
<1>5. QED
  BY <1>2, <1>3, <1>4, DepthAssumption DEF Level

\* Every action keeps the exclusion.
LEMMA ExclusionStep ==
  ASSUME ClaimantsSucceed, TypeOK, Located, Exclusion, [Next]_vars
  PROVE  Exclusion'
<1> USE Places, ProcAssumption, DepthAssumption DEF TypeOK, At, GoTo
<1>0. /\ HoldersOwn /\ ClaimChain /\ UnlinksStale
      /\ TypeOK' /\ Located'
  BY TypeStep DEF Exclusion
<1>1. CASE UNCHANGED vars
  BY <1>0, <1>1 DEF vars, Exclusion, HoldersOwn, Holders, ClaimChain, Chained, UnlinksStale
<1>2. ASSUME NEW p \in Procs,
             Start(p) \/ Acquiring(p) \/ Release(p) \/ ReleaseUnlink(p) \/ Die(p)
      PROVE  Exclusion'
  <2>1. CASE Start(p)
    <3>1. HoldersOwn'
      BY <1>0, <2>1 DEF Start, HoldersOwn, Holders, Located
    <3>2. UnlinksStale'
      BY <1>0, <2>1 DEF Start, UnlinksStale, Located
    <3>3. ClaimChain'
      BY <1>0, <2>1 DEF Start, ClaimChain, Chained, Located
    <3>4. QED
      BY <3>1, <3>2, <3>3 DEF Exclusion
  <2>2. CASE Publish(p)
    <3>1. HoldersOwn'
      BY <1>0, <2>2 DEF Publish, Fails, HoldersOwn, Holders, Located
    <3>2. UnlinksStale'
      BY <1>0, <2>2 DEF Publish, Fails, UnlinksStale, Located
    <3>3. ClaimChain'
      BY <1>0, <2>2 DEF Publish, Fails, ClaimChain, Chained, Located
    <3>4. QED
      BY <3>1, <3>2, <3>3 DEF Exclusion
  <2>3. CASE Inspect(p)
    <3>1. HoldersOwn'
      BY <1>0, <2>3 DEF Inspect, Fails, HoldersOwn, Holders, Located
    <3>2. UnlinksStale'
      BY <1>0, <2>3 DEF Inspect, Fails, UnlinksStale, Located
    <3>3. ClaimChain'
      BY <1>0, <2>3 DEF Inspect, Fails, ClaimChain, Chained, Located
    <3>4. QED
      BY <3>1, <3>2, <3>3 DEF Exclusion
  <2>4. CASE Check(p)
    <3>1. HoldersOwn'
      BY <1>0, <2>4 DEF Check, HoldersOwn, Holders, Located
    <3>2. UnlinksStale'
      BY <1>0, <2>4 DEF Check, UnlinksStale, Located
    <3>3. ClaimChain'
      <4> SUFFICES ASSUME NEW q \in alive', pc'[q] \in Recovering, stale'[q] = lock'
                   PROVE  Chained(q)'
        BY DEF ClaimChain
      <4>1. CASE q = p
        BY <1>0, <2>4, <4>1 DEF Check, ClaimChain, Chained, ClaimPath, Located, Level
      <4>2. CASE q # p
        <5>1. /\ pc'[q] = pc[q] /\ depth'[q] = depth[q] /\ seen'[q] = seen[q]
              /\ stale'[q] = stale[q] /\ q \in alive /\ lock' = lock /\ alive' = alive
          BY <2>4, <4>2 DEF Check
        <5>2. Chained(q)
          BY <1>0, <5>1 DEF ClaimChain
        <5>3. QED
          BY <1>0, <2>4, <5>1, <5>2 DEF Check, Chained, ClaimChain, ClaimPath, Located, Level
      <4>3. QED
        BY <4>1, <4>2
    <3>4. QED
      BY <3>1, <3>2, <3>3 DEF Exclusion
  <2>5. CASE Claim(p)
    <3>1. HoldersOwn'
      BY <1>0, <2>5 DEF Claim, Fails, HoldersOwn, Holders, Located
    <3>2. UnlinksStale'
      BY <1>0, <2>5 DEF Claim, Fails, UnlinksStale, Located
    <3>3. ClaimChain'
      <4> SUFFICES ASSUME NEW q \in alive', pc'[q] \in Recovering, stale'[q] = lock'
                   PROVE  Chained(q)'
        BY DEF ClaimChain
      <4>1. CASE q = p
        BY <1>0, <2>5, <4>1 DEF Claim, Fails, ClaimChain, Chained, ClaimPath, Located, Level
      <4>2. CASE q # p
        <5>1. /\ pc'[q] = pc[q] /\ depth'[q] = depth[q] /\ seen'[q] = seen[q]
              /\ stale'[q] = stale[q] /\ q \in alive /\ lock' = lock /\ alive' = alive
          BY <2>5, <4>2 DEF Claim, Fails
        <5>2. Chained(q)
          BY <1>0, <5>1 DEF ClaimChain
        <5>3. QED
          BY <1>0, <2>5, <5>1, <5>2 DEF Claim, Fails, Chained, ClaimChain, ClaimPath, Located, Level
      <4>3. QED
        BY <4>1, <4>2
    <3>4. QED
      BY <3>1, <3>2, <3>3 DEF Exclusion
  <2>6. CASE ReadClaim(p)
    <3>1. HoldersOwn'
      BY <1>0, <2>6 DEF ReadClaim, Fails, HoldersOwn, Holders, Located
    <3>2. UnlinksStale'
      BY <1>0, <2>6 DEF ReadClaim, Fails, UnlinksStale, Located
    <3>3. ClaimChain'
      <4> SUFFICES ASSUME NEW q \in alive', pc'[q] \in Recovering, stale'[q] = lock'
                   PROVE  Chained(q)'
        BY DEF ClaimChain
      <4>1. CASE q = p
        <5>1. /\ lock' = lock /\ claims' = claims /\ alive' = alive /\ stale'[p] = lock
              /\ pc[p] = "readClaim" /\ p \in alive /\ stale[p] = lock
          BY <2>6, <4>1 DEF ReadClaim
        <5>2. Chained(p)
          BY <1>0, <5>1 DEF ClaimChain
        <5>3. /\ pc'[p] = "checkClaim" /\ depth'[p] = depth[p]
              /\ seen'[p] = claims[<<lock, depth[p]>>]
          BY <2>6, <4>1, <5>1, <5>2 DEF ReadClaim, Fails, Chained, ClaimPath
        <5>4. QED
          BY <4>1, <5>1, <5>2, <5>3 DEF Chained
      <4>2. CASE q # p
        <5>1. /\ pc'[q] = pc[q] /\ depth'[q] = depth[q] /\ seen'[q] = seen[q]
              /\ stale'[q] = stale[q] /\ q \in alive /\ lock' = lock /\ alive' = alive
          BY <2>6, <4>2 DEF ReadClaim, Fails
        <5>2. Chained(q)
          BY <1>0, <5>1 DEF ClaimChain
        <5>3. QED
          BY <1>0, <2>6, <5>1, <5>2 DEF ReadClaim, Fails, Chained, ClaimChain, ClaimPath, Located, Level
      <4>3. QED
        BY <4>1, <4>2
    <3>4. QED
      BY <3>1, <3>2, <3>3 DEF Exclusion
  <2>7. CASE CheckClaim(p)
    <3>1. HoldersOwn'
      BY <1>0, <2>7 DEF CheckClaim, HoldersOwn, Holders, Located
    <3>2. UnlinksStale'
      BY <1>0, <2>7 DEF CheckClaim, UnlinksStale, Located
    <3>3. ClaimChain'
      <4> SUFFICES ASSUME NEW q \in alive', pc'[q] \in Recovering, stale'[q] = lock'
                   PROVE  Chained(q)'
        BY DEF ClaimChain
      <4>1. CASE q = p
        <5>1. /\ lock' = lock /\ claims' = claims /\ alive' = alive /\ stale'[p] = lock
              /\ pc[p] = "checkClaim" /\ pc'[p] = "claim" /\ depth'[p] = depth[p] + 1
              /\ p \in alive /\ seen[p] \in Procs \ alive
          BY <2>7, <4>1 DEF CheckClaim, Located
        <5>2. Chained(p)
          BY <1>0, <2>7, <5>1 DEF CheckClaim, ClaimChain
        <5>3. \A d \in Level : d < depth[p] + 1 => d < depth[p] \/ d = depth[p]
          BY DEF Level
        <5>4. QED
          BY <4>1, <5>1, <5>2, <5>3 DEF Chained
      <4>2. CASE q # p
        <5>1. /\ pc'[q] = pc[q] /\ depth'[q] = depth[q] /\ seen'[q] = seen[q]
              /\ stale'[q] = stale[q] /\ q \in alive /\ lock' = lock /\ alive' = alive
          BY <2>7, <4>2 DEF CheckClaim
        <5>2. Chained(q)
          BY <1>0, <5>1 DEF ClaimChain
        <5>3. QED
          BY <1>0, <2>7, <5>1, <5>2 DEF CheckClaim, Chained, ClaimChain, ClaimPath, Located, Level
      <4>3. QED
        BY <4>1, <4>2
    <3>4. QED
      BY <3>1, <3>2, <3>3 DEF Exclusion
  <2>8. CASE Confirm(p)
    <3>1. HoldersOwn'
      BY <1>0, <2>8 DEF Confirm, CleanupThen, ClaimantsSucceed, HoldersOwn, Holders, Located
    <3>2. UnlinksStale'
      BY <1>0, <2>8 DEF Confirm, CleanupThen, ClaimantsSucceed, UnlinksStale, Located
    <3>3. ClaimChain'
      <4> SUFFICES ASSUME NEW q \in alive', pc'[q] \in Recovering, stale'[q] = lock'
                   PROVE  Chained(q)'
        BY DEF ClaimChain
      <4>1. CASE q = p
        BY <1>0, <2>8, <4>1 DEF Confirm, CleanupThen, ClaimantsSucceed, ClaimChain, Chained, ClaimPath, Located, Level
      <4>2. CASE q # p
        <5>1. /\ pc'[q] = pc[q] /\ depth'[q] = depth[q] /\ seen'[q] = seen[q]
              /\ stale'[q] = stale[q] /\ q \in alive /\ lock' = lock /\ alive' = alive
          BY <2>8, <4>2 DEF Confirm, CleanupThen, ClaimantsSucceed
        <5>2. Chained(q)
          BY <1>0, <5>1 DEF ClaimChain
        <5>3. QED
          BY <1>0, <2>8, <5>1, <5>2 DEF Confirm, CleanupThen, ClaimantsSucceed, Chained, ClaimChain, ClaimPath, Located, Level
      <4>3. QED
        BY <4>1, <4>2
    <3>4. QED
      BY <3>1, <3>2, <3>3 DEF Exclusion
  <2>9. CASE Unlink(p)
    <3>1. HoldersOwn'
      BY <1>0, <2>9 DEF Unlink, CleanupThen, ClaimantsSucceed, HoldersOwn, Holders, UnlinksStale, Located
    <3>2. UnlinksStale'
      <4> SUFFICES ASSUME NEW q \in alive, pc'[q] = "unlink"
                   PROVE  FALSE
        BY <2>9 DEF Unlink, UnlinksStale
      <4>1. q # p /\ pc[q] = "unlink" /\ pc[p] = "unlink" /\ p \in alive
        BY <2>9 DEF Unlink, CleanupThen
      <4>2. stale[p] = lock /\ stale[q] = lock
        BY <1>0, <2>9, <4>1 DEF UnlinksStale
      <4>3. QED
        BY <1>0, <2>9, <4>1, <4>2, OneClaimant
    <3>3. ClaimChain'
      BY <1>0, <2>9 DEF Unlink, CleanupThen, ClaimantsSucceed, ClaimChain, Chained, Located
    <3>4. QED
      BY <3>1, <3>2, <3>3 DEF Exclusion
  <2>10. CASE Cleanup(p)
    <3>1. HoldersOwn'
      BY <1>0, <2>10 DEF Cleanup, HoldersOwn, Holders, Located
    <3>2. UnlinksStale'
      BY <1>0, <2>10 DEF Cleanup, UnlinksStale, Located
    <3>3. ClaimChain'
      <4> SUFFICES ASSUME NEW q \in alive', pc'[q] \in Recovering, stale'[q] = lock'
                   PROVE  Chained(q)'
        BY DEF ClaimChain
      <4>1. CASE q = p
        BY <1>0, <2>10, <4>1 DEF Cleanup, ClaimChain, Chained, ClaimPath, Located, Level
      <4>2. CASE q # p
        <5>1. /\ pc'[q] = pc[q] /\ depth'[q] = depth[q] /\ seen'[q] = seen[q]
              /\ stale'[q] = stale[q] /\ q \in alive /\ lock' = lock /\ alive' = alive
          BY <2>10, <4>2 DEF Cleanup
        <5>2. Chained(q)
          BY <1>0, <5>1 DEF ClaimChain
        <5>3. QED
          BY <1>0, <2>10, <5>1, <5>2 DEF Cleanup, Chained, ClaimChain, ClaimPath, Located, Level
      <4>3. QED
        BY <4>1, <4>2
    <3>4. QED
      BY <3>1, <3>2, <3>3 DEF Exclusion
  <2>11. CASE Release(p)
    <3>1. HoldersOwn'
      BY <1>0, <2>11 DEF Release, HoldersOwn, Holders, Located
    <3>2. UnlinksStale'
      BY <1>0, <2>11 DEF Release, UnlinksStale, Located
    <3>3. ClaimChain'
      BY <1>0, <2>11 DEF Release, ClaimChain, Chained, Located
    <3>4. QED
      BY <3>1, <3>2, <3>3 DEF Exclusion
  <2>12. CASE ReleaseUnlink(p)
    <3>1. HoldersOwn'
      BY <1>0, <2>12 DEF ReleaseUnlink, HoldersOwn, Holders, Located
    <3>2. UnlinksStale'
      BY <1>0, <2>12 DEF ReleaseUnlink, UnlinksStale, Located, HoldersOwn, Holders
    <3>3. ClaimChain'
      BY <1>0, <2>12 DEF ReleaseUnlink, ClaimChain, Chained, Located
    <3>4. QED
      BY <3>1, <3>2, <3>3 DEF Exclusion
  <2>13. CASE Die(p)
    <3>1. HoldersOwn'
      BY <1>0, <2>13 DEF Die, HoldersOwn, Holders, Located
    <3>2. UnlinksStale'
      BY <1>0, <2>13 DEF Die, UnlinksStale, Located
    <3>3. ClaimChain'
      BY <1>0, <2>13 DEF Die, ClaimChain, Chained, Located
    <3>4. QED
      BY <3>1, <3>2, <3>3 DEF Exclusion
  <2>14. QED
    BY <1>2, <2>1, <2>2, <2>3, <2>4, <2>5, <2>6, <2>7, <2>8, <2>9, <2>10, <2>11, <2>12, <2>13 DEF Acquiring
<1>3. QED
  BY <1>1, <1>2 DEF Next

LEMMA InitEstablishes == Init => TypeOK /\ Located /\ Exclusion
BY Places, ProcAssumption, DepthAssumption
DEF Init, TypeOK, Located, Exclusion, HoldersOwn, Holders, ClaimChain, UnlinksStale

\* Every variable keeps its type, whatever file operation fails.
THEOREM TypeCorrect == Spec => []TypeOK
<1>1. Init => TypeOK /\ Located
  BY InitEstablishes
<1>2. QED
  BY <1>1, TypeStep, PTL DEF Spec

LEMMA Invariants == ClaimantsSucceed => (Spec => [](TypeOK /\ Located /\ Exclusion))
<1> SUFFICES ASSUME ClaimantsSucceed
             PROVE  Spec => [](TypeOK /\ Located /\ Exclusion)
  OBVIOUS
<1>1. TypeOK /\ Located /\ Exclusion /\ [Next]_vars => (TypeOK /\ Located /\ Exclusion)'
  BY TypeStep, ExclusionStep
<1>2. QED
  BY <1>1, InitEstablishes, PTL DEF Spec

\* At most one listener serves the registration slot, whoever dies and
\* whenever, and whatever fails before a claim is owned or after the stale
\* file is gone.
THEOREM ListenersExclude == ClaimantsSucceed => (Spec => []MutualExclusion)
<1>1. Exclusion => MutualExclusion
  BY DEF Exclusion, HoldersOwn, MutualExclusion
<1>2. QED
  BY <1>1, Invariants, PTL

\* A step of a process is a step of the lock: it acquires, lets go, or does
\* neither.
LEMMA MutexStep ==
  ASSUME TypeOK, Exclusion, Exclusion', [Next]_vars
  PROVE  [M!Next]_Holders
<1> USE Places, ProcAssumption DEF TypeOK, At, GoTo, Holders, Exclusion, HoldersOwn
<1>1. CASE UNCHANGED vars
  BY <1>1 DEF vars
<1>2. ASSUME NEW p \in Procs,
             Start(p) \/ Acquiring(p) \/ Release(p) \/ ReleaseUnlink(p) \/ Die(p)
      PROVE  [M!Next]_Holders
  <2> DEFINE Acquires == Holders = {} /\ Holders' = {p}
             LetsGo == p \in Holders /\ Holders' = Holders \ {p}
  <2>0. Acquires \/ LetsGo => M!Next
    BY DEF M!Next, M!Acquire, M!LetGo
  <2>1. Start(p) => Holders' = Holders
    BY DEF Start
  <2>2. Publish(p) => Acquires \/ Holders' = Holders
    BY DEF Publish, Fails
  <2>3. Inspect(p) => Holders' = Holders
    BY DEF Inspect, Fails
  <2>4. Check(p) => Holders' = Holders
    BY DEF Check
  <2>5. Claim(p) => Holders' = Holders
    BY DEF Claim, Fails
  <2>6. ReadClaim(p) => Holders' = Holders
    BY DEF ReadClaim, Fails
  <2>7. CheckClaim(p) => Holders' = Holders
    BY DEF CheckClaim
  <2>8. Confirm(p) => Holders' = Holders
    BY DEF Confirm, CleanupThen
  <2>9. Unlink(p) => Holders' = Holders
    BY DEF Unlink, CleanupThen
  <2>10. Cleanup(p) => Holders' = Holders
    BY DEF Cleanup
  <2>11. Release(p) => LetsGo \/ Holders' = Holders
    BY DEF Release
  <2>12. ReleaseUnlink(p) => LetsGo
    BY DEF ReleaseUnlink
  <2>13. Die(p) => LetsGo \/ Holders' = Holders
    BY DEF Die
  <2>14. QED
    BY <1>2, <2>0, <2>1, <2>2, <2>3, <2>4, <2>5, <2>6, <2>7, <2>8, <2>9, <2>10, <2>11, <2>12, <2>13 DEF Acquiring
<1>3. QED
  BY <1>1, <1>2 DEF Next

\* The lock file implements the lock.
THEOREM LockFileIsMutex == ClaimantsSucceed => (Spec => ImplementsMutex)
<1> SUFFICES ASSUME ClaimantsSucceed
             PROVE  Spec => ImplementsMutex
  OBVIOUS
<1>1. Init => M!Init
  BY DEF Init, M!Init, Holders, Holding
<1>2. (TypeOK /\ Exclusion) /\ (TypeOK /\ Exclusion)' /\ [Next]_vars => [M!Next]_Holders
  BY MutexStep
<1>3. Spec => [](TypeOK /\ Located /\ Exclusion)
  BY Invariants
<1>4. QED
  BY <1>1, <1>2, <1>3, PTL DEF Spec, ImplementsMutex, M!Spec

-----------------------------------------------------------------------------
(* Refusals *)

\* p had the claim for the record r: its file says so, or a process that met it.
Claimed(p, r) ==
  \/ \E d \in Level : claims[<<r, d>>] = p
  \/ \E c \in Procs : pc[c] \in {"checkClaim", "unavailable"} /\ seen[c] = p /\ stale[c] = r

\* It has published its record, or died, or thrown: it waits for nobody.
Published(p) == p \notin alive \/ pc[p] \in Holding \cup {"released", "failed"}

\* f numbers the records in the order of their publication.  Whoever had the
\* claim for r is still about to use it, or will not be sent away by a claim
\* any more, or is at a record that was published after r.
Past(f, p, r) ==
  \/ Published(p) \/ pc[p] = "refused"
  \/ pc[p] \in {"confirm", "unlink", "cleanup"} /\ stale[p] = r
  \/ /\ lock # r /\ pc[p] # "idle"
     /\ pc[p] = "check" => f[r] < f[seen[p]]
     /\ pc[p] \in Recovering \cup {"unavailable"} => f[r] < f[stale[p]]

Numbers(f, n) ==
  /\ f \in [Procs -> 0 .. n]
  /\ \A p \in Procs : f[p] > 0 => Published(p)
  /\ lock # NoProc => f[lock] = n /\ n > 0 /\ \A r \in Procs \ {lock} : f[r] < n

RecordedAt(f, p) ==
  /\ pc[p] \in {"check", "refused"} => seen[p] \in Procs /\ f[seen[p]] > 0
  /\ pc[p] \in Recovering \cup {"unavailable"} => stale[p] \in Procs /\ f[stale[p]] > 0
  /\ pc[p] = "cleanup" /\ ends[p] = "publish" => lock # stale[p]

Recorded(f) == \A p \in Procs : RecordedAt(f, p)

ClaimsPast(f) == \A p, r \in Procs : Claimed(p, r) => f[r] > 0 /\ Past(f, p, r)

Ordered(f, n) == Numbers(f, n) /\ Recorded(f) /\ ClaimsPast(f)

LEMMA LeastNumber ==
  ASSUME NEW S, S \subseteq Nat, S # {}
  PROVE  \E least \in S : \A k \in S : least <= k
<1> DEFINE Less == {p \in Nat \X Nat : p[1] < p[2]}
<1>1. IsWellFoundedOn(Less, Nat)
  BY NatLessThanWellFounded DEF OpToRel
<1>2. PICK least \in S : \A k \in S : <<k, least>> \notin Less
  BY <1>1, WFMin
<1>3. ASSUME NEW k \in S PROVE least <= k
  <2>1. least \in Nat /\ k \in Nat /\ <<k, least>> \notin Less
    BY <1>2
  <2>2. QED
    BY <2>1
<1>4. QED
  BY <1>3

\* The other processes stand where they stood, and nothing they published or
\* claimed is new.
Others(p) ==
  /\ alive' \subseteq alive /\ alive \ {p} \subseteq alive'
  /\ \A q \in Procs \ {p} : /\ pc'[q] = pc[q] /\ seen'[q] = seen[q]
                            /\ stale'[q] = stale[q] /\ ends'[q] = ends[q]
  /\ \A q \in Procs \ {p}, r \in Procs : Claimed(q, r)' => Claimed(q, r)

\* A step that publishes nothing keeps the numbers.
LEMMA OrderKept ==
  ASSUME NEW f, NEW n \in Nat, Ordered(f, n), NEW p \in Procs, Others(p),
         lock' \in {lock, NoProc},
         Published(p) => Published(p)', RecordedAt(f, p)',
         \A r \in Procs : Claimed(p, r)' => f[r] > 0 /\ Past(f, p, r)'
  PROVE  Ordered(f, n)'
<1>1. ASSUME NEW q \in Procs, Published(q) PROVE Published(q)'
  BY <1>1 DEF Published, Others
<1>2. Numbers(f, n)'
  BY <1>1, ProcAssumption DEF Ordered, Numbers
<1>3. Recorded(f)'
  <2>1. ASSUME NEW q \in Procs \ {p} PROVE RecordedAt(f, q)'
    BY ProcAssumption, Places DEF Ordered, Recorded, RecordedAt, Others
  <2>2. QED
    BY <2>1 DEF Recorded
<1>4. ASSUME NEW q \in Procs \ {p}, NEW r \in Procs, Claimed(q, r)'
      PROVE  f[r] > 0 /\ Past(f, q, r)'
  <2>1. f[r] > 0 /\ Past(f, q, r)
    BY <1>4 DEF Others, Ordered, ClaimsPast
  <2>2. QED
    BY <1>1, <2>1, ProcAssumption DEF Others, Past
<1>5. ClaimsPast(f)'
  BY <1>4 DEF ClaimsPast
<1>6. QED
  BY <1>2, <1>3, <1>5 DEF Ordered

\* A new record is numbered after all others.
LEMMA PublishOrders ==
  ASSUME TypeOK, NEW f, NEW n \in Nat, Ordered(f, n), NEW p \in Procs,
         At(p, "publish"), lock = NoProc, lock' = p, GoTo(p, "held"),
         UNCHANGED <<alive, claims, stale, seen, depth, ends>>
  PROVE  Ordered([f EXCEPT ![p] = n + 1], n + 1)'
<1> USE DEF TypeOK, At, GoTo
<1>0. PICK g : g = [f EXCEPT ![p] = n + 1]
  OBVIOUS
<1>1. f \in [Procs -> 0 .. n] /\ f[p] = 0
  BY DEF Ordered, Numbers, Published, Holding
<1>2. g \in [Procs -> 0 .. n + 1] /\ g[p] = n + 1 /\ \A q \in Procs \ {p} : g[q] = f[q] /\ g[q] \in 0 .. n
  <2>1. n + 1 \in 0 .. n + 1 /\ \A i \in 0 .. n : i \in 0 .. n + 1
    OBVIOUS
  <2>2. f \in [Procs -> 0 .. n + 1]
    BY <1>1, <2>1
  <2>3. QED
    BY <1>0, <1>1, <2>1, <2>2
<1>3. /\ pc'[p] = "held" /\ \A q \in Procs \ {p} : pc'[q] = pc[q]
      /\ alive' = alive /\ stale' = stale /\ seen' = seen /\ ends' = ends /\ claims' = claims
  OBVIOUS
<1>4. \A q \in Procs : g[q] > 0 => Published(q)'
  BY <1>2, <1>3 DEF Ordered, Numbers, Published, Holding
<1>5. Numbers(g, n + 1)'
  <2>1. \A r \in Procs \ {p} : g[r] < n + 1
    BY <1>2
  <2>2. QED
    BY <1>2, <1>4, <2>1, n + 1 > 0 DEF Numbers
<1>6. \A r \in Procs : f[r] > 0 => r # p /\ g[r] = f[r]
  BY <1>1, <1>2
<1>7. Recorded(g)'
  <2>1. RecordedAt(g, p)'
    BY <1>3, Places DEF RecordedAt
  <2>2. ASSUME NEW q \in Procs \ {p} PROVE RecordedAt(g, q)'
    BY <1>3, <1>6, Places DEF Ordered, Recorded, RecordedAt
  <2>3. QED
    BY <2>1, <2>2 DEF Recorded
<1>8. ASSUME NEW q \in Procs, NEW r \in Procs, Claimed(q, r)'
      PROVE  g[r] > 0 /\ Past(g, q, r)'
  <2>1. Claimed(q, r)
    BY <1>3, <1>8 DEF Claimed
  <2>2. f[r] > 0 /\ Past(f, q, r)
    BY <2>1 DEF Ordered, ClaimsPast
  <2>3. CASE q = p
    BY <1>3, <1>6, <2>2, <2>3 DEF Past, Published, Holding
  <2>4. CASE q # p
    <3>1. RecordedAt(f, q)
      BY DEF Ordered, Recorded
    <3>2. Published(q) => Published(q)'
      BY <1>3, <2>4 DEF Published
    <3>3. QED
      BY <1>3, <1>6, <2>2, <2>4, <3>1, <3>2 DEF Past, RecordedAt
  <2>5. QED
    BY <2>3, <2>4
<1>9. ClaimsPast(g)'
  BY <1>8 DEF ClaimsPast
<1>10. QED
  BY <1>0, <1>5, <1>7, <1>9 DEF Ordered

LEMMA OrderStep ==
  ASSUME TypeOK, Located, TypeOK', NEW f, NEW n \in Nat, Ordered(f, n), NEW p \in Procs,
         Start(p) \/ Acquiring(p) \/ Release(p) \/ ReleaseUnlink(p) \/ Die(p)
  PROVE  \E g, m : m \in Nat /\ Ordered(g, m)'
<1> USE Places, ProcAssumption DEF TypeOK, At, GoTo
<1>0. /\ \A q \in Procs : Published(q) => q \notin alive \/ pc[q] \in {"held", "releasing", "released", "failed"}
      /\ f \in [Procs -> 0 .. n] /\ (lock # NoProc => f[lock] = n /\ n > 0 /\ \A r \in Procs \ {lock} : f[r] < n)
      /\ RecordedAt(f, p)
      /\ \A r \in Procs : Claimed(p, r) => f[r] > 0 /\ Past(f, p, r)
  BY DEF Published, Ordered, Numbers, Recorded, ClaimsPast
<1>1. ASSUME Others(p), lock' \in {lock, NoProc},
             Published(p) => Published(p)', RecordedAt(f, p)',
             \A r \in Procs : Claimed(p, r)' => f[r] > 0 /\ Past(f, p, r)'
      PROVE  \E g, m : m \in Nat /\ Ordered(g, m)'
  <2>1. Ordered(f, n)'
    BY <1>1, OrderKept
  <2>2. QED
    BY <2>1
\* Where nothing is claimed or met, the claims are those of before.
<1>2. ASSUME \A c \in Procs \X Level : claims'[c] \in {claims[c], NoProc},
             \A c \in Procs : \/ pc'[c] \notin {"checkClaim", "unavailable"}
                              \/ /\ pc[c] \in {"checkClaim", "unavailable"}
                                 /\ seen'[c] = seen[c] /\ stale'[c] = stale[c],
             NEW q \in Procs, NEW r \in Procs, Claimed(q, r)'
      PROVE  Claimed(q, r)
  BY <1>2 DEF Claimed
<1>3. CASE Start(p)
  <2>1. Others(p)
    BY <1>2, <1>3 DEF Start, Others
  <2>2. RecordedAt(f, p)'
    BY <1>3 DEF Start, RecordedAt
  <2>3. \A r \in Procs : ~Claimed(p, r)'
    BY <1>0, <1>2, <1>3 DEF Start, Past
  <2>4. QED
    BY <1>0, <1>1, <1>3, <2>1, <2>2, <2>3 DEF Start
<1>4. CASE Publish(p)
  <2>1. CASE lock = NoProc /\ lock' = p /\ GoTo(p, "held")
    <3>1. Ordered([f EXCEPT ![p] = n + 1], n + 1)'
      BY <1>4, <2>1, PublishOrders DEF Publish
    <3>2. QED
      BY <3>1
  <2>2. CASE lock' = lock /\ (GoTo(p, "inspect") \/ GoTo(p, "failed"))
    <3>1. Others(p)
      BY <1>2, <1>4, <2>2 DEF Publish, Others
    <3>2. RecordedAt(f, p)'
      BY <2>2 DEF RecordedAt
    <3>3. ~Published(p) \/ Published(p)'
      BY <1>4, <2>2 DEF Publish, Published, Holding
    <3>4. \A r \in Procs : Claimed(p, r)' => f[r] > 0 /\ Past(f, p, r)'
      BY <1>0, <1>2, <1>4, <2>2 DEF Publish, Past, Published
    <3>5. QED
      BY <1>1, <2>2, <3>1, <3>2, <3>3, <3>4
  <2>3. QED
    BY <1>4, <2>1, <2>2 DEF Publish, Fails
<1>5. CASE Inspect(p)
  <2>1. Others(p)
    BY <1>2, <1>5 DEF Inspect, Others, Fails
  <2>2. RecordedAt(f, p)'
    BY <1>0, <1>5 DEF Inspect, RecordedAt, Fails
  <2>3. Published(p) => Published(p)'
    BY <1>5 DEF Inspect, Published, Holding
  <2>4. \A r \in Procs : Claimed(p, r)' => f[r] > 0 /\ Past(f, p, r)'
    BY <1>0, <1>2, <1>5 DEF Inspect, Past, Published, Fails
  <2>5. QED
    BY <1>1, <1>5, <2>1, <2>2, <2>3, <2>4 DEF Inspect
<1>6. CASE Check(p)
  <2>1. Others(p)
    BY <1>2, <1>6 DEF Check, Others
  <2>2. RecordedAt(f, p)'
    BY <1>0, <1>6 DEF Check, RecordedAt
  <2>3. Published(p) => Published(p)'
    BY <1>6 DEF Check, Published, Holding
  <2>4. \A r \in Procs : Claimed(p, r)' => f[r] > 0 /\ Past(f, p, r)'
    BY <1>0, <1>2, <1>6 DEF Check, Past, Published
  <2>5. QED
    BY <1>1, <1>6, <2>1, <2>2, <2>3, <2>4 DEF Check
<1>7. CASE CheckClaim(p)
  <2>1. Others(p)
    BY <1>2, <1>7 DEF CheckClaim, Others
  <2>2. RecordedAt(f, p)'
    BY <1>0, <1>7 DEF CheckClaim, RecordedAt
  <2>3. Published(p) => Published(p)'
    BY <1>7 DEF CheckClaim, Published, Holding
  <2>4. \A r \in Procs : Claimed(p, r)' => f[r] > 0 /\ Past(f, p, r)'
    BY <1>0, <1>2, <1>7 DEF CheckClaim, Past, Published
  <2>5. QED
    BY <1>1, <1>7, <2>1, <2>2, <2>3, <2>4 DEF CheckClaim
<1>8. CASE Confirm(p)
  <2>1. Others(p)
    BY <1>2, <1>8 DEF Confirm, Others, CleanupThen
  <2>2. RecordedAt(f, p)'
    BY <1>0, <1>8 DEF Confirm, RecordedAt, CleanupThen
  <2>3. Published(p) => Published(p)'
    BY <1>8 DEF Confirm, Published, Holding
  <2>4. \A r \in Procs : Claimed(p, r)' => f[r] > 0 /\ Past(f, p, r)'
    BY <1>0, <1>2, <1>8 DEF Confirm, Past, Published, CleanupThen
  <2>5. QED
    BY <1>1, <1>8, <2>1, <2>2, <2>3, <2>4 DEF Confirm
<1>9. CASE Unlink(p)
  <2>1. Others(p)
    BY <1>2, <1>9 DEF Unlink, Others, CleanupThen
  <2>2. RecordedAt(f, p)'
    BY <1>0, <1>9 DEF Unlink, RecordedAt, CleanupThen
  <2>3. Published(p) => Published(p)'
    BY <1>9 DEF Unlink, Published, Holding
  <2>4. \A r \in Procs : Claimed(p, r)' => f[r] > 0 /\ Past(f, p, r)'
    BY <1>0, <1>2, <1>9 DEF Unlink, Past, Published, CleanupThen
  <2>5. QED
    BY <1>1, <1>9, <2>1, <2>2, <2>3, <2>4 DEF Unlink
<1>10. CASE Cleanup(p)
  <2>0. /\ \A c \in Procs \X Level : claims'[c] \in {claims[c], NoProc}
        /\ pc'[p] = "cleanup" \/ pc'[p] = ends[p]
        /\ \A q \in Procs \ {p} : pc'[q] = pc[q]
        /\ ends[p] \in {"publish", "failed"}
    BY <1>10 DEF Cleanup
  <2>1. Others(p)
    BY <1>2, <1>10, <2>0 DEF Cleanup, Others
  <2>2. RecordedAt(f, p)'
    BY <1>0, <1>10, <2>0 DEF Cleanup, RecordedAt
  <2>3. Published(p) => Published(p)'
    BY <1>10 DEF Cleanup, Published, Holding
  <2>4. ASSUME NEW r \in Procs, Claimed(p, r)' PROVE f[r] > 0 /\ Past(f, p, r)'
    <3>1. f[r] > 0 /\ Past(f, p, r)
      BY <1>0, <1>2, <1>10, <2>0, <2>4 DEF Cleanup
    <3>2. Past(f, p, r)'
      BY <1>0, <1>10, <2>0, <3>1 DEF Cleanup, Past, Published, RecordedAt
    <3>3. QED
      BY <3>1, <3>2
  <2>5. QED
    BY <1>1, <1>10, <2>1, <2>2, <2>3, <2>4 DEF Cleanup
<1>11. CASE Release(p) \/ ReleaseUnlink(p) \/ Die(p)
  <2>0. /\ lock' \in {lock, NoProc} /\ claims' = claims /\ alive' \in {alive, alive \ {p}}
        /\ \A q \in Procs \ {p} : pc'[q] = pc[q] /\ seen'[q] = seen[q]
                                  /\ stale'[q] = stale[q] /\ ends'[q] = ends[q]
        /\ pc'[p] \in {"releasing", "released", "failed", "idle"}
        /\ pc'[p] = "idle" => p \notin alive'
    BY <1>11 DEF Release, ReleaseUnlink, Die
  <2>1. Others(p)
    BY <1>2, <2>0 DEF Others
  <2>2. RecordedAt(f, p)'
    BY <2>0 DEF RecordedAt
  <2>3. Published(p)'
    BY <2>0 DEF Published, Holding
  <2>4. \A r \in Procs : Claimed(p, r)' => f[r] > 0 /\ Past(f, p, r)'
    BY <1>0, <1>2, <2>0, <2>3 DEF Past
  <2>5. QED
    BY <1>1, <2>0, <2>1, <2>2, <2>3, <2>4
<1>12. CASE ReadClaim(p)
  <2>1. ASSUME NEW q \in Procs, NEW r \in Procs, Claimed(q, r)' PROVE Claimed(q, r)
    <3>1. CASE pc'[p] # "checkClaim"
      BY <1>2, <1>12, <2>1, <3>1 DEF ReadClaim, Fails
    <3>2. CASE pc'[p] = "checkClaim" /\ ~(q = seen'[p] /\ r = stale[p])
      <4>1. claims' = claims /\ stale' = stale
            /\ \A c \in Procs \ {p} : pc'[c] = pc[c] /\ seen'[c] = seen[c]
        BY <1>12 DEF ReadClaim, Fails
      <4>2. QED
        BY <2>1, <3>2, <4>1 DEF Claimed
    <3>3. CASE pc'[p] = "checkClaim" /\ q = seen'[p] /\ r = stale[p]
      <4>1. claims[<<r, depth[p]>>] = q
        <5>1. seen' = [seen EXCEPT ![p] = claims[ClaimPath(p)]]
          BY <1>12, <3>3 DEF ReadClaim, Fails
        <5>2. QED
          BY <3>3, <5>1 DEF ClaimPath
      <4>2. depth[p] \in Level
        BY <1>12, DepthAssumption DEF ReadClaim, Located, Level
      <4>3. QED
        BY <4>1, <4>2 DEF Claimed
    <3>4. QED
      BY <3>1, <3>2, <3>3
  <2>2. Others(p)
    BY <1>12, <2>1 DEF ReadClaim, Others, Fails
  <2>3. RecordedAt(f, p)'
    BY <1>0, <1>12 DEF ReadClaim, RecordedAt, Fails
  <2>4. Published(p) => Published(p)'
    BY <1>12 DEF ReadClaim, Published, Holding
  <2>5. \A r \in Procs : Claimed(p, r)' => f[r] > 0 /\ Past(f, p, r)'
    BY <1>0, <1>12, <2>1 DEF ReadClaim, Past, Published, Fails
  <2>6. QED
    BY <1>1, <1>12, <2>2, <2>3, <2>4, <2>5 DEF ReadClaim
<1>13. CASE Claim(p)
  <2>1. ASSUME NEW q \in Procs, NEW r \in Procs, Claimed(q, r)'
        PROVE  Claimed(q, r) \/ (q = p /\ r = stale[p] /\ pc'[p] = "confirm")
    <3>1. CASE claims' = claims
      BY <1>2, <1>13, <2>1, <3>1 DEF Claim, Fails
    <3>2. CASE claims' = [claims EXCEPT ![ClaimPath(p)] = p] /\ pc'[p] = "confirm"
      <4>1. \A d \in Level : claims'[<<r, d>>] = claims[<<r, d>>]
                             \/ (r = stale[p] /\ claims'[<<r, d>>] = p)
        BY <3>2 DEF ClaimPath
      <4>2. \A c \in Procs : \/ pc'[c] \notin {"checkClaim", "unavailable"}
                             \/ pc[c] = pc'[c] /\ seen'[c] = seen[c] /\ stale'[c] = stale[c]
        BY <1>13, <3>2 DEF Claim, Fails
      <4>3. QED
        BY <2>1, <3>2, <4>1, <4>2 DEF Claimed
    <3>3. QED
      BY <1>13, <3>1, <3>2 DEF Claim
  <2>2. Others(p)
    BY <1>13, <2>1 DEF Claim, Others, Fails
  <2>3. RecordedAt(f, p)'
    BY <1>0, <1>13 DEF Claim, RecordedAt, Fails
  <2>4. Published(p) => Published(p)'
    BY <1>13 DEF Claim, Published, Holding
  <2>5. ASSUME NEW r \in Procs, Claimed(p, r)' PROVE f[r] > 0 /\ Past(f, p, r)'
    <3>1. CASE Claimed(p, r)
      BY <1>0, <1>13, <3>1 DEF Claim, Past, Published, Fails
    <3>2. CASE r = stale[p] /\ pc'[p] = "confirm"
      BY <1>0, <1>13, <3>2 DEF Claim, Past, RecordedAt
    <3>3. QED
      BY <2>1, <2>5, <3>1, <3>2
  <2>6. QED
    BY <1>1, <1>13, <2>2, <2>3, <2>4, <2>5 DEF Claim
<1>14. QED
  BY <1>3, <1>4, <1>5, <1>6, <1>7, <1>8, <1>9, <1>10, <1>11, <1>12, <1>13 DEF Acquiring

\* Of processes that were sent away, the one at the youngest record met the
\* claim of one that was not.
LEMMA NumbersRefuse ==
  ASSUME TypeOK, NEW f, NEW n \in Nat, Ordered(f, n)
  PROVE  NoMutualRefusal
<1> SUFFICES ASSUME NEW C \in SUBSET {p \in alive : pc[p] \in Refused}, C # {},
                    \A p \in C : seen[p] \in C
             PROVE  FALSE
  BY DEF NoMutualRefusal
<1> USE Places DEF TypeOK
<1>1. C \subseteq Procs /\ C \subseteq alive /\ f \in [Procs -> 0 .. n]
  BY DEF Ordered, Numbers
<1>2. ASSUME NEW p \in C PROVE pc[p] = "unavailable"
  <2>1. seen[p] \in C /\ RecordedAt(f, p)
    BY <1>1 DEF Ordered, Recorded
  <2>2. ~Published(seen[p])
    BY <1>1, <2>1 DEF Published, Holding, Refused
  <2>3. ~(f[seen[p]] > 0)
    BY <1>1, <2>1, <2>2 DEF Ordered, Numbers
  <2>4. pc[p] # "refused"
    BY <2>1, <2>3 DEF RecordedAt
  <2>5. QED
    BY <2>4 DEF Refused
<1>3. ASSUME NEW p \in C
      PROVE  stale[p] \in Procs /\ stale[seen[p]] \in Procs /\ f[stale[p]] < f[stale[seen[p]]]
  <2>1. seen[p] \in C /\ pc[p] = "unavailable" /\ pc[seen[p]] = "unavailable" /\ seen[p] \in alive
    BY <1>1, <1>2
  <2>2. stale[p] \in Procs /\ stale[seen[p]] \in Procs
    BY <1>1, <2>1 DEF Ordered, Recorded, RecordedAt
  <2>3. Claimed(seen[p], stale[p])
    BY <1>1, <2>1 DEF Claimed
  <2>4. Past(f, seen[p], stale[p])
    BY <1>1, <2>1, <2>2, <2>3 DEF Ordered, ClaimsPast
  <2>5. QED
    BY <2>1, <2>2, <2>4 DEF Past, Published, Holding
<1> DEFINE Left == {n - f[stale[p]] : p \in C}
<1>4. Left \subseteq Nat /\ Left # {}
  <2>1. ASSUME NEW p \in C PROVE n - f[stale[p]] \in Nat
    <3>1. f[stale[p]] \in 0 .. n
      BY <1>1, <1>3
    <3>2. QED
      BY <3>1
  <2>2. QED
    BY <2>1
<1>5. PICK least \in Left : \A k \in Left : least <= k
  BY <1>4, LeastNumber
<1>6. PICK p \in C : least = n - f[stale[p]]
  OBVIOUS
<1>7. n - f[stale[seen[p]]] \in Left
  OBVIOUS
<1>8. f[stale[p]] \in 0 .. n /\ f[stale[seen[p]]] \in 0 .. n /\ f[stale[p]] < f[stale[seen[p]]]
  BY <1>1, <1>3
<1>9. n - f[stale[p]] <= n - f[stale[seen[p]]]
  BY <1>5, <1>6, <1>7
<1>10. QED
  BY <1>8, <1>9

\* Whatever fails and whoever dies, of the listeners that were sent away one
\* was sent away for a listener that was not.  (acquireManualListenerLock)
THEOREM RefusalsEnd == Spec => []NoMutualRefusal
<1> DEFINE Orderly == TypeOK /\ Located /\ \E f, n : n \in Nat /\ Ordered(f, n)
<1>1. Init => Orderly
  <2> SUFFICES ASSUME Init PROVE Orderly
    OBVIOUS
  <2>1. PICK f : f = [p \in Procs |-> 0]
    OBVIOUS
  <2>2. Ordered(f, 0)
    <3>1. Numbers(f, 0)
      BY <2>1 DEF Numbers, Init
    <3>2. Recorded(f)
      BY Places DEF Recorded, RecordedAt, Init
    <3>3. \A p, r \in Procs : ~Claimed(p, r)
      BY ProcAssumption DEF Claimed, Init
    <3>4. QED
      BY <3>1, <3>2, <3>3 DEF Ordered, ClaimsPast
  <2>3. QED
    BY <2>2, InitEstablishes
<1>2. Orderly /\ [Next]_vars => Orderly'
  <2> SUFFICES ASSUME Orderly, [Next]_vars PROVE Orderly'
    OBVIOUS
  <2>1. TypeOK' /\ Located'
    BY TypeStep
  <2>2. PICK f, n : n \in Nat /\ Ordered(f, n)
    OBVIOUS
  <2>3. CASE UNCHANGED vars
    <3>1. Ordered(f, n)'
      BY <2>2, <2>3 DEF vars, Ordered, Numbers, Recorded, RecordedAt, ClaimsPast, Claimed, Past,
           Published
    <3>2. QED
      BY <2>1, <2>2, <3>1
  <2>4. CASE Next
    <3>1. PICK p \in Procs : Start(p) \/ Acquiring(p) \/ Release(p) \/ ReleaseUnlink(p) \/ Die(p)
      BY <2>4 DEF Next
    <3>2. \E g, m : m \in Nat /\ Ordered(g, m)'
      BY <2>1, <2>2, <3>1, OrderStep
    <3>3. QED
      BY <2>1, <3>2
  <2>5. QED
    BY <2>3, <2>4
<1>3. Orderly => NoMutualRefusal
  BY NumbersRefuse
<1> HIDE DEF Orderly
<1>4. QED
  BY <1>1, <1>2, <1>3, PTL DEF Spec
================================================================================
