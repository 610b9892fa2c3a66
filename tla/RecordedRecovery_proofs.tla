---------------------- MODULE RecordedRecovery_proofs ----------------------
(***************************************************************************)
(* For any number of runs, crashes and late posts: recovery answers only   *)
(* calls of the listener's own runs, since what the record names, what an  *)
(* OTID leads to and every post belong to runs that it began (Inv); and it *)
(* denies no call, and drops no record, whose results were written: what   *)
(* it has read holds as long as the record's revision does (Past).         *)
(***************************************************************************)
EXTENDS RecordedRecovery, TLAPS

OursOf(r) ==
  /\ r.run \in ours
  /\ r.call \in ours \cup {None}
  /\ r.kind # "none" => r.call # None

Flags ==
  /\ other \in BOOLEAN /\ up \in BOOLEAN /\ same \in BOOLEAN /\ timer \in BOOLEAN

Typed ==
  /\ run \in Runs \cup {None}
  /\ phase \in {"running", "waiting", "done"}
  /\ asked \subseteq Runs
  /\ ours \subseteq Runs /\ mine \subseteq ours
  /\ begun \in [Calls -> Runs \cup {None}]
  /\ posts \subseteq Posts
  /\ turn \in {"idle", "sending", "accepted", "streaming", "executing", "answering"}
  /\ of \in Runs \cup {None}
  /\ disk \in Records \cup {NoRecord}
  /\ rec \in {"off", "owner", "pending", "otid", "status", "message", "ownerAgain"}
  /\ copy \in Records \cup {NoRecord}
  /\ pending \in Calls \cup {None}
  /\ source \in Runs \cup {None}
  /\ kept \subseteq Calls
  /\ told \in [Calls -> {"none", "result", "denied"}]

WorkIsOurs ==
  /\ phase # "done" => run # None
  /\ disk # NoRecord => OursOf(disk)
  /\ copy # NoRecord => OursOf(copy)
  /\ \A c \in Calls : begun[c] \in ours \cup {None}
  /\ source \in ours \cup {None}
  /\ \A m \in posts : m.call \in ours

InTurn ==
  /\ turn \in {"accepted", "streaming", "executing", "answering"} => of \in ours
  /\ turn \in {"streaming", "executing", "answering"} => disk # NoRecord
  /\ turn = "executing" => disk.call = of

InRecovery ==
  /\ rec # "off" => copy # NoRecord
  /\ rec = "otid" => copy.kind # "none"
  /\ rec = "message" => pending # None
  /\ rec = "ownerAgain" => pending \in ours

Inv == Flags /\ Typed /\ WorkIsOurs /\ InTurn /\ InRecovery /\ RecoversOwn

LEMMA GenerateKeeps ==
  ASSUME Inv, Generate
  PROVE  Inv'
<1> USE RunAssumption, RecordAssumption DEF Inv, Generate, backend, recovery, history,
      Runs, Calls, None
<1>0. Flags'
  BY Zenon DEF Flags
<1>1. Typed'
  BY DEF Typed, WorkIsOurs, OursOf, InTurn, InRecovery, Records, Posts
<1>2. WorkIsOurs'
  BY DEF Typed, WorkIsOurs, OursOf, InTurn, InRecovery, Records, Posts
<1>3. InTurn'
  BY DEF Typed, WorkIsOurs, OursOf, InTurn, InRecovery, Records
<1>4. InRecovery'
  BY DEF Typed, WorkIsOurs, OursOf, InTurn, InRecovery, Records
<1>5. RecoversOwn'
  BY DEF Typed, WorkIsOurs, RecoversOwn, Posts
<1>6. QED
  BY <1>0, <1>1, <1>2, <1>3, <1>4, <1>5

LEMMA ElsewhereKeeps ==
  ASSUME Inv, Elsewhere
  PROVE  Inv'
<1> USE RunAssumption, RecordAssumption DEF Inv, Elsewhere, BeginRun, backend, recovery,
      history, Runs, Calls, None
<1>0. Flags'
  BY Zenon DEF Flags
<1>1. Typed'
  BY DEF Typed, WorkIsOurs, OursOf, InTurn, InRecovery, Records, Posts
<1>2. WorkIsOurs'
  BY DEF Typed, WorkIsOurs, OursOf, InTurn, InRecovery, Records, Posts
<1>3. InTurn'
  BY DEF Typed, WorkIsOurs, OursOf, InTurn, InRecovery, Records
<1>4. InRecovery'
  BY DEF Typed, WorkIsOurs, OursOf, InTurn, InRecovery, Records
<1>5. RecoversOwn'
  BY DEF Typed, WorkIsOurs, RecoversOwn, Posts
<1>6. QED
  BY <1>0, <1>1, <1>2, <1>3, <1>4, <1>5

LEMMA ElsewhereEndsKeeps ==
  ASSUME Inv, ElsewhereEnds
  PROVE  Inv'
<1> USE RunAssumption, RecordAssumption DEF Inv, ElsewhereEnds, backend, recovery,
      history, Runs, Calls, None
<1>0. Flags'
  BY Zenon DEF Flags
<1>1. Typed'
  BY DEF Typed, WorkIsOurs, OursOf, InTurn, InRecovery, Records, Posts
<1>2. WorkIsOurs'
  BY DEF Typed, WorkIsOurs, OursOf, InTurn, InRecovery, Records, Posts
<1>3. InTurn'
  BY DEF Typed, WorkIsOurs, OursOf, InTurn, InRecovery, Records
<1>4. InRecovery'
  BY DEF Typed, WorkIsOurs, OursOf, InTurn, InRecovery, Records
<1>5. RecoversOwn'
  BY DEF Typed, WorkIsOurs, RecoversOwn, Posts
<1>6. QED
  BY <1>0, <1>1, <1>2, <1>3, <1>4, <1>5

LEMMA MessageKeeps ==
  ASSUME Inv, Message
  PROVE  Inv'
<1> USE RunAssumption, RecordAssumption DEF Inv, Message, backend, recovery, history,
      Runs, Calls, None
<1>0. Flags'
  BY Zenon DEF Flags
<1>1. Typed'
  BY DEF Typed, WorkIsOurs, OursOf, InTurn, InRecovery, Records, Posts
<1>2. WorkIsOurs'
  BY DEF Typed, WorkIsOurs, OursOf, InTurn, InRecovery, Records, Posts
<1>3. InTurn'
  BY DEF Typed, WorkIsOurs, OursOf, InTurn, InRecovery, Records
<1>4. InRecovery'
  BY DEF Typed, WorkIsOurs, OursOf, InTurn, InRecovery, Records
<1>5. RecoversOwn'
  BY DEF Typed, WorkIsOurs, RecoversOwn, Posts
<1>6. QED
  BY <1>0, <1>1, <1>2, <1>3, <1>4, <1>5

LEMMA SentKeeps ==
  ASSUME Inv, Sent
  PROVE  Inv'
<1> USE RunAssumption, RecordAssumption DEF Inv, Sent, BeginRun, backend, recovery,
      history, Runs, Calls, None
<1>0. Flags'
  BY Zenon DEF Flags
<1>1. Typed'
  BY DEF Typed, WorkIsOurs, OursOf, InTurn, InRecovery, Records, Posts
<1>2. WorkIsOurs'
  BY DEF Typed, WorkIsOurs, OursOf, InTurn, InRecovery, Records, Posts
<1>3. InTurn'
  BY DEF Typed, WorkIsOurs, OursOf, InTurn, InRecovery, Records
<1>4. InRecovery'
  BY DEF Typed, WorkIsOurs, OursOf, InTurn, InRecovery, Records
<1>5. RecoversOwn'
  BY DEF Typed, WorkIsOurs, RecoversOwn, Posts
<1>6. QED
  BY <1>0, <1>1, <1>2, <1>3, <1>4, <1>5

LEMMA ObservedKeeps ==
  ASSUME Inv, Observed
  PROVE  Inv'
<1> USE RunAssumption, RecordAssumption DEF Inv, Observed, Put, Observe, backend,
      recovery, history, Runs, Calls, None
<1>0. Flags'
  BY Zenon DEF Flags
<1>1. Typed'
  BY DEF Typed, WorkIsOurs, OursOf, InTurn, InRecovery, Records, Posts
<1>2. WorkIsOurs'
  BY DEF Typed, WorkIsOurs, OursOf, InTurn, InRecovery, Records, Posts
<1>3. InTurn'
  BY DEF Typed, WorkIsOurs, OursOf, InTurn, InRecovery, Records
<1>4. InRecovery'
  BY DEF Typed, WorkIsOurs, OursOf, InTurn, InRecovery, Records
<1>5. RecoversOwn'
  BY DEF Typed, WorkIsOurs, RecoversOwn, Posts
<1>6. QED
  BY <1>0, <1>1, <1>2, <1>3, <1>4, <1>5

LEMMA ExecuteKeeps ==
  ASSUME Inv, Execute
  PROVE  Inv'
<1> USE RunAssumption, RecordAssumption DEF Inv, Execute, Put, backend, recovery,
      history, Runs, Calls, None
<1>0. Flags'
  BY Zenon DEF Flags
<1>e. disk' \in Records /\ disk'.call = of
  BY DEF Typed, InTurn, Records
<1>1. Typed'
  BY <1>e DEF Typed
<1>2. WorkIsOurs'
  BY DEF Typed, WorkIsOurs, OursOf, InTurn, InRecovery, Records, Posts
<1>3. InTurn'
  BY <1>e DEF Typed, WorkIsOurs, OursOf, InTurn, InRecovery, Records
<1>4. InRecovery'
  BY DEF Typed, WorkIsOurs, OursOf, InTurn, InRecovery, Records
<1>5. RecoversOwn'
  BY DEF Typed, WorkIsOurs, RecoversOwn, Posts
<1>6. QED
  BY <1>0, <1>1, <1>2, <1>3, <1>4, <1>5

LEMMA ExecutedKeeps ==
  ASSUME Inv, Executed
  PROVE  Inv'
<1> USE RunAssumption, RecordAssumption DEF Inv, Executed, Put, backend, recovery,
      history, Runs, Calls, None
<1>0. Flags'
  BY Zenon DEF Flags
<1>a. of \in Calls
  BY DEF Typed, InTurn
<1>b. disk' \in Records
  BY DEF Typed, InTurn, Records
<1>c. [call |-> of, kind |-> "result", recovered |-> FALSE] \in Posts
  BY <1>a DEF Posts
<1>1. Typed'
  BY <1>a, <1>b, <1>c DEF Typed
<1>2. WorkIsOurs'
  BY DEF Typed, WorkIsOurs, OursOf, InTurn, InRecovery, Records, Posts
<1>3. InTurn'
  BY DEF Typed, WorkIsOurs, OursOf, InTurn, InRecovery, Records
<1>4. InRecovery'
  BY DEF Typed, WorkIsOurs, OursOf, InTurn, InRecovery, Records
<1>5. RecoversOwn'
  BY DEF Typed, WorkIsOurs, RecoversOwn, Posts
<1>6. QED
  BY <1>0, <1>1, <1>2, <1>3, <1>4, <1>5

LEMMA AnsweredKeeps ==
  ASSUME Inv, Answered
  PROVE  Inv'
<1> USE RunAssumption, RecordAssumption DEF Inv, Answered, Put, Observe, backend,
      recovery, history, Runs, Calls, None
<1>0. Flags'
  BY Zenon DEF Flags
<1>1. Typed'
  BY DEF Typed, WorkIsOurs, OursOf, InTurn, InRecovery, Records, Posts
<1>2. WorkIsOurs'
  BY DEF Typed, WorkIsOurs, OursOf, InTurn, InRecovery, Records, Posts
<1>3. InTurn'
  BY DEF Typed, WorkIsOurs, OursOf, InTurn, InRecovery, Records
<1>4. InRecovery'
  BY DEF Typed, WorkIsOurs, OursOf, InTurn, InRecovery, Records
<1>5. RecoversOwn'
  BY DEF Typed, WorkIsOurs, RecoversOwn, Posts
<1>6. QED
  BY <1>0, <1>1, <1>2, <1>3, <1>4, <1>5

LEMMA FinishKeeps ==
  ASSUME Inv, Finish
  PROVE  Inv'
<1> USE RunAssumption, RecordAssumption DEF Inv, Finish, Put, backend, recovery, history,
      Runs, Calls, None
<1>0. Flags'
  BY Zenon DEF Flags
<1>1. Typed'
  BY DEF Typed, WorkIsOurs, OursOf, InTurn, InRecovery, Records, Posts
<1>2. WorkIsOurs'
  BY DEF Typed, WorkIsOurs, OursOf, InTurn, InRecovery, Records, Posts
<1>3. InTurn'
  BY DEF Typed, WorkIsOurs, OursOf, InTurn, InRecovery, Records
<1>4. InRecovery'
  BY DEF Typed, WorkIsOurs, OursOf, InTurn, InRecovery, Records
<1>5. RecoversOwn'
  BY DEF Typed, WorkIsOurs, RecoversOwn, Posts
<1>6. QED
  BY <1>0, <1>1, <1>2, <1>3, <1>4, <1>5

LEMMA AbortKeeps ==
  ASSUME Inv, Abort
  PROVE  Inv'
<1> USE RunAssumption, RecordAssumption DEF Inv, Abort, Put, backend, recovery, history,
      Runs, Calls, None
<1>0. Flags'
  BY Zenon DEF Flags
<1>1. Typed'
  BY DEF Typed, WorkIsOurs, OursOf, InTurn, InRecovery, Records, Posts
<1>2. WorkIsOurs'
  BY DEF Typed, WorkIsOurs, OursOf, InTurn, InRecovery, Records, Posts
<1>3. InTurn'
  BY DEF Typed, WorkIsOurs, OursOf, InTurn, InRecovery, Records
<1>4. InRecovery'
  BY DEF Typed, WorkIsOurs, OursOf, InTurn, InRecovery, Records
<1>5. RecoversOwn'
  BY DEF Typed, WorkIsOurs, RecoversOwn, Posts
<1>6. QED
  BY <1>0, <1>1, <1>2, <1>3, <1>4, <1>5

LEMMA FailKeeps ==
  ASSUME Inv, Fail
  PROVE  Inv'
<1> USE RunAssumption, RecordAssumption DEF Inv, Fail, backend, recovery, history, Runs,
      Calls, None
<1>0. Flags'
  BY Zenon DEF Flags
<1>1. Typed'
  BY DEF Typed, WorkIsOurs, OursOf, InTurn, InRecovery, Records, Posts
<1>2. WorkIsOurs'
  BY DEF Typed, WorkIsOurs, OursOf, InTurn, InRecovery, Records, Posts
<1>3. InTurn'
  BY DEF Typed, WorkIsOurs, OursOf, InTurn, InRecovery, Records
<1>4. InRecovery'
  BY DEF Typed, WorkIsOurs, OursOf, InTurn, InRecovery, Records
<1>5. RecoversOwn'
  BY DEF Typed, WorkIsOurs, RecoversOwn, Posts
<1>6. QED
  BY <1>0, <1>1, <1>2, <1>3, <1>4, <1>5

LEMMA ConnectKeeps ==
  ASSUME Inv, Connect
  PROVE  Inv'
<1> USE RunAssumption, RecordAssumption DEF Inv, Connect, Begin, backend, recovery,
      history, Runs, Calls, None
<1>0. Flags'
  BY Zenon DEF Flags
<1>1. Typed'
  BY DEF Typed, WorkIsOurs, OursOf, InTurn, InRecovery, Records, Posts
<1>2. WorkIsOurs'
  BY DEF Typed, WorkIsOurs, OursOf, InTurn, InRecovery, Records, Posts
<1>3. InTurn'
  BY DEF Typed, WorkIsOurs, OursOf, InTurn, InRecovery, Records
<1>4. InRecovery'
  BY DEF Typed, WorkIsOurs, OursOf, InTurn, InRecovery, Records
<1>5. RecoversOwn'
  BY DEF Typed, WorkIsOurs, RecoversOwn, Posts
<1>6. QED
  BY <1>0, <1>1, <1>2, <1>3, <1>4, <1>5

LEMMA RetryTimerKeeps ==
  ASSUME Inv, RetryTimer
  PROVE  Inv'
<1> USE RunAssumption, RecordAssumption DEF Inv, RetryTimer, Begin, backend, recovery,
      history, Runs, Calls, None
<1>0. Flags'
  BY Zenon DEF Flags
<1>1. Typed'
  BY DEF Typed, WorkIsOurs, OursOf, InTurn, InRecovery, Records, Posts
<1>2. WorkIsOurs'
  BY DEF Typed, WorkIsOurs, OursOf, InTurn, InRecovery, Records, Posts
<1>3. InTurn'
  BY DEF Typed, WorkIsOurs, OursOf, InTurn, InRecovery, Records
<1>4. InRecovery'
  BY DEF Typed, WorkIsOurs, OursOf, InTurn, InRecovery, Records
<1>5. RecoversOwn'
  BY DEF Typed, WorkIsOurs, RecoversOwn, Posts
<1>6. QED
  BY <1>0, <1>1, <1>2, <1>3, <1>4, <1>5

LEMMA CrashKeeps ==
  ASSUME Inv, Crash
  PROVE  Inv'
<1> USE RunAssumption, RecordAssumption DEF Inv, Crash, backend, recovery, history, Runs,
      Calls, None
<1>0. Flags'
  BY Zenon DEF Flags
<1>1. Typed'
  BY DEF Typed, WorkIsOurs, OursOf, InTurn, InRecovery, Records, Posts
<1>2. WorkIsOurs'
  BY DEF Typed, WorkIsOurs, OursOf, InTurn, InRecovery, Records, Posts
<1>3. InTurn'
  BY DEF Typed, WorkIsOurs, OursOf, InTurn, InRecovery, Records
<1>4. InRecovery'
  BY DEF Typed, WorkIsOurs, OursOf, InTurn, InRecovery, Records
<1>5. RecoversOwn'
  BY DEF Typed, WorkIsOurs, RecoversOwn, Posts
<1>6. QED
  BY <1>0, <1>1, <1>2, <1>3, <1>4, <1>5

LEMMA GrantedKeeps ==
  ASSUME Inv, Granted
  PROVE  Inv'
<1> USE RunAssumption, RecordAssumption DEF Inv, Granted, Step, unmoved, backend,
      recovery, history, Runs, Calls, None
<1>0. Flags'
  BY Zenon DEF Flags
<1>1. Typed'
  BY DEF Typed, WorkIsOurs, OursOf, InTurn, InRecovery, Records, Posts
<1>2. WorkIsOurs'
  BY DEF Typed, WorkIsOurs, OursOf, InTurn, InRecovery, Records, Posts
<1>3. InTurn'
  BY DEF Typed, WorkIsOurs, OursOf, InTurn, InRecovery, Records
<1>4. InRecovery'
  BY DEF Typed, WorkIsOurs, OursOf, InTurn, InRecovery, Records
<1>5. RecoversOwn'
  BY DEF Typed, WorkIsOurs, RecoversOwn, Posts
<1>6. QED
  BY <1>0, <1>1, <1>2, <1>3, <1>4, <1>5

LEMMA ReadPendingKeeps ==
  ASSUME Inv, ReadPending
  PROVE  Inv'
<1> USE RunAssumption, RecordAssumption DEF Inv, ReadPending, Step, unmoved, Unchanged,
      MayBeTaken, AfterLookup, Waiting, backend, recovery, history, Runs, Calls, None
<1>0. Flags'
  BY Zenon DEF Flags
<1>1. Typed'
  BY DEF Typed, WorkIsOurs, OursOf, InTurn, InRecovery, Records, Posts
<1>2. WorkIsOurs'
  BY DEF Typed, WorkIsOurs, OursOf, InTurn, InRecovery, Records, Posts
<1>3. InTurn'
  BY DEF Typed, WorkIsOurs, OursOf, InTurn, InRecovery, Records
<1>a. copy # NoRecord /\ copy' = copy /\ Waiting \in Calls \cup {None}
  BY DEF Typed, InRecovery
<1>b. ASSUME MayBeTaken(Waiting) PROVE InRecovery'
  <2>1. rec' = "otid" /\ copy.kind # "none"
    BY <1>b DEF MayBeTaken
  <2>2. QED
    BY <2>1, <1>a DEF InRecovery
<1>c. ASSUME ~MayBeTaken(Waiting) PROVE InRecovery'
  <2>1. rec' = AfterLookup(Waiting) /\ pending' = Waiting
    BY <1>c
  <2>2. rec' = "message" => pending' # None
    BY <2>1
  <2>3. rec' = "ownerAgain" => pending' = copy.call /\ pending' # None
    BY <2>1
  <2>4. rec' # "otid"
    BY <2>1
  <2>5. ours' = ours /\ OursOf(copy)
    BY <1>a DEF WorkIsOurs
  <2>6. QED
    BY <1>a, <2>2, <2>3, <2>4, <2>5 DEF InRecovery, OursOf
<1>4. InRecovery'
  BY <1>b, <1>c
<1>5. RecoversOwn'
  BY DEF Typed, WorkIsOurs, RecoversOwn, Posts
<1>6. QED
  BY <1>0, <1>1, <1>2, <1>3, <1>4, <1>5

LEMMA LookUpOtidKeeps ==
  ASSUME Inv, LookUpOtid
  PROVE  Inv'
<1> USE RunAssumption, RecordAssumption DEF Inv, LookUpOtid, Step, unmoved, AfterLookup,
      backend, recovery, history, Runs, Calls, None
<1>0. Flags'
  BY Zenon DEF Flags
<1>1. Typed'
  BY DEF Typed, WorkIsOurs, OursOf, InTurn, InRecovery, Records, Posts
<1>2. WorkIsOurs'
  BY DEF Typed, WorkIsOurs, OursOf, InTurn, InRecovery, Records, Posts
<1>3. InTurn'
  BY DEF Typed, WorkIsOurs, OursOf, InTurn, InRecovery, Records
<1>4. InRecovery'
  BY DEF Typed, WorkIsOurs, OursOf, InTurn, InRecovery, Records
<1>5. RecoversOwn'
  BY DEF Typed, WorkIsOurs, RecoversOwn, Posts
<1>6. QED
  BY <1>0, <1>1, <1>2, <1>3, <1>4, <1>5

LEMMA EndedKeeps ==
  ASSUME Inv, Ended
  PROVE  Inv'
<1> USE RunAssumption, RecordAssumption DEF Inv, Ended, Drop, Off, unmoved, Unchanged,
      backend, recovery, history, Runs, Calls, None
<1>0. Flags'
  BY Zenon DEF Flags
<1>1. Typed'
  BY DEF Typed, WorkIsOurs, OursOf, InTurn, InRecovery, Records, Posts
<1>2. WorkIsOurs'
  BY DEF Typed, WorkIsOurs, OursOf, InTurn, InRecovery, Records, Posts
<1>3. InTurn'
  BY DEF Typed, WorkIsOurs, OursOf, InTurn, InRecovery, Records
<1>4. InRecovery'
  BY DEF Typed, WorkIsOurs, OursOf, InTurn, InRecovery, Records
<1>5. RecoversOwn'
  BY DEF Typed, WorkIsOurs, RecoversOwn, Posts
<1>6. QED
  BY <1>0, <1>1, <1>2, <1>3, <1>4, <1>5

LEMMA OwnKeeps ==
  ASSUME Inv, Own
  PROVE  Inv'
<1> USE RunAssumption, RecordAssumption DEF Inv, Own, Step, unmoved, backend, recovery,
      history, Runs, Calls, None
<1>0. Flags'
  BY Zenon DEF Flags
<1>1. Typed'
  BY DEF Typed, WorkIsOurs, OursOf, InTurn, InRecovery, Records, Posts
<1>2. WorkIsOurs'
  BY DEF Typed, WorkIsOurs, OursOf, InTurn, InRecovery, Records, Posts
<1>3. InTurn'
  BY DEF Typed, WorkIsOurs, OursOf, InTurn, InRecovery, Records
<1>4. InRecovery'
  BY DEF Typed, WorkIsOurs, OursOf, InTurn, InRecovery, Records
<1>5. RecoversOwn'
  BY DEF Typed, WorkIsOurs, RecoversOwn, Posts
<1>6. QED
  BY <1>0, <1>1, <1>2, <1>3, <1>4, <1>5

LEMMA NotOwnKeeps ==
  ASSUME Inv, NotOwn
  PROVE  Inv'
<1> USE RunAssumption, RecordAssumption DEF Inv, NotOwn, Drop, Off, unmoved, Unchanged,
      backend, recovery, history, Runs, Calls, None
<1>0. Flags'
  BY Zenon DEF Flags
<1>1. Typed'
  BY DEF Typed, WorkIsOurs, OursOf, InTurn, InRecovery, Records, Posts
<1>2. WorkIsOurs'
  BY DEF Typed, WorkIsOurs, OursOf, InTurn, InRecovery, Records, Posts
<1>3. InTurn'
  BY DEF Typed, WorkIsOurs, OursOf, InTurn, InRecovery, Records
<1>4. InRecovery'
  BY DEF Typed, WorkIsOurs, OursOf, InTurn, InRecovery, Records
<1>5. RecoversOwn'
  BY DEF Typed, WorkIsOurs, RecoversOwn, Posts
<1>6. QED
  BY <1>0, <1>1, <1>2, <1>3, <1>4, <1>5

LEMMA ContinueKeeps ==
  ASSUME Inv, Continue
  PROVE  Inv'
<1> USE RunAssumption, RecordAssumption DEF Inv, Continue, Put, Off, Answer, Unchanged,
      backend, recovery, history, Runs, Calls, None
<1>0. Flags'
  BY Zenon DEF Flags
<1>a. pending \in Calls /\ copy \in Records
  BY DEF Typed, InRecovery
<1>b. Answer \in {"result", "denied"}
  BY <1>a DEF Records
<1>c. disk' \in Records
  BY <1>a DEF Records
<1>d. [call |-> pending, kind |-> Answer, recovered |-> TRUE] \in Posts
  BY <1>a, <1>b, Zenon DEF Posts
<1>1. Typed'
  BY <1>a, <1>c, <1>d DEF Typed
<1>2. WorkIsOurs'
  BY DEF Typed, WorkIsOurs, OursOf, InTurn, InRecovery, Records, Posts
<1>3. InTurn'
  BY <1>c DEF Typed, WorkIsOurs, OursOf, InTurn, InRecovery, Records
<1>4. InRecovery'
  BY DEF Typed, WorkIsOurs, OursOf, InTurn, InRecovery, Records
<1>5. RecoversOwn'
  BY DEF Typed, WorkIsOurs, RecoversOwn, Posts
<1>6. QED
  BY <1>0, <1>1, <1>2, <1>3, <1>4, <1>5

LEMMA DeferKeeps ==
  ASSUME Inv, Defer
  PROVE  Inv'
<1> USE RunAssumption, RecordAssumption DEF Inv, Defer, Off, unmoved, backend, recovery,
      history, Runs, Calls, None
<1>0. Flags'
  BY Zenon DEF Flags
<1>1. Typed'
  BY DEF Typed, WorkIsOurs, OursOf, InTurn, InRecovery, Records, Posts
<1>2. WorkIsOurs'
  BY DEF Typed, WorkIsOurs, OursOf, InTurn, InRecovery, Records, Posts
<1>3. InTurn'
  BY DEF Typed, WorkIsOurs, OursOf, InTurn, InRecovery, Records
<1>4. InRecovery'
  BY DEF Typed, WorkIsOurs, OursOf, InTurn, InRecovery, Records
<1>5. RecoversOwn'
  BY DEF Typed, WorkIsOurs, RecoversOwn, Posts
<1>6. QED
  BY <1>0, <1>1, <1>2, <1>3, <1>4, <1>5

LEMMA GiveUpKeeps ==
  ASSUME Inv, GiveUp
  PROVE  Inv'
<1> USE RunAssumption, RecordAssumption DEF Inv, GiveUp, Off, unmoved, backend, recovery,
      history, Runs, Calls, None
<1>0. Flags'
  BY Zenon DEF Flags
<1>1. Typed'
  BY DEF Typed, WorkIsOurs, OursOf, InTurn, InRecovery, Records, Posts
<1>2. WorkIsOurs'
  BY DEF Typed, WorkIsOurs, OursOf, InTurn, InRecovery, Records, Posts
<1>3. InTurn'
  BY DEF Typed, WorkIsOurs, OursOf, InTurn, InRecovery, Records
<1>4. InRecovery'
  BY DEF Typed, WorkIsOurs, OursOf, InTurn, InRecovery, Records
<1>5. RecoversOwn'
  BY DEF Typed, WorkIsOurs, RecoversOwn, Posts
<1>6. QED
  BY <1>0, <1>1, <1>2, <1>3, <1>4, <1>5

LEMMA DeliverKeeps ==
  ASSUME Inv, NEW m \in posts, Deliver(m)
  PROVE  Inv'
<1> USE RunAssumption, RecordAssumption DEF Inv, Deliver, BeginRun, backend, recovery,
      history, Runs, Calls, None
<1>0. Flags'
  BY Zenon DEF Flags
<1>a. m \in Posts
  BY DEF Typed
<1>b. told' \in [Calls -> {"none", "result", "denied"}]
  BY <1>a DEF Typed, Posts
<1>c. run' \in Runs \cup {None} /\ begun' \in [Calls -> Runs \cup {None}]
  BY <1>a DEF Typed, Posts
<1>d. ASSUME phase = "waiting" /\ run = m.call PROVE ours' \subseteq Runs /\ mine' \subseteq ours'
  <2>1. run + 1 \in Runs /\ ours' = ours \cup {run + 1}
    BY <1>a, <1>d DEF Typed, Posts
  <2>2. mine' = mine \/ mine' = mine \cup {run + 1}
    BY <1>d
  <2>3. ours' \subseteq Runs /\ mine' \subseteq ours'
    BY <2>1, <2>2 DEF Typed
  <2>4. QED
    BY <2>3
<1>e. ours' \subseteq Runs /\ mine' \subseteq ours'
  BY <1>d DEF Typed
<1>1. Typed'
  BY <1>a, <1>b, <1>c, <1>e DEF Typed
<1>2. WorkIsOurs'
  BY DEF Typed, WorkIsOurs, OursOf, InTurn, InRecovery, Records, Posts
<1>3. InTurn'
  BY DEF Typed, WorkIsOurs, OursOf, InTurn, InRecovery, Records
<1>4. InRecovery'
  BY DEF Typed, WorkIsOurs, OursOf, InTurn, InRecovery, Records
<1>5. RecoversOwn'
  BY DEF Typed, WorkIsOurs, RecoversOwn, Posts
<1>6. QED
  BY <1>0, <1>1, <1>2, <1>3, <1>4, <1>5

LEMMA LoseKeeps ==
  ASSUME Inv, NEW m \in posts, Lose(m)
  PROVE  Inv'
<1> USE RunAssumption, RecordAssumption DEF Inv, Lose, backend, recovery, history, Runs,
      Calls, None
<1>0. Flags'
  BY Zenon DEF Flags
<1>1. Typed'
  BY DEF Typed, WorkIsOurs, OursOf, InTurn, InRecovery, Records, Posts
<1>2. WorkIsOurs'
  BY DEF Typed, WorkIsOurs, OursOf, InTurn, InRecovery, Records, Posts
<1>3. InTurn'
  BY DEF Typed, WorkIsOurs, OursOf, InTurn, InRecovery, Records
<1>4. InRecovery'
  BY DEF Typed, WorkIsOurs, OursOf, InTurn, InRecovery, Records
<1>5. RecoversOwn'
  BY DEF Typed, WorkIsOurs, RecoversOwn, Posts
<1>6. QED
  BY <1>0, <1>1, <1>2, <1>3, <1>4, <1>5

LEMMA NextKeeps == Inv /\ [Next]_vars => Inv'
<1> SUFFICES ASSUME Inv, [Next]_vars PROVE Inv'
  OBVIOUS
<1>1. CASE Backend
  BY <1>1, GenerateKeeps, DeliverKeeps, LoseKeeps, ElsewhereKeeps, ElsewhereEndsKeeps DEF Backend
<1>2. CASE Turn
  BY <1>2, MessageKeeps, SentKeeps, ObservedKeeps, ExecuteKeeps, ExecutedKeeps, AnsweredKeeps,
     FinishKeeps, AbortKeeps, FailKeeps DEF Turn
<1>3. CASE Recovery
  BY <1>3, GrantedKeeps, ReadPendingKeeps, LookUpOtidKeeps, EndedKeeps, OwnKeeps, NotOwnKeeps,
     ContinueKeeps, DeferKeeps, GiveUpKeeps DEF Recovery
<1>4. CASE Connect \/ RetryTimer \/ Crash
  BY <1>4, ConnectKeeps, RetryTimerKeeps, CrashKeeps
<1>5. CASE UNCHANGED vars
  BY <1>5 DEF vars, backend, recovery, history, Inv, Flags, Typed, WorkIsOurs, OursOf, InTurn,
     InRecovery, RecoversOwn
<1>6. QED
  BY <1>1, <1>2, <1>3, <1>4, <1>5 DEF Next

LEMMA InitOwns == Init => Inv
<1> SUFFICES ASSUME Init PROVE Inv
  OBVIOUS
<1>1. Flags
  BY DEF Init, Flags
<1>2. Typed /\ WorkIsOurs /\ InTurn /\ InRecovery /\ RecoversOwn
  BY DEF Init, Typed, WorkIsOurs, OursOf, InTurn, InRecovery, RecoversOwn, None, Calls, Runs
<1>3. QED
  BY <1>1, <1>2 DEF Inv

LEMMA InvHolds == Spec => []Inv
BY InitOwns, NextKeeps, PTL DEF Spec

(* The variables have their types, whatever the number of runs. *)
THEOREM RecoveryTyped == Spec => []TypeOK
<1>1. Inv => TypeOK
  BY DEF Inv, Flags, Typed, TypeOK
<1>2. QED
  BY <1>1, InvHolds, PTL

(* Recovery never answers a call of another listener: canRecoverConversation,  *)
(* the OTID of the record and the run of the approval message suffice, however  *)
(* crashes, late posts and other listeners interleave with its requests.        *)
THEOREM OwnWorkIsRecovered == Spec => []RecoversOwn
<1>1. Inv => RecoversOwn
  BY DEF Inv
<1>2. QED
  BY <1>1, InvHolds, PTL

-----------------------------------------------------------------------------
\* recovery has asked what waits.
HasRead == rec \in {"otid", "status", "message", "ownerAgain"}

\* Calls whose results were written, and calls that recovery answers or has
\* answered.
Answering(c) == told[c] # "none" \/ \E m \in posts : m.recovered /\ m.call = c
Handled == kept \cup {c \in Calls : Answering(c)}

\* A run asks once and ends; what a call began comes after it.
RunsInOrder ==
  /\ \A c \in asked : c <= run
  /\ phase = "running" => run \notin asked
  /\ phase = "waiting" => run \in asked
  /\ \A c \in Calls : begun[c] # None => c < begun[c] /\ begun[c] <= run
  /\ turn \in {"accepted", "streaming", "executing", "answering"} => of <= run

\* Calls in the record, or read by recovery, have been asked; an unchanged
\* revision is an unchanged record.
RecordIsPast ==
  /\ disk # NoRecord => disk.call \in asked \cup {None}
  /\ copy # NoRecord => copy.call \in asked \cup {None}
  /\ pending \in asked \cup {None}
  /\ rec # "off" /\ same => disk = copy

\* A call that was handled is not executed any more: turns, and a recovery
\* whose record has not changed, are past it.
HandledIsPast ==
  \A c \in Handled :
    /\ c \in asked
    /\ turn \in {"accepted", "streaming", "executing"} => c < of
    /\ turn = "answering" => c <= of
    /\ HasRead /\ same /\ pending # None => c <= pending

\* While a call waits whose results were written, the record has them, and so
\* has a recovery that read it.
ResultStays ==
  /\ phase = "waiting" /\ run \in kept /\ disk # NoRecord => disk.call = run /\ disk.kind = "result"
  /\ HasRead /\ same /\ pending \in kept => copy.call = pending /\ copy.kind = "result"

\* No denial of such a call is on its way, or was taken.
NoDenial ==
  /\ ResultNotDenied
  /\ \A m \in posts : m.recovered /\ m.call \in kept => m.kind # "denied"

\* What recovery has read, as long as the record is the same: the call of the
\* record waits only if it was seen to wait, and what it has begun is known.
ReadHolds ==
  /\ rec = "status" => pending = None
  /\ rec = "message" => pending # copy.call
  /\ HasRead /\ same =>
       /\ phase = "waiting" /\ run = copy.call => pending = run
       /\ copy.call # None /\ pending # copy.call /\ begun[copy.call] # None =>
            /\ pending # None => begun[copy.call] <= pending
            /\ rec # "otid" /\ copy.kind # "none" => source = begun[copy.call]

Past == RunsInOrder /\ RecordIsPast /\ HandledIsPast /\ ResultStays /\ NoDenial /\ ReadHolds

\* What a step may leave, or lose, without any risk to Past: runs end, posts
\* are lost, turns stop, recovery stops or has not asked yet, and a record is
\* removed.
Withdraws ==
  /\ UNCHANGED <<run, asked, begun, kept, told>>
  /\ phase' \in {phase, "done"}
  /\ posts' \subseteq posts
  /\ UNCHANGED <<turn, of>> \/ turn' \in {"idle", "sending"}
  /\ \/ UNCHANGED <<disk, same, recovery>>
     \/ disk' = NoRecord /\ same' = FALSE /\ UNCHANGED recovery
     \/ rec' = "off" /\ copy' = NoRecord /\ pending' = None /\ disk' \in {disk, NoRecord}
     \/ rec' = "owner" /\ copy' = disk /\ UNCHANGED <<pending, disk>>
     \/ /\ <<rec, rec'>> \in {<<"owner", "pending">>, <<"message", "ownerAgain">>}
        /\ UNCHANGED <<copy, pending, source, disk, same>>

LEMMA WithdrawsKeeps ==
  ASSUME Inv, Past, Withdraws
  PROVE  Past'
<1> USE DEF Inv, Past, Withdraws, recovery
<1>0. Handled' \subseteq Handled
  BY DEF Handled, Answering
<1>1. RunsInOrder'
  BY DEF RunsInOrder
<1>2. RecordIsPast'
  BY DEF RecordIsPast
<1>3. HandledIsPast'
  BY <1>0 DEF HandledIsPast, HasRead
<1>4. ResultStays'
  BY DEF ResultStays, HasRead
<1>5. NoDenial'
  BY DEF NoDenial, ResultNotDenied
<1>6. ReadHolds'
  BY DEF ReadHolds, HasRead
<1>7. QED
  BY <1>1, <1>2, <1>3, <1>4, <1>5, <1>6

Withdrawal ==
  \/ Message \/ Finish \/ Abort \/ Fail \/ ElsewhereEnds \/ (\E m \in posts : Lose(m))
  \/ Connect \/ RetryTimer \/ Crash
  \/ Granted \/ Own \/ Ended \/ NotOwn \/ Defer \/ GiveUp

LEMMA ActionsWithdraw == Withdrawal => Withdraws
<1> USE DEF Withdraws, backend, recovery, history
<1>1. Message => Withdraws
  BY DEF Message
<1>2. Fail => Withdraws
  BY DEF Fail
<1>3. Finish => Withdraws
  BY DEF Finish, Put
<1>4. Abort => Withdraws
  BY DEF Abort, Put
<1>5. ElsewhereEnds => Withdraws
  BY DEF ElsewhereEnds
<1>6. Connect => Withdraws
  BY DEF Connect, Begin
<1>7. RetryTimer => Withdraws
  BY DEF RetryTimer, Begin
<1>8. Crash => Withdraws
  BY DEF Crash
<1>9. Granted => Withdraws
  BY DEF Granted, Step, unmoved
<1>10. Own => Withdraws
  BY DEF Own, Step, unmoved
<1>11. Ended => Withdraws
  BY DEF Ended, Drop, Off, unmoved
<1>12. NotOwn => Withdraws
  BY DEF NotOwn, Drop, Off, unmoved
<1>13. Defer => Withdraws
  BY DEF Defer, Off, unmoved
<1>14. GiveUp => Withdraws
  BY DEF GiveUp, Off, unmoved
<1>15. (\E m \in posts : Lose(m)) => Withdraws
  BY DEF Lose
<1>16. QED
  BY <1>1, <1>2, <1>3, <1>4, <1>5, <1>6, <1>7, <1>8, <1>9, <1>10, <1>11, <1>12, <1>13, <1>14, <1>15 DEF Withdrawal

LEMMA GenerateKeepsPast ==
  ASSUME Inv, Past, Generate
  PROVE  Past'
<1> USE RunAssumption, RecordAssumption DEF Inv, Past, Generate, backend,
      recovery, history, Runs, Calls, None, Typed
<1>1. RunsInOrder'
  BY DEF RunsInOrder, InTurn
<1>2. RecordIsPast'
  BY DEF RunsInOrder, RecordIsPast, InTurn, InRecovery, Records
<1>3. HandledIsPast'
  BY DEF RunsInOrder, RecordIsPast, HandledIsPast, Handled, Answering, HasRead, InTurn, InRecovery, Posts
<1>4. ResultStays'
  BY DEF RunsInOrder, RecordIsPast, HandledIsPast, Handled, Answering, HasRead, InTurn, InRecovery,
         ResultStays, Records
<1>5. NoDenial'
  BY DEF NoDenial, ResultNotDenied, HandledIsPast, Handled, Answering, ResultStays, HasRead, InRecovery, Posts
<1>6. ReadHolds'
  BY DEF RunsInOrder, RecordIsPast, ReadHolds, HasRead, InRecovery, WorkIsOurs, OursOf
<1>7. QED
  BY <1>1, <1>2, <1>3, <1>4, <1>5, <1>6

LEMMA ElsewhereKeepsPast ==
  ASSUME Inv, Past, Elsewhere
  PROVE  Past'
<1> USE RunAssumption, RecordAssumption DEF Inv, Past, Elsewhere, BeginRun, backend,
      recovery, history, Runs, Calls, None, Typed
<1>1. RunsInOrder'
  BY DEF RunsInOrder, InTurn
<1>2. RecordIsPast'
  BY DEF RunsInOrder, RecordIsPast, InTurn, InRecovery, Records
<1>3. HandledIsPast'
  BY DEF RunsInOrder, RecordIsPast, HandledIsPast, Handled, Answering, HasRead, InTurn, InRecovery, Posts
<1>4. ResultStays'
  BY DEF RunsInOrder, RecordIsPast, HandledIsPast, Handled, Answering, HasRead, InTurn, InRecovery,
         ResultStays, Records
<1>5. NoDenial'
  BY DEF NoDenial, ResultNotDenied, HandledIsPast, Handled, Answering, ResultStays, HasRead, InRecovery, Posts
<1>6. ReadHolds'
  BY DEF RunsInOrder, RecordIsPast, ReadHolds, HasRead, InRecovery, WorkIsOurs, OursOf
<1>7. QED
  BY <1>1, <1>2, <1>3, <1>4, <1>5, <1>6

LEMMA SentKeepsPast ==
  ASSUME Inv, Past, Sent
  PROVE  Past'
<1> USE RunAssumption, RecordAssumption DEF Inv, Past, Sent, BeginRun, backend,
      recovery, history, Runs, Calls, None, Typed
<1>1. RunsInOrder'
  BY DEF RunsInOrder, InTurn
<1>2. RecordIsPast'
  BY DEF RunsInOrder, RecordIsPast, InTurn, InRecovery, Records
<1>3. HandledIsPast'
  BY DEF RunsInOrder, RecordIsPast, HandledIsPast, Handled, Answering, HasRead, InTurn, InRecovery, Posts
<1>4. ResultStays'
  BY DEF RunsInOrder, RecordIsPast, HandledIsPast, Handled, Answering, HasRead, InTurn, InRecovery,
         ResultStays, Records
<1>5. NoDenial'
  BY DEF NoDenial, ResultNotDenied, HandledIsPast, Handled, Answering, ResultStays, HasRead, InRecovery, Posts
<1>6. ReadHolds'
  BY DEF RunsInOrder, RecordIsPast, ReadHolds, HasRead, InRecovery, WorkIsOurs, OursOf
<1>7. QED
  BY <1>1, <1>2, <1>3, <1>4, <1>5, <1>6

LEMMA ObservedKeepsPast ==
  ASSUME Inv, Past, Observed
  PROVE  Past'
<1> USE RunAssumption, RecordAssumption DEF Inv, Past, Observed, Put, Observe, backend,
      recovery, history, Runs, Calls, None, Typed
<1>1. RunsInOrder'
  BY DEF RunsInOrder, InTurn
<1>2. RecordIsPast'
  BY DEF RunsInOrder, RecordIsPast, InTurn, InRecovery, Records
<1>3. HandledIsPast'
  BY DEF RunsInOrder, RecordIsPast, HandledIsPast, Handled, Answering, HasRead, InTurn, InRecovery, Posts
<1>4. ResultStays'
  BY DEF RunsInOrder, RecordIsPast, HandledIsPast, Handled, Answering, HasRead, InTurn, InRecovery,
         ResultStays, Records
<1>5. NoDenial'
  BY DEF NoDenial, ResultNotDenied, HandledIsPast, Handled, Answering, ResultStays, HasRead, InRecovery, Posts
<1>6. ReadHolds'
  BY DEF RunsInOrder, RecordIsPast, ReadHolds, HasRead, InRecovery, WorkIsOurs, OursOf
<1>7. QED
  BY <1>1, <1>2, <1>3, <1>4, <1>5, <1>6

LEMMA ExecuteKeepsPast ==
  ASSUME Inv, Past, Execute
  PROVE  Past'
<1> USE RunAssumption, RecordAssumption DEF Inv, Past, Execute, Put, backend,
      recovery, history, Runs, Calls, None, Typed
<1>1. RunsInOrder'
  BY DEF RunsInOrder, InTurn
<1>2. RecordIsPast'
  BY DEF RunsInOrder, RecordIsPast, InTurn, InRecovery, Records
<1>3. HandledIsPast'
  BY DEF RunsInOrder, RecordIsPast, HandledIsPast, Handled, Answering, HasRead, InTurn, InRecovery, Posts
<1>4. ResultStays'
  BY DEF RunsInOrder, RecordIsPast, HandledIsPast, Handled, Answering, HasRead, InTurn, InRecovery,
         ResultStays, Records
<1>5. NoDenial'
  BY DEF NoDenial, ResultNotDenied, HandledIsPast, Handled, Answering, ResultStays, HasRead, InRecovery, Posts
<1>6. ReadHolds'
  BY DEF RunsInOrder, RecordIsPast, ReadHolds, HasRead, InRecovery, WorkIsOurs, OursOf
<1>7. QED
  BY <1>1, <1>2, <1>3, <1>4, <1>5, <1>6

LEMMA ExecutedKeepsPast ==
  ASSUME Inv, Past, Executed
  PROVE  Past'
<1> USE RunAssumption, RecordAssumption DEF Inv, Past, Executed, Put, backend,
      recovery, history, Runs, Calls, None, Typed
<1>1. RunsInOrder'
  BY DEF RunsInOrder, InTurn
<1>2. RecordIsPast'
  BY DEF RunsInOrder, RecordIsPast, InTurn, InRecovery, Records
<1>3. HandledIsPast'
  BY DEF RunsInOrder, RecordIsPast, HandledIsPast, Handled, Answering, HasRead, InTurn, InRecovery, Posts
<1>4. ResultStays'
  BY DEF RunsInOrder, RecordIsPast, HandledIsPast, Handled, Answering, HasRead, InTurn, InRecovery,
         ResultStays, Records
<1>a. of \in Calls /\ of \notin Handled
  BY DEF InTurn, HandledIsPast
<1>b. ~Answering(of)
  BY <1>a DEF Handled
<1>c. told[of] # "denied"
  BY <1>a, <1>b DEF Answering
<1>d. \A m \in posts : m.recovered => m.call # of
  BY <1>b DEF Answering
<1>5. NoDenial'
  BY <1>c, <1>d DEF NoDenial, ResultNotDenied
<1>6. ReadHolds'
  BY DEF RunsInOrder, RecordIsPast, ReadHolds, HasRead, InRecovery, WorkIsOurs, OursOf
<1>7. QED
  BY <1>1, <1>2, <1>3, <1>4, <1>5, <1>6

LEMMA AnsweredKeepsPast ==
  ASSUME Inv, Past, Answered
  PROVE  Past'
<1> USE RunAssumption, RecordAssumption DEF Inv, Past, Answered, Put, Observe, backend,
      recovery, history, Runs, Calls, None, Typed
<1>1. RunsInOrder'
  BY DEF RunsInOrder, InTurn
<1>2. RecordIsPast'
  BY DEF RunsInOrder, RecordIsPast, InTurn, InRecovery, Records
<1>3. HandledIsPast'
  BY DEF RunsInOrder, RecordIsPast, HandledIsPast, Handled, Answering, HasRead, InTurn, InRecovery, Posts
<1>4. ResultStays'
  BY DEF RunsInOrder, RecordIsPast, HandledIsPast, Handled, Answering, HasRead, InTurn, InRecovery,
         ResultStays, Records
<1>5. NoDenial'
  BY DEF NoDenial, ResultNotDenied, HandledIsPast, Handled, Answering, ResultStays, HasRead, InRecovery, Posts
<1>6. ReadHolds'
  BY DEF RunsInOrder, RecordIsPast, ReadHolds, HasRead, InRecovery, WorkIsOurs, OursOf
<1>7. QED
  BY <1>1, <1>2, <1>3, <1>4, <1>5, <1>6

LEMMA ReadPendingKeepsPast ==
  ASSUME Inv, Past, ReadPending
  PROVE  Past'
<1> USE RunAssumption, RecordAssumption DEF Inv, Past, ReadPending, Step, unmoved, Unchanged, MayBeTaken, AfterLookup, Waiting, backend,
      recovery, history, Runs, Calls, None, Typed
<1>1. RunsInOrder'
  BY DEF RunsInOrder, InTurn
<1>2. RecordIsPast'
  BY DEF RunsInOrder, RecordIsPast, InTurn, InRecovery, Records
<1>3. HandledIsPast'
  BY DEF RunsInOrder, RecordIsPast, HandledIsPast, Handled, Answering, HasRead, InTurn, InRecovery, Posts
<1>4. ResultStays'
  BY DEF RunsInOrder, RecordIsPast, HandledIsPast, Handled, Answering, HasRead, InTurn, InRecovery,
         ResultStays, Records
<1>5. NoDenial'
  BY DEF NoDenial, ResultNotDenied, HandledIsPast, Handled, Answering, ResultStays, HasRead, InRecovery, Posts
<1>6. ReadHolds'
  BY DEF RunsInOrder, RecordIsPast, ReadHolds, HasRead, InRecovery, WorkIsOurs, OursOf
<1>7. QED
  BY <1>1, <1>2, <1>3, <1>4, <1>5, <1>6

LEMMA LookUpOtidKeepsPast ==
  ASSUME Inv, Past, LookUpOtid
  PROVE  Past'
<1> USE RunAssumption, RecordAssumption DEF Inv, Past, LookUpOtid, Step, unmoved, AfterLookup, backend,
      recovery, history, Runs, Calls, None, Typed
<1>1. RunsInOrder'
  BY DEF RunsInOrder, InTurn
<1>2. RecordIsPast'
  BY DEF RunsInOrder, RecordIsPast, InTurn, InRecovery, Records
<1>3. HandledIsPast'
  BY DEF RunsInOrder, RecordIsPast, HandledIsPast, Handled, Answering, HasRead, InTurn, InRecovery, Posts
<1>4. ResultStays'
  BY DEF RunsInOrder, RecordIsPast, HandledIsPast, Handled, Answering, HasRead, InTurn, InRecovery,
         ResultStays, Records
<1>5. NoDenial'
  BY DEF NoDenial, ResultNotDenied, HandledIsPast, Handled, Answering, ResultStays, HasRead, InRecovery, Posts
<1>6. ReadHolds'
  BY DEF RunsInOrder, RecordIsPast, ReadHolds, HasRead, InRecovery, WorkIsOurs, OursOf
<1>7. QED
  BY <1>1, <1>2, <1>3, <1>4, <1>5, <1>6

LEMMA ContinueKeepsPast ==
  ASSUME Inv, Past, Continue
  PROVE  Past'
<1> USE RunAssumption, RecordAssumption DEF Inv, Past, Continue, Put, Off, Unchanged, Answer, backend,
      recovery, history, Runs, Calls, None, Typed
<1>1. RunsInOrder'
  BY DEF RunsInOrder, RecordIsPast, InRecovery
<1>2. RecordIsPast'
  BY DEF RunsInOrder, RecordIsPast, InTurn, InRecovery, Records
<1>3. HandledIsPast'
  BY DEF RunsInOrder, RecordIsPast, HandledIsPast, Handled, Answering, HasRead, InTurn, InRecovery, Posts
<1>4. ResultStays'
  BY DEF RunsInOrder, RecordIsPast, HandledIsPast, Handled, Answering, HasRead, InTurn, InRecovery,
         ResultStays, Records
<1>5. NoDenial'
  BY DEF NoDenial, ResultNotDenied, HandledIsPast, Handled, Answering, ResultStays, HasRead, InRecovery, Posts
<1>6. ReadHolds'
  BY DEF RunsInOrder, RecordIsPast, ReadHolds, HasRead, InRecovery, WorkIsOurs, OursOf
<1>7. QED
  BY <1>1, <1>2, <1>3, <1>4, <1>5, <1>6

LEMMA DeliverKeepsPast ==
  ASSUME Inv, Past, NEW m \in posts, Deliver(m)
  PROVE  Past'
<1> USE RunAssumption, RecordAssumption DEF Inv, Past, Deliver, BeginRun, backend, recovery,
      history, Runs, Calls, None, Typed
<1>0. m \in Posts
  OBVIOUS
<1>a. Handled' \subseteq Handled
  BY <1>0 DEF Handled, Answering, Posts
<1>1. RunsInOrder'
  BY <1>0 DEF RunsInOrder, InTurn, Posts
<1>2. RecordIsPast'
  BY DEF RecordIsPast
<1>3. HandledIsPast'
  BY <1>a DEF HandledIsPast, HasRead
<1>4. ResultStays'
  BY DEF ResultStays, HasRead
<1>5. NoDenial'
  BY <1>0 DEF NoDenial, ResultNotDenied, Posts
<1>6. ReadHolds'
  BY <1>0 DEF RunsInOrder, RecordIsPast, ReadHolds, HasRead, InRecovery, Records, Posts
<1>7. QED
  BY <1>1, <1>2, <1>3, <1>4, <1>5, <1>6

LEMMA NextKeepsPast == Inv /\ Past /\ [Next]_vars => Past'
<1> SUFFICES ASSUME Inv, Past, [Next]_vars PROVE Past'
  OBVIOUS
<1>1. CASE Withdrawal
  BY <1>1, ActionsWithdraw, WithdrawsKeeps
<1>2. CASE Generate \/ Elsewhere \/ \E m \in posts : Deliver(m)
  BY <1>2, GenerateKeepsPast, ElsewhereKeepsPast, DeliverKeepsPast
<1>3. CASE Sent \/ Observed \/ Execute \/ Executed \/ Answered
  BY <1>3, SentKeepsPast, ObservedKeepsPast, ExecuteKeepsPast, ExecutedKeepsPast,
     AnsweredKeepsPast
<1>4. CASE ReadPending \/ LookUpOtid \/ Continue
  BY <1>4, ReadPendingKeepsPast, LookUpOtidKeepsPast, ContinueKeepsPast
<1>5. CASE UNCHANGED vars
  <2>1. Withdraws
    BY <1>5 DEF vars, backend, recovery, history, Withdraws
  <2>2. QED
    BY <2>1, WithdrawsKeeps
<1>6. QED
  BY <1>1, <1>2, <1>3, <1>4, <1>5 DEF Next, Backend, Turn, Recovery, Withdrawal

LEMMA InitPast == Init => Past
BY DEF Init, Past, RunsInOrder, RecordIsPast, HandledIsPast, Handled, Answering, HasRead,
   ResultStays, NoDenial, ResultNotDenied, ReadHolds, None, Calls, Runs

LEMMA PastHolds == Spec => [](Inv /\ Past)
BY InitOwns, NextKeeps, InitPast, NextKeepsPast, PTL DEF Spec

(* Recovery denies no call whose results were written down, in whatever        *)
(* listener, after however many crashes: the answer that recordedToolResults   *)
(* makes up is never a denial of what the tools have already done.             *)
THEOREM ResultsAreNotDenied == Spec => []ResultNotDenied
<1>1. Past => ResultNotDenied
  BY DEF Past, NoDenial
<1>2. QED
  BY <1>1, PastHolds, PTL

\* Of all steps only two drop the record while recovery is on and the turn stays.
LEMMA OnlyTwoDrop ==
  ASSUME Inv, [Next]_vars, Dropped
  PROVE  Ended \/ NotOwn
<1> USE RecordAssumption DEF Dropped, backend, recovery, history
<1>1. ASSUME Backend PROVE FALSE
  BY <1>1 DEF Backend, Generate, Deliver, Lose, Elsewhere, ElsewhereEnds
<1>2. ASSUME Turn PROVE FALSE
  BY <1>2 DEF Turn, Message, Sent, Observed, Execute, Executed, Answered, Finish, Abort, Fail
<1>3. ~Connect /\ ~RetryTimer /\ ~Crash /\ ~UNCHANGED vars
  BY DEF Connect, RetryTimer, Crash, vars
<1>4. ~Granted /\ ~ReadPending /\ ~LookUpOtid /\ ~Own /\ ~Defer /\ ~GiveUp
  BY DEF Granted, ReadPending, LookUpOtid, Own, Defer, GiveUp, Step
<1>5. ~Continue
  BY DEF Continue, Unchanged
<1>6. QED
  BY <1>1, <1>2, <1>3, <1>4, <1>5 DEF Next, Recovery

\* What those two drop: the record that was read, when nothing of it waits or
\* goes on.
LEMMA DropIsSafe ==
  ASSUME Inv, Past, Ended \/ NotOwn, disk # NoRecord
  PROVE  /\ ~(phase = "waiting" /\ disk.call = run)
         /\ disk.kind # "none" => ~(phase = "running" /\ begun[disk.call] = run)
<1> USE DEF Inv, Past
<1>1. copy = disk /\ copy # NoRecord /\ same
  BY DEF Ended, NotOwn, Unchanged, RecordIsPast
<1>2. HasRead /\ (Ended => pending = None) /\ (NotOwn => pending # None /\ pending # copy.call)
  BY DEF Ended, NotOwn, HasRead, ReadHolds, InRecovery
<1>3. phase # "done" => run # None
  BY DEF WorkIsOurs
<1>4. ASSUME phase = "waiting", copy.call = run PROVE FALSE
  <2>1. pending = run
    BY <1>1, <1>2, <1>4 DEF ReadHolds
  <2>2. QED
    BY <2>1, <1>2, <1>3, <1>4
<1>5. ASSUME copy.kind # "none", phase = "running", begun[copy.call] = run PROVE FALSE
  <2>1. copy.call # None /\ pending # copy.call /\ begun[copy.call] # None
    BY <1>1, <1>2, <1>3, <1>5 DEF WorkIsOurs, OursOf
  <2>2. /\ pending # None => begun[copy.call] <= pending
        /\ rec # "otid" => source = begun[copy.call]
    BY <1>1, <1>2, <1>5, <2>1 DEF ReadHolds
  <2>3. CASE Ended
    BY <1>5, <2>2, <2>3 DEF Ended, StillRuns
  <2>4. CASE NotOwn
    <3>1. pending \in asked /\ run <= pending
      BY <1>2, <1>5, <2>2, <2>4 DEF RecordIsPast
    <3>2. pending <= run
      BY <3>1 DEF RunsInOrder
    <3>3. pending = run
      BY <3>1, <3>2, RunAssumption DEF Typed, Runs, None
    <3>4. QED
      BY <1>5, <3>1, <3>3 DEF RunsInOrder
  <2>5. QED
    BY <2>3, <2>4
<1>6. QED
  BY <1>1, <1>4, <1>5

(* Recovery never removes a record whose results the backend waits for, be it  *)
(* that nothing seems to wait or that what waits seems to be another's work:    *)
(* what recovery has read holds as long as the revision of the record does.     *)
THEOREM ResultsAreKept == Spec => ResultKept
<1>1. Inv /\ Past /\ [Next]_vars =>
        (Dropped => ~(phase = "waiting" /\ disk.kind = "result" /\ disk.call = run))
  BY OnlyTwoDrop, DropIsSafe DEF Dropped
<1>2. QED
  BY <1>1, PastHolds, PTL DEF Spec, ResultKept

(* A continuation with results that the backend has accepted, and that still    *)
(* generates, keeps its record: the look-up by the OTID of the record names the *)
(* run that it began, and that run is asked for.                                *)
THEOREM AcceptedIsRetained == Spec => AcceptedRetained
<1>1. Inv /\ Past /\ [Next]_vars =>
        (Dropped /\ disk.kind # "none" => ~(phase = "running" /\ begun[disk.call] = run))
  BY OnlyTwoDrop, DropIsSafe DEF Dropped
<1>2. QED
  BY <1>1, PastHolds, PTL DEF Spec, AcceptedRetained
=============================================================================
