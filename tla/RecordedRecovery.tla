-------------------------- MODULE RecordedRecovery --------------------------
(***************************************************************************)
(* The record that a relayed listener keeps on disk of the work of one     *)
(* conversation, and the recovery of that work by the listener that comes  *)
(* after a crash, or by the same one when it connects again.               *)
(*                                                                         *)
(* The backend generates one run after the other; a run ends, or waits for *)
(* the answer to its tool calls (one set, named by the run).  A turn of    *)
(* the listener writes down the run it observes, the calls before it       *)
(* executes them and the results after that, and posts these under the     *)
(* identity (OTID) that is in the record.  Recovery reads the record, asks *)
(* the backend what it waits for, and posts the results, or denials where  *)
(* there are none, as a turn of its own.  A post may be delayed past the   *)
(* death of its sender, or lost.                                           *)
(*                                                                         *)
(* Records that a teleport has suspended are not modelled.                 *)
(***************************************************************************)
EXTENDS Naturals

CONSTANTS MaxRuns,   \* bound on the runs of the backend
          NoRecord

ASSUME RunAssumption == MaxRuns \in Nat \ {0}

Runs == 1 .. MaxRuns
None == 0            \* no run, no call, no answer
Calls == Runs        \* the call that a run waits for
Posts == [call : Calls, kind : {"result", "denied"}, recovered : BOOLEAN]

\* run: runId; call: toolCallIds, and requestOtid, new with every call;
\* kind: what is in results.
Records == [run : Runs, call : Calls \cup {None}, kind : {"none", "result", "denied"}]

ASSUME RecordAssumption == NoRecord \notin Records

VARIABLES
  run,     \* the last run of the backend
  phase,   \* what it does
  asked,   \* the runs that ended with tool calls
  ours,    \* the runs begun by what this listener posted
  mine,    \* those of its present connection
  other,   \* another listener has the conversation
  begun,   \* the run that the answer to a call began, found by its OTID
  posts,   \* answers on their way
  up,      \* the listener runs
  turn,    \* turnLifecycle: where the turn of the listener is
  of,      \* the run it observes, or the call it answers
  disk,    \* the record
  rec,     \* where recoverRecordedTurns is
  copy,    \* the record it has listed
  same,    \* the record on disk is still that one: its revision
  pending, \* pendingApprovals
  source,  \* recordedRunId
  timer,   \* the retry timer
  kept,    \* history: the calls whose results were written
  told     \* history: the answers that recovery gave and the backend took

backend == <<run, phase, asked, ours, other, begun>>
recovery == <<rec, copy, pending, source>>
history == <<kept, told>>
vars == <<backend, mine, posts, up, turn, of, disk, recovery, same, timer, history>>

TypeOK ==
  /\ run \in Runs \cup {None}
  /\ phase \in {"running", "waiting", "done"}
  /\ asked \subseteq Runs
  /\ ours \subseteq Runs /\ mine \subseteq ours
  /\ other \in BOOLEAN /\ up \in BOOLEAN /\ same \in BOOLEAN /\ timer \in BOOLEAN
  /\ begun \in [Calls -> Runs \cup {None}]
  /\ posts \subseteq Posts
  /\ turn \in {"idle", "sending", "accepted", "streaming", "executing", "answering"}
  /\ of \in Runs \cup {None}
  /\ disk \in Records \cup {NoRecord}
  /\ rec \in {"off", "owner", "pending", "otid", "status", "message", "ownerAgain"}
  /\ copy \in Records \cup {NoRecord}
  /\ pending \in Calls \cup {None}
  /\ source \in Runs \cup {None}
  /\ kept \subseteq Calls
  /\ told \in [Calls -> {"none", "result", "denied"}]

Init ==
  /\ run = None /\ phase = "done" /\ asked = {} /\ ours = {} /\ mine = {} /\ other = FALSE
  /\ begun = [c \in Calls |-> None]
  /\ posts = {}
  /\ up = TRUE /\ turn = "idle" /\ of = None
  /\ disk = NoRecord
  /\ rec = "off" /\ copy = NoRecord /\ same = TRUE /\ pending = None /\ source = None
  /\ timer = FALSE
  /\ kept = {} /\ told = [c \in Calls |-> "none"]

-----------------------------------------------------------------------------
\* The backend.
BeginRun(own) ==
  /\ run < MaxRuns
  /\ run' = run + 1
  /\ phase' = "running"
  /\ ours' = IF own THEN ours \cup {run + 1} ELSE ours

Generate ==
  /\ phase = "running"
  /\ phase' \in {"waiting", "done"}
  /\ asked' = IF phase' = "waiting" THEN asked \cup {run} ELSE asked
  /\ UNCHANGED <<run, ours, mine, other, begun, posts, up, turn, of, disk, recovery, same, timer,
                 history>>

\* A post arrives.  It counts if the backend waits for that call.
Deliver(m) ==
  /\ m \in posts
  /\ posts' = posts \ {m}
  /\ IF phase = "waiting" /\ run = m.call
       THEN /\ BeginRun(TRUE)
            /\ begun' = [begun EXCEPT ![m.call] = run + 1]
            /\ told' = [told EXCEPT ![m.call] = IF m.recovered THEN m.kind ELSE @]
            /\ mine' = IF turn = "answering" /\ of = m.call THEN mine \cup {run + 1} ELSE mine
       ELSE UNCHANGED <<run, phase, ours, begun, told, mine>>
  /\ UNCHANGED <<asked, other, up, turn, of, disk, recovery, same, timer, kept>>

Lose(m) ==
  /\ m \in posts
  /\ posts' = posts \ {m}
  /\ UNCHANGED <<backend, mine, up, turn, of, disk, recovery, same, timer, history>>

\* Another listener takes the conversation, with a message that denies what
\* waits, or goes on with it.
Elsewhere ==
  /\ phase # "running"
  /\ BeginRun(FALSE)
  /\ other' = TRUE
  /\ UNCHANGED <<asked, begun, mine, posts, up, turn, of, disk, recovery, same, timer, history>>

\* Its turn ends, or the process.
ElsewhereEnds ==
  /\ other
  /\ other' = FALSE
  /\ UNCHANGED <<run, phase, asked, ours, mine, begun, posts, up, turn, of, disk, recovery, same,
                 timer, history>>

-----------------------------------------------------------------------------
\* write and remove: the record has another revision, or none.
Put(r) == disk' = r /\ same' = FALSE

\* A message of a user begins a turn.
Message ==
  /\ up /\ turn = "idle"
  /\ turn' = "sending"
  /\ UNCHANGED <<backend, mine, posts, up, of, disk, recovery, same, timer, history>>

\* recordListenerWork: the run is new, the rest as it was.
Observe(r) ==
  Put(IF disk = NoRecord THEN [run |-> r, call |-> None, kind |-> "none"]
                         ELSE [disk EXCEPT !.run = r])

\* The backend takes the message, after the denial of what it waits for.
Sent ==
  /\ turn = "sending" /\ phase # "running" /\ ~other
  /\ BeginRun(TRUE)
  /\ mine' = mine \cup {run + 1}
  /\ turn' = "accepted"
  /\ of' = run + 1
  /\ UNCHANGED <<asked, other, begun, posts, up, disk, recovery, same, timer, history>>

\* The first chunk of its stream names the run.
Observed ==
  /\ turn = "accepted"
  /\ turn' = "streaming"
  /\ Observe(of)
  /\ UNCHANGED <<backend, mine, posts, up, of, recovery, timer, history>>

\* The stream of the run ends with tool calls, and these are approved.
Execute ==
  /\ turn = "streaming" /\ of \in asked
  /\ turn' = "executing"
  /\ Put([disk EXCEPT !.call = of, !.kind = "none"])
  /\ UNCHANGED <<backend, mine, posts, up, of, recovery, timer, history>>

Executed ==
  /\ turn = "executing"
  /\ turn' = "answering"
  /\ Put([disk EXCEPT !.kind = "result"])
  /\ kept' = kept \cup {of}
  /\ posts' = posts \cup {[call |-> of, kind |-> "result", recovered |-> FALSE]}
  /\ UNCHANGED <<backend, mine, up, of, recovery, timer, told>>

\* The answer is taken, and the run that it began is observed.
Answered ==
  /\ turn = "answering" /\ begun[of] # None
  /\ turn' = "streaming"
  /\ of' = begun[of]
  /\ Observe(begun[of])
  /\ UNCHANGED <<backend, mine, posts, up, recovery, timer, history>>

\* finishListenerTurn with end_turn or cancelled: forgetListenerWork.
Finish ==
  /\ turn = "streaming" /\ of \notin asked
  /\ run = of => phase = "done"
  /\ turn' = "idle" /\ of' = None
  /\ Put(NoRecord)
  /\ UNCHANGED <<backend, mine, posts, up, recovery, timer, history>>

Abort ==
  /\ turn # "idle"
  /\ turn' = "idle" /\ of' = None
  /\ Put(NoRecord)
  /\ phase' = IF phase = "running" /\ run = of THEN "done" ELSE phase
  /\ UNCHANGED <<run, asked, ours, mine, other, begun, posts, up, recovery, timer, history>>

\* It ends with an error: the record stays.
Fail ==
  /\ turn # "idle"
  /\ turn' = "idle" /\ of' = None
  /\ UNCHANGED <<backend, mine, posts, up, disk, recovery, same, timer, history>>

-----------------------------------------------------------------------------
\* recoverRecordedTurns lists the record and asks canRecoverConversation.
Begin ==
  /\ rec = "off"
  /\ timer' = FALSE
  /\ IF disk # NoRecord /\ turn = "idle"
       THEN rec' = "owner" /\ copy' = disk /\ same' = TRUE
       ELSE UNCHANGED <<rec, copy, same>>
  /\ UNCHANGED <<pending, source>>

\* The listener connects, again or for the first time since it started.
Connect ==
  /\ up' = TRUE
  /\ mine' = {}
  /\ IF rec = "off" THEN Begin ELSE UNCHANGED <<recovery, same, timer>>
  /\ UNCHANGED <<backend, posts, turn, of, disk, history>>

RetryTimer ==
  /\ up /\ timer
  /\ Begin
  /\ UNCHANGED <<backend, mine, posts, up, turn, of, disk, history>>

Crash ==
  /\ up
  /\ up' = FALSE
  /\ turn' = "idle" /\ of' = None
  /\ rec' = "off" /\ copy' = NoRecord /\ same' = TRUE /\ pending' = None /\ source' = None
  /\ timer' = FALSE
  /\ mine' = {}
  /\ UNCHANGED <<backend, posts, disk, history>>

Off == rec' = "off" /\ copy' = NoRecord /\ pending' = None /\ source' = None

unmoved == <<backend, mine, posts, up, history>>

\* The backend may name nobody, or this connection, as the owner.
CanRecover == ~other /\ (phase = "running" => run \in mine)

\* unchanged(): the conversation is idle, and the revision the same.
Unchanged == turn = "idle" /\ same

\* A request fails, or the ownership is not granted: a timer tries again.
Defer ==
  /\ rec \in {"owner", "pending", "otid", "status", "message"}
  /\ Off
  /\ timer' = TRUE
  /\ UNCHANGED <<unmoved, turn, of, disk, same>>

\* The record has changed, or the conversation is busy; or it is the second
\* look at the ownership that fails.  No timer is set.
GiveUp ==
  /\ rec \in {"pending", "status", "message", "ownerAgain"}
  /\ rec = "ownerAgain" \/ ~Unchanged
  /\ Off
  /\ UNCHANGED <<unmoved, turn, of, disk, same, timer>>

Step(from, to) == rec = from /\ rec' = to /\ UNCHANGED <<unmoved, turn, of, disk, same, timer, copy>>

Granted ==
  /\ CanRecover
  /\ Step("owner", "pending")
  /\ UNCHANGED <<pending, source>>

Waiting == IF phase = "waiting" THEN run ELSE None

\* Results that are not what the backend waits for: it may have taken them.
MayBeTaken(p) == copy.kind # "none" /\ p # copy.call

AfterLookup(p) == IF p = None THEN "status"
                  ELSE IF p = copy.call THEN "ownerAgain" ELSE "message"

\* A read that fails is taken for an answer that nothing waits.
ReadPendingOrNone ==
  /\ rec = "pending" /\ Unchanged
  /\ pending' \in {Waiting, None}
  /\ source' = copy.run
  /\ Step("pending", IF MayBeTaken(pending') THEN "otid" ELSE AfterLookup(pending'))

ReadPending ==
  /\ rec = "pending" /\ Unchanged
  /\ pending' = Waiting
  /\ source' = copy.run
  /\ Step("pending", IF MayBeTaken(Waiting) THEN "otid" ELSE AfterLookup(Waiting))

\* The run in the record is asked for, never the one that the results began.
NoLookUp ==
  /\ rec = "otid"
  /\ Step("otid", AfterLookup(pending))
  /\ UNCHANGED <<pending, source>>

\* The request with the OTID of the record names the run that it began.
LookUpOtid ==
  /\ rec = "otid"
  /\ source' = IF begun[copy.call] # None THEN begun[copy.call] ELSE source
  /\ Step("otid", AfterLookup(pending))
  /\ UNCHANGED pending

Drop ==
  /\ disk' = NoRecord /\ same' = FALSE
  /\ Off
  /\ UNCHANGED <<unmoved, turn, of, timer>>

StillRuns(r) == run = r /\ phase = "running"

\* Nothing waits, and the run has ended.  (One that has not defers.)
Ended ==
  /\ rec = "status" /\ Unchanged
  /\ ~StillRuns(source)
  /\ Drop

\* Whatever waits is taken for the work of the record.
OwnUnasked ==
  /\ Unchanged
  /\ Step("message", "ownerAgain")
  /\ UNCHANGED <<pending, source>>

\* The approval message names the run that waits.
Own ==
  /\ Unchanged
  /\ pending = source
  /\ Step("message", "ownerAgain")
  /\ UNCHANGED <<pending, source>>

NotOwn ==
  /\ rec = "message" /\ Unchanged
  /\ pending # source
  /\ Drop

\* The results are sent as they are in the record.
AnswerAsRecorded == copy.kind

\* Whatever waits is denied.
AnswerDenied == "denied"

\* recordedToolResults: a call without a result is denied.
Answer == IF pending = copy.call /\ copy.kind # "none" THEN copy.kind ELSE "denied"

\* The record is written again, and the answer is sent in a turn of its own.
Continue ==
  /\ rec = "ownerAgain" /\ Unchanged /\ CanRecover
  /\ Put(IF pending = copy.call THEN copy
         ELSE [copy EXCEPT !.call = pending, !.kind = "denied"])
  /\ turn' = "answering" /\ of' = pending
  /\ posts' = posts \cup {[call |-> pending, kind |-> Answer, recovered |-> TRUE]}
  /\ Off
  /\ UNCHANGED <<backend, mine, up, timer, history>>

Backend == Generate \/ (\E m \in posts : Deliver(m) \/ Lose(m)) \/ Elsewhere \/ ElsewhereEnds
Turn == Message \/ Sent \/ Observed \/ Execute \/ Executed \/ Answered \/ Finish \/ Abort \/ Fail
Recovery ==
  \/ Granted \/ ReadPending \/ LookUpOtid \/ Ended \/ Own \/ NotOwn \/ Continue
  \/ Defer \/ GiveUp
Next == Backend \/ Turn \/ Recovery \/ Connect \/ RetryTimer \/ Crash

Spec == Init /\ [][Next]_vars

-----------------------------------------------------------------------------
\* What was executed is reported: recovery denies no call whose results are
\* in the record (recordedToolResults), whichever listener finds them.
ResultNotDenied == \A c \in kept : told[c] # "denied"

\* Recovery answers only what this listener's work has asked for, never a call
\* that waits for another listener (canRecoverConversation, and the look at
\* the run of the approval message).
RecoversOwn == \A c \in Calls : told[c] # "none" => c \in ours

Dropped == rec # "off" /\ disk # NoRecord /\ disk' = NoRecord /\ turn' = turn

\* Recovery never drops a record whose results the backend waits for
\* (the removals in recoverRecordedTurns).
ResultKept ==
  [][Dropped => ~(phase = "waiting" /\ disk.kind = "result" /\ disk.call = run)]_vars

\* An accepted continuation with results that is still generating output is
\* retained, though nothing waits (recover-recorded-turn.test.ts:80).
AcceptedRetained ==
  [][Dropped /\ disk.kind # "none" => ~(phase = "running" /\ begun[disk.call] = run)]_vars

\* The same of every continuation, one that only denies included (the title
\* of the same test).
ContinuationRetained ==
  [][Dropped /\ disk.call # None => ~(phase = "running" /\ begun[disk.call] = run)]_vars
=============================================================================
