# TLA+ verification of the letta-code listener

letta-code is a coding agent.  A process on the user's machine (the *listener*,
`src/src/websocket/listener/`) accepts inputs from any number of clients,
queues them per conversation, runs one agent turn at a time for each
conversation, executes the tools the agent calls, asks clients for approvals,
and recovers what an earlier process left unfinished.  It is single-threaded
TypeScript, and every `await` is a place where another handler may run: what is
hard in it is not data but the order in which handlers, turns, promise chains,
aborts, backend answers and disconnections interleave.  Beside the listener's own
promise chains there are three places where *processes* meet, through files: the
lock of a registration slot, the lease of the schedules in `crons.json`, and the
records of interrupted turns that outlive a crash.

The modules here model that core, check it with TLC and prove parts of it with
TLAPS.  Section 1 is the inventory of the program, section 2 the modules and how
they correspond to the code, section 3 the runs and what they show, section 4
where the code and its own words disagree, section 5 the proofs, section 6 what is
left out, section 7 the plan.

To check a run: `tlc -workers 2 -config MCConversation.cfg MCListenerConversation.tla`;
to check a proof: `tlapm TurnOwners_proofs.tla`, and likewise the other `*_proofs.tla`.

## 1. Inventory

### The listener's core

| Component (source) | State | Operations | What makes it correct |
|---|---|---|---|
| Turn lifecycle (`turn-lifecycle.ts`) | `#state` (idle, command, active, cancelling), last stop reason | `begin`, `setStatus`, `setRunId`, `setExecutingToolCallIds`, `recordStopReason`, `requestCancellation`, `finish`, `settleCancellation`, `startCommand`, `finishCommand`, `reset` | one owner drives a conversation; a cancellation holds it until the backend settled; one terminal transition per turn |
| Queue (`queue/queue-runtime.ts`) | list of items, blocked-reason tracking | `enqueue`, `tryDequeue`, `consumeItems`, `removeItem`, `pause`, `resume`, `clear`, `resetBlockedState` | bounded; order; homogeneous batches; a refusal is visible |
| Queue pump and inbound dispatch (`queue.ts`, `inbound-dispatch.ts`, `inbound-queue.ts`, `message-router.ts`) | `messageQueue` promise chain, `queuePumpScheduled`, `queuePumpActive`, `acceptedInputDispositions`, `queuedMessagesByItemId` | `dispatchInboundMessageWhenReady`, `scheduleQueuePump`, `drainQueuedMessages`, `consumeQueuedTurn` | no work is stranded in an idle conversation; while there is work, a retried input runs once; a user's messages keep their order |
| Turn owner (`turn.ts`, `turn-setup.ts`, `turn-stream.ts`, `turn-approval.ts`, `turn-completion.ts`, `turn-terminal.ts`, `send.ts`) | the lease, the retry counters, the input of the turn | setup, send, stream, approval, tool execution, completion, cleanup | every exit finishes the lease; nothing is taken from the queue by a turn that was told to stop |
| Control inputs (`control-inputs.ts`, `commands/queue.ts`, `turn-status.ts`) | interrupt cache | `abort_message`, `approval_response`, `change_device_state`, `resume_queue`, `remove_queue_item` | an abort parks the user's messages, system work still drains |
| Approvals (`approval.ts`) | `pendingApprovalResolvers` | request, resolve, reject, replay to a new connection | a pending approval belongs to the running turn |
| Recovery (`recovery-sync.ts`, `sync-replay.ts`, `recovery.ts`, `recovery-ownership.ts`) | `recoveredApprovalState`, interrupt cache | read the backend's pending approvals, verify, start a recovery turn outside the promise chain | it starts no second turn; it neither loses nor strands queued work |
| Recorded recovery (`interrupted-turn-record.ts`, `recover-recorded-turn.ts`) | records on disk, retry timer | record work, list, verify, continue, defer | what was executed is reported and not denied; only its own work is recovered; a record that is still needed stays |
| Connections (`connection.ts`, `connection-lifecycle.ts`, `connection-state-sync.ts`, `lifecycle.ts`) | connection map, subscriptions, resume states | connect, subscribe, close, suspend, reconnect, stop | the turn fails over or is cancelled; queued inputs of a closed client go with it |
| Runtime registry (`runtime.ts`, `conversation-runtime.ts`) | `conversationRuntimes` | get-or-create, `evictConversationRuntimeIfIdle`, `clearConversationRuntimeState` | one runtime object per conversation while it has work |
| Teleport (`teleport*.ts`) | pending teleports, expected handoffs | claim at a boundary, hand over, fail | two listeners never run one conversation |
| Locks (`manual-instance-lock.ts`, `remote-settings-lock.ts`) | lock files, recovery claims | acquire, recover a dead owner's file, pass a dead recoverer's claim, release | mutual exclusion across processes, whoever dies; acquisition ends |
| Cron scheduler (`cron/scheduler.ts`, `cron/cron-file.ts`) | the file: `scheduler_owner`, `scheduler_owners`, tasks; the process: `schedulerState`, task cache, fired keys, jitter timers | claim, refresh, restore, release; tick, fire, mark missed, record; add, pause, resume, delete | a schedule has one scheduler; a one-shot runs once, or is reported missed, and does not stay due |

### The rest of the program

| Component (source under `src/src/`) | What it is |
|---|---|
| `cli/`, `headless.ts` | the Ink terminal UI and the one-shot driver, with their own turn loop and queue (`queue/turn-queue-runtime.ts`) |
| `channels/` | Slack, Telegram, Discord, WhatsApp and Signal gateways: debounce, routing, pairing |
| `agent/`, `agent/subagents/` | agent creation, memory repository, approval execution, turn-recovery policy, subagent processes |
| `backend/` | the remote API and the local backend (store, transcript, turns) |
| `tools/`, `permissions/`, `hooks/`, `mods/`, `skills/`, `reminders/` | tool implementations, permission rules, user extensions |
| `providers/`, `auth/`, `mcp-oauth`, `settings-manager`, `telemetry/`, `updater/`, `lsp/`, `sandbox/` | configuration, credentials and I/O |

### How the core interacts

An input reaches `message-router.ts`.  When the conversation has nothing queued,
nothing running and nothing pending, the input is chained on the conversation's
`messageQueue` promise and starts its turn directly; otherwise it is pushed on
the queue and a *pump* is chained instead.  Tasks of the chain run one after the
other, and a turn is awaited inside its task.  Everything else runs between the
awaits: aborts, approvals, device commands, connection changes and listener
stops are handled at once; backend cancellations and syncs have awaits of their
own and finish later.  Recovery turns are *not* run on the chain: they are
started by a sync handler and excluded from running beside a chained turn only
by the turn lifecycle.

### What is hard to test

The hazards are listed one by one, at the line where they bite, in
`PROJECT.json`.  They come in seven families:

- *stale leases*: an owner that awaited while its turn was cancelled, settled,
  discarded or replaced goes on with the lease it holds;
- *lost wake-ups*: nobody polls; every handler that may have made the queue
  runnable has to schedule the pump itself, and the pump gives up for many
  reasons (busy, approvals, no client, stopped);
- *check then act across the chain*: whether a message is started directly is
  decided when it arrives and acted upon when the chain reaches it;
- *retries*: clients repeat a message with the same id, through another
  connection, before or after the first copy has run and its runtime object is gone;
- *the second entrance*: turns started by a sync run beside the chain, and share
  the queue with it;
- *files of the dead*: a process may die between any two file operations, and the
  next one must tell what it left behind from what a living one has just written;
- *answers about yesterday*: recovery asks the backend several questions, one after
  the other, while a request of its dead predecessor may still arrive.

## 2. The modules

```
TurnLifecycle  <--- TurnOwners  <=== implemented by === ListenerConversation
     (operators)      (abstract)                              |
                                                              | uses the operators of
QueueItems  <-------- QueueRuntime                            |
     (operators)      (the class by itself)      TurnLifecycle, QueueItems

Mutex  <=== implemented by === ManualInstanceLock     (lock file, claims)

CronLease  <=== implemented by === CronScheduler      (extends it with the schedules)

RecordedRecovery                                      (record, backend, recovery)
```

- **`TurnLifecycle`** – the methods of the class `TurnLifecycle` as operators
  from a turn state to the next one.  No state of its own.
- **`TurnOwners`** – the lifecycle with everybody who calls it, in any order:
  owners that hold a lease, the abort handler, a closing connection, the backend's
  answer to a cancellation, device commands, a listener stop.  It keeps what the
  class cannot see: who still runs, whose signal fired, which cancellations are
  out.  It is also the abstract specification of turns.
- **`QueueItems`** – the list of `QueueRuntime` and what the methods do to it.
  Ids increase and items are appended, so the list is a set ordered by id.
- **`QueueRuntime`** – the class, with the tracking of blocked reasons.
- **`ListenerConversation`** – one conversation: queue, promise chain, pump,
  owners of turns, approvals, clients and syncs.  An action is a stretch of code
  between two awaits.  The variables are those of the conversation's runtime
  object, with a few that only observe: `acked` and `served` (which messages were
  accepted, and given to turns, in which order), `cancelled` and `lost`, and `rested`
  (how much of `served` lies before the conversation last came to rest).
- **`Mutex`** – what an exclusive lock promises.
- **`ManualInstanceLock`** – the lock file of a registration slot: every link, read,
  claim and unlink of `acquireManualListenerLock` and `recoverDeadOwner` is a step,
  processes die between any two of them, and `IoFails` names the operations that may
  fail for a reason of their own.
- **`CronLease`** – the lease of `crons.json`: the field for an all-owner, a row per
  lane, the tombstone that keeps releases from before the lanes away, and what these
  releases do to the file.  `Strips`, `LockTimesOut` and `TornLearn` say which faults
  occur.
- **`CronScheduler`** – the schedules and the ticks, fires, retries and misses of the
  processes that hold the lease; it extends `CronLease`, and its steps are steps of it.
- **`RecordedRecovery`** – the record of one conversation, the turns that write it, the
  backend, and the five requests of `recoverRecordedTurns`, each a step of its own, over
  crashes, reconnections, late posts and another listener.
- **`..._proofs`** – the theorems about the module of that name, for any values of the
  constants (section 5).  `QueueItems_proofs` has the lemmas about lists of items that
  the proofs of the class and of the conversation share.
- **`MC...`** – the finite instances.

How `ListenerConversation` corresponds to the code (the line numbers of every
definition are in `PROJECT.json`, "map"):

| Model | Code |
|---|---|
| `chain`, `chainTurn` | the promise `messageQueue`: tasks appended with `.then`; the turn the running task awaits |
| `pumpScheduled`, `pumpActive` | `queuePumpScheduled`, `queuePumpActive` |
| `PumpTakes`, `PumpStops` | the loop of `drainQueuedMessages`, with `resolveQueuePumpTransport` and the blocked reasons |
| `DispatchRuns` | the chained function of `dispatchInboundMessageWhenReady` |
| `SendMessage` | `input` / `create_message` in `message-router.ts` |
| `store`, `inputs` | `queueRuntime`, `queuedMessagesByItemId` (`pendingTurns` always equals the length of the queue) |
| `phase[l]` | the `await` the owner of `l` is at: `setup` (`prepareListenerTurn`), `sending`, `stream`, `classified` (approvals classified), `asking` (`requestApprovalOverWS`), `execute`, `completed` (completion hooks), `cleanup` (`finally`), `recover` (a recovery turn before `processTurn`) |
| `Live(l)` | `shouldInterrupt`, `finishIfInterrupted`, `assertCurrentTurnLease`: abort signal and lease |
| `TurnEnds(l)` | every path to `finishListenerTurn`, up to the cleanup |
| `AbortMessage`, `Settlement(l)` | `handleAbortMessageInput` and its `.finally` |
| `interrupted` | `pendingInterruptedResults` or `pendingInterruptedContext` is set |
| `batchIds` | `pendingApprovalBatchByToolCallId` is not empty |
| `accepted` | `acceptedInputDispositions`, in the order of the Map; empty after an eviction |
| `EvictIfIdle`, the last thing `DispatchRuns`, `PumpStops`, `TurnReturns`, `RemoveQueueItem`, `Closes`, `SyncReads` and `RecoveryBegins` do | `evictConversationRuntimeIfIdle`: an object without work leaves the registry, the next input makes a new one |
| `AtRest` | its conditions that speak of work: nothing queued, running, pending or reserved by the chain (`pendingInboundDispatches`) |
| `connState` | `new`; `starting` (subscribed, `runtime_start` not answered); `open`; `suspended` (remote listeners); `closed` |
| `SyncStarts`, `SyncReads`, `RecoveryBegins`, `RecoveryContinues` | `recoverApprovalStateForSync`, `startRecoveredApprovalContinuation` and `executeRecoveredApprovalContinuation`, split at their awaits |

The other modules:

| Model | Code |
|---|---|
| `ManualInstanceLock!pc` | the file operation a process is about to make in `acquireManualListenerLock` (`publish`, `inspect`, `check`) or `recoverDeadOwner` (`claim` … `cleanup`) |
| `claims` | the recovery claim files, named by the stale record and a depth |
| `CronLease!legacy`, `rows` | `scheduler_owner`, `scheduler_owners`; a dead process's entry counts nowhere in the code and is removed with it |
| `sched`, `known`, `learn` | `schedulerState`'s token and `tombstoneToken`; between the claim and the read of the tombstone |
| `Hold` | `holdSchedulerLease`: kept, reclaimed, lost, stopped |
| `CronScheduler!loop`, `record`, `fires` | what is left of a `tick`; the one-shot that is queued and not yet recorded; the fires that await their conversation |
| `RecordedRecovery!rec` | the `await` of `recoverRecordedTurns` it is at: the ownership, the pending approvals, the OTID, the status of the run, the approval message, the ownership again |
| `disk`, `copy`, `same` | the record, the one recovery has listed, and whether the revision is still that one |
| `run`, `phase`, `posts`, `begun` | the backend: its last run, what that does, the answers on their way, the run that an OTID leads to |

Data is abstracted to what the properties tell apart.  Messages are numbers,
items have a kind and a source, a turn's tool calls are a flag.  What the backend
answers, how often a request is retried, whether a tool needs an approval and
which results go to the interrupt cache are nondeterministic choices.

## 3. The runs

| Run | Bounds | Shows |
|---|---|---|
| `turn_owners` | 2 leases, fair | type, `OneLiveOwner`, `SettlementHeld`, `OneTerminal`, and `CancellationEnds`: a cancelled turn gives the conversation back |
| `queue_runtime` | soft limit 2, ceiling 3, 2 scopes | bounds, order, shape of batches, and `RefusalIsShown` |
| `conversation` | 1 remote client, 2 messages in 2 sends, 1 notification, 1 abort, 1 command, 3 turns, soft limit 2, fair | `AtMostOnce`, `NothingLost`, `AcceptedIsKept`, `AcceptedOrder`, `TurnsImplemented` (refinement of `TurnOwners`), `ItemsDrain`: ready items are taken in the end |
| `order` | remote connection, 3 messages, soft limit 2, 1 sync, 1 abort, 2 turns | `AtMostOnce`, `AcceptedOrder`, `CeilingUnreached` beside a recovery turn |
| `connections` | 2 clients, 2 messages in 2 sends, 1 notification, 1 abort, 1 command, 2 turns | `AtMostOnce`, `ApprovalsOwned`, `NoLostWakeup`, `NoTurnAfterStop` |
| `manual_lock` | 4 processes that start once each, 2 depths of claims, failing links and reads of claims, fair | `MutualExclusion`, `ImplementsMutex`, `NoMutualRefusal`, `AcquireEnds` |
| `cron_lanes` | an owner of each lane and an all-owner, 2 tokens each, no retry, releases that drop the rows, loss of the file, a jittered recurring schedule, 1 minute, fair | `LaneExclusive`, `TimersStopped`: who stopped or found its lease lost has no jitter timer, `TombstoneBack` |
| `cron` | a lane's owner and an all-owner, 1 retry, a one-shot with 2 fires in flight, 3 minutes, missed after 1, nothing drops rows, fair | `OneShotOnce` and `RunOrMissed` (of each process: two may both run a one-shot, when one dies, or a fire of the other goes on, before the run is recorded), `DueIsSettled` |
| `recorded` | 3 runs of the backend | `ResultNotDenied`, `RecoversOwn`, `ResultKept`, `AcceptedRetained` |
| `recovery_kept`, `retry`, `manual_lock_io` | | expected to fail: section 4 |

Why the bounds are enough to be interesting: a lease can be stale only when there
is a second turn, and two turns with an abort give every order of owner,
settlement and replacement (and the theorems of `TurnOwners` hold for any number).
Two messages give a retry, a parked message and its successor, and a batch; the third
one of `order` meets the soft limit.  A retry meets its first copy chained, queued,
parked, running or forgotten, since the object may be evicted between any two sends.  Two clients are the least for a failover and for
a retry through another connection.  One sync suffices for a turn that runs beside the
chain.  Four listeners are a dead owner, a recoverer that dies, and two that meet what
the first two left; the second depth is the claim that passes a dead recoverer's.
An all-owner and two lanes are all the scopes; a third process of a lane that exists
already meets the same guards as the second.  A lane's owner loses its lease only when its
row goes, which is why `TimersStopped` is checked where rows are dropped; a retry is one
more start, and `LanesExclude` holds for any number of them.  Three minutes let a one-shot be due, be
fired twice while it is, be moved to a later minute and be missed; in the code a
one-shot is missed after five minutes.  Three runs are one that is answered, the one
that the answer begins, and one of another listener, or of a new message.  With four
runs, `recorded` was searched to its depth 40 (7 million states) and nothing was found.
`CHECK_DEADLOCK FALSE` stands in the configurations where every input, or every
process, is bounded and a behaviour ends when all are spent.

Symmetry is used for the processes of `manual_lock_io` only, which are never compared
except for equality.

The constraint `TasksFirst` (a task of the promise chain that nothing holds up runs
before the next input is read) is used only by the runs of section 4, so that the
counterexamples are behaviours of a JavaScript event loop; the other runs allow
more interleavings than the event loop does.

**Fairness.**  `TurnOwners!FairSpec`: an owner whose signal fired reaches its
`finally`, and the backend's answer to a cancellation arrives, or fails: its
`.finally` runs in both cases.  `ListenerConversation!FairSpec`: promise callbacks
run, a command and a `runtime_start` are answered, the backend call of an abort
settles, and a turn that does not wait for the user ends (`TurnEnds`, `TurnReturns`).
Streams are read until they end or fail and tools have timeouts; nothing is assumed
of users, clients, syncs or notifications.
`ManualInstanceLock!FairSpec`: a running process makes its next file operation.
`CronScheduler!FairSpec`: the clock goes on, the interval fires in every running
process and a stretch of code under way continues; the backend, which creates the
conversations, may never answer.  `RecordedRecovery` has no fairness: a record is
taken up when the listener connects, and nothing makes it connect.

## 4. Where the code and its words disagree

Three runs are expected to fail; each checks one sentence the repository says of
itself.

1. `recovery_kept` / `AcceptedIsKept`.  "The parked messages run first and this one
   follows in order" (`inbound-queue.ts:35`).  `executeRecoveredApprovalContinuation`
   asks `isCurrent`, which holds while the turn is being cancelled, and takes a
   message typed after the abort into a turn that ends at its first look at the
   abort signal.
2. `retry` / `RetryRunsOnce`.  "Recently accepted ingress IDs, retained for
   idempotent client retries" (`types.ts:222`).  The ids are a field of the
   conversation's runtime object, and that is evicted as soon as the conversation has
   no work: by the `finally` of a turn (`turn.ts:966`), of the chained dispatch
   (`inbound-dispatch.ts:225`) or of the pump (`queue.ts:494`).  A message starts a turn,
   the turn ends, the client, which has not seen the acknowledgement, repeats the
   message: `getOrCreateScopedRuntime` (`message-router.ts:580`) makes a new object with
   an empty map (`runtime.ts:267`), and the message is given to a second turn.  The
   limit of 4096 ids hardly ever matters beside this.  What holds is `AtMostOnce`, while
   the conversation has work.
3. `manual_lock_io` / `MutualExclusion`.  "A dead owner is reclaimed through a
   content-scoped recovery claim so two simultaneous recoverers cannot unlink a newer
   generation" (`manual-instance-lock.ts:276`).  The `finally` of `recoverDeadOwner`
   removes the claims also when the lock file could not be read or unlinked, while the
   stale record is still there.  With a dead recoverer at depth 0, one process then
   claims depth 1 and another depth 0: both take the stale file for theirs to remove,
   and one of them removes the other's new file.

Five more configurations end in a counterexample and are kept beside the runs:

4. `MCRecoveryWakeup.cfg` / `SystemDrainsAfterAbort`.  "System items (task
   notifications, cron, mod continuations) still drain once idle"
   (`control-inputs.ts:465`).  A recovered turn is started with
   `void startRecoveredApprovalContinuation` (`sync-replay.ts:78`), outside the
   chain.  A notification arrives and its pump finds the turn running; an abort
   comes, the backend answers first (`settleCancellation` does not release), then
   the owner finishes and returns to nobody.  The conversation is idle, the
   notification stays until the next input.  (The same happens without an abort to
   what is queued while a recovered turn runs and is not taken by a continuation.)
5. `MCGone.cfg` / `SystemWorkKept`.  "Process-originated work (cron, task notifications)
   has no client waiting to receive its echo" (`queue.ts:393`).  A notification that
   is batched with the message of a client that left is dropped with the batch
   (`connection-lifecycle.ts:41`).
6. `MCCronStop.cfg` / `StoppedStaysStopped`.  "Stop the cron scheduler. Should be called
   when the WS listener disconnects" (`scheduler.ts:804`).  The timer that retries a
   claim (`scheduler.ts:724`) is kept nowhere: it fires after the stop and claims the
   lease for a listener that is gone.  The process then keeps others out of its lane
   and every fire fails.
7. `MCRecordedDenials.cfg` / `ContinuationRetained`.  "An accepted continuation still
   generating output is retained even with no pending tools"
   (`recover-recorded-turn.test.ts:80`).  The OTID is looked up only if the record has
   results (`recover-recorded-turn.ts:122`), and a continuation that denies calls of the
   record has none.  Recovery posts the denials and dies; the post is taken between
   the ownership look and the pending read of the next recovery, which asks for the run
   in the record, finds it ended and removes the record of the running one.
8. `MCRetryDropped.cfg` / `RetryIsIdempotent`.  The sentence of point 2, for a
   conversation that keeps its work.  The inputs of a client that closes are removed from
   the queue (`connection-lifecycle.ts:74`), their ids stay: the retry of the reconnected
   client is acknowledged as queued and never runs.

In the passing runs these cases are excluded by their bounds, not by the model:
`AcceptedIsKept` and `NoLostWakeup` are checked without syncs, `NothingLost` with one
client, `MutualExclusion` of the lock file without failures between a claim and the
unlink, `AcceptedRetained` for continuations with results.  `AtMostOnce` is weaker than
`RetryRunsOnce` by what it says, not by a bound: the passing runs evict the object too.

Other observations are not findings, because nothing in the repository promises
otherwise.  Messages are served in the order of *acceptance* (`AcceptedOrder`), which
need not be the order of sending: of two chained messages and a third one that is
queued during the first one's turn, the third joins that turn and runs before the
second.  And a listener that is stopped while a sync awaits the backend may begin a
recovery turn afterwards; `NoTurnAfterStop` is checked without syncs.  A one-shot whose
fire awaits its conversation while the user pauses and resumes it for later runs early,
once.  The record that a one-shot was run is written after it was queued: where the lock
of the file times out in between, it runs again (`LockTimesOut`).  A message of a user
that comes before the recovery of a record with results denies the waiting calls, though
they were executed; and recovery does not come back before the next connection if its
second look at the ownership fails.

## 5. The proofs

Every safety property that a passing run checks is also a theorem, for every value of
the constants.  The assumptions on the constants are few (`LimitsAssumption`: the
ceiling is not below the soft limit, as the constructor of the queue has it;
`NoLease`, `NoConn` and the like are none of the things they stand beside;
`RemoteAssumption`: a remote listener has one connection; `ScopesAssumption`: there
is a scope).  Where a theorem has a hypothesis beside them,
it is one that the table of this section names, and section 4 or a comment says what
happens without it.

| Hypothesis | Needed by | In the code |
|---|---|---|
| `Syncs = {}` | `NoWakeupIsLost`, `NoTurnAfterAStop`, `NothingGetsLost` | no recovery turn is started beside the chain; with one, points 1 and 4 of section 4 are counterexamples, and the end of section 4 says how a stopped listener begins a turn |
| `RemoteConns = Conns` | `NothingGetsLost`, `AcceptedStaysKept` | the clients of a remote listener are suspended and come back; a local one that closes takes its items with it (section 4, points 5 and 8) |
| `MaxItems < HardMaxItems` | `NoWakeupIsLost` | the ceiling is three times the limit where nothing else is said (`queue-runtime.ts:200`), and the listener says nothing else; with both equal, a message that is refused would release the parked ones and schedule no pump |
| `MaxMessages <= MaxAccepted` | `ServedAtMostOnce` | no more messages were sent than one object remembers (4096); a retry of an older one runs again, also while the conversation has work |
| `ClaimantsSucceed` | `ListenersExclude`, `LockFileIsMutex` | the owner of a claim can read and unlink the lock file; otherwise section 4, point 3 |
| `~TornLearn` | `LanesExclude`, `SchedulersExclude` | nobody writes the file between a claim and the read of the tombstone after it, two consecutive statements of one process |
| `~LockTimesOut` | `OneShotsOnce`, `RunsOrMisses` | the lock of the file is had in time when a run is recorded (end of section 4) |

**`TurnOwners_proofs`**, for any set of leases: `TypeCorrect`, `OneOwnerDrives`
(`OneLiveOwner`), `CancellationIsHeld` (`SettlementHeld`), `TurnEndsOnce`
(`OneTerminal`).  None of the last three is inductive by itself.  The inductive invariant
`IInv` adds `Ownership`, which says of *every* lease where it stands: the current one has
a running owner and no terminal transition yet; a used one that is not current has
ended exactly once or was discarded, with its signal fired; a cancelling turn has
had its signal fired, and if its owner has finished, a settlement is still out.  The
last conjunct is what makes `settleCancellation` safe: without it, a state
"cancelling, owner finished, nothing pending" would be allowed, and no method leaves
that state.  There is one lemma per action.

**`QueueItems_proofs` and `QueueRuntime_proofs`**, for any limits, scopes, reasons and
inputs: `QueueTyped`, `QueueStaysBounded`, `RefusalsAreShown`, `DequeuesInOrder`,
`BatchesHomogeneous`.  The list is a set ordered by id, so that what the methods do is
said by `Queued` (finitely many items, each with an id of its own, none above the last
one given) and by lemmas on `Enqueued`, `Batch`, `FrontItems`, `Paused` and `Resumed`: an
enqueue removes one item where it must, a batch is a front of what is ready.
`RefusalIsShown` needs `EmittedIsShown`: `onBlocked` is suppressed only for the
reason that was shown last.

**`ListenerConversation_proofs`**, for any set of leases, clients, messages and syncs, in
five parts.

1. *Turns.*  `TurnsAreImplemented` (`Spec => TurnsImplemented`: every step of the
   conversation is one step of `TurnOwners` or leaves its variables alone),
   `ApprovalsAreOwned`, and by the refinement `OneOwnerDrivesConversation`,
   `CancellationHoldsConversation`, `TurnEndsOnceInConversation`.  The invariant is
   `Held` (a turn that is being cancelled has had its signal fired, so that an owner that
   looked at the signal has an active turn), `OwnersRun` (an owner that awaits something
   has not returned) and `ApprovalsOwned`.
2. *The queue.*  `ConversationTyped` and `CeilingIsUnreached`: a listener enqueues
   coalescable kinds only, so its queue stays within the soft limit and refuses nothing.
   The lemma `StepOnQueue` is what the other parts rest on: whatever action is taken, the
   queue and the books about its messages move in one of the seven ways of `QueueStep`.
   `QInv` ties the list to `queuedMessagesByItemId`: it has an entry for every item of
   a message, and for no other.
3. *The promise chain.*  `PumpInv`: a pump that is scheduled has a task on the chain, and
   where one is scheduled while another is active, a task behind it.  `Wake`: while
   ready items wait and a client is open, something is still to come that looks at the
   queue again, namely a pump's task, the turn that the head of the chain awaits, the end
   of a command, or the settlement of a cancellation.  `Alone`, that every running turn is
   awaited by the chain, holds only without recoveries, and so does `NoWakeupIsLost`.
   `NoTurnAfterAStop` is an action property.
4. *Order.*  `AcceptedInOrder`, unconditional: recoveries, aborts and departing clients
   included.  `OrderInv` says that what was served, and after it what is queued, follows
   the order of acceptance (`ServedInOrder`, `QueuedInOrder`), and that
   all messages of the queue are parked or none is (`ParkedTogether`); the
   last is what `enqueueInboundUserMessage` achieves by releasing the parked ones before it
   adds another, and without it a new message would overtake them.
   `ServedAtMostOnce` is about one object of the conversation, from its first work to its
   rest.  `OnceInv` says that the messages it has served since, and those that wait, are in
   `acceptedInputDispositions` (`Remembered`), and that none of them is there twice
   (`QueuedOnce`).  An eviction empties the map, and keeps the invariant only because
   nothing waits and nothing is chained when it happens: the reservation
   `pendingInboundDispatches` is what this part rests on.
5. *Nothing is lost.*  `OnlyDeadTurnsLose`, `Spec => [](NothingLost => AcceptedIsKept)`,
   again unconditional: a batch that is taken for a turn, or a client, that is gone is the
   only way in which an acknowledged message vanishes.  `NothingGetsLost` excludes it for a
   remote listener without recoveries, and `AcceptedStaysKept` follows.

**`ManualInstanceLock_proofs`**, for any number of processes and any depth of the claim
chain: `TypeCorrect`; under `ClaimantsSucceed` `ListenersExclude`
(`MutualExclusion`) and `LockFileIsMutex` (`Spec => ImplementsMutex`).  The invariant says
what a claim is worth: while the stale record is in the lock file, no claim for it is
removed by the living, so whoever comes after the one that confirmed it has to pass that
claim, and can do so only when its owner is dead.  Therefore at most one process stands
between the confirmation and the unlink, and the file it unlinks is the one it has
confirmed.  The run `manual_lock_io` shows that the hypothesis is needed.

`RefusalsEnd` (`NoMutualRefusal`) needs no hypothesis, whatever fails.  A process is sent
away by the owner of the lock file or by the owner of a claim, and the claim's owner may
itself be sent away later.  `Ordered(f, n)` numbers the records in the order in which they
were published (the numbering is not in the model: the invariant says that there is one).
Whoever had a claim for a record is still about to use it, will not be sent away by a
claim any more, or is at a record published *later* (`Past`).  Refusals by claims
therefore point to later and later records, and a cycle of them would have a latest one.

**`CronLease_proofs`**, for any number of processes of any scopes: `LeaseTyped`, and under
`~TornLearn` `LanesExclude` (`LaneExclusive`).  `LaneExclusive` is not inductive: an owner
may come back by *restoring* its row, long after it was lost.  The invariant `Exclusion`
adds what makes that harmless: a token has one process, a lane's row is of a process of
that lane (`RowsOfLanes`); while an all-owner, or an old release, is in `scheduler_owner`,
no lane has an owner (`AllExcludesLanes`); the tombstone that a lane's owner knows, and
beside which it may restore, is a lane's owner's (`KnownOfLane`); and until it has read the
tombstone it keeps its row (`LearnerOwns`).

**`CronScheduler_proofs`**: `SchedulersLease` (`Spec => LeaseSpec`), hence
`SchedulersExclude`; `SchedulersTyped`; `TimersAreStopped`, whatever fails; and under
`~LockTimesOut` `OneShotsOnce` and `RunsOrMisses`.  A lane's owner that finds its lease lost
keeps its state and goes on trying, so `TimersStopped` is not about `schedulerState` alone:
the history variable `lapsed` remembers that the last look at the lease failed.  The
invariant says that one stretch of code runs in a process at a time, and its loop over the
schedules only when the tick had the lease (`OneStretch`), so no timer is set under a lost
one, and that a one-shot which ran is not active in the file any more, or is about to be
recorded (`RunsSettle`).

**`RecordedRecovery_proofs`**, for any number of runs, crashes, late posts and other
listeners, without a hypothesis: `RecoveryTyped`, `OwnWorkIsRecovered` (`RecoversOwn`),
`ResultsAreNotDenied` (`ResultNotDenied`), and the action properties `ResultsAreKept`
(`ResultKept`) and `AcceptedIsRetained` (`AcceptedRetained`).  Two invariants:

- `Inv` follows the call that is answered back to where recovery has it from: the record,
  the run that an OTID leads to and every post on its way belong to runs that this
  listener has begun (`WorkIsOurs`), and so do the run a turn observes (`InTurn`) and
  the call that passed the look at the approval message (`InRecovery`).
- `Past` is about the order in which things happened.  A run asks once and what an
  answer begins comes after it (`RunsInOrder`); a call whose results were written, or
  that recovery answers, is behind every turn (`HandledIsPast`); while its run waits the
  record has the results (`ResultStays`); and what recovery has read from the backend
  still holds as long as the revision of the record has not changed (`ReadHolds`), although
  the reads are separate requests and posts of the dead arrive between them.

**Only model-checked.**  The liveness properties (`CancellationEnds`, `ItemsDrain`,
`AcquireEnds`, `TombstoneBack`, `DueIsSettled`): the prover does not reason about fairness
or `ENABLED`.  What the runs and configurations of section 4 refute is refuted on an
instance, which is all it takes.

## 6. What is not modelled

- *Other conversations, other clients.*  One conversation is modelled, with the
  clients that open it.  A client that never opened it can neither send to it nor
  hold its pump back, except through `ProcessRuntimeTransport.isOpen()`.
- *A second runtime object beside one that is still held.*  Eviction is modelled
  (`EvictIfIdle`), and so is the empty object that takes over; the old one ends with it.  A
  sync that holds the old object ends in the model, where the code lets it go on with an
  object nobody looks up any more.  A recovery whose cleanup outlives its object may evict
  the successor in the model, which the code does not do (`runtime.ts:184`), so the
  invariants hold of more than the code; a recovery turn that fails before
  `handleIncomingMessage` leaves its object in the registry.
- *What else keeps an object*: execution settings and sandboxes while a client is
  subscribed, expected teleports.  A conversation with settings keeps its object, and the
  ids in it, as long as a client has it open.
- The ids of queue items and the last stop reason go on across an eviction in the model
  and start anew in the code; nothing compares them across one.
- *Local channel connections, messages without a connection, headless execution
  settings, teleports, the `run_id` guard of an abort, run ids in general.*
- *A device command that only changes the mode*: it starts and finishes its command
  status without an await in between.
- *Image modes, client preferences, `noCoalesce`*: they end a batch earlier; every
  shorter batch is possible in the model.
- *Per-connection registration of approvals and their replay*: every open client can
  answer a pending approval.
- *Errors in a turn's cleanup*: assumed not to happen.
- `continuationEpoch`, which invalidates an interrupt cache after a reset of the
  conversation.
- *A listener that starts again on the same lock file after it stopped*: each process of
  `ManualInstanceLock` starts once, so `AcquireEnds` says nothing of a lock file that comes
  and goes for ever.  *A directory of the lock file that cannot be made*: the process does
  not start.
- *The notice `cancelled` of what a stop removes* goes out, in the code, after the
  connections are closed and reaches nobody; the model, which has the acknowledgements
  and removals and no wire, counts it as told.
- *A tombstone read late* (`scheduler.ts:161`): `TornLearn` puts a step of another process
  between the claim and the read.  `LaneExclusive` does not hold then; no run sets it, and
  the theorem names the condition.
- *The lock of `crons.json`* (a directory that is made, found stale and removed): every
  operation under it is one step, which may fail where `LockTimesOut`.
- *The run log of the schedules, what a recurring fire records, cron expressions, the
  shadow scheduler of the terminal client.*
- *Several recorded conversations*: recovery takes them one after the other, and they share
  the retry timer.  *Records that a teleport has suspended.  Sets of calls of
  which the record names a part.*
- *The lock of the remote settings.*
- The rest of the program, listed in section 1: mostly I/O, formatting or rules over
  strings.

## 7. Plan

Done: the turn lifecycle, the queue, one conversation with its chain, clients and
sync recovery, the lock file of standalone listeners, the cron scheduler and its lease,
recorded recovery, and the proofs of section 5.  Next, most important first:

1. **`ConversationRegistry`** – several runtime objects of one conversation: settlements
   and syncs that still hold an evicted one (`runtime.ts:156`) beside its successor; never
   two objects with work for one conversation.
2. **`CronLock`** – the lock directory of `crons.json` (`cron-file.ts:250`), with two
   processes that find it stale, and `CronLease` over it; the same for
   `remote-settings-lock.ts`.
3. **`Teleport`** – hand-over of a conversation between two listeners, with the records
   that are suspended meanwhile.
4. **`PendingApprovals`** – requests registered per connection, replay, the race of
   answers.

Proofs: every new module with its safety properties.  For the modules there are, what is
left to strengthen are the hypotheses: `NothingGetsLost` with recoveries that no abort
meets, `NoWakeupIsLost` with a recovery whose end schedules the pump (once the code does),
and exclusion of the lock under failures that leave the claims in place.
