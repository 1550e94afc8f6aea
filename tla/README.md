# Breeze Buddy (clairvoyance): verification

TLA+ modules for the parts of this repository whose correctness depends on the
order of steps of several actors: the outbound call dispatcher and the promoter
that feeds it, the channel capacity of a phone number, the CRM's event spine,
outreach runs and outbound messages, and a chat session. TLC checks them on
small instances; TLAPS proves the main invariants for instances of any size.

    tlc -config MCLeadDispatch_safe.cfg MCLeadDispatch     # one run
    tlapm LeadDispatchProofs.tla                           # one proof module

`PROJECT.json` lists the components, the runs, the theorems, the lines of source
each definition stands for, and the hazards the properties are aimed at.

## 1. Inventory

### The system

Breeze Buddy is a FastAPI service that calls and is called by customers with
voice agents. State lives in PostgreSQL and Redis; every pod runs the API, a
pool of dispatch workers and scheduled reconcilers. A CRM (`src/app/crm`) runs
in separate pods, one role each: event worker, dispatcher, walker.

| Component | State | Operations |
|---|---|---|
| Lead API (`routers/breeze_buddy/leads`) | `lead_call_tracker` rows | push, abort, dispatch-now; each commits an UPDATE and then makes one Redis call |
| Outbound dispatcher (`dispatch/`) | ZSETs `bb:schedule:leads` and `bb:ready:leads:z`, a processing list and a heartbeat key per worker, the row's `is_locked`, `status`, `next_attempt_at`, `call_id` | schedule, promote, pop, track, lock, gate, dial, record, defer, unlock, untrack; backlog scan, reaper, stale-lock cleaner |
| Promoter and its leader (`dispatch/promoter.py`, `leader.py`) | one Redis key with a TTL, what each pod believes, the scores of the two ZSETs | acquire, renew, lapse, release; a tick that promotes a batch |
| Call capacity (`managers/calls.py`, `channel_semaphore.py`, `telephony_number` queries) | a token list in Redis and the `channels` column per number | take and return a channel, five ways to end a call, retry, stuck-call sweep, token reconciler |
| Telephony webhooks (`routers/.../answer`, `callbacks`, `ivr/selection.py`) | inbound rows | admit an inbound call, deliver a status callback, end a call by the keypad policy |
| CRM outbound messaging (`crm/connectivity/messaging`, `send.py`, `shared/worker.py`) | `crm_message` rows, letters on the event spine | queue, sweep, claim, gate, send, record the outcome, read receipts back, apply receipts |
| CRM record spine (`crm/record`) | raw events and their attempts, topics seen, what each consumer committed | file, claim under SKIP LOCKED, savepoint per row, stamp, quarantine, commit, roll back |
| CRM outreach (`crm/outreach`) | workflow runs with a `wake_at` lease, their trail, the published boards | claim, walk, reply, repeat, goal, enrol, publish, migrate, resume |
| Chat sessions (`chat_session` rows, `ai/chat`, the widget router) | the session and its channel, a Redis lock, `tool_approvals`, `chat_message` rows | turn, gated call, decision, cancel, end, sweep, attach and detach a voice bot |
| Voice agent, chat engine, assist, DragonTTS | sessions in memory | media and LLM pipelines |
| Identity, templates, onboarding, auth, CRUD | tables | single statements |

### How they interact

The API inserts a row and mirrors it to the schedule. The promoter (one leader
among the pods) moves due entries to ready. A worker pops one, notes it in its
own processing list, locks the row, passes the gates, takes a channel token and
a channel, dials, and records `PROCESSING` with the `call_id`. Callbacks, the
agent's completion or the stuck-call sweep end the call, give the channel back
and insert a retry row, which is a new lead. Reconcilers repair Redis from the
database: lost copies, lists of dead workers, stale locks, token counts.

The ingress door files a customer's events as letters on the spine. An event
worker claims them in order and hands each to its consumers: identity, outreach,
receipts. Outreach starts a run, wakes one that waits, or ends one; walkers on
every pod claim due runs and move them over their board, and a square may push a
lead (the dispatcher's input) or queue a message.

A CRM producer queues a message under a dedupe key. Dispatchers on every pod
sweep expired claims, claim a batch, and for each row ask the gate, send, and
store the outcome. The provider's receipts arrive as letters that the event
worker consumes, possibly before the outcome is stored.

A chat turn is one HTTP stream under a Redis lock with a TTL. A gated tool ends
the turn with a pending approval; the person's decision is another request, on
any pod, that runs the tool and lets the model go on. A voice bot attached to
the session takes the same lock for its turns. An idle sweeper ends sessions.

### What is hard, and what must hold

- *Many copies of one lead.* Every repair adds copies. One row lock (an UPDATE
  with conditions) must keep a customer from being rung twice. Several unlocks
  name the row by id alone.
- *Crashes and lost replies* between dial and record, claim and outcome, commit
  and Redis call. Nothing may be lost for good, and nothing may repeat without
  bound.
- *Callbacks that repeat, race or never come.* Each call must give one channel
  back and be retried once.
- *Reads that go stale:* three reads of the token reconciler, two looks of the
  backlog scan, a row read before a release.
- *Leases that lapse under their holder:* the promoter's key, a walker's
  `wake_at`, a message claim, the session lock. What the next holder does must be
  safe beside the first.
- *Cancellation* of a chat turn at any await, once more while it cleans up.
- *Limits:* the channels column at its maximum, attempts at the ceiling.

## 2. Modules

| Module | What it is |
|---|---|
| `LeadDispatch` | the dispatcher, one action per step |
| `LeadLifecycle` | what the dispatcher promises of one lead: the abstract specification |
| `LeadDispatchProps`, `LeadDispatchProofs`, `LeadDispatchRefinement` | its properties, theorems, and the proof that it implements `LeadLifecycle` |
| `Promoter` | the leader's lease and the promoter's ticks, with scores and clocks |
| `ReadyQueue` | what workers rely on of the ready leads: a FIFO queue (abstract) |
| `PromoterProps`, `PromoterProofs` | properties, and theorems with the refinement of `ReadyQueue` |
| `CallCapacity`, `CallCapacityProps`, `CallCapacityProofs` | one number's channels and everything that takes or returns one |
| `RecordSpine` | the event worker: claims, savepoints, nudge rows, consumers |
| `LetterLog` | what the spine promises of a letter (abstract) |
| `RecordSpineProps`, `RecordSpineProofs` | properties, and theorems with the refinement of `LetterLog` |
| `OutreachWalker`, `OutreachWalkerProps`, `OutreachWalkerProofs` | the runs of one outreach plan for one customer key |
| `OutboundMessage` | the CRM manifest: dispatchers, leases, receipts |
| `MessageLedger` | what the manifest promises of one message (abstract) |
| `OutboundMessageProps`, `OutboundMessageProofs` | properties, and theorems with the refinement of `MessageLedger` |
| `ChatSession` | one chat session |
| `GatedCall` | what a session promises of a gated tool call (abstract) |
| `ChatSessionProps`, `ChatSessionProofs` | properties, and theorems with the refinement of `GatedCall` |
| `MC*` | what TLC needs to run them |

A definition named `X_Something` just before `X` is a variant of `X` with a
plausible bug in it. It is never part of a specification. `PROJECT.json`
("mutants") names the property that notices the bug.

`CallCapacity` looks inside two steps of `LeadDispatch`: `GatePass` (taking a
token and a channel) and `WebhookEndsCall`/`SweepEndsCall` (ending a call). It
starts from what `LeadDispatch` guarantees: one worker dials a lead. `Promoter`
looks inside its `Promote`. `OutreachWalker` takes letters in the way
`LetterLog` promises (each may be handed over again until it ends), and its
`leads` and `messages` are the inputs of `LeadDispatch` and `OutboundMessage`.

### LeadDispatch

*State.* The row's columns are `status`, `isLocked`, `due` (next_attempt_at has
come, or will within the schedule's jitter) and `callId`. Redis is `schedule`
(a set: any entry may be the next whose score is reached), `ready` (a sequence),
`processing` and `heartbeat`. `pc` and `job` say where a worker is in
`Worker._dispatch`; `followUps` are Redis calls an API handler still owes;
`scan` and `reaping` are reconcilers between two of their calls. `rings` and
`lost` are history: calls placed, and calls placed whose `call_id` will never
be stored.

*Actions.* `PushLead`, `AbortLead`, `DispatchNow` and their follow-ups are the
API. `Promote` is the promoter's Lua. `PopReady` ... `UntrackProcessing` are
the worker in the order of its code; every database or Redis call is a step of
its own, so all others can run in between. `CancelDispatch` is
`Worker.stop`, which runs the `finally` blocks; `CrashWorker` runs none.
`UnlockTwice` is a `finally` that unlocks a row the worker has already let go.
`ScanBacklog/ScanSchedule/ScanReady/ScanAdd`, `ReapEntry/ReapReschedule` and
`CleanStaleLock` are the reconcilers.

*Data left out.* Scores, times, phone numbers, templates, and which gate refuses
(all gates are one step with each outcome they can have).

### CallCapacity

*State.* `tokens` (the length of the Redis list), `channels` (the column), `row`
(the lead's status), `onLine` (whether the provider has the call), and for each
handler the list `todo` of calls it still has to make, with the row as it read
it (`seen`). `Plan` gives these lists in the order of the code:
`handle_call_completion` releases before it finishes the row, the others claim
or finish first.

*Actions.* The worker takes a token, then a channel, dials, records, or returns
both (`_return_capacity`, database first). The answer webhook admits inbound
calls on the same column. `Deliver` starts a callback, `StartSweep` the
stuck-call sweep. `ReadNumbers/CountProcessing/ReadList/Correct/Trim` are the
reconciler's three reads and its correction.

*`Timely`* restricts a run to endings of a call that come one at a time: one
terminal status of the provider's when the line is down, the sweep of an outbound
row when the call it must outlast is over, and for an outbound call, whose row is
no receipt, the agent's ending or an unanswered dial before any other. The agent's
completion, the keypad policy and the sweep of an inbound row do not wait for the
line: `end_conversation.py:278-305` completes the call before it queues the
EndFrame (363-372), a warm transfer leaves the call on the trunk, and
`calls.py:757-763` spares no live inbound call. The endings of an answered inbound
call may follow one another in any order, the row being the receipt. Exact
counting is only claimed under `Timely`. The other runs drop it.
*`Reconciling`* turns the token reconciler on. With it off, tokens start at the
maximum, as `init_channel_semaphore` leaves them.

### OutboundMessage

*State.* The row: `status`, `attempt`, `due`, `stale` (the claim is older than
the lease), `providerId`, and `marks` for the timestamps. A dispatcher has a
`batch`, a `job` within it, and the `claim`: the attempt number its claim
returned. Provider ids are the attempt that sent the copy, so two copies have
two ids. `letters` are receipts on the spine and `pending` those not consumed.
`copies` and `lost` are history.

*Actions.* `QueueMessage`; `SweepStaleClaims`, `ClaimBatch`, `NextRow`,
`AskGate`, `SendCopy`/`SendNothing`, `StampOutcome`/`MissOutcome`, `ReadBack`,
`ApplyEarlyOne`, `GiveUpReadBack` for a dispatcher's pass; `StopDispatcher` for
a shutdown or crash anywhere; `FileLetter` (the ingress door) and
`ConsumeLetter` (the event worker, with the pass that rolls back and consumes
the letter again); `BecomeDue` and `LeaseEnds` for time. A lease may end under a
dispatcher at work only `MaxOverruns` times: `static.py` sizes the batch so that
it does not happen, and the run looks at what holds when it does.

*Data left out.* Addresses, templates, reasons, bindings, the back-off's length.
A letter that ends in quarantine is `RecordSpine`'s.

### Promoter

*State.* `schedule` and `ready` are the scores of the ZSETs (0: not a member),
`lease` the key's value, `leads` what each pod believes, `beat` the reply a
pod's leader loop is waiting for, `tick` and `stamp` where a promoter tick is
and the clock it read. Pods differ by `Ahead`. A pod that starts again is a new
instance: what it left in the key belongs to `Gone`.

*Actions.* `TryAcquire`/`TryRenew`/`Answered` are a beat, its Redis call and its
reply apart; `CheckLeader`, `CheckPaused`, `RunScript` are a tick; `Start`,
`Stop`, `StopLeader`, `Release`, `Crash`, `Lapse`, `Pause`, `Clock`; `Schedule`,
`Cancel`, `PopReady` stand for the rest of the dispatcher. `Promote` is the Lua
script: a promoted batch is numbered above the tail of the ready set.

### RecordSpine

*State.* `row` is the committed row; a replica's `pass` holds what its
transaction has not committed (`batch`, `new`, `found`), so a lost pass is a
pass forgotten, with the attempts its claim counted. `known` is the in-process
set of topics, `heard` the consumers' own commits.

*Actions.* `FileLetter`; `ClaimBatch` (oldest first, SKIP LOCKED),
`DiscoverTopic`, `RunProcessor`, `Consume`, `StampEvent`, `RaiseInRow` and
`AfterFailedRow` (the savepoint), `CommitPass`, `MarkKnown`; `LosePass`,
`CrashWorker`. A topic another open pass inserted makes the insert wait, and the
database breaks a circle of such waits. "Oldest" is by received_at.

### OutreachWalker

*State.* A run's `row`, `trail` (crm_workflow_step), each walker's `visit` (what
it read at its claim, and where it is), how far the event worker is with each
letter (`hand`), and the plan. `wake_at` is modelled as who wrote the value that
stands there and whether it has come: the compare-and-set of a visit asks
exactly that.

*Actions.* `ClaimDueRun`, `ReadStatus`, `JudgeExits`, `ParkOffBoard`,
`HoldForWindow`, `ExecuteSquare`, `LeaveSquare`, `WriteVerdict`, `FailVisit`,
`DropVisit` are a visit; `ReadOpenRuns`, `EndOnGoal`, `WakeOnReply`,
`RefreshRunFacts`, `ReadDoors`, `Enrol`, `PatchOpenRun`, `StampLetter`,
`ReturnLetter` are the event side, each database call its own step; `SetStatus`,
`PublishWorkflow`, `MigrateForward`, `ResumeRun` are people. A re-pin's check of
the run and its UPDATE, two reads in the code, are one step; no property depends on
what runs between them. Boards and what a letter matches are constants.

*Data left out.* One plan and one enrollment key; ids, facts and wording; the
length of a delay (an alarm may come at once); the retention sweep, the plan
editor and the catalog's field rules.

### ChatSession

*State.* `session`, `channel`, `lock` (whose token the Redis key holds),
`status` and `overdue` of each approval, `answers` (tool_result rows per call),
`adrift` (inserts a shield keeps alive after their task is gone), and a `pc` and
`job` per task. `ran`, `asked`, `unsure`, `attached`, `outlived` are history. A
*task* is a request, the sweeper's visit or a voice bot.

*Actions.* `Acquire`, `Check`, `Leave`, `LockExpires` are the lock and the read
under it; `Supersede`, `Fill`, `Say`, `Reply`, `Ask`, `Request` a turn; `Look`,
`Decide`, `Refuse`, `Expire`, `Siblings`, `Resume`, `Run`, `Record` a decision;
`Interrupt`, `InterruptRun`, `InterruptNote`, `Excuse`, `Land` a cancel;
`End`, `Terminate` the end; `Attach`, `Start`, `Detach`, `HangUp` the voice
attachment; `BecomeOverdue`, `Fail`, `Crash` time and failure. The pre-check of
the channel is made before the lock and not repeated under it, so it is no guard
here.

*Data left out.* What is said, ungated tools, agent_state, client context.

## 3. Runs

| Run | Question | Instance |
|---|---|---|
| `dispatch_safe` | Does the row lock exclude, is a customer rung once, is nobody dialled early, does a row only advance? | 1 lead, 2 workers, 1 crash, 1 fault, 1 takeover |
| `dispatch_live` | Is every due lead served, is each step one of `LeadLifecycle`, do a finished lead's copies drain? | 1 lead, 2 workers, 1 crash, 1 fault |
| `promoter` | Do two pods promote only after a failure, does a renewing pod keep its lease, is the ready set FIFO, is every lead promoted? | 2 leads, 2 pods with clocks one apart, batches of 1, 3 adds, 1 stop, 1 fault |
| `capacity` | Is one failure worth at most one channel, do the live calls that no ending closed early fit on the number, does each token fit beside the lines, is a call retried once? | 2 outbound and 1 inbound calls, 2 handlers, 2 channels, 1 fault, endings in time (`Timely`) |
| `capacity_live` | Do tokens heal and rows end under duplicates, failures and stale reads? | 1 outbound, 1 handler, 2 channels, 1 duplicate, 1 fault, reconciler on |
| `spine` | Does a letter end only for a reason, is no nudge row forgotten, does every letter end, is the spine a `LetterLog`? | 2 replicas, batches of 2, 6 letters: 1 poison, 1 unreadable, 1 filed as processed, two topics in opposite order; 2 consumers, 2 attempts, 1 fault |
| `spine_crash` | Does a crash count as an attempt? (violation) | the same |
| `walker_safe` | Is a trail one path, does the answer decide, does a letter found one run, has a stay one lead, is an exit final, does a goal silence? | 2 runs, 2 walkers, 3 letters (door, reply, goal), 5 squares, 2 attempts, 3 stays, 1 fault |
| `walker_live` | Does every waiting run end or park? | 1 run, 1 walker, 2 letters, 2 versions, 1 fault, 1 edit |
| `walker_repeat` | Does a visit leave the facts of a repeat alone? (violation) | 2 runs, 1 walker, 2 letters |
| `message` | All properties of the manifest | 1 message, 2 dispatchers, 2 attempts, 2 faults, 1 overrun, 2 letters |
| `chat` | All properties of a session | 2 requests, 1 bot, 2 calls, 1 trouble |

*Why these bounds are enough.* Leads meet only in the order of `ready` and in
the attention of workers. Each property of the dispatcher is about one lead, and
two workers give every race for it. A third copy in Redis needs no second lead:
the schedule is a set, `ready` admits a member once, and `processing` counts. A
fault and a crash produce the combinations the code comments reason about (a
lost ZADD and a dead worker; an unlock twice). The promoter needs two leads for
an order and two pods with different clocks to get it wrong. For capacity, two
outbound calls and an inbound one on two channels make the column reach its
limit, and two handlers race for a call. On the spine, batches of two that meet
two new topics in opposite order make two passes wait for each other, and a
poison letter reaches its ceiling beside a healthy one. Two walkers and two
visits of one run give every lost lease; three stays let a run come back to the
square where it was asked. Messages meet only in a batch, and one message with
two dispatchers, two attempts and an overrun has the late outcome of an expired
claim, the sweep of a row at its ceiling and a receipt under each order. Two
requests and a bot make three holders of one session lock, two calls a sibling
that is still undecided; one trouble is a lock that expires under its holder, a
dead pod or a failed call. A second bot breaks `AttachedIsVoice` without its
condition, at once (section 6). The theorems do not depend on any bound.

`CHECK_DEADLOCK FALSE` stands in the cfgs of `LeadDispatch`, `Promoter`,
`CallCapacity`, `RecordSpine` and `OutreachWalker`: when every lead is finished,
every letter has ended, every run has exited, or every worker has died, there is
nothing left to do. A message dispatcher always sweeps again and a request can
always come, so `message` and `chat` check for deadlock.

### Fairness

- *Dispatcher.* Weak fairness of what a live worker does next, the promoter, the
  reconcilers and the passing of time. Workers loop until stopped and the
  reconcilers are scheduled from `main.py`'s lifespan. API calls, faults, crashes
  and the end of a call need not happen; the exact conjuncts stand under
  `Fairness` in the module.
- *Capacity.* Workers, handlers and the reconciler keep running, calls hang up,
  and the stuck-call sweep, which must find a free handler, is strongly fair for
  each call. No callback is assumed to arrive.
- *Messages.* Dispatcher loops keep running (`run_drain_loop` catches what a
  handler raises; a stopped pod is replaced), leases end, retries become due.
  Neither provider nor event worker is assumed to act.
- *Promoter.* Both loops keep turning, dead pods start again, the TTL and a pause
  end, clocks advance. Nobody has to pop a lead.
- *Spine.* Replicas poll (`run_drain_loop`), an open pass proceeds: each call
  returns or raises, and the database breaks a deadlock. No letter has to come.
- *Outreach.* Walkers poll and their visits proceed, alarms come due, and the
  event worker finishes a letter it took. People need not act.
- *Chat.* None: a session need not go on, and no property of it asks for that.

## 4. Properties

*Dispatcher.* `ExclusiveDispatch`: no two workers between lock and unlock of one
row. `RingOnce`: a second ring for a row needs a lost record of an earlier one.
`NeverEarly`: no dial before `next_attempt_at`. `LiveCallIsSettled` (a theorem
only): a PROCESSING row has its `call_id` and nobody still on the way to dial it.
These four are stated for behaviours in which no lock was taken from under a
running worker (`takeovers = 0`): `clean_stale_bb_locks` unlocks after ten
minutes without asking whether the holder lives, and a `finally` may unlock
twice; after that the lock promises nothing. What holds even then is
`OneRecordedCall` (the calls placed are the one recorded, those in a worker's
hands, and the lost) and `StatusOnlyAdvances`. Liveness: `BacklogServed`,
`FinishedDrains` (also from the processing set of a worker that died).
Refinement: `ImplementsLifecycle`.

*Promoter.* `OneLeader`: two pods that both believe they lead need a failure
(which a stall past the TTL is). `LeaseIsKept`: a pod that renews loses its
lease to nobody. `ReadyIsFifo`: even with two leaders, skewed clocks and late
scripts, `ready` is a FIFO queue. `LeadsPromoted`.

*Capacity.* With endings in time: `OneFaultOneChannel` (the column counts the
calls that hold a channel, exactly while nothing failed, and off by at most one
per failure), and while nothing fails `TokenHasLine`, `RetriedOnce` and
`LiveCallsFit`: the trunk is over-admitted by no more than the calls whose channel
the agent's completion, the keypad policy or the sweep of an inbound row gave back
while they were on it. That it is over-admitted at all is the code's choice
for a transfer (`ivr/selection.py:289-299`) and the dead filter's doing for the
sweep (section 6): without the exception TLC refutes the bound in a few steps.
Under everything: `TokensHeal`, `ProcessingEnds`.

*Spine.* `EndedHonestly`, `KnownIsWritten`, `SpineDrains` (neither poison nor
passes that wait for each other hold up the log), `ImplementsLog`. `EndedIsFinal`
is a theorem only.

*Outreach.* `TrailIsPath`, `AnswerDecides`, `FoundsOnce`, `OneLeadPerStay`,
`ExitIsFinal`, `GoalSilences`: each with walkers whose lease ran out, letters
handed over again, and letters in any order with visits. `RunsSettle`.

*Messages.* `ImplementsLedger` and `StatusIsHighestMark` whatever fails. The
ledger's promise is that an attempt is one claim, that sends one copy at most and
none once it has reported; that the last claim alone reports, so the row's id is
its copy's; and that an accepted row climbs or fails, and a refused one stays
(stated apart as theorems only: `AttemptsBounded`, `LastClaimWins`,
`LadderOnlyClimbs`). `NoNeedlessCopy`: while no lease
ended under a dispatcher at work, a second copy needs a lost outcome.
`NoReceiptLost`: the consumer and the read-back cannot both miss a receipt. It
holds while nothing fails: a dispatcher that dies between the stamp and the
read-back does lose an early receipt, and the docstring of `receipts.py`
promises no more than that later ones still land. `EveryMessageSettles`.

*Chat.* `ImplementsGate` (that each call is asked, put to a person, approved or
closed, run and answered in that order, and answered once but for an insert that
was reported failed) and `ApprovedRunsOnce` hold with locks that expire under
their holders: the claim of an approval, not the lock, excludes. That no call is
answered twice is `AnsweredOnce` on its own, and a theorem. `RanIsAnswered`
holds through cancels at any point, while no pod dies and no call fails.
`SpeaksToSettled`, `EndedIsQuiet` and `AttachedIsVoice` rest on the lock and are
stated for behaviours in which none outlived its TTL.

## 5. Proofs

The theorems hold for every set of leads, workers, pods, letters, walkers,
messages, requests and bots, every board and every bound. What is assumed of the
constants is named in the modules: `NoLeadAssumption`, `WorkersAssumption`
(workers are finitely many), `BoundsAssumption`; `NoMessageAssumption`,
`LimitsAssumption`; `PodsAssumption`, `ClocksAssumption`; `LettersAssumption`,
`ConsumersAssumption` (consumers are numbered from 1 without gaps),
`AnswersAssumption` (a letter that is heard says something),
`NamesAssumption`; `SquaresAssumption`, `BoardAssumption`; `TasksAssumption`,
`TroublesAssumption`; `FinitenessAssumption` (calls and handlers are
finitely many). TLC evaluates them in the runs. Each module proves its
`TypeOK` as `TypeCorrect`.

**LeadDispatchProofs.** `TypeCorrect`, `StatusAdvances`, `Exclusion`, `OnTime`,
`RecordedOnce`, `RungOnce`, `LiveCall`. `ExclusiveDispatch` is not inductive by
itself. A holder excludes others only because its row is locked (`LockCovers`),
which is only true of rows still to be recorded or released; unlocks by id are
harmless because no second holder exists; and the sweep that unlocks a
PROCESSING row is harmless because holders of such rows are past their record.
The invariant `IInv` is the conjunction of `TypeOK`, `NewIsUnknown`,
`CallIdTells`, `ExclusiveDispatch`, `LockCovers`, `UndecidedHasNoCall`,
`NeverEarly` and `OneRecordedCall`. The proof that a step preserves it has a
step for each action. `OneRecordedCall` counts workers at `"answered"` and rests
on a lemma on the cardinality of a set that gains or loses one member. `RingOnce` and
`LiveCallIsSettled` follow from `IInv`.

**LeadDispatchRefinement.** `ASSUME MaxTakeovers = 0 PROVE Spec =>
ImplementsLifecycle`. Without takeovers a row has one holder, so the mapped
`owner` is unique and changes only where `LeadLifecycle` lets it. With takeovers
the abstract promise is false, as is said above, hence the assumption.

**OutboundMessageProofs.** `TypeCorrect`, `Bounded`, `LastClaim`, `HighestMark`,
`OnlyClimbs`, `CopiesNeeded`, `ReceiptsLand`, `ManifestIsLedger`. The invariant `MInv` adds to the
properties that a dispatcher's claim is one the row has really reached (`ClaimsCounted`), that a row that may
be claimed again has an attempt left (`AttemptLeft`: this is what `plan_for_outcome`
and the sweep together see to, since neither the claim nor `send()` asks),
that what a dispatcher is about to write fits its claim (`PlanFits`), and that
copies belong to claims (`CopiesClaimed`). `LastClaimWins` and
`StatusIsHighestMark` are preserved together: a row that no claim has stamped
has neither id nor marks. `CopiesNeeded` rests on `Single` and
`CopiesLost`: while no lease was overrun a row has one holder, whose claim is
the row's, and the copies of a row that may be sent again were all lost, but for
the one a dispatcher at work or the row itself vouches for (`Vouches`).
`ReceiptsLand` rests on `ReadsOwn` and `ReceiptsKept`: a dispatcher reads back
for the id it stamped, and a receipt it has read it owes to the row (`Owes`)
until it is applied. `ManifestIsLedger` maps the row's status, attempt and id and
the copies to `MessageLedger`. A dispatcher whose lease ended goes on with its
claim, so what excludes is the attempt: no two dispatchers have the same one of a
row (`ClaimsDistinct`), a claim still to be sent is in no copy (`SentOnce`), and
nobody has reported for it (`Unreported`). This holds with any number of
overruns, where one holder per row (`OneHolder`) does not.

**PromoterProofs.** `LeadsAlone`, `KeepsLease`, `QueueIsFifo`. `RenewsOwn` says
that while nothing failed a pod that believes it leads, or is about to be told
so, is the one in the key. `QueueIsFifo` is a refinement that needs no lease at
all: the script numbers a batch above every score of the ready set
(`PromoteAppends`), so two leads never share a score (`Apart`) and a batch joins
behind everyone.

**CallCapacityProofs.** `TypeCorrect`; with endings in time (`Timely`)
`RetriesOnce`, `ChannelsCounted`, `TrunkIsEnough` (a live call that no early ending
closed is still at its worker or at its PROCESSING row, and `Accounts` counts it); without the reconciler
(`~Reconciling`) `TokensHaveLines`. The invariant is `Types`, `Settled` and
`Accounts`. `Settled` says that a handler writes what it read: between a
handler's read of a row and its UPDATE nobody else ends that call. `Accounts`
weighs the column against the calls, in three parts. `Counted`: it holds no
more than the calls that hold a channel, and one per failure. `Backed` is the
other direction; it counts a call twice when its handler gave the channel back
and then failed to finish the row (`Unfinished`), because the sweep will end
that row and give the channel back again. `Paired`: tokens on the list, in hand
(`InHand`) and between a handler's two releases (`Between`), with the lines of
outbound calls, fit in `Maximum`. A step touches one call and one handler
(`Touches`), so each cardinality moves by at most one, by a lemma on the
cardinality of a set in which one member changes (`Flip`); per action, what is
left is the sum of the moves (`CountsCarry`).

**RecordSpineProofs.** `EndsHonestly`, `KnowsWritten`, `EndsOnce`, `SpineIsLog`.
A pass must be as honest in what it is about to commit as the rows are
(`Honest`: what `new` says ended has been heard by all or counted to the
ceiling), and `KnowsWritten` needs that a topic is remembered only after the
commit that wrote it (`Marked`). That no two open passes hold a row is part of
`TypeOK`: a commit then maps to one `End` of `LetterLog` and all else to
`File`, `Hear` or a stutter.

**OutreachWalkerProofs.** `ExitsForGood`, `FoundedOnce`, `GoalIsHeard`,
`PathHolds`, `AnswersDecide`, `LeadsNumberStays`. An exited run has no alarm, so no compare-and-set
lands on it (`Kept`); a founding letter is checked and inserted in one step
against every row (`Admitted`); a goal that was on the spine at a visit's claim
is still there when the visit is judged (`GoalStands`). The next two share the
invariant `Track`. Of a run it says that its trail is a path to its square
(`Stands`), and that it carries an answer of its present stay if there is one,
and of no other (`Spoken`). Of a visit whose compare-and-set would land it says
that the squares in its memory lead on from the row as it is now (`Walked`) and
that its copy of the answers is the row's (`Carries`): whoever moves a run or
answers it takes the lease away, so a visit that is behind never lands. What the
walk closes is then appended to the trail by lemmas about sequences
(`WalkedOn`, `WalkLands`). `AnswersAssumption` is `if answer is None: continue`
in `outreach/entry.py`: a letter that is heard says something.

`LeadsNumberStays` proves `OneLeadPerStay` from the invariant `Ledger`, whose
parts are about the three places that count a call square's stays. `Tallied`:
the row's `visits` is the number of stays the trail has closed there; each of
them has its lead, and at most the next one exists besides. `Tour`: a visit in
memory, however late, counts no further than the row and its own walk, and holds
the leads it counted; what it mints is therefore a lead of the row's next stay.
`Exact`: a visit whose write would land counts from the row as it is. The second
needs that a walk passes a call once. `publish` does not see to it: a loop from
call to call without a wait publishes, and one visit then makes a lead per turn
until `_MAX_STEPS_PER_VISIT` parks it, with nothing in the row
(`src/docs/crm/workflow-rollout/20-max-calls-per-run.md:269-285`, which declines
a rule and leaves it to the author to keep "a wait on the way back, which every
shipped board already does"). `CyclesWait` says the author did, and is the
theorem's hypothesis; without it the property is false. It is stated as a set of
squares per call (`AheadOf`: what a walk may come to next, closed under the
arrows that do not stop it, without the call itself), which needs no recursion;
TLC evaluates it on the boards of the runs (`BoardsWait`).

**ChatSessionProofs.** `RunsOnce`, `AnswersOnce`, `RanHasAnswer`,
`SpeaksSettled`, `EndIsQuiet`, `VoiceIsAttached`. `Owes(t)` is the set of calls a
task has claimed and not yet answered. `Owed` says that these sets are disjoint,
from each other and from `adrift`, and that what is owed was claimed and has no
answer yet: a claim is an UPDATE that only one task wins, and every answer is
written by the one who owes it. `Runs` adds that a yes still to be carried out
has not run. `SpeaksSettled`, `EndIsQuiet` and `VoiceIsAttached` rest on `Held`: while no lock expired under its
holder, a task at work holds the lock; hence nobody adds an approval, ends the
session or flips the channel beside it (`Settled`, `Quiet`, `Alone`).
`SessionIsGate` maps a call's row and its place in the history to the state of
`GatedCall`. A claim is its `Move`; an answer is its `Answer` because `Owed` says
who may give one, and a run its `Run` because the one who runs owes the answer
(`GateAnswers`, `GateRuns`). None of it needs the lock.

*With TLC only:* liveness (fairness and ENABLED are beyond the prover). Every
invariant and action property of a passing run is a theorem.

## 6. Where comments and code differ

Two are runs that end in a counterexample.

1. `walker_repeat`. `outreach/walker.py:109-111` says that every event-side
   writer moves `wake_at`, so a visit under way loses its compare-and-set. A
   refresh at the door (`enrollment.py:609-611`) patches the facts and leaves
   `wake_at`: the visit then writes its older context over them.
2. `spine_crash`. `record/db/queries.py:58-61` says an attempt is counted by the
   claim, "so a crash mid-row counts against the row". The claim is in the pass's
   one transaction, which the crash rolls back: a letter that kills its pod is
   claimed first again, and never reaches the ceiling.

Seen while modelling, with no run of their own.

Dispatcher and calls:

- `worker.py:823` reads a `None` from the recording UPDATE as "CAS lost"; the
  accessor also returns `None` when the UPDATE raised. The row of a call on the
  line is then unlocked and dialled again (the `lost` of `RingOnce`).
- `worker.py:835` says the call-end webhook releases the lock kept after a
  successful dial; the handlers leave `is_locked` alone.
- `calls.py:984`, "skip to avoid duplicate retries", tests the row as read before
  the release of the channel: two overlapping callbacks insert two retries.
  `calls.py:979` calls `_release_number` idempotent; `GREATEST(0, ...)` only keeps
  the column from going negative. Hence `Timely` in `capacity`.
- `calls.py:752-756` and `static.py:512-515` promise inbound calls a longer grace;
  the filter at `calls.py:757-763` ends in `and False`, so after half an hour the
  sweep gives back the channel of a caller who is still talking. The agent's
  completion gives it back before the EndFrame, and a transferred call keeps the
  trunk without a channel; the leg a transfer dials never took one and is not in
  the model. Hence the exception in `LiveCallsFit`. `calls.py:1049` says exactly one caller owes the cleanup; a forced
  lock leaves the row PROCESSING, and a second claimer gets it too.
- `reconcilers.py:229`, "never mints a token for a line still being dialled": the
  reads are taken one after the other and a dial fits between them. The next
  pass trims the token (`TokensHeal`). `channel_semaphore.py` says of
  `channel_exists` that it tells an uninitialised list from a saturated one;
  Redis keeps no empty list.
- `leader.py` says a successor takes over within the TTL; a pod that asked just
  before the lapse asks again an interval later.

Outreach:

- `enrollment.py:382-383`, "a late or repeated reply changes nothing": a second
  reply during a stay replaces the first one's answer. `AnswerDecides` therefore
  admits any answer of the stay.
- The admission of a plan without re-entry is a read and then an insert, under
  READ COMMITTED: two letters may both be admitted.
- A re-pin (`plans.py:387`) does not move `wake_at`; a visit under way finishes on
  the board it read.
- A lead minted by a refused visit is adopted by the next visit of the stay, with
  the facts of the first. The dedupe key of a message is the run and the square:
  a send square that is visited again sends nothing.
- A run whose visits kill their pod is never parked: only a raised failure counts.

Chat:

- `accessor/chat_session.py:347-349` and `queries/chat_session.py:312-314` say that
  the lead in the WHERE clause keeps a stale bot from flipping a newer
  attachment. Every attachment of a session reuses one lead, so it matches: with
  two bots TLC finds it in a few steps. `/voice/end` does not tell the bot.
- A person's end of the session (`handlers.py:1089`) leaves its pending approvals
  (only `cleanup.py` closes them), and the voice path claims one without reading
  the session.
- `approvals.py`: "all pending rows always belong to the latest gate turn's single
  assistant batch" does not hold after an internal turn, which supersedes nothing.
- "409 if voice is currently active" is checked before the lock and not under it.
- `locks.py:16-18`: a holder whose lock expired is expected to bail; no caller asks.
- A stream that is never started leaves its lock to the TTL. The sweeper ends a
  session without asking again, under the lock, whether it is still idle. A late
  cancel is keyed by session and may cancel the next turn. An insert that landed
  and was reported failed to a cancelled turn is answered twice (`unsure`).

## 7. Not modelled

- Daily modes and `is_dispatchable`, pre-checks and call limits: policy, seen as
  gates with every outcome.
- Choosing among several numbers, Twilio's status flag, Exotel: `CallCapacity` is
  about one Plivo or Vobiz number.
- Several plans or customers at once in `OutreachWalker`: runs of different keys
  share nothing but the walkers' attention. The retention sweep, the plan editor
  and the catalog's field rules.
- What a chat turn says and its ungated tools; the other widget endpoints.
- Voice pipelines, chat engine, assist, TTS, alerts, templates, onboarding, auth
  and CRUD: I/O, or single statements without a protocol.

These are most of the repository's lines: prompts, pages of SQL for analytics,
provider clients, request models. The modelled share of the lines is small for
that reason, not because the modules translate few of the protocols.

## 8. Plan

Done: `LeadDispatch`, `RecordSpine`, `Promoter`, `OutboundMessage` and
`ChatSession` with their refinements, `CallCapacity`, `OutreachWalker`. Left:

1. Call limits, and the connection pool of DragonTTS.
