# A verification project for the Agentic Postgres Primitive

TLA+ modules, TLC configurations and TLAPS proofs for the concurrent core of
the Agentic Postgres Primitive (v1.25.0): the parts that keep state between
calls and are worked on by several actors at once. Paths below are relative to
`src/`; `0034` and the like are files of `migrations/templates/`.

    tlc -workers 2 -config MCUndo.cfg MCWorkflow   # one run (see "Runs")
    tlapm WorkflowProofs.tla                       # the proofs of one module

## 1. Inventory

The repository is a Python project around PostgreSQL: most state changes are
PL/pgSQL functions installed by numbered migrations, called by a FastAPI
process (`services/auth-api`), by operators' commands (`bin/`) and by a host
reconciler. What keeps state, and what is hard about it:

**Workflow plane** (`0034`, `0035`, `0037`, `workflow_worker.py`).
*State*: `workflow_run`, `workflow_step`, `workflow_attempt`,
`workflow_approval`; the agent plane's idempotency keys; the worker's local
variables. *Operations*: an agent enqueues, cancels and reads runs; a human
decides approvals; the project's SQL emits events; one worker loop claims a
step under a lease, reads its gate, mints a token, calls the agent plane over
HTTP, and records a finish, a park, a wait or an approval request. *Hard*: the
process dies anywhere and returns under a new identity; a lease lapses while
the call is upstream; replies are lost; a call given up goes on and commits
after its step failed, was repeated or was undone; a cancel, a timeout, a decision, an
event or a revocation falls between any two worker steps; compensation runs
backwards under the same leases. *Correct when*: an effect happens once where its
function claims the call's key and at most once a claim where it does not, in
order and only when approved; compensation reverses what succeeded and reports
honestly; ended runs stay ended; every run ends.

**Connectors, outbound** (`0036`, `connector_delivery.py`). *State*:
`connector`, `connector_event`, `connector_delivery`. *Operations*: install,
enable, disable, emit, rehearse; the same loop's second pass claims a delivery,
POSTs it, records the result; a prune. *Hard*: at-least-once over crashes,
overlapping holders and lost answers, with a budget that must be neither
exceeded nor leave a delivery stranded. *Correct when* it implements `Promise`.

**Connectors, inbound** (`0036`, `connector_routes.py`,
`connector_signature.py`). *State*: `connector_receipt`, `workflow_run`.
*Operations*: verify a signature in a time window, accept, refuse. *Hard*:
replays and concurrent copies; a receipt that is pruned with its run. *Correct
when* a signed request starts at most one run within the tolerance.

**Connectors, scheduled** (`0036:532-566`). `connector_fire_due` advances
`next_fire_at` and enqueues a run. *Hard*: missed fires, a binding that no
longer holds.

**Record retention** (`0039`). Withdraws pending approvals of ended runs;
prunes ended runs with their receipts, and ended deliveries. Acts on the
state of the three parts above.

**Refresh sessions** (`0023`, `0024`, `refresh_sessions.py`). Token families;
rotate, revoke, reuse detection. *Hard*: a lost reply retried with a consumed
token; concurrent refreshes.

**Agent plane** (`0025`, `0027`-`0030`, `mcp_tools.py`, `mcp_audit.py`,
`mcp_budgets.py`, `mcp_upstream.py`). *State*: `agent_quota` (one row an
agent), `agent_audit`, `agent_idempotency`; the process's slots. *Operations*:
every tool call opens an audit record, which counts it against the window;
waits for its tool's slot and the process's; sends one statement; closes the
record. A reviewed write claims its idempotency key in its own transaction, or
rehearses and rolls back. *Hard*: a call given up or cancelled while its
statement is on the way; a repeat of a call whose answer was lost; the window's
rollover between the clock and the counter's row. *Correct when*: one write per
key whatever is repeated, a repeat is told of the row that was written, records
are true, no slot is lost.

**Object storage** (`0014`-`0016`, `storage_routes.py`, `storage_service.py`,
`storage_cleanup.py`, `storage_client.py`). *State*: `storage_objects`; the
provider's keys, which nothing lists. *Operations*: an intent mints a URL that
may write its key once; a completion reads the key, asks the provider and
compare-and-sets; a tombstone; a sweep expires intents, leases tombstones,
deletes at the provider and marks the rows collected. *Hard*: a URL that
outlives its intent and cannot be taken back; completions in flight across a
tombstone; sweeps that overlap, fail or die. *Correct when*: what is available
has the bytes that were verified; nothing is left at the provider that no row
would find; every row is collected.

**Control plane** (`projects/control/migrations/templates/`,
`control_service.py`, `control_states.py`, `reconciler_dispatch.py`,
`bin/reconciler.py`, `slot.py`, `project-retire.py`). *State*:
`control_operations`, `control_projects`, the slots' directories on the host,
`reconciler.lock`. *Operations*: members ask for a project to be created, put to
sleep, woken, resized, exported or deleted, or cancel; the reconciler claims the
oldest, runs its type's commands, finishes it; at a start it finishes what was
interrupted. *Hard*: the process dies inside any command, which may have had its
effect; admission on readings that grow stale; two reconcilers; state told to
members from the history of operations. *Correct when*: an operation is executed
at most once and ends; a slot serves one project ever; the plan holds; what
members read is so. Registry documents, branches, plans, usage and
notifications are around it.

**Password reset and one-time tokens** (`0026`, `one_time_tokens.py`): one
atomic consume per token.

**Signing-key rotation; ports, slots, edge and host state; deploy, migrate,
backup, restore and upgrade commands**: single-operator sequences over files,
Docker and PostgreSQL.

**Compilers, contracts, clients, documents**: pure functions.

How the parts interact: the workflow worker calls the agent plane over HTTP and
relies on its idempotency keys and its approval check (`Workflow` has what it
sees of them, `AgentCalls` the plane itself); `emit_event` (one SQL function)
both serves parked event waits of the workflow plane and records deliveries of
the outbox; `connector_accept` and `connector_fire_due` call
`workflow_enqueue`; one Python loop runs the workflow pass and the connector
passes and shares its identity between them; retention deletes what the others
ended. The control service and the reconciler meet only in the control
database's rows and in the recorded slot reading.

`PROJECT.json` lists every component with its status and, under `hazards`, each
thing in this code that a test would hardly reach, at its line.

## 2. Modules

| Module | What it is |
|---|---|
| `Workflow` | the workflow plane and its worker |
| `WorkflowRaces` | extends `Workflow` with two SQL functions split where READ COMMITTED lets them interleave |
| `Outbox` | outbound connectors and the worker's second pass |
| `Promise` | the abstract specification of one delivery; `Outbox` implements it |
| `Inbound` | signed deliveries, receipts and the prune of runs |
| `Operations` | the control plane's operations, the reconciler and the slots |
| `Storage` | upload intents, completions, tombstones and the cleanup sweep |
| `AgentCalls` | one agent's tool calls: quota, slots, idempotent writes, records |
| `WorkflowProofs`, `WorkflowEffectProofs`, `WorkflowRaceProofs`, `OutboxProofs`, `InboundProofs`, `StorageProofs`, `AgentProofs`, `OperationsProofs` | theorems and proofs |
| `MCWorkflow`, `MCWorkflowRaces`, `MCOutbox`, `MCInbound`, `MCOperations`, `MCStorage`, `MCAgentCalls` | small instances |

### Workflow

One SQL function is one action: each is a single statement to its caller, and
what it reads it either locks or is read under the row locks its claim took.
The exceptions are in `WorkflowRaces`. Each database call of the worker and its
one HTTP call are separate actions, because the loop awaits between them.

| Variable | Code |
|---|---|
| `run` | `workflow_run`: status, definition, rehearsal flag, age, `cancel_requested_at`, deadline passed, `compensation_cause`, `compensation_outcome` |
| `step` | `workflow_step` and the last attempt row of each: status, `lease_holder`, lease unexpired, `resume_after` passed, claims counted, last attempt written, whether a time wait was recorded, the event wait |
| `approval` | `workflow_approval`, one per gated step; `open` is `expires_at` in the future |
| `work` | the loop of each `worker_identity`: where `process()` is, the claimed row and attempt, whether the token it mints carries the approval, the verdict it will record |
| `active` | the agent's status, read by enqueue, mint and every call |
| `upstream` | calls the worker gave up, or died waiting for, whose statement may still run |
| `ledger` | `agent_idempotency`: the keys claimed by the release's own writes |
| `log` | history only: the calls whose effect was committed, in order |

| Action | Code |
|---|---|
| `Enqueue`, `Cancel` | `workflow_enqueue`, `workflow_cancel` (0034, 0035) |
| `Approve`, `Reject` | `workflow_decide_approval` (0035) |
| `Emit` | the part of `emit_event` that serves waits (0036) |
| `SetAgent` | an agent revoked or made active (0025), the environment |
| `ClaimStep`, `ClaimNothing` | `workflow_claim_step` whole: the cancel pass, the timeout pass (both may begin compensation), then one row or none |
| `WithdrawEnded` | the idle iteration's `workflow_withdraw_ended_approvals` (0039) |
| `ReadGate`, `CloseGate`, `Mint`, `CallPlane` | `process()`: `workflow_gate_state`, `_close_gate`, `step_token`, the `tools/call` as the worker learns of it: served, refused, or given up |
| `Commit` | the statement of a call given up, run after all |
| `FinishAbandoned`, `FinishUndo`, `FinishForward` | `workflow_finish_step` with the compensation it begins or ends |
| `Park`, `AwaitEvent`, `RequestApproval` | `workflow_park`, `workflow_await_event`, `workflow_request_approval` |
| `LeaseLost` | the refusal each of these makes to a holder that lost its row |
| `LeaseLapses`, `ResumeDue`, `RunOverdue` | `lease_until`, `resume_after` (with `expires_at`), `started_at + timeout` passing |
| `Start`, `Crash` | the process starting and dying |

Abstractions, all in the direction of more behaviour unless said otherwise:

- Time is Boolean: each deadline is a flag that its own action turns, so
  deadlines pass in any order. The one coupling kept is the code's own:
  `workflow_request_approval` sets the park's `resume_after` to the approval's
  `expires_at`, so one action turns both.
- A definition is a sequence of elements: kind, gated, whether the tool claims the
  call's key, retry budget, and the same of its compensation. The compiler's
  refusals are the assumption `DefinitionsAssumption`.
- The key is claimed inside the release's two writes (`0029`, `0030`) and nowhere
  else. A project's function, behind an approval or not, commits each time its
  statement runs (`0037:67-70`), and both kinds are in the instances.
- A call's answer is one of a few verdicts. Whether a failure is retryable is free.
  A call given up, by a timeout, a failed transport or the worker's death, goes to
  `upstream` unless `MaxUpstream` are there already, and its statement may `Commit`
  at any later time or never, whatever became of its step, its run and its lease; a
  reply that is lost is the same. Its transaction reads the agent and, where the
  function calls `require_approval`, the approval again.
- `Allows` is `require_approval` in the database, which a project's gated function
  calls. A release tool that a profile puts behind an approval is checked in the
  plane for the token's claim alone, with no reading of the run (`Permitted`).
- A rehearsal of a project's function rolls back or does not: that is the
  function's own code.
- `created_at` is an ordinal: enqueues happen at distinct times.
- A run's id is used once. Pruning a run is not an action here: an ended run is
  read by no worker step except to refuse it (`Inbound` has the prune).

### WorkflowRaces

`workflow_cancel` reads the run without `FOR UPDATE` and writes by id alone;
`workflow_decide_approval` locks the approval but compares its expiry with
`now()`, the transaction's start. Each becomes two actions; every other step is
`Workflow`'s. The claim's own snapshot (two claims choosing rows at once) is
not split (see section 5).

### Outbox and Promise

`connector` holds what the outbox reads of a connector's row (subscribed event,
endpoint present, enabled, `retry_max`); a delivery's budget is `retry_max + 1`
(`Attempts`); `delivery` is
`connector_delivery`; `emitted` counts events; `work` is the loop at
`deliver()`; `posts` and `answered` are history. Actions: `Install`, `Enable`,
`Disable`, `Emit`, `Rehearse`, `Prune`, `ClaimDelivery`/`ClaimNothing` (the
retirement of lapsed last attempts is part of both), `Post`, `FinishDelivery`,
`PassRaises` (`_connector_passes` catches and goes on under the same identity),
`LeaseLapses`, `BackoffPasses`, `Start`, `Crash`. A claim takes any due
delivery where the code takes the one due longest. A POST may be received and
its answer lost. A rehearsal's POST goes to the discard port.

`Promise` says, of one delivery: at most its budget of tries; delivered only if
the receiver answered; dead only when every try is spent; what ended is only
forgotten. `Item` maps an outbox row to it (`pruned` reads as `forgotten`).

### Inbound

Time is a number here, because the property is about it: `Second` ticks to a
second, the route's clock truncated (`int(time.time())`), the database's not.
`verified` holds requests whose signature was checked and whose transaction has
not run; any time may pass between. `Accept` is `connector_accept` with its
`workflow_enqueue`; a refusal leaves no receipt (the transaction rolls back), so
it is `Answer`. `open` and `able` stand for the refusals before and inside the
enqueue. `Prune` deletes any admissible set of ended runs with their receipts.
`WindowAssumption` (`Floor >= 2 * Tolerance`) is the code's 600 s and 300 s.

### Operations

| Variable | Code |
|---|---|
| `ops` | `control_operations` in the order asked for: type, organisation, project key, status, error code, `attempt`, `claimed_by` |
| `reg` | `control_projects`: a slot's row, absent, live or deleted, and its organisation |
| `disk` | a slot on the host: the `allocated`, `quarantined`, `consumed` and `retirement.json` files, the prepared manifest, the deployed document, containers, boot unit, timers |
| `offered` | the recorded slot reading names a ready slot and is not stale |
| `rec` | each reconciler: where it is in `start()`, `cycle()`, `handle()` or a handler |
| `lock` | `reconciler.lock` |
| `tenants` | history: the creations that deployed on a slot |

A step of a handler is `Begin` (its name recorded, refused when the row is not
running) and then its act: `Succeed` or `Fail` for a command, with what the
command leaves (`After`, `Partly`), or an action of its own where the code writes
something (`Allocate`, `SetProfile`, `NameProject`, `Restore`, `Unmark`,
`Register`, `Unregister`). `Steps` is `reconciler_dispatch.STEPS` with the
allocation in its three writes. `Die` may happen anywhere outside the database's
own transactions; a command it kills has had its effect, part of it or none. A
control database that stops answering ends the process too (exit 6), so it is
the same action. `ProjectState` is `control_states.project_state`. A member's
request is one action: the service's reads and the insert are one transaction
under the organisation's row lock, except the slot reading, which is old by
design. DNS is the choice in `Read`; a finish with `could_not_determine` or
`invalid_request` before the first step stands for the moved checkout, the
unreadable document and the refused arguments. `NotAnswered` is `handle()` catching
the `ControlError` of a step's statement, or the `OSError` of its file: nothing was
done and the operation is refused as `could_not_determine`.

Left out: a statement that commits although its `psql` was not answered, in a process
that lives on (`Die` has the commit with the process gone). And a command that timed
out or was killed stops at once (`Die`, `Fail`): a child that goes on after its
operation's row is finished is not modelled.

### Storage

`row` is `storage_objects` (with `age` since the intent and what is left of the
lease), `bytes` what the provider holds under the row's key, `asking` a
completion between its three round trips, `worker` a sweep. Time is in ticks:
`Tick` ages rows and spends leases and the workers' own clocks. `Put` is the
client's conditional PUT, admitted while the URL lives and `Late` beyond it;
`GraceAssumption` (`Late <= Grace`) is what `WRITE_GRACE_SECONDS` is for and says
of itself that it is reasoned, not measured. A statement is atomic; each of a
sweep's is one action, with its provider call between two of them. The answer of
a claim is immediate: the worker's deadline counts from it, so a slow answer would
spend the margin (see hazards). A tick may not pass over a delete for longer than
`Margin`, the client's timeouts. The provider is external.

### AgentCalls

`call` is a call in the runtime, `begin` and `write` its two statements in the
database with their answers, `audit` and `data` its two records, `quota`, `claim`,
`notes`, `task` the rows, `free` the slots. A request has a life of its own: the
runtime may stop waiting (`NotOpened`, `Unanswered`) or be cancelled
(`Cancelled`: the tool's timeout, the client leaving, the process dying) and the
statement runs afterwards, or never, which is how a lost one reads.
`agent_audit_begin` is two actions, because its clock is read before the row it
counts in is locked. A write's transaction is one action: two of one key meet on
its unique index, two of one task on its row. The closing record lands or not.
Windows are counted by `NextWindow`. Scopes, redaction, telemetry, the
capability lock and the bounds' arithmetic are left out; that a served row breaks
a bound is a choice in `Served`. `agent_idempotency_prune` (0033), which forgets
keys, is not modelled: `WriteOnce` is about keys that are kept.

## 3. Runs

| Run | Module, cfg | Question | Bounds |
|---|---|---|---|
| `undo` | `MCWorkflow`, `MCUndo` | which row is claimed when; how a run turns, ends and stays ended | one run, a definition of two compensable writes and a read; two workers alive at once, one of which may die; two claims of a row before a live lease holds; no late statements |
| `races` | `MCWorkflowRaces`, `MCRaces` | approvals, waits, effects per key and per claim, over split cancels and decisions | one run of a keyed write, a gated write of a project, a gated one of the release, or `<<time wait, event wait>>`; two retries, three claims before a live lease holds, two live workers, two late statements |
| `live` | `MCWorkflow`, `MCLive` | the order of effects under late statements; every run ends; no approval stays pending | one run of `<<write, a project's write, read>>`, `<<write, gated write>>` or `<<time wait, event wait>>`; a worker that may die and its successor, one late statement at a time, fairness |
| `outbox` | `MCOutbox`, `MCOutbox` | the outbox implements `Promise`, strands nothing, ends every delivery | one connector of no retry, one or two, one event or rehearsal, three workers alive at once, fairness |
| `inbound` | `MCInbound`, `MCInbound` | one acceptance in the window | two ids, two runs, half-second ticks, tolerance of one second, prune floor of two |
| `operations` | `MCOperations`, `MCOperations` | executed once, ended; slots, plan, what members read | two operations, two organisations of one project each, a slot with a project and a free one, one death, one `once`, fairness |
| `storage` | `MCStorage`, `MCStorage` | available has its bytes, nothing orphaned, every row collected | one object, sizes empty, good and too large, two sweeps, a lease of two ticks and a margin of one, two faults, fairness |
| `agent` | `MCAgentCalls`, `MCAgentCalls` | one write per key, true records, no lost slot | two calls of a note, a transition or a read, one key, two windows of one call, one slot, fairness |
| `cancel_race` | `MCWorkflowRaces`, `MCCancelRace` | violated: see findings | one run of one write |
| `once_beside` | `MCOperations`, `MCBeside` | violated: see findings | as `operations`, with `Beside = TRUE` |
| `orphan` | `MCStorage`, `MCOrphan` | violated: see findings | one object, one sweep |
| `quota` | `MCAgentCalls`, `MCQuota` | violated: see findings | three calls, two windows of one call |

Why the bounds are enough to mean something:

- Late statements: an effect out of order needs one statement that is late and one
  worker that goes on, which `live` has over two compensations; two statements of
  one write beside each other need two, which `races` has. `undo` asks about rows
  and runs, which no late statement touches, and has none, so that two workers may
  overlap on three steps.
- In `live` one worker is alive at a time, so nobody else sees a live one's lease
  lapse; `MaxAttempts = 1` leaves the lapse to the dead.
- Two holders are the most the worker is written for (ADR 0227: one as deployed,
  an overlap at a restart). With two alive, a lapse hands one row to both. The
  same holds for the sweeps of `storage`.
- `MaxAttempts = 2` in `undo` lets a live worker lose its lease once per row, and a
  dead one always; a row is then held by a stale and a current worker at once. It is
  a cap on that lapse only: parks and retries count claims past it.
- Two undo rows are the fewest with an order, three elements the fewest where
  a step after both writes can fail. Two elements suffice for gates and waits,
  which concern one row and its predecessor. One run suffices where no action
  relates two runs.
- In `outbox` rows share nothing but the worker that is handed one at a time, so one
  row with three workers has every overlap; no retry at all and a rehearsal's three
  attempts are both budgets' edges.
- In `inbound` seven ticks cover sign, accept, end, prune after the floor, and a
  late copy; the tolerance and floor keep the code's ratio and `Second = 2`
  shows the truncation.
- In `operations` two operations meet in every pair of types on one slot or two,
  and a creation, refused or dead, is followed by another; one death and one
  `once` give every interrupted operation its recovery by either reconciler.
- In `storage` a lease of two ticks and a margin of one is the smallest in which
  a worker may begin late; ages run to the grace and one past it.
- In `agent` two calls are a call and its repeat. One slot makes them wait for
  each other; the two windows let the counter be written back.
- The passing runs reach 0.05 to 2.6 million distinct states, and each property
  is broken by a plausible change of the code (`mutants` in `PROJECT.json`).

`CHECK_DEADLOCK FALSE` is set in every run: the model's identities and ids are
finite, so a run in which all work is done may stop. Nothing is hidden by it,
as the liveness properties show.

### Properties

Each is stated in words above its definition.

- `undo`: `LeaseGuardsRun`, `SequentialForward`, `TurnsWithItsUndo`,
  `EndedRunStays`.
- `races`: `EffectNeedsApproval`, `ServedWaitSucceeds`, `OneEffectPerKey` (of
  writes that claim their key), `OneEffectPerClaim` (of all), `SucceededMeansDone`,
  `DecisionIsFinal`.
- `live`: `EffectsInOrder`, `UndoInReverse`, `CompleteMeansUndone`, `EveryRunEnds`,
  `NoApprovalLeftPending`. `UndoInReverse` orders a compensation after those of
  later steps that are recorded as succeeded: one given up as failed may land late,
  and its run then reads `incomplete`.
- `outbox`: `NoneStranded`, `KeepsPromise`, `EveryDeliveryEnds`.
- `inbound`: `ReceiptMatchesRun`, `OnceInsideWindow`.
- `operations`: `WorkIsOnRunning` (nobody works on a row that is not running, no
  two on one), `NeverResumed`, `SlotUsedOnce`, `PlanHeld`, `SleepingIsOff`,
  `DeletedIsGone`, `EveryOperationEnds`.
- `storage`: `AvailableHasBytes`, `NoOrphanedUpload`, `DeletesItsOwn`,
  `EveryRowSettles`.
- `agent`: `WriteOnce`, `ServedIsTrue`, `RepeatIsReplayed`, `EveryCallEnds`.

### Fairness

In `Workflow` and `Outbox`, weak fairness only, on `Start` and `Work` of each
identity and on time: `supervise` re-enters the loop after any exception and the
container is restarted, so an identity that can take a step eventually does or
is replaced; a parked row's time and a dead worker's lease pass because clocks
run. Nothing is assumed of agents, humans, senders, receivers or administrators:
nobody has to cancel, decide, emit, answer or enable. `RunOverdue` and a live
worker's lapse are not fair, so runs end without the help of their timeouts. An
iteration that claims no step but delivers an event is not idle and withdraws
nothing (`workflow_worker.py:827`); weak fairness of `Work` counts only steps
that change the state, so it includes that the outbox is not due at every single
poll, which `NoApprovalLeftPending` needs. In `Outbox` the lapse of any lease is
fair, because a pass that raises forgets its delivery while its identity lives on.

In `Operations`, weak fairness of the unit's start (`Restart=on-failure`) and of
what a running reconciler does next; nothing of the operator, so a `once` that
died may leave its operation until some reconciler starts, which
`EveryOperationEnds` says.

In `Storage`, time passes, and the operator runs `storage-admin.sh cleanup`
again and again (nothing in the code schedules it). Strong fairness of
`BeginDelete` and of a finish under the lease says that a sweep is not every
single time slower than its own lease. Faults are bounded, uploads and
completions owed by nobody.

In `AgentCalls`, weak fairness of the runtime's waits, each of which has a
timeout, and strong fairness of the two slots, because an `asyncio` semaphore
wakes its waiters in order. Nothing is assumed of the database, of the client or
of a cancellation.

### Findings

- **`cancel_race`** (code): a cancel that reads the run `queued` and writes
  after the worker claimed its first step ends the run as `cancelled` while the
  write goes upstream; the finish then leaves the ended run alone and the write
  is never compensated, which `docs/workflows.md:126` says it is.
- **`once_beside`** (code): `start()` runs `recover()` without the lock, so a
  `once` started beside a working unit fails the unit's operation as interrupted
  (and quarantines a creation's slot) while the unit goes on with its commands.
  `bin/reconciler.py:34` says the lock serialises a `once` beside the unit.
- **`orphan`** (code): a completed object is collected at once after its
  deletion, and the URL it was uploaded through, while it still lives, writes the
  key again. `0016:147` says "an object is collectable only once nothing can still
  write to its key". What does hold is `NoOrphanedUpload`, of uploads that never
  completed.
- **`quota`** (code): `agent_audit_begin` reads the window before it locks the
  counter's row, so a call delayed over a boundary writes the old window back and
  the new window starts again. The comment on `quota_calls` calls it the calls an
  agent may make per window.

More that were met and are not runs:

- An approved call of a project's function that is given up and repeated, or whose
  step is reclaimed, commits twice: `require_approval` does not consume the decision
  and the function claims no key. `0037:67-70` says so of the same call made twice;
  `docs/workflows.md:285-286` ("so the plane serves it once") and the example's
  `0004-approval-in-the-database.sql:30-32` read otherwise. `OneEffectPerClaim` is
  what holds.
- A write whose transport fails or times out inside its lease fails its step and
  begins the compensation (`workflow_worker.py:552-553`, `mcp_upstream.py:405-413`),
  and its statement may commit after the undo rows were appended or have run. It is
  then undone by nothing. `0035:267-272` guards against a forward write that lands
  behind them by waiting for the lease, which the worker's own verdict does not.
- A decision whose transaction began
before a gate's expiry may commit after the worker read the gate as expired, so
the step fails beside a decided approval (`workflow_worker.py:736`).
- Pruning a run deletes its receipt, so its delivery id, signed again, is accepted
  again (`0039:164`, against `docs/connectors.md:168`; what holds is
  `OnceInsideWindow`).

## 4. Proofs

All theorems hold for every value of the constants under the named `ASSUME`s
of the component's module: finitely many runs or calls, at least one position,
`None` none of the values it stands beside, definitions as the compiler admits
them, `retry_max` within 0..10, a prune floor of at least twice the tolerance, the
provider's leeway within the grace and a sweep's margin within its lease. None
assumes a bound: `MaxAttempts`, `MaxLive`, `MaxEmits`, `MaxTime`, `MaxOps` and the
like are arbitrary, `MaxUpstream` included.

**WorkflowProofs** (specification `Spec`, atomic SQL functions).
`TypeCorrect`, `LeaseGuards`, `ForwardOrder`, `EndedStays`, `EffectOnce`,
`DecisionStays`, `ApprovalFirst`. The inductive invariant is
`IInv == Base /\ Core(run, step)`. `Base` is what every later proof needs and the
races keep: `TypeOK`; `WorkOK`, a worker past its claim names a row; `CauseKnown`,
a compensating run records why; `RowsAfterRequest` and `UndoAfterTurn`, rows exist
only once their run was requested and undo rows only once it turned. `Core` adds what
the leases protect: `Sequential`, a claimed row was counted, at most one undo row is held at a time, and `Guarded`.
`LeaseGuardsRun` alone is not inductive: a claim of an undo row could
end the run under another undo row's lease unless the queue of undo rows lets
only one be claimed at once, and a forward row could still be leased when the
run turns unless the two passes skip runs in flight. The steps are proved once
per shape of change (a claim, the two passes, a release, a beginning of
compensation) as lemmas over `Core(run, step)`, which takes the two functions as
arguments so that the intermediate state of a claim, after its passes and before
its pick, is covered by the same lemma. `EffectOnce` is of the writes that claim
their key and of no other. It rests on `KeyedInv` (such an effect in `log` has its key
in `ledger`, and is there once) and on `EnqueuedInv` (what a worker, a statement on
its way or an effect names is a step of a run that was requested, whose definition no
longer changes), neither of which speaks of leases: it holds however many workers
there are and however late a statement runs. `ApprovalFirst` rests on `GatedInv`.

**WorkflowEffectProofs** (the same specification): what rows, effects and
outcomes say of each other. `StepMoves` and `RunMoves` state once, for every
action, how a row and a run may change; the invariants below are proved from
those two shapes and not action by action again.
- `SuccessIsReal` (`SucceededMeansDone`). A row is marked succeeded by a worker
  whose verdict is local and may be old, so the invariant (`DoneInv`) also says
  that a worker about to record a good verdict for a write has its row in `log`,
  and that every key in `ledger` has its effect there: a replay is then real. A
  statement that commits late only adds to `log`.
- `TurnTakesUndo` (`TurnsWithItsUndo`). The invariant (`TurnInv`): a queued run
  has claimed nothing, and an undo row is of a step that declares one and
  succeeded. `TakesItsUndo` is an equivalence, so both a forgotten and an
  invented undo row would break it.
- `CompleteIsUndone` (`CompleteMeansUndone`), from the two above and `OutcomeInv`:
  an outcome is written only to a run that ends, and once complete no undo row is
  anything but succeeded.
- `EffectPerClaim` (`OneEffectPerClaim`). `CountInv`: the call of every worker, of
  every statement on its way and of every effect is of a claim counted on its row.
  `ClaimInv`: a claim's call is one worker's, and while that worker waits for the
  answer it is neither on its way nor committed; on its way, not committed; committed,
  once.
- `EffectsOrdered` (`EffectsInOrder`) and `UndoReverses` (`UndoInReverse`), with no
  assumption on how late a statement runs, from `OrderInv`. A late effect is of a row
  that was claimed (`CountInv`), and what its claim required is still so: earlier
  steps that succeeded stay succeeded and, being real, were in `log` before it;
  `OverAbove` says that the undo rows above a claimed one are over, and `UndoStaysOver`
  that an undo row that is over keeps its status, so none of them is recorded as
  succeeded afterwards.
- `ServedSucceeds` (`ServedWaitSucceeds`). The worker that would fail a wait read it
  before it decided; `WaitInv` says that a holder about to record a failure of an
  event wait it still holds has an unserved one, since an event serves parked rows.

**WorkflowRaceProofs** (specification `RaceSpec`: late cancels and late
approvals). `RacesCommitOnce`, `RacesCommitPerClaim`, `RacesNeedApproval`,
`RacesRecordTruth`, `RacesKeepServed`, `RacesKeepDecisions`: the six properties of run
`races`. The invariant `RaceInv` joins `Base`, `EnqueuedInv`, `KeyedInv`, `GatedInv`,
`CountInv`, `ClaimInv`, `DoneInv` and `WaitInv`. `IInv` fails there, since a late cancel
ends a run under a worker's lease and breaks `Guarded`; so the lemmas about rows,
workers, effects and waits take `Base` as their hypothesis and not `IInv`. The
proof has three parts: `Next` keeps `Base` by itself (`NextKeepsBase`, with
`TurnedStays`: a run that turned never goes forward again); both late writes are a
`LateWrite`, which may end a run as cancelled and approve a pending approval and
touches no row's status, no worker and no effect; a `LateWrite` keeps each of the
invariants. Nothing need be known of the cancels and approvals under way: what
they read is not relied on, which is why a stale read cannot break these six.
`LeaseGuardsRun`, `EffectsInOrder`, `UndoInReverse`, `EndedRunStays` and
`TurnsWithItsUndo` are not claimed of `RaceSpec`: the finding `cancel_race` is a run that ends without its undo.

**OutboxProofs.** `OutboxTypeCorrect`, `NeverStranded`, `RehearsalInside`,
`OutboxKeepsPromise`. The invariant is `TypeOK /\ RowsOK /\ Unwritten /\ Busy`: a
row's fields agree with its status, its attempts stay within its
budget, which is at least one (a holder with a spent budget is retired, never handed out), rows above
`emitted` do not exist, and a working holder's delivery was claimed at least
once. The refinement needs all of them: `Die` needs attempts *equal* to the
budget, and a late answer needs a try to answer. Each action maps to a step of
`Promise` or a stutter, row by row.

**InboundProofs.** `InboundTypeCorrect` (which no run repeats), `ReceiptAndRun`, `WindowAcceptsOnce`.
The invariant adds to `OnceInsideWindow` that times are ordered (started no later
than now, ended after started) and that receipts match runs. The argument: a
second acceptance needs the first receipt gone, hence its run ended and aged past
the floor; the first acceptance is no earlier than a tolerance before the stamp
(plus the truncated fraction, which works in its favour), so the second comes
later than the stamp plus the floor less the tolerance, which is the tolerance.

**OperationsProofs.** `OperationsTypeCorrect`, `NothingIsResumed`,
`SlotsAreUsedOnce`, `WhatIsDeletedIsGone`, and, for `Beside = FALSE`,
`OnlyRunningIsWorkedOn`. The invariant is `TypeOK /\ Rows /\ NeverResumed /\
\A slot : SlotOK /\ \A reconciler : WorkOK`. `SlotOK`: a slot without a marker is
as prepared and was never deployed to; a deleted one is empty and entombed.
`WorkOK`: who works holds the lock, its row and step exist, its slot is named and
its project not deleted; a creation past its allocation has its marker on the
slot and, until its first deployment, no tenant there, which is why a refused
creation may give the slot back; a deletion has emptied the slot before its second
step and entombed it before its third. The lock makes the worker the only one, so
that a step is proved against its own slot and carries over to the others.
`OnlyRunningIsWorkedOn` adds `Runs`: what a recovery still has to do was once
begun, and nobody works on it. A claim keeps it (a pending row is in nobody's
recovery), and only a start beside a working reconciler breaks it, which is the
finding `once_beside`.

`SleepersAreOff` (`SleepingIsOff`) needs no such assumption. `ProjectState` is told
from the last row that decides anything, so the proof needs to know that the row
being worked on is the last one claimed: `OInv` says that rows are claimed in the
order they were asked for (`InOrder`), and, of the worker (`InTurn`), that until it
touches something what slept before it sleeps on, that a sleep has switched off by
each step what that step switches off, and that a creation's slot is not registered
before its last step. `AsleepBut(s, o)` is "the history without row `o` says asleep":
a row may decide, stop deciding (finished as refused before anything ran) or never
decide, and the slot must be off in every one of those histories that says so.

`PlansAreHeld` (`PlanHeld`) is proved for `Beside = FALSE`, finitely many slots, and
projects at the start within the plans (`FoundedWithinPlan`; the instance founds one
of one). The invariant counts the open creations that are not registered as well
(`WithinPlan`), and `Unnamed` says that a creation has no key before the step that
names one. A request adds one under its limit; a registration takes one from the open
creations and adds one to the live projects, for which the row must still be running
(`Runs`) and its slot absent from the registry (`OInv`). Without `Beside = FALSE`
it is false: with three slots TLC finds a `once` that fails a creation in progress as
interrupted, which frees its place, another creation, and both registered.

**StorageProofs.** `StorageTypeCorrect`, `WhatIsAvailableIsThere`,
`NothingOrphaned`, `DeletesUnderLease`. The invariant is `TypeOK /\ \A object :
RowOK /\ \A sweep : WorksOK /\ HoldsOK`. A row is `Closed` when no first write can
reach its key any more; what a sweep has in hand is closed, so what it deleted
stays deleted, and what has not been deleted is still held with a lease longer
than the sweep's own clock. A completion between its round trips needs that the
key holds the size it saw as long as the row is pending: a key is written once.

**AgentProofs.** `AgentTypeCorrect`, `SlotsAreKept`, `OneWritePerKey`,
`RecordsAreTrue`, `RepeatsAreReplayed`. The invariant is `TypeOK /\ NoSlotLost /\
WriteOnce /\ \A call : CallOK /\ \A key : KeyOK`. `CallOK` ties a call's answer to
its data record and to its key's claim, `KeyOK` a claim to a call that committed
under it. `NoSlotLost` (taken and free slots add up) is what the counters' types
rest on; its proof is the arithmetic of cardinalities.

Every invariant and action property of the passing runs is stated by a theorem of
the specification its run checks, two of them under named hypotheses that their run
meets (not `Beside` for `OnlyRunningIsWorkedOn` and `PlansAreHeld`, the latter with
`FoundedWithinPlan` as well); model-checked only is every liveness property.
Out of the provers' reach: liveness under fairness and `ENABLED`; induction over
data, so nothing is proved of a recursive definition for every input (there is none
in these modules); and `RECURSIVE` operators, which are therefore not used.

## 5. Not modelled

- The choice of a row by two claims at once under READ COMMITTED: `SKIP LOCKED`
  and the row's recheck guard the row itself, not the rest of its run that the
  claim's subqueries read. As deployed one loop claims.
- Scheduled fires: `connector_fire_due` is one transaction over rows it locks; it
  moves `next_fire_at` on from now, so missed fires coalesce, and makes the enqueue
  that `Workflow` has as `Enqueue`.
- Refresh sessions: each rotation is one statement under a row lock, and a lost
  reply ends the family by design.
- Of the control plane: branch, restore and credential operations, one-time result
  secrets, notifications, usage, and the recorded readings besides the slots.
- `agent_idempotency_prune` (`0033`), which forgets keys after their records.
- Arguments that resolve from earlier results, response bodies, hashing,
  signatures, encryption, scopes, HTTP status codes beyond their verdict: data no
  property tells apart.
- Most lines of the repository are commands of one operator over Docker,
  PostgreSQL and files, and generators and validators of documents. They keep no
  state between calls that two actors share. `PROJECT.json` lists them as
  `not_modelled`, each with its reason.

## 6. Plan

What is left, in order:

1. `Saga`, an abstract specification of a run, and `Workflow` shown to implement it
   as `Outbox` implements `Promise`.
2. A claim split into snapshot and lock in `WorkflowRaces`.
3. `Operations`: result secrets, restore and branch operations.
4. `RefreshSessions` (one live token a family, revocation is final) and `Schedule`
   (composed with `Workflow`'s `Enqueue`).
