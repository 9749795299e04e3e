# Full Shelf: TLA+ models, checks and proofs

Full Shelf plans a food bank's operating day, repairs the plan when a truck fails,
and contains food-safety recalls. Agents propose; one private service, the plan
ledger, is the only writer of the authoritative Spanner tables; a human approves
repairs. A replay server shows a recorded day to an audience, and a gateway admits
judges to one live run at a time. This directory models that system, checks the
models with TLC and proves their main properties with TLAPS. Source paths below
start at `src/`; `DOMAIN` is `packages/domain/full_shelf_domain`.

1. The system: components, interactions, what is hard
2. Modules and how they correspond to the code
3. Runs, bounds, fairness
4. Proofs
5. Disagreements between documents and code
6. What the models leave out
7. Plan for the rest

`PROJECT.json` holds the same facts for tools: the lines every definition models,
the hazards with their lines, the runs, the mutants (a plausible bug for each
property, which the run must find) and the theorems.

## 1. The system

### 1.1 Components

| Component | State it keeps | Operations | What makes it correct |
|---|---|---|---|
| Plan ledger executor (`DOMAIN/ledger_executor.py`) | the authoritative tables: PlanRevisions, Orders, PlanConstraints, Approvals, Lots, Vehicles, CustodyNodes and Edges, Incidents, MovementBarriers, WorkItems, RecoveryAllocations and Shortfalls, PartnerEvidenceEvents, Coordinators, InboundEvents, Receipts | fourteen commands, each one serializable transaction that ends in a receipt | at most one effect per idempotency key; one active revision per plan; only approved diffs become orders; recalls are final; barred lots stay out; custody is confirmed once |
| Command contract (`DOMAIN/ledger_commands.py`, `partner_evidence.py`) | none | payload validation, roles, request fingerprint, evidence verification | an accepted payload is coherent |
| Recall lifecycle and approval hash (`DOMAIN/state_machines.py`, `kms.py`) | none (a KMS key) | status transitions, diff hash, sign, verify | no stage is skipped; nothing expired is signed or accepted |
| Human approval route (`apps/plan-ledger/src/main.py:202-340`, `apps/orchestrator/src/main.py:628-656`, `apps/web/src/data/ProjectionHttpDataSource.ts:22-79`) | none of its own: two ledger transactions per call | sign, verify, persist the approval, verify again, activate | what becomes active is what an operator asked for, in time, and he is told the truth |
| Managed recall (`apps/orchestrator/src/main.py:1480-2261`) | a saga per Pub/Sub delivery | read and gate, then from OPEN to PARTIALLY_CONTAINED through the ledger | nothing is written before the gate; a status never runs ahead of the facts; one saga per recall |
| Deadline task, escalation (`apps/orchestrator/src/main.py:1141-1477`, `DOMAIN/recall.py`) | the Cloud Tasks queue | schedule, callback, escalate | every hold is recorded and can be answered |
| Repair proposals, morning plan, next-day generation (`apps/orchestrator/src/main.py:1541-1707`, `2420-2960`) | none | derive from a snapshot, ask the fleet, submit, answer | what is derived is what the executor accepts, whatever committed in between; the answer agrees with the ledger |
| Partner evidence route (`apps/orchestrator/src/main.py`) | none | read the authority, let an agent read the text, submit | custody is confirmed only by matching evidence |
| Agent fleet (`DOMAIN/fleet/`) | one run | dispatch, timeout, validation, trace, assembly | fails closed; the evidence tells what happened; the run ends |
| Judge gateway (`apps/judge/src/main.py`) | sessions and one run lease, in memory | open, acquire, release, expire, restart | one run at a time, one login event per session |
| Replay session (`tools/replay/session.py`, `runtime_server.py`) | cursor, mode, gate and branch; SSE streams; autoplay threads | start, advance, pause, approve, branch, stream | nothing passes the human gate unapproved; nothing is shown early; a reader sees every frame once, in order |
| Replay registry (`tools/replay/public_server.py`, `session.py` SessionStore) | store, list of ids, closed sessions, under three locks | create, adopt, reset, retire | no session escapes retirement, none stays registered after it was closed |
| Authority scopes, identities, tracing, capacity helpers, web application, scripts | none that is authoritative | | |

### 1.2 How they interact

The browser calls the orchestrator, which forwards an approval to the ledger. The
orchestrator receives plans, next-day requests and recall notices from Pub/Sub and
deadline tasks from Cloud Tasks, all at least once, reads the authoritative tables,
asks the fleet for a proposal and sends commands to the ledger. The ledger runs
each command in one transaction. Reads outside the ledger are not in the transaction
that uses them, and a sequence of commands is not a transaction. The replay server
stands alone: it plays fixtures, and its only contact with the rest is that they show
the same day. The judge gateway sits before the orchestrator and forwards reads.

### 1.3 What is hard

* A **reply can be lost** after its transaction has committed; every caller retries,
  or does not. Keys, fingerprints and stored receipts decide what a second delivery
  does.
* **Sequences of transactions break off**: the approval route after its first of
  two, the recall saga after any of eight ledger calls and one task.
* **Actors race**: two operators, two recalls of one plan, a recall and an approval,
  a partner's callback and a deadline, two judges, a control and an autoplay thread.
* **Values go stale**: safe lots and whole snapshots read before the fleet runs,
  approvals that expire between two checks, a lease that expires under its holder,
  a mode that was looked at after the lock was released.
* **Agents fail**: they hang, answer out of scope or leave a specialist out.

`PROJECT.json` lists each place under `hazards`, with the properties that cover it
or the reason why none does.

## 2. Modules and how they correspond to the code

| Module | Models | Uses |
|---|---|---|
| `LedgerTypes` | the rows of the tables, the payload models with their validators, roles, the diff hash, request fingerprints | |
| `ExactlyOnce` | the abstract promise to a caller: a key gets at most one outcome, data change only with a first outcome, a denial changes no data | |
| `PlanLedger` | the executor: every command as one action, receipts, replays, collisions, denials, the clock | `LedgerTypes`, `ExactlyOnce` |
| `ApprovalRoute` | browser, approval route, execute route | `PlanLedger` |
| `ManagedRecall` | Pub/Sub handler for recalls, recall saga, deadline tasks, escalation | `PlanLedger` |
| `DayPlanning` | morning plan, next-day draft, repair proposal, waiting coordinator, partner evidence | `PlanLedger` |
| `AgentFleet` | one coordinator run of the fleet | |
| `JudgeGateway` | sessions, lease, login events | |
| `LogTail` | the abstract promise of an event stream: readers of a growing log | |
| `ReplaySession` | session, controls, autoplay threads, projection, streams | `LogTail` |
| `ReplayRegistry` | the store of sessions and its cap | |
| `MC...` | instances for TLC | the module they instantiate |
| `...Proofs` | theorems and proofs | the module they are about; `ApprovalRouteProofs`, `ManagedRecallProofs` and `DayPlanningProofs` also use `PlanLedgerProofs` |

### 2.1 The plan ledger

The variables are the tables, as sets of rows; `plans` is a sequence, because rows
of PlanRevisions are updated in place and the properties follow a row through its
life. `Commands` is the set of well-formed commands that callers may send; each has
`key`, `inc`, `role`, `type`, `exp` (the expected revision), `trace` and `body`.
`Execute(c)` is one call of the executor's `execute` (`ledger_executor.py:94-245`):
the receipt lookup, the collision check, the role gate, the revision gate, then the
body of the command type, with everything it writes, in one step: the transactions
are serializable. Guards that raise `ValueError` or `PermanentLedgerBusinessError`
abort the transaction and leave no trace: the action is not enabled. Guards that go
to `_deny` write a DENIED receipt and nothing else. `Answered(c)` is a call as its
caller sees it, a replay of the stored receipt included; `Succeeded(c)` reads the
status of that receipt.

* Payload lists are sets; a list with a repeated id is one the validators refuse.
* A hash is the tuple of what is hashed, and an id that is built from parts is their
  tuple or their concatenation: SHA-256 is taken to have no collisions.
* `now` counts the expiries that have passed; a tick is one of them. The instant
  itself counts as expired, as in the code.
* There is one authority tenant, so tenant columns and the scope's database choice
  are left out. `Today` is the operating day the tenant's scope admits.
* The custody graph of a lot is read as the nodes with an edge of that lot; the code
  walks the edges from the warehouse, at most eight hops.

### 2.2 The approval route

A press of the button (`Approve`) creates a request and a call in step SIGN. `Sign`
stands for signing and the first verification, `Persist` for the first transaction,
`VerifyAgain` for the second verification, `Activate` for the second transaction.
Between two steps anything may happen: other calls, agents on the execute route
(`ExecuteCommand`), the clock. `Fail` ends a call anywhere, with or without an
answer; `GiveUp` is the orchestrator's 15-second timeout or a broken connection: the
browser hears an error and the call goes on. Each press has its own trace, so two
presses with the same key are different requests to the ledger. The signature is
left out: PKCS#1 v1.5 makes it a function of the signed payload, so it adds nothing
to the request fingerprint, and its verification can fail only by expiry or by a
failure of KMS. Operators and agents have passed their identity checks, and the
execute route's trace check is taken to be satisfied.

### 2.3 The managed recall

`Deliver` accepts a notice for which a coordinator waits; the run reads its inputs
(`ReadInputs`, `ReadCustody`), may halt (`HaltForReview`, `HaltUnavailable`), and
then makes the calls of `NextStep` in order through `CallLedger`, with `LoseAnswer`
and `Fail` at every step. The candidates the fleet may choose from are the greedy
recoveries over any order of the orders and lots (`SetToSeqs`): the code sorts by
ids and offers two lot orders, all of which are among them. Every delivery has a
trace of its own. `tasks` keeps answered tasks, because Cloud Tasks keeps the names
of its tasks and refuses a second task with the same name. `AnswerTask` is a
callback whose 2xx reaches the queue, `LoseTaskAnswer` one whose answer is lost.
`Midnight` changes the operating day once. An escalation is modelled for a recall
and its own hold; other argument combinations of the route are left out.

### 2.4 The other handlers of the day

`DayPlanning` has one job per delivery of a request. Its steps are READ (the
snapshot, from which `Derive` computes the whole ledger command, or `Infeasible`
rejects), GATE (the fleet, or the evidence agent: `Pass` or `Stop`) and LEDGER
(`CallLedger`, `Refused` by an abort or a colliding key, `LoseAnswer`). The morning
plan has nothing to read and the coordinator's registration nobody to ask, so they
start later. The derivations are operators over the tables: `RepairDiff` and
`RepairProposal` for `_derive_repair_proposal`, `Schedule` for
`_candidate_assignments` (a recursive function on the sets of shortfalls: the last one
in the order largest first is placed after the others), `NextDayDraft`
for `_generate_next_day_plan`, `AuthorityExact` for the evidence route's reads.
`Answering` gives the disposition of each failure for each kind of request; RETRY is
a 5xx. The other callers (approval route, two recalls, deadline) are sequences of
ledger commands in `Traffic`, each made in its own order at any time: what they may
do is modelled in full in 2.2 and 2.3.

### 2.5 The agent fleet

A run walks the sequence of its trigger (`ORCHESTRATION_PATHS`). A hop is either
skipped, because an accepted lead did not ask for it (`Skip`), or dispatched; a
dispatched call gets its ids (`Begin`), then answers, fails or times out
(`CallFails`); an answer is accepted or rejected by its validator (`LeadValid`,
`ExtractionValid`, `CustodyValid`, `PlannerValid`). `Close` and `Assemble` end the
run, and `Abort` is the run's own timeout or an error outside the hops. What a
specialist may answer is a constant: any set of outputs its schema admits.

### 2.6 The judge gateway

All actions are calls under the gateway's one lock, except `LogLogin`, which the code
does after it has released it. `lease` is what the gateway keeps; `grants` are the
promises judges have been given and not given back, which no variable of the program
holds: `OneRunAtATime` is about them. `Restart` empties the memory of the process;
the tabs keep their cookies.

### 2.7 The replay

A method of a session holds its condition variable and is one action of
`ReplaySession`. An autoplay thread is four: it looks at the mode (`Look`), waits its
interval (`Wake`), steps (`Step`) and, if the step committed nothing, looks again
(`Check`). A stream copies a batch under the lock (`Fetch`) and sends it outside
frame by frame (`Send`); connections break at any point and resume with the id of
the last frame received. `FixtureFrom`, `HiddenBefore`, `AddedFrom` are the parts of
the day each fixture carries, the filter takes out and the enrichment puts in.
`Controls` chooses the operator's controls in use.

A request on the registry is a sequence of actions, one per critical section:
`Lookup`, `AdoptNew` or `AdoptTheirs`, `Remember`, then `RetireGet`, `RetireClose`,
`RetirePop` per victim; a reset is `ResetGet`, `ResetClose`, `ResetPop`,
`ResetCreate` and again `Remember`.

## 3. Runs, bounds, fairness

Every property of a passing run has a mutant in `PROJECT.json`: a definition of the
model changed as a plausible bug in the code would change it, for which TLC finds
the property violated under the same configuration.

| Run | What it shows |
|---|---|
| `plan_repair` | Two plans; two approvals of one source with different diffs and expiries; one approval that does not fit the truck; an activation that names the wrong plan; two invalidations. `OneActivePerPlan`, `RecalledPlanStaysDown`, `RetiredRevisionsAreFinal`: a revision's life. `RepairedAsApproved`: the orders of a repaired revision are the source's with one persisted approved diff. `ReroutesFit`: rerouted cases fit their truck though no command updates `current_load`. `ExactlyOnceCommands`: the refinement of `ExactlyOnce`. |
| `recall` | A recall from its opening to the next day's draft, every command in every order the guards allow, one from a role that may not send it. `BarredLotsStayRecalled`, `NothingNewFromABarredLot`: barred stock stays out. `CustodyConfirmedOnce`: work item, node and evidence move together, once. `HoldsHaveWork`: no hold without the work item that can answer it. `RecallNeverRegresses`: no stage is skipped or taken back. |
| `approval_route` | Two presses for competing diffs or for a further repair, a forged approval by an agent, recalls. `RepairsAreAsked`: a repaired revision is an operator's request. `ActivatedInTime`: while that request was alive. `AnswersAreTrue`: who is told APPROVED got his own diff, though both requests share key and approval id. |
| `managed_recall` | Two recalls of one plan, one of them published twice, an approval that activates around them, a change of day. `OneWriterPerRecall`; `StatusTellsTheTruth`: a status claims no more than was done; `ContainedLotsAreNotShipped`; `SafeStockPromisedOnce`: two recalls never promise the same cases; `RecoveryAccountsForEveryCase`; `DeadlineIsRecorded` (liveness): a partially contained recall gets its hold and work item. |
| `day_planning` | A morning plan and its correction, two vehicle faults, evidence, a next-day request, amid an approval and two recalls. `NothingGoesStaleUnseen`: what was derived from a snapshot is acceptable when the ledger is called - a legal payload that passes the revision gate, the handler's checks and the inserts - or what overtook it is a row on record; the repair of rev08, which is derived here after the activation and refused at all times, is excepted by name (`NeverTaken`). `CandidatesAreTruthful`: each shortfall is served once or reported short, and one reported short does not fit. `ProposalsDoNotCompete`: two faults never claim the same headroom. `AnswersAgreeWithLedger`: what is acknowledged is there. |
| `agent_fleet` | Every trigger with every specialist right, or wrong in one respect, failing, hanging or cut short. `ProposalsAreGrounded`: a proposal rests on deterministic evidence. `LeadGatesDispatch`. `TraceTellsTheRun`: the evidence is complete. `RunsEnd` (liveness). |
| `judge_gateway` | Two judges, one with two tabs, a clock and restarts. `OneRunAtATime`: two unexpired promises belong to one session. `OneLoginPerJudge`: one session per judge, its login logged once. |
| `replay_session` | The whole script under an autoplay thread, every control, an approval and a stream. `GateHeld`, `ModeTellsTheTruth`, `NothingFromTheFuture`; `StreamsFollowTheFeed`: the refinement of `LogTail`; `ReadersCatchUp` and `ApprovedDayPlaysOut` (liveness). |
| `replay_registry` | Three requests create, adopt, reset and retire at once. `EverySessionIsRemembered`, `ClosedSessionsLeave`; `StoreSettles` (liveness): the store comes back under its cap. |
| `stranded_recall`, `gate_survival`, `next_day_supply` | one violation each: section 5 |

**Bounds.** `Commands` (through the MC modules) bounds what callers send; each key
has one request unless a collision is wanted. `MaxNow` bounds the expiries that
pass: two in `plan_repair`, so that one of two approvals can be dead while the other
lives; two in `approval_route` with `Validity` 1, so that a request can die in the
middle of its call, and a second press can come after the death of the first.
`Attempts` has two members and `Traces` two: two presses, or two deliveries or
escalations, are what a race takes, and a third delivery meets the same receipts as
the second. Quantities are one to five cases, chosen so that two recalls need more
than the safe lots hold and a truck can be too full. `Midnight` comes once: the
fingerprint changes at most once between two deliveries that matter.

`day_planning` has seven requests, of which at most `MaxDeliveries` = 4 are
delivered in one behaviour and `MaxJobs` = 2 are at work at once: a race takes two
handlers, and a third and fourth delivery let one of them be repeated after the
race. Its quantities leave three agencies short, one by more than any lot or
vehicle can take. `agent_fleet` gives each validator its right answer and, for each
thing it checks, an answer wrong in that alone. `judge_gateway` has three tabs,
three session ids (two judges and a restart), leases of `Ttl` = 2 and `MaxNow` = 4:
two leases can follow one another. `replay_session` plays all twenty events from 5
to 25, with one thread, one reader, one approval and one branch: threads do not
share anything but the session, whose methods are atomic, and the proofs of section
4 cover any number. `replay_registry` has three requests, one stray id and a cap of
one: the smallest in which an id is adopted, reset and retired by three parties.

No symmetry is used. `CHECK_DEADLOCK FALSE` is set everywhere because the instances
run out of commands, of script or of requests.

**Fairness.** Each assumption is weak and about one actor.
`TaskFairness` (`ManagedRecall`): a task whose callback can succeed is answered in the
end. Cloud Tasks redelivers a task until it gets a 2xx; the queue's retry limits are
not in the repository, so this stands for an unlimited retry. Sagas get none: one
process may die at any step and nothing resumes it.
`ReplaySession`: a thread goes on, since its waits are timed
(`cond.wait(timeout=interval)`), and an open stream goes on; nothing makes an
operator act or a client reconnect.
`ReplayRegistry`: a handler that has begun runs to its end.
`AgentFleet`: a run goes on, since every call is under `asyncio.wait_for` and
everything else is straight-line code; a model that never answers has no fairness of
its own.

## 4. Proofs

TLAPS checks these for every value of the constants, that is for every set of
well-formed commands, any number of presses, deliveries, requests, recalls and
plans, of judges and tabs, of threads and readers, of requests on the registry and
any cap, and for any outputs of the agents.

| Theorem | States |
|---|---|
| `TypeCorrect` (`PlanLedgerProofs`) | `Spec => []TypeOK` |
| `OneActive`, `RecallIsFinal`, `RetiredForGood`, `SignedRepairs` (`PlanLedgerProofs`) | the four properties of a plan's life |
| `RepairsFitTheirVehicle` (`PlanLedgerProofs`) | `ReroutesFit`: load and rerouted cases stay within the capacity |
| `ImplementsExactlyOnce` (`PlanLedgerProofs`) | the executor implements `ExactlyOnce` |
| `BarredLotsAreRecalled`, `BarredLotsAreUntouched` (`PlanLedgerProofs`) | barred stock stays out |
| `ConfirmedOnce`, `EveryHoldIsAnswerable` (`PlanLedgerProofs`) | `CustodyConfirmedOnce`, `HoldsHaveWork` |
| `RecallsGoForward` (`PlanLedgerProofs`) | `RecallNeverRegresses` |
| `OldReceiptsAreTrue` (`PlanLedgerProofs`) | what a receipt of success says stays true, however late it is returned |
| `RouteUsesLedger`, `RecallUsesLedger`, `DayUsesLedger` (the three `...Proofs`) | the handlers implement the ledger's specification |
| `RepairsAreHuman`, `NoLateActivation`, `NobodyIsMisled` (`ApprovalRouteProofs`) | `RepairsAreAsked`, `ActivatedInTime`, `AnswersAreTrue` |
| `OneWriter`, `StatusIsTrue`, `ContainmentStopsShipping` (`ManagedRecallProofs`) | `OneWriterPerRecall`, `StatusTellsTheTruth`, `ContainedLotsAreNotShipped` |
| `StockIsPromisedOnce` (`ManagedRecallProofs`) | `SafeStockPromisedOnce`: no safe case is allocated twice |
| `EveryCaseIsAccounted` (`ManagedRecallProofs`) | `RecoveryAccountsForEveryCase`: allocations and shortfalls are what was owed |
| `ProposalsAreAlone`, `AnswersAreReliable` (`DayPlanningProofs`) | `ProposalsDoNotCompete`, `AnswersAgreeWithLedger` |
| `CandidatesTellTheTruth` (`DayPlanningProofs`) | `CandidatesAreTruthful`: a shortfall is served once or reported short, and then fits nowhere |
| `NothingStaleGoesUnseen` (`DayPlanningProofs`) | `NothingGoesStaleUnseen`: what was derived is acceptable, or what overtook it is on record, or it is one of two commands that the ledger takes at no time |
| `LeadGates`, `EvidenceTellsTheRun`, `ProposalsRestOnEvidence` (`AgentFleetProofs`) | `LeadGatesDispatch`, `TraceTellsTheRun`, `ProposalsAreGrounded` |
| `SessionTyped`, `GateHolds`, `ModeIsTrue`, `NothingEarly` (`ReplaySessionProofs`) | types; `GateHeld`; `ModeTellsTheTruth`; `NothingFromTheFuture` |
| `StreamsAreTails` (`ReplaySessionProofs`) | the streams implement `LogTail` |
| `RegistryTyped`, `NoneEscapes`, `ClosedOnesLeave` (`ReplayRegistryProofs`) | types; `EverySessionIsRemembered`; `ClosedSessionsLeave` |
| `GatewayTyped`, `OneRun`, `OneLogin` (`JudgeGatewayProofs`) | types; `OneRunAtATime`; `OneLoginPerJudge` |

`RouteUsesLedger`, `RecallUsesLedger` and `DayUsesLedger` are implementations in the
sense of step simulation: every step of browser, route, saga, queue or handler is a
step of `PlanLedger` or a stutter of its variables. So every theorem about the
ledger holds of all three.

**Assumptions on the constants**, which TLC evaluates in the runs. `LedgerCommands`:
a command is a member of its payload type, with the validators' conditions.
`NoneIsNoString`, `ClockBound`: the null value and the clock. `NoticesAndTraces`,
`ProposalsAndAttempts`, `DayConstants`, `FleetConstants`: the types of the constants
of the two routes, the day's handlers and the fleet. `NoneIsNothing`,
`RegistryConstants`, `GatewayConstants`: the null value and the bounds of replay and
gateway. `WrittenLiterals`, `ReasonsAreStrings`, `TaskNamesTell`, `ShortfallIdsTell`: facts
about strings that are true in TLA+ and named because the backends know of no literal
that it is a string, nor of a string that it is a sequence.

**Hypotheses of single theorems.** The executor relies on its callers in ways that
it does not check. What a theorem needs of them is a definition of its own, stands
in the theorem's `ASSUME`, and is evaluated by TLC in the run of that module.

| Hypothesis | Says | Why the code justifies it | Used by |
|---|---|---|---|
| `HoldIdsAreNew` | no hold has the id of a recall | `"HOLD-"` and a digest (`orchestrator main.py:2208`); the executor would replace the recall's row | `RecallsGoForward`, `NothingStaleGoesUnseen` |
| `SagaMovesStatus` | nobody else sends SET_INCIDENT_STATUS | `main.py:2173, 2183, 2218` are the only callers | `StatusIsTrue`, `ContainmentStopsShipping` |
| `OnePlanOfTheDay` | all morning plans are revisions of one plan | `PLAN-<day>` (`main.py:2435`); a second plan would be active beside the first (`ledger_executor.py:447`), see `hazards` | `ContainmentStopsShipping`, `StockIsPromisedOnce`, `EveryCaseIsAccounted`, `AnswersAreReliable`, `CandidatesTellTheTruth`, `NothingStaleGoesUnseen` |
| `NoRepairIsADraft` | no repair makes `rev01` | the approved transition is from rev07 to rev08 (`main.py:645`); a `rev01` that a repair made could lie beside a draft of that name | `EveryCaseIsAccounted` |
| `SagaRunsRecalls` | nobody else sends OPEN_RECALL_INCIDENT, INVALIDATE_PLAN or ALLOCATE_SAFE_STOCK | `main.py:2136, 2187, 2192` are the only callers, but for the qualification script `scripts/verify_wp2_isolated.py`, which has a database of its own; the executor adds up nothing before it allocates | `StockIsPromisedOnce` |
| `OnlyFaultsPropose` | nobody else sends PERSIST_REPAIR_PROPOSAL | `main.py:2541` is the only caller | `ProposalsAreAlone`, `NothingStaleGoesUnseen` |
| `IdsAreListed` | the ids of orders, vehicles, lots, shortfalls and agencies are in the list that gives the order of ids | the code sorts by id; `Ids` is that order | `ProposalsAreAlone`, `CandidatesTellTheTruth`, `NothingStaleGoesUnseen` |
| `MorningPlansAreRepairedOnce` | a plan is saved with no order REROUTED, and what is repaired is rev07 | only the activation writes that status (`ledger_executor.py:695`); `main.py:645` | `RepairsFitTheirVehicle` |
| `RepairsMakeRev08` | a repair makes rev08 of rev07 | `main.py:645` | `NothingStaleGoesUnseen` |
| `FaultEventsTell` | the id of a fault is of no other event | the event is the key (`main.py:2584`), and `InboundEvents` is keyed by it | `NothingStaleGoesUnseen` |
| `NextDayEventsTell` | the event of a next day is of no other command, and of its draft only | `"NEXTDAY-"` and a digest of day and plan (`main.py:2768-2777`) | `NothingStaleGoesUnseen` |
| `HoldIdsTell` | holds of one id are about one custody, and one site of an incident has one | the id is a digest of incident and site (`main.py:2205`) | `NothingStaleGoesUnseen` |
| `BarrierIdsTell` | barriers on one lot have one id | the id is a digest of the lot (`main.py:2177`) | `NothingStaleGoesUnseen` |
| `RecallsTakeRev08Down` | a recall invalidates rev08, and reports partial containment after it has | a coordinator waits at rev08 only (`main.py:405`), and its revision is the saga's (`main.py:1728, 2188`); the order of the saga's calls (`main.py:2187, 2218`) | `NothingStaleGoesUnseen` |
| `MorningKeysTell` | a morning plan's key is used for that plan only | the key is built from the plan's id (`main.py:1015`) | `AnswersAreReliable` |
| `GraphIsCounted` | positions are confirmed or unconfirmed or hold nothing | `DOMAIN/ledger_commands.py:72-73`, `apps/orchestrator/tests/test_managed_graph.py:25-28` | `ProposalsRestOnEvidence` |

**The inductive invariants.**

* *A plan's life.* `OneActivePerPlan` is not inductive: a save could bring in a
  second active revision of a plan that lives under another revision id, and an
  approval could revive a recalled one. `PlanLife` adds `ImportedFirst` (a revision
  that was ever in force has its plan's imported rev07, the only revision a save can
  insert) and `RecalledPlanStaysDown`. The steps go through lemmas that say what
  each command does to the sequence `plans` (`SaveAdds`, `DraftAdds`,
  `ActivateReplaces`, `InvalidateRecalls`).
* *Signed repairs.* `RepairedAsApproved` needs `OrdersHaveParent`: no order row
  exists for a revision that has none, or an activation could find strangers among
  the lines it writes.
* *Rerouted cases.* No command updates a vehicle's load, and a repair is checked against
  the load alone. `VehiclesInv`: vehicles are keyed and loaded within their capacity;
  `ReroutedInv`: a revision has at most one rerouted order, it fits beside the load, and
  a morning plan has none. The sum in `ReroutesFit` is then a sum of at most one term.
  For arbitrary commands the property is false: a line could be saved as REROUTED, or a
  repaired revision repaired again onto the same vehicle (`ledger_executor.py:660-671`).
* *Custody and holds.* `CustodyConfirmedOnce` relates three tables that three
  commands write. `CustodyLife` adds that work items and nodes are keyed by their
  ids, so that the row a command updates is the one the others meant, and
  `AppliedHasWork`: the work item of applied evidence is never removed or remade.
* *A recall's life.* `RecallNeverRegresses` is an action property; `RecallsAreInLife`
  carries that a recall's row has the terminal state of its status and was opened by
  a command with its id, which by `HoldIdsAreNew` is the id of no hold.
* *Receipts.* `Effect` states, per command type, what a success has left in the
  tables. `OldReceiptsAreTrue` is its invariance: each effect is preserved by every
  other command, most of them because rows are never deleted and a recall is final.
* *Exactly once.* The simulation needs no invariant: every action that adds a
  receipt found none for its key (`Decided`).
* *One writer.* `ReceiptsInv`: a key has one receipt, an incident has one successful
  opening, and its row stays. `RunsInv`: a run past the opening holds the receipt of
  the opening in its own trace. Two writers of one incident then have one receipt,
  hence one trace, and are one run (`OneOpenedIt`).
* *The operator's request.* `AskedInv`: every call in progress belongs to a
  submitted request, and every approval in the ledger has the content of one.
  `RepairsAreAsked` then follows from `SignedRepairs`; `ActivatedInTime` from the
  strengthened lemma `ActivationSigned`, which finds the approval alive at the
  activation. `AnswersAreTrue` needs `OldReceiptsAreTrue`: two presses share the key,
  so the receipt that answers one may be the other's, and what tells them apart is
  the hash in the fingerprint.
* *The recall's status.* The saga's calls are made in one order, but any may be
  lost or repeated. The invariant says of a run at each step which receipts it holds;
  the receipts say what is in the tables (`OldReceiptsAreTrue`), and `SagaMovesStatus`
  that a status has moved only through such a run. `ContainedLotsAreNotShipped`
  adds the one plan of the day: it was invalidated before, and for good.
* *The safe stock.* `SafeStockPromisedOnce` is about a sum, and about a race: two
  recalls may read the same safe lots before either allocates. `SagaInv` says why only
  one of them gets so far. `OpenersAreMutating`: a recall is opened by the run of its
  trace. `TakenDownOnce`: the plan of the day is invalidated by one receipt, and the
  runs past the invalidation are of its incident, so by `OneWriterPerRecall` there is
  one. `AllocatedOnce`: nothing is allocated before, and what is allocated is the
  recovery of such a run. `StockIsKeyed`: lots keep their id and their cases and rows are
  finite, so a recovery that fitted the lots when it was computed (`RecoveryFits`) fits
  them when it is written (`FitsKept`). That it fitted is `LotIsNotOverdrawn`: orders and
  lots are laid end to end, so what the first n orders draw from a lot is the part of
  the lot's interval below their sum. The sums rest on `CasesInWith`, `CasesInWithout`
  and `CasesInBoth`: the fold of the community modules is the one function with the
  recursive equation of a sum (`SumsAgree`, `SumsExist`), each by a smallest counterexample.
* *The accounts of a recovery.* `RecoveryAccountsForEveryCase` compares a recovery, which
  a run carries along, with the orders of its revision as they are now. `RunsAccount`
  adds that the revision is written (`RevisionKnown`), so its lines stay
  (`KnownLinesStay`). That the recovery balanced when it was made is arithmetic on the
  same intervals (`OrderBalances`), added up agency by agency (`AgencyBalances`) over
  rows that are all different. They are, because orders are keyed by plan and revision,
  today's revisions are of one plan (`DraftsAreRev01`: only a draft of the next day is
  rev01), ids come from saved plans (`OrdersAreSaved`), and a recovery whose allocation
  ids collide (`IdsCollide`) is no payload that the ledger can insert: the theorem does
  not speak of such a run, which fails at its recovery.
* *The day's handlers.* `PlanningInv`: the command of a job is the one its request
  derives from some earlier state (`JobsInv`, `FaultsFit`), and what was derived from
  a revision's orders stays true of them, because the lines of a revision are written
  with it and never again (`OrdersAreKeyed`). `ProposalsInv`: the key of a proposal
  settles its revision, so a second proposal for it can only be a replay.
  `AnsweringInv`: what an answer rests on, a receipt or the plan of the day, is never
  removed, and the first transaction of all saves a plan (`SavedFirst`), so a
  morning plan that collides collides with that plan. Both use `ReceiptsInv`.
* *The candidate of the next day.* `Schedule` is shown sound by a smallest
  counterexample among the subsets of the demand: each shortfall has one stop or none
  (`ServesAll`), what the lots and vehicles have left is what they had less what is placed
  (`Balanced`), and what could not be placed still cannot be (`NoneFits`), since `Place`
  only takes away. The truth is told about the tables as they are now: `CandidatesInv`
  adds that a draft follows the day's plan, so that no save writes a vehicle or a lot
  after it, and that lots only leave the safe set.
* *What goes stale.* `RecordInv` says what is on record when something derived can no
  longer be accepted. `RevisionsInv`: today's revisions are rev07 and its one repair
  rev08, and a draft's is rev01. A repair's event is taken only together with a proposal's
  receipt (`FaultsSettle`). A hold's id tells its custody, so that the custody is recorded
  once (`WorkIsRecorded`, `HoldStandsKept`), and it is still to be confirmed, or
  evidence that was applied confirmed it (`EvidenceIsRested`), while the recall
  never goes back (`RecallsAreInLife`). What a draft rests on stays as it was, but for lots
  that are barred (`DraftsStand`). The gate of a draft is passed because a recall that
  reports containment has taken rev08 down (`CallersTakeDown`, `ContainedWhenDown`), after
  which no plan of the day is in force again; its inserts, because its barriers, holds and
  orders have keys of their own (`DraftsAreAsked`, from `BarriersAreNamed` and
  `IncidentsInv`) and its event is taken only together with its plan (`NextDaySettles`).
* *The fleet.* What was accepted passed its validator at an earlier hop
  (`AcceptedAreValid`); as long as no specialist is left out, those asked are the hops
  passed (`NoneLeftOut`); so a run that ends without a failure and leaves nobody out
  has everybody's valid output (`ProposedByAll`). That confirmed and unconfirmed cases
  make the total of the graph (`CountsMakeTotal`) is a sum over its nodes, by a smallest
  counterexample again.
* *The replay session.* `NotBeforeItsEvent`: an approval is recorded only from the
  gate on, a branch opens only from event 22 on; without it neither the mode nor the
  projection can be shown true. For the streams, `StreamsBehind`: a reader is never
  ahead of its batch, nor a batch of the feed. A lost connection then loses nothing
  that the resumption does not copy again.
* *The registry.* `FreshInv`: a session object that is yet to be made is not stored,
  held or closed anywhere. `HomeInv`: a session is stored under one id, the one its
  closer has in hand. Without the first a new session could be born closed, without
  the second a closer would pop the wrong id. `StepHasEffect` says once, field by
  field, what each step of a request does; every part of the invariant is preserved
  by cases on it.
* *The gateway.* `OneRunAtATime` needs that every promise that still holds is the
  lease the gateway keeps, and expires no later; `OneLoginPerJudge` that an id is
  minted once and its event is due until it is logged, and then never again
  (`LoginOnce`).

**Only model-checked.** Every invariant that a passing run checks is stated by a
theorem. What only TLC checks is liveness (`DeadlineIsRecorded`, `ReadersCatchUp`,
`ApprovedDayPlaysOut`, `StoreSettles`, `RunsEnd`), since liveness under fairness, like
`ENABLED`, is out of the prover's reach, and the three disagreements of section 5. The
library's induction theorems take an operator as a parameter, which the provers cannot
instantiate; where an induction is needed (`LeastOf`, `SmallestSet`) the proofs take a
least counterexample. Operators declared `RECURSIVE` are out of reach too; the models
use recursive functions and folds instead.

## 5. Disagreements between documents and code

Three of them are runs that TLC must find violated; `PROJECT.json` quotes both sides.

| Run | What a document or comment says | What the code does |
|---|---|---|
| `stranded_recall` | transient failures remain retryable (`docs/adr/007:34-35`) | a saga that breaks off has consumed its coordinator: the redelivery is acknowledged as permanent |
| `gate_survival` | the autoplay thread survives the human gate (`tools/replay/runtime_server.py:52-54`) | it looks at the mode after it has released the lock; an approval in between makes it exit, and the approved session stands still |
| `next_day_supply` | nothing invents a case; unmet demand stays visibly short (`orchestrator main.py:2676-2680`) | the supply is every `CLEAR_SAFE` lot's total, also the cases that today's recovery has promised |

Others were met while modelling. The models contain the behaviour; no run is spent
on them.

* An approval must reproduce the proposal's hash (comment, `ledger_executor.py:1106`);
  the code compares it with the hash of its own diff (`:566`).
* Nothing is marked resolved while custody is unconfirmed (`docs/adr/005`); the
  executor accepts CONTAINED on the caller's count (`:1389`). The saga never sends it.
* "Nothing was committed." (`ProjectionHttpDataSource.ts:61-63`) is said of any broken
  connection, also after the commit.
* An unavailable read is to be a retryable 503 (comment, `orchestrator
  main.py:2008-2010`); it is a 200 whose body says 503. A fleet that times out over the
  next day's draft gives a 400, which the push handler acknowledges as permanent.
* A deadline redelivery returns the original receipt (`docs/adr/008:23-24`); after
  midnight the fingerprint differs and the key collides.
* The escalation's callback is recorded (`docs/adr/008:20-22`); its insert conflicts
  with the first deadline's work item on every retry.
* A repair's docstring (`main.py:2424-2427`) sends the remaining orders to partner
  pickup; the diff names one rerouted and one picked-up order, whatever else is
  stranded, and the failed vehicle stays `is_operational`.
* A redelivered fault is to report the same proposal (`main.py:2584-2586`); once the
  repair is active, the second derivation starts from another revision.
* Once rev08 is active, a vehicle fault still gets a repair proposal derived and the
  agents asked (`main.py:2447, 2549`): from rev08 to rev08, which the payload's own
  validator refuses always (`ledger_commands.py:157`). `NeverTaken` names the case.
* Two shortfalls of one agency make two `RECOVERY_PRIORITY` constraints with one primary key
  (`ledger_executor.py:1278-1304`), so that the insert fails and the next day is never
  drafted. `NeverTaken` names this case too; the shortfalls of `day_planning` are of three
  agencies, so only the theorem, not the run, speaks of it.
* The next day's expected revision is the literal `rev08`, which fits because a coordinator
  waits at no other (`main.py:405`); and duplicate evidence after
  APPLIED is answered 409.
* The custody validator compares the positions' sum, not the positions
  (`fleet/validation.py:110`).

## 6. What the models leave out

Text formats, JSON details, columns that no decision reads, logging, metrics and the
wording of errors. Identity tokens, signatures and authority scopes: every modelled
caller has passed them. The next-day replay comparison that tolerates drift
(`_next_day_draft_matches_authority`): it writes nothing, and in `DayPlanning` a
changed draft collides where the code could answer with a replay. The partner
communication agent of the fleet, which no trigger's sequence contains, and the
prompts and tool bodies of the others. Static files, and the reads the gateway
forwards. An approval of the replay whose binding does not match: it changes nothing.
Not modelled, because they keep no authoritative state: capacity and reconciliation
helpers (sums over rows), projections and the browser's presentation, observability,
and the one-shot scripts for deployment and qualification.

## 7. Plan for the rest

Done, in this order: the ledger and its types, because every other part acts through
it; the recall and the approval route; the replay with its streams and its registry;
the gateway; the fleet; the orchestrator's other handlers.

Instances to add: two orders of one agency in a recall (`IdsCollide`), two autoplay
threads, an escalation after a lost task.
