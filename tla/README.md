# LangRun (`agentcontrol`) in TLA+

`agentcontrol` governs the tool calls of a LangGraph agent. A middleware intercepts each call,
collects inline evidence, asks a policy (OPA), and allows, denies or *holds* the call for a
human review. A held call is an interrupt in the agent's checkpoint. It ends when somebody
resumes the thread with a decision, or when its window closes and the review watchdog resumes
it with a timeout. Every decision leaves a governance record.

These modules model that code (paths below are relative to `src/agentcontrol/`). The
configurations check them with TLC on small instances, and the proof modules prove what matters
most about them for every value of the constants.

| | |
|---|---|
| Model-check a run | `tlc -config Review.cfg MCGovernedCalls` (module of each run: see *Runs*) |
| Check the proofs | `tlapm GovernedCalls_proofs.tla`, and so for each module of theorems (see *Modules*) |
| Index | `PROJECT.json`: the components, runs, mutants, the source lines of each definition, findings, hazards, theorems |

## 1. The system

| Component | Code | State | Operations | Hard behaviours | What makes it correct |
|---|---|---|---|---|---|
| Review holds | `adapters/langgraph/middleware.py` | `_pending` (hold id → hold), the interrupts in LangGraph's checkpoint | `_decide`, `_recover_hold_from_state`, `_act`/`_aact`, `_run_review` | a task is executed again from its start at every resume; state is read, then used after other tasks, runs and the clock have moved; `_pending` may be gone | a held call runs only if its reviewer approved it, inside the window first shown; one deadline, one resolution, one pending record |
| Deadlines and decisions | `adapters/langgraph/review.py` | none | `build_hold`, `is_expired`, `resolve` | the falsy window, the boundary of expiry, unrecognised answers | expiry overrides every answer; only an approval approves |
| Review watchdog | `core/control_plane.py` | its task, the snapshot it scans | `_watchdog_loop`, `_resume_expired` | races the host's resume; resumes one thread at a time; knows a thread only by the hold id | every expired hold is denied while the process is up |
| Background loop | `middleware.py` `_BackgroundLoop` | the loop and its thread | `run`, `_ensure_loop`, `close` | callers and closers interleave between the lock and the submission | no loop leaks; each sync call gets its decision back |
| Interception | `middleware.py` `_govern`…`_aact` | the call in progress | evidence under a budget, authorization, capability check, the three verdicts | concurrent collectors against a timer; each step may fail | fail-closed unless configured; one truthful record |
| OPA provider | `providers/policy/opa.py`, `base.py` | the HTTP client | `authorize`, `aclose`, `health` | every malformed response | a failure is an unavailable result, never an ALLOW |
| Control plane | `core/control_plane.py` | agent, watchdog handle, providers | `attach`, `_start_watchdog`, `aclose` | event loops that end, agents that are rejected, closing during a resume, a step of closing that raises | what is held is watched; a closed plane is quiet and has lost no record |
| LangGraph adapter | `adapters/langgraph/adapter.py` | none | `validate` | a compiled graph that hides its `ToolNode` | a hold is never swallowed |
| Intents | `adapters/langgraph/intent.py`, `core/types.py` | none | `build_action_intent`, `ContextTrust.coerce`, `to_policy_input` | state before resolvers, resolvers that raise, a call that is built again from the start | no fallback is more permissive than what it replaces; an authorization can be repeated |
| Rego bundle | `policies/tool_authorization.rego` | none | `result` | two rules that apply at once | what it forbids never runs, whatever else happens |
| Recorder, trace export | `core/otel.py`, `providers/tracing/otlp.py` | the batch not yet exported | the records, `build_tracer` | replays; shutdown | a record explains its decision, and is not lost |
| Config, errors, attribute names | `core/config.py`, `core/errors.py`, `core/semconv.py` | – | – | – | see section 7 |

How they interact: the host builds an agent with the middleware in it and hands it to
`ControlPlane.attach`, which validates it through the adapter, binds it to the middleware (for
the recovery of holds) and starts the watchdog. LangGraph calls the middleware's hook around
each tool call, on threads when the host calls `invoke` and as tasks when it calls `ainvoke`;
a sync hook drives the async providers on the background loop. The hook suspends a call with
LangGraph's `interrupt()`. The host resumes with `Command(resume=...)`, and so does the
watchdog, through the same agent and with the timeout sentinel. They share `_pending` and
the checkpoint, and no lock covers both. LangGraph, asyncio, OPA, the host and the reviewer are
outside `src/`: they are modelled from how `src/` uses them, and marked external.

## 2. Modules

| Module | What it is |
|---|---|
| `ReviewHold` | `review.py` as operators: `BuildHold`, `IsExpired`, `ParseDecision`, `Resolve` |
| `HoldLifecycle` | abstract: what the review workflow promises of one call (opened once, a deadline that never changes, resolved once and in time, run at most once and only if approved) |
| `GovernedCalls` | concrete: the hook, the runs of the graph, the host, the reviewer and the watchdog; implements `HoldLifecycle` |
| `Interception` | one call from the hook to its record: evidence, OPA, capability, verdict |
| `Authorization` | one call from its intent to its record through the shipped bundle, authorized again when its review is answered |
| `BackgroundLoop` | `_BackgroundLoop` and the threads that use it |
| `ControlPlane` | `attach`, validation, the watchdog's task, the steps of `aclose`, the records' way out, the host's event loops |
| `MCGovernedCalls`, `MCInterception`, `MCAuthorization`, `MCControlPlane` | the values TLC gives to the constants (`BackgroundLoop` needs no such definitions) |
| `GovernedCalls_proofs`, `Deadlines_proofs`, `AuditTrail_proofs`, `Overlap_proofs`, `Interception_proofs`, `Authorization_proofs`, `BackgroundLoop_proofs`, `ControlPlane_proofs` | theorems and proofs |

The modules cut the system where its parts meet. `GovernedCalls` lets the policy answer anything
it is allowed to, at every authorization; `Interception` says which answers an exchange with OPA can
turn into, and `Authorization` which ones the shipped bundle gives and when a second authorization may
differ from the first. `GovernedCalls` has the watchdog as a process; `ControlPlane` says when
that process exists.

A definition whose name ends in a suffix after an underscore (`RecoverHold_Never`,
`Resolve_ApprovalFirst`, …) and whose comment says *Mutant* is not part of a specification. It is
the definition of the same name with a plausible bug. Put in its place, it makes TLC find the property
violated that `PROJECT.json` lists with it, so no property holds by the shape of the model.

### GovernedCalls and the code

| Variable | Code |
|---|---|
| `pending` | `_pending`, the middleware's table of holds, by hold id (`HoldId`: thread id and call id) |
| `interrupts`, `finished`, `turn` | the checkpoint of a thread: stored interrupts, finished tasks, the superstep |
| `running`, `resume`, `addressee`, `echo`, `task` | a run of the graph (`invoke`, or a resume): its thread, the resume value nobody has taken yet, whom it is for, the deadline of the hold that comes with it, and how far the hook of each of its tasks is |
| `snapshot` | `list(pending_holds().items())` in the watchdog's loop |
| `answer`, `unsent` | the reviewer's decision, and whether the host has still to send it |
| `records`, `executed` | the records of a call, and how often its tool ran |
| `promised`, `outcome` | history, for the properties only |

A task goes through `lookup` (`_pending`), `recover` (`get_state`), `authorize`, one of
`replayed`/`recovered`/`fresh` (the three ways into `_run_review`) and `allowed`/`approved` (the
tool is next). A step is the stretch between two accesses to shared state, so anything may
happen between the lookup, the query of the checkpoint, the authorization, the `interrupt()`
and the tool: a tick of the clock, another task, another run on the same thread, the watchdog.

Abstractions, and why the properties cannot tell:

- A hold is its deadline and the id it is filed under: the other fields of `ReviewHold` are shown to
  people. Two calls may share an id; of the calls with one id in the current turn of a thread, a
  query of the checkpoint may return the hold of any.
- A resume value is a decision, and optionally a hold: `middleware.py:437` resolves the answer against
  that one, whatever it is. Nothing ties it to the hold that waits, so the model takes it from `SentBack`.
- A run that was overtaken by another on its thread ends once its own tasks have: the branch of
  the conversation LangGraph would continue from the older checkpoint is left out.
- A resume of a thread that waits for nothing does nothing.
- The tool does not fail in `GovernedCalls`; it does in `Interception`, which has the records of both.
- Time is an integer that only `Tick` advances. All windows are a few ticks.

### The other modules and the code

- `Interception` follows `_govern`/`_agovern` in order. A collector is identified with its signal.
  An exchange with OPA is the record of what `authorize` looks at: transport, status class, body,
  `result`, decision, window. The deployment (fail mode, manifest, policy or none) is chosen in `Init`.
- `BackgroundLoop` has one action per stretch of `run` and `close` between the lock and the loop's
  own thread. A loop is `running`, `stopping` (`loop.stop()` is queued) or `stopped`. `Join` may come
  back before the thread has ended, as `join(timeout=2.0)` does.
- `Authorization` keeps the three fields of an intent that the bundle or the runtime acts on
  (`agent_id`, `resource`, `context_trust`) and the tool's name. Scores are in tenths. A call is
  executed again as LangGraph does it, with its hold in memory or without; the state and the tool
  come back as they were. Resolvers are called again at each execution, and answer anything or raise (`Supplied`). `strip().lower()` is the constant operator `Normal`.
- `ControlPlane` keeps an agent's one held call as a state (`none`, `waiting`, `settled`, or
  `refused`/`lost`/`raised`) whose window has already closed. `attach` with no policy configured
  governs nothing and is left out. The two records of that call are `none`, `batched`, `exported`
  or `lost`.

## 3. Constants that stand for choices

| Constant | Meaning | In the passing runs |
|---|---|---|
| `Overlap` | the watchdog's run and the host's may be on one thread at the same time. Nothing in the code forbids it (`control_plane.py:190`) | `FALSE` in `Review`, `TRUE` in `Watchdog` |
| `ResumeById` | the host addresses its resume to an interrupt id, or resumes the thread | `TRUE` |
| `RefusesAmbiguous` | LangGraph refuses one resume value for several interrupts | `TRUE` |
| `CallId` | the ids the provider of the model gives to calls | two turns give the same id in `Review` |
| `SentBack` | the deadlines of the holds a host may send with a decision; none (`None`) is the value `contracts/python-api.md:95` documents | `{None}` in `Review`; in `Watchdog` none, one past from the start and one beyond the end |
| `StateQueryMayFail` | `aget_state` may raise (swallowed, `middleware.py:232`) | `TRUE` in `Watchdog` |
| `AttachesEarly`, `ClosesFirst` | the host may attach before its event loop runs; it closes before the loop ends | `FALSE`, `TRUE` |
| `Checkpointed`, `Swallowing`, `Opaque` | agents with a checkpointer; with a `ToolNode` that turns exceptions into tool errors; whose `ToolNode` validation cannot find | all kinds but `Opaque` |
| `OwnsTracer`, `Exports`, `CloseMayFail` | the tracer provider is the control plane's own and has an exporter; the policy's `aclose` may raise | `TRUE` |
| `Supplies` | what each resolver may supply, at each execution; `None` when there is none, it raises or it has nothing | agents, resources and trusts the bundle tells apart, in `Authorize` |
| `FailMode`, `Destructive` | `policy.fail_mode`; the tools the deployment calls destructive | `"closed"`; the one the bundle names |
| `MaxLosses`, `Horizon`, `MaxCalls`, `MaxCloses`, `MaxAttaches`, `MaxLoops` | bounds: losses of `_pending`, last instant, calls of `run()`, of `close()`, of `attach()`, event loops | see *Runs* |

## 4. Runs

Passing runs:

| Run | Module | What it shows |
|---|---|---|
| `Review` | `MCGovernedCalls` | Two calls held side by side and a third, with the id of one of them, that the policy allows or denies in the next turn; any answer or none, at any time; one loss of `_pending`; a watchdog whose runs do not overlap the host's. Held calls run only if approved (`HeldRunsOnlyIfApproved`), in the window first shown (`ApprovesInWindow`), with one deadline wherever it is kept (`DeadlineIsDurable`), one resolution (`ResolvedAtMostOnce`), one pending record and marked replays (`OnePendingRecord`), and a trail whose one verdict tells whether the tool ran (`TrailTellsWhatRan`); between runs what waits is shown by the checkpoint and listed in `_pending`, and nothing else is (`WaitingHoldsAreTracked`); a rejection is the reviewer's (`RejectionsAreReviewers`); a hold is not passed on with a reused id (`HoldsAreOwn`); and the whole implements `HoldLifecycle` (`ImplementsLifecycle`). |
| `Watchdog` | `MCGovernedCalls` | Two threads, overlapping runs, state queries that may fail, decisions that come with any hold or none. Even so an approval is only carried to, and acted on for, the call it was given for (`ApprovalInv`, which where everything is reviewed says more than `HeldRunsOnlyIfApproved`), a hold's trail has one unmarked pending record (`OnePendingRecord`), the races leave no hold that cannot be found and no entry without one (`WaitingHoldsAreTracked`), and each expired hold is settled whether or not the host comes back (`EveryHoldIsSettled`). That approvals count only in their window is not among them: see section 5. |
| `Intercept` | `MCInterception` | Three collectors, each of the 360 shapes the exchange with OPA can have, both fail modes, three manifests, with or without a policy. The tool runs only on an allow or a configured fail-open (`ToolRunsOnlyIfAllowed`); an outage is told from a denial (`OutagesAreLabelled`); the policy sees only signals that were collected (`SignalsAreCollected`); one record per decision (`DecisionsAreRecorded`); a silent collector stalls nothing (`EveryCallEnds`). |
| `Authorize` | `MCAuthorization` | Four tools, 16 states of the agent, resolvers that answer anything or raise at each execution, up to two signals of three kinds, outages, and a hold kept or lost. The bundle's destructive tool never runs (`DestructiveNeverRuns`), nor a tainted call in an untrusted context (`TaintedNeverRuns`); a reviewed call runs unapproved only when the resource it names has changed, and the records show both (`TrailShowsEscapes`); a record names everything its decision depends on (`RecordsExplain`). |
| `Loop` | `BackgroundLoop` | Two callers, two closers: no leaked loop (`RunningLoopIsOwned`), no call is given a loop that is already being stopped (`CurrentLoopRuns`), and a call returns unless its loop is stopped (`UnstoppedCallsReturn`). |
| `Lifecycle` | `MCControlPlane` | Two sound agents, one without a checkpointer and one whose `ToolNode` swallows exceptions, attached in any order, closed and attached again over two event loops; any step of closing the policy may raise. No hold is lost (`HoldsAreNeverLost`), a closing plane resumes nothing (`ClosedMeansQuiet`), no record is lost before an `aclose` has returned (`RecordsOutliveClosing`), `aclose` returns whatever the watchdog is doing (`AcloseReturns`), the agent attached last is watched (`LastAttachedIsWatched`). |

The bounds. Two calls in one turn are what it takes for two interrupts, two tasks of one run and a
sibling's answer; the third, in the next turn, is what it takes for a superstep to be left behind.
A window of 1 (the policy's) and one of 2 (the default, since the policy's 0 is falsy) with a
horizon past both make each side of each deadline and each order of the two expiries reachable. One loss of
`_pending` before, between or after the suspensions covers replay, recovery and fresh review. The host
has one invocation at a time, since a second one of the host's own would be its own mistake. Two callers and two
closers with four calls and two closes let a loop be made, taken, stopped and replaced while a
call is anywhere in `run`. Three attaches and two loops let each agent be attached, rejected,
closed on and attached again, on a later loop. Two signals are what it takes for one to overwrite
another of the same name, on either side of the threshold.

Deadlock checking is off in every run, as each system really stops: calls end, conversations come
to their end, bounds are used up.

Fairness. The runs with liveness assume weak fairness of what the process does itself: each task
of a run and the run (threads or event-loop tasks that are ready), the watchdog's loop, the
passing of time, the callbacks of an event loop (strong fairness for the poll of each agent's hold: a
poll goes through all of them, so one that waits again and again is reached), the caller and closer that is inside `run` or
`close`, the hook with its timer. Nothing is assumed of the host, the reviewer, the collectors, or
that anything is ever attached, called or closed. That tools end is part of the assumption in
`Watchdog`: the watchdog awaits each run it starts, without a timeout (`control_plane.py:190`).

## 5. What the runs found

Each of these runs checks one statement of the repository's own documents, and TLC finds it
violated by what the code does. The quotations are in `PROJECT.json`.

| Run | Statement | What happens |
|---|---|---|
| `LateApprovalRace` (`ApprovesInWindow`) | `docs/review-holds.md:23` | The host resumes with a late approval while the watchdog settles the hold. The host's task finds neither the pending entry nor (in the later checkpoint) the interrupt, opens a new window, and takes the approval. |
| `ResumeByThread` (`HeldRunsOnlyIfApproved`) | FR-018, and the way to answer in `contracts/python-api.md:95` | The decision names no hold. If the watchdog has settled the hold it was meant for and the thread waits on the next one, it approves that one. |
| `SegmentedThreadId` (`EveryHoldIsSettled`) | SC-006 | `hold_id.split(":", 1)[0]` is not the thread id when the thread id has a colon in it; the hold is never settled. |
| `LoopHangs` (`EveryCallReturns`) | FR-008, `middleware.py:64` | `close()` between a caller's `_ensure_loop` and its submission leaves `future.result()` waiting on a stopped loop for ever. |
| `ReviewUndeclared` (`ExpiredHoldsAreDenied`) | `docs/review-holds.md:24` | The watchdog needs `human_approval` declared; a hold needs only that the adapter provides it. With the default requirements a hold is never denied. |
| `Reauthorize` (`ReviewStands`) | `middleware.py:197` | Authorizing again is called safe since a policy is a function of its input, but the input is made anew. After `_pending` is lost and with the resource resolver failing or answering otherwise, the bundle no longer sees production and allows what it had sent to review: the tool runs, approved or not. |

Other behaviours are reached by giving a constant of a run another value, or by a stronger property. None is a
run of its own: most contradict a property here rather than a sentence of the repository, or repeat a finding above by another
way. The first three and the stale snapshot do contradict the repository's documents, and on their account the
runs and the theorems claim less than the documents do.

| Change | Property that then fails | Why |
|---|---|---|
| `LateApprovalRace`, `SentBack <- SomeDeadlines`, `Overlap = FALSE` | `ApprovesInWindow`, `ImplementsLifecycle` | `middleware.py:437` resolves an answer against any hold that comes with it, so a deadline beyond the hold's own lets a late approval count and one before it times a hold out in its window. `docs/review-holds.md:7` says that a resume payload cannot extend the deadline, and `tests/integration/test_review_restart.py:117-147` tests it, of `resolve()` alone: the caller has replaced the hold by then |
| `Intercept`, "a collector drops no signal but its own" | it | the budget is on the whole `gather` (`middleware.py:252-261`): one slow collector drops every signal, also those in time, where `middleware.py:243` says that a collector that times out drops its signal |
| `Intercept`, "a record carries the evidence that was gathered" | it | the result of an outage is built without evidence (`base.py:43`), against FR-022 (`spec.md:136`: each record carries each evidence signal gathered) |
| `Review` with `EveryHoldIsSettled`, under `FairSpec` | `EveryHoldIsSettled` | both holds of a turn expire: the watchdog's resume by thread is ambiguous and refused, at every poll (`control_plane.py:187-190`) |
| `Review`, `RefusesAmbiguous = FALSE` | `RejectionsAreReviewers` | the sentinel for the expired hold is taken by its sibling, whose window is open: a rejection nobody gave |
| `LateApprovalRace` with `Calls = {a, b, d}`, `Crossed`, `CrossedTurns`, `CrossedWindows`, `Overlap = FALSE` | `RejectionsAreReviewers` | the snapshot is stale: the watchdog awaits a whole run between two entries (`control_plane.py:177-181`); while it settles a hold of another thread, the host settles this one's, and the next hold of the thread takes the sentinel of the old entry. Nobody answered it and its window is open, yet it is recorded as rejected, against FR-017 (`spec.md:128`: timeouts are recorded distinctly from human rejections) |
| `LateApprovalRace` | `ResolvedAtMostOnce` | the same race resolves the hold twice |
| `Watchdog`, `OneThread`, `Parallel`, `b` always allowed | "no tool runs twice" (`executed[c] <= 1`) | the watchdog's resume executes every unfinished call of the turn (`control_plane.py:190`), also one the host's run is executing: its tool runs in both |
| `Review`, `Overlap = TRUE` | `WaitingHoldsAreTracked` | the sentinel meets a sibling the host's first pass has authorized and not yet listed; it is settled, then listed, and the entry is resumed at every poll though its call has finished |
| `Review`, `Overlap = TRUE` | `OnePendingRecord` | the same sibling, settled before any pass has recorded it as pending |
| `Review`, `Turn <- Parallel`, `CallId <- MissingIds` | `HoldsAreOwn` | without ids (`types.py:168` puts `-`), calls of one turn share an entry: one that the policy would settle is held with its sibling's deadline |
| `Review`, no watchdog, `StateQueryMayFail = TRUE` | `ApprovesInWindow` | a query that fails looks like "no hold", and a new window is opened |
| `Review`, policy `FailOpen` | `HeldRunsOnlyIfApproved` | after `_pending` is lost the call is authorized again; an outage under fail-open then allows a held call |
| `Intercept`, "`authorize` never raises" (`opa.py:55`) | it | a decision that is a JSON array or object cannot be hashed: `opa.py:87` raises `TypeError` |
| `Authorize`, `Destructive <- ExampleDestructive` | `DestructiveNeverRuns` | the repository's example calls its tool `delete_repository` (`examples/governed_agent.py`), and the bundle's rule names another one |
| `Authorize`, `FailMode = "open"` | `DestructiveNeverRuns`, `TaintedNeverRuns` | two deny rules that apply at once make OPA answer an error, which fail-open turns into an allow |
| `Authorize`, `RecordsExplain` also of kept results | it | the trust in the record is that of the second execution, the decision that of the first |
| `Authorize`, `TaintedNeverRuns` with "some score" for "every score" | it | of two scores of one name the last one is what the policy sees (`types.py:178`) |
| `Lifecycle`, records after an attach that follows an `aclose` | `RecordsOutliveClosing` without `completed` | the tracer provider stays shut down: what a reattached plane records is dropped |
| `Lifecycle`, `AttachesEarly = TRUE` | `LastAttachedIsWatched` | no loop at `attach`, no watchdog, no error |
| `Lifecycle`, `ClosesFirst = FALSE` | `LastAttachedIsWatched` | a watchdog that ended with its loop leaves its handle set: the next `attach` starts none |
| `Lifecycle` with `ExpiredHoldsAreDenied` | `ExpiredHoldsAreDenied` | `attach` sets `_agent` before it validates: a rejected agent takes over the watchdog |
| `Lifecycle`, `Opaque = {s}`, or `Required <- Default` | `HoldsAreNeverLost` | the error-handler check is skipped and the `ToolNode` swallows the interrupt |

## 6. What is proved

TLAPS checks every step; the theorems hold for all values of the constants that satisfy
`ConstantsAssumption` of the module, and the further assumptions named here. Each "gives" is
`Spec => []` of the property, which a run of section 4 also checks.

| Theorem | Further assumption | gives |
|---|---|---|
| `GovernedCalls_proofs!TypeCorrect` | – | `TypeOK` |
| `GovernedCalls_proofs!VerdictsHold` | `AnswersFindTheirHold`, `SharedIdsAreReviewed` | (`VerdictInv` and `Delivery`, which the next ones rest on) |
| `GovernedCalls_proofs!ApprovalsHold` | `ResumesById`, `SharedIdsAreReviewed` | `ApprovalInv` |
| `GovernedCalls_proofs!HeldCallsNeedApproval` | `AnswersFindTheirHold`, `SharedIdsAreReviewed`, `PolicyIsSteady` | `HeldRunsOnlyIfApproved` |
| `Deadlines_proofs!RunsAreScheduled` | `RunsDoNotOverlap` | (`Scheduling`, an invariant the next ones rest on) |
| `Deadlines_proofs!DeadlinesAreDurable`, `NoHoldIsInherited` | `RunsDoNotOverlap`, `QueriesSucceed`, `IdsDifferInTurn` | `DeadlineIsDurable`, `HoldsAreOwn` |
| `Deadlines_proofs!ApprovalsAreInWindow` | also `DecisionsComeAlone` | the step property `ApprovesInWindow` |
| `Deadlines_proofs!WorkflowImplementsLifecycle` | also `DecisionsComeAlone`, `PolicyIsSteady` | `ImplementsLifecycle`, the refinement of `HoldLifecycle` |
| `Deadlines_proofs!HoldsAreTracked` | `RunsDoNotOverlap`, `IdsDifferInTurn` | `WaitingHoldsAreTracked` |
| `AuditTrail_proofs!TrailsTellWhatRan`, `ResolvedOnce` | `RunsDoNotOverlap` | `TrailTellsWhatRan`, `ResolvedAtMostOnce` |
| `AuditTrail_proofs!HoldsOpenTheirTrail` | `RunsDoNotOverlap`, `QueriesSucceed`, `IdsDifferInTurn` | `OnePendingRecord` |
| `AuditTrail_proofs!RejectionsWithoutWatchdog` | no watchdog, `AnswersFindTheirHold`, `SharedIdsAreReviewed` | `RejectionsAreReviewers` |
| `Overlap_proofs!RacesAreKnown` | `OneCallATurn` | (`Racing`, an invariant the next ones rest on) |
| `Overlap_proofs!OverlappingHoldsOpenTheirTrail` | `OneCallATurn`, `IdsAreOwn` | `OnePendingRecord` |
| `Overlap_proofs!OverlappingHoldsAreTracked` | `OneCallATurn`, `IdsAreOwn` | `WaitingHoldsAreTracked` |
| `Interception_proofs!TypeCorrect` … `EvidenceIsCollected` | – | each invariant of `Intercept` |
| `ControlPlane_proofs!TypeCorrect`, `ClosingIsQuiet`, `RecordsOutlive` | – | `TypeOK`, `ClosedMeansQuiet`, `RecordsOutliveClosing` |
| `ControlPlane_proofs!HoldsAreKept` | `human_approval` is required, there is an adapter, validation finds every `ToolNode` that swallows | `HoldsAreNeverLost` |
| `Authorization_proofs!TypeCorrect`, `RecordsAreExplained` | – | `TypeOK`, `RecordsExplain` |
| `Authorization_proofs!DestructiveToolsNeverRun` | fail-closed, the deployment's destructive tools are the bundle's | `DestructiveNeverRuns` |
| `Authorization_proofs!EscapesAreShown` | fail-closed | `TrailShowsEscapes` |
| `Authorization_proofs!TaintedCallsNeverRun` | fail-closed | `TaintedNeverRuns` |
| `BackgroundLoop_proofs!TypeCorrect`, `NoLoopIsLeaked`, `CallsGetARunningLoop` | – | `TypeOK`, `RunningLoopIsOwned`, `CurrentLoopRuns` |

**Held calls need approval.** `HeldRunsOnlyIfApproved` is not inductive: a state may have a run
that carries an approval nobody gave, one step away from acting on it. Two invariants close the gap.
`Delivery` is about answers on their way: a run's tasks are calls of its thread, what is answered was
shown, and an answer a run carries was given about a call of that thread, to which it is addressed
when the host resumes by id. `VerdictInv` is about reasons: only a REVIEW makes a hold, in a task or in
`_pending` (`HeldByReview`); a task stands where it does because of the policy's verdict or the
reviewer's approval (`TasksByVerdict`); and so does a tool that has run (`ExecutedByVerdict`). The
step that matters is `ResolveHold`, and `AnswersReachTheirHold` is the lemma for it: an answer that
`interrupt()` returns to a task was given about that task's call. It needs `AnswersFindTheirHold`: the host
resumes by interrupt id, or no other call of the thread may be held, so that a resume by thread finds the one it is
meant for. This assumption and `PolicyIsSteady` are two obligations of a deployment, and
`ResumeByThread` and the fail-open variant above show that each is needed; `SharedIdsAreReviewed`
says that calls with one hold id are subject to one answer of the policy. Nothing is assumed of
overlapping runs, losses, failing queries, timing or the number of calls: *the race of
`LateApprovalRace` can breach the window, but it can never run what nobody approved.*

**Interception.** The invariant is `Progress`: at each stage of the hook, what has been
determined (the evidence, the exchange, the result as a function of them, how many records and
executions there are) and what has not. `VerdictSound` is the lemma the safety of fail-closed rests on: over all shapes of
an exchange, the verdict is the policy's when it said something usable, and the fail mode's when not.

**Control plane.** `ClosedMeansQuiet` needs that a watchdog which is alive has its handle set
(only `EndLoop` and `WatchdogCancelled` end it, only `StartWatchdog` starts it). For the records,
a tracer provider that is shut has an `aclose` behind it that returned.

**Authorization.** `Consistent` relates the result a call goes by to the intent and evidence it was
decided on, in this execution or in the one that was held; `EvaluateSound` says what the bundle answers
when a rule fires, conflicts included. A held result keeps its verdict; a
re-authorized one is equal to the first in all the bundle looks at, except for what resolvers
supply. That is the one way past a review, and `Reauthorize` takes it. `EscapesAreShown` says that there is no other: by induction a reviewed
call has the record of its review, of the production resource, and what runs it unapproved is the default rule, whose record names
another resource, since nothing fail-closed but that rule allows.
That the last signal of a name is the one that stays (`Greatest`, from the well-foundedness of `<` on the
indices) is what makes "every score over the threshold" sufficient.

**Background loop.** The invariant adds to the two properties that a taken loop exists
(`TakenLoopsExist`): without it a loop made later could be one a closer already holds. That a fresh
loop number is always left is part of `TypeCorrect`'s argument, from the bound on closes.

**Deadlines, and the life of a hold.** The argument has two inductive invariants. `Scheduling` is about
runs: at most one on a thread, its tasks are the calls of the thread's current turn, and each of them is idle or
done exactly when the call has finished; earlier turns are complete and later ones untouched. It needs only
`RunsDoNotOverlap`, and gives that a task that is not idle is the only one of its call (`TasksAreAlone`).
`Holding` is about what a hold's deadline is where: the task, the pending table, the checkpoint and the
resume values each know the promised one or none, and a call that waits with no run on its thread has been
promised one. It is proved one step at a time: a step of the hook has to leave right only its own call
(`LeavesRight`; `TaskFrame` and `TaskStepLeaves` do the rest), and the five actions that start or end a run share
`StartHolding`. The steps that matter are `LookupPending`, where an entry under a shared id has to be
this call's (`CurrentIsOne`: ids repeat only in different turns, and a finished call leaves no entry);
`RecoverHold`, where a failed query would open the hold anew; and `ResolveHold`, where a resume value means that
the hold was promised. Where approvals count, `NothingIsSentBack` adds that the deadline an answer is resolved against is
the one the task has found. Each assumption is one of those steps: `RunsDoNotOverlap` fails in
`LateApprovalRace`, a query that fails gives a re-executed task a second deadline, `DecisionsComeAlone` is the
documented resume value, without which `middleware.py:437` resolves against another hold, and `IdsDifferInTurn` that a provider repeats ids across turns only.
Nothing is assumed of losses, of windows (negative ones included), of how many calls share a turn, or of
what the reviewer answers. For the refinement, `HoldLifecycle!Open` is the first `Suspend`, `Settle` is
`ResolveHold`, `RunTool` is `ExecuteTool`, `Advance` is `Tick`, and every other step is a stutter.

**The audit trail.** `TellsWhatRan` is inductive relative to `Scheduling` alone: a call that has not finished has no
verdict in its trail and has not run, and every step that finishes a call emits the one verdict and, for
`allow` and `approved` only, runs the tool (`TaskTells`). That a task at work is the only one of its call is
what keeps a second one from finishing it again; so `ResolvedOnce` follows, the approvals still to be executed included,
and both hold whatever is lost, fails or is answered. For the first record of a hold `OpensItsTrail` says that a call has a
pending record that is no replay exactly when its hold was promised, and `Holding` that a task is `fresh` only before
that. The lemmas about `Emit` (`EmitAppends`, `EmitTells`, `EmitAfterHold`, `EmitBesideHold`) state once what appending
to a trail does to the records of a kind.

**Whose rejections.** A recorded rejection resolved a window that was open, with a value that is no approval
(`RejectedIsInTime`); the question is whether the value was the reviewer's. Without a watchdog every value is an answer, and
`AnswersReachTheirHold` settles it, overlapping runs included. With one it is not so: a sentinel from a stale snapshot passes for
a rejection (section 5).

**When runs overlap.** Nothing in the code keeps the watchdog's run and the host's apart, so `Scheduling` is more than can be
counted on. Where the turns of a thread have one call each, `Racing` takes its place: a task of a call is its first pass,
which is alone with the call and has nothing to resume it with, or it carries an answer to a hold that was promised.
A second run can come to a call only by resuming what the call's first pass has put into the checkpoint
(`ResumeRacing`), and a run that begins a turn finds its call new (`TurnRacing`). For the
trail, `Freshness` adds that a first pass finds its hold nowhere, so it alone records it as pending, and a later
pass is never suspended again. `OneCallATurn` keeps it so that a resume has no bystanders, which are suspended again without an
answer; `IdsAreOwn` that no first pass finds the hold of another call. TLC checked these invariants on the constants of `Watchdog` before they
were proved.

**What waits is tracked.** The safety that `EveryHoldIsSettled` needs: a hold that is in no place the host or the watchdog looks at
will never be settled, and an entry without a hold is resumed at every poll. `Tracking` extends `WaitingHoldsAreTracked` to the
middle of runs, in two parts. `HoldsAreKept`: a hold that waits is listed, but for the moment between an approval and the tool.
`EntriesAreHolds`: an entry is that of a call which waits or is in review, the latter where a run is past the lookup
with the entry still there, since only another run can have put it back. `TrackingStep` proves both from what a step of the hook has to find
(`OwnsItsId`, `ShowsAlone`), `TrackedHoldsAreFound` reads the property off where no run is, and two theorems supply the
rest: `HoldsAreTracked` from `Scheduling`, and `OverlappingHoldsAreTracked` from `Racing` with `Advancing`, by which earlier
turns are over and a first pass is of a call that has not finished. Neither needs the checkpoint to answer: a query
that fails costs the deadline, not the hold. The variant of section 5 shows why `OneCallATurn` is there. TLC checked each part of `Tracking` on `Review`
and `Watchdog`, and on three calls with overlapping runs, a loss and failing queries.

Only model-checked: liveness (`EveryHoldIsSettled`, `EveryCallEnds`, `UnstoppedCallsReturn`,
`LastAttachedIsWatched`, `AcloseReturns`), out of this prover's reach; and `RejectionsAreReviewers` with a watchdog, in
`Review`: two calls held on one thread whose resume by thread the graph refuses.

## 7. Not modelled

- Config values that only tune (poll interval, budgets, timeouts): what their validation guarantees is assumed
  of the constants. `strict_policy_scan` and the analyzers are not used by the code yet. Errors and
  attribute names: classes and strings.
- What the OpenTelemetry SDK does with a record (batching, export, retries) is external; only whether it
  can leave the process is modelled. Latency, identifiers and the opt-in payload attributes are left out.
- The intent's `user_id`, `task`, `context_source`, `arguments`: resolved by the code that is modelled for the other
  fields; nothing in the runtime or the bundle branches on them.
- Cancelling `aclose()` itself, and a tool that hangs under the watchdog: listed as hazards.
- A crash of the process with an in-memory checkpointer loses everything and is no different from a new start.
  With a durable one it is `LosePending` between runs; a crash in the middle of a task is not modelled.
- Examples, tests, specifications: read for what the code promises.

## 8. Plan

1. `GovernedCalls`: the crash of a process in the middle of a run (a durable checkpointer keeps the
   writes of the tasks that had ended).
2. A composition of `ControlPlane` with `BackgroundLoop`: closing while sync calls are in flight.
3. Theorems: `RejectionsAreReviewers` for several holds in one turn, when the graph refuses a resume that is ambiguous and
   the host leaves the watchdog no time between two entries of its scan (the stale snapshot of section 5 is in the way
   otherwise). What overlapping runs do to several calls of a turn is in section 5; of what is proved, the need for an
   approval survives it.
