--------------------------- MODULE GovernedCalls ----------------------------
(***************************************************************************)
(* The governed life of tool calls: the middleware that authorizes each    *)
(* call and holds it for review, the watchdog that denies expired holds,   *)
(* the host that invokes and resumes the agent, and the parts of LangGraph *)
(* they act through (external: modelled from how src/ uses them).          *)
(*                                                                         *)
(* A thread of conversation runs its calls in turns.  The calls of a turn  *)
(* are tasks of one superstep.  A run (one invoke or one resume of the     *)
(* agent) executes the unfinished tasks of the thread's current superstep, *)
(* each from the start; a task whose interrupt() finds no resume value is  *)
(* suspended, and its hold is kept in the checkpoint.  When every task of  *)
(* the superstep has finished, the run goes on to the next turn.           *)
(*                                                                         *)
(* The steps of a task are the stretches of the hook between two accesses  *)
(* to what other tasks can see: the pending table, the checkpoint and the  *)
(* clock.  They interleave freely: a sync agent runs its tool calls on     *)
(* threads, and an async one can be suspended at every await of _decide    *)
(* and of the tool.                                                        *)
(***************************************************************************)
EXTENDS ReviewHold, Sequences, FiniteSets

CONSTANTS
  Calls,              \* tool calls
  Thread,             \* [Calls -> thread ids], a thread id being the sequence
                      \* of its ":"-separated segments
  CallId,             \* [Calls -> tool call ids], segmented like thread ids; a
                      \* provider may give one id twice, or none
  Turn,               \* [Calls -> Nat]: the superstep of its thread a call is in
  Hosts,              \* the host's invocations of the agent, at most one each at a time
  Watchdog,           \* the invocation the review watchdog makes
  PolicyVerdicts,     \* [Calls -> SUBSET Verdicts]: what the policy may answer, at
                      \* each authorization; a pure policy has one answer per call
  ReviewTimeout,      \* [Calls -> Int or None]: the window the policy returns
  DefaultTimeout,     \* review.default_timeout_seconds
  WatchdogEnabled,    \* review.watchdog_enabled, and a loop ran at attach()
  StateQueryMayFail,  \* aget_state() may raise
  ResumeById,         \* the host resumes by interrupt id, or by thread
  RefusesAmbiguous,   \* the graph refuses one resume value for several interrupts
  SentBack,           \* the deadlines of the holds a host may send along with a
                      \* decision; None is the documented value, a decision alone
  Overlap,            \* the watchdog's run may overlap the host's on a thread: the
                      \* code does not keep them apart, only timing can
  MaxLosses,          \* bound: times the pending table is lost
  Horizon             \* bound: the last instant of the clock

Threads == {Thread[c] : c \in Calls}

\* ActionIntent.hold_id: f"{thread_id}:{tool_call_id}".
HoldId(c) == Thread[c] \o CallId[c]
HoldIds == {HoldId(c) : c \in Calls}

Runs == Hosts \cup {Watchdog}
Verdicts == {"ALLOW", "DENY", "REVIEW"}

ASSUME ConstantsAssumption ==
  /\ Turn \in [Calls -> Nat \ {0}]
  /\ Thread \in [Calls -> Seq(STRING) \ {<<>>}]
  /\ CallId \in [Calls -> Seq(STRING) \ {<<>>}]
  /\ Watchdog \notin Hosts
  /\ PolicyVerdicts \in [Calls -> SUBSET Verdicts]
  /\ ReviewTimeout \in [Calls -> Int \cup {None}]
  /\ DefaultTimeout \in Nat \ {0}
  /\ WatchdogEnabled \in BOOLEAN
  /\ StateQueryMayFail \in BOOLEAN
  /\ ResumeById \in BOOLEAN /\ RefusesAmbiguous \in BOOLEAN
  /\ SentBack \subseteq Int \cup {None} /\ Overlap \in BOOLEAN
  /\ MaxLosses \in Nat
  /\ Horizon \in Nat
  /\ None \notin Int /\ None \notin Responses /\ None \notin Calls
  /\ None \notin Threads /\ None \notin ReviewStates

VARIABLES
  now,        \* the wall clock
  pending,    \* the middleware's _pending: [HoldIds -> deadline or None]
  interrupts, \* checkpoint: the hold each call's interrupt() stored
  finished,   \* checkpoint: calls whose task has returned a tool message
  turn,       \* checkpoint: [Threads -> current superstep], 0 before the first
  running,    \* [Runs -> the thread the run is on, or None]
  resume,     \* [Runs -> the resume value not yet taken by an interrupt()]
  addressee,  \* [Runs -> the call that value is for; None: the next interrupt()]
  echo,       \* [Runs -> the deadline in the hold that value brings along, or None]
  task,       \* [Runs -> [Calls -> progress of the hook]]
  snapshot,   \* the pending holds the watchdog's scan has still to look at
  answer,     \* what the reviewer answered about each hold, or None
  unsent,     \* answers the host has still to resume the agent with
  records,    \* governance records emitted, by call
  executed,   \* how many times the tool of each call has run
  losses,     \* how many times the pending table was lost
  promised,   \* history: the deadline in the first hold shown for the call
  outcome     \* history: the last state the call's hold was resolved to

graph == <<interrupts, finished, turn>>
hostVars == <<answer, unsent>>
history == <<promised, outcome>>
vars == <<now, pending, graph, running, resume, addressee, echo, task, snapshot,
          hostVars, records, executed, losses, history>>

Instants == 0..Horizon
Deadlines == Int
RecordKinds == {"pending", "allow", "deny"} \cup ReviewStates
Records == [kind : RecordKinds, replay : BOOLEAN]

(***************************************************************************)
(* Where a task is.  "replayed", "recovered" and "fresh" are the three     *)
(* cases of _run_review, about to call interrupt(); "allowed" and          *)
(* "approved" are about to run the tool.                                   *)
(***************************************************************************)
Ended == {"idle", "interrupted", "done"}
Reviewing == {"replayed", "recovered", "fresh"}
Locations == Ended \cup Reviewing
               \cup {"lookup", "recover", "authorize", "allowed", "approved"}
Tasks == [pc : Locations, hold : Deadlines \cup {None}, replay : BOOLEAN]

Task(pc, hold, replay) == [pc |-> pc, hold |-> hold, replay |-> replay]
Idle == Task("idle", None, FALSE)
Begin == Task("lookup", None, FALSE)

NoHolds == [h \in HoldIds |-> None]

Init ==
  /\ now = 0
  /\ pending = NoHolds
  /\ interrupts = [c \in Calls |-> None]
  /\ finished = {}
  /\ turn = [t \in Threads |-> 0]
  /\ running = [r \in Runs |-> None]
  /\ resume = [r \in Runs |-> None]
  /\ addressee = [r \in Runs |-> None]
  /\ echo = [r \in Runs |-> None]
  /\ task = [r \in Runs |-> [c \in Calls |-> Idle]]
  /\ snapshot = NoHolds
  /\ answer = [c \in Calls |-> None]
  /\ unsent = {}
  /\ records = [c \in Calls |-> <<>>]
  /\ executed = [c \in Calls |-> 0]
  /\ losses = 0
  /\ promised = [c \in Calls |-> None]
  /\ outcome = [c \in Calls |-> None]

-----------------------------------------------------------------------------
(* The checkpoint, as LangGraph shows it. *)

Current(c) == Turn[c] = turn[Thread[c]]

\* The tasks a run on thread t executes: LangGraph does not repeat finished ones.
Unfinished(t) == {c \in Calls : Thread[c] = t /\ Current(c) /\ c \notin finished}

\* The interrupts a client of thread t sees waiting for an answer.
Outstanding(t) == {c \in Unfinished(t) : interrupts[c] # None}

\* A resume value without an addressee is for the interrupt the thread waits on.
\* With several, it is refused or it is for the next one to be called.
TakesSingleResume(t) ==
  /\ t \in Threads
  /\ Outstanding(t) # {}
  /\ RefusesAmbiguous => Cardinality(Outstanding(t)) = 1

\* The runs that run r never shares a thread with.
Rivals(r) == IF ~Overlap THEN Runs ELSE IF r \in Hosts THEN Hosts ELSE {}
Free(r, t) == \A q \in Rivals(r) : running[q] # t

Start(r, t, tasks, value, to, hold) ==
  /\ running' = [running EXCEPT ![r] = t]
  /\ resume' = [resume EXCEPT ![r] = value]
  /\ addressee' = [addressee EXCEPT ![r] = to]
  /\ echo' = [echo EXCEPT ![r] = hold]
  /\ task' = [task EXCEPT ![r] = [c \in Calls |-> IF c \in tasks THEN Begin ELSE Idle]]

-----------------------------------------------------------------------------
(* One task: the hook around one tool call, in one run. *)

Goto(r, c, t) == task' = [task EXCEPT ![r][c] = t]
Emit(c, recs) == records' = [records EXCEPT ![c] = @ \o recs]
Record(kind, replay) == [kind |-> kind, replay |-> replay]

\* Mutants: a hold is not kept; a resolved hold is not dropped.
Remember_Nothing(c, hold) == UNCHANGED pending
Forget_Nothing(c) == UNCHANGED pending

Remember(c, hold) == pending' = [pending EXCEPT ![HoldId(c)] = hold]
Forget(c) == pending' = [pending EXCEPT ![HoldId(c)] = None]

\* The resume value interrupt() would return to this task, or None if it raises.
Response(r, c) == IF addressee[r] \in {None, c} THEN resume[r] ELSE None

\* _decide: a hold this process tracks is replayed without a new authorization.
LookupPending(r, c) ==
  /\ task[r][c].pc = "lookup"
  /\ LET hold == pending[HoldId(c)]
     IN Goto(r, c, IF hold # None THEN Task("replayed", hold, FALSE)
                                  ELSE Task("recover", None, FALSE))
  /\ UNCHANGED <<now, pending, graph, running, resume, addressee, echo, snapshot,
                 hostVars, records, executed, losses, history>>

\* Mutant: the checkpoint is not asked for the hold.
RecoverHold_Never(r, c) ==
  /\ task[r][c].pc = "recover"
  /\ Goto(r, c, Task("authorize", None, FALSE))
  /\ UNCHANGED <<now, pending, graph, running, resume, addressee, echo, snapshot,
                 hostVars, records, executed, losses, history>>

\* The holds with the id of call c in the checkpoint its thread is at now.
Recoverable(c) ==
  {interrupts[d] : d \in {e \in Calls : /\ Thread[e] = Thread[c] /\ Current(e)
                                         /\ HoldId(e) = HoldId(c)}} \ {None}

\* _recover_hold_from_state: the hold persisted for this call; None when there is
\* none, and when the query fails.
RecoverHold(r, c) ==
  /\ task[r][c].pc = "recover"
  /\ \/ \E hold \in Recoverable(c) : Goto(r, c, Task("authorize", hold, FALSE))
     \/ /\ Recoverable(c) = {} \/ StateQueryMayFail
        /\ Goto(r, c, Task("authorize", None, FALSE))
  /\ UNCHANGED <<now, pending, graph, running, resume, addressee, echo, snapshot,
                 hostVars, records, executed, losses, history>>

\* _decide with _act/_aact on an ALLOW: the tool is next.
AuthorizeAllow(r, c) ==
  /\ task[r][c].pc = "authorize"
  /\ "ALLOW" \in PolicyVerdicts[c]
  /\ Goto(r, c, Task("allowed", None, FALSE))
  /\ UNCHANGED <<now, pending, graph, running, resume, addressee, echo, snapshot,
                 hostVars, records, executed, losses, history>>

\* The same on a DENY: recorded, and the task returns the denial message.
AuthorizeDeny(r, c) ==
  /\ task[r][c].pc = "authorize"
  /\ "DENY" \in PolicyVerdicts[c]
  /\ Emit(c, <<Record("deny", FALSE)>>)
  /\ finished' = finished \cup {c}
  /\ Goto(r, c, Task("done", None, FALSE))
  /\ UNCHANGED <<now, pending, interrupts, turn, running, resume, addressee, echo, snapshot,
                 hostVars, executed, losses, history>>

\* The same on a REVIEW, up to the interrupt(): the hold found in the checkpoint,
\* else a new one with a new deadline, is remembered.
AuthorizeReview(r, c) ==
  LET found == task[r][c].hold
      hold == IF found # None THEN found
              ELSE BuildHold(ReviewTimeout[c], DefaultTimeout, now)
  IN /\ task[r][c].pc = "authorize"
     /\ "REVIEW" \in PolicyVerdicts[c]
     /\ Remember(c, hold)
     /\ Goto(r, c, Task(IF found # None THEN "recovered" ELSE "fresh", hold, FALSE))
     /\ UNCHANGED <<now, graph, running, resume, addressee, echo, snapshot,
                    hostVars, records, executed, losses, history>>

\* Mutants: every suspension is recorded; replays are not marked; an approval is
\* recorded when it is resolved and again when the tool runs; a timeout leaves no record.
SuspensionRecords_Always(pass) == <<Record("pending", FALSE)>>

ResolutionRecords_Unmarked(state, replay) ==
  (IF replay THEN <<Record("pending", FALSE)>> ELSE <<>>)
    \o (IF state = "approved" THEN <<>> ELSE <<Record(state, FALSE)>>)

ResolutionRecords_Approval(state, replay) ==
  (IF replay THEN <<Record("pending", TRUE)>> ELSE <<>>) \o <<Record(state, replay)>>

ResolutionRecords_Untimed(state, replay) ==
  (IF replay THEN <<Record("pending", TRUE)>> ELSE <<>>)
    \o (IF state = "rejected" THEN <<Record(state, replay)>> ELSE <<>>)

\* The records _run_review emits when interrupt() raises: only a first pass has one.
SuspensionRecords(pass) ==
  IF pass = "fresh" THEN <<Record("pending", FALSE)>> ELSE <<>>

\* And when it returns: the pending one again unless the hold was in memory, then the
\* resolution, which an approval leaves to the record of the tool's execution.
ResolutionRecords(state, replay) ==
  (IF replay THEN <<Record("pending", TRUE)>> ELSE <<>>)
    \o (IF state = "approved" THEN <<>> ELSE <<Record(state, replay)>>)

\* _run_review when interrupt() raises: the task is suspended and its hold is in the
\* checkpoint.
Suspend(r, c) ==
  /\ task[r][c].pc \in Reviewing
  /\ Response(r, c) = None
  /\ interrupts' = [interrupts EXCEPT ![c] = task[r][c].hold]
  /\ promised' = [promised EXCEPT ![c] = IF @ = None THEN task[r][c].hold ELSE @]
  /\ Emit(c, SuspensionRecords(task[r][c].pc))
  /\ Goto(r, c, Task("interrupted", None, FALSE))
  /\ UNCHANGED <<now, pending, finished, turn, running, resume, addressee, echo, snapshot,
                 hostVars, executed, losses, outcome>>

\* `ReviewHold.from_payload(response) or hold`: any hold in the answer goes before the
\* one the task knows, whichever call it is of and whatever its deadline is.
Persisted(r, c) == IF echo[r] # None THEN echo[r] ELSE task[r][c].hold

\* _run_review when interrupt() returns: the hold is resolved against the clock and
\* forgotten, and what is not an approval is denied.
ResolveHold(r, c) ==
  LET replay == task[r][c].pc # "replayed"
      state == Resolve(Persisted(r, c), Response(r, c), now)
  IN /\ task[r][c].pc \in Reviewing
     /\ Response(r, c) # None
     /\ resume' = [resume EXCEPT ![r] = None]
     /\ Forget(c)
     /\ outcome' = [outcome EXCEPT ![c] = state]
     /\ Emit(c, ResolutionRecords(state, replay))
     /\ \/ /\ state = "approved"
           /\ Goto(r, c, Task("approved", task[r][c].hold, replay))
           /\ UNCHANGED finished
        \/ /\ state # "approved"
           /\ Goto(r, c, Task("done", None, FALSE))
           /\ finished' = finished \cup {c}
     /\ UNCHANGED <<now, interrupts, turn, running, addressee, echo, snapshot,
                    hostVars, executed, losses, promised>>

\* The tool runs, inside the span that is its governance record, and its message
\* finishes the task.
ExecuteTool(r, c) ==
  LET at == task[r][c].pc
  IN /\ at \in {"allowed", "approved"}
     /\ executed' = [executed EXCEPT ![c] = @ + 1]
     /\ Emit(c, <<Record(IF at = "approved" THEN at ELSE "allow", task[r][c].replay)>>)
     /\ finished' = finished \cup {c}
     /\ Goto(r, c, Task("done", None, FALSE))
     /\ UNCHANGED <<now, pending, interrupts, turn, running, resume, addressee, echo, snapshot,
                    hostVars, losses, history>>

TaskStep(r, c) ==
  \/ LookupPending(r, c)
  \/ RecoverHold(r, c)
  \/ AuthorizeAllow(r, c)
  \/ AuthorizeDeny(r, c)
  \/ AuthorizeReview(r, c)
  \/ Suspend(r, c)
  \/ ResolveHold(r, c)
  \/ ExecuteTool(r, c)

-----------------------------------------------------------------------------
(* Runs of the agent graph (external). *)

TasksOf(r) == {c \in Calls : task[r][c].pc # "idle"}
TasksEnded(r) == \A c \in Calls : task[r][c].pc \in Ended
Interrupted(r) == \E c \in Calls : task[r][c].pc = "interrupted"
Stale(r) == \E c \in TasksOf(r) : ~Current(c)

\* Every task of the superstep has finished: the thread moves to its next turn and
\* the run goes on with the calls of that turn.
CommitSuperstep(r) ==
  LET t == running[r]
      next == {c \in Calls : Thread[c] = t /\ Turn[c] = turn[t] + 1}
  IN /\ t # None
     /\ TasksEnded(r) /\ TasksOf(r) # {} /\ ~Interrupted(r) /\ ~Stale(r)
     /\ turn' = [turn EXCEPT ![t] = @ + 1]
     /\ Start(r, t, next, None, None, None)
     /\ UNCHANGED <<now, pending, interrupts, finished, snapshot, hostVars, records,
                    executed, losses, history>>

\* The run returns to whoever started it: suspended, or with nothing left to do.  A
\* run overtaken by another one on its thread also ends here: the branch of the
\* conversation it would go on with is not modelled.
EndRun(r) ==
  /\ running[r] # None
  /\ TasksEnded(r)
  /\ TasksOf(r) = {} \/ Interrupted(r) \/ Stale(r)
  /\ Start(r, None, {}, None, None, None)
  /\ UNCHANGED <<now, pending, graph, snapshot, hostVars, records, executed, losses,
                 history>>

RunStep(r) == CommitSuperstep(r) \/ EndRun(r)

-----------------------------------------------------------------------------
(* The host and the reviewer (external). *)

Invoke(h, t) ==
  /\ running[h] = None /\ turn[t] = 0
  /\ turn' = [turn EXCEPT ![t] = 1]
  /\ Start(h, t, {c \in Calls : Thread[c] = t /\ Turn[c] = 1}, None, None, None)
  /\ UNCHANGED <<now, pending, interrupts, finished, snapshot, hostVars, records,
                 executed, losses, history>>

\* The reviewer answers, once, about a hold that is shown as waiting.
Decide(c, response) ==
  /\ c \in Outstanding(Thread[c])
  /\ answer[c] = None
  /\ answer' = [answer EXCEPT ![c] = response]
  /\ unsent' = unsent \cup {c}
  /\ UNCHANGED <<now, pending, graph, running, resume, addressee, echo, task, snapshot,
                 records, executed, losses, history>>

\* The host resumes the agent with an answer: for the interrupt the answer is about,
\* or for whatever the thread is waiting on.  It may send a hold back with it: nothing
\* ties that one to the hold that waits.
HostResume(h, c) ==
  LET t == Thread[c]
  IN /\ running[h] = None /\ Free(h, t)
     /\ c \in unsent
     /\ unsent' = unsent \ {c}
     /\ IF ResumeById THEN c \in Outstanding(t) ELSE TakesSingleResume(t)
     /\ \E hold \in SentBack :
          Start(h, t, Unfinished(t), answer[c], IF ResumeById THEN c ELSE None, hold)
     /\ UNCHANGED <<now, pending, graph, snapshot, answer, records, executed, losses,
                    history>>

\* The middleware's table is lost while the graph and its checkpointer live on.
LosePending ==
  /\ losses < MaxLosses
  /\ \A r \in Runs : running[r] = None
  /\ losses' = losses + 1
  /\ pending' = NoHolds
  /\ UNCHANGED <<now, graph, running, resume, addressee, echo, task, snapshot, hostVars,
                 records, executed, history>>

Tick ==
  /\ now < Horizon
  /\ now' = now + 1
  /\ UNCHANGED <<pending, graph, running, resume, addressee, echo, task, snapshot, hostVars,
                 records, executed, losses, history>>

-----------------------------------------------------------------------------
(* The review watchdog: _watchdog_loop and _resume_expired. *)

\* hold_id.split(":", 1)[0]: the first segment of the hold id.
HoldThread(id) == <<Head(id)>>

\* The holds still to look at: a new snapshot of the table once the last is used up.
ToScan == IF snapshot = NoHolds THEN pending ELSE snapshot
Expired == {id \in HoldIds : ToScan[id] # None /\ IsExpired(ToScan[id], now)}

\* The scan goes up to the next expired hold without being suspended, passing
\* over those not expired on its way; the ones behind it are looked at later.
ScanTo(id) ==
  /\ running[Watchdog] = None   \* its last invocation has been awaited
  /\ id \in Expired
  /\ \E passed \in SUBSET (HoldIds \ Expired) :
       snapshot' = [k \in HoldIds |-> IF k \in passed \cup {id} THEN None ELSE ToScan[k]]

WatchdogResume(id) ==
  LET t == HoldThread(id)
  IN /\ WatchdogEnabled
     /\ ScanTo(id)
     /\ Free(Watchdog, t) /\ TakesSingleResume(t)
     /\ Start(Watchdog, t, Unfinished(t), TimeoutSentinel, None, None)
     /\ UNCHANGED <<now, pending, graph, hostVars, records, executed, losses, history>>

\* The graph refuses the resume, or has nothing to resume: logged, and passed over.
WatchdogRefused(id) ==
  /\ WatchdogEnabled
  /\ ScanTo(id)
  /\ ~TakesSingleResume(HoldThread(id))
  /\ UNCHANGED <<now, pending, graph, running, resume, addressee, echo, task, hostVars,
                 records, executed, losses, history>>

\* Nothing left in the snapshot has expired: the scan is over, and the watchdog sleeps.
WatchdogSleep ==
  /\ running[Watchdog] = None
  /\ snapshot # NoHolds /\ Expired = {}
  /\ snapshot' = NoHolds
  /\ UNCHANGED <<now, pending, graph, running, resume, addressee, echo, task, hostVars,
                 records, executed, losses, history>>

WatchdogStep ==
  \/ \E id \in HoldIds : WatchdogResume(id) \/ WatchdogRefused(id)
  \/ WatchdogSleep

-----------------------------------------------------------------------------
Next ==
  \/ \E r \in Runs : RunStep(r) \/ \E c \in Calls : TaskStep(r, c)
  \/ \E h \in Hosts : \/ \E t \in Threads : Invoke(h, t)
                      \/ \E c \in Calls : HostResume(h, c)
  \/ \E c \in Calls, response \in Answers : Decide(c, response)
  \/ LosePending
  \/ Tick
  \/ WatchdogStep

Spec == Init /\ [][Next]_vars

(***************************************************************************)
(* What runs in the process makes progress, and so does time.  Nothing is  *)
(* assumed of the host and of the reviewer, who may never come back.       *)
(***************************************************************************)
Fairness ==
  /\ \A r \in Runs : WF_vars(RunStep(r))
  /\ \A r \in Runs, c \in Calls : WF_vars(TaskStep(r, c))
  /\ WF_vars(WatchdogStep)
  /\ WF_vars(Tick)

FairSpec == Spec /\ Fairness
-----------------------------------------------------------------------------
(* Properties. *)

TypeOK ==
  /\ now \in Nat /\ losses \in Nat
  /\ pending \in [HoldIds -> Deadlines \cup {None}]
  /\ interrupts \in [Calls -> Deadlines \cup {None}]
  /\ finished \in SUBSET Calls
  /\ turn \in [Threads -> Nat]
  /\ running \in [Runs -> Threads \cup {None}]
  /\ resume \in [Runs -> Responses \cup {None}]
  /\ addressee \in [Runs -> Calls \cup {None}]
  /\ echo \in [Runs -> Deadlines \cup {None}]
  /\ task \in [Runs -> [Calls -> Tasks]]
  /\ snapshot \in [HoldIds -> Deadlines \cup {None}]
  /\ answer \in [Calls -> Answers \cup {None}]
  /\ unsent \in SUBSET Calls
  /\ records \in [Calls -> Seq(Records)]
  /\ executed \in [Calls -> Nat]
  /\ promised \in [Calls -> Deadlines \cup {None}]
  /\ outcome \in [Calls -> ReviewStates \cup {None}]

Held(c) == promised[c] # None

\* The tool of a call that was held for review runs only if the reviewer approved
\* that call: no timeout, re-execution, lost table, sibling's answer or late resume
\* lets it through.
HeldRunsOnlyIfApproved ==
  \A c \in Calls : Held(c) /\ executed[c] > 0 => answer[c] = "approve"

\* An approval a run carries is addressed to the call the reviewer approved.
ApprovalsAreAddressed ==
  \A r \in Runs : resume[r] = "approve" =>
    addressee[r] \in Calls /\ answer[addressee[r]] = "approve"

\* Only the policy's REVIEW makes a hold.
HeldByReview ==
  \A c \in Calls : Held(c) \/ pending[HoldId(c)] # None => "REVIEW" \in PolicyVerdicts[c]

\* A task is in review, or about to run the tool, for the reason its place says.
TasksByVerdict ==
  \A r \in Runs, c \in Calls :
    /\ task[r][c].pc \in Reviewing => "REVIEW" \in PolicyVerdicts[c]
    /\ task[r][c].pc = "allowed" => "ALLOW" \in PolicyVerdicts[c]
    /\ task[r][c].pc = "approved" => answer[c] = "approve"

\* A tool has run by the policy's ALLOW or by the reviewer's approval of that call.
ExecutedByVerdict ==
  \A c \in Calls : executed[c] > 0 =>
    "ALLOW" \in PolicyVerdicts[c] \/ answer[c] = "approve"

\* Why HeldRunsOnlyIfApproved holds, as an inductive invariant.
ApprovalInv ==
  ApprovalsAreAddressed /\ HeldByReview /\ TasksByVerdict /\ ExecutedByVerdict

\* A rejection stands for the reviewer's answer to that hold; one that nobody answered,
\* or that was approved, is never recorded as rejected.
RejectionsAreReviewers ==
  \A c \in Calls : outcome[c] = "rejected" => answer[c] \in Answers \ {"approve"}

\* Wherever a hold is kept, in the pending table, in the checkpoint or in a task, it
\* has the deadline the reviewer was first shown.
DeadlineIsDurable ==
  \A c \in Calls : Held(c) =>
    /\ interrupts[c] = promised[c]
    /\ c \notin finished => pending[HoldId(c)] \in {None, promised[c]}
    /\ \A r \in Runs : task[r][c].pc \in Reviewing \cup {"approved"}
                         => task[r][c].hold = promised[c]

\* A call is held only if the policy sent that call to review: a call that comes later
\* with the id of one that was held does not get its hold.
HoldsAreOwn == \A c \in Calls : Held(c) => "REVIEW" \in PolicyVerdicts[c]

\* An approval takes effect only inside the window first shown to the reviewer.
ApprovesInWindow ==
  [][\A r \in Runs, c \in Calls :
       task[r][c].pc # "approved" /\ task'[r][c].pc = "approved"
         => promised[c] # None /\ now <= promised[c]]_vars

Emitted(c, kinds, replays) ==
  {i \in DOMAIN records[c] :
     records[c][i].kind \in kinds /\ records[c][i].replay \in replays}

\* A hold is resolved at most once: one terminal record, or one approval whose
\* execution record is still to come.
ResolvedAtMostOnce ==
  \A c \in Calls :
    Cardinality(Emitted(c, ReviewStates, BOOLEAN))
      + Cardinality({r \in Runs : task[r][c].pc = "approved"}) <= 1

\* The trail ends with one verdict, which tells whether the tool has run: no call runs
\* unrecorded or twice, none is recorded as denied and runs, and no verdict comes before
\* the call's task has finished.
FinalRecords(c) == Emitted(c, RecordKinds \ {"pending"}, BOOLEAN)
TrailTellsWhatRan ==
  \A c \in Calls :
    IF c \in finished
    THEN \E i \in FinalRecords(c) :
           /\ FinalRecords(c) = {i}
           /\ executed[c] = IF records[c][i].kind \in {"allow", "approved"} THEN 1 ELSE 0
    ELSE FinalRecords(c) = {} /\ executed[c] = 0

\* The audit trail of a hold: one pending record that is not a replay, before
\* anything else the hold emits; every other pending record is marked as a replay.
OnePendingRecord ==
  \A c \in Calls :
    LET first == Emitted(c, {"pending"}, {FALSE})
        rest == Emitted(c, {"pending"}, {TRUE}) \cup Emitted(c, ReviewStates, BOOLEAN)
    IN /\ Held(c) => Cardinality(first) = 1
       /\ \A i \in rest : \E j \in first : j < i

\* What waits for a decision, and a thread that no run is on.
Waiting(c) == Held(c) /\ c \notin finished
AtRest(t) == \A r \in Runs : running[r] # t

\* Between runs no hold is out of reach and none is listed in vain: what waits is shown to
\* the host by the checkpoint and, unless the table was lost, listed for the watchdog; an
\* entry of the table is that of a call which waits.
WaitingHoldsAreTracked ==
  \A c \in Calls : AtRest(Thread[c]) =>
    /\ Waiting(c) => /\ c \in Outstanding(Thread[c])
                     /\ losses = 0 => pending[HoldId(c)] # None
    /\ pending[HoldId(c)] # None =>
         \E d \in Outstanding(Thread[c]) : HoldId(d) = HoldId(c)

\* A hold is settled once its window has closed, whether anyone answers it or not
\* (windows that close after the model's last instant say nothing).
EveryHoldIsSettled ==
  \A c \in Calls : Held(c) /\ promised[c] < Horizon ~> c \in finished

\* The system implements the promised life of a hold.
Lifecycle == INSTANCE HoldLifecycle WITH
  clock <- now,
  state <- [c \in Calls |-> IF outcome[c] # None THEN outcome[c]
                            ELSE IF Held(c) THEN "pending" ELSE "none"],
  deadline <- promised,
  ran <- executed
ImplementsLifecycle == Lifecycle!Spec
=============================================================================
