---------------------------- MODULE ControlPlane ----------------------------
(***************************************************************************)
(* The control plane's lifecycle: attach() and its startup validation,     *)
(* the review watchdog's task, the steps of aclose(), the runtime          *)
(* capability check a REVIEW verdict passes before the call is suspended,  *)
(* and where the governance records of a hold end up.                      *)
(*                                                                         *)
(* The host builds agents with the middleware in them and attaches them to *)
(* one control plane; it runs those that attach() has returned.  Here an   *)
(* agent has at most one call held, whose window has closed: what is left  *)
(* to happen to it is the watchdog.  A policy is configured: without one   *)
(* attach() returns at once and nothing is governed.                       *)
(***************************************************************************)
EXTENDS Integers, FiniteSets

CONSTANTS
  None,
  Agents,           \* compiled graphs
  Checkpointed,     \* those with a checkpointer
  Swallowing,       \* those whose ToolNode turns every exception into a tool error
  Opaque,           \* those whose ToolNode attach() does not find
  Required,         \* the names set in required_capabilities
  Manifest,         \* the names the adapter provides; None: no adapter
  OwnsClient,       \* the policy provider made its HTTP client, and closes it
  OwnsTracer,       \* own_tracer_provider: else records go to the host's provider
  Exports,          \* an OTLP endpoint is configured, and its exporter installed
  CloseMayFail,     \* the policy provider's aclose() may raise
  WatchdogEnabled,  \* review.watchdog_enabled
  AttachesEarly,    \* the host may attach() before its event loop runs
  ClosesFirst,      \* the host closes the control plane before its event loop ends
  MaxAttaches,      \* bound: calls of attach()
  MaxLoops          \* bound: event loops the host runs, one after the other

Capabilities == {"block_before_tool", "human_approval", "modify_tool_arguments"}

ASSUME ConstantsAssumption ==
  /\ None \notin Agents
  /\ OwnsClient \in BOOLEAN /\ OwnsTracer \in BOOLEAN /\ Exports \in BOOLEAN
  /\ CloseMayFail \in BOOLEAN
  /\ Checkpointed \subseteq Agents /\ Swallowing \subseteq Agents /\ Opaque \subseteq Agents
  /\ Required \subseteq Capabilities
  /\ Manifest = None \/ Manifest \subseteq Capabilities
  /\ WatchdogEnabled \in BOOLEAN
  /\ AttachesEarly \in BOOLEAN /\ ClosesFirst \in BOOLEAN
  /\ MaxAttaches \in Nat /\ MaxLoops \in Nat

VARIABLES
  loopRuns,  \* the host's event loop is running
  agent,     \* _agent: what the watchdog resumes
  bound,     \* the middleware's _agent: what holds are recovered from
  attached,  \* the agents attach() has returned: the host runs them
  handle,    \* whether _watchdog is set
  watchdog,  \* the task _watchdog_loop runs in
  resuming,  \* the agent whose hold the watchdog is settling, or None
  closing,   \* where aclose() is
  completed, \* history: an aclose() has returned
  policyShut, \* the policy provider is closed
  tracerShut, \* the tracer provider is shut down
  hold,      \* [Agents -> the life of the call the policy sent to review]
  trail,     \* [Agents -> [RecordKinds -> where that record of the hold is]]
  attaches, loops

counters == <<attaches, loops>>
shut == <<completed, policyShut, tracerShut>>
vars == <<loopRuns, agent, bound, attached, handle, watchdog, resuming, closing,
          shut, hold, trail, counters>>

HoldStates == {"none", "waiting", "settled", "refused", "lost", "raised"}
RecordKinds == {"pending", "timed_out"}
RecordStates == {"none", "batched", "exported", "lost"}
Closings == {"open", "cancelling", "releasing", "flushing", "failed", "closed"}
Returned == {"open", "failed", "closed"}   \* no aclose() is going on

Init ==
  /\ loopRuns = FALSE
  /\ agent = None /\ bound = None /\ attached = {}
  /\ handle = FALSE /\ watchdog = "none" /\ resuming = None
  /\ closing = "open"
  /\ completed = FALSE /\ policyShut = FALSE /\ tracerShut = FALSE
  /\ hold = [a \in Agents |-> "none"]
  /\ trail = [a \in Agents |-> [k \in RecordKinds |-> "none"]]
  /\ attaches = 0 /\ loops = 0

-----------------------------------------------------------------------------
(* attach() and LangGraphAdapter.validate(). *)

\* Mutant: the ToolNode's error handler is not looked at.
Valid_AnyHandler(a) ==
  Manifest # None =>
    /\ Required \subseteq Manifest
    /\ "human_approval" \in Required => a \in Checkpointed

\* Every required capability is in the manifest; a review also needs a checkpointer,
\* and a ToolNode that raises interrupt()'s exception again, when it can be found.
Valid(a) ==
  Manifest # None =>
    /\ Required \subseteq Manifest
    /\ "human_approval" \in Required =>
         /\ a \in Checkpointed
         /\ a \in Swallowing => a \in Opaque

\* _start_watchdog: one task, and only on a running event loop.
StartWatchdog ==
  IF WatchdogEnabled /\ ~handle /\ loopRuns
  THEN handle' = TRUE /\ watchdog' = "sleeping"
  ELSE UNCHANGED <<handle, watchdog>>

\* _agent is set before the validation; a rejected agent is not bound or returned.
\* The host does not attach while it closes.
Attach(a) ==
  /\ loopRuns \/ AttachesEarly
  /\ attaches < MaxAttaches /\ closing \in Returned
  /\ attaches' = attaches + 1
  /\ agent' = a
  /\ closing' = "open"
  /\ \/ /\ Valid(a)
        /\ bound' = a
        /\ attached' = attached \cup {a}
        /\ IF "human_approval" \in Required THEN StartWatchdog
           ELSE UNCHANGED <<handle, watchdog>>
     \/ /\ ~Valid(a)
        /\ UNCHANGED <<bound, attached, handle, watchdog>>
  /\ UNCHANGED <<loopRuns, resuming, shut, hold, trail, loops>>

-----------------------------------------------------------------------------
(* A call the policy sends to review: authorize(), the capability check, interrupt(). *)

\* The runtime check looks at the manifest, not at what was declared.
Refused == Manifest # None /\ "human_approval" \notin Manifest

\* Mutant: interrupt() is not called.
HoldAfterReview_CarriesOn(a) == IF Refused THEN "refused" ELSE "executed"

\* A closed client raises; so does a failed capability check.  Else interrupt()'s
\* exception suspends the call, unless the ToolNode swallows it or there is no
\* checkpoint to suspend it in.
HoldAfterReview(a) ==
  IF policyShut /\ OwnsClient THEN "raised"
  ELSE IF Refused THEN "refused"
  ELSE IF a \in Checkpointed \ Swallowing THEN "waiting"
  ELSE "lost"

\* build_tracer and the end of a span: the host's provider takes what it is given; one
\* of our own batches it for its exporter, if it has one, until it is shut down.
Emit(a, kind) ==
  trail' = [trail EXCEPT ![a][kind] =
              IF ~OwnsTracer THEN "exported"
              ELSE IF Exports /\ ~tracerShut THEN "batched"
              ELSE "lost"]

\* The pending record is written when interrupt() raises.
Review(a) ==
  /\ a \in attached /\ hold[a] = "none"
  /\ hold' = [hold EXCEPT ![a] = HoldAfterReview(a)]
  /\ IF hold'[a] \in {"waiting", "lost"} THEN Emit(a, "pending") ELSE UNCHANGED trail
  /\ UNCHANGED <<loopRuns, agent, bound, attached, handle, watchdog, resuming, closing,
                 shut, counters>>

\* BatchSpanProcessor: what is batched is exported, on a thread of its own.
Exported == [a \in Agents |->
  [k \in RecordKinds |-> IF trail[a][k] = "batched" THEN "exported" ELSE trail[a][k]]]

ExportBatch ==
  /\ trail # Exported
  /\ trail' = Exported
  /\ UNCHANGED <<loopRuns, agent, bound, attached, handle, watchdog, resuming, closing,
                 shut, hold, counters>>

-----------------------------------------------------------------------------
(* _watchdog_loop: its task on the host's event loop. *)

\* A poll gets to the expired hold of agent a: its thread is resumed through _agent, in
\* vain when that is another agent.  A cancelled task begins nothing.
Poll(a) ==
  /\ watchdog = "sleeping" /\ closing # "cancelling"
  /\ hold[a] = "waiting" /\ agent # None
  /\ watchdog' = "resuming" /\ resuming' = IF agent = a THEN a ELSE None
  /\ UNCHANGED <<loopRuns, agent, bound, attached, handle, closing, shut, hold, trail,
                 counters>>

\* The invocation comes back, the hold that waited settled as timed out.
ResumeEnds ==
  /\ watchdog = "resuming"
  /\ IF resuming # None
     THEN hold' = [hold EXCEPT ![resuming] = "settled"] /\ Emit(resuming, "timed_out")
     ELSE UNCHANGED <<hold, trail>>
  /\ watchdog' = "sleeping" /\ resuming' = None
  /\ UNCHANGED <<loopRuns, agent, bound, attached, handle, closing, shut, counters>>

\* Mutant: the task is awaited and not cancelled.
WatchdogCancelled_NotAsked == FALSE /\ UNCHANGED vars

\* The invocation, if there is one, is cancelled before it has settled the hold.
WatchdogCancelled ==
  /\ watchdog \in {"sleeping", "resuming"} /\ closing = "cancelling"
  /\ watchdog' = "ended" /\ resuming' = None
  /\ UNCHANGED <<loopRuns, agent, bound, attached, handle, closing, shut, hold, trail,
                 counters>>

-----------------------------------------------------------------------------
(* aclose(). *)

\* Mutant: the task is cancelled and not awaited.
AcloseBegin_NoAwait ==
  /\ loopRuns /\ closing \in Returned
  /\ closing' = "releasing" /\ handle' = FALSE
  /\ UNCHANGED <<loopRuns, agent, bound, attached, watchdog, resuming, shut, hold, trail,
                 counters>>

\* Mutant: the tracer provider is shut down first.
AcloseBegin_TracerFirst ==
  /\ loopRuns /\ closing \in Returned
  /\ closing' = IF handle THEN "cancelling" ELSE "releasing"
  /\ tracerShut' = OwnsTracer /\ trail' = Exported
  /\ UNCHANGED <<loopRuns, agent, bound, attached, handle, watchdog, resuming, completed,
                 policyShut, hold, counters>>

\* The watchdog is cancelled and awaited; without one there is nothing to wait for.  The
\* host may call again after an aclose() that raised, and after one that returned.
AcloseBegin ==
  /\ loopRuns /\ closing \in Returned
  /\ closing' = IF handle THEN "cancelling" ELSE "releasing"
  /\ UNCHANGED <<loopRuns, agent, bound, attached, handle, watchdog, resuming, shut, hold,
                 trail, counters>>

\* Mutant: the handle of the ended task is kept.
WatchdogAwaited_KeepsHandle ==
  /\ closing = "cancelling" /\ watchdog = "ended"
  /\ closing' = "releasing"
  /\ UNCHANGED <<loopRuns, agent, bound, attached, handle, watchdog, resuming, shut, hold,
                 trail, counters>>

WatchdogAwaited ==
  /\ closing = "cancelling" /\ watchdog = "ended"
  /\ closing' = "releasing" /\ handle' = FALSE
  /\ UNCHANGED <<loopRuns, agent, bound, attached, watchdog, resuming, shut, hold, trail,
                 counters>>

\* The middleware's loop (BackgroundLoop) and the policy provider are closed; when that
\* raises, aclose() does, and leaves the tracer provider open.
ClosePolicy ==
  /\ closing = "releasing"
  /\ policyShut' = TRUE
  /\ \/ closing' = "flushing"
     \/ CloseMayFail /\ closing' = "failed"
  /\ UNCHANGED <<loopRuns, agent, bound, attached, handle, watchdog, resuming, completed,
                 tracerShut, hold, trail, counters>>

\* A tracer provider of our own exports what is batched and is shut down, for good.
ShutTracer ==
  /\ closing = "flushing"
  /\ closing' = "closed" /\ completed' = TRUE
  /\ tracerShut' = OwnsTracer
  /\ trail' = Exported
  /\ UNCHANGED <<loopRuns, agent, bound, attached, handle, watchdog, resuming, policyShut,
                 hold, counters>>

AcloseStep == WatchdogAwaited \/ ClosePolicy \/ ShutTracer

-----------------------------------------------------------------------------
(* The host's event loop (external: asyncio.run). *)

BeginLoop ==
  /\ ~loopRuns /\ loops < MaxLoops
  /\ loopRuns' = TRUE /\ loops' = loops + 1
  /\ UNCHANGED <<agent, bound, attached, handle, watchdog, resuming, closing, shut,
                 hold, trail, attaches>>

\* A loop that ends cancels its tasks; the handle on the watchdog's is still set.  The
\* host lets an aclose() it has begun come to its end.
EndLoop ==
  /\ loopRuns /\ closing \in Returned
  /\ ClosesFirst => ~handle
  /\ loopRuns' = FALSE
  /\ watchdog' = IF watchdog = "none" THEN "none" ELSE "ended"
  /\ resuming' = None
  /\ UNCHANGED <<agent, bound, attached, handle, closing, shut, hold, trail, counters>>

-----------------------------------------------------------------------------
Next ==
  \/ \E a \in Agents : Attach(a) \/ Review(a) \/ Poll(a)
  \/ ResumeEnds \/ WatchdogCancelled
  \/ ExportBatch
  \/ AcloseBegin \/ AcloseStep
  \/ BeginLoop \/ EndLoop

Spec == Init /\ [][Next]_vars

\* The event loop runs its tasks, and each poll gets to every hold that has expired;
\* nothing else has to happen (not even an export).
Fairness ==
  /\ \A a \in Agents : SF_vars(Poll(a))
  /\ WF_vars(ResumeEnds)
  /\ WF_vars(WatchdogCancelled)
  /\ WF_vars(AcloseStep)

FairSpec == Spec /\ Fairness
-----------------------------------------------------------------------------
(* Properties. *)

TypeOK ==
  /\ loopRuns \in BOOLEAN
  /\ agent \in Agents \cup {None} /\ bound \in Agents \cup {None}
  /\ attached \in SUBSET Agents
  /\ handle \in BOOLEAN
  /\ watchdog \in {"none", "sleeping", "resuming", "ended"}
  /\ resuming \in Agents \cup {None}
  /\ closing \in Closings
  /\ completed \in BOOLEAN /\ policyShut \in BOOLEAN /\ tracerShut \in BOOLEAN
  /\ hold \in [Agents -> HoldStates]
  /\ trail \in [Agents -> [RecordKinds -> RecordStates]]
  /\ attaches \in 0..MaxAttaches /\ loops \in 0..MaxLoops

\* No review hold turns into a tool error, or into an interrupt nothing can resume.
HoldsAreNeverLost == \A a \in Agents : hold[a] # "lost"

\* Once aclose() closes what the watchdog's resumptions need, and until the next
\* attach(), the watchdog resumes nothing.
ClosedMeansQuiet ==
  closing \notin {"open", "cancelling"} => watchdog \in {"none", "ended"}

\* No record of a hold is lost before an aclose() has returned: what emits records is
\* stopped before the tracer provider is, and an aclose() that raises leaves it open.
RecordsOutliveClosing ==
  Exports => \A a \in Agents, k \in RecordKinds : trail[a][k] = "lost" => completed

\* aclose() comes to its end, whatever the watchdog is in the middle of.
AcloseReturns == closing \notin Returned ~> closing \in Returned

\* The expired hold of the agent that was attached last is denied, before and after the
\* control plane was closed and attached to again (by a host that attaches on a running
\* loop and closes before the loop ends).
LastAttachedIsWatched ==
  \A a \in Agents :
    hold[a] = "waiting" /\ loopRuns /\ agent = a ~>
      hold[a] = "settled" \/ agent # a \/ closing # "open" \/ ~loopRuns

\* While the control plane is open and its event loop runs, an expired hold is denied.
ExpiredHoldsAreDenied ==
  \A a \in Agents :
    hold[a] = "waiting" /\ loopRuns ~>
      hold[a] = "settled" \/ closing # "open" \/ ~loopRuns
=============================================================================
