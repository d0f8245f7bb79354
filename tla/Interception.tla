---------------------------- MODULE Interception ----------------------------
(***************************************************************************)
(* One intercepted tool call, from the hook to its governance record:      *)
(* inline evidence under a budget, the exchange with OPA, the capability   *)
(* check, and what is done with the verdict.  A call sent to review ends   *)
(* here when it is suspended; GovernedCalls has what happens then.         *)
(*                                                                         *)
(* The collectors run concurrently with the budget's timer.  An exchange   *)
(* with OPA ends by itself, the client's timeout being one of its ends.    *)
(***************************************************************************)
EXTENDS Integers, Sequences

CONSTANTS
  None,
  Collectors,   \* the inline controls, each standing for the one signal it gives
  Exchanges,    \* what can come of the POST to OPA
  Manifests     \* the capabilities an adapter may provide; None: no adapter

Enforceable == {"allow", "deny", "review"}
FailModes == {"closed", "open"}

\* The shapes of an exchange authorize() tells apart: whether a response came, its
\* status class, what its body is, what `result` is, the decision (a JSON array or
\* object is not hashable) and the window, None when it is not an integer.
ExchangeShapes ==
  [transport : {"answered", "timeout", "error"},
   success : BOOLEAN,
   body : {"not_json", "not_object", "object"},
   result : {"missing", "object"},
   decision : Enforceable \cup {"unknown", "unhashable"},
   window : Int \cup {None}]

\* ControlResult.
Results == [verdict : Enforceable, evidence : SUBSET Collectors, unavailable : BOOLEAN]

ASSUME ConstantsAssumption ==
  /\ Exchanges \subseteq ExchangeShapes
  /\ None \notin Int /\ None \notin ExchangeShapes /\ None \notin Results
  /\ Manifests \subseteq {None} \cup SUBSET {"block_before_tool", "human_approval"}

VARIABLES
  governed,    \* a policy provider is configured: never changes
  failMode,    \* policy.fail_mode: never changes
  manifest,    \* the adapter's capabilities: never changes
  pc,          \* how far the hook is with the call
  collector,   \* [Collectors -> how the collection of its signal goes]
  evidence,    \* the signals the policy is given
  exchange,    \* what came of the exchange with OPA, or None
  result,      \* the ControlResult, or None
  records,     \* the governance records emitted
  executed,    \* how many times the tool has run
  outcome      \* how the hook ended, or None

settings == <<governed, failMode, manifest>>
vars == <<settings, pc, collector, evidence, exchange, result, records, executed, outcome>>

Stages == {"intercepted", "collecting", "authorizing", "enforcing", "acting", "ended"}
CollectorStates == {"idle", "running", "returned", "raised", "cancelled"}
Labels == {"ok", "pending", "denied", "policy_unavailable", "tool_error"}
Records == [label : Labels, evidence : SUBSET Collectors]
Outcomes == {"output", "denial", "suspended", "tool_raised", "policy_raised",
             "capability_raised"}

Init ==
  /\ governed \in BOOLEAN /\ failMode \in FailModes /\ manifest \in Manifests
  /\ pc = "intercepted"
  /\ collector = [k \in Collectors |-> "idle"]
  /\ evidence = {}
  /\ exchange = None
  /\ result = None
  /\ records = <<>>
  /\ executed = 0
  /\ outcome = None

Returned == {k \in Collectors : collector[k] = "returned"}
Running == {k \in Collectors : collector[k] = "running"}

End(how) == pc' = "ended" /\ outcome' = how

-----------------------------------------------------------------------------
(* _govern, _agovern and _collect_evidence. *)

\* Without a policy provider the handler is called and nothing is recorded.
Passthrough ==
  /\ pc = "intercepted" /\ ~governed
  /\ executed' = executed + 1
  /\ \E how \in {"output", "tool_raised"} : End(how)
  /\ UNCHANGED <<settings, collector, evidence, exchange, result, records>>

Intercept ==
  /\ pc = "intercepted" /\ governed
  /\ pc' = "collecting"
  /\ collector' = [k \in Collectors |-> "running"]
  /\ UNCHANGED <<settings, evidence, exchange, result, records, executed, outcome>>

\* A collector gives its signal or fails, in its own time, if ever.
CollectorEnds(k) ==
  /\ pc = "collecting" /\ k \in Running
  /\ \E how \in {"returned", "raised"} : collector' = [collector EXCEPT ![k] = how]
  /\ UNCHANGED <<settings, pc, evidence, exchange, result, records, executed, outcome>>

\* Mutant: the signal of a collector that failed is defaulted.
Gathered_Defaulted ==
  /\ pc = "collecting" /\ Running = {}
  /\ evidence' = Collectors
  /\ pc' = "authorizing"
  /\ UNCHANGED <<settings, collector, exchange, result, records, executed, outcome>>

\* gather() is complete within the budget: a failed collector has no signal.
Gathered ==
  /\ pc = "collecting" /\ Running = {}
  /\ evidence' = Returned
  /\ pc' = "authorizing"
  /\ UNCHANGED <<settings, collector, exchange, result, records, executed, outcome>>

\* Mutant: the sweep has no budget.
BudgetExceeded_Never == FALSE /\ UNCHANGED vars

\* wait_for() gives up: what still runs is cancelled, and nothing is returned.
BudgetExceeded ==
  /\ pc = "collecting" /\ Running # {}
  /\ collector' = [k \in Collectors |->
                     IF k \in Running THEN "cancelled" ELSE collector[k]]
  /\ evidence' = {}
  /\ pc' = "authorizing"
  /\ UNCHANGED <<settings, exchange, result, records, executed, outcome>>

-----------------------------------------------------------------------------
(* OPAPolicyProvider.authorize and unavailable_result. *)

\* Mutants: the status is not looked at; an outage is not marked as one.
Answered_AnyStatus(x) ==
  x.transport = "answered" /\ x.body = "object" /\ x.result = "object"

Unavailable_Unmarked ==
  [verdict |-> IF failMode = "open" THEN "allow" ELSE "deny",
   evidence |-> {}, unavailable |-> FALSE]

\* A 2xx response whose body is an object with a `result` object.
Answered(x) ==
  x.transport = "answered" /\ x.success /\ x.body = "object" /\ x.result = "object"

Unavailable ==
  [verdict |-> IF failMode = "open" THEN "allow" ELSE "deny",
   evidence |-> {}, unavailable |-> TRUE]

\* _build_result: a review must come with a window.
BuildResult(x, signals) ==
  IF x.decision = "review" /\ x.window = None THEN Unavailable
  ELSE [verdict |-> x.decision, evidence |-> signals, unavailable |-> FALSE]

\* Mutant: the decision is taken as it comes.
Verdict_Unchecked(x, signals) ==
  IF Answered(x) THEN BuildResult(x, signals) ELSE Unavailable

Verdict(x, signals) ==
  IF Answered(x) /\ x.decision \in Enforceable THEN BuildResult(x, signals)
  ELSE Unavailable

\* Looking an unhashable decision up in the set of verdicts raises.
Authorize(x) ==
  /\ pc = "authorizing"
  /\ exchange' = x
  /\ IF Answered(x) /\ x.decision = "unhashable"
     THEN End("policy_raised") /\ UNCHANGED result
     ELSE pc' = "enforcing" /\ result' = Verdict(x, evidence) /\ UNCHANGED outcome
  /\ UNCHANGED <<settings, collector, evidence, records, executed>>

-----------------------------------------------------------------------------
(* _enforce_capability, then _act and _aact. *)

\* requires_for: the capability a verdict needs.
Needs(verdict) ==
  CASE verdict = "deny" -> {"block_before_tool"}
    [] verdict = "review" -> {"human_approval"}
    [] OTHER -> {}

EnforceCapability ==
  /\ pc = "enforcing"
  /\ IF manifest = None \/ Needs(result.verdict) \subseteq manifest
     THEN pc' = "acting" /\ UNCHANGED outcome
     ELSE End("capability_raised")
  /\ UNCHANGED <<settings, collector, evidence, exchange, result, records, executed>>

\* Mutant: the record is written only when the tool returns.
Emit_OnSuccess(label) ==
  records' = IF label = "tool_error" THEN records
             ELSE Append(records, [label |-> label, evidence |-> result.evidence])

Emit(label) == records' = Append(records, [label |-> label, evidence |-> result.evidence])

\* _decision_error_type of a denial.
DenialLabel == IF result.unavailable THEN "policy_unavailable" ELSE "denied"

Deny ==
  /\ pc = "acting" /\ result.verdict = "deny"
  /\ Emit(DenialLabel)
  /\ End("denial")
  /\ UNCHANGED <<settings, collector, evidence, exchange, result, executed>>

\* The tool runs inside the span: its exception is recorded and raised again.
Allow ==
  /\ pc = "acting" /\ result.verdict = "allow"
  /\ executed' = executed + 1
  /\ \/ Emit("ok") /\ End("output")
     \/ Emit("tool_error") /\ End("tool_raised")
  /\ UNCHANGED <<settings, collector, evidence, exchange, result>>

\* _run_review up to the interrupt().
Review ==
  /\ pc = "acting" /\ result.verdict = "review"
  /\ Emit("pending")
  /\ End("suspended")
  /\ UNCHANGED <<settings, collector, evidence, exchange, result, executed>>

HookStep ==
  \/ Passthrough \/ Intercept
  \/ Gathered \/ BudgetExceeded
  \/ \E x \in Exchanges : Authorize(x)
  \/ EnforceCapability
  \/ Deny \/ Allow \/ Review

Next == HookStep \/ \E k \in Collectors : CollectorEnds(k)

Spec == Init /\ [][Next]_vars

\* The hook, its timers included, goes on; nothing is assumed of the collectors.
FairSpec == Spec /\ WF_vars(HookStep)
-----------------------------------------------------------------------------
(* Properties. *)

TypeOK ==
  /\ governed \in BOOLEAN /\ failMode \in FailModes /\ manifest \in Manifests
  /\ pc \in Stages
  /\ collector \in [Collectors -> CollectorStates]
  /\ evidence \in SUBSET Collectors
  /\ exchange \in Exchanges \cup {None}
  /\ result \in Results \cup {None}
  /\ records \in Seq(Records)
  /\ executed \in Nat
  /\ outcome \in Outcomes \cup {None}

\* The policy has answered, usably, with this decision.
Said(decision) ==
  /\ exchange # None
  /\ exchange.transport = "answered" /\ exchange.success
  /\ exchange.body = "object" /\ exchange.result = "object"
  /\ exchange.decision = decision
  /\ decision = "review" => exchange.window # None

Outage == exchange # None /\ \A decision \in Enforceable : ~Said(decision)

\* A governed tool runs only because the policy said allow or, by the deployment's
\* explicit choice, because it said nothing usable; never more than once.
ToolRunsOnlyIfAllowed ==
  executed > 0 =>
    /\ executed = 1
    /\ governed => Said("allow") \/ (Outage /\ failMode = "open")

\* The audit trail tells an outage from a rule: a denial is labelled as an outage
\* exactly when the policy did not deny.
OutagesAreLabelled ==
  \A i \in DOMAIN records :
    /\ records[i].label = "policy_unavailable" => Outage
    /\ records[i].label = "denied" => Said("deny")

\* The policy is never given a signal no collector produced.
SignalsAreCollected == evidence \subseteq Returned

\* A collector that never answers does not stall the call.
EveryCallEnds == <>(pc = "ended")

\* Each decision is recorded exactly once, the tools that fail included, unless the
\* adapter cannot enforce it and the hook raises.
DecisionsAreRecorded ==
  pc = "ended" /\ result # None /\ outcome # "capability_raised" => Len(records) = 1
=============================================================================
