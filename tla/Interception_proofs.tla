------------------------ MODULE Interception_proofs -------------------------
(* Theorems about Interception, for any collectors, exchanges and manifests. *)
EXTENDS Interception, TLAPS

(***************************************************************************)
(* The result of an exchange.                                              *)
(***************************************************************************)

\* A result is an outage exactly when the policy said nothing usable; otherwise it has the
\* decision of the exchange (authorize, _build_result).
LEMMA VerdictSound ==
  ASSUME exchange \in Exchanges, evidence \in SUBSET Collectors, failMode \in FailModes
  PROVE  LET v == Verdict(exchange, evidence)
         IN /\ v \in Results
            /\ v.unavailable => Outage
            /\ ~v.unavailable => Said(v.verdict)
            /\ v.unavailable /\ v.verdict = "allow" => failMode = "open"
<1> DEFINE x == exchange
           v == Verdict(x, evidence)
           usable == /\ Answered(x) /\ x.decision \in Enforceable
                     /\ ~(x.decision = "review" /\ x.window = None)
<1>0. x \in ExchangeShapes /\ x # None
  <2>1. x \in ExchangeShapes
    BY ConstantsAssumption
  <2> QED
    BY <2>1, ConstantsAssumption
<1>1. CASE usable
  <2>1. v = [verdict |-> x.decision, evidence |-> evidence, unavailable |-> FALSE]
    BY <1>1 DEF Verdict, BuildResult
  <2>2. Said(x.decision)
    BY <1>0, <1>1 DEF Said, Answered
  <2> QED
    BY <1>1, <2>1, <2>2 DEF Results
<1>2. CASE ~usable
  <2>1. v = Unavailable
    BY <1>2 DEF Verdict, BuildResult
  <2>2. Outage
    BY <1>0, <1>2 DEF Outage, Said, Answered
  <2> QED
    BY <2>1, <2>2 DEF Unavailable, Results, Enforceable, FailModes
<1> QED
  BY <1>1, <1>2

(***************************************************************************)
(* How far the hook is with the call.                                      *)
(***************************************************************************)

\* The invariant the properties rest on: up to its end a call has no record and has not
\* run; a result is the provider's for the exchange and the evidence; the record is that
\* of the result, under its label; and the tool ran by an allow.
Progress ==
  /\ pc \in {"intercepted", "collecting"} => evidence = {}
  /\ pc \in {"intercepted", "collecting", "authorizing"} => exchange = None /\ result = None
  /\ pc \in {"collecting", "authorizing", "enforcing", "acting"} => governed
  /\ pc # "ended" => records = <<>> /\ executed = 0
  /\ pc \in {"enforcing", "acting"} => result # None
  /\ result # None => exchange # None /\ result = Verdict(exchange, evidence)
  /\ executed > 0 =>
       executed = 1 /\ (governed => result # None /\ result.verdict = "allow")
  /\ records # <<>> =>
       /\ result # None
       /\ \E label \in Labels :
            /\ records = <<[label |-> label, evidence |-> result.evidence]>>
            /\ label = "denied" => result.verdict = "deny" /\ ~result.unavailable
            /\ label = "policy_unavailable" => result.unavailable
  /\ pc = "ended" /\ result # None /\ outcome # "capability_raised" => records # <<>>

IInv == TypeOK /\ Progress

LEMMA InitInv == Init => IInv
BY DEF Init, IInv, TypeOK, Progress, Stages, CollectorStates

\* Each step of the hook and of a collector keeps the invariant.
LEMMA StepInv == IInv /\ [Next]_vars => IInv'
<1> SUFFICES ASSUME IInv, [Next]_vars
             PROVE  IInv'
  OBVIOUS
<1>0. (Verdict(exchange, evidence))' = Verdict(exchange', evidence')
  <2>1. failMode' = failMode
    BY DEF Next, HookStep, Passthrough, Intercept, Gathered, BudgetExceeded, Authorize,
           EnforceCapability, Deny, Allow, Review, CollectorEnds, vars, settings
  <2> QED
    BY <2>1 DEF Verdict, BuildResult, Unavailable, Answered, Enforceable
<1> USE <1>0 DEF IInv, TypeOK, Progress, settings
<1>1. CASE Passthrough
  BY <1>1 DEF Passthrough, End, Stages, Outcomes
<1>2. CASE Intercept
  BY <1>2 DEF Intercept, Stages, CollectorStates
<1>3. ASSUME NEW k \in Collectors, CollectorEnds(k)
      PROVE  IInv'
  BY <1>3 DEF CollectorEnds, CollectorStates
<1>4. CASE Gathered
  BY <1>4 DEF Gathered, Returned, Stages
<1>5. CASE BudgetExceeded
  BY <1>5 DEF BudgetExceeded, Stages, CollectorStates
<1>6. ASSUME NEW x \in Exchanges, Authorize(x)
      PROVE  IInv'
  <2>1. x \in ExchangeShapes /\ x # None
    <3>1. x \in ExchangeShapes
      BY ConstantsAssumption
    <3> QED
      BY <3>1, ConstantsAssumption
  <2>2. Verdict(x, evidence) \in Results
    BY <2>1 DEF Verdict, BuildResult, Unavailable, Results, Enforceable, FailModes
  <2>3. /\ pc = "authorizing" /\ governed /\ records = <<>> /\ executed = 0 /\ result = None
        /\ exchange' = x
        /\ UNCHANGED <<settings, collector, evidence, records, executed>>
    BY <1>6 DEF Authorize
  <2>8. Verdict(x, evidence) # None
    BY <2>2, ConstantsAssumption
  <2>4. \/ pc' = "ended" /\ outcome' \in Outcomes /\ result' = None
        \/ pc' = "enforcing" /\ result' = Verdict(x, evidence) /\ outcome' = outcome
    BY <1>6, <2>3 DEF Authorize, End, Outcomes
  <2>5. TypeOK'
    BY <2>2, <2>3, <2>4 DEF Stages
  <2>6. result' # None => exchange' # None /\ result' = Verdict(exchange', evidence')
    BY <2>1, <2>3, <2>4
  <2>7. Progress'
    BY <2>3, <2>4, <2>6, <2>8
  <2> QED
    BY <2>5, <2>7
<1>7. CASE EnforceCapability
  BY <1>7 DEF EnforceCapability, End, Stages, Outcomes
<1>8. CASE Deny \/ Allow \/ Review
  <2> DEFINE rec(label) == [label |-> label, evidence |-> result.evidence]
  <2>1. /\ pc = "acting" /\ governed /\ records = <<>> /\ executed = 0
        /\ result \in Results /\ result' = result /\ exchange' = exchange
        /\ evidence' = evidence /\ collector' = collector /\ UNCHANGED settings
    BY <1>8 DEF Deny, Allow, Review
  <2>2. PICK label \in Labels :
          /\ Emit(label)
          /\ label = "denied" => result.verdict = "deny" /\ ~result.unavailable
          /\ label = "policy_unavailable" => result.unavailable
    BY <1>8 DEF Deny, Allow, Review, DenialLabel, Labels
  <2>3. rec(label) \in Records
    BY <2>1 DEF Results, Records
  <2>4. records' = <<rec(label)>> /\ records' \in Seq(Records) /\ records' # <<>>
    <3> HIDE DEF rec
    <3>1. records' = Append(<<>>, rec(label))
      BY <2>1, <2>2 DEF Emit, rec
    <3> QED
      BY <2>3, <3>1
  <2>5. /\ pc' = "ended" /\ outcome' \in Outcomes
        /\ executed' = 0 \/ (executed' = 1 /\ result.verdict = "allow")
    BY <1>8, <2>1 DEF Deny, Allow, Review, End, Outcomes
  <2>6. TypeOK'
    BY <2>1, <2>4, <2>5 DEF Stages
  <2>7. Progress'
    BY <2>1, <2>2, <2>4, <2>5
  <2> QED
    BY <2>6, <2>7
<1>9. CASE UNCHANGED vars
  BY <1>9 DEF vars
<1> QED
  BY <1>1, <1>2, <1>3, <1>4, <1>5, <1>6, <1>7, <1>8, <1>9 DEF Next, HookStep

THEOREM CallsProgress == Spec => []IInv
BY InitInv, StepInv, PTL DEF Spec

(***************************************************************************)
(* The properties.                                                         *)
(***************************************************************************)

\* Every variable keeps its type (_govern, _agovern and what they call).
THEOREM TypeCorrect == Spec => []TypeOK
<1>1. IInv => TypeOK
  BY DEF IInv
<1> QED
  BY <1>1, CallsProgress, PTL

\* What a result of this exchange tells of it.
LEMMA ResultSound ==
  ASSUME IInv, result # None
  PROVE  /\ result.unavailable => Outage
         /\ ~result.unavailable => Said(result.verdict)
         /\ result.unavailable /\ result.verdict = "allow" => failMode = "open"
<1>1. exchange \in Exchanges /\ evidence \in SUBSET Collectors /\ failMode \in FailModes
  BY DEF IInv, TypeOK, Progress
<1>2. result = Verdict(exchange, evidence)
  BY DEF IInv, Progress
<1> QED
  BY <1>1, <1>2, VerdictSound

\* Fail-closed by default, fail-open only by choice, at most once (_act, authorize).
THEOREM ToolsRunOnlyIfAllowed == Spec => []ToolRunsOnlyIfAllowed
<1>1. IInv => ToolRunsOnlyIfAllowed
  <2> SUFFICES ASSUME IInv, executed > 0, governed
               PROVE  Said("allow") \/ (Outage /\ failMode = "open")
    BY DEF ToolRunsOnlyIfAllowed, IInv, Progress
  <2>1. result # None /\ result.verdict = "allow"
    BY DEF IInv, Progress
  <2> QED
    BY <2>1, ResultSound
<1> QED
  BY <1>1, CallsProgress, PTL

\* The labels of denials tell outages from rules (_decision_error_type).
THEOREM OutagesAreTold == Spec => []OutagesAreLabelled
<1>1. IInv => OutagesAreLabelled
  <2> SUFFICES ASSUME IInv, NEW i \in DOMAIN records
               PROVE  /\ records[i].label = "policy_unavailable" => Outage
                      /\ records[i].label = "denied" => Said("deny")
    BY DEF OutagesAreLabelled
  <2>1. records # <<>>
    OBVIOUS
  <2>2. PICK label \in Labels :
          /\ records = <<[label |-> label, evidence |-> result.evidence]>>
          /\ label = "denied" => result.verdict = "deny" /\ ~result.unavailable
          /\ label = "policy_unavailable" => result.unavailable
    BY <2>1 DEF IInv, Progress
  <2>3. records[i].label = label /\ result # None
    BY <2>1, <2>2 DEF IInv, Progress
  <2> QED
    BY <2>2, <2>3, ResultSound
<1> QED
  BY <1>1, CallsProgress, PTL

\* One record for each decision (governed_execution, record_decision).
THEOREM DecisionsHaveRecords == Spec => []DecisionsAreRecorded
<1>1. IInv => DecisionsAreRecorded
  BY DEF IInv, Progress, DecisionsAreRecorded
<1> QED
  BY <1>1, CallsProgress, PTL

\* The evidence is nothing but what the collectors gave, whatever fails and whenever the
\* budget runs out (_collect_evidence).
THEOREM EvidenceIsCollected == Spec => []SignalsAreCollected
<1> DEFINE J == SignalsAreCollected
<1>1. Init => J
  BY DEF Init, SignalsAreCollected
<1>2. IInv /\ J /\ [Next]_vars => J'
  <2> SUFFICES ASSUME IInv, J, [Next]_vars
               PROVE  J'
    OBVIOUS
  <2> USE DEF SignalsAreCollected, Returned, Running
  <2>1. CASE Intercept
    BY <2>1 DEF Intercept, IInv, Progress
  <2>2. ASSUME NEW k \in Collectors, CollectorEnds(k)
        PROVE  J'
    BY <2>2 DEF CollectorEnds, IInv, Progress
  <2>3. CASE Gathered
    BY <2>3 DEF Gathered
  <2>4. CASE BudgetExceeded
    <3>1. PICK k \in Running : collector'[k] = "cancelled"
      BY <2>4 DEF BudgetExceeded, IInv, TypeOK
    <3> QED
      BY <2>4, <3>1 DEF BudgetExceeded
  <2>5. ASSUME NEW x \in Exchanges, Authorize(x)
        PROVE  J'
    BY <2>5 DEF Authorize, End
  <2>6. CASE Passthrough \/ EnforceCapability \/ Deny \/ Allow \/ Review
    BY <2>6 DEF Passthrough, EnforceCapability, Deny, Allow, Review, End
  <2>7. CASE UNCHANGED vars
    BY <2>7 DEF vars
  <2> QED
    BY <2>1, <2>2, <2>3, <2>4, <2>5, <2>6, <2>7 DEF Next, HookStep
<1> QED
  BY <1>1, <1>2, CallsProgress, PTL DEF Spec
=============================================================================
