------------------------ MODULE Authorization_proofs ------------------------
(* Theorems about Authorization, for every deployment and every evidence. *)
EXTENDS Authorization, WellFoundedInduction, TLAPS

(***************************************************************************)
(* The bundle.                                                             *)
(***************************************************************************)

\* What the bundle answers: a rule that fires, the default, or nothing; and when a rule
\* fires, no other rule and not the default.
LEMMA EvaluateSound ==
  ASSUME NEW in, NEW score
  PROVE  /\ Evaluate(in, score) \in PolicyIds \cup {None}
         /\ \A rule \in RuleNames : Evaluate(in, score) = rule => Fires(rule, in, score)
         /\ \A rule \in RuleNames :
              Fires(rule, in, score) => Evaluate(in, score) \in {rule, None}
<1> DEFINE fired == {rule \in RuleNames : Fires(rule, in, score)}
<1>0. None \notin PolicyIds /\ "default_allow" \notin RuleNames
  BY ConstantsAssumption DEF PolicyIds, RuleNames
<1>1. CASE fired = {}
  <2>1. Evaluate(in, score) = "default_allow"
    BY <1>1 DEF Evaluate
  <2> QED
    BY <1>0, <1>1, <2>1 DEF PolicyIds
<1>2. CASE \E rule \in fired : fired = {rule}
  <2>1. PICK rule \in fired : fired = {rule}
    BY <1>2
  <2>2. Evaluate(in, score) = rule
    BY <2>1 DEF Evaluate
  <2> QED
    BY <2>1, <2>2 DEF PolicyIds
<1>3. CASE fired # {} /\ ~\E rule \in fired : fired = {rule}
  <2>1. Evaluate(in, score) = None
    BY <1>3 DEF Evaluate
  <2> QED
    BY <1>0, <2>1 DEF PolicyIds
<1> QED
  BY <1>1, <1>2, <1>3

\* The rules, one by one.
LEMMA Rules ==
  ASSUME NEW in, NEW score
  PROVE  /\ Fires("deny_injection_untrusted", in, score)
              <=> score > BlockThreshold /\ in.trust = "untrusted"
         /\ Fires("deny_destructive_tool", in, score) <=> in.tool = Repository
         /\ Fires("review_production_resource", in, score)
              <=> in.resource = Production /\ in.tool # Repository
BY DEF Fires

\* The verdict of a result is that of the rule; what nobody answered is decided by the
\* fail mode.
LEMMA ResultOfAnswer ==
  ASSUME NEW answer \in PolicyIds \cup {None}, NEW signals \in Signals \cup {<<>>}
  PROVE  LET r == ControlResult(answer, signals)
         IN /\ r \in Results
            /\ r.policy = answer
            /\ answer # None => r.evidence = signals
            /\ r.verdict = "review" => answer = "review_production_resource"
            /\ answer = "review_production_resource" => r.verdict = "review"
            /\ r.verdict = "allow" => answer = "default_allow"
                                        \/ (answer = None /\ FailMode = "open")
<1>0. None \notin PolicyIds
  BY ConstantsAssumption DEF PolicyIds, RuleNames
<1>1. CASE answer = None
  BY <1>0, <1>1, ConstantsAssumption DEF ControlResult, Results, FailModes, PolicyIds, RuleNames
<1>2. CASE answer \in PolicyIds
  <2>1. /\ Decision(answer) \in {"allow", "deny", "review"}
        /\ Decision(answer) = "review" <=> answer = "review_production_resource"
        /\ Decision(answer) = "allow" <=> answer = "default_allow"
    BY <1>2 DEF Decision, PolicyIds, RuleNames
  <2> QED
    BY <1>0, <1>2, <2>1 DEF ControlResult, Results
<1> QED
  BY <1>1, <1>2

\* The intent: the name is the tool call's, the trust is a trust level, the resource and
\* the agent are strings when they are there.
LEMMA IntentTypes ==
  ASSUME NEW supplied \in Supplied, TypeOK
  PROVE  /\ BuiltIntent(supplied) \in Intents
         /\ BuiltIntent(supplied).tool = tool
         /\ BuiltIntent(supplied).resource = Resolve("resource", supplied)
         /\ BuiltIntent(supplied).trust = Coerce(Resolve("context_trust", supplied))
<1>1. \A f \in Fields : Resolve(f, supplied) \in STRING \cup {None}
  BY ConstantsAssumption DEF Resolve, Supplied, TypeOK, Fields
<1>2. /\ OrDefault(Resolve("agent_id", supplied)) \in STRING
      /\ Resolve("resource", supplied) \in STRING \cup {None}
  BY <1>1, ConstantsAssumption DEF OrDefault, Fields
<1>3. Coerce(Resolve("context_trust", supplied)) \in Trusts
  BY DEF Coerce, Trusts
<1>4. tool \in STRING
  BY ConstantsAssumption DEF TypeOK
<1> QED
  BY <1>2, <1>3, <1>4 DEF BuiltIntent, Intents

(***************************************************************************)
(* Types.                                                                  *)
(***************************************************************************)

\* Every variable keeps its type (build_action_intent, authorize, _decide).
THEOREM TypeCorrect == Spec => []TypeOK
<1>1. Init => TypeOK
  BY DEF Init, TypeOK, Stages
<1>2. TypeOK /\ [Next]_vars => TypeOK'
  <2> SUFFICES ASSUME TypeOK, [Next]_vars
               PROVE  TypeOK'
    OBVIOUS
  <2>1. CASE BuildIntent
    <3>1. PICK supplied \in Supplied :
            LET built == BuiltIntent(supplied)
            IN IF built.agent = "" \/ built.tool = ""
               THEN pc' = "raised" /\ UNCHANGED <<intent, result>>
               ELSE /\ intent' = built
                    /\ result' = held
                    /\ pc' = IF held # None THEN "acting" ELSE "gathering"
      BY <2>1 DEF BuildIntent
    <3>2. BuiltIntent(supplied) \in Intents
      BY IntentTypes
    <3> QED
      BY <2>1, <3>1, <3>2 DEF BuildIntent, TypeOK, Stages, call
  <2>2. CASE Gather
    BY <2>2 DEF Gather, TypeOK, Stages, call
  <2>3. CASE Authorize
    <3>1. \A answer \in {Evaluate(intent, Score(evidence)), None} :
            ControlResult(answer, evidence) \in Results
      BY EvaluateSound, ResultOfAnswer DEF TypeOK
    <3> QED
      BY <2>3, <3>1 DEF Authorize, TypeOK, Stages, call
  <2>4. CASE Allow \/ Deny \/ Resolved
    BY <2>4 DEF Allow, Deny, Resolved, Settle, TypeOK, Stages, call
  <2>5. CASE Suspend
    BY <2>5 DEF Suspend, TypeOK, Stages, call
  <2>6. CASE Resume
    BY <2>6 DEF Resume, TypeOK, Stages, call
  <2>7. CASE UNCHANGED vars
    BY <2>7 DEF TypeOK, vars, call
  <2> QED
    BY <2>1, <2>2, <2>3, <2>4, <2>5, <2>6, <2>7 DEF Next
<1> QED
  BY <1>1, <1>2, PTL DEF Spec

(***************************************************************************)
(* How an execution of a call hangs together.                              *)
(***************************************************************************)

\* The invariant the other theorems rest on: the intent is what build_action_intent makes
\* of the call, the result is the provider's for that intent and evidence or the kept one
\* of a review, and only a review is kept.
Consistent ==
  /\ pc \in {"gathering", "authorizing", "acting"} =>
       \E supplied \in Supplied : intent = BuiltIntent(supplied)
  /\ pc # "ended" => ~ran
  /\ pc = "called" => evidence = <<>>
  /\ pc \in {"gathering", "authorizing"} => held = None
  /\ held # None => held.verdict = "review" /\ reviewed
  /\ pc = "acting" /\ held # None => result = held /\ evidence = <<>>
  /\ pc = "acting" /\ held = None =>
       \E answer \in {Evaluate(intent, Score(evidence)), None} :
         result = ControlResult(answer, evidence)

\* Executions are consistent (_decide, _act, _run_review).
THEOREM ExecutionsAreConsistent == Spec => []Consistent
<1>1. Init => Consistent
  BY DEF Init, Consistent
<1>2. TypeOK /\ Consistent /\ [Next]_vars => Consistent'
  <2> SUFFICES ASSUME TypeOK, Consistent, [Next]_vars
               PROVE  Consistent'
    OBVIOUS
  <2>0. call' = call => \A supplied \in Supplied : BuiltIntent(supplied)' = BuiltIntent(supplied)
    BY DEF call, BuiltIntent, Resolve
  <2>1. CASE BuildIntent
    BY <2>0, <2>1 DEF BuildIntent, Consistent
  <2>2. CASE Gather
    BY <2>0, <2>2 DEF Gather, Consistent
  <2>3. CASE Authorize
    BY <2>0, <2>3 DEF Authorize, Consistent
  <2>4. CASE Allow \/ Deny \/ Resolved
    BY <2>4 DEF Allow, Deny, Resolved, Settle, Consistent
  <2>5. CASE Suspend
    BY <2>5 DEF Suspend, Consistent
  <2>6. CASE Resume
    BY <2>6 DEF Resume, Consistent
  <2>7. CASE UNCHANGED vars
    BY <2>0, <2>7 DEF vars, Consistent
  <2> QED
    BY <2>1, <2>2, <2>3, <2>4, <2>5, <2>6, <2>7 DEF Next
<1> QED
  BY <1>1, <1>2, TypeCorrect, PTL DEF Spec

\* What the hook goes by when nothing was kept: the bundle's answer for this intent, or
\* nobody's.
LEMMA Acting ==
  ASSUME TypeOK, Consistent, pc = "acting", held = None
  PROVE  /\ intent.tool = tool
         /\ \E supplied \in Supplied :
              /\ intent.resource = Resolve("resource", supplied)
              /\ intent.trust = Coerce(Resolve("context_trust", supplied))
         /\ \E answer \in PolicyIds \cup {None} :
              /\ result = ControlResult(answer, evidence)
              /\ answer # None => answer = Evaluate(intent, Score(evidence))
              /\ \A rule \in RuleNames :
                   /\ answer = rule => Fires(rule, intent, Score(evidence))
                   /\ Fires(rule, intent, Score(evidence)) => answer \in {rule, None}
<1>1. PICK supplied \in Supplied : intent = BuiltIntent(supplied)
  BY DEF Consistent
<1>2. PICK answer \in {Evaluate(intent, Score(evidence)), None} :
        result = ControlResult(answer, evidence)
  BY DEF Consistent
<1>3. None \notin RuleNames
  BY ConstantsAssumption DEF PolicyIds
<1>4. answer \in PolicyIds \cup {None}
  BY EvaluateSound
<1>5. \A rule \in RuleNames :
        /\ answer = rule => Fires(rule, intent, Score(evidence))
        /\ Fires(rule, intent, Score(evidence)) => answer \in {rule, None}
  BY <1>3, EvaluateSound
<1> QED
  BY <1>1, <1>2, <1>4, <1>5, IntentTypes

(***************************************************************************)
(* The properties.                                                         *)
(***************************************************************************)

\* A record explains its decision, whatever the deployment (_decision_span_attributes).
THEOREM RecordsAreExplained == Spec => []RecordsExplain
<1>1. Init => RecordsExplain
  BY DEF Init, RecordsExplain
<1>2. TypeOK /\ Consistent /\ RecordsExplain /\ [Next]_vars => RecordsExplain'
  <2> SUFFICES ASSUME TypeOK, Consistent, RecordsExplain, [Next]_vars
               PROVE  RecordsExplain'
    OBVIOUS
  <2>1. \A in, score : Evaluate(in, score)' = Evaluate(in, score)
    BY DEF Evaluate, Fires
  <2>2. CASE UNCHANGED records
    BY <2>1, <2>2 DEF RecordsExplain
  <2>3. CASE pc = "acting" /\ Emit
    <3>1. /\ Attributes.policy = result.policy /\ Attributes.kept = (held # None)
          /\ Attributes.score = Score(result.evidence)
          /\ Attributes.tool = intent.tool /\ Attributes.resource = intent.resource
          /\ Attributes.trust = intent.trust
      BY DEF Attributes
    <3>2. Evaluate(Attributes, Attributes.score) = Evaluate(intent, Score(result.evidence))
      BY <3>1 DEF Evaluate, Fires
    <3>3. ASSUME held = None, result.policy # None
          PROVE  Evaluate(intent, Score(result.evidence)) = result.policy
      <4>1. PICK answer \in PolicyIds \cup {None} :
              /\ result = ControlResult(answer, evidence)
              /\ answer # None => answer = Evaluate(intent, Score(evidence))
        BY <2>3, <3>3, Acting
      <4>2. result.policy = answer /\ (answer # None => result.evidence = evidence)
        BY <4>1, ResultOfAnswer DEF TypeOK
      <4> QED
        BY <3>3, <4>1, <4>2
    <3> QED
      BY <2>1, <2>3, <3>1, <3>2, <3>3 DEF Emit, RecordsExplain
  <2> QED
    BY <2>2, <2>3 DEF Next, BuildIntent, Gather, Authorize, Allow, Deny, Resolved, Settle,
                      Suspend, Resume, vars
<1> QED
  BY <1>1, <1>2, TypeCorrect, ExecutionsAreConsistent, PTL DEF Spec

\* Fail-closed, an unanswered authorization denies.
LEMMA ClosedResult ==
  ASSUME TypeOK, Consistent, pc = "acting", held = None, FailMode = "closed"
  PROVE  /\ intent.tool = tool
         /\ intent.tool = Repository => result.verdict = "deny"
         /\ intent.resource = Production => result.verdict # "allow"
         /\ result.verdict = "review" =>
              intent.resource = Production /\ intent.tool # Repository
         /\ intent.trust = "untrusted" /\ Score(evidence) > BlockThreshold
              => result.verdict = "deny"
<1>1. PICK answer \in PolicyIds \cup {None} :
        /\ result = ControlResult(answer, evidence)
        /\ \A rule \in RuleNames :
             /\ answer = rule => Fires(rule, intent, Score(evidence))
             /\ Fires(rule, intent, Score(evidence)) => answer \in {rule, None}
  BY Acting
<1>2. /\ result \in Results
      /\ result.verdict = "review" => answer = "review_production_resource"
      /\ result.verdict = "allow" => answer = "default_allow"
  BY <1>1, ResultOfAnswer DEF TypeOK
<1>3. None \notin PolicyIds
  BY ConstantsAssumption
<1>4. result.verdict \in {"allow", "deny", "review"}
  BY <1>2 DEF Results
<1> QED
  BY <1>1, <1>2, <1>3, <1>4, Acting, Rules DEF RuleNames, PolicyIds

\* The tool the bundle blocks never runs, when the deployment is fail-closed.
THEOREM DestructiveToolsNeverRun ==
  ASSUME FailMode = "closed", Destructive \subseteq {Repository}
  PROVE  Spec => []DestructiveNeverRuns
<1> DEFINE Blocked == tool = Repository => ~reviewed /\ ~ran
<1>1. Init => Blocked
  BY DEF Init
<1>2. TypeOK /\ Consistent /\ Blocked /\ [Next]_vars => Blocked'
  <2> SUFFICES ASSUME TypeOK, Consistent, Blocked, [Next]_vars, tool = Repository
               PROVE  ~reviewed' /\ ~ran'
    BY DEF Next, BuildIntent, Gather, Authorize, Allow, Deny, Resolved, Settle, Suspend,
           Resume, vars, call
  <2>1. held = None
    BY DEF Consistent
  <2>2. pc = "acting" => result.verdict = "deny"
    BY <2>1, ClosedResult
  <2>3. ~reviewed /\ ~ran
    BY DEF Next, BuildIntent, Gather, Authorize, Allow, Deny, Resolved, Settle, Suspend,
           Resume, vars, call
  <2>4. CASE UNCHANGED <<reviewed, ran>>
    BY <2>3, <2>4
  <2>5. CASE Allow \/ Suspend
    BY <2>2, <2>5 DEF Allow, Suspend
  <2>6. CASE Deny
    BY <2>3, <2>6 DEF Deny, Settle
  <2>7. CASE Resolved
    BY <2>3, <2>7 DEF Resolved
  <2> QED
    BY <2>4, <2>5, <2>6, <2>7 DEF Next, BuildIntent, Gather, Authorize, Resume, vars
<1>3. Blocked => DestructiveNeverRuns
  BY DEF DestructiveNeverRuns
<1> QED
  BY <1>1, <1>2, <1>3, TypeCorrect, ExecutionsAreConsistent, PTL DEF Spec

\* Whatever resolvers return the second time, a reviewed call gets past its review only on
\* another resource, and its records say so, when the deployment is fail-closed
\* (_decide, authorize, _decision_span_attributes).
THEOREM EscapesAreShown ==
  ASSUME FailMode = "closed"
  PROVE  Spec => []TrailShowsEscapes
<1> DEFINE ShowsReview == \E r \in records : r.policy = "review_production_resource"
                                             /\ r.resource = Production
           Shows == (reviewed => ShowsReview) /\ TrailShowsEscapes
<1>1. Init => Shows
  BY DEF Init, TrailShowsEscapes
<1>2. TypeOK /\ Consistent /\ Shows /\ [Next]_vars => Shows'
  <2> SUFFICES ASSUME TypeOK, Consistent, Shows, [Next]_vars
               PROVE  Shows'
    OBVIOUS
  <2>1. Production' = Production
    BY DEF Production
  <2>2. ASSUME pc = "acting", held = None
        PROVE  /\ result.verdict = "review" => /\ intent.resource = Production
                                               /\ result.policy = "review_production_resource"
               /\ result.verdict = "allow" => /\ intent.resource # Production
                                              /\ result.policy = "default_allow"
    <3>1. PICK answer \in PolicyIds \cup {None} : result = ControlResult(answer, evidence)
      BY <2>2, Acting
    <3>2. /\ result.policy = answer
          /\ result.verdict = "review" => answer = "review_production_resource"
          /\ result.verdict = "allow" => answer = "default_allow"
      BY <3>1, ResultOfAnswer DEF TypeOK
    <3> QED
      BY <2>2, <3>2, ClosedResult
  <2>3. CASE UNCHANGED <<records, reviewed, ran, approved>>
    BY <2>1, <2>3 DEF TrailShowsEscapes
  <2>4. CASE Allow
    <3>1. held = None
      BY <2>4 DEF Allow, Consistent
    <3>2. /\ Attributes.policy = "default_allow"
          /\ Attributes.resource # Production
      BY <2>2, <2>4, <3>1 DEF Allow, Attributes
    <3>3. records' = records \cup {Attributes} /\ reviewed' = reviewed
      BY <2>4 DEF Allow, Settle, Emit
    <3>4. reviewed => \E before, after \in records' :
            /\ before.policy = "review_production_resource" /\ after.policy = "default_allow"
            /\ before.resource # after.resource
      BY <3>2, <3>3
    <3>5. reviewed' => ShowsReview'
      BY <2>1, <3>3
    <3> QED
      BY <3>3, <3>4, <3>5 DEF TrailShowsEscapes
  <2>5. CASE Deny \/ Resolved
    <3>1. /\ ran' = approved' /\ reviewed' = reviewed
          /\ records' = records \cup {Attributes}
      BY <2>5 DEF Deny, Resolved, Settle, Emit
    <3>2. reviewed' => ShowsReview'
      BY <2>1, <3>1
    <3> QED
      BY <3>1, <3>2 DEF TrailShowsEscapes
  <2>6. CASE Suspend
    <3>1. held = None /\ ~ran'
      BY <2>6 DEF Suspend, Consistent
    <3>2. /\ Attributes.policy = "review_production_resource"
          /\ Attributes.resource = Production
      BY <2>2, <2>6, <3>1 DEF Suspend, Attributes
    <3>3. ShowsReview'
      BY <2>1, <2>6, <3>2 DEF Suspend, Emit
    <3> QED
      BY <3>1, <3>3 DEF TrailShowsEscapes
  <2> QED
    BY <2>3, <2>4, <2>5, <2>6 DEF Next, BuildIntent, Gather, Authorize, Resume, vars
<1>3. Shows => TrailShowsEscapes
  OBVIOUS
<1> QED
  BY <1>1, <1>2, <1>3, TypeCorrect, ExecutionsAreConsistent, PTL DEF Spec

(***************************************************************************)
(* Tainted context.                                                        *)
(***************************************************************************)

\* A set of indices that is not empty has a greatest one.
LEMMA Greatest ==
  ASSUME NEW n \in Nat, NEW S \in SUBSET (1..n), S # {}
  PROVE  \E i \in S : \A j \in S : j <= i
<1> DEFINE T == {k \in Nat : n - k \in S}
           R == OpToRel(<, Nat)
<1>1. T \subseteq Nat /\ T # {}
  <2>1. PICK i \in S : TRUE
    OBVIOUS
  <2>2. i \in 1..n /\ n - i \in Nat /\ n - (n - i) = i
    BY <2>1
  <2>3. n - i \in T
    BY <2>2
  <2> QED
    BY <2>3
<1>2. \E x \in T : \A y \in T : <<y, x>> \notin R
  <2> HIDE DEF T, R
  <2>1. IsWellFoundedOn(R, Nat)
    BY NatLessThanWellFounded DEF R
  <2> QED
    BY <1>1, <2>1, WFMin
<1>3. \A x, y \in Nat : <<y, x>> \in R <=> y < x
  BY DEF OpToRel
<1> HIDE DEF R
<1>4. PICK x \in T : \A y \in T : <<y, x>> \notin R
  BY <1>2
<1>5. ASSUME NEW j \in S
      PROVE  j <= n - x
  <2>1. n - j \in Nat /\ n - (n - j) = j /\ x \in Nat
    BY <1>1
  <2>2. n - j \in T
    BY <2>1
  <2>3. ~(n - j < x)
    BY <1>3, <1>4, <2>1, <2>2
  <2> QED
    BY <2>1, <2>3
<1> QED
  BY <1>4, <1>5

\* When every injection score is over the threshold, so is the one the policy sees.
LEMMA TaintedScore ==
  ASSUME NEW signals \in Signals, Tainted(signals)
  PROVE  Score(signals) > BlockThreshold
<1> DEFINE at == {i \in DOMAIN signals : signals[i].key = InjectionScore}
<1>1. signals \in Seq([key : STRING \X STRING, value : Int])
  BY ConstantsAssumption
<1>2. at \in SUBSET (1..Len(signals)) /\ at # {} /\ Len(signals) \in Nat
  BY <1>1 DEF Tainted
<1>3. \E i \in at : \A j \in at : j <= i
  <2> HIDE DEF at
  <2> QED
    BY <1>2, Greatest
<1>4. PICK i \in at : Grouped(signals, InjectionScore) = signals[i].value
  BY <1>2, <1>3 DEF Grouped
<1>5. signals[i].value \in Int /\ signals[i].value > BlockThreshold
  <2>1. signals[i].value > BlockThreshold
    BY <1>4 DEF Tainted
  <2> DEFINE Signal == [key : STRING \X STRING, value : Int]
  <2>2. signals[i] \in Signal
    <3>1. signals \in Seq(Signal) /\ i \in 1..Len(signals)
      BY <1>1, <1>2
    <3> HIDE DEF Signal, at
    <3> QED
      BY <3>1
  <2> QED
    BY <2>1, <2>2
<1>6. None \notin Int
  BY ConstantsAssumption
<1> QED
  BY <1>4, <1>5, <1>6 DEF Score

\* An untrusted call with nothing but high injection scores never runs, when the
\* deployment is fail-closed.
THEOREM TaintedCallsNeverRun ==
  ASSUME FailMode = "closed"
  PROVE  Spec => []TaintedNeverRuns
<1> DEFINE Clean == Untrusted => /\ held # None => ~Tainted(held.evidence)
                                 /\ ran => ~Tainted(DecidedOn)
<1>1. Init => Clean
  BY DEF Init
<1>2. TypeOK /\ Consistent /\ Clean /\ [Next]_vars => Clean'
  <2> SUFFICES ASSUME TypeOK, Consistent, Clean, [Next]_vars, Untrusted
               PROVE  /\ held' # None => ~Tainted(held'.evidence)
                      /\ ran' => ~Tainted(DecidedOn)'
    BY DEF Next, BuildIntent, Gather, Authorize, Allow, Deny, Resolved, Settle, Suspend,
           Resume, vars, call, Untrusted, Coerce
  <2>1. \A supplied : Coerce(Resolve("context_trust", supplied)) = "untrusted"
    BY DEF Untrusted, Coerce, Resolve
  <2>2. ~Tainted(<<>>)
    BY DEF Tainted
  <2>3. ASSUME pc = "acting", held = None, result.verdict \in {"allow", "review"}
        PROVE  ~Tainted(DecidedOn) /\ ~Tainted(result.evidence)
    <3>1. ~Tainted(evidence)
      <4>1. evidence \in Signals \/ evidence = <<>>
        BY DEF TypeOK
      <4>2. intent.trust = "untrusted"
        BY <2>1, <2>3, Acting
      <4>3. ~(Score(evidence) > BlockThreshold)
        BY <2>3, <4>2, ClosedResult
      <4> QED
        BY <2>2, <4>1, <4>3, TaintedScore
    <3>2. result.evidence \in {evidence, <<>>}
      BY <2>3 DEF Consistent, ControlResult
    <3> QED
      BY <2>2, <3>1, <3>2 DEF DecidedOn
  <2>4. ASSUME pc = "acting", held # None
        PROVE  ~Tainted(DecidedOn)
    BY <2>4 DEF Consistent, DecidedOn
  <2>5. CASE UNCHANGED <<held, ran, evidence, result>>
    BY <2>5 DEF DecidedOn, Tainted
  <2>6. CASE BuildIntent \/ Gather \/ Authorize \/ Resume
    <3>1. ~ran'
      <4>1. ~ran /\ ran' = ran
        BY <2>6 DEF BuildIntent, Gather, Authorize, Resume, Consistent
      <4> QED
        BY <4>1
    <3>2. held' \in {held, None}
      BY <2>6 DEF BuildIntent, Gather, Authorize, Resume
    <3> QED
      BY <3>1, <3>2
  <2>7. CASE Allow \/ Deny \/ Resolved
    <3>1. held' = None /\ DecidedOn' = DecidedOn
      BY <2>7 DEF Allow, Deny, Resolved, Settle, DecidedOn
    <3>2. CASE Allow \/ Resolved
      <4>1. ~Tainted(DecidedOn)
        BY <2>3, <2>4, <3>2 DEF Allow, Resolved
      <4> QED
        BY <3>1, <4>1 DEF Tainted
    <3>3. CASE Deny
      BY <3>1, <3>3 DEF Deny, Settle
    <3> QED
      BY <2>7, <3>2, <3>3
  <2>8. CASE Suspend
    <3>1. held = None /\ ~ran' /\ held' = result
      BY <2>8 DEF Suspend, Consistent
    <3> QED
      BY <2>3, <2>8, <3>1 DEF Suspend
  <2> QED
    BY <2>5, <2>6, <2>7, <2>8 DEF Next, vars
<1>3. Clean => TaintedNeverRuns
  BY DEF TaintedNeverRuns
<1> QED
  BY <1>1, <1>2, <1>3, TypeCorrect, ExecutionsAreConsistent, PTL DEF Spec
=============================================================================
