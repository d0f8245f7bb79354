--------------------------- MODULE Authorization ----------------------------
(***************************************************************************)
(* What a tool call is authorized on, and what comes of it: the intent     *)
(* built from the agent's state and the configured resolvers, the evidence *)
(* grouped into the policy's input, the Rego bundle of the repository, the *)
(* provider's result, and the record of the decision.                      *)
(*                                                                         *)
(* A call is executed again from its start when its review is answered.    *)
(* Its name and the agent's state come back from the checkpoint; resolvers *)
(* are called again and may return anything else or fail, evidence is      *)
(* gathered again if the hold is not in memory, and OPA may be gone.       *)
(* GovernedCalls takes any verdict at each authorization; here is what the *)
(* shipped bundle can answer.                                              *)
(***************************************************************************)
EXTENDS Integers, Sequences

CONSTANTS
  None,
  Tools,           \* the names a tool call may have; "" when it has none
  StateValues,     \* [Fields -> what the agent's state may hold for the field]
  Supplies,        \* [Fields -> what the resolver of the field may return], at
                   \* each call of it; None also when it raises, or there is none
  StateKeys,       \* the fields with a state key
  DefaultAgent,    \* default_agent_id
  Normal(_),       \* str.strip().lower()
  Signals,         \* the evidence the collectors may come up with
  FailMode,        \* policy.fail_mode
  Destructive      \* the tools the deployment calls destructive

Fields == {"agent_id", "resource", "context_trust"}
FailModes == {"closed", "open"}
RuleNames == {"deny_injection_untrusted", "deny_destructive_tool",
              "review_production_resource"}
PolicyIds == RuleNames \cup {"default_allow"}

ASSUME ConstantsAssumption ==
  /\ Tools \subseteq STRING /\ DefaultAgent \in STRING
  /\ \A f \in Fields : StateValues[f] \subseteq STRING \cup {None}
  /\ \A f \in Fields : Supplies[f] \subseteq STRING \cup {None}
  /\ StateKeys \subseteq Fields
  /\ Signals \subseteq Seq([key : STRING \X STRING, value : Int])
  /\ FailMode \in FailModes
  /\ None \notin STRING \cup Int \cup PolicyIds

VARIABLES
  tool,      \* the name in the tool call: never changes
  state,     \* [Fields -> the value in the agent's state]: never changes
  pc,        \* how far the hook is with the call
  intent,    \* the ActionIntent of this execution of the call, or None
  evidence,  \* the evidence gathered in it
  result,    \* the ControlResult it goes by, or None
  held,      \* the result kept with the hold in the middleware's memory, or None
  records,   \* what the governance records say of the input (how many there are of
             \* them is in GovernedCalls)
  reviewed,  \* the call was suspended for review
  approved,  \* the reviewer approved it
  ran        \* the tool has run

call == <<tool, state>>
vars == <<call, pc, intent, evidence, result, held, records, reviewed, approved, ran>>

Trusts == {"trusted", "untrusted", "unknown"}
Intents == [agent : STRING, tool : STRING, resource : STRING \cup {None}, trust : Trusts]
Results == [verdict : {"allow", "deny", "review"}, policy : PolicyIds \cup {None},
            evidence : Signals \cup {<<>>}]
Stages == {"called", "gathering", "authorizing", "acting", "suspended", "ended", "raised"}

Init ==
  /\ tool \in Tools
  /\ state \in {s \in [Fields -> UNION {StateValues[f] : f \in Fields}] :
                  \A f \in Fields : s[f] \in StateValues[f]}
  /\ pc = "called"
  /\ intent = None /\ evidence = <<>> /\ result = None /\ held = None
  /\ records = {}
  /\ reviewed = FALSE /\ approved = FALSE /\ ran = FALSE

-----------------------------------------------------------------------------
(* build_action_intent: the fields from the state, else from their resolvers. *)

\* What the resolvers return in one execution of the call, a raising one nothing.
Supplied ==
  {s \in [Fields -> UNION {Supplies[f] : f \in Fields}] : \A f \in Fields : s[f] \in Supplies[f]}

\* Mutant: the resolver goes before the state.
Resolve_ResolverFirst(f, supplied) == IF supplied[f] # None THEN supplied[f] ELSE state[f]

Resolve(f, supplied) ==
  IF f \in StateKeys /\ state[f] # None THEN state[f] ELSE supplied[f]

\* Mutant: what is not recognized is passed on.
Coerce_AsIs(value) == IF value = None THEN "unknown" ELSE value

\* ContextTrust.coerce.
Coerce(value) ==
  IF value # None /\ Normal(value) \in Trusts THEN Normal(value) ELSE "unknown"

OrDefault(agent) == IF agent \in {None, ""} THEN DefaultAgent ELSE agent

BuiltIntent(supplied) ==
  [agent |-> OrDefault(Resolve("agent_id", supplied)),
   tool |-> tool,
   resource |-> Resolve("resource", supplied),
   trust |-> Coerce(Resolve("context_trust", supplied))]

\* ActionIntent refuses to be built without an agent or a tool: the hook raises.  A
\* hold in memory is replayed without another authorization.
BuildIntent ==
  /\ pc = "called"
  /\ \E supplied \in Supplied :
       LET built == BuiltIntent(supplied)
       IN IF built.agent = "" \/ built.tool = ""
          THEN pc' = "raised" /\ UNCHANGED <<intent, result>>
          ELSE /\ intent' = built
               /\ result' = held
               /\ pc' = IF held # None THEN "acting" ELSE "gathering"
  /\ UNCHANGED <<call, evidence, held, records, reviewed, approved, ran>>

Gather ==
  /\ pc = "gathering"
  /\ evidence' \in Signals
  /\ pc' = "authorizing"
  /\ UNCHANGED <<call, intent, result, held, records, reviewed, approved, ran>>

-----------------------------------------------------------------------------
(* The policy's input, and the bundle. *)

\* to_policy_input and _evidence_attributes: of several values given for one signal of
\* one collector, the last one stays.
Grouped(signals, key) ==
  LET at == {i \in DOMAIN signals : signals[i].key = key}
  IN IF at = {} THEN None ELSE signals[CHOOSE i \in at : \A j \in at : j <= i].value

InjectionScore == <<"nemo_injection", "score">>
BlockThreshold == 8   \* in tenths

\* object.get(input, ["evidence", "nemo_injection", "score"], 0)
Score(signals) ==
  IF Grouped(signals, InjectionScore) = None THEN 0 ELSE Grouped(signals, InjectionScore)

Repository == "github.delete_repository"
Production == "company/production"

\* Mutant: on production a destructive tool is reviewed like any other.
Fires_ReviewsAll(rule, in, score) ==
  CASE rule = "deny_injection_untrusted" ->
         score > BlockThreshold /\ in.trust = "untrusted"
    [] rule = "deny_destructive_tool" -> in.tool = Repository /\ in.resource # Production
    [] rule = "review_production_resource" -> in.resource = Production

\* The bodies of the rules that define `result`.
Fires(rule, in, score) ==
  CASE rule = "deny_injection_untrusted" ->
         score > BlockThreshold /\ in.trust = "untrusted"
    [] rule = "deny_destructive_tool" -> in.tool = Repository
    [] rule = "review_production_resource" ->
         in.resource = Production /\ in.tool # Repository

Decision(policy) ==
  CASE policy \in {"deny_injection_untrusted", "deny_destructive_tool"} -> "deny"
    [] policy = "review_production_resource" -> "review"
    [] policy = "default_allow" -> "allow"

\* What OPA evaluates `result` to: the default when no rule applies; nothing when two do,
\* since a complete rule cannot have two values (OPA answers 500).
Evaluate(in, score) ==
  LET fired == {rule \in RuleNames : Fires(rule, in, score)}
  IN IF fired = {} THEN "default_allow"
     ELSE IF \E rule \in fired : fired = {rule} THEN CHOOSE rule \in fired : TRUE
     ELSE None

\* Mutant: an outage allows.
ControlResult_FailsOpen(policy, signals) ==
  [verdict |-> IF policy = None THEN "allow" ELSE Decision(policy),
   policy |-> policy, evidence |-> IF policy = None THEN <<>> ELSE signals]

\* OPAPolicyProvider.authorize: what is not answered goes by the fail mode.
ControlResult(policy, signals) ==
  IF policy # None
  THEN [verdict |-> Decision(policy), policy |-> policy, evidence |-> signals]
  ELSE [verdict |-> IF FailMode = "open" THEN "allow" ELSE "deny",
        policy |-> None, evidence |-> <<>>]

Authorize ==
  /\ pc = "authorizing"
  /\ \E answer \in {Evaluate(intent, Score(evidence)), None} :
       result' = ControlResult(answer, evidence)
  /\ pc' = "acting"
  /\ UNCHANGED <<call, intent, evidence, held, records, reviewed, approved, ran>>

-----------------------------------------------------------------------------
(* _act: the verdict, the review, and the records. *)

\* Mutant: the trust of the context is left out.
Attributes_NoTrust ==
  [policy |-> result.policy, tool |-> intent.tool, resource |-> intent.resource,
   trust |-> "unknown", score |-> Score(result.evidence), kept |-> held # None]

\* _decision_span_attributes: what a reader of the record is told of the input; and, for
\* the properties, whether the result was kept from an earlier execution.
Attributes ==
  [policy |-> result.policy, tool |-> intent.tool, resource |-> intent.resource,
   trust |-> intent.trust, score |-> Score(result.evidence), kept |-> held # None]

Emit == records' = records \cup {Attributes}

Settle(runs, approves) ==
  /\ Emit
  /\ ran' = runs /\ approved' = approves /\ held' = None
  /\ pc' = "ended"
  /\ UNCHANGED <<call, intent, evidence, result, reviewed>>

Allow == pc = "acting" /\ result.verdict = "allow" /\ Settle(TRUE, FALSE)
Deny == pc = "acting" /\ result.verdict = "deny" /\ Settle(FALSE, FALSE)

\* interrupt() raises: the result is kept with the hold.
Suspend ==
  /\ pc = "acting" /\ result.verdict = "review" /\ ~reviewed
  /\ Emit
  /\ held' = result /\ reviewed' = TRUE
  /\ pc' = "suspended"
  /\ UNCHANGED <<call, intent, evidence, result, approved, ran>>

\* The review is answered and the call is executed again, the pending table perhaps lost.
Resume ==
  /\ pc = "suspended"
  /\ held' \in {held, None}
  /\ intent' = None /\ result' = None /\ evidence' = <<>>
  /\ pc' = "called"
  /\ UNCHANGED <<call, records, reviewed, approved, ran>>

\* interrupt() returns the answer.
Resolved ==
  /\ pc = "acting" /\ result.verdict = "review" /\ reviewed
  /\ \E approves \in BOOLEAN : Settle(approves, approves)

Next == BuildIntent \/ Gather \/ Authorize \/ Allow \/ Deny \/ Suspend \/ Resume \/ Resolved

Spec == Init /\ [][Next]_vars
-----------------------------------------------------------------------------
(* Properties. *)

TypeOK ==
  /\ tool \in Tools
  /\ \A f \in Fields : state[f] \in StateValues[f]
  /\ pc \in Stages
  /\ intent \in Intents \cup {None}
  /\ evidence \in Signals \cup {<<>>}
  /\ result \in Results \cup {None} /\ held \in Results \cup {None}
  /\ reviewed \in BOOLEAN /\ approved \in BOOLEAN /\ ran \in BOOLEAN

\* A destructive tool does not run, whatever the context, the evidence, the reviewer and
\* the state of OPA are (when outages deny).
DestructiveNeverRuns == ran => tool \notin Destructive

\* The evidence a call was decided on: gathered in this execution of it, or kept with
\* the result of an earlier one.
DecidedOn == IF evidence = <<>> THEN result.evidence ELSE evidence
Tainted(signals) ==
  LET scored == {i \in DOMAIN signals : signals[i].key = InjectionScore}
  IN scored # {} /\ \A i \in scored : signals[i].value > BlockThreshold
Untrusted == "context_trust" \in StateKeys /\ Coerce(state["context_trust"]) = "untrusted"

\* A call the agent's state marks untrusted does not run once every injection score
\* gathered for it is over the threshold: no resolver, other rule or outage lets it.
TaintedNeverRuns == ran /\ Untrusted => ~Tainted(DecidedOn)

\* A call that was sent to review runs only if it was approved, however often it is
\* authorized again: "re-authorization is safe".
ReviewStands == reviewed /\ ran => approved

\* One way only leads past a review, and the audit trail shows it: a reviewed call that runs
\* unapproved has a record of the review, and one of the default rule on another resource.  No
\* outage, new evidence, other trust or other agent gets it past, and no record hides it.
TrailShowsEscapes ==
  reviewed /\ ran /\ ~approved =>
    \E before, after \in records :
      /\ before.policy = "review_production_resource" /\ after.policy = "default_allow"
      /\ before.resource # after.resource

\* A reader of a record can tell why: the bundle, given what the record says of the
\* input, comes to the rule the record names.
RecordsExplain ==
  \A r \in records : r.policy # None /\ ~r.kept => Evaluate(r, r.score) = r.policy
=============================================================================
