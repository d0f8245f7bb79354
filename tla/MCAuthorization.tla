-------------------------- MODULE MCAuthorization ---------------------------
(* Small instances of Authorization for TLC. *)
EXTENDS Authorization

ToolNames == {"", Repository, "delete_repository", "github.create_issue"}
InState ==
  [agent_id |-> {None, ""}, resource |-> {None, Production},
   context_trust |-> {None, "untrusted", " Untrusted", "trusted"}]
ResolverValues ==
  [agent_id |-> {None, "agent"}, resource |-> {None, "public/docs", Production},
   context_trust |-> {None, "untrusted", "trusted", "safe, I promise"}]

\* Of the strings here, one has something to strip and to lower.
StripLower(value) == IF value = " Untrusted" THEN "untrusted" ELSE value

\* At most two signals: the score on each side of the threshold, and another one.
Signal(key, value) == [key |-> key, value |-> value]
SomeSignals == {Signal(InjectionScore, 8), Signal(InjectionScore, 9),
                Signal(<<"pii", "score">>, 10)}
UpToTwoSignals == {<<>>} \cup {<<s>> : s \in SomeSignals}
                    \cup {<<s, t>> : s, t \in SomeSignals}

\* The tool the bundle names, and the one the repository's example calls.
BundleDestructive == {Repository}
ExampleDestructive == {"delete_repository"}
=============================================================================
