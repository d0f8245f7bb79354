-------------------------- MODULE MCGovernedCalls ---------------------------
(* Small instances of GovernedCalls for TLC. *)
EXTENDS GovernedCalls

CONSTANTS a, b, d   \* tool calls

\* Every call has an id of its own; or a provider numbers the calls of each turn anew,
\* and d, in the second turn, has the id of a.
OwnIds == [c \in Calls |-> IF c = a THEN <<"0">> ELSE IF c = b THEN <<"1">> ELSE <<"2">>]
ReusedIds == [c \in Calls |-> IF c = b THEN <<"1">> ELSE <<"0">>]
\* A provider gives no ids: "-" stands for every one of them.
MissingIds == [c \in Calls |-> <<"-">>]

\* Two calls on one thread, one after the other, or side by side in one turn.
OneThread == [c \in Calls |-> <<"t">>]
Successive == [c \in Calls |-> IF c = a THEN 1 ELSE 2]
Parallel == [c \in Calls |-> 1]

\* One thread each, and a thread whose id has two segments.
TwoThreads == [c \in Calls |-> IF c = a THEN <<"t">> ELSE <<"u">>]
SegmentedThread == [c \in Calls |-> <<"t", "v">>]

\* a and b follow each other on one thread, d is alone on another one.
Crossed == [c \in Calls |-> IF c = d THEN <<"u">> ELSE <<"t">>]
CrossedTurns == [c \in Calls |-> IF c = b THEN 2 ELSE 1]

AlwaysReview == [c \in Calls |-> {"REVIEW"}]
\* a and b are held in one turn; in the next one the policy settles d by itself.
HeldThenSettled == [c \in Calls |-> IF c = d THEN 2 ELSE 1]
SettledLast == [c \in Calls |-> IF c = d THEN {"ALLOW", "DENY"} ELSE {"REVIEW"}]
\* Outage under fail_mode "open": an authorization may come back ALLOW.
FailOpen == [c \in Calls |-> {"REVIEW", "ALLOW"}]

\* a's window is the policy's, b's is the default one.
Windows == [c \in Calls |-> IF c = a THEN 1 ELSE 0]
CrossedWindows == [c \in Calls |-> IF c = d THEN 1 ELSE 2]

\* A decision alone, or with a hold that was over before the start, or that outlasts the end.
SomeDeadlines == {None, 0, Horizon + 1}
=============================================================================
