--------------------------- MODULE HoldLifecycle ----------------------------
(***************************************************************************)
(* What the review workflow promises of every tool call, whatever runs,    *)
(* resumes, losses and replays it takes to get there: a hold is opened     *)
(* once, with a deadline that never changes; it is resolved once, to an    *)
(* approval or a rejection while its window is open, or to a timeout once  *)
(* it has closed; a held call's tool runs at most once, and only after an  *)
(* approval; a call that was never held runs at most once.                 *)
(***************************************************************************)
EXTENDS Integers

CONSTANTS Calls, None

VARIABLES
  clock,
  state,     \* [Calls -> "none", "pending", or what the hold was resolved to]
  deadline,  \* [Calls -> the hold's deadline, None before it is opened]
  ran        \* [Calls -> how many times the tool ran]

vars == <<clock, state, deadline, ran>>

Init ==
  /\ clock \in Int
  /\ state = [c \in Calls |-> "none"]
  /\ deadline = [c \in Calls |-> None]
  /\ ran = [c \in Calls |-> 0]

Advance ==
  /\ clock' \in Int /\ clock' > clock
  /\ UNCHANGED <<state, deadline, ran>>

Open(c) ==
  /\ state[c] = "none" /\ ran[c] = 0
  /\ state' = [state EXCEPT ![c] = "pending"]
  /\ deadline'[c] \in Int
  /\ deadline' = [deadline EXCEPT ![c] = deadline'[c]]
  /\ UNCHANGED <<clock, ran>>

Settle(c, outcome) ==
  /\ state[c] = "pending"
  /\ state' = [state EXCEPT ![c] = outcome]
  /\ UNCHANGED <<clock, deadline, ran>>

Answered(c) ==
  \E o \in {"approved", "rejected"} : Settle(c, o) /\ clock <= deadline[c]

TimedOut(c) == Settle(c, "timed_out") /\ clock > deadline[c]

RunTool(c) ==
  /\ state[c] \in {"none", "approved"}
  /\ ran[c] = 0
  /\ ran' = [ran EXCEPT ![c] = 1]
  /\ UNCHANGED <<clock, state, deadline>>

Next ==
  \/ Advance
  \/ \E c \in Calls : Open(c) \/ Answered(c) \/ TimedOut(c) \/ RunTool(c)

Spec == Init /\ [][Next]_vars
=============================================================================
