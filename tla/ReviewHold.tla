----------------------------- MODULE ReviewHold -----------------------------
(***************************************************************************)
(* The pure functions of adapters/langgraph/review.py: when a hold's       *)
(* window closes and what a resume value resolves it to.                   *)
(*                                                                         *)
(* A hold is abstracted to its deadline.  Its id is the call it belongs to *)
(* and its other fields are display text.  Instants and windows are        *)
(* integers in one unit of time.                                           *)
(***************************************************************************)
EXTENDS Integers

CONSTANT None   \* Python's None, and the absence of an entry in a dict

(***************************************************************************)
(* The resume values the code tells apart: the answers of a reviewer, two  *)
(* decisions and anything it does not recognise; the watchdog's sentinel.  *)
(***************************************************************************)
Decisions == {"approve", "reject"}
TimeoutSentinel == "__agentcontrol_timeout__"
Answers == Decisions \cup {"unrecognized"}
Responses == Answers \cup {TimeoutSentinel}

ReviewStates == {"approved", "rejected", "timed_out"}

(***************************************************************************)
(* `result.review_timeout_seconds or fallback`: a window of zero, like an  *)
(* absent one, takes the fallback; a negative one is kept.                 *)
(***************************************************************************)
Window(reviewTimeout, fallback) ==
  IF reviewTimeout \in {None, 0} THEN fallback ELSE reviewTimeout

BuildHold(reviewTimeout, fallback, now) == now + Window(reviewTimeout, fallback)

IsExpired(deadline, now) == now > deadline

\* Mutant: whatever is not a rejection counts as an approval.
ParseDecision_NoRejection(response) ==
  IF response = "reject" THEN response ELSE "approve"

ParseDecision(response) == IF response \in Decisions THEN response ELSE None

\* Mutants: an approval is looked at before expiry; a timeout is not told from a
\* rejection; the decision itself is returned as the state.
Resolve_ApprovalFirst(deadline, response, now) ==
  IF ParseDecision(response) = "approve" THEN "approved"
  ELSE IF IsExpired(deadline, now) THEN "timed_out"
  ELSE "rejected"

Resolve_TimeoutIsRejection(deadline, response, now) ==
  IF ~IsExpired(deadline, now) /\ ParseDecision(response) = "approve"
  THEN "approved" ELSE "rejected"

Resolve_ToDecision(deadline, response, now) ==
  IF IsExpired(deadline, now) THEN "timed_out" ELSE response

(***************************************************************************)
(* Expiry is looked at first and overrides the response; a value that is   *)
(* not an approval, the sentinel included, is then a rejection.            *)
(***************************************************************************)
Resolve(deadline, response, now) ==
  IF IsExpired(deadline, now) THEN "timed_out"
  ELSE IF ParseDecision(response) = "approve" THEN "approved"
  ELSE "rejected"
=============================================================================
