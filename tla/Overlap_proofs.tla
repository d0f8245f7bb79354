--------------------------- MODULE Overlap_proofs ---------------------------
(***************************************************************************)
(* GovernedCalls where the watchdog's run and the host's may be on one     *)
(* thread at the same time, as nothing in the code prevents, and where the *)
(* turns of a thread have one call each: what still holds then of the      *)
(* trails of the holds and of the table that lists them, whatever holds    *)
(* the hosts send back with their decisions.                               *)
(***************************************************************************)
EXTENDS AuditTrail_proofs

\* What the theorems rest on: no two calls of a turn; and no two calls with one hold id.
OneCallATurn == \A c, d \in Calls : Thread[c] = Thread[d] /\ Turn[c] = Turn[d] => c = d
IdsAreOwn == \A c, d \in Calls : HoldId(c) = HoldId(d) => c = d

-----------------------------------------------------------------------------
(* Runs that race on a thread: each is a first pass or an answered one. *)

\* The hook has not heard about the call: neither a verdict nor a decision.
Asking == {"lookup", "recover", "authorize"} \cup Reviewing

\* A run executes one task, of a turn that has begun.
TasksComeOnce ==
  \A r \in Runs, c \in Calls : task[r][c].pc # "idle" =>
    /\ running[r] = Thread[c] /\ Begun(c)
    /\ \A d \in Calls : task[r][d].pc # "idle" => d = c

\* The checkpoint has what was promised, in turns that have begun.
PromisesAreKept ==
  /\ interrupts = promised
  /\ \A c \in Calls : promised[c] # None => Begun(c)

\* The first pass over a call is alone with it and has nothing to resume it with; every
\* later one has an answer, and a hold was promised.
FirstPass(r, c) ==
  /\ Response(r, c) = None /\ promised[c] = None
  /\ \A q \in Runs : q # r => task[q][c].pc = "idle"
AnsweredPass(r, c) == Response(r, c) # None /\ promised[c] # None

PassesAreTold ==
  \A r \in Runs, c \in Calls :
    /\ task[r][c].pc \in Asking => FirstPass(r, c) \/ AnsweredPass(r, c)
    /\ task[r][c].pc \in Reviewing => task[r][c].hold # None
    /\ task[r][c].pc = "approved" => promised[c] # None

AnswersAreGiven == \A c \in unsent : answer[c] # None

Racing == TasksComeOnce /\ PromisesAreKept /\ PassesAreTold /\ AnswersAreGiven

\* What a step of a hook does to what the races depend on.
LEMMA HookMoves ==
  ASSUME TypeOK, Racing, NEW r \in Runs, NEW c \in Calls, TaskStep(r, c)
  PROVE  /\ task'[r][c].pc \in Asking =>
              task[r][c].pc \in Asking /\ UNCHANGED <<resume, promised>>
         /\ task'[r][c].pc \in Reviewing => task'[r][c].hold # None
         /\ task'[r][c].pc = "approved" => promised'[c] # None
         /\ promised[c] # None => promised'[c] = promised[c]
         /\ interrupts' = promised'
         /\ \A q \in Runs : q # r => resume'[q] = resume[q]
         /\ unsent' = unsent
  <1> USE DEF graph, hostVars, history
  <1>0. \A t : Goto(r, c, t) => task'[r][c] = t
    BY DEF Goto, TypeOK
  <1>1. interrupts = promised /\ unsent' = unsent
    BY DEF Racing, PromisesAreKept, TaskStep, LookupPending, RecoverHold, AuthorizeAllow,
           AuthorizeDeny, AuthorizeReview, Suspend, ResolveHold, ExecuteTool
  <1>2. CASE LookupPending(r, c)
    <2>1. task'[r][c] \in {Task("replayed", pending[HoldId(c)], FALSE),
                           Task("recover", None, FALSE)}
      BY <1>0, <1>2 DEF LookupPending
    <2>2. task'[r][c].pc = "replayed" => task'[r][c].hold # None
      BY <1>0, <1>2 DEF LookupPending, Task
    <2>3. task'[r][c].pc \in {"replayed", "recover"}
      BY <2>1 DEF Task
    <2>4. task[r][c].pc \in Asking /\ UNCHANGED <<resume, promised, interrupts>>
      BY <1>2 DEF LookupPending, Asking
    <2>5. QED
      BY <1>1, <2>2, <2>3, <2>4 DEF Reviewing
  <1>3. CASE RecoverHold(r, c)
    <2>1. PICK hold : Goto(r, c, Task("authorize", hold, FALSE))
      BY <1>3 DEF RecoverHold
    <2>2. task'[r][c].pc = "authorize"
      BY <1>0, <2>1 DEF Task
    <2>3. task[r][c].pc \in Asking /\ UNCHANGED <<resume, promised, interrupts>>
      BY <1>3 DEF RecoverHold, Asking
    <2>4. QED
      BY <1>1, <2>2, <2>3 DEF Reviewing
  <1>4. CASE AuthorizeAllow(r, c) \/ AuthorizeDeny(r, c) \/ ExecuteTool(r, c)
    <2>1. task'[r][c].pc \in {"allowed", "done"} /\ UNCHANGED <<resume, promised, interrupts>>
      BY <1>0, <1>4 DEF AuthorizeAllow, AuthorizeDeny, ExecuteTool, Task
    <2>2. QED
      BY <1>1, <2>1 DEF Asking, Reviewing
  <1>5. CASE AuthorizeReview(r, c)
    <2> DEFINE found == task[r][c].hold
               hold == IF found # None THEN found
                       ELSE BuildHold(ReviewTimeout[c], DefaultTimeout, now)
    <2>1. task'[r][c] = Task(IF found # None THEN "recovered" ELSE "fresh", hold, FALSE)
      BY <1>0, <1>5 DEF AuthorizeReview
    <2>2. BuildHold(ReviewTimeout[c], DefaultTimeout, now) \in Int
      BY ConstantsAssumption DEF TypeOK, BuildHold, Window
    <2>3. hold # None
      BY <2>2, ConstantFacts
    <2> HIDE DEF found, hold
    <2>4. task'[r][c].hold # None /\ task'[r][c].pc \in {"recovered", "fresh"}
      BY <2>1, <2>3 DEF Task
    <2>5. task[r][c].pc \in Asking /\ UNCHANGED <<resume, promised, interrupts>>
      BY <1>5 DEF AuthorizeReview, Asking
    <2>6. QED
      BY <1>1, <2>4, <2>5
  <1>6. CASE Suspend(r, c)
    <2>1. /\ task[r][c].pc \in Reviewing /\ Response(r, c) = None
          /\ interrupts' = [interrupts EXCEPT ![c] = task[r][c].hold]
          /\ promised' = [promised EXCEPT ![c] = IF @ = None THEN task[r][c].hold ELSE @]
          /\ task'[r][c].pc = "interrupted" /\ resume' = resume
      BY <1>0, <1>6 DEF Suspend, Task
    <2>2. promised[c] = None
      BY <2>1 DEF Racing, PassesAreTold, Asking, FirstPass, AnsweredPass
    <2>3. promised' = [promised EXCEPT ![c] = task[r][c].hold]
      BY <2>1, <2>2 DEF TypeOK
    <2>4. QED
      BY <1>1, <2>1, <2>2, <2>3 DEF Asking, Reviewing
  <1>7. CASE ResolveHold(r, c)
    <2>1. /\ task[r][c].pc \in Reviewing /\ Response(r, c) # None
          /\ UNCHANGED <<interrupts, promised>>
          /\ \A q \in Runs : q # r => resume'[q] = resume[q]
      BY <1>7 DEF ResolveHold, TypeOK
    <2>2. promised[c] # None
      BY <2>1 DEF Racing, PassesAreTold, Asking, FirstPass, AnsweredPass
    <2>3. task'[r][c].pc \in {"approved", "done"}
      <3>1. CASE Goto(r, c, Task("done", None, FALSE))
        BY <1>0, <3>1 DEF Task
      <3>2. CASE \E hold, replay : Goto(r, c, Task("approved", hold, replay))
        <4>1. PICK hold, replay : Goto(r, c, Task("approved", hold, replay))
          BY <3>2
        <4>2. QED
          BY <1>0, <4>1 DEF Task
      <3>3. QED
        BY <1>7, <3>1, <3>2 DEF ResolveHold
    <2>4. QED
      BY <1>1, <2>1, <2>2, <2>3 DEF Asking, Reviewing
  <1>8. QED
    BY <1>2, <1>3, <1>4, <1>5, <1>6, <1>7 DEF TaskStep

\* A step of a hook keeps the races what they are.
LEMMA TaskRacing ==
  ASSUME TypeOK, Racing, NEW r \in Runs, NEW c \in Calls, TaskStep(r, c)
  PROVE  Racing'
  <1>1. /\ task[r][c].pc # "idle" /\ Begun(c)
        /\ \A d \in Calls : Begun(d)' = Begun(d)
    BY TaskMoves DEF Racing, TasksComeOnce, Working, Ended, Begun
  <1>2. \A q \in Runs, d \in Calls : task'[q][d].pc # "idle" => task[q][d].pc # "idle"
    BY <1>1, TaskMoves
  <1>3. TasksComeOnce'
    BY <1>1, <1>2, TaskMoves DEF Racing, TasksComeOnce
  <1>4. PromisesAreKept'
    BY <1>1, HookMoves, TaskFrame DEF Racing, PromisesAreKept
  <1>5. PassesAreTold'
    <2> SUFFICES ASSUME NEW q \in Runs, NEW d \in Calls
                 PROVE  /\ task'[q][d].pc \in Asking =>
                             FirstPass(q, d)' \/ AnsweredPass(q, d)'
                        /\ task'[q][d].pc \in Reviewing => task'[q][d].hold # None
                        /\ task'[q][d].pc = "approved" => promised'[d] # None
      BY DEF PassesAreTold
    <2>0. addressee' = addressee
      BY TaskMoves
    <2>1. CASE q = r /\ d = c
      <3>1. ASSUME task'[r][c].pc \in Asking
            PROVE  FirstPass(r, c)' \/ AnsweredPass(r, c)'
        <4>1. task[r][c].pc \in Asking /\ UNCHANGED <<resume, promised, addressee>>
          BY <2>0, <3>1, HookMoves
        <4>2. Response(r, c)' = Response(r, c)
          BY <4>1 DEF Response
        <4>3. \A p \in Runs : p # r => task'[p][c] = task[p][c]
          BY TaskMoves
        <4>4. QED
          BY <4>1, <4>2, <4>3 DEF Racing, PassesAreTold, FirstPass, AnsweredPass
      <3>2. QED
        BY <2>1, <3>1, HookMoves
    <2>2. CASE q = r /\ d # c
      <3>1. task'[q][d].pc = "idle"
        BY <1>1, <2>2, TaskMoves DEF Racing, TasksComeOnce
      <3>2. QED
        BY <3>1 DEF Asking, Reviewing
    <2>3. CASE q # r
      <3>1. task'[q][d] = task[q][d] /\ Response(q, d)' = Response(q, d)
        BY <2>0, <2>3, HookMoves, TaskMoves DEF Response
      <3>2. promised[d] # None => promised'[d] # None
        BY HookMoves, TaskFrame
      <3>3. ASSUME FirstPass(q, d) PROVE FirstPass(q, d)'
        <4>1. d # c
          BY <1>1, <2>3, <3>3 DEF FirstPass
        <4>2. QED
          BY <3>1, <3>3, <4>1, TaskFrame, TaskMoves DEF FirstPass
      <3>4. AnsweredPass(q, d) => AnsweredPass(q, d)'
        BY <3>1, <3>2 DEF AnsweredPass
      <3>5. QED
        BY <3>1, <3>2, <3>3, <3>4 DEF Racing, PassesAreTold
    <2>4. QED
      BY <2>1, <2>2, <2>3
  <1>6. AnswersAreGiven'
    BY HookMoves, TaskMoves DEF Racing, AnswersAreGiven
  <1>7. QED
    BY <1>3, <1>4, <1>5, <1>6 DEF Racing

\* So does a run that starts on one call of its thread at most: with an answer, if a hold
\* was promised, and as the call's first pass if not.
LEMMA StartRacing ==
  ASSUME TypeOK, Racing, NEW r \in Runs, NEW t, NEW tasks \in SUBSET Calls,
         NEW value, NEW to, NEW hold, Start(r, t, tasks, value, to, hold),
         \A c \in tasks : Thread[c] = t, \A c, d \in tasks : c = d,
         \A c \in Calls : Begun(c) \/ c \in tasks => Begun(c)',
         \A c \in tasks :
           IF promised[c] # None THEN value # None /\ to \in {None, c}
           ELSE value = None /\ \A q \in Runs : q # r => task[q][c].pc = "idle",
         UNCHANGED <<interrupts, promised, answer>>, unsent' \subseteq unsent
  PROVE  Racing'
  <1>0. /\ running'[r] = t /\ resume'[r] = value /\ addressee'[r] = to
        /\ \A c \in Calls : task'[r][c].pc = IF c \in tasks THEN "lookup" ELSE "idle"
        /\ \A q \in Runs : q # r =>
             /\ running'[q] = running[q] /\ resume'[q] = resume[q]
             /\ addressee'[q] = addressee[q] /\ task'[q] = task[q]
    BY StartMoves
  <1>1. TasksComeOnce'
    <2> SUFFICES ASSUME NEW q \in Runs, NEW c \in Calls, task'[q][c].pc # "idle"
                 PROVE  /\ running'[q] = Thread[c] /\ Begun(c)'
                        /\ \A d \in Calls : task'[q][d].pc # "idle" => d = c
      BY DEF TasksComeOnce
    <2>1. CASE q = r
      BY <1>0, <2>1
    <2>2. CASE q # r
      BY <1>0, <2>2 DEF Racing, TasksComeOnce
    <2>3. QED
      BY <2>1, <2>2
  <1>2. PromisesAreKept'
    BY DEF Racing, PromisesAreKept
  <1>3. PassesAreTold'
    <2> SUFFICES ASSUME NEW q \in Runs, NEW c \in Calls
                 PROVE  /\ task'[q][c].pc \in Asking =>
                             FirstPass(q, c)' \/ AnsweredPass(q, c)'
                        /\ task'[q][c].pc \in Reviewing => task'[q][c].hold # None
                        /\ task'[q][c].pc = "approved" => promised'[c] # None
      BY DEF PassesAreTold
    <2>1. CASE q = r
      <3>1. ASSUME c \in tasks PROVE FirstPass(r, c)' \/ AnsweredPass(r, c)'
        <4>1. CASE promised[c] # None
          <5>1. Response(r, c)' # None
            BY <1>0, <3>1, <4>1 DEF Response
          <5>2. QED
            BY <4>1, <5>1 DEF AnsweredPass
        <4>2. CASE promised[c] = None
          <5>1. Response(r, c)' = None
            BY <1>0, <3>1, <4>2 DEF Response
          <5>2. \A p \in Runs : p # r => task'[p][c].pc = "idle"
            BY <1>0, <3>1, <4>2
          <5>3. QED
            BY <4>2, <5>1, <5>2 DEF FirstPass
        <4>3. QED
          BY <4>1, <4>2
      <3>2. task'[r][c].pc \in {"idle", "lookup"} /\ (c \notin tasks => task'[r][c].pc = "idle")
        BY <1>0
      <3>3. QED
        BY <2>1, <3>1, <3>2 DEF Asking, Reviewing
    <2>2. CASE q # r
      <3>1. task'[q][c] = task[q][c] /\ Response(q, c)' = Response(q, c)
        BY <1>0, <2>2 DEF Response
      <3>2. ASSUME FirstPass(q, c), task[q][c].pc \in Asking PROVE FirstPass(q, c)'
        <4>1. c \notin tasks
          BY <2>2, <3>2 DEF FirstPass, Asking, Reviewing
        <4>2. task'[r][c].pc = "idle"
          BY <1>0, <4>1
        <4>3. QED
          BY <1>0, <3>1, <3>2, <4>2 DEF FirstPass
      <3>3. AnsweredPass(q, c) => AnsweredPass(q, c)'
        BY <3>1 DEF AnsweredPass
      <3>4. QED
        BY <3>1, <3>2, <3>3 DEF Racing, PassesAreTold
    <2>3. QED
      BY <2>1, <2>2
  <1>4. AnswersAreGiven'
    BY DEF Racing, AnswersAreGiven
  <1>5. QED
    BY <1>1, <1>2, <1>3, <1>4 DEF Racing

\* The thread a run resumes has one call to go on with, the one a hold was promised for.
LEMMA ResumeRacing ==
  ASSUME OneCallATurn, TypeOK, Racing, NEW r \in Runs, NEW t \in Threads,
         NEW value, NEW to, NEW hold, Start(r, t, Unfinished(t), value, to, hold),
         Outstanding(t) # {}, value # None, to = None \/ to \in Outstanding(t),
         UNCHANGED <<interrupts, promised, answer, turn>>, unsent' \subseteq unsent
  PROVE  Racing'
  <1>1. PICK c \in Calls : c \in Outstanding(t)
    BY DEF Outstanding, Unfinished
  <1>2. promised[c] # None /\ Thread[c] = t /\ Turn[c] = turn[t]
    BY <1>1 DEF Outstanding, Unfinished, Current, Racing, PromisesAreKept
  <1>3. \A d \in Unfinished(t) : d = c
    BY <1>2 DEF Unfinished, Current, OneCallATurn
  <1>4. to \in {None, c}
    BY <1>3 DEF Outstanding
  <1>5. /\ Unfinished(t) \in SUBSET Calls
        /\ \A d \in Unfinished(t) : Thread[d] = t
        /\ \A d, e \in Unfinished(t) : d = e
    BY <1>3 DEF Unfinished
  <1>6. \A d \in Calls : Begun(d) \/ d \in Unfinished(t) => Begun(d)'
    BY ConstantFacts DEF Begun, Unfinished, Current, TypeOK
  <1>7. \A d \in Unfinished(t) :
           IF promised[d] # None THEN value # None /\ to \in {None, d}
           ELSE value = None /\ \A q \in Runs : q # r => task[q][d].pc = "idle"
    BY <1>2, <1>3, <1>4
  <1>8. QED
    BY <1>5, <1>6, <1>7, StartRacing

\* And a run that begins a turn finds it new.
LEMMA TurnRacing ==
  ASSUME OneCallATurn, TypeOK, Racing, NEW r \in Runs, NEW t \in Threads,
         Start(r, t, {c \in Calls : Thread[c] = t /\ Turn[c] = turn[t] + 1}, None, None, None),
         turn' = [turn EXCEPT ![t] = turn[t] + 1],
         UNCHANGED <<interrupts, promised, answer, unsent>>
  PROVE  Racing'
  <1> DEFINE next == {c \in Calls : Thread[c] = t /\ Turn[c] = turn[t] + 1}
  <1>1. turn[t] \in Nat /\ \A u \in Threads : turn'[u] = IF u = t THEN turn[t] + 1 ELSE turn[u]
    BY DEF TypeOK
  <1>2. \A c \in next : ~Begun(c)
    BY <1>1, ConstantFacts DEF Begun
  <1>3. \A c \in Calls : Begun(c) \/ c \in next => Begun(c)'
    BY <1>1, ConstantFacts DEF Begun, TypeOK
  <1>4. \A c \in next : promised[c] = None /\ \A q \in Runs : task[q][c].pc = "idle"
    BY <1>2 DEF Racing, PromisesAreKept, TasksComeOnce
  <1>5. /\ next \in SUBSET Calls
        /\ \A c \in next : Thread[c] = t
        /\ \A c, d \in next : c = d
    BY DEF OneCallATurn
  <1> HIDE DEF next
  <1>6. Start(r, t, next, None, None, None)
    BY DEF next
  <1>7. QED
    BY <1>3, <1>4, <1>5, <1>6, StartRacing

\* Every step keeps the races what they are.
LEMMA RacingStep ==
  ASSUME OneCallATurn, TypeOK, Racing, [Next]_vars
  PROVE  Racing'
  <1> USE DEF graph, hostVars, history
  <1>1. ASSUME NEW r \in Runs, NEW c \in Calls, TaskStep(r, c) PROVE Racing'
    BY <1>1, TaskRacing
  <1>2. ASSUME NEW r \in Runs, CommitSuperstep(r) PROVE Racing'
    <2>1. running[r] \in Threads
      BY <1>2 DEF CommitSuperstep, TypeOK
    <2>2. QED
      BY <1>2, <2>1, TurnRacing DEF CommitSuperstep
  <1>3. ASSUME NEW r \in Runs, EndRun(r) PROVE Racing'
    <2>1. /\ Start(r, None, {}, None, None, None)
          /\ UNCHANGED <<interrupts, promised, answer, unsent, turn>>
      BY <1>3 DEF EndRun
    <2>2. \A c \in Calls : Begun(c)' = Begun(c)
      BY <2>1 DEF Begun
    <2>3. QED
      BY <2>1, <2>2, StartRacing
  <1>4. ASSUME NEW h \in Hosts, NEW t \in Threads, Invoke(h, t) PROVE Racing'
    <2>1. turn[t] + 1 = 1
      BY <1>4 DEF Invoke
    <2>2. /\ Start(h, t, {c \in Calls : Thread[c] = t /\ Turn[c] = turn[t] + 1},
                   None, None, None)
          /\ turn' = [turn EXCEPT ![t] = turn[t] + 1]
          /\ UNCHANGED <<interrupts, promised, answer, unsent>>
      BY <1>4, <2>1 DEF Invoke
    <2>3. QED
      BY <2>2, ConstantFacts, TurnRacing
  <1>5. ASSUME NEW h \in Hosts, NEW c \in Calls, HostResume(h, c) PROVE Racing'
    <2> DEFINE t == Thread[c]
    <2>1. answer[c] # None /\ h \in Runs /\ t \in Threads
      BY <1>5, ConstantFacts DEF HostResume, Racing, AnswersAreGiven
    <2>2. /\ UNCHANGED <<interrupts, promised, answer, turn>> /\ unsent' \subseteq unsent
          /\ Outstanding(t) # {}
      BY <1>5 DEF HostResume, TakesSingleResume
    <2>3. PICK to, hold : /\ Start(h, t, Unfinished(t), answer[c], to, hold)
                          /\ to = None \/ to \in Outstanding(t)
      BY <1>5 DEF HostResume
    <2> HIDE DEF t
    <2>4. QED
      BY <2>1, <2>2, <2>3, ResumeRacing
  <1>6. ASSUME NEW id \in HoldIds, WatchdogResume(id) PROVE Racing'
    <2> DEFINE t == HoldThread(id)
    <2>1. /\ t \in Threads /\ Outstanding(t) # {}
          /\ Start(Watchdog, t, Unfinished(t), TimeoutSentinel, None, None)
          /\ UNCHANGED <<interrupts, promised, answer, turn, unsent>>
      BY <1>6 DEF WatchdogResume, TakesSingleResume
    <2> HIDE DEF t
    <2>2. QED
      BY <2>1, ConstantFacts, ResumeRacing
  <1>7. ASSUME NEW c \in Calls, NEW response \in Answers, Decide(c, response) PROVE Racing'
    <2>1. /\ UNCHANGED <<interrupts, promised, running, turn, task, resume, addressee>>
          /\ answer' = [answer EXCEPT ![c] = response] /\ unsent' = unsent \cup {c}
      BY <1>7 DEF Decide
    <2>2. response # None
      BY ConstantFacts DEF Responses
    <2>3. AnswersAreGiven'
      BY <2>1, <2>2 DEF Racing, AnswersAreGiven, TypeOK
    <2>4. QED
      BY <2>1, <2>3 DEF Racing, TasksComeOnce, PromisesAreKept, PassesAreTold, FirstPass,
                        AnsweredPass, Response, Begun
  <1>8. CASE UNCHANGED <<interrupts, promised, running, turn, task, resume, addressee,
                         answer, unsent>>
    BY <1>8 DEF Racing, TasksComeOnce, PromisesAreKept, PassesAreTold, FirstPass,
                AnsweredPass, Response, Begun, AnswersAreGiven
  <1>9. QED
    BY <1>1, <1>2, <1>3, <1>4, <1>5, <1>6, <1>7, <1>8
      DEF Next, RunStep, LosePending, Tick, WatchdogStep, WatchdogRefused, WatchdogSleep, vars

\* With one call a turn, whatever runs overlap: each run of a call is its first, alone with
\* it, or one with an answer to the hold that was promised.
THEOREM RacesAreKnown ==
  ASSUME OneCallATurn
  PROVE  Spec => []Racing
  <1>1. Init => Racing
    BY ConstantFacts
      DEF Init, Racing, TasksComeOnce, PromisesAreKept, PassesAreTold, AnswersAreGiven, Idle,
          Task, Asking, Reviewing
  <1>2. TypeOK /\ Racing /\ [Next]_vars => Racing'
    BY RacingStep
  <1>3. QED
    BY <1>1, <1>2, TypeCorrect, PTL DEF Spec

-----------------------------------------------------------------------------
(* Trails of holds that several runs write. *)

\* A first pass finds no hold, in the table or in the checkpoint, and makes one.
FirstPassesAreFresh ==
  \A r \in Runs, c \in Calls : task[r][c].pc \in Asking /\ Response(r, c) = None =>
    /\ task[r][c].pc \notin {"replayed", "recovered"}
    /\ task[r][c].pc = "authorize" => task[r][c].hold = None

\* A hold that is in the table is promised, or about to be.
TableIsPromised ==
  \A c \in Calls : pending[HoldId(c)] # None =>
    promised[c] # None \/ \E r \in Runs : task[r][c].pc = "fresh"

Freshness == FirstPassesAreFresh /\ TableIsPromised

\* A step of a hook keeps it so.
LEMMA TaskFreshness ==
  ASSUME IdsAreOwn, TypeOK, Racing, Freshness, NEW r \in Runs, NEW c \in Calls, TaskStep(r, c)
  PROVE  Freshness'
  <1> USE DEF graph, hostVars, history
  <1>0. \A t : Goto(r, c, t) => task'[r][c] = t
    BY DEF Goto, TypeOK
  <1>1. addressee' = addressee /\ \A q \in Runs, d \in Calls :
          ~(q = r /\ d = c) => task'[q][d] = task[q][d]
    BY TaskMoves
  <1>2. task[r][c].pc \in Asking => FirstPass(r, c) \/ AnsweredPass(r, c)
    BY DEF Racing, PassesAreTold
  <1>3. ASSUME task'[r][c].pc \in Asking, Response(r, c)' = None
        PROVE  /\ task'[r][c].pc \notin {"replayed", "recovered"}
               /\ task'[r][c].pc = "authorize" => task'[r][c].hold = None
    <2>1. /\ task[r][c].pc \in Asking /\ Response(r, c) = None
          /\ promised[c] = None /\ \A q \in Runs : q # r => task[q][c].pc = "idle"
      BY <1>1, <1>2, <1>3, HookMoves DEF Response, FirstPass, AnsweredPass
    <2>2. CASE LookupPending(r, c)
      <3>1. task[r][c].pc = "lookup"
        BY <2>2 DEF LookupPending
      <3>2. pending[HoldId(c)] = None
        BY <2>1, <3>1 DEF Freshness, TableIsPromised
      <3>3. task'[r][c] = Task("recover", None, FALSE)
        BY <1>0, <2>2, <3>2 DEF LookupPending
      <3>4. QED
        BY <3>3 DEF Task
    <2>3. CASE RecoverHold(r, c)
      <3>1. \A hold \in Recoverable(c) : FALSE
        BY <2>1 DEF Recoverable, IdsAreOwn, Racing, PromisesAreKept
      <3>2. task'[r][c] = Task("authorize", None, FALSE)
        BY <1>0, <2>3, <3>1 DEF RecoverHold
      <3>3. QED
        BY <3>2 DEF Task
    <2>4. CASE AuthorizeReview(r, c)
      <3>1. task[r][c].hold = None
        BY <2>1, <2>4 DEF AuthorizeReview, Freshness, FirstPassesAreFresh
      <3>2. task'[r][c].pc = "fresh"
        BY <1>0, <2>4, <3>1 DEF AuthorizeReview, Task
      <3>3. QED
        BY <3>2
    <2>5. CASE AuthorizeAllow(r, c) \/ AuthorizeDeny(r, c) \/ ExecuteTool(r, c) \/ Suspend(r, c)
      <3>1. task'[r][c].pc \in {"allowed", "done", "interrupted"}
        BY <1>0, <2>5 DEF AuthorizeAllow, AuthorizeDeny, ExecuteTool, Suspend, Task
      <3>2. QED
        BY <3>1
    <2>6. ~ResolveHold(r, c)
      BY <2>1 DEF ResolveHold
    <2>7. QED
      BY <2>2, <2>3, <2>4, <2>5, <2>6 DEF TaskStep
  <1>4. FirstPassesAreFresh'
    <2> SUFFICES ASSUME NEW q \in Runs, NEW d \in Calls,
                        task'[q][d].pc \in Asking, Response(q, d)' = None
                 PROVE  /\ task'[q][d].pc \notin {"replayed", "recovered"}
                        /\ task'[q][d].pc = "authorize" => task'[q][d].hold = None
      BY DEF FirstPassesAreFresh
    <2>1. CASE q = r /\ d # c
      <3>1. task[r][c].pc # "idle" /\ task[q][d].pc # "idle"
        BY <1>1, <2>1, TaskMoves DEF Asking, Reviewing, Working, Ended
      <3>2. QED
        BY <2>1, <3>1 DEF Racing, TasksComeOnce
    <2>2. CASE q # r
      <3>1. task'[q][d] = task[q][d] /\ Response(q, d) = None
        BY <1>1, <2>2, HookMoves DEF Response
      <3>2. QED
        BY <3>1 DEF Freshness, FirstPassesAreFresh
    <2>3. QED
      BY <1>3, <2>1, <2>2
  <1>5. ASSUME pending'[HoldId(c)] # None
        PROVE  promised'[c] # None \/ \E q \in Runs : task'[q][c].pc = "fresh"
    <2>1. CASE promised[c] # None
      BY <2>1, HookMoves
    <2>2. CASE promised[c] = None /\ AuthorizeReview(r, c)
      <3>1. Response(r, c) = None
        BY <1>2, <2>2 DEF AuthorizeReview, AnsweredPass, FirstPass, Asking
      <3>2. task[r][c].hold = None
        BY <2>2, <3>1 DEF AuthorizeReview, Freshness, FirstPassesAreFresh, Asking
      <3>3. task'[r][c].pc = "fresh"
        BY <1>0, <2>2, <3>2 DEF AuthorizeReview, Task
      <3>4. QED
        BY <3>3
    <2>3. CASE Suspend(r, c)
      BY <2>3, ConstantFacts DEF Suspend, TypeOK, Racing, PassesAreTold
    <2>4. CASE ResolveHold(r, c)
      BY <1>5, <2>4, ConstantFacts DEF ResolveHold, Forget, TypeOK
    <2>5. CASE pending' = pending /\ task[r][c].pc # "fresh"
      <3>1. promised[c] # None \/ \E q \in Runs \ {r} : task[q][c].pc = "fresh"
        BY <1>5, <2>5 DEF Freshness, TableIsPromised
      <3>2. QED
        BY <1>1, <2>1, <3>1
    <2>6. QED
      BY <2>1, <2>2, <2>3, <2>4, <2>5
        DEF TaskStep, LookupPending, RecoverHold, AuthorizeAllow, AuthorizeDeny, ExecuteTool
  <1>6. TableIsPromised'
    <2> SUFFICES ASSUME NEW d \in Calls, d # c, pending'[HoldId(d)] # None
                 PROVE  promised'[d] # None \/ \E q \in Runs : task'[q][d].pc = "fresh"
      BY <1>5 DEF TableIsPromised
    <2>1. HoldId(d) # HoldId(c) /\ HoldId(d) \in HoldIds
      BY DEF IdsAreOwn, HoldIds
    <2>2. pending[HoldId(d)] # None /\ promised'[d] = promised[d]
      BY <2>1, TaskFrame
    <2>3. QED
      BY <1>1, <2>2 DEF Freshness, TableIsPromised
  <1>7. QED
    BY <1>4, <1>6 DEF Freshness

\* Every step keeps it so.
LEMMA FreshnessStep ==
  ASSUME IdsAreOwn, TypeOK, Racing, Freshness, [Next]_vars
  PROVE  Freshness'
  <1> USE DEF graph, hostVars, history
  <1>1. ASSUME NEW r \in Runs, NEW c \in Calls, TaskStep(r, c) PROVE Freshness'
    BY <1>1, TaskFreshness
  <1>2. ASSUME NEW r \in Runs, NEW t, NEW tasks, NEW value, NEW to, NEW hold,
               Start(r, t, tasks, value, to, hold), running[r] = None \/ TasksEnded(r),
               UNCHANGED <<pending, promised>>
        PROVE  Freshness'
    <2>1. /\ \A c \in Calls : task'[r][c].pc \in {"lookup", "idle"}
          /\ \A q \in Runs : q # r => /\ resume'[q] = resume[q] /\ task'[q] = task[q]
                                    /\ addressee'[q] = addressee[q]
      BY <1>2, StartMoves
    <2>2. \A c \in Calls : task[r][c].pc # "fresh"
      BY <1>2, ConstantFacts DEF TasksEnded, Ended, Racing, TasksComeOnce
    <2>3. FirstPassesAreFresh'
      BY <2>1 DEF Freshness, FirstPassesAreFresh, Response
    <2>4. TableIsPromised'
      BY <1>2, <2>1, <2>2 DEF Freshness, TableIsPromised
    <2>5. QED
      BY <2>3, <2>4 DEF Freshness
  <1>3. ASSUME NEW r \in Runs, RunStep(r) PROVE Freshness'
    BY <1>2, <1>3 DEF RunStep, CommitSuperstep, EndRun
  <1>4. ASSUME NEW h \in Hosts, NEW t \in Threads, Invoke(h, t) PROVE Freshness'
    BY <1>2, <1>4, ConstantFacts DEF Invoke
  <1>5. ASSUME NEW h \in Hosts, NEW c \in Calls, HostResume(h, c) PROVE Freshness'
    BY <1>2, <1>5, ConstantFacts DEF HostResume
  <1>6. ASSUME NEW id \in HoldIds, WatchdogResume(id) PROVE Freshness'
    BY <1>2, <1>6, ConstantFacts DEF WatchdogResume, ScanTo
  <1>7. CASE LosePending
    BY <1>7, ConstantFacts
      DEF LosePending, NoHolds, Freshness, FirstPassesAreFresh, TableIsPromised, Response
  <1>8. CASE UNCHANGED <<pending, promised, resume, addressee, task>>
    BY <1>8 DEF Freshness, FirstPassesAreFresh, TableIsPromised, Response
  <1>9. QED
    BY <1>1, <1>3, <1>4, <1>5, <1>6, <1>7, <1>8
      DEF Next, Decide, Tick, WatchdogStep, WatchdogRefused, WatchdogSleep, vars

\* With one call a turn and ids of their own, a hold is in the trail as soon as its reviewer
\* can see it, once, and before anything else that is said of it, whatever runs overlap on
\* its thread, and whether or not the checkpoint could be asked.
THEOREM OverlappingHoldsOpenTheirTrail ==
  ASSUME OneCallATurn, IdsAreOwn
  PROVE  Spec => []OnePendingRecord
  <1>1. Init => Freshness /\ HoldsAreRecorded
    <2>1. Init => HoldsAreRecorded
      BY DEF Init, HoldsAreRecorded, OpensItsTrail, Held, FirstPending, LaterOfHold, Emitted
    <2>2. Init => Freshness
      BY ConstantFacts
        DEF Init, Freshness, FirstPassesAreFresh, TableIsPromised, NoHolds, Idle, Task,
            Asking, Reviewing
    <2>3. QED
      BY <2>1, <2>2
  <1>2. TypeOK /\ Racing /\ Freshness /\ [Next]_vars => Freshness'
    BY FreshnessStep
  <1>3. TypeOK /\ Racing /\ Freshness /\ HoldsAreRecorded /\ [Next]_vars => HoldsAreRecorded'
    <2> SUFFICES ASSUME TypeOK, Racing, Freshness, HoldsAreRecorded, [Next]_vars,
                        NEW d \in Calls
                 PROVE  OpensItsTrail(d)'
      BY DEF HoldsAreRecorded
    <2>1. OpensItsTrail(d)
      BY DEF HoldsAreRecorded
    <2>2. CASE records'[d] = records[d] /\ promised'[d] = promised[d]
      BY <2>1, <2>2 DEF OpensItsTrail, Held, FirstPending, LaterOfHold, Emitted
    <2>3. ASSUME NEW r \in Runs, TaskStep(r, d) PROVE OpensItsTrail(d)'
      <3>1. /\ task[r][d].pc \in Reviewing =>
                 /\ task[r][d].hold # None
                 /\ FirstPass(r, d) \/ AnsweredPass(r, d)
            /\ task[r][d].pc = "approved" => Held(d)
        BY DEF Racing, PassesAreTold, Asking, Held
      <3>2. Suspend(r, d) => (task[r][d].pc = "fresh" <=> ~Held(d))
        <4>1. ASSUME Suspend(r, d)
              PROVE  task[r][d].pc \in Reviewing /\ Response(r, d) = None
          BY <4>1 DEF Suspend
        <4>2. QED
          BY <3>1, <4>1 DEF FirstPass, AnsweredPass, Held, Freshness, FirstPassesAreFresh,
                            Asking, Reviewing
      <3>3. ResolveHold(r, d) => Held(d)
        BY <3>1 DEF ResolveHold, FirstPass, AnsweredPass, Held
      <3>4. QED
        BY <2>1, <2>3, <3>1, <3>2, <3>3, TaskOpens
    <2>4. QED
      BY <2>2, <2>3, TrailFrame
  <1>4. QED
    BY <1>1, <1>2, <1>3, RecordedHoldsOpen, TypeCorrect, RacesAreKnown, PTL DEF Spec
-----------------------------------------------------------------------------
(* What waits is tracked, also where runs race. *)

\* The turns before the current one are over, and the later ones have not begun; a task that
\* is done has finished its call, and a first pass has not.
Advancing ==
  /\ \A c \in Calls : /\ Begun(c) => Current(c) \/ c \in finished
                      /\ c \in finished => Begun(c)
  /\ \A r \in Runs, c \in Calls :
       /\ task[r][c].pc = "done" => c \in finished
       /\ task[r][c].pc \in Asking /\ Response(r, c) = None => c \notin finished

\* A step of a hook finishes no call but its own, of a turn that has begun, and not under the
\* first pass of another run.
LEMMA TaskAdvances ==
  ASSUME TypeOK, Racing, Advancing, NEW r \in Runs, NEW c \in Calls, TaskStep(r, c)
  PROVE  Advancing'
  <1>1. /\ turn' = turn /\ addressee' = addressee /\ finished \subseteq finished'
        /\ \A q \in Runs, d \in Calls : ~(q = r /\ d = c) => task'[q][d] = task[q][d]
        /\ \A d \in Calls : d # c => (d \in finished' <=> d \in finished)
        /\ task'[r][c].pc # "done" => finished' = finished
        /\ task[r][c].pc # "idle"
        /\ c \in finished \/ (c \in finished' <=> task'[r][c].pc = "done")
    BY TaskMoves DEF Working, Ended
  <1>2. Begun(c) /\ \A d \in Calls : d # c => task[r][d].pc = "idle"
    BY <1>1 DEF Racing, TasksComeOnce
  <1>3. \A d \in Calls : (Begun(d)' <=> Begun(d)) /\ (Current(d)' <=> Current(d))
    BY <1>1 DEF Begun, Current
  <1>4. \A d \in Calls : (Begun(d)' => Current(d)' \/ d \in finished')
                         /\ (d \in finished' => Begun(d)')
    BY <1>1, <1>2, <1>3 DEF Advancing
  <1>5. ASSUME NEW q \in Runs, NEW d \in Calls
        PROVE  /\ task'[q][d].pc = "done" => d \in finished'
               /\ task'[q][d].pc \in Asking /\ Response(q, d)' = None => d \notin finished'
    <2>1. CASE q = r /\ d = c
      <3>1. task'[r][c].pc \in Asking =>
              task[r][c].pc \in Asking /\ resume' = resume /\ task'[r][c].pc # "done"
        BY HookMoves DEF Asking, Reviewing
      <3>2. QED
        BY <1>1, <2>1, <3>1 DEF Advancing, Response
    <2>2. CASE q = r /\ d # c
      BY <1>1, <1>2, <2>2 DEF Asking, Reviewing
    <2>3. CASE q # r
      <3>1. task'[q][d] = task[q][d] /\ Response(q, d)' = Response(q, d)
        BY <1>1, <2>3, HookMoves DEF Response
      <3>2. task[q][d].pc \in Asking /\ Response(q, d) = None => d # c
        BY <1>1, <2>3 DEF Racing, PassesAreTold, FirstPass, AnsweredPass
      <3>3. QED
        BY <1>1, <3>1, <3>2 DEF Advancing
    <2>4. QED
      BY <2>1, <2>2, <2>3
  <1>6. QED
    BY <1>4, <1>5 DEF Advancing

\* Neither does a run that starts on unfinished calls.
LEMMA StartAdvances ==
  ASSUME TypeOK, Advancing, NEW r \in Runs, NEW t, NEW tasks \in SUBSET Calls,
         NEW value, NEW to, NEW hold, Start(r, t, tasks, value, to, hold),
         \A c \in tasks : c \notin finished, finished' = finished,
         \A c \in Calls : /\ Begun(c)' => Current(c)' \/ c \in finished
                          /\ c \in finished => Begun(c)'
  PROVE  Advancing'
  <1>1. /\ \A c \in Calls : task'[r][c].pc = IF c \in tasks THEN "lookup" ELSE "idle"
        /\ \A q \in Runs : q # r =>
             /\ resume'[q] = resume[q] /\ addressee'[q] = addressee[q] /\ task'[q] = task[q]
    BY StartMoves
  <1>2. \A q \in Runs, c \in Calls : q # r => Response(q, c)' = Response(q, c)
    BY <1>1 DEF Response
  <1>3. QED
    BY <1>1, <1>2 DEF Advancing, Asking, Reviewing

\* A run that leaves the turns as they are starts on what its thread has not finished.
LEMMA ResumeAdvances ==
  ASSUME TypeOK, Advancing, NEW r \in Runs, NEW t, NEW tasks \in SUBSET Calls,
         NEW value, NEW to, NEW hold, Start(r, t, tasks, value, to, hold),
         \A c \in tasks : c \notin finished, UNCHANGED <<finished, turn>>
  PROVE  Advancing'
  <1>1. \A c \in Calls : (Begun(c)' <=> Begun(c)) /\ (Current(c)' <=> Current(c))
    BY DEF Begun, Current
  <1>2. QED
    BY <1>1, StartAdvances DEF Advancing

\* A turn begins when the one before it is over.
LEMMA TurnAdvances ==
  ASSUME TypeOK, Advancing, NEW r \in Runs, NEW t \in Threads,
         Start(r, t, {c \in Calls : Thread[c] = t /\ Turn[c] = turn[t] + 1}, None, None, None),
         turn' = [turn EXCEPT ![t] = turn[t] + 1], finished' = finished,
         \A c \in Calls : Thread[c] = t /\ Current(c) => c \in finished
  PROVE  Advancing'
  <1> DEFINE next == {c \in Calls : Thread[c] = t /\ Turn[c] = turn[t] + 1}
  <1>1. turn[t] \in Nat /\ \A u \in Threads : turn'[u] = IF u = t THEN turn[t] + 1 ELSE turn[u]
    BY DEF TypeOK
  <1>2. next \in SUBSET Calls /\ \A c \in next : c \notin finished
    BY <1>1, ConstantFacts DEF Advancing, Begun
  <1>3. \A c \in Calls : /\ Begun(c)' => Current(c)' \/ c \in finished
                         /\ c \in finished => Begun(c)'
    <2> SUFFICES ASSUME NEW c \in Calls
                 PROVE  /\ Begun(c)' => Current(c)' \/ c \in finished
                        /\ c \in finished => Begun(c)'
      OBVIOUS
    <2>1. Thread[c] \in Threads /\ Turn[c] \in Nat /\ turn[Thread[c]] \in Nat
      BY ConstantFacts DEF TypeOK
    <2>2. QED
      BY <1>1, <2>1 DEF Advancing, Begun, Current
  <1> HIDE DEF next
  <1>4. Start(r, t, next, None, None, None)
    BY DEF next
  <1>5. QED
    BY <1>2, <1>3, <1>4, StartAdvances

\* Every step keeps the turns in order.
LEMMA AdvancingStep ==
  ASSUME OneCallATurn, TypeOK, Racing, Advancing, [Next]_vars
  PROVE  Advancing'
  <1> USE DEF graph, hostVars, history
  <1>1. ASSUME NEW r \in Runs, NEW c \in Calls, TaskStep(r, c) PROVE Advancing'
    BY <1>1, TaskAdvances
  <1>2. ASSUME NEW r \in Runs, CommitSuperstep(r) PROVE Advancing'
    <2> DEFINE t == running[r]
    <2>1. t \in Threads
      BY <1>2 DEF CommitSuperstep, TypeOK
    <2>2. PICK d \in Calls : task[r][d].pc # "idle" /\ Current(d)
      BY <1>2 DEF CommitSuperstep, TasksOf, Stale
    <2>3. d \in finished /\ Thread[d] = t
      BY <1>2, <2>2 DEF CommitSuperstep, TasksEnded, Ended, Interrupted, Racing,
                        TasksComeOnce, Advancing
    <2>4. \A c \in Calls : Thread[c] = t /\ Current(c) => c \in finished
      BY <2>2, <2>3 DEF Current, OneCallATurn
    <2>5. /\ Start(r, t, {c \in Calls : Thread[c] = t /\ Turn[c] = turn[t] + 1},
                   None, None, None)
          /\ turn' = [turn EXCEPT ![t] = turn[t] + 1] /\ finished' = finished
      BY <1>2 DEF CommitSuperstep
    <2> HIDE DEF t
    <2>6. QED
      BY <2>1, <2>4, <2>5, TurnAdvances
  <1>3. ASSUME NEW r \in Runs, EndRun(r) PROVE Advancing'
    BY <1>3, ResumeAdvances DEF EndRun
  <1>4. ASSUME NEW h \in Hosts, NEW t \in Threads, Invoke(h, t) PROVE Advancing'
    <2>1. turn[t] = 0 /\ turn[t] + 1 = 1
      BY <1>4 DEF Invoke
    <2>2. \A c \in Calls : ~(Thread[c] = t /\ Current(c))
      BY <2>1, ConstantFacts DEF Current
    <2>3. /\ Start(h, t, {c \in Calls : Thread[c] = t /\ Turn[c] = turn[t] + 1},
                   None, None, None)
          /\ turn' = [turn EXCEPT ![t] = turn[t] + 1] /\ finished' = finished
      BY <1>4, <2>1 DEF Invoke
    <2>4. QED
      BY <2>2, <2>3, ConstantFacts, TurnAdvances
  <1>5. \A u : Unfinished(u) \in SUBSET Calls /\ \A c \in Unfinished(u) : c \notin finished
    BY DEF Unfinished
  <1>6. ASSUME NEW h \in Hosts, NEW c \in Calls, HostResume(h, c) PROVE Advancing'
    <2>1. PICK to, hold : Start(h, Thread[c], Unfinished(Thread[c]), answer[c], to, hold)
      BY <1>6 DEF HostResume
    <2>2. UNCHANGED <<finished, turn>>
      BY <1>6 DEF HostResume
    <2>3. QED
      BY <1>5, <2>1, <2>2, ConstantFacts, ResumeAdvances
  <1>7. ASSUME NEW id \in HoldIds, WatchdogResume(id) PROVE Advancing'
    BY <1>5, <1>7, ConstantFacts, ResumeAdvances DEF WatchdogResume
  <1>8. CASE UNCHANGED <<turn, finished, task, resume, addressee>>
    BY <1>8 DEF Advancing, Begun, Current, Response
  <1>9. QED
    BY <1>1, <1>2, <1>3, <1>4, <1>6, <1>7, <1>8
      DEF Next, RunStep, LosePending, Tick, Decide, WatchdogStep, WatchdogRefused,
          WatchdogSleep, vars

\* The same where runs overlap, with one call a turn and ids of their own: while two runs take
\* turns at one call, one of them may drop the hold the other has just shown again; but once
\* both are gone no hold is out of reach, and none is listed in vain.
THEOREM OverlappingHoldsAreTracked ==
  ASSUME OneCallATurn, IdsAreOwn
  PROVE  Spec => []WaitingHoldsAreTracked
  <1>1. Init => Advancing
    BY ConstantFacts DEF Init, Advancing, Begun, Idle, Task, Asking, Reviewing
  <1>2. TypeOK /\ Racing /\ Advancing /\ [Next]_vars => Advancing'
    BY AdvancingStep
  <1>3. TypeOK /\ Racing /\ Advancing /\ Tracking /\ [Next]_vars => Tracking'
    <2> SUFFICES ASSUME TypeOK, Racing, Advancing, Tracking, [Next]_vars PROVE Tracking'
      OBVIOUS
    <2>1. ASSUME NEW r \in Runs, NEW c \in Calls, TaskStep(r, c)
          PROVE  OwnsItsId(c) /\ ShowsAlone(r, c) /\ Begun(c)
      <3>1. Begun(c)
        BY <2>1, TaskMoves DEF Working, Ended, Racing, TasksComeOnce
      <3>2. ShowsAlone(r, c)
        BY DEF ShowsAlone, Racing, PassesAreTold, FirstPass, AnsweredPass, Asking, Advancing
      <3>3. OwnsItsId(c)
        BY DEF OwnsItsId, IdsAreOwn
      <3>4. QED
        BY <3>1, <3>2, <3>3
    <2>2. QED
      BY <2>1, TrackingStep DEF Racing, TasksComeOnce
  <1>4. TypeOK /\ Racing /\ Advancing /\ Tracking => WaitingHoldsAreTracked
    <2> SUFFICES ASSUME Racing, Advancing, Tracking PROVE WaitingHoldsAreTracked
      OBVIOUS
    <2>1. \A c, d \in Calls : HoldId(c) = HoldId(d) => Thread[c] = Thread[d]
      BY DEF IdsAreOwn
    <2>2. QED
      BY <2>1, TrackedHoldsAreFound DEF Racing, TasksComeOnce, Advancing
  <1>5. QED
    BY <1>1, <1>2, <1>3, <1>4, TrackingInit, TypeCorrect, RacesAreKnown, PTL DEF Spec
=============================================================================
