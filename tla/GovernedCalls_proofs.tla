------------------------ MODULE GovernedCalls_proofs ------------------------
(***************************************************************************)
(* Theorems about GovernedCalls, for every value of its constants.         *)
(***************************************************************************)
EXTENDS GovernedCalls, TLAPS

-----------------------------------------------------------------------------
(* Type correctness. *)

\* Whatever it is given, resolve() returns a review state, and the approved one only
\* for a response that is an approval.
LEMMA ResolveType ==
  ASSUME NEW deadline, NEW response, NEW instant
  PROVE  /\ Resolve(deadline, response, instant) \in ReviewStates
         /\ Resolve(deadline, response, instant) = "approved" => response = "approve"
  BY ConstantsAssumption
    DEF Resolve, ParseDecision, Decisions, Answers, Responses, ReviewStates

\* The records a task emits are governance records.
LEMMA RecordsType ==
  /\ <<>> \in Seq(Records)
  /\ \A replay \in BOOLEAN : <<Record("pending", replay)>> \in Seq(Records)
  /\ \A kind \in RecordKinds, replay \in BOOLEAN :
       <<Record(kind, replay)>> \in Seq(Records)
  <1>1. "pending" \in RecordKinds
    BY DEF RecordKinds
  <1>2. \A kind \in RecordKinds, replay \in BOOLEAN : Record(kind, replay) \in Records
    BY DEF Record, Records
  <1>3. QED
    BY <1>1, <1>2

\* Moving one task keeps the type of all.
LEMMA GotoType ==
  ASSUME TypeOK, NEW r \in Runs, NEW c \in Calls, NEW t \in Tasks, Goto(r, c, t)
  PROVE  task' \in [Runs -> [Calls -> Tasks]]
  BY DEF TypeOK, Goto

\* Emitting records for a call keeps the type of the records.
LEMMA EmitType ==
  ASSUME TypeOK, NEW c \in Calls, NEW recs \in Seq(Records), Emit(c, recs)
  PROVE  records' \in [Calls -> Seq(Records)]
  BY DEF TypeOK, Emit

\* Starting a run, or ending one, keeps the type of the runs and their tasks.
LEMMA StartType ==
  ASSUME TypeOK, NEW r \in Runs, NEW t \in Threads \cup {None}, NEW tasks,
         NEW value \in Responses \cup {None}, NEW to \in Calls \cup {None},
         NEW hold \in Deadlines \cup {None},
         Start(r, t, tasks, value, to, hold)
  PROVE  /\ running' \in [Runs -> Threads \cup {None}]
         /\ resume' \in [Runs -> Responses \cup {None}]
         /\ addressee' \in [Runs -> Calls \cup {None}]
         /\ echo' \in [Runs -> Deadlines \cup {None}]
         /\ task' \in [Runs -> [Calls -> Tasks]]
  <1>1. Idle \in Tasks /\ Begin \in Tasks
    BY DEF Idle, Begin, Task, Tasks, Locations, Ended
  <1>2. [c \in Calls |-> IF c \in tasks THEN Begin ELSE Idle] \in [Calls -> Tasks]
    BY <1>1
  <1>3. QED
    BY <1>2 DEF TypeOK, Start

\* A step of the hook around one tool call keeps the types.
LEMMA TaskStepType ==
  ASSUME TypeOK, NEW r \in Runs, NEW c \in Calls, TaskStep(r, c)
  PROVE  TypeOK'
  <1> USE DEF graph, hostVars, history
  <1>0. /\ task[r][c] \in Tasks
        /\ task[r][c].hold \in Deadlines \cup {None}
        /\ task[r][c].replay \in BOOLEAN
    BY DEF TypeOK, Tasks
  <1>1. CASE LookupPending(r, c)
    <2> DEFINE hold == pending[HoldId(c)]
    <2>0. HoldId(c) \in HoldIds
      BY DEF HoldIds
    <2>1. (IF hold # None THEN Task("replayed", hold, FALSE)
                          ELSE Task("recover", None, FALSE)) \in Tasks
      BY <2>0 DEF TypeOK, Task, Tasks, Locations, Reviewing
    <2>2. task' \in [Runs -> [Calls -> Tasks]]
      BY <1>1, <2>1, GotoType DEF LookupPending
    <2>3. QED
      BY <1>1, <2>2 DEF LookupPending, TypeOK
  <1>2. CASE RecoverHold(r, c)
    <2>1. \A hold \in Recoverable(c) \cup {None} : Task("authorize", hold, FALSE) \in Tasks
      BY DEF Recoverable, TypeOK, Task, Tasks, Locations
    <2>2. PICK hold \in Recoverable(c) \cup {None} : Goto(r, c, Task("authorize", hold, FALSE))
      BY <1>2 DEF RecoverHold
    <2>4. task' \in [Runs -> [Calls -> Tasks]]
      BY <2>1, <2>2, GotoType
    <2>3. QED
      BY <1>2, <2>4 DEF RecoverHold, TypeOK
  <1>3. CASE AuthorizeAllow(r, c)
    <2>1. Task("allowed", None, FALSE) \in Tasks
      BY DEF Task, Tasks, Locations
    <2>2. task' \in [Runs -> [Calls -> Tasks]]
      BY <1>3, <2>1, GotoType DEF AuthorizeAllow
    <2>3. QED
      BY <1>3, <2>2 DEF AuthorizeAllow, TypeOK
  <1>4. CASE AuthorizeDeny(r, c)
    <2>1. Task("done", None, FALSE) \in Tasks
      BY DEF Task, Tasks, Locations, Ended
    <2>2. task' \in [Runs -> [Calls -> Tasks]]
      BY <1>4, <2>1, GotoType DEF AuthorizeDeny
    <2>3. <<Record("deny", FALSE)>> \in Seq(Records)
      BY DEF Record, Records, RecordKinds
    <2>4. records' \in [Calls -> Seq(Records)]
      BY <1>4, <2>3, EmitType DEF AuthorizeDeny
    <2>5. QED
      BY <1>4, <2>2, <2>4 DEF AuthorizeDeny, TypeOK
  <1>5. CASE AuthorizeReview(r, c)
    <2> DEFINE found == task[r][c].hold
               hold == IF found # None THEN found
                       ELSE BuildHold(ReviewTimeout[c], DefaultTimeout, now)
    <2>1. hold \in Deadlines
      BY <1>0, ConstantsAssumption DEF TypeOK, BuildHold, Window, Deadlines
    <2>2. Task(IF found # None THEN "recovered" ELSE "fresh", hold, FALSE) \in Tasks
      BY <2>1 DEF Task, Tasks, Locations, Reviewing
    <2>3. task' \in [Runs -> [Calls -> Tasks]]
      BY <1>5, <2>2, GotoType DEF AuthorizeReview
    <2>4. pending' \in [HoldIds -> Deadlines \cup {None}]
      BY <1>5, <2>1 DEF AuthorizeReview, Remember, TypeOK
    <2>5. QED
      BY <1>5, <2>3, <2>4 DEF AuthorizeReview, TypeOK
  <1>6. CASE Suspend(r, c)
    <2>1. Task("interrupted", None, FALSE) \in Tasks
      BY DEF Task, Tasks, Locations, Ended
    <2>2. task' \in [Runs -> [Calls -> Tasks]]
      BY <1>6, <2>1, GotoType DEF Suspend
    <2>3. SuspensionRecords(task[r][c].pc) \in Seq(Records)
      BY RecordsType DEF SuspensionRecords
    <2>4. records' \in [Calls -> Seq(Records)]
      BY <1>6, <2>3, EmitType DEF Suspend
    <2>5. /\ interrupts' \in [Calls -> Deadlines \cup {None}]
          /\ promised' \in [Calls -> Deadlines \cup {None}]
      BY <1>0, <1>6 DEF Suspend, TypeOK
    <2>6. QED
      BY <1>6, <2>2, <2>4, <2>5 DEF Suspend, TypeOK
  <1>7. CASE ResolveHold(r, c)
    <2> DEFINE replay == task[r][c].pc # "replayed"
               state == Resolve(Persisted(r, c), Response(r, c), now)
    <2>1. state \in ReviewStates
      BY ResolveType
    <2>2. /\ Task("approved", task[r][c].hold, replay) \in Tasks
          /\ Task("done", None, FALSE) \in Tasks
      BY <1>0 DEF Task, Tasks, Locations, Ended
    <2>3. task' \in [Runs -> [Calls -> Tasks]]
      BY <1>7, <2>2, GotoType DEF ResolveHold
    <2>4. ResolutionRecords(state, replay) \in Seq(Records)
      <3> DEFINE shown == IF replay THEN <<Record("pending", TRUE)>> ELSE <<>>
                 terminal == IF state = "approved" THEN <<>> ELSE <<Record(state, replay)>>
      <3>1. shown \in Seq(Records)
        BY RecordsType
      <3>2. terminal \in Seq(Records)
        BY <2>1, RecordsType DEF RecordKinds
      <3>3. shown \o terminal \in Seq(Records)
        <4> HIDE DEF shown, terminal
        <4>1. QED BY <3>1, <3>2
      <3>4. QED
        BY <3>3 DEF ResolutionRecords
    <2>5. records' \in [Calls -> Seq(Records)]
      BY <1>7, <2>4, EmitType DEF ResolveHold
    <2>6. /\ pending' \in [HoldIds -> Deadlines \cup {None}]
          /\ resume' \in [Runs -> Responses \cup {None}]
          /\ outcome' \in [Calls -> ReviewStates \cup {None}]
          /\ finished' \in SUBSET Calls
      BY <1>7, <2>1 DEF ResolveHold, Forget, TypeOK
    <2>7. QED
      BY <1>7, <2>3, <2>5, <2>6 DEF ResolveHold, TypeOK
  <1>8. CASE ExecuteTool(r, c)
    <2>1. Task("done", None, FALSE) \in Tasks
      BY DEF Task, Tasks, Locations, Ended
    <2>2. task' \in [Runs -> [Calls -> Tasks]]
      BY <1>8, <2>1, GotoType DEF ExecuteTool
    <2> DEFINE at == task[r][c].pc
    <2>3. <<Record(IF at = "approved" THEN at ELSE "allow", task[r][c].replay)>>
            \in Seq(Records)
      BY <1>0 DEF Record, Records, RecordKinds, ReviewStates
    <2>4. records' \in [Calls -> Seq(Records)]
      BY <1>8, <2>3, EmitType DEF ExecuteTool
    <2>5. executed' \in [Calls -> Nat]
      BY <1>8 DEF ExecuteTool, TypeOK
    <2>6. QED
      BY <1>8, <2>2, <2>4, <2>5 DEF ExecuteTool, TypeOK
  <1>9. QED
    BY <1>1, <1>2, <1>3, <1>4, <1>5, <1>6, <1>7, <1>8 DEF TaskStep

\* A step of the graph that runs the agent keeps the types.
LEMMA RunStepType ==
  ASSUME TypeOK, NEW r \in Runs, RunStep(r)
  PROVE  TypeOK'
  <1> USE DEF graph, hostVars, history
  <1>1. CASE CommitSuperstep(r)
    <2> DEFINE t == running[r]
               next == {c \in Calls : Thread[c] = t /\ Turn[c] = turn[t] + 1}
    <2>1. t \in Threads \cup {None}
      BY DEF TypeOK
    <2>2. Start(r, t, next, None, None, None)
      BY <1>1 DEF CommitSuperstep
    <2>3. turn' \in [Threads -> Nat]
      BY <1>1 DEF CommitSuperstep, TypeOK
    <2> HIDE DEF t, next
    <2>4. QED
      BY <1>1, <2>1, <2>2, <2>3, StartType DEF CommitSuperstep, TypeOK
  <1>2. CASE EndRun(r)
    BY <1>2, StartType DEF EndRun, TypeOK
  <1>3. QED
    BY <1>1, <1>2 DEF RunStep

\* What the host and the reviewer do keeps the types.
LEMMA HostStepType ==
  ASSUME TypeOK,
         \/ \E h \in Hosts : \/ \E t \in Threads : Invoke(h, t)
                             \/ \E c \in Calls : HostResume(h, c)
         \/ \E c \in Calls, response \in Answers : Decide(c, response)
  PROVE  TypeOK'
  <1> USE DEF graph, hostVars, history
  <1>0. Hosts \subseteq Runs /\ Answers \subseteq Responses
    BY DEF Runs, Responses
  <1>1. ASSUME NEW h \in Hosts, NEW t \in Threads, Invoke(h, t)
        PROVE  TypeOK'
    <2>1. turn' \in [Threads -> Nat]
      BY <1>1 DEF Invoke, TypeOK
    <2>2. QED
      BY <1>0, <1>1, <2>1, StartType DEF Invoke, TypeOK
  <1>2. ASSUME NEW h \in Hosts, NEW c \in Calls, HostResume(h, c)
        PROVE  TypeOK'
    <2>1. Thread[c] \in Threads
      BY DEF Threads
    <2>2. answer[c] \in Responses \cup {None}
      BY <1>0 DEF TypeOK
    <2>3. /\ running' \in [Runs -> Threads \cup {None}]
          /\ resume' \in [Runs -> Responses \cup {None}]
          /\ addressee' \in [Runs -> Calls \cup {None}]
          /\ echo' \in [Runs -> Deadlines \cup {None}]
          /\ task' \in [Runs -> [Calls -> Tasks]]
      <3> DEFINE to == IF ResumeById THEN c ELSE None
      <3>1. PICK hold \in SentBack :
              Start(h, Thread[c], Unfinished(Thread[c]), answer[c], to, hold)
        BY <1>2 DEF HostResume
      <3>2. hold \in Deadlines \cup {None} /\ to \in Calls \cup {None}
        BY <3>1, ConstantsAssumption DEF Deadlines
      <3> HIDE DEF to
      <3>3. QED
        BY <1>0, <2>1, <2>2, <3>1, <3>2, StartType
    <2>4. QED
      BY <1>2, <2>3 DEF HostResume, TypeOK
  <1>3. ASSUME NEW c \in Calls, NEW response \in Answers, Decide(c, response)
        PROVE  TypeOK'
    BY <1>3 DEF Decide, TypeOK
  <1>4. QED
    BY <1>1, <1>2, <1>3

\* The snapshot a scan of the watchdog leaves behind holds deadlines.
LEMMA ScanType ==
  ASSUME TypeOK, NEW id \in HoldIds, ScanTo(id)
  PROVE  snapshot' \in [HoldIds -> Deadlines \cup {None}]
  BY DEF TypeOK, ScanTo, ToScan

\* A step of the review watchdog keeps the types.
LEMMA WatchdogStepType ==
  ASSUME TypeOK, WatchdogStep
  PROVE  TypeOK'
  <1> USE DEF graph, hostVars, history
  <1>1. ASSUME NEW id \in HoldIds, WatchdogResume(id)
        PROVE  TypeOK'
    <2>1. HoldThread(id) \in Threads
      BY <1>1 DEF WatchdogResume, TakesSingleResume
    <2>2. TimeoutSentinel \in Responses /\ Watchdog \in Runs
      BY DEF Responses, Runs
    <2>3. Start(Watchdog, HoldThread(id), Unfinished(HoldThread(id)), TimeoutSentinel,
                None, None)
      BY <1>1 DEF WatchdogResume
    <2>4. /\ running' \in [Runs -> Threads \cup {None}]
          /\ resume' \in [Runs -> Responses \cup {None}]
          /\ addressee' \in [Runs -> Calls \cup {None}]
          /\ echo' \in [Runs -> Deadlines \cup {None}]
          /\ task' \in [Runs -> [Calls -> Tasks]]
      BY <2>1, <2>2, <2>3, StartType
    <2>5. snapshot' \in [HoldIds -> Deadlines \cup {None}]
      BY <1>1, ScanType DEF WatchdogResume
    <2>6. QED
      BY <1>1, <2>4, <2>5 DEF WatchdogResume, TypeOK
  <1>2. ASSUME NEW id \in HoldIds, WatchdogRefused(id)
        PROVE  TypeOK'
    BY <1>2, ScanType DEF WatchdogRefused, TypeOK
  <1>3. CASE WatchdogSleep
    BY <1>3 DEF WatchdogSleep, NoHolds, TypeOK
  <1>4. QED
    BY <1>1, <1>2, <1>3 DEF WatchdogStep

\* Every variable of the model keeps its type, whatever the calls, threads, hosts,
\* policies and windows are.
THEOREM TypeCorrect == Spec => []TypeOK
  <1>1. Init => TypeOK
    <2> SUFFICES ASSUME Init PROVE TypeOK
      OBVIOUS
    <2>1. Idle \in Tasks
      BY DEF Idle, Task, Tasks, Locations, Ended
    <2>2. QED
      BY <2>1 DEF Init, TypeOK, NoHolds
  <1>2. TypeOK /\ [Next]_vars => TypeOK'
    <2> SUFFICES ASSUME TypeOK, [Next]_vars PROVE TypeOK'
      OBVIOUS
    <2>1. ASSUME NEW r \in Runs, RunStep(r) PROVE TypeOK'
      BY <2>1, RunStepType
    <2>2. ASSUME NEW r \in Runs, NEW c \in Calls, TaskStep(r, c) PROVE TypeOK'
      BY <2>2, TaskStepType
    <2>3. CASE LosePending
      BY <2>3 DEF LosePending, NoHolds, TypeOK, graph, hostVars, history
    <2>4. CASE Tick
      BY <2>4 DEF Tick, TypeOK, graph, hostVars, history
    <2>5. CASE UNCHANGED vars
      BY <2>5 DEF vars, TypeOK, graph, hostVars, history
    <2>6. QED
      BY <2>1, <2>2, <2>3, <2>4, <2>5, HostStepType, WatchdogStepType DEF Next
  <1>3. QED
    BY <1>1, <1>2, PTL DEF Spec

-----------------------------------------------------------------------------
(* What the steps do to the runs and their tasks. *)

Working == Locations \ Ended

\* What the steps need of the constants.
LEMMA ConstantFacts ==
  /\ \A t \in Threads : t # None
  /\ \A c \in Calls : /\ Thread[c] \in Threads /\ Thread[c] # None
                      /\ Turn[c] \in Nat \ {0} /\ c # None
                      /\ HoldId(c) \in HoldIds
  /\ None \notin Int /\ None \notin Responses /\ TimeoutSentinel # None
  /\ Hosts \subseteq Runs /\ Watchdog \in Runs
  BY ConstantsAssumption DEF Threads, HoldIds, Runs, Responses

\* What every step of a hook does: one task at work moves on, and its call has finished
\* when the task is done.
LEMMA TaskMoves ==
  ASSUME TypeOK, NEW r \in Runs, NEW c \in Calls, TaskStep(r, c)
  PROVE  /\ UNCHANGED <<now, running, turn, addressee, echo, answer, snapshot>>
         /\ task[r][c].pc \in Working
         /\ task'[r][c].pc \notin {"idle", "lookup"}
         /\ task'[r][c].pc \in Locations
         /\ \A q \in Runs, d \in Calls : ~(q = r /\ d = c) => task'[q][d] = task[q][d]
         /\ finished' = IF task'[r][c].pc = "done" THEN finished \cup {c} ELSE finished
  <1> USE DEF graph, hostVars, history
  <1>1. UNCHANGED <<now, running, turn, addressee, echo, answer, snapshot>>
    BY DEF TaskStep, LookupPending, RecoverHold, AuthorizeAllow, AuthorizeDeny,
           AuthorizeReview, Suspend, ResolveHold, ExecuteTool
  <1>2. task[r][c].pc \in Working
    BY DEF TaskStep, LookupPending, RecoverHold, AuthorizeAllow, AuthorizeDeny,
           AuthorizeReview, Suspend, ResolveHold, ExecuteTool, Working, Locations, Ended,
           Reviewing
  <1>3. PICK t :
          /\ Goto(r, c, t)
          /\ t.pc \in Locations \ {"idle", "lookup"}
          /\ finished' = IF t.pc = "done" THEN finished \cup {c} ELSE finished
    <2> USE DEF Locations, Ended, Reviewing, Task
    <2>1. CASE LookupPending(r, c)
      BY <2>1 DEF LookupPending
    <2>2. CASE RecoverHold(r, c)
      <3>1. PICK hold : Goto(r, c, Task("authorize", hold, FALSE))
        BY <2>2 DEF RecoverHold
      <3>2. finished' = finished
        BY <2>2 DEF RecoverHold
      <3>3. QED
        BY <3>1, <3>2
    <2>3. CASE AuthorizeAllow(r, c)
      BY <2>3 DEF AuthorizeAllow
    <2>4. CASE AuthorizeDeny(r, c)
      BY <2>4 DEF AuthorizeDeny
    <2>5. CASE AuthorizeReview(r, c)
      BY <2>5 DEF AuthorizeReview
    <2>6. CASE Suspend(r, c)
      BY <2>6 DEF Suspend
    <2>7. CASE ResolveHold(r, c)
      BY <2>7 DEF ResolveHold
    <2>8. CASE ExecuteTool(r, c)
      BY <2>8 DEF ExecuteTool
    <2>9. QED
      BY <2>1, <2>2, <2>3, <2>4, <2>5, <2>6, <2>7, <2>8 DEF TaskStep
  <1>4. task'[r][c] = t
    BY <1>3 DEF Goto, TypeOK
  <1>5. \A q \in Runs, d \in Calls : ~(q = r /\ d = c) => task'[q][d] = task[q][d]
    BY <1>3 DEF Goto, TypeOK
  <1>6. QED
    BY <1>1, <1>2, <1>3, <1>4, <1>5

\* What starting a run does, or ending one (t None), to the runs and their tasks.
LEMMA StartMoves ==
  ASSUME TypeOK, NEW r \in Runs, NEW t, NEW tasks, NEW value, NEW to, NEW hold,
         Start(r, t, tasks, value, to, hold)
  PROVE  /\ running'[r] = t /\ resume'[r] = value /\ addressee'[r] = to /\ echo'[r] = hold
         /\ \A c \in Calls : task'[r][c].pc = IF c \in tasks THEN "lookup" ELSE "idle"
         /\ \A q \in Runs : q # r =>
              /\ running'[q] = running[q] /\ resume'[q] = resume[q]
              /\ addressee'[q] = addressee[q] /\ echo'[q] = echo[q]
              /\ task'[q] = task[q]
  BY DEF Start, TypeOK, Begin, Idle, Task

-----------------------------------------------------------------------------
(* The decisions that are acted on are those of the reviewer of that call. *)

\* What the host owes: a decision finds the hold it is about, because it is sent by
\* interrupt id or because no other call of the thread may be held.
ResumesById == ResumeById = TRUE
OneHoldAThread ==
  \A c, d \in Calls :
    /\ Thread[c] = Thread[d]
    /\ "REVIEW" \in PolicyVerdicts[c] /\ "REVIEW" \in PolicyVerdicts[d]
    => c = d
AnswersFindTheirHold == ResumesById \/ OneHoldAThread

\* What the policy owes: it does not allow, at one time, a call it sends to review at
\* another; and calls that share an id are all sent to review if one of them is, which a
\* provider that gives each call an id of its own grants it.
PolicyIsSteady ==
  \A c \in Calls : "REVIEW" \in PolicyVerdicts[c] => "ALLOW" \notin PolicyVerdicts[c]
SharedIdsAreReviewed ==
  \A c, d \in Calls :
    HoldId(c) = HoldId(d) /\ "REVIEW" \in PolicyVerdicts[c] => "REVIEW" \in PolicyVerdicts[d]

\* A run's tasks are calls of the thread it is on.
TasksAreOfTheThread ==
  \A r \in Runs, c \in Calls : task[r][c].pc # "idle" => running[r] = Thread[c]

\* What the checkpoint shows was promised, and what is answered was shown.
ShownIsHeld ==
  \A c \in Calls : /\ interrupts[c] # None => Held(c)
                   /\ answer[c] # None => "REVIEW" \in PolicyVerdicts[c]

\* An answer a run carries was given about a call of its thread, and is addressed to it
\* or to the interrupt the thread waits on.
AnswersAreCarried ==
  \A r \in Runs : resume[r] \in Answers =>
    \E c \in Calls :
      /\ answer[c] = resume[r] /\ Thread[c] = running[r]
      /\ "REVIEW" \in PolicyVerdicts[c]
      /\ addressee[r] = IF ResumeById THEN c ELSE None

Delivery == TasksAreOfTheThread /\ ShownIsHeld /\ AnswersAreCarried

VerdictInv == HeldByReview /\ TasksByVerdict /\ ExecutedByVerdict

\* An answer that reaches a task is the one given about its call.
LEMMA AnswersReachTheirHold ==
  ASSUME AnswersFindTheirHold, Delivery, NEW r \in Runs, NEW c \in Calls,
         task[r][c].pc \in Reviewing, "REVIEW" \in PolicyVerdicts[c],
         Response(r, c) \in Answers
  PROVE  answer[c] = Response(r, c)
  <1>1. Response(r, c) # None /\ task[r][c].pc # "idle"
    BY ConstantFacts DEF Responses, Reviewing
  <1>2. resume[r] = Response(r, c) /\ addressee[r] \in {None, c} /\ running[r] = Thread[c]
    BY <1>1 DEF Response, Delivery, TasksAreOfTheThread
  <1>3. PICK d \in Calls :
          /\ answer[d] = resume[r] /\ Thread[d] = running[r]
          /\ "REVIEW" \in PolicyVerdicts[d]
          /\ addressee[r] = IF ResumeById THEN d ELSE None
    BY <1>2 DEF Delivery, AnswersAreCarried
  <1>4. d = c
    <2>1. CASE ResumesById
      BY <1>2, <1>3, <2>1, ConstantFacts DEF ResumesById
    <2>2. CASE OneHoldAThread
      BY <1>2, <1>3, <2>2 DEF OneHoldAThread
    <2>3. QED
      BY <2>1, <2>2 DEF AnswersFindTheirHold
  <1>5. QED
    BY <1>2, <1>3, <1>4

\* A run that starts or ends carries only the answer it is started with.
LEMMA StartDelivery ==
  ASSUME TypeOK, Delivery, NEW r \in Runs, NEW t, NEW tasks, NEW value, NEW to,
         NEW hold, Start(r, t, tasks, value, to, hold),
         \A c \in Calls : c \in tasks => Thread[c] = t,
         value \in Answers => \E c \in Calls :
           /\ answer[c] = value /\ Thread[c] = t /\ "REVIEW" \in PolicyVerdicts[c]
           /\ to = IF ResumeById THEN c ELSE None,
         UNCHANGED <<answer, interrupts, promised>>
  PROVE  Delivery'
  <1>1. /\ running'[r] = t /\ resume'[r] = value /\ addressee'[r] = to
        /\ \A c \in Calls : task'[r][c].pc = IF c \in tasks THEN "lookup" ELSE "idle"
        /\ \A q \in Runs : q # r =>
             /\ running'[q] = running[q] /\ resume'[q] = resume[q]
             /\ addressee'[q] = addressee[q] /\ task'[q] = task[q]
    BY StartMoves
  <1>2. TasksAreOfTheThread'
    BY <1>1 DEF Delivery, TasksAreOfTheThread
  <1>3. ShownIsHeld'
    BY DEF Delivery, ShownIsHeld, Held
  <1>4. AnswersAreCarried'
    <2> SUFFICES ASSUME NEW q \in Runs, resume'[q] \in Answers
                 PROVE  \E c \in Calls :
                          /\ answer[c] = resume'[q] /\ Thread[c] = running'[q]
                          /\ "REVIEW" \in PolicyVerdicts[c]
                          /\ addressee'[q] = IF ResumeById THEN c ELSE None
      BY DEF AnswersAreCarried
    <2>1. CASE q = r
      BY <1>1, <2>1
    <2>2. CASE q # r
      BY <1>1, <2>2 DEF Delivery, AnswersAreCarried
    <2>3. QED
      BY <2>1, <2>2
  <1>5. QED
    BY <1>2, <1>3, <1>4 DEF Delivery

\* Every step keeps the answers on their way, provided only reviewed calls are held.
LEMMA DeliveryStep ==
  ASSUME TypeOK, Delivery, HoldsAreOwn, [Next]_vars
  PROVE  Delivery'
  <1> USE DEF graph, hostVars, history
  <1>0. None \notin Answers /\ TimeoutSentinel \notin Answers
    BY ConstantFacts DEF Responses, TimeoutSentinel, Answers, Decisions
  <1>1. ASSUME NEW r \in Runs, NEW c \in Calls, TaskStep(r, c) PROVE Delivery'
    <2>1. /\ UNCHANGED <<running, addressee, answer>>
          /\ task[r][c].pc # "idle"
          /\ \A q \in Runs, d \in Calls : ~(q = r /\ d = c) => task'[q][d] = task[q][d]
      BY <1>1, TaskMoves DEF Working, Ended
    <2>2. \A q \in Runs : resume'[q] \in {resume[q], None}
      BY <1>1 DEF TaskStep, LookupPending, RecoverHold, AuthorizeAllow, AuthorizeDeny,
                  AuthorizeReview, Suspend, ResolveHold, ExecuteTool, TypeOK
    <2>3. \A d \in Calls : interrupts'[d] # None => promised'[d] # None
      <3>1. CASE Suspend(r, c)
        BY <3>1 DEF Suspend, TypeOK, Delivery, ShownIsHeld, Held
      <3>2. CASE UNCHANGED <<interrupts, promised>>
        BY <3>2 DEF Delivery, ShownIsHeld, Held
      <3>3. QED
        BY <1>1, <3>1, <3>2
          DEF TaskStep, LookupPending, RecoverHold, AuthorizeAllow, AuthorizeDeny,
              AuthorizeReview, ResolveHold, ExecuteTool
    <2>4. TasksAreOfTheThread'
      BY <2>1 DEF Delivery, TasksAreOfTheThread
    <2>5. ShownIsHeld'
      BY <2>1, <2>3 DEF Delivery, ShownIsHeld, Held
    <2>6. AnswersAreCarried'
      BY <1>0, <2>1, <2>2 DEF Delivery, AnswersAreCarried
    <2>7. QED
      BY <2>4, <2>5, <2>6 DEF Delivery
  <1>2. ASSUME NEW r \in Runs, CommitSuperstep(r) PROVE Delivery'
    <2> DEFINE t == running[r]
               next == {c \in Calls : Thread[c] = t /\ Turn[c] = turn[t] + 1}
    <2>1. /\ Start(r, t, next, None, None, None)
          /\ UNCHANGED <<answer, interrupts, promised>>
      BY <1>2 DEF CommitSuperstep
    <2>2. \A c \in Calls : c \in next => Thread[c] = t
      OBVIOUS
    <2> HIDE DEF t, next
    <2>3. QED
      BY <1>0, <2>1, <2>2, StartDelivery
  <1>3. ASSUME NEW r \in Runs, EndRun(r) PROVE Delivery'
    <2>1. /\ Start(r, None, {}, None, None, None)
          /\ UNCHANGED <<answer, interrupts, promised>>
      BY <1>3 DEF EndRun
    <2>2. QED
      BY <1>0, <2>1, StartDelivery
  <1>4. ASSUME NEW h \in Hosts, NEW t \in Threads, Invoke(h, t) PROVE Delivery'
    <2> DEFINE first == {c \in Calls : Thread[c] = t /\ Turn[c] = 1}
    <2>1. /\ Start(h, t, first, None, None, None) /\ h \in Runs
          /\ UNCHANGED <<answer, interrupts, promised>>
      BY <1>4, ConstantFacts DEF Invoke
    <2>2. \A c \in Calls : c \in first => Thread[c] = t
      OBVIOUS
    <2> HIDE DEF first
    <2>3. QED
      BY <1>0, <2>1, <2>2, StartDelivery
  <1>5. ASSUME NEW h \in Hosts, NEW c \in Calls, HostResume(h, c) PROVE Delivery'
    <2> DEFINE t == Thread[c]
               to == IF ResumeById THEN c ELSE None
    <2>1. PICK hold : Start(h, t, Unfinished(t), answer[c], to, hold)
      BY <1>5 DEF HostResume
    <2>2. h \in Runs /\ UNCHANGED <<answer, interrupts, promised>>
      BY <1>5, ConstantFacts DEF HostResume
    <2>3. \A d \in Calls : d \in Unfinished(t) => Thread[d] = t
      BY DEF Unfinished
    <2>4. answer[c] \in Answers => "REVIEW" \in PolicyVerdicts[c]
      BY <1>0 DEF Delivery, ShownIsHeld
    <2>5. answer[c] \in Answers => \E d \in Calls :
            /\ answer[d] = answer[c] /\ Thread[d] = t /\ "REVIEW" \in PolicyVerdicts[d]
            /\ to = IF ResumeById THEN d ELSE None
      BY <2>4
    <2> HIDE DEF t, to
    <2>6. QED
      BY <2>1, <2>2, <2>3, <2>5, StartDelivery
  <1>6. ASSUME NEW id \in HoldIds, WatchdogResume(id) PROVE Delivery'
    <2> DEFINE t == HoldThread(id)
    <2>1. /\ Start(Watchdog, t, Unfinished(t), TimeoutSentinel, None, None)
          /\ UNCHANGED <<answer, interrupts, promised>>
      BY <1>6 DEF WatchdogResume
    <2>2. \A d \in Calls : d \in Unfinished(t) => Thread[d] = t
      BY DEF Unfinished
    <2> HIDE DEF t
    <2>3. QED
      BY <1>0, <2>1, <2>2, ConstantFacts, StartDelivery
  <1>7. ASSUME NEW c \in Calls, NEW response \in Answers, Decide(c, response)
        PROVE  Delivery'
    <2>1. "REVIEW" \in PolicyVerdicts[c]
      BY <1>7 DEF Decide, Outstanding, Delivery, ShownIsHeld, HoldsAreOwn
    <2>2. /\ answer[c] = None
          /\ \A d \in Calls : d # c => answer'[d] = answer[d]
          /\ UNCHANGED <<running, resume, addressee, task, interrupts, promised>>
      BY <1>7 DEF Decide, TypeOK
    <2>3. TasksAreOfTheThread' /\ ShownIsHeld'
      BY <2>1, <2>2 DEF Delivery, TasksAreOfTheThread, ShownIsHeld, Held
    <2>4. AnswersAreCarried'
      BY <1>0, <2>2 DEF Delivery, AnswersAreCarried
    <2>5. QED
      BY <2>3, <2>4 DEF Delivery
  <1>8. CASE UNCHANGED <<running, resume, addressee, task, answer, interrupts, promised>>
    BY <1>8 DEF Delivery, TasksAreOfTheThread, ShownIsHeld, AnswersAreCarried, Held
  <1>9. QED
    BY <1>1, <1>2, <1>3, <1>4, <1>5, <1>6, <1>7, <1>8
      DEF Next, RunStep, LosePending, Tick, WatchdogStep, WatchdogRefused, WatchdogSleep,
          vars

\* It holds at the start.
LEMMA DeliveryInit ==
  ASSUME Init
  PROVE  Delivery
  <1>1. None \notin Answers
    BY ConstantFacts DEF Responses
  <1>2. \A r \in Runs, c \in Calls : task[r][c].pc = "idle"
    BY DEF Init, Idle, Task
  <1>3. QED
    BY <1>1, <1>2
      DEF Init, Delivery, TasksAreOfTheThread, ShownIsHeld, AnswersAreCarried

\* A step of the hook keeps what the verdicts explain, if an approval that reaches the
\* task is its reviewer's.
LEMMA TaskStepVerdicts ==
  ASSUME SharedIdsAreReviewed, TypeOK, VerdictInv, NEW r \in Runs, NEW c \in Calls,
         TaskStep(r, c),
         task[r][c].pc \in Reviewing /\ Response(r, c) = "approve"
           => answer[c] = "approve"
  PROVE  VerdictInv'
  <1> USE DEF graph, hostVars, history
  <1>0. /\ UNCHANGED answer
        /\ \A q \in Runs, d \in Calls : ~(q = r /\ d = c) => task'[q][d] = task[q][d]
    BY TaskMoves
  <1>1. /\ task[r][c].pc \in Reviewing => "REVIEW" \in PolicyVerdicts[c]
        /\ task[r][c].pc = "allowed" => "ALLOW" \in PolicyVerdicts[c]
        /\ task[r][c].pc = "approved" => answer[c] = "approve"
        /\ pending[HoldId(c)] # None => "REVIEW" \in PolicyVerdicts[c]
    BY DEF VerdictInv, TasksByVerdict, HeldByReview
  <1>2. TasksByVerdict'
    <2>1. /\ task'[r][c].pc \in Reviewing => "REVIEW" \in PolicyVerdicts[c]
          /\ task'[r][c].pc = "allowed" => "ALLOW" \in PolicyVerdicts[c]
          /\ task'[r][c].pc = "approved" => answer[c] = "approve"
      <3>0. \A t : Goto(r, c, t) => task'[r][c] = t
        BY DEF Goto, TypeOK
      <3>1. CASE LookupPending(r, c)
        BY <1>1, <3>0, <3>1 DEF LookupPending, Task, Reviewing
      <3>2. CASE RecoverHold(r, c)
        <4>1. PICK hold : Goto(r, c, Task("authorize", hold, FALSE))
          BY <3>2 DEF RecoverHold
        <4>2. QED
          BY <3>0, <4>1 DEF Task, Reviewing
      <3>3. CASE AuthorizeAllow(r, c)
        BY <3>0, <3>3 DEF AuthorizeAllow, Task, Reviewing
      <3>4. CASE AuthorizeDeny(r, c)
        BY <3>0, <3>4 DEF AuthorizeDeny, Task, Reviewing
      <3>5. CASE AuthorizeReview(r, c)
        BY <3>0, <3>5 DEF AuthorizeReview, Task, Reviewing
      <3>6. CASE Suspend(r, c)
        BY <3>0, <3>6 DEF Suspend, Task, Reviewing
      <3>7. CASE ResolveHold(r, c)
        <4>1. task'[r][c].pc \in {"approved", "done"}
          BY <3>0, <3>7 DEF ResolveHold, Task
        <4>2. ASSUME task'[r][c].pc = "approved" PROVE answer[c] = "approve"
          <5>1. Resolve(Persisted(r, c), Response(r, c), now) = "approved"
            BY <3>0, <3>7, <4>2 DEF ResolveHold, Task
          <5>2. QED
            BY <3>7, <5>1, ResolveType DEF ResolveHold
        <4>3. QED
          BY <4>1, <4>2 DEF Reviewing
      <3>8. CASE ExecuteTool(r, c)
        BY <3>0, <3>8 DEF ExecuteTool, Task, Reviewing
      <3>9. QED
        BY <3>1, <3>2, <3>3, <3>4, <3>5, <3>6, <3>7, <3>8 DEF TaskStep
    <2>2. QED
      BY <1>0, <2>1 DEF VerdictInv, TasksByVerdict
  <1>3. HeldByReview'
    <2>1. \A d \in Calls : HoldId(d) \in HoldIds
      BY ConstantFacts
    <2>2. CASE AuthorizeReview(r, c)
      <3>1. /\ "REVIEW" \in PolicyVerdicts[c] /\ UNCHANGED promised
            /\ \A d \in Calls : HoldId(d) # HoldId(c) =>
                 pending'[HoldId(d)] = pending[HoldId(d)]
        BY <2>1, <2>2 DEF AuthorizeReview, Remember, TypeOK
      <3>2. QED
        BY <3>1 DEF VerdictInv, HeldByReview, Held, SharedIdsAreReviewed
    <2>3. CASE Suspend(r, c)
      <3>1. /\ "REVIEW" \in PolicyVerdicts[c] /\ UNCHANGED pending
            /\ \A d \in Calls : d # c => promised'[d] = promised[d]
        BY <1>1, <2>3 DEF Suspend, TypeOK
      <3>2. QED
        BY <3>1 DEF VerdictInv, HeldByReview, Held
    <2>4. CASE ResolveHold(r, c)
      <3>1. UNCHANGED promised /\ \A id \in HoldIds : pending'[id] # None => pending[id] # None
        BY <2>4 DEF ResolveHold, Forget, TypeOK
      <3>2. QED
        BY <2>1, <3>1 DEF VerdictInv, HeldByReview, Held
    <2>5. CASE UNCHANGED <<pending, promised>>
      BY <2>5 DEF VerdictInv, HeldByReview, Held
    <2>6. QED
      BY <2>2, <2>3, <2>4, <2>5
        DEF TaskStep, LookupPending, RecoverHold, AuthorizeAllow, AuthorizeDeny, ExecuteTool
  <1>4. ExecutedByVerdict'
    <2>1. CASE ExecuteTool(r, c)
      <3>1. "ALLOW" \in PolicyVerdicts[c] \/ answer[c] = "approve"
        BY <1>1, <2>1 DEF ExecuteTool
      <3>2. \A d \in Calls : d # c => executed'[d] = executed[d]
        BY <2>1 DEF ExecuteTool, TypeOK
      <3>3. QED
        BY <1>0, <3>1, <3>2 DEF VerdictInv, ExecutedByVerdict
    <2>2. CASE UNCHANGED executed
      BY <1>0, <2>2 DEF VerdictInv, ExecutedByVerdict
    <2>3. QED
      BY <2>1, <2>2
        DEF TaskStep, LookupPending, RecoverHold, AuthorizeAllow, AuthorizeDeny,
            AuthorizeReview, Suspend, ResolveHold
  <1>5. QED
    BY <1>2, <1>3, <1>4 DEF VerdictInv

\* So does every other step: runs start and end without a task in review or about to run
\* a tool, and answers stay.
LEMMA OtherStepVerdicts ==
  ASSUME TypeOK, VerdictInv, [Next]_vars,
         \A r \in Runs, c \in Calls : ~TaskStep(r, c)
  PROVE  VerdictInv'
  <1> USE DEF graph, hostVars, history
  <1>0. None # "approve" /\ Hosts \subseteq Runs /\ Watchdog \in Runs
    BY ConstantFacts DEF Responses, Answers, Decisions
  <1>1. ASSUME NEW r \in Runs, NEW t, NEW tasks, NEW value, NEW to, NEW hold,
               Start(r, t, tasks, value, to, hold)
        PROVE  \A q \in Runs, c \in Calls :
                 task'[q][c].pc \in {"idle", "lookup"} \/ task'[q][c] = task[q][c]
    BY <1>1, StartMoves
  <1>2. \A q \in Runs, c \in Calls :
          task'[q][c].pc \in {"idle", "lookup"} \/ task'[q][c] = task[q][c]
    <2>1. ASSUME NEW r \in Runs, RunStep(r)
          PROVE  \E t, tasks : Start(r, t, tasks, None, None, None)
      BY <2>1 DEF RunStep, CommitSuperstep, EndRun
    <2>2. ASSUME NEW h \in Hosts, NEW c \in Calls, HostResume(h, c)
          PROVE  \E t, tasks, value, to, hold : Start(h, t, tasks, value, to, hold)
      BY <2>2 DEF HostResume
    <2>3. CASE UNCHANGED task
      BY <2>3
    <2>4. QED
      BY <1>0, <1>1, <2>1, <2>2, <2>3
        DEF Next, Invoke, Decide, LosePending, Tick, WatchdogStep, WatchdogResume,
            WatchdogRefused, WatchdogSleep, vars
  <1>3. /\ \A c \in Calls : answer[c] = "approve" => answer'[c] = "approve"
        /\ UNCHANGED <<promised, executed>>
        /\ pending' \in {pending, NoHolds}
    BY <1>0 DEF Next, RunStep, CommitSuperstep, EndRun, Invoke, HostResume, Decide, LosePending,
                Tick, WatchdogStep, WatchdogResume, WatchdogRefused, WatchdogSleep, vars,
                TypeOK
  <1>4. QED
    BY <1>2, <1>3, ConstantFacts
      DEF VerdictInv, HeldByReview, TasksByVerdict, ExecutedByVerdict, Held, NoHolds,
          Reviewing

\* For every set of calls, threads, hosts and windows, with the watchdog racing the host
\* and the pending table lost at any time: an answer is acted on only for the call it was
\* given about, and every task, tool run and hold has the verdict that explains it.
THEOREM VerdictsHold ==
  ASSUME AnswersFindTheirHold, SharedIdsAreReviewed
  PROVE  Spec => [](VerdictInv /\ Delivery)
  <1>1. Init => VerdictInv /\ Delivery
    <2> SUFFICES ASSUME Init PROVE VerdictInv
      BY DeliveryInit
    <2>1. HeldByReview
      BY DEF Init, HeldByReview, Held, NoHolds, HoldIds
    <2>2. TasksByVerdict
      BY DEF Init, TasksByVerdict, Idle, Task, Reviewing
    <2>3. ExecutedByVerdict
      BY DEF Init, ExecutedByVerdict
    <2>4. QED
      BY <2>1, <2>2, <2>3 DEF VerdictInv
  <1>2. TypeOK /\ VerdictInv /\ Delivery /\ [Next]_vars => VerdictInv' /\ Delivery'
    <2> SUFFICES ASSUME TypeOK, VerdictInv, Delivery, [Next]_vars
                 PROVE  VerdictInv' /\ Delivery'
      OBVIOUS
    <2>1. Delivery'
      BY DeliveryStep DEF VerdictInv, HeldByReview, HoldsAreOwn
    <2>2. ASSUME NEW r \in Runs, NEW c \in Calls, TaskStep(r, c) PROVE VerdictInv'
      <3>1. ASSUME task[r][c].pc \in Reviewing, Response(r, c) = "approve"
            PROVE  answer[c] = "approve"
        <4>1. "REVIEW" \in PolicyVerdicts[c] /\ "approve" \in Answers
          BY <3>1 DEF VerdictInv, TasksByVerdict, Answers, Decisions
        <4>2. QED
          BY <3>1, <4>1, AnswersReachTheirHold
      <3>2. QED
        BY <2>2, <3>1, TaskStepVerdicts
    <2>3. QED
      BY <2>1, <2>2, OtherStepVerdicts
  <1>3. QED
    BY <1>1, <1>2, TypeCorrect, PTL DEF Spec

\* Of a host that resumes by interrupt id, whatever hold it sends back with a decision.
THEOREM ApprovalsHold ==
  ASSUME ResumesById, SharedIdsAreReviewed
  PROVE  Spec => []ApprovalInv
  <1>1. AnswersFindTheirHold
    BY DEF AnswersFindTheirHold
  <1>2. VerdictInv /\ Delivery => ApprovalInv
    <2>1. "approve" \in Answers
      BY DEF Answers, Decisions
    <2>2. Delivery => ApprovalsAreAddressed
      BY <2>1 DEF Delivery, AnswersAreCarried, ApprovalsAreAddressed, ResumesById
    <2>3. QED
      BY <2>2 DEF VerdictInv, ApprovalInv
  <1>3. QED
    BY <1>1, <1>2, VerdictsHold, PTL

\* The tool of a call held for review runs only if the reviewer approved that call,
\* provided decisions find the hold they are about, the policy does not change a REVIEW
\* into an ALLOW, and calls it treats differently do not share an id.
THEOREM HeldCallsNeedApproval ==
  ASSUME AnswersFindTheirHold, SharedIdsAreReviewed, PolicyIsSteady
  PROVE  Spec => []HeldRunsOnlyIfApproved
  <1>1. VerdictInv => HeldRunsOnlyIfApproved
    BY DEF PolicyIsSteady, VerdictInv, HeldByReview, ExecutedByVerdict,
           HeldRunsOnlyIfApproved
  <1>2. QED
    BY <1>1, VerdictsHold, PTL
=============================================================================
