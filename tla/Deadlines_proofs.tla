-------------------------- MODULE Deadlines_proofs --------------------------
(***************************************************************************)
(* GovernedCalls where one run at a time is on a thread: every hold keeps  *)
(* the deadline it was first shown with, approvals count only inside it,   *)
(* and the review workflow implements the abstract life of a hold.         *)
(***************************************************************************)
EXTENDS GovernedCalls_proofs

\* What the theorems rest on: the watchdog's run and the host's are not on one thread at
\* the same time, the checkpoint can be asked, hosts send decisions alone (the documented
\* value), and calls that share an id are in different turns of one thread.
RunsDoNotOverlap == Overlap = FALSE
QueriesSucceed == StateQueryMayFail = FALSE
DecisionsComeAlone == SentBack \subseteq {None}
IdsDifferInTurn ==
  \A c, d \in Calls : HoldId(c) = HoldId(d) /\ c # d =>
    Thread[c] = Thread[d] /\ Turn[c] # Turn[d]

-----------------------------------------------------------------------------
(* One run at a time on a thread. *)

\* The runs: one per thread, and none before the first turn.
RunsAreAlone ==
  /\ \A r, q \in Runs : running[r] # None /\ running[r] = running[q] => r = q
  /\ \A r \in Runs, t \in Threads : running[r] = t => turn[t] # 0

\* Their tasks: the unfinished calls of the thread's current turn.
TasksAreCurrent ==
  \A r \in Runs, c \in Calls :
    /\ task[r][c].pc # "idle" => running[r] = Thread[c] /\ Current(c)
    /\ running[r] = Thread[c] /\ Current(c) /\ task[r][c].pc = "idle" => c \in finished
    /\ task[r][c].pc \in Working \cup {"interrupted"} => c \notin finished
    /\ task[r][c].pc = "done" => c \in finished

\* The calls of the turns gone by have finished, those of the turns to come have not.
TurnsComplete ==
  \A c \in Calls : /\ Turn[c] < turn[Thread[c]] => c \in finished
                   /\ turn[Thread[c]] < Turn[c] => c \notin finished

Scheduling == RunsAreAlone /\ TasksAreCurrent /\ TurnsComplete

\* A task that is not idle is the only one of its call.
LEMMA TasksAreAlone ==
  ASSUME Scheduling, NEW r \in Runs, NEW q \in Runs, NEW c \in Calls,
         task[r][c].pc # "idle", task[q][c].pc # "idle"
  PROVE  r = q
  <1>1. Thread[c] # None
    BY ConstantsAssumption DEF Threads
  <1>2. QED
    BY <1>1 DEF Scheduling, RunsAreAlone, TasksAreCurrent

\* A step of a hook keeps the scheduling.
LEMMA TaskStepScheduling ==
  ASSUME TypeOK, Scheduling, NEW r \in Runs, NEW c \in Calls, TaskStep(r, c)
  PROVE  Scheduling'
  <1>1. RunsAreAlone'
    BY TaskMoves DEF Scheduling, RunsAreAlone
  <1>2. \A d \in Calls : Current(d)' = Current(d)
    BY TaskMoves DEF Current
  <1>3. Current(c)
    BY TaskMoves DEF Scheduling, TasksAreCurrent, Working, Ended
  <1>4. TasksAreCurrent'
    <2> SUFFICES ASSUME NEW q \in Runs, NEW d \in Calls
                 PROVE  /\ task'[q][d].pc # "idle" => running'[q] = Thread[d] /\ Current(d)'
                        /\ running'[q] = Thread[d] /\ Current(d)' /\ task'[q][d].pc = "idle"
                             => d \in finished'
                        /\ task'[q][d].pc \in Working \cup {"interrupted"} => d \notin finished'
                        /\ task'[q][d].pc = "done" => d \in finished'
      BY DEF TasksAreCurrent
    <2>1. CASE q = r /\ d = c
      BY <1>2, <2>1, TaskMoves DEF Scheduling, TasksAreCurrent, Working, Ended
    <2>2. CASE d # c
      BY <1>2, <2>2, TaskMoves DEF Scheduling, TasksAreCurrent
    <2>3. CASE q # r /\ d = c
      <3>1. task[q][c].pc = "idle"
        BY <2>3, TaskMoves, TasksAreAlone DEF Working, Ended
      <3>2. task'[q][d].pc = "idle" /\ running'[q] = running[q]
        BY <2>3, <3>1, TaskMoves
      <3>3. running[q] # Thread[c]
        <4>1. running[r] = Thread[c] /\ Thread[c] # None
          <5>1. task[r][c].pc # "idle"
            BY TaskMoves DEF Working, Ended
          <5>2. Thread[c] # None
            BY ConstantsAssumption DEF Threads
          <5>3. QED
            BY <5>1, <5>2 DEF Scheduling, TasksAreCurrent
        <4>2. QED
          BY <2>3, <4>1 DEF Scheduling, RunsAreAlone
      <3>4. QED
        BY <2>3, <3>2, <3>3 DEF Working, Ended
    <2>4. QED
      BY <2>1, <2>2, <2>3
  <1>5. TurnsComplete'
    <2>1. Turn[c] = turn[Thread[c]] /\ turn[Thread[c]] \in Nat
      BY <1>3 DEF Current, TypeOK, Threads
    <2>2. QED
      BY <2>1, TaskMoves DEF Scheduling, TurnsComplete
  <1>6. QED
    BY <1>1, <1>4, <1>5 DEF Scheduling

\* A run that starts alone on its thread, in turn n of it, keeps the scheduling.
LEMMA StartScheduling ==
  ASSUME TypeOK, Scheduling, NEW r \in Runs, NEW t \in Threads, NEW n \in Nat \ {0},
         NEW tasks, NEW value, NEW to, NEW hold, Start(r, t, tasks, value, to, hold),
         \A q \in Runs : q # r => running[q] # t,
         running[r] \in {None, t},
         tasks = {c \in Calls : Thread[c] = t /\ Turn[c] = n /\ c \notin finished},
         turn' = [turn EXCEPT ![t] = n], UNCHANGED finished,
         TurnsComplete'
  PROVE  Scheduling'
  <1>0. /\ t # None
        /\ running'[r] = t
        /\ \A c \in Calls : task'[r][c].pc = IF c \in tasks THEN "lookup" ELSE "idle"
        /\ \A q \in Runs : q # r => running'[q] = running[q] /\ task'[q] = task[q]
    BY ConstantFacts, StartMoves
  <1>1. RunsAreAlone'
    <2>1. turn'[t] # 0 /\ \A u \in Threads : turn[u] # 0 => turn'[u] # 0
      BY DEF TypeOK
    <2>2. QED
      BY <1>0, <2>1 DEF Scheduling, RunsAreAlone
  <1>2. \A c \in Calls : /\ Thread[c] = t => (Current(c)' <=> Turn[c] = n)
                         /\ Thread[c] # t => (Current(c)' <=> Current(c))
    BY DEF Current, TypeOK, Threads
  <1>3. TasksAreCurrent'
    <2> SUFFICES ASSUME NEW q \in Runs, NEW c \in Calls
                 PROVE  /\ task'[q][c].pc # "idle" => running'[q] = Thread[c] /\ Current(c)'
                        /\ running'[q] = Thread[c] /\ Current(c)' /\ task'[q][c].pc = "idle"
                             => c \in finished'
                        /\ task'[q][c].pc \in Working \cup {"interrupted"} => c \notin finished'
                        /\ task'[q][c].pc = "done" => c \in finished'
      BY DEF TasksAreCurrent
    <2>1. CASE q = r
      BY <1>0, <1>2, <2>1 DEF Working, Ended
    <2>2. CASE q # r
      <3>1. running[q] # t
        BY <2>2
      <3>2. running'[q] = running[q] /\ task'[q] = task[q]
        BY <1>0, <2>2
      <3>3. QED
        BY <1>2, <3>1, <3>2 DEF Scheduling, TasksAreCurrent
    <2>3. QED
      BY <2>1, <2>2
  <1>4. QED
    BY <1>1, <1>3 DEF Scheduling

\* So does a resume, on a thread no run is on.
LEMMA ResumeScheduling ==
  ASSUME TypeOK, Scheduling, NEW r \in Runs, NEW t \in Threads,
         NEW value, NEW to, NEW hold, Start(r, t, Unfinished(t), value, to, hold),
         \A q \in Runs : running[q] # t, running[r] = None, Outstanding(t) # {},
         UNCHANGED <<turn, finished>>
  PROVE  Scheduling'
  <1>1. turn[t] \in Nat \ {0}
    <2>1. PICK c \in Calls : Thread[c] = t /\ Turn[c] = turn[t]
      BY DEF Outstanding, Unfinished, Current
    <2>2. QED
      BY <2>1, ConstantsAssumption
  <1>2. Unfinished(t) =
          {c \in Calls : Thread[c] = t /\ Turn[c] = turn[t] /\ c \notin finished}
    BY DEF Unfinished, Current
  <1>3. turn' = [turn EXCEPT ![t] = turn[t]]
    BY DEF TypeOK
  <1>4. TurnsComplete'
    BY DEF Scheduling, TurnsComplete
  <1>5. QED
    BY <1>1, <1>2, <1>3, <1>4, StartScheduling

\* A run that moves to the next turn: all calls of the one it leaves have finished.
LEMMA CommitMoves ==
  ASSUME TypeOK, Scheduling, NEW r \in Runs, CommitSuperstep(r)
  PROVE  /\ running[r] \in Threads
         /\ \A c \in Calls : Thread[c] = running[r] /\ Current(c) => c \in finished
         /\ \A c \in Calls : task[r][c].pc \in {"idle", "done"}
  <1>1. running[r] \in Threads
    BY DEF CommitSuperstep, TypeOK
  <1>2. \A c \in Calls : task[r][c].pc \in {"idle", "done"}
    BY DEF CommitSuperstep, TasksEnded, Interrupted, Ended
  <1>3. QED
    BY <1>1, <1>2 DEF Scheduling, TasksAreCurrent

\* Every step keeps the scheduling.
LEMMA SchedulingStep ==
  ASSUME RunsDoNotOverlap, TypeOK, Scheduling, [Next]_vars
  PROVE  Scheduling'
  <1> USE DEF graph, hostVars, history
  <1>0. Hosts \subseteq Runs /\ Watchdog \in Runs
    BY DEF Runs
  <1>1. ASSUME NEW r \in Runs, CommitSuperstep(r) PROVE Scheduling'
    <2> DEFINE t == running[r]
               n == turn[t] + 1
               next == {c \in Calls : Thread[c] = t /\ Turn[c] = n}
    <2>1. /\ t \in Threads /\ n \in Nat \ {0}
          /\ \A q \in Runs : q # r => running[q] # t
      BY <1>1, CommitMoves, ConstantsAssumption DEF Scheduling, RunsAreAlone, TypeOK
    <2>2. next = {c \in Calls : Thread[c] = t /\ Turn[c] = n /\ c \notin finished}
      BY <2>1, ConstantsAssumption DEF Scheduling, TurnsComplete, TypeOK
    <2>3. /\ Start(r, t, next, None, None, None)
          /\ turn' = [turn EXCEPT ![t] = n] /\ UNCHANGED finished
      BY <1>1 DEF CommitSuperstep
    <2>4. TurnsComplete'
      <3> SUFFICES ASSUME NEW c \in Calls
                   PROVE  /\ Turn[c] < turn'[Thread[c]] => c \in finished
                          /\ turn'[Thread[c]] < Turn[c] => c \notin finished
        BY <2>3 DEF TurnsComplete
      <3>1. CASE Thread[c] = t
        <4>1. turn'[t] = turn[t] + 1 /\ turn[t] \in Nat /\ Turn[c] \in Nat
          BY <2>1, <2>3, ConstantsAssumption DEF TypeOK
        <4>2. Turn[c] = turn[t] => c \in finished
          BY <1>1, <3>1, CommitMoves DEF Current
        <4>3. QED
          BY <3>1, <4>1, <4>2 DEF Scheduling, TurnsComplete
      <3>2. CASE Thread[c] # t
        BY <2>3, <3>2 DEF Scheduling, TurnsComplete, TypeOK, Threads
      <3>3. QED
        BY <3>1, <3>2
    <2> HIDE DEF t, n, next
    <2>5. QED
      BY <2>1, <2>2, <2>3, <2>4, StartScheduling DEF t
  <1>2. ASSUME NEW r \in Runs, EndRun(r) PROVE Scheduling'
    <2>1. Start(r, None, {}, None, None, None) /\ UNCHANGED <<turn, finished>>
      BY <1>2 DEF EndRun
    <2>5. /\ running'[r] = None
          /\ \A c \in Calls : task'[r][c].pc = "idle"
          /\ \A q \in Runs : q # r => running'[q] = running[q] /\ task'[q] = task[q]
      BY <2>1, StartMoves
    <2>2. RunsAreAlone'
      BY <2>1, <2>5, ConstantFacts DEF Scheduling, RunsAreAlone
    <2>3. TasksAreCurrent'
      BY <2>1, <2>5, ConstantFacts
        DEF Scheduling, TasksAreCurrent, Current, Working, Ended
    <2>4. QED
      BY <2>1, <2>2, <2>3 DEF Scheduling, TurnsComplete
  <1>3. ASSUME NEW h \in Hosts, NEW t \in Threads, Invoke(h, t) PROVE Scheduling'
    <2> DEFINE first == {c \in Calls : Thread[c] = t /\ Turn[c] = 1}
    <2>1. \A c \in Calls : Thread[c] = t => c \notin finished /\ ~(Turn[c] < 1)
      BY <1>3, ConstantsAssumption DEF Invoke, Scheduling, TurnsComplete
    <2>2. first = {c \in Calls : Thread[c] = t /\ Turn[c] = 1 /\ c \notin finished}
      BY <2>1
    <2>3. /\ Start(h, t, first, None, None, None)
          /\ turn' = [turn EXCEPT ![t] = 1] /\ UNCHANGED finished
      BY <1>3 DEF Invoke
    <2>4. TurnsComplete'
      BY <2>1, <2>3 DEF Scheduling, TurnsComplete, TypeOK, Threads
    <2>5. /\ \A q \in Runs : q # h => running[q] # t
          /\ running[h] \in {None, t}
      BY <1>3 DEF Invoke, Scheduling, RunsAreAlone
    <2> HIDE DEF first
    <2>6. UNCHANGED finished /\ h \in Runs /\ 1 \in Nat \ {0}
      BY <1>0, <2>3
    <2>7. QED
      BY <2>6, <2>2, <2>3, <2>4, <2>5, StartScheduling
  <1>4. ASSUME NEW h \in Hosts, NEW c \in Calls, HostResume(h, c) PROVE Scheduling'
    <2>1. Thread[c] \in Threads /\ \A q \in Runs : running[q] # Thread[c]
      BY <1>4 DEF HostResume, Free, Rivals, RunsDoNotOverlap, Threads
    <2>2. Outstanding(Thread[c]) # {}
      BY <1>4 DEF HostResume, TakesSingleResume
    <2>3. PICK to, hold :
            Start(h, Thread[c], Unfinished(Thread[c]), answer[c], to, hold)
      BY <1>4 DEF HostResume
    <2>4. running[h] = None /\ UNCHANGED <<turn, finished>>
      BY <1>4 DEF HostResume
    <2>5. QED
      BY <1>0, <2>1, <2>2, <2>3, <2>4, ResumeScheduling
  <1>5. ASSUME NEW id \in HoldIds, WatchdogResume(id) PROVE Scheduling'
    <2> DEFINE t == HoldThread(id)
    <2>1. t \in Threads /\ Outstanding(t) # {} /\ \A q \in Runs : running[q] # t
      BY <1>5 DEF WatchdogResume, TakesSingleResume, Free, Rivals, RunsDoNotOverlap
    <2>2. Start(Watchdog, t, Unfinished(t), TimeoutSentinel, None, None)
      BY <1>5 DEF WatchdogResume
    <2>3. running[Watchdog] = None /\ UNCHANGED <<turn, finished>>
      BY <1>5 DEF WatchdogResume, ScanTo
    <2> HIDE DEF t
    <2>4. QED
      BY <1>0, <2>1, <2>2, <2>3, ResumeScheduling
  <1>6. CASE UNCHANGED <<running, task, turn, finished>>
    BY <1>6 DEF Scheduling, RunsAreAlone, TasksAreCurrent, TurnsComplete, Current
  <1>7. QED
    BY <1>1, <1>2, <1>3, <1>4, <1>5, <1>6, TaskStepScheduling
      DEF Next, RunStep, Decide, LosePending, Tick, WatchdogStep, WatchdogRefused,
          WatchdogSleep, vars

\* The scheduling holds of every behaviour whose runs do not overlap.
THEOREM RunsAreScheduled ==
  ASSUME RunsDoNotOverlap
  PROVE  Spec => []Scheduling
  <1>1. Init => Scheduling
    <2> SUFFICES ASSUME Init PROVE Scheduling
      OBVIOUS
    <2>1. \A t \in Threads : t # None
      BY ConstantsAssumption
    <2>2. RunsAreAlone
      BY <2>1 DEF Init, RunsAreAlone
    <2>3. TasksAreCurrent
      BY <2>1 DEF Init, TasksAreCurrent, Idle, Task, Threads, Working, Ended
    <2>4. TurnsComplete
      BY ConstantFacts DEF Init, TurnsComplete
    <2>5. QED
      BY <2>2, <2>3, <2>4 DEF Scheduling
  <1>2. TypeOK /\ Scheduling /\ [Next]_vars => Scheduling'
    BY SchedulingStep
  <1>3. QED
    BY <1>1, <1>2, TypeCorrect, PTL DEF Spec

-----------------------------------------------------------------------------
(* What becomes of a hold. *)

Begun(c) == Turn[c] <= turn[Thread[c]]

\* What a task knows of the hold of its call is what was promised.
KnowsHold(r, c) ==
  LET at == task[r][c]
  IN /\ at.pc = "interrupted" => promised[c] # None
     /\ at.pc = "authorize" => at.hold = promised[c]
     /\ at.pc = "fresh" => promised[c] = None /\ at.hold = pending[HoldId(c)]
     /\ at.pc \in Reviewing => at.hold # None /\ "REVIEW" \in PolicyVerdicts[c]
     /\ at.pc \in {"replayed", "recovered", "approved"} =>
          at.hold = promised[c] /\ promised[c] # None
     /\ at.pc \in {"recover", "authorize", "allowed", "approved"} =>
          pending[HoldId(c)] = None
     /\ at.pc = "approved" => outcome[c] = "approved"
     /\ at.pc = "allowed" => "ALLOW" \in PolicyVerdicts[c]

TasksKnowHolds == \A r \in Runs, c \in Calls : KnowsHold(r, c)

\* The pending table: the holds of calls of the current turns, as they were promised or
\* are about to be.
PendingIsPromised ==
  \A id \in HoldIds : pending[id] # None =>
    \E c \in Calls :
      /\ HoldId(c) = id /\ Current(c) /\ c \notin finished
      /\ \/ pending[id] = promised[c]
         \/ promised[c] = None /\ \E r \in Runs : task[r][c].pc = "fresh"

\* The checkpoint, and the calls no run is at work on.
CheckpointIsPromised ==
  /\ interrupts = promised
  /\ \A c \in Calls :
       /\ promised[c] # None => "REVIEW" \in PolicyVerdicts[c] /\ Begun(c)
       /\ Current(c) /\ c \notin finished /\ (\A r \in Runs : running[r] # Thread[c])
            => promised[c] # None
       /\ outcome[c] # None =>
            /\ promised[c] # None
            /\ c \in finished \/ \E r \in Runs : task[r][c].pc = "approved"
       /\ executed[c] > 0 => c \in finished

\* The resume values: for holds that were promised.
ResumesArePromised ==
  \A r \in Runs : resume[r] # None => \A c \in Calls :
    running[r] = Thread[c] /\ Current(c) /\ c \notin finished => promised[c] # None

Holding == TasksKnowHolds /\ PendingIsPromised /\ CheckpointIsPromised /\ ResumesArePromised

\* Of the calls that share an id, one at most is in the current turn.
LEMMA CurrentIsOne ==
  ASSUME IdsDifferInTurn, NEW c \in Calls, NEW d \in Calls, HoldId(c) = HoldId(d),
         Current(c), Current(d)
  PROVE  c = d
  BY DEF IdsDifferInTurn, Current

\* What the pending table and the checkpoint have for a call whose task is at work.
LEMMA HoldsAtWork ==
  ASSUME IdsDifferInTurn, TypeOK, Scheduling, Holding, NEW r \in Runs, NEW c \in Calls,
         task[r][c].pc \in Working
  PROVE  /\ Current(c) /\ c \notin finished /\ running[r] = Thread[c]
         /\ \A q \in Runs : q # r => task[q][c].pc = "idle"
         /\ \A d \in Calls : d # c /\ HoldId(d) = HoldId(c) =>
              \A q \in Runs : task[q][d].pc = "idle"
         /\ pending[HoldId(c)] # None =>
              \/ pending[HoldId(c)] = promised[c]
              \/ promised[c] = None /\ task[r][c].pc = "fresh"
         /\ Recoverable(c) = {promised[c]} \ {None}
         /\ outcome[c] # None => task[r][c].pc = "approved"
         /\ executed[c] = 0
  <1>1. task[r][c].pc # "idle"
    BY DEF Working, Ended
  <1>2. Current(c) /\ c \notin finished /\ running[r] = Thread[c]
    BY <1>1 DEF Scheduling, TasksAreCurrent
  <1>3. \A q \in Runs : q # r => task[q][c].pc = "idle"
    BY <1>1, TasksAreAlone
  <1>4. \A d \in Calls : d # c /\ HoldId(d) = HoldId(c) =>
          \A q \in Runs : task[q][d].pc = "idle"
    BY <1>2, CurrentIsOne DEF Scheduling, TasksAreCurrent
  <1>5. pending[HoldId(c)] # None =>
          \/ pending[HoldId(c)] = promised[c]
          \/ promised[c] = None /\ task[r][c].pc = "fresh"
    <2> SUFFICES ASSUME pending[HoldId(c)] # None, pending[HoldId(c)] # promised[c]
                 PROVE  promised[c] = None /\ task[r][c].pc = "fresh"
      OBVIOUS
    <2>1. PICK d \in Calls :
            /\ HoldId(d) = HoldId(c) /\ Current(d)
            /\ \/ pending[HoldId(c)] = promised[d]
               \/ promised[d] = None /\ \E q \in Runs : task[q][d].pc = "fresh"
      BY ConstantFacts DEF Holding, PendingIsPromised
    <2>2. d = c
      BY <1>2, <2>1, CurrentIsOne
    <2>3. QED
      BY <1>3, <2>1, <2>2
  <1>6. Recoverable(c) = {promised[c]} \ {None}
    <2>1. {e \in Calls : Thread[e] = Thread[c] /\ Current(e) /\ HoldId(e) = HoldId(c)} = {c}
      BY <1>2, CurrentIsOne
    <2>2. interrupts[c] = promised[c]
      BY DEF Holding, CheckpointIsPromised
    <2>3. QED
      BY <2>1, <2>2 DEF Recoverable
  <1>7. outcome[c] # None => task[r][c].pc = "approved"
    BY <1>2, <1>3 DEF Holding, CheckpointIsPromised
  <1>8. executed[c] = 0
    BY <1>2 DEF Holding, CheckpointIsPromised, TypeOK
  <1>9. QED
    BY <1>2, <1>3, <1>4, <1>5, <1>6, <1>7, <1>8

\* What a step of the hook has to leave right about the call it is of.
LeavesRight(r, c) ==
  /\ KnowsHold(r, c)'
  /\ pending'[HoldId(c)] # None =>
       /\ c \notin finished'
       /\ \/ pending'[HoldId(c)] = promised'[c]
          \/ promised'[c] = None /\ task'[r][c].pc = "fresh"
  /\ interrupts'[c] = promised'[c]
  /\ promised[c] # None => promised'[c] = promised[c]
  /\ promised'[c] # None => "REVIEW" \in PolicyVerdicts[c]
  /\ outcome'[c] # None =>
       promised'[c] # None /\ (c \in finished' \/ task'[r][c].pc = "approved")
  /\ executed'[c] > 0 => c \in finished'

\* It leaves the other calls as they were.
LEMMA TaskFrame ==
  ASSUME TypeOK, NEW r \in Runs, NEW c \in Calls, TaskStep(r, c)
  PROVE  /\ \A id \in HoldIds : id # HoldId(c) => pending'[id] = pending[id]
         /\ \A d \in Calls : d # c =>
              /\ interrupts'[d] = interrupts[d] /\ promised'[d] = promised[d]
              /\ outcome'[d] = outcome[d] /\ executed'[d] = executed[d]
         /\ DOMAIN interrupts' = Calls /\ DOMAIN promised' = Calls
         /\ interrupts' = [d \in Calls |-> interrupts'[d]]
         /\ promised' = [d \in Calls |-> promised'[d]]
         /\ \A q \in Runs : resume'[q] # None => resume[q] # None
  <1> USE DEF graph, hostVars, history
  <1>1. \A id \in HoldIds : id # HoldId(c) => pending'[id] = pending[id]
    BY DEF TaskStep, LookupPending, RecoverHold, AuthorizeAllow, AuthorizeDeny,
           AuthorizeReview, Suspend, ResolveHold, ExecuteTool, Remember, Forget, TypeOK
  <1>2. \A d \in Calls : d # c =>
          interrupts'[d] = interrupts[d] /\ promised'[d] = promised[d]
    BY DEF TaskStep, LookupPending, RecoverHold, AuthorizeAllow, AuthorizeDeny,
           AuthorizeReview, Suspend, ResolveHold, ExecuteTool, TypeOK
  <1>3. \A d \in Calls : d # c => outcome'[d] = outcome[d] /\ executed'[d] = executed[d]
    BY DEF TaskStep, LookupPending, RecoverHold, AuthorizeAllow, AuthorizeDeny,
           AuthorizeReview, Suspend, ResolveHold, ExecuteTool, TypeOK
  <1>4. \A q \in Runs : resume'[q] # None => resume[q] # None
    BY DEF TaskStep, LookupPending, RecoverHold, AuthorizeAllow, AuthorizeDeny,
           AuthorizeReview, Suspend, ResolveHold, ExecuteTool, TypeOK
  <1>5. TypeOK'
    BY TaskStepType
  <1>6. QED
    BY <1>1, <1>2, <1>3, <1>4, <1>5 DEF TypeOK

\* So the rest is right too.
LEMMA TaskStepLeaves ==
  ASSUME IdsDifferInTurn, TypeOK, Scheduling, Holding, NEW r \in Runs, NEW c \in Calls,
         TaskStep(r, c), LeavesRight(r, c)
  PROVE  Holding'
  <1>0. /\ task[r][c].pc \in Working
        /\ UNCHANGED <<running, turn>>
        /\ \A q \in Runs, d \in Calls : ~(q = r /\ d = c) => task'[q][d] = task[q][d]
        /\ \A d \in Calls : d # c => (d \in finished' <=> d \in finished)
        /\ \A d \in finished : d \in finished'
    BY TaskMoves
  <1>1. \A d \in Calls : Current(d)' = Current(d) /\ Begun(d)' = Begun(d)
    BY <1>0 DEF Current, Begun
  <1>2. /\ Current(c) /\ running[r] = Thread[c] /\ c \notin finished
        /\ \A q \in Runs : q # r => task[q][c].pc = "idle"
        /\ \A d \in Calls : d # c /\ HoldId(d) = HoldId(c) =>
             \A q \in Runs : task[q][d].pc = "idle"
    BY <1>0, HoldsAtWork
  <1>3. TasksKnowHolds'
    <2> SUFFICES ASSUME NEW q \in Runs, NEW d \in Calls PROVE KnowsHold(q, d)'
      BY DEF TasksKnowHolds
    <2>1. CASE q = r /\ d = c
      BY <2>1 DEF LeavesRight
    <2>2. CASE task'[q][d].pc = "idle"
      BY <2>2 DEF KnowsHold, Reviewing
    <2>3. CASE d # c /\ task'[q][d].pc # "idle"
      <3>1. task'[q][d] = task[q][d] /\ HoldId(d) # HoldId(c) /\ HoldId(d) \in HoldIds
        BY <1>0, <1>2, <2>3, ConstantFacts
      <3>2. /\ promised'[d] = promised[d] /\ outcome'[d] = outcome[d]
            /\ pending'[HoldId(d)] = pending[HoldId(d)]
        BY <2>3, <3>1, TaskFrame
      <3>3. KnowsHold(q, d)
        BY DEF Holding, TasksKnowHolds
      <3>4. QED
        BY <3>1, <3>2, <3>3 DEF KnowsHold
    <2>4. CASE q # r /\ d = c
      BY <1>0, <1>2, <2>2, <2>4
    <2>5. QED
      BY <2>1, <2>2, <2>3, <2>4
  <1>4. PendingIsPromised'
    <2> SUFFICES ASSUME NEW id \in HoldIds, pending'[id] # None
                 PROVE  \E d \in Calls :
                          /\ HoldId(d) = id /\ Current(d)' /\ d \notin finished'
                          /\ \/ pending'[id] = promised'[d]
                             \/ /\ promised'[d] = None
                                /\ \E q \in Runs : task'[q][d].pc = "fresh"
      BY DEF PendingIsPromised
    <2>1. CASE id = HoldId(c)
      BY <1>1, <1>2, <2>1 DEF LeavesRight
    <2>2. CASE id # HoldId(c)
      <3>1. pending'[id] = pending[id]
        BY <2>2, TaskFrame
      <3>2. PICK d \in Calls :
              /\ HoldId(d) = id /\ Current(d) /\ d \notin finished
              /\ \/ pending[id] = promised[d]
                 \/ promised[d] = None /\ \E q \in Runs : task[q][d].pc = "fresh"
        BY <3>1 DEF Holding, PendingIsPromised
      <3>3. d # c /\ promised'[d] = promised[d]
        BY <2>2, <3>2, TaskFrame
      <3>4. d \notin finished' /\ Current(d)' /\ \A q \in Runs : task'[q][d] = task[q][d]
        BY <1>0, <1>1, <3>2, <3>3
      <3>5. QED
        BY <3>1, <3>2, <3>3, <3>4
    <2>3. QED
      BY <2>1, <2>2
  <1>5. CheckpointIsPromised'
    <2>1. interrupts' = promised'
      <3>1. \A d \in Calls : interrupts'[d] = promised'[d]
        BY TaskFrame DEF LeavesRight, Holding, CheckpointIsPromised
      <3>2. QED
        BY <3>1, TaskFrame
    <2>2. ASSUME NEW d \in Calls
          PROVE  /\ promised'[d] # None => "REVIEW" \in PolicyVerdicts[d] /\ Begun(d)'
                 /\ Current(d)' /\ d \notin finished' /\ (\A q \in Runs : running'[q] # Thread[d])
                      => promised'[d] # None
                 /\ outcome'[d] # None =>
                      /\ promised'[d] # None
                      /\ d \in finished' \/ \E q \in Runs : task'[q][d].pc = "approved"
                 /\ executed'[d] > 0 => d \in finished'
      <3>1. CASE d = c
        <4>1. Begun(c) /\ running'[r] = Thread[c]
          BY <1>0, <1>2, ConstantFacts DEF Begun, Current
        <4>2. QED
          BY <1>0, <1>1, <3>1, <4>1 DEF LeavesRight
      <3>2. CASE d # c
        <4>1. /\ promised'[d] = promised[d] /\ outcome'[d] = outcome[d]
              /\ executed'[d] = executed[d]
          BY <3>2, TaskFrame
        <4>2. \A q \in Runs : task'[q][d] = task[q][d] /\ running'[q] = running[q]
          BY <1>0, <3>2
        <4>3. d \in finished' <=> d \in finished
          BY <1>0, <3>2
        <4>4. QED
          BY <1>1, <4>1, <4>2, <4>3 DEF Holding, CheckpointIsPromised
      <3>3. QED
        BY <3>1, <3>2
    <2>3. QED
      BY <2>1, <2>2 DEF CheckpointIsPromised
  <1>6. ResumesArePromised'
    <2>1. \A d \in Calls : promised[d] # None => promised'[d] = promised[d]
      BY TaskFrame DEF LeavesRight
    <2> SUFFICES ASSUME NEW q \in Runs
                 PROVE  resume'[q] # None => \A d \in Calls :
                          running'[q] = Thread[d] /\ Current(d)' /\ d \notin finished'
                            => promised'[d] # None
      BY DEF ResumesArePromised
    <2>2. resume'[q] # None => resume[q] # None
      BY TaskFrame
    <2>3. running'[q] = running[q]
      BY <1>0
    <2>4. QED
      BY <1>0, <1>1, <2>1, <2>2, <2>3 DEF Holding, ResumesArePromised
  <1>7. QED
    BY <1>3, <1>4, <1>5, <1>6 DEF Holding

\* A step of the hook leaves its call right, provided the checkpoint can be asked.
LEMMA TaskStepHolding ==
  ASSUME IdsDifferInTurn, QueriesSucceed, TypeOK, Scheduling, Holding,
         NEW r \in Runs, NEW c \in Calls, TaskStep(r, c)
  PROVE  Holding'
  <1> USE DEF graph, hostVars, history
  <1> DEFINE at == task[r][c]
             id == HoldId(c)
  <1>0. at.pc \in Working
    BY TaskMoves
  <1>1. /\ Current(c) /\ c \notin finished /\ running[r] = Thread[c]
        /\ pending[id] # None =>
             \/ pending[id] = promised[c]
             \/ promised[c] = None /\ at.pc = "fresh"
        /\ Recoverable(c) = {promised[c]} \ {None}
        /\ outcome[c] # None => at.pc = "approved"
        /\ executed[c] = 0
    BY <1>0, HoldsAtWork
  <1>2. KnowsHold(r, c)
    BY DEF Holding, TasksKnowHolds
  <1>3. /\ interrupts[c] = promised[c]
        /\ promised[c] # None => "REVIEW" \in PolicyVerdicts[c]
    BY DEF Holding, CheckpointIsPromised
  <1>4. id \in HoldIds
    BY ConstantFacts
  <1>5. LeavesRight(r, c)
    <2>1. CASE LookupPending(r, c)
      <3>1. at.pc = "lookup" /\ UNCHANGED <<pending, interrupts, promised, outcome,
                                             executed, finished>>
        BY <2>1 DEF LookupPending
      <3>2. CASE pending[id] # None
        <4>1. pending[id] = promised[c]
          BY <1>1, <3>1, <3>2
        <4>2. task'[r][c] = Task("replayed", pending[id], FALSE)
          BY <2>1, <3>2 DEF LookupPending, Goto, TypeOK
        <4>3. KnowsHold(r, c)'
          BY <1>3, <3>1, <3>2, <4>1, <4>2 DEF KnowsHold, Task, Reviewing
        <4>4. QED
          BY <1>1, <1>3, <3>1, <4>1, <4>3 DEF LeavesRight
      <3>3. CASE pending[id] = None
        <4>1. task'[r][c] = Task("recover", None, FALSE)
          BY <2>1, <3>3 DEF LookupPending, Goto, TypeOK
        <4>2. KnowsHold(r, c)'
          BY <3>1, <3>3, <4>1 DEF KnowsHold, Task, Reviewing
        <4>3. QED
          BY <1>1, <1>3, <3>1, <3>3, <4>2 DEF LeavesRight
      <3>4. QED
        BY <3>2, <3>3
    <2>2. CASE RecoverHold(r, c)
      <3>1. at.pc = "recover" /\ UNCHANGED <<pending, interrupts, promised, outcome,
                                              executed, finished>>
        BY <2>2 DEF RecoverHold
      <3>2. task'[r][c] = Task("authorize", promised[c], FALSE)
        <4>1. Goto(r, c, Task("authorize", promised[c], FALSE))
          BY <1>1, <2>2 DEF RecoverHold, QueriesSucceed
        <4>2. QED
          BY <4>1 DEF Goto, TypeOK
      <3>3. pending[id] = None
        BY <1>2, <3>1 DEF KnowsHold
      <3>4. KnowsHold(r, c)'
        BY <3>1, <3>2, <3>3 DEF KnowsHold, Task, Reviewing
      <3>5. QED
        BY <1>1, <1>3, <3>1, <3>3, <3>4 DEF LeavesRight
    <2>3. CASE AuthorizeAllow(r, c)
      <3>1. /\ at.pc = "authorize" /\ "ALLOW" \in PolicyVerdicts[c]
            /\ UNCHANGED <<pending, interrupts, promised, outcome, executed, finished>>
        BY <2>3 DEF AuthorizeAllow
      <3>2. task'[r][c] = Task("allowed", None, FALSE)
        BY <2>3 DEF AuthorizeAllow, Goto, TypeOK
      <3>3. pending[id] = None
        BY <1>2, <3>1 DEF KnowsHold
      <3>4. KnowsHold(r, c)'
        BY <3>1, <3>2, <3>3 DEF KnowsHold, Task, Reviewing
      <3>5. QED
        BY <1>1, <1>3, <3>1, <3>3, <3>4 DEF LeavesRight
    <2>4. CASE AuthorizeDeny(r, c)
      <3>1. /\ at.pc = "authorize" /\ c \in finished'
            /\ UNCHANGED <<pending, interrupts, promised, outcome, executed>>
        BY <2>4 DEF AuthorizeDeny
      <3>2. task'[r][c] = Task("done", None, FALSE)
        BY <2>4 DEF AuthorizeDeny, Goto, TypeOK
      <3>3. pending[id] = None
        BY <1>2, <3>1 DEF KnowsHold
      <3>4. KnowsHold(r, c)'
        BY <3>2 DEF KnowsHold, Task, Reviewing
      <3>5. QED
        BY <1>1, <1>3, <3>1, <3>3, <3>4 DEF LeavesRight
    <2>5. CASE AuthorizeReview(r, c)
      <3> DEFINE hold == IF at.hold # None THEN at.hold
                         ELSE BuildHold(ReviewTimeout[c], DefaultTimeout, now)
      <3>1. /\ at.pc = "authorize" /\ "REVIEW" \in PolicyVerdicts[c]
            /\ UNCHANGED <<interrupts, promised, outcome, executed, finished>>
        BY <2>5 DEF AuthorizeReview
      <3>2. task'[r][c] = Task(IF at.hold # None THEN "recovered" ELSE "fresh", hold, FALSE)
        BY <2>5 DEF AuthorizeReview, Goto, TypeOK
      <3>3. pending'[id] = hold
        BY <1>4, <2>5 DEF AuthorizeReview, Remember, TypeOK
      <3>4. at.hold = promised[c]
        BY <1>2, <3>1 DEF KnowsHold
      <3>5. hold # None
        <4>1. BuildHold(ReviewTimeout[c], DefaultTimeout, now) \in Int
          BY ConstantsAssumption DEF TypeOK, BuildHold, Window
        <4>2. QED
          BY <4>1, ConstantFacts
      <3> HIDE DEF hold
      <3>6. hold = promised[c] \/ promised[c] = None
        BY <3>4 DEF hold
      <3>7. KnowsHold(r, c)'
        BY <3>1, <3>2, <3>3, <3>4, <3>5, <3>6 DEF KnowsHold, Task, Reviewing
      <3>8. promised'[c] = None => task'[r][c].pc = "fresh"
        BY <3>1, <3>2, <3>4 DEF Task
      <3>9. QED
        BY <1>1, <1>3, <3>1, <3>3, <3>6, <3>7, <3>8 DEF LeavesRight
    <2>6. CASE Suspend(r, c)
      <3>1. /\ at.pc \in Reviewing /\ UNCHANGED <<pending, outcome, executed, finished>>
            /\ interrupts'[c] = at.hold
            /\ promised'[c] = IF promised[c] = None THEN at.hold ELSE promised[c]
        BY <2>6 DEF Suspend, TypeOK
      <3>2. task'[r][c] = Task("interrupted", None, FALSE)
        BY <2>6 DEF Suspend, Goto, TypeOK
      <3>3. /\ at.hold # None /\ "REVIEW" \in PolicyVerdicts[c]
            /\ promised[c] # None => at.hold = promised[c]
            /\ at.pc = "fresh" => at.hold = pending[id]
        BY <1>2, <3>1 DEF KnowsHold, Reviewing
      <3>4. KnowsHold(r, c)'
        BY <3>1, <3>2, <3>3 DEF KnowsHold, Task, Reviewing
      <3>5. pending'[id] # None => pending'[id] = promised'[c]
        BY <1>1, <3>1, <3>3
      <3>6. QED
        BY <1>1, <1>3, <3>1, <3>3, <3>4, <3>5 DEF LeavesRight, Reviewing
    <2>7. CASE ResolveHold(r, c)
      <3>1. /\ at.pc \in Reviewing /\ Response(r, c) # None
            /\ UNCHANGED <<interrupts, promised, executed>>
            /\ pending'[id] = None
            /\ outcome'[c] = Resolve(Persisted(r, c), Response(r, c), now)
        BY <1>4, <2>7 DEF ResolveHold, Forget, TypeOK
      <3>2. promised[c] # None
        <4>1. resume[r] # None
          BY <3>1 DEF Response
        <4>2. QED
          BY <1>1, <4>1 DEF Holding, ResumesArePromised
      <3>3. /\ "REVIEW" \in PolicyVerdicts[c] /\ at.hold = promised[c]
        BY <1>2, <3>1, <3>2 DEF KnowsHold, Reviewing
      <3>4. CASE /\ outcome'[c] = "approved"
                 /\ Goto(r, c, Task("approved", at.hold, at.pc # "replayed"))
        <4>1. task'[r][c] = Task("approved", at.hold, at.pc # "replayed")
          BY <3>4 DEF Goto, TypeOK
        <4>2. KnowsHold(r, c)'
          BY <3>1, <3>2, <3>3, <3>4, <4>1 DEF KnowsHold, Task, Reviewing
        <4>3. task'[r][c].pc = "approved"
          BY <4>1 DEF Task
        <4>4. QED
          BY <1>1, <1>3, <3>1, <3>2, <3>3, <4>2, <4>3 DEF LeavesRight
      <3>5. CASE Goto(r, c, Task("done", None, FALSE)) /\ finished' = finished \cup {c}
        <4>1. task'[r][c] = Task("done", None, FALSE)
          BY <3>5 DEF Goto, TypeOK
        <4>2. KnowsHold(r, c)'
          BY <4>1 DEF KnowsHold, Task, Reviewing
        <4>3. QED
          BY <1>1, <1>3, <3>1, <3>2, <3>3, <3>5, <4>2 DEF LeavesRight
      <3>6. QED
        BY <2>7, <3>1, <3>4, <3>5 DEF ResolveHold
    <2>8. CASE ExecuteTool(r, c)
      <3>1. /\ at.pc \in {"allowed", "approved"} /\ c \in finished'
            /\ UNCHANGED <<pending, interrupts, promised, outcome>>
        BY <2>8 DEF ExecuteTool
      <3>2. task'[r][c] = Task("done", None, FALSE)
        BY <2>8 DEF ExecuteTool, Goto, TypeOK
      <3>3. /\ pending[id] = None
            /\ at.pc = "approved" => promised[c] # None
        BY <1>2, <3>1 DEF KnowsHold
      <3>4. KnowsHold(r, c)'
        BY <3>2 DEF KnowsHold, Task, Reviewing
      <3>5. QED
        BY <1>1, <1>3, <3>1, <3>3, <3>4 DEF LeavesRight
    <2>9. QED
      BY <2>1, <2>2, <2>3, <2>4, <2>5, <2>6, <2>7, <2>8 DEF TaskStep
  <1>6. QED
    BY <1>5, TaskStepLeaves

\* What stays of the holds when a run starts or ends: the tasks it had were at rest, the
\* turns only go on, and it carries a value only for calls that are held.
LEMMA StartHolding ==
  ASSUME TypeOK, Scheduling, Scheduling', Holding, NEW r \in Runs, NEW t, NEW tasks,
         NEW value, NEW to, NEW hold, Start(r, t, tasks, value, to, hold),
         UNCHANGED <<pending, interrupts, finished, executed, history>>,
         \A c \in Calls : task[r][c].pc \in Ended,
         \A c \in Calls : /\ Begun(c) => Begun(c)'
                          /\ Current(c) /\ c \notin finished => Current(c)'
                          /\ Current(c)' /\ ~Current(c) => Thread[c] = t,
         value # None => \A c \in Calls :
           Thread[c] = t /\ Current(c)' /\ c \notin finished => promised[c] # None
  PROVE  Holding'
  <1> USE DEF history
  <1>1. /\ running'[r] = t /\ resume'[r] = value
        /\ \A c \in Calls : task'[r][c].pc \in {"idle", "lookup"}
        /\ \A q \in Runs : q # r =>
             running'[q] = running[q] /\ resume'[q] = resume[q] /\ task'[q] = task[q]
    BY StartMoves
  <1>2. TasksKnowHolds'
    <2> SUFFICES ASSUME NEW q \in Runs, NEW c \in Calls PROVE KnowsHold(q, c)'
      BY DEF TasksKnowHolds
    <2>1. CASE q = r
      BY <1>1, <2>1 DEF KnowsHold, Reviewing
    <2>2. CASE q # r
      <3>1. KnowsHold(q, c) /\ task'[q] = task[q]
        BY <1>1, <2>2 DEF Holding, TasksKnowHolds
      <3>2. QED
        BY <3>1 DEF KnowsHold
    <2>3. QED
      BY <2>1, <2>2
  <1>3. PendingIsPromised'
    <2> SUFFICES ASSUME NEW id \in HoldIds, pending[id] # None
                 PROVE  \E c \in Calls :
                          /\ HoldId(c) = id /\ Current(c)' /\ c \notin finished
                          /\ \/ pending[id] = promised[c]
                             \/ promised[c] = None /\ \E q \in Runs : task'[q][c].pc = "fresh"
      BY DEF PendingIsPromised
    <2>1. PICK c \in Calls :
            /\ HoldId(c) = id /\ Current(c) /\ c \notin finished
            /\ \/ pending[id] = promised[c]
               \/ promised[c] = None /\ \E q \in Runs : task[q][c].pc = "fresh"
      BY DEF Holding, PendingIsPromised
    <2>2. \A q \in Runs : task[q][c].pc = "fresh" => task'[q][c].pc = "fresh"
      BY <1>1 DEF Ended
    <2>3. QED
      BY <2>1, <2>2
  <1>4. CheckpointIsPromised'
    <2>1. ASSUME NEW c \in Calls, Current(c)', c \notin finished,
                 \A q \in Runs : running'[q] # Thread[c]
          PROVE  promised[c] # None
      <3>1. Current(c)
        BY <1>1, <2>1
      <3>2. CASE running[r] = Thread[c]
        <4>1. task[r][c].pc = "interrupted"
          BY <2>1, <3>1, <3>2 DEF Scheduling, TasksAreCurrent, Ended
        <4>2. QED
          BY <4>1 DEF Holding, TasksKnowHolds, KnowsHold
      <3>3. CASE running[r] # Thread[c]
        BY <1>1, <2>1, <3>1, <3>3 DEF Holding, CheckpointIsPromised
      <3>4. QED
        BY <3>2, <3>3
    <2>2. \A q \in Runs, c \in Calls : task[q][c].pc = "approved" => task'[q][c].pc = "approved"
      BY <1>1 DEF Ended
    <2>3. QED
      BY <2>1, <2>2 DEF Holding, CheckpointIsPromised
  <1>5. ResumesArePromised'
    <2> SUFFICES ASSUME NEW q \in Runs
                 PROVE  resume'[q] # None => \A c \in Calls :
                          running'[q] = Thread[c] /\ Current(c)' /\ c \notin finished
                            => promised[c] # None
      BY DEF ResumesArePromised
    <2>1. CASE q = r
      BY <1>1, <2>1
    <2>2. CASE q # r
      <3>1. \A c \in Calls : running'[q] = Thread[c] /\ Current(c)' => Current(c)
        BY <1>1, <2>2, ConstantFacts DEF Scheduling, RunsAreAlone
      <3>2. QED
        BY <1>1, <2>2, <3>1 DEF Holding, ResumesArePromised
    <2>3. QED
      BY <2>1, <2>2
  <1>6. QED
    BY <1>2, <1>3, <1>4, <1>5 DEF Holding

\* A thread no run is on: the calls its current turn has left are all held.
LEMMA RestingIsHeld ==
  ASSUME Holding, NEW t, \A q \in Runs : running[q] # t
  PROVE  \A c \in Calls : Thread[c] = t /\ Current(c) /\ c \notin finished
                            => promised[c] # None
  BY DEF Holding, CheckpointIsPromised

\* Every step keeps what is known of the holds.
LEMMA HoldingStep ==
  ASSUME RunsDoNotOverlap, QueriesSucceed, IdsDifferInTurn,
         TypeOK, Scheduling, Holding, [Next]_vars
  PROVE  Holding'
  <1> USE DEF graph, hostVars, history
  <1>0. Scheduling'
    BY SchedulingStep
  <1>a. \A r \in Runs : running[r] = None => \A c \in Calls : task[r][c].pc \in Ended
    BY ConstantFacts DEF Scheduling, TasksAreCurrent, Ended
  <1>1. ASSUME NEW r \in Runs, CommitSuperstep(r) PROVE Holding'
    <2> DEFINE t == running[r]
               next == {c \in Calls : Thread[c] = t /\ Turn[c] = turn[t] + 1}
    <2>1. /\ t \in Threads
          /\ \A c \in Calls : Thread[c] = t /\ Current(c) => c \in finished
          /\ \A c \in Calls : task[r][c].pc \in Ended
      BY <1>1, CommitMoves DEF Ended
    <2>2. /\ Start(r, t, next, None, None, None)
          /\ turn' = [turn EXCEPT ![t] = turn[t] + 1]
          /\ UNCHANGED <<pending, interrupts, finished, executed, history>>
      BY <1>1 DEF CommitSuperstep
    <2>3. \A c \in Calls : /\ Begun(c) => Begun(c)'
                           /\ Current(c) /\ c \notin finished => Current(c)'
                           /\ Current(c)' /\ ~Current(c) => Thread[c] = t
      <3> SUFFICES ASSUME NEW c \in Calls
                   PROVE  /\ Begun(c) => Begun(c)'
                          /\ Current(c) /\ c \notin finished => Current(c)'
                          /\ Current(c)' /\ ~Current(c) => Thread[c] = t
        OBVIOUS
      <3>1. /\ Thread[c] \in Threads /\ Turn[c] \in Nat
            /\ turn[Thread[c]] \in Nat
            /\ turn'[Thread[c]] = IF Thread[c] = t THEN turn[t] + 1 ELSE turn[Thread[c]]
        BY <2>1, <2>2, ConstantFacts DEF TypeOK
      <3>2. QED
        BY <2>1, <3>1 DEF Begun, Current
    <2> HIDE DEF t, next
    <2>4. QED
      BY <1>0, <2>1, <2>2, <2>3, StartHolding
  <1>2. ASSUME NEW r \in Runs, EndRun(r) PROVE Holding'
    <2>1. /\ Start(r, None, {}, None, None, None)
          /\ UNCHANGED <<pending, interrupts, finished, executed, history, turn>>
          /\ \A c \in Calls : task[r][c].pc \in Ended
      BY <1>2 DEF EndRun, TasksEnded
    <2>2. \A c \in Calls : Begun(c)' = Begun(c) /\ Current(c)' = Current(c)
      BY <2>1 DEF Begun, Current
    <2>3. QED
      BY <1>0, <2>1, <2>2, StartHolding
  <1>3. ASSUME NEW h \in Hosts, NEW t \in Threads, Invoke(h, t) PROVE Holding'
    <2> DEFINE first == {c \in Calls : Thread[c] = t /\ Turn[c] = 1}
    <2>1. /\ Start(h, t, first, None, None, None) /\ running[h] = None
          /\ turn[t] = 0 /\ turn' = [turn EXCEPT ![t] = 1]
          /\ UNCHANGED <<pending, interrupts, finished, executed, history>>
      BY <1>3 DEF Invoke
    <2>2. \A c \in Calls : /\ Begun(c) => Begun(c)'
                           /\ Current(c) /\ c \notin finished => Current(c)'
                           /\ Current(c)' /\ ~Current(c) => Thread[c] = t
      <3> SUFFICES ASSUME NEW c \in Calls
                   PROVE  /\ Begun(c) => Begun(c)'
                          /\ Current(c) => Current(c)'
                          /\ Current(c)' /\ ~Current(c) => Thread[c] = t
        OBVIOUS
      <3>1. /\ Thread[c] \in Threads /\ Turn[c] \in Nat \ {0}
            /\ turn[Thread[c]] \in Nat
            /\ turn'[Thread[c]] = IF Thread[c] = t THEN 1 ELSE turn[Thread[c]]
        BY <2>1, ConstantFacts DEF TypeOK
      <3>2. QED
        BY <2>1, <3>1 DEF Begun, Current
    <2> HIDE DEF first
    <2>3. QED
      BY <1>0, <1>a, <2>1, <2>2, ConstantFacts, StartHolding
  <1>4. ASSUME NEW h \in Hosts, NEW c \in Calls, HostResume(h, c) PROVE Holding'
    <2> DEFINE t == Thread[c]
    <2>1. /\ running[h] = None /\ \A q \in Runs : running[q] # t
          /\ UNCHANGED <<pending, interrupts, finished, executed, history, turn>>
      BY <1>4 DEF HostResume, Free, Rivals, RunsDoNotOverlap
    <2>2. PICK to, hold : Start(h, t, Unfinished(t), answer[c], to, hold)
      BY <1>4 DEF HostResume
    <2>3. \A d \in Calls : Begun(d)' = Begun(d) /\ Current(d)' = Current(d)
      BY <2>1 DEF Begun, Current
    <2>4. \A d \in Calls : Thread[d] = t /\ Current(d)' /\ d \notin finished
                             => promised[d] # None
      BY <2>1, <2>3, RestingIsHeld
    <2> HIDE DEF t
    <2>5. QED
      BY <1>0, <1>a, <2>1, <2>2, <2>3, <2>4, ConstantFacts, StartHolding
  <1>5. ASSUME NEW id \in HoldIds, WatchdogResume(id) PROVE Holding'
    <2> DEFINE t == HoldThread(id)
    <2>1. /\ running[Watchdog] = None /\ \A q \in Runs : running[q] # t
          /\ Start(Watchdog, t, Unfinished(t), TimeoutSentinel, None, None)
          /\ UNCHANGED <<pending, interrupts, finished, executed, history, turn>>
      BY <1>5 DEF WatchdogResume, ScanTo, Free, Rivals, RunsDoNotOverlap
    <2>2. \A d \in Calls : Begun(d)' = Begun(d) /\ Current(d)' = Current(d)
      BY <2>1 DEF Begun, Current
    <2>3. \A d \in Calls : Thread[d] = t /\ Current(d)' /\ d \notin finished
                             => promised[d] # None
      BY <2>1, <2>2, RestingIsHeld
    <2> HIDE DEF t
    <2>4. QED
      BY <1>0, <1>a, <2>1, <2>2, <2>3, ConstantFacts, StartHolding
  <1>6. CASE LosePending
    <2>1. \A r \in Runs, c \in Calls : task[r][c].pc = "idle"
      BY <1>6, ConstantFacts DEF LosePending, Scheduling, TasksAreCurrent
    <2>2. TasksKnowHolds'
      BY <1>6, <2>1 DEF LosePending, TasksKnowHolds, KnowsHold, Reviewing
    <2>3. PendingIsPromised'
      BY <1>6 DEF LosePending, PendingIsPromised, NoHolds
    <2>4. CheckpointIsPromised' /\ ResumesArePromised'
      BY <1>6 DEF LosePending, Holding, CheckpointIsPromised, ResumesArePromised, Current,
                  Begun
    <2>5. QED
      BY <2>2, <2>3, <2>4 DEF Holding
  <1>7. CASE UNCHANGED <<pending, graph, running, resume, addressee, echo, task, executed,
                         history>>
    BY <1>7 DEF Holding, TasksKnowHolds, KnowsHold, PendingIsPromised, CheckpointIsPromised,
                ResumesArePromised, Current, Begun
  <1>8. QED
    BY <1>1, <1>2, <1>3, <1>4, <1>5, <1>6, <1>7, TaskStepHolding
      DEF Next, RunStep, Decide, Tick, WatchdogStep, WatchdogRefused, WatchdogSleep, vars

\* What is known of the holds is so in every behaviour.
THEOREM HoldsAreKnown ==
  ASSUME RunsDoNotOverlap, QueriesSucceed, IdsDifferInTurn
  PROVE  Spec => []Holding
  <1>1. Init => Holding
    <2> SUFFICES ASSUME Init PROVE Holding
      OBVIOUS
    <2>1. \A r \in Runs, c \in Calls : task[r][c].pc = "idle"
      BY DEF Init, Idle, Task
    <2>2. TasksKnowHolds
      BY <2>1 DEF TasksKnowHolds, KnowsHold, Reviewing
    <2>3. PendingIsPromised
      BY DEF Init, PendingIsPromised, NoHolds
    <2>4. CheckpointIsPromised
      BY ConstantFacts DEF Init, CheckpointIsPromised, Current
    <2>5. ResumesArePromised
      BY DEF Init, ResumesArePromised
    <2>6. QED
      BY <2>2, <2>3, <2>4, <2>5 DEF Holding
  <1>2. TypeOK /\ Scheduling /\ Holding /\ [Next]_vars => Holding'
    BY HoldingStep
  <1>3. QED
    BY <1>1, <1>2, TypeCorrect, RunsAreScheduled, PTL DEF Spec

-----------------------------------------------------------------------------
(* What follows for the reviewer. *)

\* A call that is held and has not finished is in its thread's current turn.
LEMMA HeldIsCurrent ==
  ASSUME TypeOK, Scheduling, Holding, NEW c \in Calls, Held(c), c \notin finished
  PROVE  Current(c)
  <1>1. Turn[c] <= turn[Thread[c]] /\ ~(Turn[c] < turn[Thread[c]])
    BY DEF Held, Holding, CheckpointIsPromised, Begun, Scheduling, TurnsComplete
  <1>2. Turn[c] \in Nat /\ turn[Thread[c]] \in Nat
    BY ConstantFacts DEF TypeOK
  <1>3. QED
    BY <1>1, <1>2 DEF Current

\* Wherever a hold is kept it has the deadline its reviewer was first shown, through
\* re-executed hooks, lost tables and calls of later turns with the same id, provided
\* runs do not overlap on a thread and the checkpoint can be asked.
THEOREM DeadlinesAreDurable ==
  ASSUME RunsDoNotOverlap, QueriesSucceed, IdsDifferInTurn
  PROVE  Spec => []DeadlineIsDurable
  <1>1. TypeOK /\ Scheduling /\ Holding => DeadlineIsDurable
    <2> SUFFICES ASSUME TypeOK, Scheduling, Holding, NEW c \in Calls, Held(c)
                 PROVE  /\ interrupts[c] = promised[c]
                        /\ c \notin finished => pending[HoldId(c)] \in {None, promised[c]}
                        /\ \A r \in Runs : task[r][c].pc \in Reviewing \cup {"approved"}
                                             => task[r][c].hold = promised[c]
      BY DEF DeadlineIsDurable
    <2>1. interrupts[c] = promised[c]
      BY DEF Holding, CheckpointIsPromised
    <2>2. ASSUME c \notin finished, pending[HoldId(c)] # None
          PROVE  pending[HoldId(c)] = promised[c]
      <3>1. PICK d \in Calls :
              /\ HoldId(d) = HoldId(c) /\ Current(d)
              /\ pending[HoldId(c)] = promised[d] \/ promised[d] = None
        BY <2>2, ConstantFacts DEF Holding, PendingIsPromised
      <3>2. d = c
        BY <2>2, <3>1, HeldIsCurrent, CurrentIsOne
      <3>3. QED
        BY <3>1, <3>2 DEF Held
    <2>3. \A r \in Runs : task[r][c].pc \in Reviewing \cup {"approved"}
                            => task[r][c].hold = promised[c]
      BY DEF Holding, TasksKnowHolds, KnowsHold, Reviewing, Held
    <2>4. QED
      BY <2>1, <2>2, <2>3
  <1>2. QED
    BY <1>1, TypeCorrect, RunsAreScheduled, HoldsAreKnown, PTL

\* Only a call the policy sent to review is ever held: not one that merely comes with
\* the id of a call that was.
THEOREM NoHoldIsInherited ==
  ASSUME RunsDoNotOverlap, QueriesSucceed, IdsDifferInTurn
  PROVE  Spec => []HoldsAreOwn
  <1>1. Holding => HoldsAreOwn
    BY DEF Holding, CheckpointIsPromised, HoldsAreOwn, Held
  <1>2. QED
    BY <1>1, HoldsAreKnown, PTL

\* A hold that is resolved was promised, is known to its task and was not resolved before.
LEMMA ResolvesHeld ==
  ASSUME IdsDifferInTurn, TypeOK, Scheduling, Holding, NEW r \in Runs, NEW c \in Calls,
         ResolveHold(r, c)
  PROVE  /\ promised[c] # None /\ task[r][c].hold = promised[c]
         /\ outcome[c] = None
  <1>1. task[r][c].pc \in Reviewing /\ Response(r, c) # None
    BY DEF ResolveHold
  <1>2. task[r][c].pc \in Working /\ task[r][c].pc # "approved"
    BY <1>1 DEF Reviewing, Working, Locations, Ended
  <1>3. /\ Current(c) /\ c \notin finished /\ running[r] = Thread[c]
        /\ outcome[c] = None
    BY <1>2, HoldsAtWork
  <1>4. resume[r] # None
    BY <1>1 DEF Response
  <1>5. promised[c] # None
    BY <1>3, <1>4 DEF Holding, ResumesArePromised
  <1>6. task[r][c].hold = promised[c]
    BY <1>1, <1>5 DEF Holding, TasksKnowHolds, KnowsHold, Reviewing
  <1>7. QED
    BY <1>3, <1>5, <1>6

\* No resume value brings a hold along.
NoHoldIsSentBack == \A r \in Runs : echo[r] = None

\* So it is when decisions are sent alone: the watchdog's sentinel is sent alone anyhow.
THEOREM NothingIsSentBack ==
  ASSUME DecisionsComeAlone
  PROVE  Spec => []NoHoldIsSentBack
  <1>1. Init => NoHoldIsSentBack
    BY DEF Init, NoHoldIsSentBack
  <1>2. TypeOK /\ NoHoldIsSentBack /\ [Next]_vars => NoHoldIsSentBack'
    <2> SUFFICES ASSUME TypeOK, NoHoldIsSentBack, [Next]_vars
                 PROVE  NoHoldIsSentBack'
      OBVIOUS
    <2> USE DEF graph, hostVars, history
    <2>1. ASSUME NEW r \in Runs, NEW t, NEW tasks, NEW value, NEW to,
                 Start(r, t, tasks, value, to, None)
          PROVE  NoHoldIsSentBack'
      BY <2>1, StartMoves DEF NoHoldIsSentBack
    <2>2. CASE UNCHANGED echo
      BY <2>2 DEF NoHoldIsSentBack
    <2>3. ASSUME NEW r \in Runs, NEW c \in Calls, TaskStep(r, c) PROVE NoHoldIsSentBack'
      BY <2>2, <2>3, TaskMoves
    <2>4. ASSUME NEW r \in Runs, RunStep(r) PROVE NoHoldIsSentBack'
      BY <2>1, <2>4 DEF RunStep, CommitSuperstep, EndRun
    <2>5. ASSUME NEW h \in Hosts, NEW t \in Threads, Invoke(h, t) PROVE NoHoldIsSentBack'
      BY <2>1, <2>5, ConstantFacts DEF Invoke
    <2>6. ASSUME NEW h \in Hosts, NEW c \in Calls, HostResume(h, c)
          PROVE  NoHoldIsSentBack'
      <3> DEFINE to == IF ResumeById THEN c ELSE None
      <3>1. PICK hold \in SentBack :
              Start(h, Thread[c], Unfinished(Thread[c]), answer[c], to, hold)
        BY <2>6 DEF HostResume
      <3>2. hold = None
        BY <3>1 DEF DecisionsComeAlone
      <3> HIDE DEF to
      <3>3. QED
        BY <2>1, <3>1, <3>2, ConstantFacts
    <2>7. ASSUME NEW id \in HoldIds, WatchdogResume(id) PROVE NoHoldIsSentBack'
      BY <2>1, <2>7, ConstantFacts DEF WatchdogResume
    <2>8. QED
      BY <2>2, <2>3, <2>4, <2>5, <2>6, <2>7
        DEF Next, Decide, LosePending, Tick, WatchdogStep, WatchdogRefused, WatchdogSleep,
            vars
  <1>3. QED
    BY <1>1, <1>2, TypeCorrect, PTL DEF Spec

\* What a hold is resolved against: the deadline that was promised.
LEMMA ResolvesPromised ==
  ASSUME IdsDifferInTurn, TypeOK, Scheduling, Holding, NoHoldIsSentBack,
         NEW r \in Runs, NEW c \in Calls, ResolveHold(r, c)
  PROVE  /\ promised[c] # None /\ Persisted(r, c) = promised[c]
         /\ outcome[c] = None
  <1>1. promised[c] # None /\ task[r][c].hold = promised[c] /\ outcome[c] = None
    BY ResolvesHeld
  <1>2. QED
    BY <1>1 DEF Persisted, NoHoldIsSentBack

\* The one step that approves.
LEMMA OnlyResolveApproves ==
  ASSUME TypeOK, [Next]_vars, NEW r \in Runs, NEW c \in Calls,
         task[r][c].pc # "approved", task'[r][c].pc = "approved"
  PROVE  ResolveHold(r, c)
  <1> USE DEF graph, hostVars, history
  <1>1. ASSUME NEW q \in Runs, NEW t, NEW tasks, NEW value, NEW to, NEW hold
        PROVE  ~Start(q, t, tasks, value, to, hold)
    BY StartMoves
  <1>2. TaskStep(r, c)
    <2>1. ASSUME NEW q \in Runs, NEW d \in Calls, TaskStep(q, d) PROVE TaskStep(r, c)
      BY <2>1, TaskMoves
    <2>2. ASSUME NEW q \in Runs, RunStep(q) PROVE FALSE
      BY <1>1, <2>2 DEF RunStep, CommitSuperstep, EndRun
    <2>3. ASSUME NEW h \in Hosts, NEW t \in Threads, Invoke(h, t) PROVE FALSE
      BY <1>1, <2>3, ConstantFacts DEF Invoke
    <2>4. ASSUME NEW h \in Hosts, NEW d \in Calls, HostResume(h, d) PROVE FALSE
      BY <1>1, <2>4, ConstantFacts DEF HostResume
    <2>5. ASSUME NEW id \in HoldIds, WatchdogResume(id) PROVE FALSE
      BY <1>1, <2>5, ConstantFacts DEF WatchdogResume
    <2>6. task' # task
      OBVIOUS
    <2>7. QED
      BY <2>1, <2>2, <2>3, <2>4, <2>5, <2>6
        DEF Next, Decide, LosePending, Tick, WatchdogStep, WatchdogRefused, WatchdogSleep,
            vars
  <1>3. QED
    <2>1. \A t : Goto(r, c, t) => task'[r][c] = t
      BY DEF Goto, TypeOK
    <2>2. ~LookupPending(r, c)
      BY <2>1 DEF LookupPending, Task
    <2>3. ~RecoverHold(r, c)
      <3>1. \A hold : ~Goto(r, c, Task("authorize", hold, FALSE))
        BY <2>1 DEF Task
      <3>2. QED
        BY <3>1 DEF RecoverHold
    <2>4. ~AuthorizeAllow(r, c) /\ ~AuthorizeDeny(r, c) /\ ~AuthorizeReview(r, c)
      BY <2>1 DEF AuthorizeAllow, AuthorizeDeny, AuthorizeReview, Task
    <2>5. ~Suspend(r, c) /\ ~ExecuteTool(r, c)
      BY <2>1 DEF Suspend, ExecuteTool, Task
    <2>6. QED
      BY <1>2, <2>2, <2>3, <2>4, <2>5 DEF TaskStep

\* An approval that is sent alone counts only inside the window its reviewer was first shown,
\* however often the hook is executed again, and however long the run or the wait is
\* (_run_review, _recover_hold_from_state, resolve).
THEOREM ApprovalsAreInWindow ==
  ASSUME RunsDoNotOverlap, QueriesSucceed, DecisionsComeAlone, IdsDifferInTurn
  PROVE  Spec => ApprovesInWindow
  <1>1. ASSUME TypeOK, Scheduling, Holding, NoHoldIsSentBack, [Next]_vars,
               NEW r \in Runs, NEW c \in Calls,
               task[r][c].pc # "approved", task'[r][c].pc = "approved"
        PROVE  promised[c] # None /\ now <= promised[c]
    <2>1. ResolveHold(r, c)
      BY <1>1, OnlyResolveApproves
    <2>2. promised[c] # None /\ Resolve(promised[c], Response(r, c), now) = "approved"
      <3>1. Resolve(Persisted(r, c), Response(r, c), now) = "approved"
        BY <1>1, <2>1 DEF ResolveHold, Goto, Task, TypeOK
      <3>2. QED
        BY <1>1, <2>1, <3>1, ResolvesPromised
    <2>3. promised[c] \in Int /\ now \in Int
      BY <1>1, <2>2 DEF TypeOK, Deadlines
    <2>4. QED
      BY <2>2, <2>3 DEF Resolve, IsExpired
  <1>2. TypeOK /\ Scheduling /\ Holding /\ NoHoldIsSentBack /\ [Next]_vars =>
          \A r \in Runs, c \in Calls :
            task[r][c].pc # "approved" /\ task'[r][c].pc = "approved"
              => promised[c] # None /\ now <= promised[c]
    BY <1>1
  <1>3. QED
    BY <1>2, TypeCorrect, RunsAreScheduled, HoldsAreKnown, NothingIsSentBack, PTL
      DEF Spec, ApprovesInWindow

-----------------------------------------------------------------------------
(* The workflow implements the life of a hold. *)

\* The abstract state of a hold, as the refinement mapping has it.
HoldState ==
  [c \in Calls |-> IF outcome[c] # None THEN outcome[c]
                   ELSE IF Held(c) THEN "pending" ELSE "none"]

\* A step of the hook is one of the hold's life, or none of it.
LEMMA TaskStepRefines ==
  ASSUME PolicyIsSteady, IdsDifferInTurn, TypeOK, Scheduling, Holding, NoHoldIsSentBack,
         NEW r \in Runs, NEW c \in Calls, TaskStep(r, c)
  PROVE  [Lifecycle!Next]_(Lifecycle!vars)
  <1> USE DEF graph, hostVars, history
  <1>0. /\ task[r][c].pc \in Working
        /\ outcome[c] # None => task[r][c].pc = "approved"
        /\ executed[c] = 0
    BY TaskMoves, HoldsAtWork
  <1>1. KnowsHold(r, c)
    BY DEF Holding, TasksKnowHolds
  <1>2. UNCHANGED <<outcome, promised>> => HoldState' = HoldState
    BY DEF HoldState, Held
  <1>3. CASE UNCHANGED <<now, outcome, promised, executed>>
    BY <1>3 DEF Lifecycle!vars, Held
  <1>4. CASE Suspend(r, c) /\ promised[c] = None
    <2>1. /\ UNCHANGED <<now, outcome, executed>> /\ task[r][c].pc \in Reviewing
          /\ promised' = [promised EXCEPT ![c] = task[r][c].hold]
      BY <1>4 DEF Suspend, TypeOK
    <2>2. task[r][c].hold # None /\ task[r][c].hold \in Int /\ outcome[c] = None
      BY <1>0, <1>1, <2>1 DEF KnowsHold, Reviewing, TypeOK, Tasks, Deadlines
    <2>3. HoldState[c] = "none" /\ HoldState' = [HoldState EXCEPT ![c] = "pending"]
      BY <1>4, <2>1, <2>2 DEF HoldState, Held, TypeOK
    <2>4. promised'[c] \in Int /\ promised' = [promised EXCEPT ![c] = promised'[c]]
      BY <2>1, <2>2 DEF TypeOK
    <2>5. Lifecycle!Open(c)
      BY <1>0, <2>1, <2>3, <2>4 DEF Lifecycle!Open, HoldState
    <2>6. QED
      BY <2>5 DEF Lifecycle!Next
  <1>5. CASE Suspend(r, c) /\ promised[c] # None
    <2>1. UNCHANGED <<now, outcome, executed, promised>>
      BY <1>5 DEF Suspend, TypeOK
    <2>2. QED
      BY <1>3, <2>1
  <1>6. CASE ResolveHold(r, c)
    <2> DEFINE state == Resolve(promised[c], Response(r, c), now)
    <2>1. promised[c] # None /\ Persisted(r, c) = promised[c] /\ outcome[c] = None
      BY <1>6, ResolvesPromised
    <2>2. /\ UNCHANGED <<now, executed, promised>>
          /\ outcome' = [outcome EXCEPT ![c] = state]
      BY <1>6, <2>1 DEF ResolveHold
    <2>3. state \in ReviewStates
      BY ResolveType
    <2>4. state # None
      BY <2>3, ConstantsAssumption
    <2>5. now \in Int /\ promised[c] \in Int
      BY <2>1 DEF TypeOK, Deadlines
    <2>6. state = "timed_out" <=> now > promised[c]
      BY <2>5 DEF Resolve, IsExpired
    <2> HIDE DEF state
    <2>7. HoldState[c] = "pending" /\ HoldState' = [HoldState EXCEPT ![c] = state]
      BY <2>1, <2>2, <2>4 DEF HoldState, Held, TypeOK
    <2>8. CASE state = "timed_out"
      <3>1. HoldState' = [HoldState EXCEPT ![c] = "timed_out"] /\ now > promised[c]
        BY <2>6, <2>7, <2>8
      <3>2. Lifecycle!TimedOut(c)
        BY <2>2, <2>7, <3>1 DEF Lifecycle!TimedOut, Lifecycle!Settle, HoldState
      <3>3. QED
        BY <3>2 DEF Lifecycle!Next
    <2>9. ASSUME NEW o \in {"approved", "rejected"}, state = o
          PROVE  Lifecycle!Next
      <3>1. HoldState' = [HoldState EXCEPT ![c] = o] /\ now <= promised[c]
        BY <2>5, <2>6, <2>7, <2>9
      <3>2. Lifecycle!Answered(c)
        BY <2>2, <2>7, <3>1 DEF Lifecycle!Answered, Lifecycle!Settle, HoldState
      <3>3. QED
        BY <3>2 DEF Lifecycle!Next
    <2>10. QED
      BY <2>3, <2>8, <2>9 DEF ReviewStates
  <1>7. CASE ExecuteTool(r, c)
    <2>1. /\ task[r][c].pc \in {"allowed", "approved"}
          /\ UNCHANGED <<now, promised, outcome>>
          /\ executed' = [executed EXCEPT ![c] = 1]
      BY <1>0, <1>7 DEF ExecuteTool, TypeOK
    <2>2. ASSUME task[r][c].pc = "approved" PROVE HoldState[c] = "approved"
      BY <1>1, <2>2, ConstantsAssumption DEF KnowsHold, HoldState, ReviewStates
    <2>3. ASSUME task[r][c].pc = "allowed" PROVE HoldState[c] = "none"
      <3>1. promised[c] = None
        BY <1>1, <2>3 DEF KnowsHold, PolicyIsSteady, Holding, CheckpointIsPromised
      <3>2. outcome[c] = None
        BY <1>0, <2>3
      <3>3. QED
        BY <3>1, <3>2 DEF HoldState, Held
    <2>4. HoldState[c] \in {"none", "approved"}
      BY <2>1, <2>2, <2>3
    <2>5. Lifecycle!RunTool(c)
      BY <1>0, <1>2, <2>1, <2>4 DEF Lifecycle!RunTool, HoldState
    <2>6. QED
      BY <2>5 DEF Lifecycle!Next
  <1>8. QED
    BY <1>3, <1>4, <1>5, <1>6, <1>7
      DEF TaskStep, LookupPending, RecoverHold, AuthorizeAllow, AuthorizeDeny,
          AuthorizeReview

\* For every set of calls, threads and hosts, and every window: whatever runs, resumes,
\* losses and replays it takes, a hold is opened once, with a deadline that stays, and
\* settled once, in its window by the reviewer or after it by time; and a tool runs at
\* most once.
THEOREM WorkflowImplementsLifecycle ==
  ASSUME RunsDoNotOverlap, QueriesSucceed, DecisionsComeAlone, IdsDifferInTurn,
         PolicyIsSteady
  PROVE  Spec => ImplementsLifecycle
  <1>1. Init => Lifecycle!Init
    BY DEF Init, Lifecycle!Init, Held
  <1>2. TypeOK /\ Scheduling /\ Holding /\ NoHoldIsSentBack /\ [Next]_vars
          => [Lifecycle!Next]_(Lifecycle!vars)
    <2> SUFFICES ASSUME TypeOK, Scheduling, Holding, NoHoldIsSentBack, [Next]_vars
                 PROVE  [Lifecycle!Next]_(Lifecycle!vars)
      OBVIOUS
    <2> USE DEF graph, hostVars, history
    <2>1. ASSUME NEW r \in Runs, NEW c \in Calls, TaskStep(r, c)
          PROVE  [Lifecycle!Next]_(Lifecycle!vars)
      BY <2>1, TaskStepRefines
    <2>2. CASE Tick
      <3>1. now \in Int /\ now' = now + 1 /\ UNCHANGED <<outcome, promised, executed>>
        BY <2>2 DEF Tick, TypeOK
      <3>2. Lifecycle!Advance
        BY <3>1 DEF Lifecycle!Advance, Held
      <3>3. QED
        BY <3>2 DEF Lifecycle!Next
    <2>3. CASE UNCHANGED <<now, outcome, promised, executed>>
      BY <2>3 DEF Lifecycle!vars, Held
    <2>4. QED
      BY <2>1, <2>2, <2>3
        DEF Next, RunStep, CommitSuperstep, EndRun, Invoke, HostResume, Decide, LosePending,
            WatchdogStep, WatchdogResume, WatchdogRefused, WatchdogSleep, vars
  <1>3. QED
    BY <1>1, <1>2, TypeCorrect, RunsAreScheduled, HoldsAreKnown, NothingIsSentBack, PTL
      DEF Spec, ImplementsLifecycle, Lifecycle!Spec

-----------------------------------------------------------------------------
(* What waits is tracked. *)

Reviewed(c) == \E r \in Runs : task[r][c].pc \in Reviewing

\* A hold that waits is in the checkpoint and, if no table was lost, in the table, but for
\* the moment between an approval and the tool's run; one about to be suspended is known.
HoldsAreKept ==
  /\ \A c \in Calls : interrupts[c] # None <=> promised[c] # None
  /\ \A c \in Calls : promised[c] # None => Begun(c)
  /\ \A r \in Runs, c \in Calls : task[r][c].pc \in Reviewing =>
       /\ task[r][c].hold # None
       /\ losses = 0 /\ promised[c] = None => pending[HoldId(c)] # None
  /\ \A c \in Calls : Waiting(c) /\ losses = 0 =>
       pending[HoldId(c)] # None \/ \E r \in Runs : task[r][c].pc = "approved"

\* An entry of the table is that of a call which waits, or is being reviewed; the latter
\* where some run is already past the review of the call.
EntriesAreHolds ==
  /\ \A c \in Calls : pending[HoldId(c)] # None =>
       \E d \in Calls : HoldId(d) = HoldId(c) /\ (Waiting(d) \/ Reviewed(d))
  /\ \A r \in Runs, c \in Calls :
       task[r][c].pc \in {"recover", "authorize", "allowed", "approved"}
         /\ pending[HoldId(c)] # None => Reviewed(c)

Tracking == HoldsAreKept /\ EntriesAreHolds

\* What a step of a hook needs for that: calls which share the id are out of the way; and
\* no other run is at the call when its hold is shown for the first time, or again.
OwnsItsId(c) ==
  \A d \in Calls : HoldId(d) = HoldId(c) /\ d # c =>
    ~Waiting(d) /\ \A r \in Runs : task[r][d].pc \in Ended

ShowsAlone(r, c) ==
  task[r][c].pc \in Reviewing /\ (Response(r, c) = None \/ promised[c] = None) =>
    c \notin finished /\ \A q \in Runs : q # r => task[q][c].pc = "idle"

\* What a step of a hook does to its call's place in the table.
LEMMA TableMoves ==
  ASSUME TypeOK, Tracking, NEW r \in Runs, NEW c \in Calls, TaskStep(r, c)
  PROVE  \/ /\ task'[r][c].pc \in Reviewing /\ task'[r][c].hold # None
            /\ task[r][c].pc \notin Reviewing \cup {"approved"}
            /\ pending'[HoldId(c)] # None /\ UNCHANGED <<interrupts, promised, losses>>
         \/ /\ task'[r][c].pc \notin Reviewing \cup {"approved"}
            /\ task[r][c].pc \notin Reviewing
            /\ task'[r][c].pc = "recover" => pending[HoldId(c)] = None
            /\ task'[r][c].pc \in {"authorize", "allowed"} =>
                 task[r][c].pc \in {"recover", "authorize"}
            /\ task[r][c].pc = "approved" => task'[r][c].pc = "done"
            /\ task'[r][c].pc = "done" =>
                 task[r][c].pc \in {"authorize", "allowed", "approved"}
            /\ UNCHANGED <<pending, interrupts, promised, losses>>
         \/ /\ task[r][c].pc \in Reviewing /\ Response(r, c) = None
            /\ task'[r][c].pc = "interrupted" /\ task[r][c].hold # None
            /\ promised'[c] # None /\ interrupts'[c] # None
            /\ UNCHANGED <<pending, losses>>
         \/ /\ task[r][c].pc \in Reviewing /\ task'[r][c].pc \in {"approved", "done"}
            /\ pending'[HoldId(c)] = None /\ UNCHANGED <<interrupts, promised, losses>>
  <1> USE DEF graph, hostVars, history
  <1>0. \A t : Goto(r, c, t) => task'[r][c] = t
    BY DEF Goto, TypeOK
  <1>1. CASE LookupPending(r, c)
    <2>1. task[r][c].pc = "lookup" /\ UNCHANGED <<pending, interrupts, promised, losses>>
      BY <1>1 DEF LookupPending
    <2>2. CASE pending[HoldId(c)] # None
      <3>1. task'[r][c] = Task("replayed", pending[HoldId(c)], FALSE)
        BY <1>0, <1>1, <2>2 DEF LookupPending
      <3>2. QED
        BY <2>1, <2>2, <3>1 DEF Task, Reviewing
    <2>3. CASE pending[HoldId(c)] = None
      <3>1. task'[r][c] = Task("recover", None, FALSE)
        BY <1>0, <1>1, <2>3 DEF LookupPending
      <3>2. QED
        BY <2>1, <2>3, <3>1 DEF Task, Reviewing
    <2>4. QED
      BY <2>2, <2>3
  <1>2. CASE RecoverHold(r, c)
    <2>1. PICK hold : Goto(r, c, Task("authorize", hold, FALSE))
      BY <1>2 DEF RecoverHold
    <2>2. /\ task'[r][c].pc = "authorize" /\ task[r][c].pc = "recover"
          /\ UNCHANGED <<pending, interrupts, promised, losses>>
      BY <1>0, <1>2, <2>1 DEF RecoverHold, Task
    <2>3. QED
      BY <2>2 DEF Reviewing
  <1>3. CASE AuthorizeAllow(r, c) \/ AuthorizeDeny(r, c) \/ ExecuteTool(r, c)
    <2>1. /\ UNCHANGED <<pending, interrupts, promised, losses>>
          /\ \/ task'[r][c].pc = "allowed" /\ task[r][c].pc = "authorize"
             \/ /\ task'[r][c].pc = "done"
                /\ task[r][c].pc \in {"authorize", "allowed", "approved"}
      BY <1>0, <1>3 DEF AuthorizeAllow, AuthorizeDeny, ExecuteTool, Task
    <2>2. QED
      BY <2>1 DEF Reviewing
  <1>4. CASE AuthorizeReview(r, c)
    <2> DEFINE found == task[r][c].hold
               hold == IF found # None THEN found
                       ELSE BuildHold(ReviewTimeout[c], DefaultTimeout, now)
    <2>1. /\ task'[r][c] = Task(IF found # None THEN "recovered" ELSE "fresh", hold, FALSE)
          /\ task[r][c].pc = "authorize" /\ Remember(c, hold)
          /\ UNCHANGED <<interrupts, promised, losses>>
      BY <1>0, <1>4 DEF AuthorizeReview
    <2>2. BuildHold(ReviewTimeout[c], DefaultTimeout, now) \in Int
      BY ConstantsAssumption DEF TypeOK, BuildHold, Window
    <2>3. hold # None
      BY <2>2, ConstantFacts
    <2> HIDE DEF found, hold
    <2>4. task'[r][c].hold # None /\ task'[r][c].pc \in {"recovered", "fresh"}
      BY <2>1, <2>3 DEF Task
    <2>5. pending'[HoldId(c)] # None
      BY <2>1, <2>3, ConstantFacts DEF Remember, TypeOK
    <2>6. QED
      BY <2>1, <2>4, <2>5 DEF Reviewing
  <1>5. CASE Suspend(r, c)
    <2>1. task[r][c].pc \in Reviewing /\ task[r][c].hold # None
      BY <1>5 DEF Suspend, Tracking, HoldsAreKept
    <2>2. promised'[c] # None /\ interrupts'[c] # None
      BY <1>5, <2>1 DEF Suspend, TypeOK
    <2>3. QED
      BY <1>0, <1>5, <2>1, <2>2 DEF Suspend, Task
  <1>6. CASE ResolveHold(r, c)
    <2>1. task'[r][c].pc \in {"approved", "done"}
      <3>1. CASE Goto(r, c, Task("done", None, FALSE))
        BY <1>0, <3>1 DEF Task
      <3>2. CASE \E hold, replay : Goto(r, c, Task("approved", hold, replay))
        <4>1. PICK hold, replay : Goto(r, c, Task("approved", hold, replay))
          BY <3>2
        <4>2. QED
          BY <1>0, <4>1 DEF Task
      <3>3. QED
        BY <1>6, <3>1, <3>2 DEF ResolveHold
    <2>2. pending'[HoldId(c)] = None
      BY <1>6, ConstantFacts DEF ResolveHold, Forget, TypeOK
    <2>3. QED
      BY <1>6, <2>1, <2>2 DEF ResolveHold
  <1>7. QED
    BY <1>1, <1>2, <1>3, <1>4, <1>5, <1>6 DEF TaskStep

\* A step of a hook keeps what waits tracked.
LEMMA TaskTracking ==
  ASSUME TypeOK, Tracking, NEW r \in Runs, NEW c \in Calls, TaskStep(r, c),
         OwnsItsId(c), ShowsAlone(r, c), Begun(c)
  PROVE  Tracking'
  <1>1. /\ turn' = turn /\ finished \subseteq finished'
        /\ \A q \in Runs, d \in Calls : ~(q = r /\ d = c) => task'[q][d] = task[q][d]
        /\ \A d \in Calls : d # c => (d \in finished' <=> d \in finished)
        /\ task'[r][c].pc # "done" => finished' = finished
        /\ task[r][c].pc \in Working /\ task[r][c].pc \notin Ended
        /\ c \in finished \/ (c \in finished' <=> task'[r][c].pc = "done")
    BY TaskMoves DEF Working
  <1>2. /\ \A id \in HoldIds : id # HoldId(c) => pending'[id] = pending[id]
        /\ \A d \in Calls : d # c => interrupts'[d] = interrupts[d] /\ promised'[d] = promised[d]
    BY TaskFrame
  <1>3. losses' = losses /\ (promised[c] # None => promised'[c] # None)
    BY TableMoves
  <1>4. \A d \in Calls : HoldId(d) = HoldId(c) /\ d # c =>
          ~Waiting(d) /\ \A q \in Runs : task[q][d].pc \in Ended
    BY DEF OwnsItsId
  <1>5. HoldsAreKept'
    <2>1. \A d \in Calls : interrupts'[d] # None <=> promised'[d] # None
      BY <1>2, TableMoves DEF Tracking, HoldsAreKept
    <2>2. \A d \in Calls : promised'[d] # None => Begun(d)'
      BY <1>1, <1>2 DEF Tracking, HoldsAreKept, Begun
    <2>3. ASSUME NEW q \in Runs, NEW d \in Calls, task'[q][d].pc \in Reviewing
          PROVE  /\ task'[q][d].hold # None
                 /\ losses' = 0 /\ promised'[d] = None => pending'[HoldId(d)] # None
      <3>1. CASE q = r /\ d = c
        BY <2>3, <3>1, TableMoves DEF Reviewing
      <3>2. CASE d # c
        BY <1>1, <1>2, <1>3, <1>4, <2>3, <3>2, ConstantFacts
          DEF Tracking, HoldsAreKept, Reviewing, Ended
      <3>3. CASE q # r /\ d = c
        <4>1. task[q][c].pc \in Reviewing
          BY <1>1, <2>3, <3>3
        <4>2. task[r][c].pc \in Reviewing => promised[c] # None
          BY <3>3, <4>1 DEF ShowsAlone, Reviewing
        <4>3. QED
          BY <1>1, <1>3, <2>3, <3>3, <4>1, <4>2, TableMoves DEF Tracking, HoldsAreKept
      <3>4. QED
        BY <3>1, <3>2, <3>3
    <2>4. ASSUME NEW d \in Calls, promised'[d] # None, d \notin finished', losses' = 0
          PROVE  pending'[HoldId(d)] # None \/ \E q \in Runs : task'[q][d].pc = "approved"
      <3>1. CASE d # c
        <4>1. Waiting(d)
          BY <1>1, <1>2, <2>4, <3>1 DEF Waiting, Held
        <4>2. HoldId(d) # HoldId(c)
          BY <1>4, <3>1, <4>1
        <4>3. QED
          BY <1>1, <1>2, <1>3, <2>4, <3>1, <4>1, <4>2, ConstantFacts DEF Tracking, HoldsAreKept
      <3>2. CASE d = c
        <4>1. c \notin finished /\ task'[r][c].pc # "done"
          BY <1>1, <2>4, <3>2
        <4>2. CASE task'[r][c].pc \in Reviewing
          BY <3>2, <4>2, TableMoves DEF Reviewing
        <4>3. CASE task'[r][c].pc = "interrupted"
          <5>1. CASE promised[c] = None
            BY <1>3, <2>4, <3>2, <4>3, <5>1, TableMoves
              DEF Tracking, HoldsAreKept, Reviewing
          <5>2. CASE promised[c] # None
            <6>1. pending'[HoldId(c)] = pending[HoldId(c)]
              BY <4>3, TableMoves DEF Reviewing
            <6>2. task[r][c].pc # "approved"
              BY <4>3, TableMoves DEF Reviewing
            <6>3. QED
              BY <1>1, <1>3, <2>4, <3>2, <4>1, <5>2, <6>1, <6>2
                DEF Tracking, HoldsAreKept, Waiting, Held
          <5>3. QED
            BY <5>1, <5>2
        <4>4. CASE task'[r][c].pc = "approved"
          BY <3>2, <4>4
        <4>5. CASE task'[r][c].pc \notin Reviewing \cup {"interrupted", "approved"}
          <5>1. /\ UNCHANGED <<pending, promised>> /\ task[r][c].pc # "approved"
            BY <4>1, <4>5, TableMoves
          <5>2. QED
            BY <1>1, <1>3, <2>4, <3>2, <4>1, <5>1 DEF Tracking, HoldsAreKept, Waiting, Held
        <4>6. QED
          BY <4>2, <4>3, <4>4, <4>5
      <3>3. QED
        BY <3>1, <3>2
    <2>5. QED
      BY <2>1, <2>2, <2>3, <2>4 DEF HoldsAreKept, Waiting, Held
  <1>6. EntriesAreHolds'
    <2>1. ASSUME NEW q \in Runs, NEW d \in Calls,
                 task'[q][d].pc \in {"recover", "authorize", "allowed", "approved"},
                 pending'[HoldId(d)] # None
          PROVE  Reviewed(d)'
      <3>1. CASE d # c
        <4>1. HoldId(d) # HoldId(c)
          BY <1>1, <1>4, <2>1, <3>1 DEF Ended
        <4>2. Reviewed(d)
          BY <1>1, <1>2, <2>1, <3>1, <4>1, ConstantFacts DEF Tracking, EntriesAreHolds
        <4>3. QED
          BY <1>1, <3>1, <4>2 DEF Reviewed
      <3>2. CASE d = c /\ task'[r][c].pc \in Reviewing
        BY <3>2 DEF Reviewed
      <3>3. CASE d = c /\ task'[r][c].pc \notin Reviewing
        <4>1. task[r][c].pc \notin Reviewing
          <5>1. CASE task'[r][c].pc = "interrupted" /\ task[r][c].pc \in Reviewing
            <6>1. q # r /\ task[q][c].pc # "idle"
              BY <1>1, <2>1, <3>3, <5>1
            <6>2. Response(r, c) = None
              BY <5>1, TableMoves DEF Reviewing
            <6>3. QED
              BY <5>1, <6>1, <6>2 DEF ShowsAlone
          <5>2. QED
            BY <2>1, <3>3, <5>1, TableMoves
        <4>2. pending'[HoldId(c)] = pending[HoldId(c)]
          BY <3>3, <4>1, TableMoves
        <4>3. task[q][c].pc \in {"recover", "authorize", "allowed", "approved"}
          <5>1. CASE q # r
            BY <1>1, <2>1, <3>3, <5>1
          <5>2. CASE q = r
            BY <2>1, <3>3, <4>1, <4>2, <5>2, TableMoves
          <5>3. QED
            BY <5>1, <5>2
        <4>4. PICK p \in Runs : task[p][c].pc \in Reviewing
          BY <2>1, <3>3, <4>2, <4>3 DEF Tracking, EntriesAreHolds, Reviewed
        <4>5. QED
          BY <1>1, <3>3, <4>1, <4>4 DEF Reviewed
      <3>4. QED
        BY <3>1, <3>2, <3>3
    <2>2. ASSUME NEW d \in Calls, pending'[HoldId(d)] # None
          PROVE  \E e \in Calls : HoldId(e) = HoldId(d) /\ (Waiting(e)' \/ Reviewed(e)')
      <3>1. CASE task'[r][c].pc \in Reviewing /\ HoldId(d) = HoldId(c)
        BY <3>1 DEF Reviewed
      <3>2. CASE task'[r][c].pc \notin Reviewing \/ HoldId(d) # HoldId(c)
        <4>1. pending[HoldId(d)] # None
          BY <1>2, <2>2, <3>2, ConstantFacts, TableMoves
        <4>2. PICK e \in Calls : HoldId(e) = HoldId(d) /\ (Waiting(e) \/ Reviewed(e))
          BY <4>1 DEF Tracking, EntriesAreHolds
        <4>3. CASE e # c
          BY <1>1, <1>2, <4>2, <4>3 DEF Waiting, Held, Reviewed
        <4>4. CASE e = c
          <5>1. task'[r][c].pc \notin Reviewing
            BY <3>2, <4>2, <4>4
          <5>2. CASE task'[r][c].pc = "interrupted"
            BY <1>1, <4>2, <4>4, <5>1, <5>2, TableMoves DEF ShowsAlone, Waiting, Held, Reviewed
          <5>3. CASE task'[r][c].pc # "interrupted"
            <6>1. task[r][c].pc \notin Reviewing /\ UNCHANGED <<pending, promised>>
              BY <2>2, <4>2, <4>4, <5>1, <5>3, TableMoves
            <6>2. CASE Reviewed(c)
              BY <1>1, <4>2, <4>4, <6>1, <6>2 DEF Reviewed
            <6>3. CASE Waiting(c) /\ ~Reviewed(c)
              <7>1. task'[r][c].pc # "done"
                BY <2>2, <4>2, <4>4, <5>1, <6>1, <6>3, TableMoves DEF Tracking, EntriesAreHolds
              <7>2. QED
                BY <1>1, <4>2, <4>4, <6>1, <6>3, <7>1 DEF Waiting, Held
            <6>4. QED
              BY <4>2, <4>4, <6>2, <6>3
          <5>4. QED
            BY <5>2, <5>3
        <4>5. QED
          BY <4>3, <4>4
      <3>3. QED
        BY <3>1, <3>2
    <2>3. QED
      BY <2>1, <2>2 DEF EntriesAreHolds
  <1>7. QED
    BY <1>5, <1>6 DEF Tracking

\* Every step keeps it so, if the tasks of a run that starts or ends are at rest.
LEMMA TrackingStep ==
  ASSUME TypeOK, Tracking, [Next]_vars,
         \A r \in Runs, c \in Calls : task[r][c].pc # "idle" => running[r] = Thread[c],
         \A r \in Runs, c \in Calls :
           TaskStep(r, c) => OwnsItsId(c) /\ ShowsAlone(r, c) /\ Begun(c)
  PROVE  Tracking'
  <1> USE DEF graph, hostVars, history
  <1>1. ASSUME NEW r \in Runs, NEW c \in Calls, TaskStep(r, c) PROVE Tracking'
    BY <1>1, TaskTracking
  <1>2. ASSUME NEW r \in Runs, NEW t, NEW tasks, NEW value, NEW to, NEW hold,
               Start(r, t, tasks, value, to, hold), running[r] = None \/ TasksEnded(r),
               \A c \in Calls : Begun(c) => Begun(c)',
               UNCHANGED <<pending, interrupts, promised, finished, losses>>
        PROVE  Tracking'
    <2>1. /\ \A c \in Calls : task'[r][c].pc \in {"lookup", "idle"}
          /\ \A q \in Runs : q # r => task'[q] = task[q]
      BY <1>2, StartMoves
    <2>2. \A c \in Calls : task[r][c].pc \in Ended
      BY <1>2, ConstantFacts DEF TasksEnded, Ended
    <2>3. HoldsAreKept'
      BY <1>2, <2>1, <2>2 DEF Tracking, HoldsAreKept, Waiting, Held, Reviewing, Ended
    <2>4. \A c \in Calls : (Waiting(c)' <=> Waiting(c)) /\ (Reviewed(c)' <=> Reviewed(c))
      BY <1>2, <2>1, <2>2 DEF Waiting, Held, Reviewed, Reviewing, Ended
    <2>5. EntriesAreHolds'
      BY <1>2, <2>1, <2>4 DEF Tracking, EntriesAreHolds
    <2>6. QED
      BY <2>3, <2>5 DEF Tracking
  <1>3. UNCHANGED turn => \A c \in Calls : Begun(c) => Begun(c)'
    BY DEF Begun
  <1>4. ASSUME NEW t \in Threads, turn' = [turn EXCEPT ![t] = turn[t] + 1]
        PROVE  \A c \in Calls : Begun(c) => Begun(c)'
    BY <1>4, ConstantFacts DEF Begun, TypeOK
  <1>5. ASSUME NEW r \in Runs, CommitSuperstep(r) PROVE Tracking'
    <2>1. running[r] \in Threads
      BY <1>5 DEF CommitSuperstep, TypeOK
    <2>2. QED
      BY <1>2, <1>4, <1>5, <2>1 DEF CommitSuperstep
  <1>6. ASSUME NEW r \in Runs, EndRun(r) PROVE Tracking'
    BY <1>2, <1>3, <1>6 DEF EndRun
  <1>7. ASSUME NEW h \in Hosts, NEW t \in Threads, Invoke(h, t) PROVE Tracking'
    <2>1. turn' = [turn EXCEPT ![t] = turn[t] + 1]
      BY <1>7 DEF Invoke
    <2>2. QED
      BY <1>2, <1>4, <1>7, <2>1, ConstantFacts DEF Invoke
  <1>8. ASSUME NEW h \in Hosts, NEW c \in Calls, HostResume(h, c) PROVE Tracking'
    BY <1>2, <1>3, <1>8, ConstantFacts DEF HostResume
  <1>9. ASSUME NEW id \in HoldIds, WatchdogResume(id) PROVE Tracking'
    BY <1>2, <1>3, <1>9, ConstantFacts DEF WatchdogResume, ScanTo
  <1>10. CASE LosePending
    <2>1. losses' # 0 /\ \A c \in Calls : pending'[HoldId(c)] = None
      BY <1>10, ConstantFacts DEF LosePending, NoHolds, TypeOK
    <2>2. UNCHANGED <<interrupts, promised, turn, finished, task>>
      BY <1>10 DEF LosePending
    <2>3. QED
      BY <2>1, <2>2 DEF Tracking, HoldsAreKept, EntriesAreHolds, Begun
  <1>11. CASE UNCHANGED <<pending, interrupts, promised, turn, finished, task, losses>>
    BY <1>11 DEF Tracking, HoldsAreKept, EntriesAreHolds, Waiting, Held, Reviewed, Begun
  <1>12. QED
    BY <1>1, <1>5, <1>6, <1>7, <1>8, <1>9, <1>10, <1>11
      DEF Next, RunStep, Decide, Tick, WatchdogStep, WatchdogRefused, WatchdogSleep, vars

\* What is tracked so is found where no run is, if the turns before the current one are over.
LEMMA TrackedHoldsAreFound ==
  ASSUME Tracking,
         \A r \in Runs, c \in Calls : task[r][c].pc # "idle" => running[r] = Thread[c],
         \A c \in Calls : Begun(c) /\ c \notin finished => Current(c),
         \A c, d \in Calls : HoldId(c) = HoldId(d) => Thread[c] = Thread[d]
  PROVE  WaitingHoldsAreTracked
  <1> SUFFICES ASSUME NEW c \in Calls, AtRest(Thread[c])
               PROVE  /\ Waiting(c) => /\ c \in Outstanding(Thread[c])
                                       /\ losses = 0 => pending[HoldId(c)] # None
                      /\ pending[HoldId(c)] # None =>
                           \E d \in Outstanding(Thread[c]) : HoldId(d) = HoldId(c)
    BY DEF WaitingHoldsAreTracked
  <1>1. \A r \in Runs, d \in Calls : Thread[d] = Thread[c] => task[r][d].pc = "idle"
    BY DEF AtRest
  <1>2. \A d \in Calls : Waiting(d) => d \in Outstanding(Thread[d])
    BY DEF Waiting, Held, Outstanding, Unfinished, Tracking, HoldsAreKept
  <1>3. Waiting(c) /\ losses = 0 => pending[HoldId(c)] # None
    BY <1>1 DEF Tracking, HoldsAreKept
  <1>4. ASSUME pending[HoldId(c)] # None
        PROVE  \E d \in Outstanding(Thread[c]) : HoldId(d) = HoldId(c)
    <2>1. PICK d \in Calls : HoldId(d) = HoldId(c) /\ (Waiting(d) \/ Reviewed(d))
      BY <1>4 DEF Tracking, EntriesAreHolds
    <2>2. Thread[d] = Thread[c]
      BY <2>1
    <2>3. ~Reviewed(d)
      BY <1>1, <2>2 DEF Reviewed, Reviewing
    <2>4. QED
      BY <1>2, <2>1, <2>2, <2>3
  <1>5. QED
    BY <1>2, <1>3, <1>4

\* Initially nothing is held.
LEMMA TrackingInit == Init => Tracking
  BY ConstantFacts
    DEF Init, Tracking, HoldsAreKept, EntriesAreHolds, NoHolds, Idle, Task, Waiting, Held,
        Reviewing

\* Where one run at a time is on a thread: between runs every hold that waits can be answered
\* and, if no table was lost, will be scanned; and the scan finds none but those. No query
\* that fails, late answer, replay or reuse of an id in a later turn loses a hold or keeps
\* one that is settled.
THEOREM HoldsAreTracked ==
  ASSUME RunsDoNotOverlap, IdsDifferInTurn
  PROVE  Spec => []WaitingHoldsAreTracked
  <1>1. TypeOK /\ Scheduling /\ Tracking /\ [Next]_vars => Tracking'
    <2> SUFFICES ASSUME TypeOK, Scheduling, Tracking, [Next]_vars PROVE Tracking'
      OBVIOUS
    <2>1. ASSUME NEW r \in Runs, NEW c \in Calls, TaskStep(r, c)
          PROVE  OwnsItsId(c) /\ ShowsAlone(r, c) /\ Begun(c)
      <3>1. task[r][c].pc \in Working /\ task[r][c].pc # "idle"
        BY <2>1, TaskMoves DEF Working, Ended
      <3>2. Current(c) /\ c \notin finished /\ \A q \in Runs : q # r => task[q][c].pc = "idle"
        BY <3>1, TasksAreAlone DEF Scheduling, TasksAreCurrent
      <3>3. Begun(c)
        BY <3>2, ConstantFacts DEF Begun, Current
      <3>4. ASSUME NEW d \in Calls, HoldId(d) = HoldId(c), d # c
            PROVE  ~Waiting(d) /\ \A q \in Runs : task[q][d].pc \in Ended
        <4>1. Thread[d] = Thread[c] /\ Turn[d] # Turn[c]
          BY <3>4 DEF IdsDifferInTurn
        <4>2. ~Current(d)
          BY <3>2, <4>1 DEF Current
        <4>3. promised[d] # None => d \in finished
          <5>1. promised[d] # None => Turn[d] <= turn[Thread[d]]
            BY DEF Tracking, HoldsAreKept, Begun
          <5>2. turn[Thread[d]] \in Nat /\ Turn[d] \in Nat
            BY ConstantFacts DEF TypeOK
          <5>3. QED
            BY <4>2, <5>1, <5>2 DEF Current, Scheduling, TurnsComplete
        <4>4. QED
          BY <4>2, <4>3 DEF Waiting, Held, Scheduling, TasksAreCurrent, Ended
      <3>5. QED
        BY <3>2, <3>3, <3>4 DEF OwnsItsId, ShowsAlone
    <2>2. QED
      BY <2>1, TrackingStep DEF Scheduling, TasksAreCurrent
  <1>2. TypeOK /\ Scheduling /\ Tracking => WaitingHoldsAreTracked
    <2> SUFFICES ASSUME TypeOK, Scheduling, Tracking PROVE WaitingHoldsAreTracked
      OBVIOUS
    <2>1. \A c \in Calls : Begun(c) /\ c \notin finished => Current(c)
      BY ConstantFacts DEF Begun, Current, TypeOK, Scheduling, TurnsComplete
    <2>2. \A c, d \in Calls : HoldId(c) = HoldId(d) => Thread[c] = Thread[d]
      BY DEF IdsDifferInTurn
    <2>3. QED
      BY <2>1, <2>2, TrackedHoldsAreFound DEF Scheduling, TasksAreCurrent
  <1>3. QED
    BY <1>1, <1>2, TrackingInit, TypeCorrect, RunsAreScheduled, PTL DEF Spec
=============================================================================
