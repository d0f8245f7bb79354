----------------------- MODULE BackgroundLoop_proofs ------------------------
(***************************************************************************)
(* Theorems about BackgroundLoop, for any number of callers and closers,   *)
(* who may close while calls are in flight.                                *)
(***************************************************************************)
EXTENDS BackgroundLoop, TLAPS

\* Every variable keeps its type.
THEOREM TypeCorrect == Spec => []TypeOK
  <1>1. Init => TypeOK
    BY ConstantsAssumption
      DEF Init, TypeOK, LoopStates, CallerStates, CoroutineStates, CloserStates
  <1>2. TypeOK /\ [Next]_vars => TypeOK'
    <2> SUFFICES ASSUME TypeOK, [Next]_vars PROVE TypeOK'
      OBVIOUS
    <2> USE DEF TypeOK, LoopStates, CallerStates, CoroutineStates, CloserStates
    <2>1. ASSUME NEW c \in Callers, EnsureLoop(c) PROVE TypeOK'
      <3>1. calls' \in 0..MaxCalls
        BY <2>1, ConstantsAssumption DEF EnsureLoop
      <3>2. CASE current # None
        BY <2>1, <3>1, <3>2 DEF EnsureLoop
      <3>3. CASE current = None
        <4>1. PICK n \in Loops : /\ loop' = [loop EXCEPT ![n] = "running"]
                                 /\ current' = n
                                 /\ on' = [on EXCEPT ![c] = n]
          BY <2>1, <3>3 DEF EnsureLoop, Fresh
        <4>2. QED
          BY <2>1, <3>1, <4>1 DEF EnsureLoop
      <3>4. QED
        BY <3>2, <3>3
    <2>2. ASSUME NEW c \in Callers, CallStep(c) \/ CoroutineStep(c) PROVE TypeOK'
      BY <2>2 DEF CallStep, Submit, Return, CoroutineStep, StartCoroutine, FinishCoroutine
    <2>3. ASSUME NEW n \in Loops, LoopStops(n) PROVE TypeOK'
      BY <2>3 DEF LoopStops
    <2>4. ASSUME NEW k \in Closers, TakeLoop(k) PROVE TypeOK'
      <3>1. closes' \in 0..MaxCloses
        BY <2>4, ConstantsAssumption DEF TakeLoop
      <3>2. QED
        BY <2>4, <3>1 DEF TakeLoop
    <2>5. ASSUME NEW k \in Closers, StopLoop(k) PROVE TypeOK'
      BY <2>5 DEF StopLoop
    <2>6. ASSUME NEW k \in Closers, Join(k) PROVE TypeOK'
      BY <2>6 DEF Join
    <2>7. CASE UNCHANGED vars
      BY <2>7 DEF vars
    <2>8. QED
      BY <2>1, <2>2, <2>3, <2>4, <2>5, <2>6, <2>7 DEF Next, CloseStep
  <1>3. QED
    BY <1>1, <1>2, PTL DEF Spec

\* A close() holds a loop that was made: it is not the number of one to come.
TakenLoopsExist ==
  \A k \in Closers : closer[k] = "took" /\ taken[k] # None => loop[taken[k]] # "none"

LoopInv == RunningLoopIsOwned /\ CurrentLoopRuns /\ TakenLoopsExist

\* The three parts of LoopInv keep each other: what is current runs because only a loop
\* taken from there is stopped, and what runs is owned because only close() takes it.
LEMMA LoopInvStep ==
  ASSUME TypeOK, LoopInv, [Next]_vars
  PROVE  LoopInv'
  <1> USE ConstantsAssumption
          DEF TypeOK, LoopInv, RunningLoopIsOwned, CurrentLoopRuns, TakenLoopsExist
  <1>1. ASSUME NEW c \in Callers, EnsureLoop(c) PROVE LoopInv'
    <2>1. CASE current # None
      BY <1>1, <2>1 DEF EnsureLoop
    <2>2. CASE current = None
      <3>1. PICK n \in Loops : /\ loop[n] = "none"
                               /\ loop' = [loop EXCEPT ![n] = "running"]
                               /\ current' = n
        BY <1>1, <2>2 DEF EnsureLoop, Fresh
      <3>2. closer' = closer /\ taken' = taken
        BY <1>1 DEF EnsureLoop
      <3>3. n # None /\ loop' \in [Loops -> LoopStates] /\ loop'[n] = "running"
        BY <3>1 DEF LoopStates
      <3>4. \A m \in Loops : m # n => loop'[m] = loop[m]
        BY <3>1
      <3>5. RunningLoopIsOwned'
        <4> SUFFICES ASSUME NEW m \in Loops, loop'[m] = "running", m # n
                     PROVE  \E k \in Closers : closer'[k] = "took" /\ taken'[k] = m
          BY <3>1
        <4>1. loop[m] = "running" /\ m # current
          BY <3>4, <2>2
        <4>2. QED
          BY <4>1, <3>2
      <3>6. CurrentLoopRuns'
        <4> SUFFICES ASSUME NEW k \in Closers, closer'[k] = "took", taken'[k] = n
                     PROVE  FALSE
          BY <3>1, <3>3
        <4>1. QED
          BY <3>1, <3>2, <3>3
      <3>7. TakenLoopsExist'
        <4> SUFFICES ASSUME NEW k \in Closers, closer[k] = "took", taken[k] # None
                     PROVE  loop'[taken[k]] # "none"
          BY <3>2
        <4>1. taken[k] \in Loops /\ loop[taken[k]] # "none"
          OBVIOUS
        <4>2. QED
          BY <4>1, <3>1, <3>4
      <3>8. QED
        BY <3>5, <3>6, <3>7
    <2>3. QED
      BY <2>1, <2>2
  <1>2. ASSUME NEW c \in Callers, CallStep(c) \/ CoroutineStep(c) PROVE LoopInv'
    BY <1>2 DEF CallStep, Submit, Return, CoroutineStep, StartCoroutine, FinishCoroutine
  <1>3. ASSUME NEW n \in Loops, LoopStops(n) PROVE LoopInv'
    BY <1>3 DEF LoopStops
  <1>4. ASSUME NEW k \in Closers, TakeLoop(k) PROVE LoopInv'
    BY <1>4 DEF TakeLoop
  <1>5. ASSUME NEW k \in Closers, StopLoop(k) PROVE LoopInv'
    <2>1. CASE taken[k] = None
      BY <1>5, <2>1 DEF StopLoop
    <2>2. CASE taken[k] # None
      BY <1>5, <2>2 DEF StopLoop
    <2>3. QED
      BY <2>1, <2>2
  <1>6. ASSUME NEW k \in Closers, Join(k) PROVE LoopInv'
    BY <1>6 DEF Join
  <1>7. CASE UNCHANGED vars
    BY <1>7 DEF vars
  <1>8. QED
    BY <1>1, <1>2, <1>3, <1>4, <1>5, <1>6, <1>7 DEF Next, CloseStep

\* LoopInv holds in every reachable state.
THEOREM LoopInvHolds == Spec => []LoopInv
  <1>1. Init => LoopInv
    BY ConstantsAssumption
      DEF Init, LoopInv, RunningLoopIsOwned, CurrentLoopRuns, TakenLoopsExist
  <1>2. TypeOK /\ LoopInv /\ [Next]_vars => LoopInv'
    BY LoopInvStep
  <1>3. QED
    BY <1>1, <1>2, TypeCorrect, PTL DEF Spec

\* However calls and closes interleave, no event loop and no thread is leaked.
THEOREM NoLoopIsLeaked == Spec => []RunningLoopIsOwned
  <1>1. LoopInv => RunningLoopIsOwned
    BY DEF LoopInv
  <1>2. QED
    BY <1>1, LoopInvHolds, PTL

\* And a call is never handed to a loop that was stopped before it asked for one.
THEOREM CallsGetARunningLoop == Spec => []CurrentLoopRuns
  <1>1. LoopInv => CurrentLoopRuns
    BY DEF LoopInv
  <1>2. QED
    BY <1>1, LoopInvHolds, PTL
=============================================================================
