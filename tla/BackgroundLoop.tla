--------------------------- MODULE BackgroundLoop ---------------------------
(***************************************************************************)
(* The event loop that drives the async providers for sync tool calls:     *)
(* _BackgroundLoop of middleware.py, the threads that call run(), and      *)
(* aclose(), which closes it.                                              *)
(*                                                                         *)
(* A loop is a thread running an asyncio loop.  A coroutine handed to it   *)
(* is started by it, may wait for I/O, and is finished by it,              *)
(* so a loop that has stopped neither starts nor finishes it: loop.stop()  *)
(* ends run_forever() after the callbacks that are ready.                  *)
(***************************************************************************)
EXTENDS Integers, FiniteSets

CONSTANTS
  None,
  Callers,     \* threads on which the graph runs sync tool calls
  Closers,     \* tasks of the host that close the control plane
  MaxCalls,    \* bound: calls of run() in all
  MaxCloses    \* bound: calls of close() in all

Loops == 1..(MaxCloses + 1)   \* a new loop is made at first, and after a close

ASSUME ConstantsAssumption ==
  /\ MaxCalls \in Nat /\ MaxCloses \in Nat
  /\ None \notin Loops

VARIABLES
  current,   \* _loop, with _thread
  loop,      \* [Loops -> the life of the loop and its thread]
  caller,    \* [Callers -> where run() is]
  on,        \* [Callers -> the loop run() got]
  coroutine, \* [Callers -> the life of the coroutine it handed over]
  closer,    \* [Closers -> where close() is]
  taken,     \* [Closers -> the loop close() took]
  calls, closes

vars == <<current, loop, caller, on, coroutine, closer, taken, calls, closes>>

LoopStates == {"none", "running", "stopping", "stopped"}
CallerStates == {"away", "ensured", "waiting"}
CoroutineStates == {"none", "queued", "started", "done"}
CloserStates == {"away", "took", "joining"}

Init ==
  /\ current = None
  /\ loop = [n \in Loops |-> "none"]
  /\ caller = [c \in Callers |-> "away"]
  /\ on = [c \in Callers |-> None]
  /\ coroutine = [c \in Callers |-> "none"]
  /\ closer = [k \in Closers |-> "away"]
  /\ taken = [k \in Closers |-> None]
  /\ calls = 0 /\ closes = 0

-----------------------------------------------------------------------------
(* run(): one caller. *)

Fresh == {n \in Loops : loop[n] = "none"}

\* Mutants: the loop there is, is not looked for; the new thread is not started.
EnsureLoop_Always(c) ==
  LET n == Cardinality(Loops \ Fresh) + 1
  IN /\ caller[c] = "away" /\ calls < MaxCalls
     /\ calls' = calls + 1
     /\ loop' = [loop EXCEPT ![n] = "running"]
     /\ current' = n
     /\ on' = [on EXCEPT ![c] = n]
     /\ caller' = [caller EXCEPT ![c] = "ensured"]
     /\ UNCHANGED <<coroutine, closer, taken, closes>>

EnsureLoop_NotStarted(c) ==
  /\ caller[c] = "away" /\ calls < MaxCalls
  /\ calls' = calls + 1
  /\ current' = IF current = None THEN Cardinality(Loops \ Fresh) + 1 ELSE current
  /\ on' = [on EXCEPT ![c] = current']
  /\ caller' = [caller EXCEPT ![c] = "ensured"]
  /\ UNCHANGED <<loop, coroutine, closer, taken, closes>>

\* _ensure_loop, under the lock: the current loop, or a new one on a new thread.
EnsureLoop(c) ==
  /\ caller[c] = "away" /\ calls < MaxCalls
  /\ calls' = calls + 1
  /\ \/ /\ current # None
        /\ on' = [on EXCEPT ![c] = current]
        /\ UNCHANGED <<current, loop>>
     \/ /\ current = None
        /\ \E n \in Fresh :
             /\ \A m \in Fresh : n <= m
             /\ loop' = [loop EXCEPT ![n] = "running"]
             /\ current' = n
             /\ on' = [on EXCEPT ![c] = n]
  /\ caller' = [caller EXCEPT ![c] = "ensured"]
  /\ UNCHANGED <<coroutine, closer, taken, closes>>

\* run_coroutine_threadsafe: a loop that has stopped takes the coroutine all the same.
Submit(c) ==
  /\ caller[c] = "ensured"
  /\ coroutine' = [coroutine EXCEPT ![c] = "queued"]
  /\ caller' = [caller EXCEPT ![c] = "waiting"]
  /\ UNCHANGED <<current, loop, on, closer, taken, calls, closes>>

\* future.result(), which waits without a timeout.
Return(c) ==
  /\ caller[c] = "waiting" /\ coroutine[c] = "done"
  /\ coroutine' = [coroutine EXCEPT ![c] = "none"]
  /\ on' = [on EXCEPT ![c] = None]
  /\ caller' = [caller EXCEPT ![c] = "away"]
  /\ UNCHANGED <<current, loop, closer, taken, calls, closes>>

CallStep(c) == Submit(c) \/ Return(c)

-----------------------------------------------------------------------------
(* The loop's thread (asyncio). *)

Turns(n) == loop[n] \in {"running", "stopping"}

StartCoroutine(c) ==
  /\ coroutine[c] = "queued" /\ Turns(on[c])
  /\ coroutine' = [coroutine EXCEPT ![c] = "started"]
  /\ UNCHANGED <<current, loop, caller, on, closer, taken, calls, closes>>

FinishCoroutine(c) ==
  /\ coroutine[c] = "started" /\ Turns(on[c])
  /\ coroutine' = [coroutine EXCEPT ![c] = "done"]
  /\ UNCHANGED <<current, loop, caller, on, closer, taken, calls, closes>>

CoroutineStep(c) == StartCoroutine(c) \/ FinishCoroutine(c)

LoopStops(n) ==
  /\ loop[n] = "stopping"
  /\ loop' = [loop EXCEPT ![n] = "stopped"]
  /\ UNCHANGED <<current, caller, on, coroutine, closer, taken, calls, closes>>

-----------------------------------------------------------------------------
(* close(). *)

\* Mutant: the loop stays the current one.
TakeLoop_Keeps(k) ==
  /\ closer[k] = "away" /\ closes < MaxCloses
  /\ closes' = closes + 1
  /\ taken' = [taken EXCEPT ![k] = current]
  /\ closer' = [closer EXCEPT ![k] = "took"]
  /\ UNCHANGED <<current, loop, caller, on, coroutine, calls>>

\* Under the lock: the loop, if there is one, is no longer the current one.
TakeLoop(k) ==
  /\ closer[k] = "away" /\ closes < MaxCloses
  /\ closes' = closes + 1
  /\ taken' = [taken EXCEPT ![k] = current]
  /\ current' = None
  /\ closer' = [closer EXCEPT ![k] = "took"]
  /\ UNCHANGED <<loop, caller, on, coroutine, calls>>

\* Mutant: the loop is abandoned, not stopped.
StopLoop_Never(k) ==
  /\ closer[k] = "took"
  /\ closer' = [closer EXCEPT ![k] = "joining"]
  /\ UNCHANGED <<current, loop, caller, on, coroutine, taken, calls, closes>>

\* loop.call_soon_threadsafe(loop.stop)
StopLoop(k) ==
  /\ closer[k] = "took"
  /\ loop' = IF taken[k] = None THEN loop
             ELSE [loop EXCEPT ![taken[k]] = IF @ = "running" THEN "stopping" ELSE @]
  /\ closer' = [closer EXCEPT ![k] = "joining"]
  /\ UNCHANGED <<current, caller, on, coroutine, taken, calls, closes>>

\* thread.join(timeout=2.0): comes back whether the thread has ended or not.
Join(k) ==
  /\ closer[k] = "joining"
  /\ taken' = [taken EXCEPT ![k] = None]
  /\ closer' = [closer EXCEPT ![k] = "away"]
  /\ UNCHANGED <<current, loop, caller, on, coroutine, calls, closes>>

CloseStep(k) == StopLoop(k) \/ Join(k)

-----------------------------------------------------------------------------
Next ==
  \/ \E c \in Callers : EnsureLoop(c) \/ CallStep(c) \/ CoroutineStep(c)
  \/ \E n \in Loops : LoopStops(n)
  \/ \E k \in Closers : TakeLoop(k) \/ CloseStep(k)

Spec == Init /\ [][Next]_vars

\* Threads and loops go on with what they have begun; no call and no close has to come.
Fairness ==
  /\ \A c \in Callers : WF_vars(CallStep(c)) /\ WF_vars(CoroutineStep(c))
  /\ \A n \in Loops : WF_vars(LoopStops(n))
  /\ \A k \in Closers : WF_vars(CloseStep(k))

FairSpec == Spec /\ Fairness
-----------------------------------------------------------------------------
(* Properties. *)

TypeOK ==
  /\ current \in Loops \cup {None}
  /\ loop \in [Loops -> LoopStates]
  /\ caller \in [Callers -> CallerStates]
  /\ on \in [Callers -> Loops \cup {None}]
  /\ coroutine \in [Callers -> CoroutineStates]
  /\ closer \in [Closers -> CloserStates]
  /\ taken \in [Closers -> Loops \cup {None}]
  /\ calls \in 0..MaxCalls /\ closes \in 0..MaxCloses

\* No thread is leaked: a loop that runs and that nobody has asked to stop is the
\* current one, or has just been taken by a close() that will ask it.
RunningLoopIsOwned ==
  \A n \in Loops : loop[n] = "running" =>
    n = current \/ \E k \in Closers : closer[k] = "took" /\ taken[k] = n

\* The loop a new call would be handed to runs, and nobody is about to stop it.
CurrentLoopRuns ==
  current # None =>
    /\ loop[current] = "running"
    /\ \A k \in Closers : closer[k] = "took" => taken[k] # current

\* A sync tool call gets its decision back if nobody stops the loop it was handed to.
UnstoppedCallsReturn ==
  \A c \in Callers : caller[c] # "away" ~>
    caller[c] = "away" \/ (on[c] # None /\ loop[on[c]] \in {"stopping", "stopped"})

\* Every sync tool call that is handed to the loop gets its decision back.
EveryCallReturns ==
  \A c \in Callers : caller[c] # "away" ~> caller[c] = "away"
=============================================================================
