------------------------- MODULE ControlPlane_proofs ------------------------
(* Theorems about ControlPlane, for any agents, deployment and host. *)
EXTENDS ControlPlane, TLAPS

(***************************************************************************)
(* Types.                                                                  *)
(***************************************************************************)

\* A record that is emitted goes somewhere, and an export moves records on.
LEMMA TrailTypes ==
  ASSUME trail \in [Agents -> [RecordKinds -> RecordStates]],
         NEW a \in Agents, NEW kind \in RecordKinds
  PROVE  /\ Emit(a, kind) => trail' \in [Agents -> [RecordKinds -> RecordStates]]
         /\ Exported \in [Agents -> [RecordKinds -> RecordStates]]
<1>1. Emit(a, kind) => trail' \in [Agents -> [RecordKinds -> RecordStates]]
  <2> SUFFICES ASSUME Emit(a, kind)
               PROVE  trail' \in [Agents -> [RecordKinds -> RecordStates]]
    OBVIOUS
  <2>1. PICK s \in RecordStates : trail' = [trail EXCEPT ![a][kind] = s]
    BY DEF Emit, RecordStates
  <2> QED
    BY <2>1
<1>2. Exported \in [Agents -> [RecordKinds -> RecordStates]]
  <2>1. \A b \in Agents, k \in RecordKinds :
          (IF trail[b][k] = "batched" THEN "exported" ELSE trail[b][k]) \in RecordStates
    BY DEF RecordStates
  <2> QED
    BY <2>1 DEF Exported
<1> QED
  BY <1>1, <1>2

\* Every variable keeps its type (attach, aclose, _watchdog_loop).
THEOREM TypeCorrect == Spec => []TypeOK
<1>1. Init => TypeOK
  <2> SUFFICES ASSUME Init
               PROVE  TypeOK
    OBVIOUS
  <2>1. trail \in [Agents -> [RecordKinds -> RecordStates]]
    BY DEF Init, RecordStates
  <2>2. hold \in [Agents -> HoldStates]
    BY DEF Init, HoldStates
  <2>3. attaches \in 0..MaxAttaches /\ loops \in 0..MaxLoops
    BY ConstantsAssumption DEF Init
  <2> QED
    BY <2>1, <2>2, <2>3 DEF Init, TypeOK, Closings
<1>2. TypeOK /\ [Next]_vars => TypeOK'
  <2> SUFFICES ASSUME TypeOK, [Next]_vars
               PROVE  TypeOK'
    OBVIOUS
  <2> USE DEF TypeOK, shut, counters
  <2>1. ASSUME NEW a \in Agents, Attach(a)
        PROVE  TypeOK'
    <3>1. attaches' \in 0..MaxAttaches
      BY <2>1, ConstantsAssumption DEF Attach
    <3> QED
      BY <2>1, <3>1 DEF Attach, StartWatchdog, Closings
  <2>2. ASSUME NEW a \in Agents, Review(a)
        PROVE  TypeOK'
    <3>1. HoldAfterReview(a) \in HoldStates
      BY DEF HoldAfterReview, HoldStates
    <3>2. trail' \in [Agents -> [RecordKinds -> RecordStates]]
      BY <2>2, TrailTypes DEF Review, RecordKinds
    <3> QED
      BY <2>2, <3>1, <3>2 DEF Review
  <2>3. ASSUME NEW a \in Agents, Poll(a)
        PROVE  TypeOK'
    BY <2>3 DEF Poll
  <2>4. CASE ResumeEnds
    <3>1. trail' \in [Agents -> [RecordKinds -> RecordStates]]
      BY <2>4, TrailTypes DEF ResumeEnds, RecordKinds
    <3> QED
      BY <2>4, <3>1 DEF ResumeEnds, HoldStates
  <2>5. CASE WatchdogCancelled
    BY <2>5 DEF WatchdogCancelled
  <2>6. CASE ExportBatch \/ ShutTracer
    <3>1. trail' \in [Agents -> [RecordKinds -> RecordStates]]
      <4>1. CASE Agents = {}
        BY <2>6, <4>1 DEF ExportBatch, ShutTracer, Exported
      <4>2. CASE Agents # {}
        BY <2>6, <4>2, TrailTypes DEF ExportBatch, ShutTracer, RecordKinds
      <4> QED
        BY <4>1, <4>2
    <3> QED
      BY <2>6, <3>1, ConstantsAssumption DEF ExportBatch, ShutTracer, Closings
  <2>7. CASE AcloseBegin \/ WatchdogAwaited \/ ClosePolicy
    BY <2>7 DEF AcloseBegin, WatchdogAwaited, ClosePolicy, Closings
  <2>8. CASE BeginLoop
    BY <2>8, ConstantsAssumption DEF BeginLoop
  <2>9. CASE EndLoop
    BY <2>9 DEF EndLoop
  <2>10. CASE UNCHANGED vars
    BY <2>10 DEF vars
  <2> QED
    BY <2>1, <2>2, <2>3, <2>4, <2>5, <2>6, <2>7, <2>8, <2>9, <2>10 DEF Next, AcloseStep
<1> QED
  BY <1>1, <1>2, PTL DEF Spec

(***************************************************************************)
(* The properties.                                                         *)
(***************************************************************************)

\* A closing control plane resumes nothing (aclose awaits what it cancels).  The invariant
\* adds that a watchdog that lives has its handle set: aclose() finds it.
THEOREM ClosingIsQuiet == Spec => []ClosedMeansQuiet
<1> DEFINE Handled == watchdog \in {"sleeping", "resuming"} => handle
           J == Handled /\ ClosedMeansQuiet
<1>1. Init => J
  BY DEF Init, ClosedMeansQuiet
<1>2. TypeOK /\ J /\ [Next]_vars => J'
  <2> SUFFICES ASSUME TypeOK, J, [Next]_vars
               PROVE  J'
    OBVIOUS
  <2> USE DEF ClosedMeansQuiet
  <2>1. ASSUME NEW a \in Agents, Attach(a)
        PROVE  J'
    BY <2>1 DEF Attach, StartWatchdog
  <2>2. ASSUME NEW a \in Agents, Review(a) \/ Poll(a)
        PROVE  J'
    BY <2>2 DEF Review, Poll
  <2>3. CASE ResumeEnds \/ WatchdogCancelled \/ ExportBatch
    BY <2>3 DEF ResumeEnds, WatchdogCancelled, ExportBatch
  <2>4. CASE AcloseBegin
    BY <2>4 DEF AcloseBegin, TypeOK, Returned
  <2>5. CASE AcloseStep
    BY <2>5 DEF AcloseStep, WatchdogAwaited, ClosePolicy, ShutTracer
  <2>6. CASE BeginLoop \/ EndLoop
    BY <2>6 DEF BeginLoop, EndLoop
  <2>7. CASE UNCHANGED vars
    BY <2>7 DEF vars
  <2> QED
    BY <2>1, <2>2, <2>3, <2>4, <2>5, <2>6, <2>7 DEF Next
<1>3. J => ClosedMeansQuiet
  OBVIOUS
<1> QED
  BY <1>1, <1>2, <1>3, TypeCorrect, PTL DEF Spec

\* A hold is never swallowed, when human_approval is declared, the adapter has a manifest,
\* and validation sees the ToolNode of every agent that would swallow one (validate).
THEOREM HoldsAreKept ==
  ASSUME "human_approval" \in Required, Manifest # None, Swallowing \cap Opaque = {}
  PROVE  Spec => []HoldsAreNeverLost
<1> DEFINE Sound == attached \subseteq Checkpointed \ Swallowing
           J == Sound /\ HoldsAreNeverLost
<1>1. Init => J
  BY DEF Init, HoldsAreNeverLost
<1>2. TypeOK /\ J /\ [Next]_vars => J'
  <2> SUFFICES ASSUME TypeOK, J, [Next]_vars
               PROVE  J'
    OBVIOUS
  <2> USE DEF HoldsAreNeverLost
  <2>1. ASSUME NEW a \in Agents, Attach(a)
        PROVE  J'
    BY <2>1 DEF Attach, Valid
  <2>2. ASSUME NEW a \in Agents, Review(a)
        PROVE  J'
    <3>1. HoldAfterReview(a) # "lost"
      BY <2>2 DEF Review, HoldAfterReview
    <3> QED
      BY <2>2, <3>1 DEF Review, TypeOK
  <2>3. CASE ResumeEnds
    BY <2>3 DEF ResumeEnds, TypeOK
  <2>4. CASE UNCHANGED <<attached, hold>>
    BY <2>4
  <2> QED
    BY <2>1, <2>2, <2>3, <2>4
    DEF Next, Poll, WatchdogCancelled, ExportBatch, AcloseBegin, AcloseStep,
        WatchdogAwaited, ClosePolicy, ShutTracer, BeginLoop, EndLoop, vars
<1>3. J => HoldsAreNeverLost
  OBVIOUS
<1> QED
  BY <1>1, <1>2, <1>3, TypeCorrect, PTL DEF Spec

\* No record is lost before an aclose() has returned (build_tracer, aclose): until then
\* the tracer provider is not shut down.
THEOREM RecordsOutlive == Spec => []RecordsOutliveClosing
<1> DEFINE J == (tracerShut => completed) /\ RecordsOutliveClosing
<1>1. Init => J
  BY DEF Init, RecordsOutliveClosing
<1>2. TypeOK /\ J /\ [Next]_vars => J'
  <2> SUFFICES ASSUME TypeOK, J, [Next]_vars
               PROVE  J'
    OBVIOUS
  <2> USE DEF RecordsOutliveClosing, shut
  <2>1. ASSUME NEW a \in Agents, NEW kind \in RecordKinds, Emit(a, kind), UNCHANGED shut
        PROVE  J'
    <3> SUFFICES ASSUME Exports, NEW b \in Agents, NEW k \in RecordKinds,
                        trail'[b][k] = "lost"
                 PROVE  completed
      BY <2>1
    <3>1. trail[b][k] = "lost" \/ tracerShut
      BY <2>1 DEF Emit, TypeOK
    <3> QED
      BY <3>1
  <2>2. ASSUME trail' = Exported, UNCHANGED shut \/ completed'
        PROVE  J'
    BY <2>2 DEF Exported
  <2>3. ASSUME NEW a \in Agents, Review(a)
        PROVE  J'
    BY <2>1, <2>3 DEF Review, RecordKinds
  <2>4. CASE ResumeEnds
    BY <2>1, <2>4 DEF ResumeEnds, RecordKinds, TypeOK
  <2>5. CASE ExportBatch \/ ShutTracer
    BY <2>2, <2>5 DEF ExportBatch, ShutTracer
  <2>6. CASE UNCHANGED <<tracerShut, completed, trail>>
    BY <2>6
  <2> QED
    BY <2>3, <2>4, <2>5, <2>6
    DEF Next, Attach, Poll, WatchdogCancelled, AcloseBegin, AcloseStep, WatchdogAwaited,
        ClosePolicy, BeginLoop, EndLoop, vars
<1>3. J => RecordsOutliveClosing
  OBVIOUS
<1> QED
  BY <1>1, <1>2, <1>3, TypeCorrect, PTL DEF Spec
=============================================================================
