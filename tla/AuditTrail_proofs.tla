------------------------- MODULE AuditTrail_proofs --------------------------
(***************************************************************************)
(* GovernedCalls where one run at a time is on a thread: what the trail of *)
(* governance records says of a call.  It ends with one verdict, it opens  *)
(* a hold once and before anything else is said of it, and it is true to   *)
(* what has run.                                                           *)
(***************************************************************************)
EXTENDS Deadlines_proofs, FiniteSetTheorems, SequenceTheorems

\* The records of a sequence that are of some kinds and marked in some ways.
Matching(recs, kinds, replays) ==
  {i \in DOMAIN recs : recs[i].kind \in kinds /\ recs[i].replay \in replays}

\* What is emitted comes behind what has been.
LEMMA EmitAppends ==
  ASSUME TypeOK, NEW c \in Calls, NEW recs \in Seq(Records), Emit(c, recs),
         NEW kinds, NEW replays
  PROVE  /\ records[c] \in Seq(Records)
         /\ Len(records[c]) \in Nat
         /\ Emitted(c, kinds, replays) \subseteq 1..Len(records[c])
         /\ Emitted(c, kinds, replays)' =
              Emitted(c, kinds, replays)
                \cup {Len(records[c]) + i : i \in Matching(recs, kinds, replays)}
         /\ \A i \in 1..Len(records[c]) : records'[c][i] = records[c][i]
         /\ \A i \in DOMAIN recs : records'[c][Len(records[c]) + i] = recs[i]
  <1> DEFINE old == records[c]
             n == Len(old)
  <1>1. old \in Seq(Records) /\ n \in Nat /\ DOMAIN old = 1..n /\ DOMAIN recs = 1..Len(recs)
    BY DEF TypeOK
  <1>2. records'[c] = old \o recs
    BY DEF Emit, TypeOK
  <1>3. /\ DOMAIN records'[c] = 1..(n + Len(recs))
        /\ \A i \in 1..n : records'[c][i] = old[i]
        /\ \A i \in 1..Len(recs) : records'[c][n + i] = recs[i]
    BY <1>1, <1>2
  <1>4. Emitted(c, kinds, replays) \subseteq 1..n
    BY <1>1 DEF Emitted
  <1>5. Emitted(c, kinds, replays)' =
          Emitted(c, kinds, replays) \cup {n + i : i \in Matching(recs, kinds, replays)}
    <2>1. Len(recs) \in Nat
      OBVIOUS
    <2> HIDE DEF n, old
    <2>2. ASSUME NEW k \in Emitted(c, kinds, replays)'
          PROVE  k \in Emitted(c, kinds, replays)
                         \cup {n + i : i \in Matching(recs, kinds, replays)}
      <3>1. k \in 1..(n + Len(recs))
        BY <1>3, <2>2 DEF Emitted
      <3>2. CASE k <= n
        <4>1. k \in 1..n
          BY <1>1, <3>1, <3>2
        <4>2. QED
          BY <1>1, <1>3, <2>2, <4>1 DEF Emitted, old
      <3>3. CASE k > n
        <4>1. k - n \in 1..Len(recs) /\ k = n + (k - n)
          BY <1>1, <2>1, <3>1, <3>3
        <4>2. records'[c][k] = recs[k - n]
          BY <1>3, <4>1
        <4>3. k - n \in Matching(recs, kinds, replays)
          BY <1>1, <2>2, <4>1, <4>2 DEF Emitted, Matching
        <4>4. QED
          BY <4>1, <4>3
      <3>4. QED
        BY <1>1, <3>1, <3>2, <3>3
    <2>3. ASSUME NEW k \in Emitted(c, kinds, replays)
          PROVE  k \in Emitted(c, kinds, replays)'
      <3>1. k \in 1..n /\ k \in 1..(n + Len(recs))
        BY <1>1, <1>4, <2>1, <2>3
      <3>2. QED
        BY <1>1, <1>3, <2>3, <3>1 DEF Emitted, old
    <2>4. ASSUME NEW i \in Matching(recs, kinds, replays)
          PROVE  n + i \in Emitted(c, kinds, replays)'
      <3>1. i \in 1..Len(recs) /\ n + i \in 1..(n + Len(recs))
        BY <1>1, <2>1, <2>4 DEF Matching
      <3>2. QED
        BY <1>3, <2>4, <3>1 DEF Emitted, Matching
    <2>5. QED
      BY <2>2, <2>3, <2>4
  <1>6. QED
    BY <1>1, <1>3, <1>4, <1>5

\* Of one record.
LEMMA MatchingOne ==
  ASSUME NEW kind, NEW replay, NEW kinds, NEW replays
  PROVE  Matching(<<Record(kind, replay)>>, kinds, replays)
           = IF kind \in kinds /\ replay \in replays THEN {1} ELSE {}
  <1> DEFINE recs == <<Record(kind, replay)>>
  <1>1. DOMAIN recs = {1} /\ recs[1].kind = kind /\ recs[1].replay = replay
    BY DEF Record
  <1> HIDE DEF recs
  <1>2. QED
    BY <1>1 DEF Matching, recs

\* Of one that is not a replay.
LEMMA MatchingFirst ==
  ASSUME NEW kind, NEW kinds, NEW replays
  PROVE  /\ kind \notin kinds => Matching(<<Record(kind, FALSE)>>, kinds, replays) = {}
         /\ FALSE \notin replays => Matching(<<Record(kind, FALSE)>>, kinds, replays) = {}
         /\ kind \in kinds /\ FALSE \in replays =>
              Matching(<<Record(kind, FALSE)>>, kinds, replays) = {1}
  BY MatchingOne, Zenon

FinalKinds == RecordKinds \ {"pending"}

\* What the resolution of a hold emits: one verdict at most, and no first pending record.
LEMMA ResolutionRecordsAre ==
  ASSUME NEW state \in ReviewStates, NEW replay \in BOOLEAN, NEW recs,
         recs = ResolutionRecords(state, replay)
  PROVE  /\ recs \in Seq(Records)
         /\ Matching(recs, {"pending"}, {FALSE}) = {}
         /\ state = "approved" => Matching(recs, FinalKinds, BOOLEAN) = {}
         /\ state # "approved" => \E i \in DOMAIN recs :
              Matching(recs, FinalKinds, BOOLEAN) = {i} /\ recs[i].kind = state
  <1> DEFINE shown == Record("pending", TRUE)
             final == Record(state, replay)
  <1>0. /\ state \in FinalKinds /\ state # "pending" /\ "pending" \notin FinalKinds
        /\ state \in RecordKinds /\ "pending" \in RecordKinds
    BY DEF FinalKinds, RecordKinds, ReviewStates
  <1>1. /\ shown \in Records /\ shown.kind = "pending" /\ shown.replay = TRUE
        /\ final \in Records /\ final.kind = state /\ final.replay = replay
    BY <1>0 DEF Record, Records
  <1> HIDE DEF shown, final
  <1>2. CASE replay /\ state = "approved"
    <2>1. recs = <<shown>>
      <3>1. recs = <<shown>> \o <<>>
        BY <1>2 DEF ResolutionRecords, shown
      <3>2. QED
        BY <3>1, <1>1
    <2>2. DOMAIN recs = {1} /\ recs[1] = shown
      BY <2>1
    <2>3. recs \in Seq(Records)
      BY <1>1, <2>1
    <2>4. QED
      BY <1>0, <1>1, <1>2, <2>2, <2>3 DEF Matching
  <1>3. CASE replay /\ state # "approved"
    <2>1. recs = <<shown>> \o <<final>>
      BY <1>3 DEF ResolutionRecords, shown, final
    <2> DEFINE first == <<shown>>
               second == <<final>>
    <2>2. /\ first \in Seq(Records) /\ Len(first) = 1 /\ first[1] = shown
          /\ second \in Seq(Records) /\ Len(second) = 1 /\ second[1] = final
      BY <1>1
    <2> HIDE DEF first, second
    <2>3. /\ recs \in Seq(Records) /\ Len(recs) = 2
          /\ \A i \in 1..2 : recs[i] = IF i <= 1 THEN first[i] ELSE second[i - 1]
      BY <2>1, <2>2, ConcatProperties DEF first, second
    <2>4. DOMAIN recs = {1, 2} /\ recs[1] = shown /\ recs[2] = final
      BY <2>2, <2>3
    <2>5. Matching(recs, FinalKinds, BOOLEAN) = {2}
      BY <1>0, <1>1, <2>4 DEF Matching
    <2>6. Matching(recs, {"pending"}, {FALSE}) = {}
      BY <1>0, <1>1, <2>4 DEF Matching
    <2>7. QED
      BY <1>1, <1>3, <2>3, <2>4, <2>5, <2>6
  <1>4. CASE ~replay /\ state = "approved"
    <2>1. recs = <<>>
      BY <1>4 DEF ResolutionRecords
    <2>2. DOMAIN recs = {} /\ recs \in Seq(Records)
      BY <2>1
    <2>3. Matching(recs, FinalKinds, BOOLEAN) = {} /\ Matching(recs, {"pending"}, {FALSE}) = {}
      BY <2>2 DEF Matching
    <2>4. QED
      BY <1>4, <2>2, <2>3
  <1>5. CASE ~replay /\ state # "approved"
    <2>1. recs = <<final>>
      BY <1>5 DEF ResolutionRecords, final
    <2>2. DOMAIN recs = {1} /\ recs[1] = final
      BY <2>1
    <2>3. recs \in Seq(Records)
      BY <1>1, <2>1
    <2>4. Matching(recs, FinalKinds, BOOLEAN) = {1}
      BY <1>0, <1>1, <2>2 DEF Matching
    <2>5. Matching(recs, {"pending"}, {FALSE}) = {}
      BY <1>0, <1>1, <2>2 DEF Matching
    <2>6. QED
      BY <1>1, <1>5, <2>2, <2>3, <2>4, <2>5
  <1>6. QED
    BY <1>2, <1>3, <1>4, <1>5

-----------------------------------------------------------------------------
(* One verdict, which tells what has run. *)

\* What the trail says of one call.
TellsWhatRan(c) ==
  IF c \in finished
  THEN \E i \in FinalRecords(c) :
         /\ FinalRecords(c) = {i}
         /\ executed[c] = IF records[c][i].kind \in {"allow", "approved"} THEN 1 ELSE 0
  ELSE FinalRecords(c) = {} /\ executed[c] = 0

\* A step that emits, about a call whose trail has no verdict yet, leaves it in order when
\* it ends the call with one verdict, or emits none.
LEMMA EmitTells ==
  ASSUME TypeOK, NEW c \in Calls, NEW recs \in Seq(Records), Emit(c, recs),
         FinalRecords(c) = {},
         \/ /\ Matching(recs, FinalKinds, BOOLEAN) = {}
            /\ c \notin finished' /\ executed'[c] = 0
         \/ /\ c \in finished'
            /\ \E i \in DOMAIN recs :
                 /\ Matching(recs, FinalKinds, BOOLEAN) = {i}
                 /\ executed'[c] = IF recs[i].kind \in {"allow", "approved"} THEN 1 ELSE 0
  PROVE  TellsWhatRan(c)'
  <1> DEFINE n == Len(records[c])
  <1>1. FinalRecords(c)' = {n + i : i \in Matching(recs, FinalKinds, BOOLEAN)}
    <2>1. FinalRecords(c) = Emitted(c, FinalKinds, BOOLEAN)
      BY DEF FinalRecords, FinalKinds
    <2>2. FinalRecords(c)' = Emitted(c, FinalKinds, BOOLEAN)'
      BY DEF FinalRecords, FinalKinds
    <2>3. QED
      BY <2>1, <2>2, EmitAppends
  <1>2. \A i \in DOMAIN recs : records'[c][n + i] = recs[i]
    BY EmitAppends
  <1> HIDE DEF n
  <1>3. QED
    BY <1>1, <1>2 DEF TellsWhatRan

\* A step of the hook leaves the trail of its call in order.
LEMMA TaskTells ==
  ASSUME TypeOK, Scheduling, NEW r \in Runs, NEW c \in Calls, TaskStep(r, c),
         TellsWhatRan(c)
  PROVE  TellsWhatRan(c)'
  <1> USE DEF graph, hostVars, history
  <1>1. /\ c \notin finished /\ FinalRecords(c) = {} /\ executed[c] = 0
    BY TaskMoves DEF Scheduling, TasksAreCurrent, TellsWhatRan
  <1>2. CASE UNCHANGED <<records, executed, finished>>
    BY <1>2 DEF TellsWhatRan, FinalRecords, Emitted
  <1>3. CASE AuthorizeDeny(r, c)
    <2> DEFINE recs == <<Record("deny", FALSE)>>
    <2>1. Emit(c, recs) /\ c \in finished' /\ executed'[c] = 0
      BY <1>1, <1>3 DEF AuthorizeDeny
    <2>2. Matching(recs, FinalKinds, BOOLEAN) = {1}
      <3>1. "deny" \in FinalKinds
        BY DEF FinalKinds, RecordKinds
      <3>2. FALSE \in BOOLEAN
        OBVIOUS
      <3>3. QED
        BY <3>1, <3>2, MatchingFirst
    <2>3. recs \in Seq(Records)
      BY RecordsType DEF RecordKinds
    <2>4. 1 \in DOMAIN recs /\ recs[1].kind = "deny"
      BY DEF Record
    <2> HIDE DEF recs
    <2>5. QED
      BY <1>1, <2>1, <2>2, <2>3, <2>4, EmitTells
  <1>4. CASE Suspend(r, c)
    <2> DEFINE recs == SuspensionRecords(task[r][c].pc)
    <2>1. Emit(c, recs) /\ c \notin finished' /\ executed'[c] = 0
      BY <1>1, <1>4 DEF Suspend
    <2>2. recs \in Seq(Records)
      BY RecordsType DEF SuspensionRecords
    <2>3. Matching(recs, FinalKinds, BOOLEAN) = {}
      <3>1. "pending" \notin FinalKinds
        BY DEF FinalKinds
      <3>2. Matching(<<Record("pending", FALSE)>>, FinalKinds, BOOLEAN) = {}
        BY <3>1, MatchingOne
      <3>3. Matching(<<>>, FinalKinds, BOOLEAN) = {}
        BY DEF Matching
      <3>4. QED
        BY <3>2, <3>3 DEF SuspensionRecords
    <2> HIDE DEF recs
    <2>4. QED
      BY <1>1, <2>1, <2>2, <2>3, EmitTells
  <1>5. CASE ResolveHold(r, c)
    <2> DEFINE state == Resolve(Persisted(r, c), Response(r, c), now)
               replay == task[r][c].pc # "replayed"
               recs == ResolutionRecords(state, replay)
    <2>1. state \in ReviewStates /\ replay \in BOOLEAN
      BY ResolveType
    <2>2. /\ Emit(c, recs) /\ executed'[c] = 0
          /\ state = "approved" => c \notin finished'
          /\ state # "approved" => c \in finished'
      BY <1>1, <1>5 DEF ResolveHold
    <2> HIDE DEF state, replay
    <2>3. /\ recs \in Seq(Records)
          /\ state = "approved" => Matching(recs, FinalKinds, BOOLEAN) = {}
          /\ state # "approved" => \E i \in DOMAIN recs :
               Matching(recs, FinalKinds, BOOLEAN) = {i} /\ recs[i].kind = state
      BY <2>1, ResolutionRecordsAre
    <2>4. state # "allow"
      BY <2>1 DEF ReviewStates
    <2> HIDE DEF recs
    <2>5. QED
      BY <1>1, <2>2, <2>3, <2>4, EmitTells
  <1>6. CASE ExecuteTool(r, c)
    <2> DEFINE kind == IF task[r][c].pc = "approved" THEN task[r][c].pc ELSE "allow"
               recs == <<Record(kind, task[r][c].replay)>>
    <2>1. Emit(c, recs) /\ c \in finished' /\ executed'[c] = 1
      BY <1>1, <1>6 DEF ExecuteTool, TypeOK
    <2>2. kind \in {"allow", "approved"} /\ task[r][c].replay \in BOOLEAN
      BY DEF TypeOK, Tasks
    <2> HIDE DEF kind
    <2>3. kind \in FinalKinds /\ kind \in RecordKinds
      BY <2>2 DEF FinalKinds, RecordKinds, ReviewStates
    <2>4. Matching(recs, FinalKinds, BOOLEAN) = {1}
      BY <2>2, <2>3, MatchingOne
    <2>5. recs \in Seq(Records)
      BY <2>2, <2>3, RecordsType
    <2>6. 1 \in DOMAIN recs /\ recs[1].kind = kind
      BY DEF Record
    <2> HIDE DEF recs
    <2>7. QED
      BY <1>1, <2>1, <2>2, <2>4, <2>5, <2>6, EmitTells
  <1>7. QED
    BY <1>2, <1>3, <1>4, <1>5, <1>6
      DEF TaskStep, LookupPending, RecoverHold, AuthorizeAllow, AuthorizeReview

\* What a step of the hook leaves of the other calls, and any other step of all.
LEMMA TrailFrame ==
  ASSUME TypeOK, [Next]_vars
  PROVE  \/ UNCHANGED <<records, executed, finished, promised>>
         \/ \E r \in Runs, c \in Calls :
              /\ TaskStep(r, c)
              /\ \A d \in Calls : d # c =>
                   /\ records'[d] = records[d] /\ executed'[d] = executed[d]
                   /\ promised'[d] = promised[d]
                   /\ (d \in finished' <=> d \in finished)
  <1> USE DEF graph, hostVars, history
  <1>1. ASSUME NEW r \in Runs, NEW c \in Calls, TaskStep(r, c), NEW d \in Calls, d # c
        PROVE  /\ records'[d] = records[d] /\ executed'[d] = executed[d]
               /\ promised'[d] = promised[d]
               /\ (d \in finished' <=> d \in finished)
    <2>1. records'[d] = records[d]
      BY <1>1 DEF TaskStep, LookupPending, RecoverHold, AuthorizeAllow, AuthorizeDeny,
                  AuthorizeReview, Suspend, ResolveHold, ExecuteTool, Emit, TypeOK
    <2>2. QED
      BY <1>1, <2>1, TaskFrame, TaskMoves
  <1>2. QED
    BY <1>1
      DEF Next, RunStep, CommitSuperstep, EndRun, Invoke, HostResume, Decide, LosePending,
          Tick, WatchdogStep, WatchdogResume, WatchdogRefused, WatchdogSleep, vars

\* Whatever runs, resumes, losses and replays it takes, the trail of a call ends with one
\* verdict, and the tool has run once if the verdict says so and not at all otherwise;
\* calls may share their ids, the checkpoint may fail to answer and the policy may change
\* its mind, as long as runs do not overlap on a thread.
THEOREM TrailsTellWhatRan ==
  ASSUME RunsDoNotOverlap
  PROVE  Spec => []TrailTellsWhatRan
  <1>0. TrailTellsWhatRan <=> \A c \in Calls : TellsWhatRan(c)
    BY DEF TrailTellsWhatRan, TellsWhatRan
  <1>1. Init => TrailTellsWhatRan
    BY DEF Init, TrailTellsWhatRan, FinalRecords, Emitted
  <1>2. TypeOK /\ Scheduling /\ TrailTellsWhatRan /\ [Next]_vars => TrailTellsWhatRan'
    <2> SUFFICES ASSUME TypeOK, Scheduling, TrailTellsWhatRan, [Next]_vars, NEW d \in Calls
                 PROVE  TellsWhatRan(d)'
      BY DEF TrailTellsWhatRan, TellsWhatRan
    <2>1. TellsWhatRan(d)
      BY <1>0
    <2>2. CASE /\ records'[d] = records[d] /\ executed'[d] = executed[d]
               /\ (d \in finished' <=> d \in finished)
      BY <2>1, <2>2 DEF TellsWhatRan, FinalRecords, Emitted
    <2>3. ASSUME NEW r \in Runs, TaskStep(r, d) PROVE TellsWhatRan(d)'
      BY <2>1, <2>3, TaskTells
    <2>4. QED
      BY <2>2, <2>3, TrailFrame
  <1>3. QED
    BY <1>1, <1>2, TypeCorrect, RunsAreScheduled, PTL DEF Spec

\* So a hold is resolved at most once, an approval whose tool is still to run included.
THEOREM ResolvedOnce ==
  ASSUME RunsDoNotOverlap
  PROVE  Spec => []ResolvedAtMostOnce
  <1>1. Scheduling /\ TrailTellsWhatRan => ResolvedAtMostOnce
    <2> SUFFICES ASSUME Scheduling, TrailTellsWhatRan, NEW c \in Calls
                 PROVE  Cardinality(Emitted(c, ReviewStates, BOOLEAN))
                          + Cardinality({r \in Runs : task[r][c].pc = "approved"}) <= 1
      BY DEF ResolvedAtMostOnce
    <2> DEFINE terminal == Emitted(c, ReviewStates, BOOLEAN)
               about == {r \in Runs : task[r][c].pc = "approved"}
    <2>1. terminal \subseteq FinalRecords(c)
      BY DEF FinalRecords, Emitted, RecordKinds, ReviewStates
    <2>2. /\ terminal = {} => Cardinality(terminal) = 0
          /\ \A i : terminal = {i} => Cardinality(terminal) = 1
          /\ about = {} => Cardinality(about) = 0
          /\ \A r : about = {r} => Cardinality(about) = 1
      BY FS_EmptySet, FS_Singleton
    <2> HIDE DEF terminal, about
    <2>3. CASE c \in finished
      <3>1. about = {}
        BY <2>3 DEF about, Scheduling, TasksAreCurrent, Working, Locations, Ended
      <3>2. PICK i : FinalRecords(c) = {i}
        BY <2>3 DEF TrailTellsWhatRan
      <3>3. terminal = {} \/ terminal = {i}
        BY <2>1, <3>2
      <3>4. Cardinality(about) = 0 /\ Cardinality(terminal) \in {0, 1}
        BY <2>2, <3>1, <3>3
      <3>5. QED
        BY <3>4 DEF about, terminal
    <2>4. CASE c \notin finished
      <3>1. terminal = {}
        BY <2>1, <2>4 DEF TrailTellsWhatRan
      <3>2. \A r, q \in about : r = q
        BY TasksAreAlone DEF about
      <3>3. about = {} \/ \E r : about = {r}
        BY <3>2
      <3>4. Cardinality(terminal) = 0 /\ Cardinality(about) \in {0, 1}
        BY <2>2, <3>1, <3>3
      <3>5. QED
        BY <3>4 DEF about, terminal
    <2>5. QED
      BY <2>3, <2>4
  <1>2. QED
    BY <1>1, TrailsTellWhatRan, RunsAreScheduled, PTL

-----------------------------------------------------------------------------
(* A hold is opened once, and before anything else is said of it. *)

FirstPending(c) == Emitted(c, {"pending"}, {FALSE})
LaterOfHold(c) == Emitted(c, {"pending"}, {TRUE}) \cup Emitted(c, ReviewStates, BOOLEAN)

OpensItsTrail(c) ==
  /\ Held(c) => \E i : FirstPending(c) = {i}
  /\ ~Held(c) => FirstPending(c) = {}
  /\ \A i \in LaterOfHold(c) : \E j \in FirstPending(c) : j < i

HoldsAreRecorded == \A c \in Calls : OpensItsTrail(c)

\* What is emitted about a call that is held comes after its first pending record, and
\* leaves that record the only one of its kind if it brings no other.
LEMMA EmitAfterHold ==
  ASSUME TypeOK, NEW c \in Calls, NEW recs \in Seq(Records), Emit(c, recs),
         OpensItsTrail(c), Held(c), promised'[c] = promised[c],
         Matching(recs, {"pending"}, {FALSE}) = {}
  PROVE  OpensItsTrail(c)'
  <1> DEFINE n == Len(records[c])
  <1>1. FirstPending(c)' = FirstPending(c) /\ FirstPending(c) \subseteq 1..n /\ n \in Nat
    <2>1. FirstPending(c)' =
            FirstPending(c) \cup {n + i : i \in Matching(recs, {"pending"}, {FALSE})}
      BY EmitAppends DEF FirstPending
    <2>2. FirstPending(c) \subseteq 1..n /\ n \in Nat
      BY EmitAppends DEF FirstPending
    <2> HIDE DEF n
    <2>3. QED
      BY <2>1, <2>2
  <1>2. ASSUME NEW kinds, NEW replays, NEW k \in Emitted(c, kinds, replays)'
        PROVE  k \in Emitted(c, kinds, replays) \/ (k \in Nat /\ k > n)
    <2>1. Emitted(c, kinds, replays)' =
            Emitted(c, kinds, replays) \cup {n + i : i \in Matching(recs, kinds, replays)}
      BY EmitAppends
    <2>2. Matching(recs, kinds, replays) \subseteq 1..Len(recs) /\ Len(recs) \in Nat
      BY DEF Matching
    <2> HIDE DEF n
    <2>3. CASE \E i \in Matching(recs, kinds, replays) : k = n + i
      <3>1. PICK i \in Matching(recs, kinds, replays) : k = n + i
        BY <2>3
      <3>2. i \in Nat /\ i > 0
        BY <2>2
      <3>3. QED
        BY <1>1, <3>1, <3>2
    <2>4. k \in Emitted(c, kinds, replays)
            \/ k \in {n + i : i \in Matching(recs, kinds, replays)}
      BY <1>2, <2>1, Zenon
    <2>5. QED
      BY <2>3, <2>4
  <1>3. \A k \in LaterOfHold(c)' : k \in LaterOfHold(c) \/ (k \in Nat /\ k > n)
    BY <1>2 DEF LaterOfHold
  <1>4. PICK j : FirstPending(c) = {j}
    BY DEF OpensItsTrail
  <1>5. \A k \in LaterOfHold(c)' : j < k
    <2> HIDE DEF n
    <2>1. j \in 1..n
      BY <1>1, <1>4
    <2>2. \A k \in LaterOfHold(c) : j < k
      BY <1>4 DEF OpensItsTrail
    <2>3. \A k \in Nat : k > n => j < k
      BY <1>1, <2>1
    <2>4. QED
      BY <1>3, <2>2, <2>3
  <1>6. Held(c)'
    BY DEF Held
  <1>7. QED
    BY <1>1, <1>4, <1>5, <1>6 DEF OpensItsTrail

\* Records that are not of a hold change nothing about it.
LEMMA EmitBesideHold ==
  ASSUME TypeOK, NEW c \in Calls, NEW recs \in Seq(Records), Emit(c, recs),
         OpensItsTrail(c), promised'[c] = promised[c],
         Matching(recs, {"pending"} \cup ReviewStates, BOOLEAN) = {}
  PROVE  OpensItsTrail(c)'
  <1>1. ASSUME NEW kinds \in SUBSET ({"pending"} \cup ReviewStates),
               NEW replays \in SUBSET BOOLEAN
        PROVE  Emitted(c, kinds, replays)' = Emitted(c, kinds, replays)
    <2>1. Matching(recs, kinds, replays) = {}
      BY <1>1 DEF Matching
    <2>2. Emitted(c, kinds, replays)' = Emitted(c, kinds, replays)
            \cup {Len(records[c]) + i : i \in Matching(recs, kinds, replays)}
      BY EmitAppends
    <2>3. QED
      BY <2>1, <2>2
  <1>2. FirstPending(c)' = FirstPending(c) /\ LaterOfHold(c)' = LaterOfHold(c)
    <2>1. {TRUE} \in SUBSET BOOLEAN /\ {FALSE} \in SUBSET BOOLEAN
      OBVIOUS
    <2>2. QED
      BY <1>1, <2>1 DEF FirstPending, LaterOfHold
  <1>3. Held(c)' = Held(c)
    BY DEF Held
  <1>4. QED
    BY <1>2, <1>3 DEF OpensItsTrail

\* A step of the hook keeps the trail of its call opened as it should be, if the call is
\* suspended as a fresh one when it has no hold yet and only then, and resolved or run as
\* an approved one only when it has.
LEMMA TaskOpens ==
  ASSUME TypeOK, NEW r \in Runs, NEW c \in Calls, TaskStep(r, c), OpensItsTrail(c),
         task[r][c].pc \in Reviewing => task[r][c].hold # None,
         Suspend(r, c) => (task[r][c].pc = "fresh" <=> ~Held(c)),
         ResolveHold(r, c) \/ task[r][c].pc = "approved" => Held(c)
  PROVE  OpensItsTrail(c)'
  <1> USE DEF graph, hostVars, history
  <1>1. "pending" \notin ReviewStates /\ "deny" \notin ReviewStates /\ "allow" \notin ReviewStates
    BY DEF ReviewStates
  <1>2. CASE UNCHANGED <<records, promised>>
    BY <1>2 DEF OpensItsTrail, Held, FirstPending, LaterOfHold, Emitted
  <1>3. CASE AuthorizeDeny(r, c)
    <2> DEFINE recs == <<Record("deny", FALSE)>>
    <2>1. Emit(c, recs) /\ promised'[c] = promised[c]
      BY <1>3 DEF AuthorizeDeny
    <2>2. recs \in Seq(Records)
      BY RecordsType DEF RecordKinds
    <2>3. Matching(recs, {"pending"} \cup ReviewStates, BOOLEAN) = {}
      BY <1>1, MatchingFirst
    <2> HIDE DEF recs
    <2>4. QED
      BY <2>1, <2>2, <2>3, EmitBesideHold
  <1>4. CASE Suspend(r, c) /\ task[r][c].pc = "fresh"
    <2> DEFINE recs == <<Record("pending", FALSE)>>
    <2>1. /\ Emit(c, recs) /\ promised[c] = None
          /\ promised'[c] = task[r][c].hold /\ task[r][c].hold # None
      BY <1>4 DEF Suspend, SuspensionRecords, Held, TypeOK
    <2>2. recs \in Seq(Records)
      BY RecordsType
    <2>3. FirstPending(c) = {} /\ LaterOfHold(c) = {}
      BY <2>1 DEF OpensItsTrail, Held
    <2>4. /\ Matching(recs, {"pending"}, {FALSE}) = {1}
          /\ Matching(recs, {"pending"}, {TRUE}) = {}
          /\ Matching(recs, ReviewStates, BOOLEAN) = {}
      <3>1. FALSE \in {FALSE} /\ FALSE \notin {TRUE}
        OBVIOUS
      <3>2. QED
        BY <1>1, <3>1, MatchingFirst
    <2> HIDE DEF recs
    <2>5. FirstPending(c)' = {Len(records[c]) + 1}
      <3>1. FirstPending(c)' = FirstPending(c)
              \cup {Len(records[c]) + i : i \in Matching(recs, {"pending"}, {FALSE})}
        BY <2>1, <2>2, EmitAppends DEF FirstPending
      <3>2. QED
        BY <2>3, <2>4, <3>1
    <2>6. LaterOfHold(c)' = {}
      <3>1. Emitted(c, {"pending"}, {TRUE})' = {}
        BY <2>1, <2>2, <2>3, <2>4, EmitAppends DEF LaterOfHold
      <3>2. Emitted(c, ReviewStates, BOOLEAN)' = {}
        BY <2>1, <2>2, <2>3, <2>4, EmitAppends DEF LaterOfHold
      <3>3. QED
        BY <3>1, <3>2 DEF LaterOfHold
    <2>7. Held(c)'
      BY <2>1 DEF Held
    <2>8. QED
      BY <2>5, <2>6, <2>7 DEF OpensItsTrail
  <1>5. CASE Suspend(r, c) /\ task[r][c].pc # "fresh"
    <2>1. /\ Emit(c, <<>>) /\ promised[c] # None /\ promised'[c] = promised[c]
      BY <1>5 DEF Suspend, SuspensionRecords, Held, TypeOK
    <2>2. <<>> \in Seq(Records) /\ Matching(<<>>, {"pending"}, {FALSE}) = {}
      BY RecordsType DEF Matching
    <2>3. QED
      BY <2>1, <2>2, EmitAfterHold DEF Held
  <1>6. CASE ResolveHold(r, c)
    <2> DEFINE state == Resolve(Persisted(r, c), Response(r, c), now)
               replay == task[r][c].pc # "replayed"
               recs == ResolutionRecords(state, replay)
    <2>1. state \in ReviewStates /\ replay \in BOOLEAN
      BY ResolveType
    <2>2. Emit(c, recs) /\ promised'[c] = promised[c]
      BY <1>6 DEF ResolveHold
    <2>3. Held(c)
      BY <1>6
    <2> HIDE DEF state, replay
    <2>4. recs \in Seq(Records) /\ Matching(recs, {"pending"}, {FALSE}) = {}
      BY <2>1, ResolutionRecordsAre
    <2> HIDE DEF recs
    <2>5. QED
      BY <2>2, <2>3, <2>4, EmitAfterHold
  <1>7. CASE ExecuteTool(r, c)
    <2> DEFINE kind == IF task[r][c].pc = "approved" THEN task[r][c].pc ELSE "allow"
               recs == <<Record(kind, task[r][c].replay)>>
    <2>1. /\ Emit(c, recs) /\ promised'[c] = promised[c]
          /\ kind = "approved" => Held(c)
      BY <1>7 DEF ExecuteTool
    <2>2. kind \in {"allow", "approved"} /\ task[r][c].replay \in BOOLEAN
      BY DEF TypeOK, Tasks
    <2> HIDE DEF kind
    <2>3. recs \in Seq(Records)
      BY <2>2, RecordsType DEF RecordKinds, ReviewStates
    <2>4. Matching(recs, {"pending"}, {FALSE}) = {}
      BY <2>2, MatchingOne
    <2>5. kind = "allow" => Matching(recs, {"pending"} \cup ReviewStates, BOOLEAN) = {}
      BY <1>1, MatchingOne
    <2> HIDE DEF recs
    <2>6. QED
      BY <2>1, <2>2, <2>3, <2>4, <2>5, EmitAfterHold, EmitBesideHold
  <1>8. QED
    BY <1>2, <1>3, <1>4, <1>5, <1>6, <1>7
      DEF TaskStep, LookupPending, RecoverHold, AuthorizeAllow, AuthorizeReview

\* Trails that are opened so have one pending record, and have it first.
LEMMA RecordedHoldsOpen == HoldsAreRecorded => OnePendingRecord
  <1> SUFFICES ASSUME HoldsAreRecorded, NEW c \in Calls
               PROVE  /\ Held(c) => Cardinality(FirstPending(c)) = 1
                      /\ \A i \in LaterOfHold(c) : \E j \in FirstPending(c) : j < i
    BY DEF OnePendingRecord, FirstPending, LaterOfHold
  <1>1. OpensItsTrail(c)
    BY DEF HoldsAreRecorded
  <1>2. \A i : FirstPending(c) = {i} => Cardinality(FirstPending(c)) = 1
    BY FS_Singleton
  <1>3. QED
    BY <1>1, <1>2 DEF OpensItsTrail

\* A hold is in the trail as soon as its reviewer can see it, once, and before anything
\* else that is said of it; however often its hook is executed again, whether or not the
\* table that remembers it was lost, no replay passes for a new hold.
THEOREM HoldsOpenTheirTrail ==
  ASSUME RunsDoNotOverlap, QueriesSucceed, IdsDifferInTurn
  PROVE  Spec => []OnePendingRecord
  <1>1. Init => HoldsAreRecorded
    BY DEF Init, HoldsAreRecorded, OpensItsTrail, Held, FirstPending, LaterOfHold, Emitted
  <1>2. TypeOK /\ Scheduling /\ Holding /\ HoldsAreRecorded /\ [Next]_vars => HoldsAreRecorded'
    <2> SUFFICES ASSUME TypeOK, Scheduling, Holding, HoldsAreRecorded, [Next]_vars,
                        NEW d \in Calls
                 PROVE  OpensItsTrail(d)'
      BY DEF HoldsAreRecorded
    <2>1. OpensItsTrail(d)
      BY DEF HoldsAreRecorded
    <2>2. CASE records'[d] = records[d] /\ promised'[d] = promised[d]
      BY <2>1, <2>2 DEF OpensItsTrail, Held, FirstPending, LaterOfHold, Emitted
    <2>3. ASSUME NEW r \in Runs, TaskStep(r, d) PROVE OpensItsTrail(d)'
      <3>1. KnowsHold(r, d)
        BY DEF Holding, TasksKnowHolds
      <3>2. /\ task[r][d].pc \in Reviewing => task[r][d].hold # None
            /\ Suspend(r, d) => (task[r][d].pc = "fresh" <=> ~Held(d))
            /\ task[r][d].pc = "approved" => Held(d)
        BY <3>1 DEF Suspend, KnowsHold, Reviewing, Held
      <3>3. ResolveHold(r, d) => Held(d)
        BY ResolvesHeld DEF Held
      <3>4. QED
        BY <2>1, <2>3, <3>2, <3>3, TaskOpens
    <2>4. QED
      BY <2>2, <2>3, TrailFrame
  <1>3. QED
    BY <1>1, <1>2, RecordedHoldsOpen, TypeCorrect, RunsAreScheduled, HoldsAreKnown, PTL DEF Spec

-----------------------------------------------------------------------------
(* A rejection is the reviewer's. *)

\* What is resolved as rejected was not too late and not an approval.
LEMMA RejectedIsInTime ==
  ASSUME NEW deadline, NEW response, NEW instant,
         Resolve(deadline, response, instant) = "rejected"
  PROVE  ~IsExpired(deadline, instant) /\ response # "approve"
  BY DEF Resolve, ParseDecision, Decisions

\* Every step keeps it that rejections are reviewers', if the ones it makes are.
LEMMA RejectionStep ==
  ASSUME TypeOK, RejectionsAreReviewers, [Next]_vars,
         \A r \in Runs, c \in Calls :
           ResolveHold(r, c) /\ ~IsExpired(Persisted(r, c), now) =>
             Response(r, c) \in Answers /\ answer[c] = Response(r, c)
  PROVE  RejectionsAreReviewers'
  <1> USE DEF graph, hostVars, history
  <1>1. \A c \in Calls : answer[c] \in Answers => answer'[c] = answer[c]
    <2>1. None \notin Answers
      BY ConstantFacts DEF Responses
    <2>2. ASSUME NEW d \in Calls, NEW response \in Answers, Decide(d, response)
          PROVE  \A c \in Calls : answer[c] \in Answers => answer'[c] = answer[c]
      BY <2>1, <2>2 DEF Decide, TypeOK
    <2>3. CASE UNCHANGED answer
      BY <2>3
    <2>4. QED
      BY <2>2, <2>3, TaskMoves
        DEF Next, RunStep, CommitSuperstep, EndRun, Invoke, HostResume, LosePending, Tick,
            WatchdogStep, WatchdogResume, WatchdogRefused, WatchdogSleep, vars
  <1>2. ASSUME NEW r \in Runs, NEW c \in Calls, ResolveHold(r, c)
        PROVE  RejectionsAreReviewers'
    <2> DEFINE state == Resolve(Persisted(r, c), Response(r, c), now)
    <2>1. UNCHANGED answer /\ \A d \in Calls : outcome'[d] = IF d = c THEN state ELSE outcome[d]
      BY <1>2 DEF ResolveHold, TypeOK
    <2>2. state = "rejected" => answer[c] \in Answers \ {"approve"}
      BY <1>2, RejectedIsInTime
    <2> HIDE DEF state
    <2>3. QED
      BY <2>1, <2>2 DEF RejectionsAreReviewers
  <1>3. CASE UNCHANGED outcome
    BY <1>1, <1>3 DEF RejectionsAreReviewers
  <1>4. ASSUME NEW r \in Runs, NEW c \in Calls, TaskStep(r, c)
        PROVE  RejectionsAreReviewers'
    BY <1>2, <1>3, <1>4
      DEF TaskStep, LookupPending, RecoverHold, AuthorizeAllow, AuthorizeDeny,
          AuthorizeReview, Suspend, ExecuteTool
  <1>5. QED
    BY <1>3, <1>4
      DEF Next, RunStep, CommitSuperstep, EndRun, Invoke, HostResume, Decide, LosePending,
          Tick, WatchdogStep, WatchdogResume, WatchdogRefused, WatchdogSleep, vars

\* Without a watchdog, whatever overlaps, is lost or fails.
NoSentinels == \A r \in Runs : resume[r] # TimeoutSentinel

\* A call is recorded as rejected only if its reviewer answered, and did not approve, when
\* the watchdog is off and decisions find the hold they are about.
THEOREM RejectionsWithoutWatchdog ==
  ASSUME WatchdogEnabled = FALSE, AnswersFindTheirHold, SharedIdsAreReviewed
  PROVE  Spec => []RejectionsAreReviewers
  <1> USE DEF graph, hostVars, history
  <1>0. None # TimeoutSentinel /\ TimeoutSentinel \notin Answers /\ Hosts \subseteq Runs
    BY ConstantFacts DEF TimeoutSentinel, Answers, Decisions
  <1>1. Init => NoSentinels /\ RejectionsAreReviewers
    BY <1>0, ConstantsAssumption DEF Init, NoSentinels, RejectionsAreReviewers, ReviewStates
  <1>2. TypeOK /\ NoSentinels /\ [Next]_vars => NoSentinels'
    <2> SUFFICES ASSUME TypeOK, NoSentinels, [Next]_vars PROVE NoSentinels'
      OBVIOUS
    <2>1. ASSUME NEW r \in Runs, NEW t, NEW tasks, NEW value, NEW to, NEW hold,
                 Start(r, t, tasks, value, to, hold), value # TimeoutSentinel
          PROVE  NoSentinels'
      BY <2>1, StartMoves DEF NoSentinels
    <2>2. ASSUME NEW r \in Runs, RunStep(r) PROVE NoSentinels'
      BY <1>0, <2>1, <2>2 DEF RunStep, CommitSuperstep, EndRun
    <2>3. ASSUME NEW h \in Hosts, NEW t \in Threads, Invoke(h, t) PROVE NoSentinels'
      BY <1>0, <2>1, <2>3 DEF Invoke
    <2>4. ASSUME NEW h \in Hosts, NEW c \in Calls, HostResume(h, c) PROVE NoSentinels'
      <3>1. answer[c] # TimeoutSentinel
        BY <1>0 DEF TypeOK
      <3>2. QED
        BY <1>0, <2>1, <2>4, <3>1 DEF HostResume
    <2>5. ASSUME NEW r \in Runs, NEW c \in Calls, TaskStep(r, c) PROVE NoSentinels'
      <3>1. \A q \in Runs : resume'[q] \in {resume[q], None}
        BY <2>5 DEF TaskStep, LookupPending, RecoverHold, AuthorizeAllow, AuthorizeDeny,
                    AuthorizeReview, Suspend, ResolveHold, ExecuteTool, TypeOK
      <3>2. QED
        BY <1>0, <3>1 DEF NoSentinels
    <2>6. CASE UNCHANGED resume
      BY <2>6 DEF NoSentinels
    <2>7. QED
      BY <2>2, <2>3, <2>4, <2>5, <2>6
        DEF Next, Decide, LosePending, Tick, WatchdogStep, WatchdogResume, WatchdogRefused,
            WatchdogSleep, vars
  <1>3. TypeOK /\ VerdictInv /\ Delivery /\ NoSentinels /\ RejectionsAreReviewers /\ [Next]_vars
          => RejectionsAreReviewers'
    <2> SUFFICES ASSUME TypeOK, VerdictInv, Delivery, NoSentinels, RejectionsAreReviewers,
                        [Next]_vars
                 PROVE  RejectionsAreReviewers'
      OBVIOUS
    <2>1. ASSUME NEW r \in Runs, NEW c \in Calls, ResolveHold(r, c)
          PROVE  Response(r, c) \in Answers /\ answer[c] = Response(r, c)
      <3>1. task[r][c].pc \in Reviewing /\ Response(r, c) # None
        BY <2>1 DEF ResolveHold
      <3>2. Response(r, c) \in Answers
        BY <3>1 DEF Response, NoSentinels, TypeOK, Responses
      <3>3. "REVIEW" \in PolicyVerdicts[c]
        BY <3>1 DEF VerdictInv, TasksByVerdict
      <3>4. QED
        BY <3>1, <3>2, <3>3, AnswersReachTheirHold
    <2>2. QED
      BY <2>1, RejectionStep
  <1>4. QED
    BY <1>1, <1>2, <1>3, TypeCorrect, VerdictsHold, PTL DEF Spec
=============================================================================
