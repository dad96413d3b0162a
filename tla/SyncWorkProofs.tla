--------------------------- MODULE SyncWorkProofs ---------------------------
(***************************************************************************)
(* Theorems of SyncWork, for any workers, operators, errors and bounds:    *)
(* types, that no request is swallowed, and that the finished sync of a    *)
(* ledger that owes none worked on the newest request's content.           *)
(***************************************************************************)
EXTENDS SyncWork, TLAPS

USE AttemptsAssumption, BoundsAssumption, ChoicesAssumption, OwnersAssumption

-----------------------------------------------------------------------------
(* What makes the properties inductive.                                    *)

(* No generation is known before it is saved.                              *)
GenerationsAreSaved ==
    /\ sourceGeneration["sync"] <= source.generation
    /\ \A w \in Workers : run[w].content <= source.generation

(* A run knows of no request that is not in the document.                  *)
SnapshotsAreOld ==
    \A w \in Workers, k \in Kinds : run[w].requested[k] <= requested[k]

(* While nobody has replaced a run, nothing is processed that it does not  *)
(* know of, and what arrived since its claim is due, for only the run      *)
(* itself could have taken it off the schedule.                            *)
HolderKnows ==
    \A w \in Workers : leaseOwner = w /\ run[w].pc \in Working =>
        \A k \in Kinds : /\ processed[k] <= run[w].requested[k]
                         /\ requested[k] # run[w].requested[k] => k \in due

(* The content of a run that is about to finish its sync is that of the    *)
(* newest request, or the run will not report that request.                *)
DecidedCovers ==
    \A w \in Workers : run[w].pc = "decided" =>
        \/ run[w].content >= sourceGeneration["sync"]
        \/ requested["sync"] > run[w].requested["sync"]

IndInv ==
    /\ TypeOK /\ NoRequestSwallowed /\ SettledMeansCurrent
    /\ GenerationsAreSaved /\ SnapshotsAreOld /\ HolderKnows /\ DecidedCovers

-----------------------------------------------------------------------------
(* What a step does to the run of its worker.                              *)

\* s is r, gone on or ended without a new claim or decision: it knows of no
\* request that r did not know, and works only if r worked on the same ones.
Follows(r, s) ==
    /\ s \in Runs
    /\ s.content <= source.generation
    /\ \A k \in Kinds : s.requested[k] <= r.requested[k]
    /\ s.pc # "decided"
    /\ s.pc \in Working => r.pc \in Working /\ s.requested = r.requested

(* A run that ends, or that only has its lease left, follows what it was.  *)
LEMMA NoRunFollows ==
    ASSUME TypeOK, NEW w \in Workers
    PROVE  Follows(run[w], NoRun)
  <1>1. NoRun \in Runs /\ NoRun.content = 0 /\ NoRun.pc = "idle"
        /\ \A k \in Kinds : NoRun.requested[k] = 0
    BY DEF NoRun, Runs, Kinds
  <1>2. source.generation \in Nat /\ \A k \in Kinds : run[w].requested[k] \in Nat
    BY DEF TypeOK, Runs
  <1> QED  BY <1>1, <1>2 DEF Follows, Working

LEMMA LeftRunFollows ==
    ASSUME TypeOK, NEW w \in Workers, Leave(w)
    PROVE  \E s : Follows(run[w], s) /\ run' = [run EXCEPT ![w] = s]
  <1>1. PICK s : s = [NoRun EXCEPT !.pc = "releasing"]
    OBVIOUS
  <1>2. s \in Runs /\ s.content = 0 /\ s.pc = "releasing"
        /\ \A k \in Kinds : s.requested[k] = 0
    BY <1>1 DEF NoRun, Runs, Kinds
  <1>3. source.generation \in Nat /\ \A k \in Kinds : run[w].requested[k] \in Nat
    BY DEF TypeOK, Runs
  <1>4. Follows(run[w], s)
    BY <1>2, <1>3 DEF Follows, Working
  <1>5. run' = [run EXCEPT ![w] = s]
    BY <1>1 DEF Leave
  <1> QED  BY <1>4, <1>5

(* A run that only moves on.                                               *)
LEMMA MovedRun ==
    ASSUME TypeOK, NEW w \in Workers, NEW pc, Go(w, pc),
           pc \in {"imported", "cleanup", "finished", "observe", "transitioned",
                   "observed", "closing", "decided"}
    PROVE  \E s \in Runs :
              /\ run' = [run EXCEPT ![w] = s]
              /\ s.pc = pc /\ s.content = run[w].content
              /\ s.requested = run[w].requested
  <1>1. run[w] \in Runs
    BY DEF TypeOK
  <1>2. PICK s : s = [run[w] EXCEPT !.pc = pc]
    OBVIOUS
  <1>3. /\ s \in Runs /\ s.pc = pc /\ s.content = run[w].content
        /\ s.requested = run[w].requested
    BY <1>1, <1>2 DEF Runs
  <1>4. run' = [run EXCEPT ![w] = s]
    BY <1>2 DEF Go
  <1> QED  BY <1>3, <1>4

(* Such a run follows what it was unless it decides.                       *)
LEMMA MovedRunFollows ==
    ASSUME TypeOK, GenerationsAreSaved, NEW w \in Workers, NEW pc, Go(w, pc),
           pc \in {"imported", "cleanup", "finished", "observe", "transitioned",
                   "observed", "closing"},
           pc = "imported" \/ run[w].pc \in Working
    PROVE  \E s : Follows(run[w], s) /\ run' = [run EXCEPT ![w] = s]
  <1>1. PICK s \in Runs : /\ run' = [run EXCEPT ![w] = s]
                          /\ s.pc = pc /\ s.content = run[w].content
                          /\ s.requested = run[w].requested
    BY MovedRun
  <1>2. \A k \in Kinds : run[w].requested[k] \in Nat
    BY DEF TypeOK, Runs
  <1>3. s.content <= source.generation
    BY <1>1 DEF GenerationsAreSaved
  <1>4. Follows(run[w], s)
    BY <1>1, <1>2, <1>3 DEF Follows, Working
  <1> QED  BY <1>1, <1>4

\* The steps of a run that report or claim nothing and raise no error.
Quiet(w) ==
    \/ StartRun(w)
    \/ \E K \in SUBSET SourceKinds : WorkerImport(w, K)
    \/ NotClaimed(w) \/ EnterSync(w) \/ SkipSync(w) \/ Bind(w)
    \/ \E o \in BOOLEAN, h \in Hosting : RequestObservation(w, o, h)
    \/ SkipCleanup(w) \/ ObserveArticle(w) \/ ConfirmObserve(w)
    \/ Transition(w) \/ SkipObserve(w) \/ ReportObserved(w) \/ CloseRun(w)
    \/ AbandonRun(w) \/ Release(w) \/ Crash(w)

\* All of its steps but its claim and its decision.
Continues(w) ==
    \/ Quiet(w)
    \/ FinishSync(w) \/ FinishCleanup(w) \/ FinishObserve(w)
    \/ \E k \in Kinds : WaitRun(w, k)
    \/ \E k \in Kinds, c \in Categories : FailRun(w, k, c)

(* In such a step the run follows what it was, or is the same.             *)
LEMMA RunsFollow ==
    ASSUME TypeOK, GenerationsAreSaved, NEW w \in Workers, Continues(w)
    PROVE  \/ run' = run /\ Bind(w)
           \/ \E s : Follows(run[w], s) /\ run' = [run EXCEPT ![w] = s]
  <1> DEFINE Good == \E s : Follows(run[w], s) /\ run' = [run EXCEPT ![w] = s]
  <1>0. /\ run[w] \in Runs /\ source.generation \in Nat
        /\ run[w].content <= source.generation
        /\ \A k \in Kinds : run[w].requested[k] \in Nat
    BY DEF TypeOK, GenerationsAreSaved, Runs
  <1>1. CASE StartRun(w)
    <2>1. PICK s : s = [run[w] EXCEPT
              !.pc = IF source.pending /\ source.readiness = "ready"
                       THEN "read" ELSE "imported",
              !.content = source.generation]
      OBVIOUS
    <2>2. /\ s \in Runs /\ s.content = source.generation
          /\ s.pc \in {"read", "imported"} /\ s.requested = run[w].requested
      BY <1>0, <2>1 DEF Runs
    <2>3. run' = [run EXCEPT ![w] = s]
      BY <1>1, <2>1 DEF StartRun
    <2>4. Follows(run[w], s)
      BY <1>0, <2>2 DEF Follows, Working
    <2> QED  BY <2>3, <2>4
  <1>2. CASE NotClaimed(w) \/ Release(w) \/ Crash(w)
    <2>1. run' = [run EXCEPT ![w] = NoRun]
      BY <1>2 DEF NotClaimed, Release, Crash
    <2> QED  BY <2>1, NoRunFollows
  <1>3. CASE EnterSync(w)
    <2>1. PICK s : s = [run[w] EXCEPT !.pc = "sync", !.kind = "sync"]
      OBVIOUS
    <2>2. /\ s \in Runs /\ s.content = run[w].content
          /\ s.pc = "sync" /\ s.requested = run[w].requested
      BY <1>0, <2>1 DEF Runs, Kinds
    <2>3. run' = [run EXCEPT ![w] = s] /\ run[w].pc = "claimed"
      BY <1>3, <2>1 DEF EnterSync
    <2>4. Follows(run[w], s)
      BY <1>0, <2>2, <2>3 DEF Follows, Working
    <2> QED  BY <2>3, <2>4
  <1>4. CASE FinishCleanup(w)
    <2>1. PICK s : s = [run[w] EXCEPT !.pc = "observe",
                                      !.kind = IF bound THEN "cleanup" ELSE @]
      OBVIOUS
    <2>2. /\ s \in Runs /\ s.content = run[w].content
          /\ s.pc = "observe" /\ s.requested = run[w].requested
      BY <1>0, <2>1 DEF Runs, Kinds
    <2>3. run' = [run EXCEPT ![w] = s] /\ run[w].pc = "cleanup"
      BY <1>4, <2>1 DEF FinishCleanup
    <2>4. Follows(run[w], s)
      BY <1>0, <2>2, <2>3 DEF Follows, Working
    <2> QED  BY <2>3, <2>4
  <1>5. CASE ObserveArticle(w)
    <2>0. PICK o \in BOOLEAN : o = Owed("sync")
      <3>1. Owed("sync") \in BOOLEAN
        BY DEF Owed
      <3> QED  BY <3>1, Zenon
    <2>1. PICK s : s = [run[w] EXCEPT !.pc = "observing", !.kind = "observe",
                                      !.owed = o]
      OBVIOUS
    <2>2. /\ s \in Runs /\ s.content = run[w].content
          /\ s.pc = "observing" /\ s.requested = run[w].requested
      BY <1>0, <2>1 DEF Runs, Kinds
    <2>3. run' = [run EXCEPT ![w] = s] /\ run[w].pc = "observe"
      BY <1>5, <2>0, <2>1, Zenon DEF ObserveArticle
    <2>4. Follows(run[w], s)
      BY <1>0, <2>2, <2>3 DEF Follows, Working
    <2> QED  BY <2>3, <2>4
  <1>6. CASE ConfirmObserve(w)
    <2>1. PICK s : s = [run[w] EXCEPT !.pc = "confirmed", !.content = source.generation]
      OBVIOUS
    <2>2. /\ s \in Runs /\ s.content = source.generation
          /\ s.pc = "confirmed" /\ s.requested = run[w].requested
      BY <1>0, <2>1 DEF Runs
    <2>3. run' = [run EXCEPT ![w] = s] /\ run[w].pc = "observing"
      BY <1>6, <2>1 DEF ConfirmObserve
    <2>4. Follows(run[w], s)
      BY <1>0, <2>2, <2>3 DEF Follows, Working
    <2> QED  BY <2>3, <2>4
  <1>7. CASE \E K \in SUBSET SourceKinds : WorkerImport(w, K)
    <2>1. Go(w, "imported")
      BY <1>7 DEF WorkerImport
    <2> QED  BY <2>1, MovedRunFollows
  <1>8. CASE \/ SkipSync(w) \/ SkipCleanup(w)
             \/ \E o \in BOOLEAN, h \in Hosting : RequestObservation(w, o, h)
    <2>1. run[w].pc \in Working
      BY <1>8 DEF SkipSync, SkipCleanup, RequestObservation, Working
    <2>2. Go(w, "cleanup") \/ Go(w, "observe")
      BY <1>8 DEF SkipSync, SkipCleanup, RequestObservation
    <2> QED  BY <2>1, <2>2, MovedRunFollows
  <1>9. CASE FinishSync(w) \/ Transition(w) \/ FinishObserve(w) \/ ReportObserved(w)
    <2>1. run[w].pc \in Working
      BY <1>9 DEF FinishSync, Transition, FinishObserve, ReportObserved, Working
    <2>2. \/ Go(w, "finished") \/ Go(w, "transitioned") \/ Go(w, "observed")
          \/ Go(w, "closing")
      BY <1>9 DEF FinishSync, Transition, FinishObserve, ReportObserved
    <2> QED  BY <2>1, <2>2, MovedRunFollows
  <1>10. CASE SkipObserve(w)
    <2>1. run[w].pc \in Working /\ (Go(w, "closing") \/ Leave(w))
      BY <1>10 DEF SkipObserve, Working
    <2> QED  BY <2>1, MovedRunFollows, LeftRunFollows
  <1>11. CASE \/ CloseRun(w) \/ AbandonRun(w)
              \/ \E k \in Kinds : WaitRun(w, k)
              \/ \E k \in Kinds, c \in Categories : FailRun(w, k, c)
    <2>1. Leave(w)
      BY <1>11 DEF CloseRun, AbandonRun, WaitRun, FailRun
    <2> QED  BY <2>1, LeftRunFollows
  <1>12. CASE Bind(w)
    BY <1>12 DEF Bind
  <1> QED
    BY <1>1, <1>2, <1>3, <1>4, <1>5, <1>6, <1>7, <1>8, <1>9, <1>10, <1>11, <1>12
       DEF Continues, Quiet

(* A claim: the run knows what is requested now.                           *)
LEMMA ClaimedRun ==
    ASSUME TypeOK, NEW w \in Workers, Claim(w)
    PROVE  \E s \in Runs : /\ run' = [run EXCEPT ![w] = s]
                           /\ s.pc = "claimed" /\ s.requested = requested
                           /\ s.content = run[w].content
  <1>0. run[w] \in Runs /\ requested \in [Kinds -> Nat] /\ due \subseteq Kinds
    BY DEF TypeOK
  <1>1. PICK first \in due :
          run' = [run EXCEPT ![w].pc = "claimed", ![w].requested = requested,
                             ![w].due = due, ![w].kind = first]
    BY DEF Claim
  <1>2. PICK s : s = [run[w] EXCEPT !.pc = "claimed", !.requested = requested,
                                    !.due = due, !.kind = first]
    OBVIOUS
  <1>3. /\ s \in Runs /\ s.pc = "claimed" /\ s.requested = requested
        /\ s.content = run[w].content
    BY <1>0, <1>2 DEF Runs
  <1>4. run' = [run EXCEPT ![w] = s]
    BY <1>1, <1>2
  <1> QED  BY <1>3, <1>4

(* Runs stay runs.                                                         *)
LEMMA RunTypes ==
    ASSUME TypeOK, GenerationsAreSaved, NEW w \in Workers, RunStep(w) \/ Crash(w)
    PROVE  run' \in [Workers -> Runs]
  <1>0. run \in [Workers -> Runs]
    BY DEF TypeOK
  <1>1. CASE Claim(w)
    BY <1>0, <1>1, ClaimedRun
  <1>2. CASE Decide(w)
    <2>1. Go(w, "decided")
      BY <1>2 DEF Decide
    <2> QED  BY <1>0, <2>1, MovedRun
  <1>3. CASE Continues(w)
    BY <1>0, <1>3, RunsFollow DEF Follows
  <1> QED  BY <1>1, <1>2, <1>3 DEF RunStep, Continues, Quiet

-----------------------------------------------------------------------------
(* Types.                                                                  *)

LEMMA NoErrorType == NoError \in Errors
  BY DEF NoError, Errors

LEMMA ErrorTypes ==
    ASSUME TypeOK, NEW k \in Kinds, NEW c \in Categories
    PROVE  /\ ErrorAfterFailure(k, c) \in Errors
           /\ ErrorAfterFailure(k, c).terminal \in BOOLEAN
  <1>1. error \in Errors
    BY DEF TypeOK
  <1>2. ErrorAfterFailure(k, c) \in Errors
    BY <1>1 DEF ErrorAfterFailure, Errors
  <1> QED  BY <1>2 DEF Errors

(* What an import does to the ledger.                                      *)
LEMMA ImportGrows ==
    ASSUME TypeOK, NEW g \in Nat, NEW K \in SUBSET SourceKinds,
           ImportGeneration(g, K)
    PROVE  /\ importedGeneration' \in Nat
           /\ requested' \in [Kinds -> Nat] /\ sourceGeneration' \in [Kinds -> Nat]
           /\ processed' = processed
           /\ due' \subseteq Kinds /\ due \subseteq due'
           /\ status' \in Statuses /\ error' \in Errors
           /\ \A k \in Kinds : \/ requested'[k] = requested[k] /\ sourceGeneration'[k] = sourceGeneration[k]
                               \/ /\ requested'[k] = requested[k] + 1
                                  /\ k \in due' /\ sourceGeneration'[k] = g
  <1>1. /\ importedGeneration \in Nat
        /\ requested \in [Kinds -> Nat] /\ sourceGeneration \in [Kinds -> Nat]
        /\ due \subseteq Kinds /\ status \in Statuses /\ error \in Errors
    BY DEF TypeOK
  <1>2. CASE importedGeneration >= g
    BY <1>1, <1>2 DEF ImportGeneration, work, outcome
  <1>3. CASE ~(importedGeneration >= g)
    <2>1. /\ importedGeneration' = g
          /\ requested' = [k \in Kinds |->
                IF k \in K THEN requested[k] + 1 ELSE requested[k]]
          /\ sourceGeneration' = [k \in Kinds |->
                IF k \in K THEN g ELSE sourceGeneration[k]]
          /\ due' = due \cup K
          /\ processed' = processed
      BY <1>3 DEF ImportGeneration
    <2>2. status' \in Statuses /\ error' \in Errors
      BY <1>1, <1>3, NoErrorType DEF ImportGeneration, outcome, Statuses
    <2>3. K \subseteq Kinds
      BY DEF Kinds
    <2> QED  BY <1>1, <2>1, <2>2, <2>3
  <1> QED  BY <1>2, <1>3

LEMMA InitTypes == Init => TypeOK
  <1> SUFFICES ASSUME Init PROVE TypeOK
    OBVIOUS
  <1>1. NoRun \in Runs
    BY DEF NoRun, Runs, Kinds
  <1>2. run \in [Workers -> Runs]
    BY <1>1 DEF Init
  <1>3. error \in Errors
    BY NoErrorType DEF Init
  <1>4. source \in [generation : Nat, pending : BOOLEAN,
                    readiness : {"none", "initialising", "ready", "abandoned"}]
    BY DEF Init
  <1>5. /\ requested \in [Kinds -> Nat] /\ processed \in [Kinds -> Nat]
        /\ sourceGeneration \in [Kinds -> Nat] /\ gaveUp \in [Kinds -> Nat]
        /\ \A k \in Kinds : processed[k] <= requested[k]
    BY DEF Init
  <1>6. due \subseteq Kinds /\ status \in Statuses
    BY DEF Init, Statuses
  <1> QED  BY <1>2, <1>3, <1>4, <1>5, <1>6 DEF Init, TypeOK

LEMMA EnvironmentTypes ==
    ASSUME TypeOK,
           \/ \E r \in {"initialising", "ready"} : Save(r)
           \/ \E r \in {"ready", "abandoned"} : SettleSave(r)
           \/ \E K \in SUBSET SourceKinds : Import(K)
           \/ Acknowledge \/ ExpireLease \/ LoseLease \/ Deliver \/ LoseJob
    PROVE  TypeOK'
  <1> USE DEF work, outcome, lease, history
  <1>1. CASE \E r \in {"initialising", "ready"} : Save(r)
    BY <1>1 DEF TypeOK, Save
  <1>2. CASE Acknowledge \/ \E r \in {"ready", "abandoned"} : SettleSave(r)
    <2>1. source' \in [generation : Nat, pending : BOOLEAN,
                       readiness : {"none", "initialising", "ready", "abandoned"}]
      <3>1. source \in [generation : Nat, pending : BOOLEAN,
                        readiness : {"none", "initialising", "ready", "abandoned"}]
        BY DEF TypeOK
      <3>2. CASE Acknowledge
        <4>1. PICK s : s = [source EXCEPT !.pending = FALSE]
          OBVIOUS
        <4> QED  BY <3>1, <3>2, <4>1 DEF Acknowledge
      <3>3. CASE \E r \in {"ready", "abandoned"} : SettleSave(r)
        <4>1. PICK r \in {"ready", "abandoned"} : SettleSave(r)
          BY <3>3
        <4>a. PICK p \in BOOLEAN : p = (r = "ready")
          OBVIOUS
        <4>2. PICK s : s = [source EXCEPT !.readiness = r, !.pending = p]
          OBVIOUS
        <4>3. source' = s
          BY <4>1, <4>2, <4>a, Zenon DEF SettleSave
        <4>4. s \in [generation : Nat, pending : BOOLEAN,
                     readiness : {"none", "initialising", "ready", "abandoned"}]
          BY <3>1, <4>2
        <4> QED  BY <4>3, <4>4
      <3> QED  BY <1>2, <3>2, <3>3
    <2>2. UNCHANGED <<work, outcome, lease, bound, jobs, run, history, stops>>
      BY <1>2 DEF Acknowledge, SettleSave
    <2> QED  BY <2>1, <2>2 DEF TypeOK
  <1>3. CASE \E K \in SUBSET SourceKinds : Import(K)
    <2>1. PICK K \in SUBSET SourceKinds :
             /\ ImportGeneration(source.generation, K)
             /\ UNCHANGED <<source, lease, bound, jobs, run, history, stops>>
      BY <1>3 DEF Import
    <2>2. source.generation \in Nat
      BY DEF TypeOK
    <2>3. /\ importedGeneration' \in Nat
          /\ requested' \in [Kinds -> Nat] /\ sourceGeneration' \in [Kinds -> Nat]
          /\ processed' = processed
          /\ due' \subseteq Kinds /\ status' \in Statuses /\ error' \in Errors
          /\ \A k \in Kinds : requested'[k] = requested[k] \/ requested'[k] = requested[k] + 1
      BY <2>1, <2>2, ImportGrows
    <2> QED  BY <2>1, <2>3 DEF TypeOK
  <1>4. CASE ExpireLease \/ LoseLease
    <2>1. leaseLive' = FALSE /\ stops' \in Nat
      BY <1>4 DEF TypeOK, ExpireLease, LoseLease
    <2>2. UNCHANGED <<source, work, outcome, leaseOwner, bound, jobs, run, history>>
      BY <1>4 DEF ExpireLease, LoseLease
    <2> QED  BY <2>1, <2>2 DEF TypeOK
  <1>5. CASE Deliver \/ LoseJob
    BY <1>5 DEF TypeOK, Deliver, LoseJob
  <1> QED  BY <1>1, <1>2, <1>3, <1>4, <1>5

(* What a run reports was requested, and stays within the kinds of work.   *)
LEMMA ReportTypes ==
    ASSUME TypeOK, SnapshotsAreOld, NEW w \in Workers, NEW k \in Kinds
    PROVE  /\ ProcessedBy(k, run[w]) \in [Kinds -> Nat]
           /\ \A j \in Kinds : ProcessedBy(k, run[w])[j] <= requested[j]
           /\ \A b : Reschedule(k, run[w], b) \subseteq Kinds
  <1>1. /\ processed \in [Kinds -> Nat] /\ requested \in [Kinds -> Nat]
        /\ \A j \in Kinds : processed[j] <= requested[j]
        /\ run[w] \in Runs /\ due \subseteq Kinds
    BY DEF TypeOK
  <1>2. run[w].requested[k] \in Nat /\ run[w].requested[k] <= requested[k]
    BY <1>1 DEF Runs, SnapshotsAreOld
  <1>3. \A b : Reschedule(k, run[w], b) \subseteq Kinds
    BY <1>1 DEF Reschedule, Schedule
  <1>4. PICK n \in Nat : /\ ProcessedBy(k, run[w]) = [processed EXCEPT ![k] = n]
                         /\ n <= requested[k]
    BY <1>1, <1>2 DEF ProcessedBy
  <1> QED  BY <1>1, <1>3, <1>4

LEMMA RunStepTypes ==
    ASSUME TypeOK, GenerationsAreSaved, SnapshotsAreOld,
           NEW w \in Workers, RunStep(w) \/ Crash(w)
    PROVE  TypeOK'
  <1>0. run' \in [Workers -> Runs]
    BY RunTypes
  <1> USE DEF work, outcome, lease, history
  <1>1. CASE \/ NotClaimed(w) \/ EnterSync(w) \/ SkipSync(w) \/ Decide(w)
             \/ SkipCleanup(w) \/ ObserveArticle(w) \/ ConfirmObserve(w)
             \/ Transition(w) \/ SkipObserve(w) \/ AbandonRun(w)
    <2>1. UNCHANGED <<source, work, outcome, lease, bound, jobs, history, stops>>
      BY <1>1 DEF NotClaimed, EnterSync, SkipSync, Decide, SkipCleanup,
                  ObserveArticle, ConfirmObserve, Transition, SkipObserve,
                  AbandonRun
    <2> QED  BY <1>0, <2>1 DEF TypeOK
  <1>2. CASE StartRun(w)
    BY <1>0, <1>2 DEF TypeOK, StartRun
  <1>3. CASE Bind(w)
    BY <1>0, <1>3 DEF TypeOK, Bind
  <1>4. CASE \E K \in SUBSET SourceKinds : WorkerImport(w, K)
    <2>1. PICK K \in SUBSET SourceKinds :
             /\ ImportGeneration(run[w].content, K)
             /\ UNCHANGED <<source, lease, bound, jobs, history, stops>>
      BY <1>4 DEF WorkerImport
    <2>2. run[w].content \in Nat
      BY DEF TypeOK, Runs
    <2>3. /\ importedGeneration' \in Nat
          /\ requested' \in [Kinds -> Nat] /\ sourceGeneration' \in [Kinds -> Nat]
          /\ processed' = processed
          /\ due' \subseteq Kinds /\ status' \in Statuses /\ error' \in Errors
          /\ \A k \in Kinds : requested'[k] = requested[k] \/ requested'[k] = requested[k] + 1
      BY <2>1, <2>2, ImportGrows
    <2> QED  BY <1>0, <2>1, <2>3 DEF TypeOK
  <1>5. CASE Claim(w)
    BY <1>0, <1>5 DEF TypeOK, Claim, Statuses
  <1>6. CASE FinishSync(w) \/ FinishCleanup(w) \/ FinishObserve(w)
    <2>1. PICK k \in Kinds : /\ processed' = ProcessedBy(k, run[w])
                             /\ due' = Reschedule(k, run[w], FALSE)
      BY <1>6 DEF FinishSync, FinishCleanup, FinishObserve, Kinds
    <2>2. /\ processed' \in [Kinds -> Nat] /\ due' \subseteq Kinds
          /\ \A j \in Kinds : processed'[j] <= requested[j]
      BY <2>1, ReportTypes
    <2>3. finishedContent' \in Nat
      BY <1>6 DEF FinishSync, FinishCleanup, FinishObserve, TypeOK, Runs
    <2>4. UNCHANGED <<source, importedGeneration, requested, sourceGeneration,
                      outcome, lease, bound, jobs, gaveUp, stops>>
      BY <1>6 DEF FinishSync, FinishCleanup, FinishObserve
    <2> QED  BY <1>0, <2>2, <2>3, <2>4 DEF TypeOK
  <1>7. CASE \E o \in BOOLEAN, h \in Hosting : RequestObservation(w, o, h)
    <2>1. PICK o \in BOOLEAN, h \in Hosting : RequestObservation(w, o, h)
      BY <1>7
    <2>2. /\ requested \in [Kinds -> Nat] /\ processed \in [Kinds -> Nat]
          /\ \A k \in Kinds : processed[k] <= requested[k]
          /\ due \subseteq Kinds
      BY DEF TypeOK
    <2>3. /\ requested' \in [Kinds -> Nat]
          /\ \A k \in Kinds : processed[k] <= requested'[k]
      BY <2>1, <2>2 DEF RequestObservation, Kinds
    <2>4. due' \subseteq Kinds
      BY <2>1, <2>2 DEF RequestObservation, Kinds
    <2>5. status' \in Statuses /\ error' \in Errors
      BY <2>1, NoErrorType DEF RequestObservation, Statuses
    <2>6. UNCHANGED <<source, importedGeneration, processed, sourceGeneration,
                      lease, bound, jobs, history, stops>>
      BY <2>1 DEF RequestObservation
    <2> QED  BY <1>0, <2>3, <2>4, <2>5, <2>6 DEF TypeOK
  <1>8. CASE ReportObserved(w) \/ CloseRun(w)
    <2>1. status' \in Statuses
      BY <1>8 DEF ReportObserved, CloseRun, Statuses, TypeOK
    <2>2. UNCHANGED <<source, work, error, lease, bound, jobs, history, stops>>
      BY <1>8 DEF ReportObserved, CloseRun
    <2> QED  BY <1>0, <2>1, <2>2 DEF TypeOK
  <1>9. CASE \E k \in Kinds : WaitRun(w, k)
    <2>1. PICK k \in Kinds : WaitRun(w, k)
      BY <1>9
    <2>2. status' \in Statuses /\ error' \in Errors /\ due' \subseteq Kinds
      <3>1. status' = "waiting" /\ error' = ErrorAfterWait(k)
            /\ due' = Reschedule(k, run[w], TRUE)
        BY <2>1 DEF WaitRun
      <3>2. error \in Errors
        BY DEF TypeOK
      <3> QED  BY <3>1, <3>2, NoErrorType, ReportTypes DEF ErrorAfterWait, Statuses
    <2>3. UNCHANGED <<source, importedGeneration, requested, processed,
                      sourceGeneration, lease, bound, jobs, history, stops>>
      BY <2>1 DEF WaitRun
    <2> QED  BY <1>0, <2>2, <2>3 DEF TypeOK
  <1>10. CASE \E k \in Kinds, c \in Categories : FailRun(w, k, c)
    <2>1. PICK k \in Kinds, c \in Categories : FailRun(w, k, c)
      BY <1>10
    <2>2. status' \in Statuses /\ error' \in Errors /\ due' \subseteq Kinds
      <3>1. error' = ErrorAfterFailure(k, c)
        BY <2>1 DEF FailRun
      <3>2. status' \in Statuses
        BY <2>1 DEF FailRun, Statuses
      <3>3. \E b : due' = Reschedule(k, run[w], b)
        BY <2>1 DEF FailRun
      <3> QED  BY <3>1, <3>2, <3>3, ErrorTypes, ReportTypes
    <2>3. gaveUp' \in [Kinds -> Nat]
      <3>1. gaveUp \in [Kinds -> Nat] /\ run[w].requested[k] \in Nat
        BY DEF TypeOK, Runs
      <3>2. gaveUp' = gaveUp \/ gaveUp' = [gaveUp EXCEPT ![k] = run[w].requested[k]]
        BY <2>1 DEF FailRun
      <3> QED  BY <3>1, <3>2
    <2>4. UNCHANGED <<source, importedGeneration, requested, processed,
                      sourceGeneration, lease, bound, jobs, finishedContent, stops>>
      BY <2>1 DEF FailRun
    <2> QED  BY <1>0, <2>2, <2>3, <2>4 DEF TypeOK
  <1>11. CASE Release(w)
    <2>1. /\ leaseOwner' \in Workers \cup Operators \cup {Nobody, Stopped}
          /\ leaseLive' \in BOOLEAN
      BY <1>11 DEF Release, TypeOK
    <2>2. UNCHANGED <<source, work, outcome, bound, jobs, history, stops>>
      BY <1>11 DEF Release
    <2> QED  BY <1>0, <2>1, <2>2 DEF TypeOK
  <1>12. CASE Crash(w)
    <2>1. /\ leaseOwner' \in Workers \cup Operators \cup {Nobody, Stopped}
          /\ stops' \in Nat
      BY <1>12 DEF Crash, TypeOK
    <2>2. UNCHANGED <<source, work, outcome, leaseLive, bound, jobs, history>>
      BY <1>12 DEF Crash
    <2> QED  BY <1>0, <2>1, <2>2 DEF TypeOK
  <1> QED
    BY <1>1, <1>2, <1>3, <1>4, <1>5, <1>6, <1>7, <1>8, <1>9, <1>10, <1>11, <1>12
       DEF RunStep

LEMMA AdminTypes ==
    ASSUME TypeOK, NEW o \in Operators, AdminLock(o) \/ AdminResume(o)
    PROVE  TypeOK'
  <1> USE DEF work, outcome, lease, history
  <1>1. CASE AdminLock(o)
    BY <1>1 DEF TypeOK, AdminLock
  <1>2. CASE AdminResume(o)
    <2>1. /\ requested \in [Kinds -> Nat] /\ processed \in [Kinds -> Nat]
          /\ \A k \in Kinds : processed[k] <= requested[k]
          /\ due \subseteq Kinds
      BY DEF TypeOK
    <2>2. /\ requested' \in [Kinds -> Nat]
          /\ \A k \in Kinds : processed[k] <= requested'[k]
      BY <1>2, <2>1 DEF AdminResume, Kinds
    <2>3. due' \subseteq Kinds
      BY <1>2, <2>1 DEF AdminResume, Schedule, Kinds
    <2>4. status' \in Statuses /\ error' \in Errors
      BY <1>2, NoErrorType DEF AdminResume, Statuses
    <2>5. UNCHANGED <<source, importedGeneration, processed, sourceGeneration,
                      bound, jobs, run, history, stops>>
          /\ leaseOwner' = Nobody /\ leaseLive' = FALSE
      BY <1>2 DEF AdminResume
    <2> QED  BY <2>2, <2>3, <2>4, <2>5 DEF TypeOK
  <1> QED  BY <1>1, <1>2

-----------------------------------------------------------------------------
(* The inductive invariant.                                                *)

\* A step that takes nothing off the schedule and reports nothing: requests
\* only arrive, and are due when they do; nobody becomes the owner; runs go
\* on or end.
LedgerGrows ==
    /\ source.generation <= source'.generation
    /\ \A k \in Kinds : /\ requested[k] <= requested'[k]
                        /\ requested'[k] # requested[k] => k \in due'
    /\ due \subseteq due'
    /\ UNCHANGED <<processed, finishedContent, gaveUp>>
    /\ \/ sourceGeneration'["sync"] = sourceGeneration["sync"]
       \/ /\ requested'["sync"] > requested["sync"]
          /\ sourceGeneration'["sync"] <= source'.generation
    /\ \A v \in Workers : leaseOwner' = v => leaseOwner = v
    /\ \A v \in Workers : run'[v] = run[v] \/ Follows(run[v], run'[v])

(* The numbers that the arguments below compare.                           *)
LEMMA Numbers ==
    ASSUME TypeOK
    PROVE  /\ source.generation \in Nat /\ finishedContent \in Nat
           /\ \A k \in Kinds : /\ requested[k] \in Nat /\ processed[k] \in Nat
                               /\ sourceGeneration[k] \in Nat
                               /\ processed[k] <= requested[k]
           /\ \A v \in Workers : /\ run[v].content \in Nat
                                 /\ \A k \in Kinds : run[v].requested[k] \in Nat
           /\ "sync" \in Kinds
  BY DEF TypeOK, Runs, Kinds

(* Such a step preserves the invariant.                                    *)
LEMMA GrowthKeepsInv ==
    ASSUME IndInv, TypeOK', LedgerGrows
    PROVE  IndInv'
  <1>1. TypeOK /\ TypeOK'
    BY DEF IndInv
  <1>2. /\ source.generation \in Nat /\ finishedContent \in Nat
        /\ \A k \in Kinds : /\ requested[k] \in Nat /\ processed[k] \in Nat
                            /\ sourceGeneration[k] \in Nat
                            /\ processed[k] <= requested[k]
        /\ \A v \in Workers : /\ run[v].content \in Nat
                              /\ \A k \in Kinds : run[v].requested[k] \in Nat
        /\ "sync" \in Kinds
    BY <1>1, Numbers
  <1>3. /\ source'.generation \in Nat
        /\ \A k \in Kinds : requested'[k] \in Nat /\ sourceGeneration'[k] \in Nat
        /\ \A v \in Workers : /\ run'[v].content \in Nat
                              /\ \A k \in Kinds : run'[v].requested[k] \in Nat
    BY <1>1 DEF TypeOK, Runs
  <1>4. NoRequestSwallowed'
    BY <1>2, <1>3 DEF IndInv, NoRequestSwallowed, LedgerGrows, Owed
  <1>5. SettledMeansCurrent'
    BY <1>2, <1>3 DEF IndInv, SettledMeansCurrent, LedgerGrows, Owed
  <1>6. GenerationsAreSaved'
    BY <1>2, <1>3 DEF IndInv, GenerationsAreSaved, LedgerGrows, Follows
  <1>7. SnapshotsAreOld'
    BY <1>2, <1>3 DEF IndInv, SnapshotsAreOld, LedgerGrows, Follows
  <1>8. HolderKnows'
    <2> SUFFICES ASSUME NEW v \in Workers, leaseOwner' = v, run'[v].pc \in Working,
                        NEW k \in Kinds
                 PROVE  /\ processed'[k] <= run'[v].requested[k]
                        /\ requested'[k] # run'[v].requested[k] => k \in due'
      BY DEF HolderKnows, Working
    <2>1. leaseOwner = v /\ run[v].pc \in Working
          /\ run'[v].requested = run[v].requested
      BY DEF LedgerGrows, Follows
    <2>2. /\ processed[k] <= run[v].requested[k]
          /\ requested[k] # run[v].requested[k] => k \in due
      BY <2>1 DEF IndInv, HolderKnows
    <2> QED  BY <2>1, <2>2 DEF LedgerGrows
  <1>9. DecidedCovers'
    <2> SUFFICES ASSUME NEW v \in Workers, run'[v].pc = "decided"
                 PROVE  \/ run'[v].content >= sourceGeneration'["sync"]
                        \/ requested'["sync"] > run'[v].requested["sync"]
      BY DEF DecidedCovers
    <2>1. run'[v] = run[v]
      BY DEF LedgerGrows, Follows
    <2>2. \/ run[v].content >= sourceGeneration["sync"]
          \/ requested["sync"] > run[v].requested["sync"]
      BY <2>1 DEF IndInv, DecidedCovers
    <2>3. run[v].requested["sync"] <= requested["sync"]
      BY <1>2 DEF IndInv, SnapshotsAreOld
    <2> QED  BY <1>2, <1>3, <2>1, <2>2, <2>3 DEF LedgerGrows
  <1> QED  BY <1>1, <1>4, <1>5, <1>6, <1>7, <1>8, <1>9 DEF IndInv

(* A claim: the new owner knows every request of the document.             *)
LEMMA ClaimKeepsInv ==
    ASSUME IndInv, TypeOK', NEW w \in Workers, Claim(w)
    PROVE  IndInv'
  <1> USE DEF work, history
  <1>1. TypeOK /\ run \in [Workers -> Runs]
    BY DEF IndInv, TypeOK
  <1>2. /\ \A k \in Kinds : requested[k] \in Nat /\ processed[k] <= requested[k]
        /\ "sync" \in Kinds
    BY <1>1, Numbers
  <1>3. PICK s \in Runs : /\ run' = [run EXCEPT ![w] = s]
                          /\ s.pc = "claimed" /\ s.requested = requested
                          /\ s.content = run[w].content
    BY <1>1, ClaimedRun
  <1>4. /\ run'[w] = s
        /\ \A v \in Workers \ {w} : run'[v] = run[v]
    BY <1>1, <1>3
  <1>5. leaseOwner' = w /\ UNCHANGED <<source, work, history>>
    BY DEF Claim
  <1>6. NoRequestSwallowed' /\ SettledMeansCurrent'
    BY <1>5 DEF IndInv, NoRequestSwallowed, SettledMeansCurrent, Owed
  <1>7. GenerationsAreSaved'
    BY <1>3, <1>4, <1>5 DEF IndInv, GenerationsAreSaved
  <1>8. SnapshotsAreOld'
    BY <1>2, <1>3, <1>4, <1>5 DEF IndInv, SnapshotsAreOld
  <1>9. HolderKnows'
    BY <1>2, <1>3, <1>4, <1>5 DEF HolderKnows
  <1>10. DecidedCovers'
    BY <1>3, <1>4, <1>5 DEF IndInv, DecidedCovers
  <1> QED  BY <1>6, <1>7, <1>8, <1>9, <1>10 DEF IndInv

(* A decision to finish: the run's content is that of the newest save.     *)
LEMMA DecideKeepsInv ==
    ASSUME IndInv, TypeOK', NEW w \in Workers, Decide(w)
    PROVE  IndInv'
  <1> USE DEF work, history, lease
  <1>1. TypeOK /\ run \in [Workers -> Runs] /\ Go(w, "decided")
    BY DEF IndInv, TypeOK, Decide
  <1>2. PICK s \in Runs : /\ run' = [run EXCEPT ![w] = s]
                          /\ s.pc = "decided" /\ s.content = run[w].content
                          /\ s.requested = run[w].requested
    BY <1>1, MovedRun
  <1>3. /\ run'[w] = s
        /\ \A v \in Workers \ {w} : run'[v] = run[v]
    BY <1>1, <1>2
  <1>4. UNCHANGED <<source, work, history, leaseOwner>>
    BY DEF Decide
  <1>5. s.content = source.generation /\ run[w].pc \in Working
    BY <1>2 DEF Decide, IsCurrent, Working
  <1>6. NoRequestSwallowed' /\ SettledMeansCurrent'
    BY <1>4 DEF IndInv, NoRequestSwallowed, SettledMeansCurrent, Owed
  <1>7. GenerationsAreSaved'
    BY <1>2, <1>3, <1>4 DEF IndInv, GenerationsAreSaved
  <1>8. SnapshotsAreOld'
    BY <1>2, <1>3, <1>4 DEF IndInv, SnapshotsAreOld
  <1>9. HolderKnows'
    BY <1>2, <1>3, <1>4, <1>5 DEF IndInv, HolderKnows
  <1>10. DecidedCovers'
    <2>1. source.generation \in Nat /\ sourceGeneration["sync"] \in Nat
          /\ sourceGeneration["sync"] <= source.generation
      BY <1>1, Numbers DEF IndInv, GenerationsAreSaved
    <2> QED  BY <1>3, <1>4, <1>5, <2>1 DEF IndInv, DecidedCovers
  <1> QED  BY <1>6, <1>7, <1>8, <1>9, <1>10 DEF IndInv

\* What finish(k) does to the document.
Finish(w, k) ==
    /\ Holds(w) /\ run[w].pc \in Working
    /\ processed' = ProcessedBy(k, run[w])
    /\ due' = Reschedule(k, run[w], FALSE)
    /\ UNCHANGED <<source, requested, sourceGeneration, leaseOwner, gaveUp>>
    /\ \/ k = "sync" /\ run[w].pc = "decided" /\ finishedContent' = run[w].content
       \/ k # "sync" /\ finishedContent' = finishedContent
    /\ \E s : Follows(run[w], s) /\ run' = [run EXCEPT ![w] = s]

(* A finished run reports what it knew of: what arrived later stays due,   *)
(* and its content is as new as what it reports.                           *)
LEMMA FinishKeepsInv ==
    ASSUME IndInv, TypeOK', NEW w \in Workers, NEW k \in Kinds, Finish(w, k)
    PROVE  IndInv'
  <1>1. TypeOK /\ run \in [Workers -> Runs] /\ processed \in [Kinds -> Nat]
    BY DEF IndInv, TypeOK
  <1>2. /\ source.generation \in Nat /\ finishedContent \in Nat
        /\ \A j \in Kinds : /\ requested[j] \in Nat /\ processed[j] \in Nat
                            /\ sourceGeneration[j] \in Nat
        /\ \A v \in Workers : /\ run[v].content \in Nat
                              /\ \A j \in Kinds : run[v].requested[j] \in Nat
        /\ "sync" \in Kinds
    BY <1>1, Numbers
  <1>3. PICK s : Follows(run[w], s) /\ run' = [run EXCEPT ![w] = s]
    BY DEF Finish
  <1>4. /\ run'[w] = s
        /\ \A v \in Workers \ {w} : run'[v] = run[v]
    BY <1>1, <1>3
  <1>5. /\ UNCHANGED <<source, requested, sourceGeneration, leaseOwner, gaveUp>>
        /\ leaseOwner = w /\ run[w].pc \in Working
    BY DEF Finish, Holds
  \* The run knows more than was processed, and the rest is due.
  <1>6. \A j \in Kinds : /\ processed[j] <= run[w].requested[j]
                         /\ requested[j] # run[w].requested[j] => j \in due
    BY <1>5 DEF IndInv, HolderKnows
  <1>7. processed' = [processed EXCEPT ![k] = run[w].requested[k]]
    <2>1. processed[k] \in Nat /\ run[w].requested[k] \in Nat
          /\ processed[k] <= run[w].requested[k]
      BY <1>2, <1>6
    <2>2. (IF processed[k] < run[w].requested[k] THEN run[w].requested[k]
                                                 ELSE processed[k])
          = run[w].requested[k]
      BY <2>1
    <2>3. processed' = [processed EXCEPT ![k] =
              IF processed[k] < run[w].requested[k] THEN run[w].requested[k]
                                                    ELSE processed[k]]
      BY <1>1 DEF Finish, ProcessedBy
    <2> QED  BY <2>2, <2>3
  <1>8. /\ processed'[k] = run[w].requested[k]
        /\ \A j \in Kinds \ {k} : processed'[j] = processed[j]
    BY <1>1, <1>7
  <1>9. /\ \A j \in Kinds \ {k} : j \in due' <=> j \in due
        /\ requested[k] # run[w].requested[k] => k \in due'
    BY <1>6 DEF Finish, Reschedule, Schedule
  <1>10. NoRequestSwallowed'
    BY <1>5, <1>8, <1>9, <1>2 DEF IndInv, NoRequestSwallowed, Owed
  <1>11. SettledMeansCurrent'
    <2>1. CASE k = "sync"
      <3>1. run[w].pc = "decided" /\ finishedContent' = run[w].content
        BY <2>1 DEF Finish
      <3>2. \/ run[w].content >= sourceGeneration["sync"]
            \/ requested["sync"] > run[w].requested["sync"]
        BY <3>1 DEF IndInv, DecidedCovers
      <3> QED  BY <1>5, <1>8, <2>1, <3>1, <3>2 DEF SettledMeansCurrent, Owed
    <2>2. CASE k # "sync"
      <3>1. finishedContent' = finishedContent
        BY <2>2 DEF Finish
      <3> QED  BY <1>2, <1>5, <1>8, <2>2, <3>1 DEF IndInv, SettledMeansCurrent, Owed
    <2> QED  BY <2>1, <2>2
  <1>12. GenerationsAreSaved'
    BY <1>3, <1>4, <1>5 DEF IndInv, GenerationsAreSaved, Follows
  <1>13. SnapshotsAreOld'
    <2>1. s \in Runs
      BY <1>3 DEF Follows
    <2>2. \A j \in Kinds : s.requested[j] \in Nat
      BY <2>1 DEF Runs
    <2> QED  BY <1>2, <1>3, <1>4, <1>5, <2>2 DEF IndInv, SnapshotsAreOld, Follows
  <1>14. HolderKnows'
    <2> SUFFICES ASSUME s.pc \in Working, NEW j \in Kinds
                 PROVE  /\ processed'[j] <= s.requested[j]
                        /\ requested[j] # s.requested[j] => j \in due'
      BY <1>4, <1>5 DEF HolderKnows, Working
    <2>1. s.requested = run[w].requested
      BY <1>3 DEF Follows
    <2> QED  BY <1>2, <1>6, <1>8, <1>9, <2>1
  <1>15. DecidedCovers'
    <2>1. s.pc # "decided"
      BY <1>3 DEF Follows
    <2> QED  BY <1>4, <1>5, <2>1 DEF IndInv, DecidedCovers
  <1> QED  BY <1>10, <1>11, <1>12, <1>13, <1>14, <1>15 DEF IndInv

\* What the error handler's checkpoints do to the document.
Trouble(w, k, again) ==
    /\ Holds(w) /\ run[w].pc \in Working
    /\ due' = Reschedule(k, run[w], again)
    /\ gaveUp' = IF again THEN gaveUp ELSE [gaveUp EXCEPT ![k] = run[w].requested[k]]
    /\ UNCHANGED <<source, requested, processed, sourceGeneration, leaseOwner, finishedContent>>
    /\ Leave(w)

(* A run that waits or fails schedules its work again, or gives up what it *)
(* knew of; what arrived later stays due.                                  *)
LEMMA TroubleKeepsInv ==
    ASSUME IndInv, TypeOK', NEW w \in Workers, NEW k \in Kinds,
           NEW again \in BOOLEAN, Trouble(w, k, again)
    PROVE  IndInv'
  <1>1. /\ TypeOK /\ run \in [Workers -> Runs] /\ gaveUp \in [Kinds -> Nat]
        /\ Leave(w)
    BY DEF IndInv, TypeOK, Trouble
  <1>2. /\ \A j \in Kinds : requested[j] \in Nat
        /\ \A v \in Workers : \A j \in Kinds : run[v].requested[j] \in Nat
        /\ "sync" \in Kinds
    BY <1>1, Numbers
  <1>3. PICK s : s = [NoRun EXCEPT !.pc = "releasing"]
    OBVIOUS
  <1>4. s.pc = "releasing" /\ s.content = 0 /\ \A j \in Kinds : s.requested[j] = 0
    BY <1>3 DEF NoRun, Kinds
  <1>5. run' = [run EXCEPT ![w] = s]
    BY <1>1, <1>3 DEF Leave
  <1>6. /\ run'[w] = s
        /\ \A v \in Workers \ {w} : run'[v] = run[v]
    BY <1>1, <1>5
  <1>7. /\ UNCHANGED <<source, requested, processed, sourceGeneration, leaseOwner,
                       finishedContent>>
        /\ leaseOwner = w /\ run[w].pc \in Working
    BY DEF Trouble, Holds
  <1>8. \A j \in Kinds : requested[j] # run[w].requested[j] => j \in due
    BY <1>7 DEF IndInv, HolderKnows
  <1>9. /\ \A j \in Kinds \ {k} : (j \in due' <=> j \in due) /\ gaveUp'[j] = gaveUp[j]
        /\ k \notin due' => gaveUp'[k] = requested[k]
    <2>1. \A j \in Kinds \ {k} : (j \in due' <=> j \in due)
      BY DEF Trouble, Reschedule, Schedule
    <2>2. \A j \in Kinds \ {k} : gaveUp'[j] = gaveUp[j]
      BY <1>1 DEF Trouble
    <2>3. ASSUME k \notin due'
          PROVE  ~again /\ requested[k] = run[w].requested[k]
      BY <1>8, <2>3 DEF Trouble, Reschedule, Schedule
    <2>4. ~again => gaveUp'[k] = run[w].requested[k]
      BY <1>1 DEF Trouble
    <2> QED  BY <2>1, <2>2, <2>3, <2>4
  <1>10. NoRequestSwallowed'
    BY <1>7, <1>9 DEF IndInv, NoRequestSwallowed, Owed
  <1>11. SettledMeansCurrent'
    BY <1>7 DEF IndInv, SettledMeansCurrent, Owed
  <1>12. GenerationsAreSaved'
    <2>1. source.generation \in Nat
      BY <1>1, Numbers
    <2> QED  BY <1>4, <1>6, <1>7, <2>1 DEF IndInv, GenerationsAreSaved
  <1>13. SnapshotsAreOld'
    BY <1>2, <1>4, <1>6, <1>7 DEF IndInv, SnapshotsAreOld
  <1>14. HolderKnows'
    BY <1>4, <1>6, <1>7 DEF HolderKnows, Working
  <1>15. DecidedCovers'
    BY <1>4, <1>6, <1>7 DEF IndInv, DecidedCovers
  <1> QED  BY <1>10, <1>11, <1>12, <1>13, <1>14, <1>15 DEF IndInv

(* The record, the importers, time and the queue only make the ledger grow. *)
LEMMA EnvironmentGrows ==
    ASSUME IndInv,
           \/ \E r \in {"initialising", "ready"} : Save(r)
           \/ \E r \in {"ready", "abandoned"} : SettleSave(r)
           \/ \E K \in SUBSET SourceKinds : Import(K)
           \/ Acknowledge \/ ExpireLease \/ LoseLease \/ Deliver \/ LoseJob
    PROVE  LedgerGrows
  <1> USE DEF work, lease, history
  <1>1. TypeOK
    BY DEF IndInv
  <1>2. /\ source.generation \in Nat
        /\ \A k \in Kinds : requested[k] \in Nat
        /\ "sync" \in Kinds
    BY <1>1, Numbers
  <1>3. CASE \/ \E r \in {"initialising", "ready"} : Save(r)
             \/ \E r \in {"ready", "abandoned"} : SettleSave(r)
             \/ Acknowledge
    <2>1. UNCHANGED <<work, lease, run, history>>
      BY <1>3 DEF Save, SettleSave, Acknowledge
    <2>2. source'.generation >= source.generation
      <3>1. source \in [generation : Nat, pending : BOOLEAN,
                        readiness : {"none", "initialising", "ready", "abandoned"}]
        BY <1>1 DEF TypeOK
      <3>2. CASE \E r \in {"initialising", "ready"} : Save(r)
        BY <1>2, <3>2 DEF Save
      <3>3. CASE \E r \in {"ready", "abandoned"} : SettleSave(r)
        <4>1. PICK r : SettleSave(r)
          BY <3>3
        <4>2. PICK p : p = (r = "ready")
          OBVIOUS
        <4>3. PICK s : s = [source EXCEPT !.readiness = r, !.pending = p]
          OBVIOUS
        <4>4. source' = s
          BY <4>1, <4>2, <4>3, Zenon DEF SettleSave
        <4>5. s.generation = source.generation
          BY <3>1, <4>3
        <4> QED  BY <1>2, <4>4, <4>5
      <3>4. CASE Acknowledge
        <4>1. PICK s : s = [source EXCEPT !.pending = FALSE]
          OBVIOUS
        <4>2. s.generation = source.generation
          BY <3>1, <4>1
        <4>3. source' = s
          BY <3>4, <4>1 DEF Acknowledge
        <4> QED  BY <1>2, <4>2, <4>3
      <3> QED  BY <1>3, <3>2, <3>3, <3>4
    <2> QED  BY <1>2, <2>1, <2>2 DEF LedgerGrows
  <1>4. CASE \E K \in SUBSET SourceKinds : Import(K)
    <2>1. PICK K \in SUBSET SourceKinds :
             /\ ImportGeneration(source.generation, K)
             /\ UNCHANGED <<source, lease, bound, jobs, run, history, stops>>
      BY <1>4 DEF Import
    <2>2. /\ processed' = processed /\ due \subseteq due'
          /\ \A k \in Kinds :
                \/ /\ requested'[k] = requested[k]
                   /\ sourceGeneration'[k] = sourceGeneration[k]
                \/ /\ requested'[k] = requested[k] + 1
                   /\ k \in due' /\ sourceGeneration'[k] = source.generation
      BY <1>1, <1>2, <2>1, ImportGrows
    <2> QED  BY <1>2, <2>1, <2>2 DEF LedgerGrows
  <1>5. CASE ExpireLease \/ LoseLease \/ Deliver \/ LoseJob
    <2>1. UNCHANGED <<source, work, leaseOwner, run, history>>
      BY <1>5 DEF ExpireLease, LoseLease, Deliver, LoseJob
    <2> QED  BY <1>2, <2>1 DEF LedgerGrows
  <1> QED  BY <1>3, <1>4, <1>5

(* So do an operator's commands: no operator is a worker.                  *)
LEMMA AdminGrows ==
    ASSUME IndInv, NEW o \in Operators, AdminLock(o) \/ AdminResume(o)
    PROVE  LedgerGrows
  <1> USE DEF work, lease, history
  <1>1. /\ requested \in [Kinds -> Nat] /\ source.generation \in Nat
        /\ "sync" \in Kinds
    BY Numbers DEF IndInv, TypeOK
  <1>2. UNCHANGED <<source, processed, sourceGeneration, run, history>>
    BY DEF AdminLock, AdminResume
  <1>3. leaseOwner' \notin Workers
    BY DEF AdminLock, AdminResume
  <1>4. /\ due \subseteq due'
        /\ \A k \in Kinds : /\ requested[k] <= requested'[k]
                            /\ requested'[k] # requested[k] => k \in due'
    BY <1>1 DEF AdminLock, AdminResume, Schedule
  <1> QED  BY <1>1, <1>2, <1>3, <1>4 DEF LedgerGrows

(* The quiet steps of a run make the ledger grow.                          *)
LEMMA QuietGrows ==
    ASSUME IndInv, NEW w \in Workers, Quiet(w)
    PROVE  LedgerGrows
  <1> USE DEF work, lease, history
  <1>1. TypeOK /\ GenerationsAreSaved /\ run \in [Workers -> Runs]
    BY DEF IndInv, TypeOK
  <1>2. /\ source.generation \in Nat
        /\ requested \in [Kinds -> Nat]
        /\ "sync" \in Kinds
    BY <1>1, Numbers DEF TypeOK
  <1>3. \A v \in Workers : run'[v] = run[v] \/ Follows(run[v], run'[v])
    BY <1>1, RunsFollow DEF Continues
  <1>4. \A v \in Workers : leaseOwner' = v => leaseOwner = v
    BY DEF Quiet, StartRun, WorkerImport, NotClaimed, EnterSync, SkipSync, Bind,
           RequestObservation, SkipCleanup, ObserveArticle, ConfirmObserve,
           Transition, SkipObserve, ReportObserved, CloseRun, AbandonRun, Release,
           Crash
  <1>5. UNCHANGED <<source, history>>
    BY DEF Quiet, StartRun, WorkerImport, NotClaimed, EnterSync, SkipSync, Bind,
           RequestObservation, SkipCleanup, ObserveArticle, ConfirmObserve,
           Transition, SkipObserve, ReportObserved, CloseRun, AbandonRun, Release,
           Crash
  <1>6. CASE \E K \in SUBSET SourceKinds : WorkerImport(w, K)
    <2>1. PICK K \in SUBSET SourceKinds : ImportGeneration(run[w].content, K)
      BY <1>6 DEF WorkerImport
    <2>2. run[w].content \in Nat /\ run[w].content <= source.generation
      BY <1>1, Numbers DEF GenerationsAreSaved
    <2>3. /\ processed' = processed /\ due \subseteq due'
          /\ \A k \in Kinds :
                \/ /\ requested'[k] = requested[k]
                   /\ sourceGeneration'[k] = sourceGeneration[k]
                \/ /\ requested'[k] = requested[k] + 1
                   /\ k \in due' /\ sourceGeneration'[k] = run[w].content
      BY <1>1, <2>1, <2>2, ImportGrows
    <2> QED  BY <1>2, <1>3, <1>4, <1>5, <2>2, <2>3 DEF LedgerGrows
  <1>7. CASE \E o \in BOOLEAN, h \in Hosting : RequestObservation(w, o, h)
    <2>1. /\ UNCHANGED <<processed, sourceGeneration>> /\ due \subseteq due'
          /\ \A k \in Kinds : /\ requested[k] <= requested'[k]
                              /\ requested'[k] # requested[k] => k \in due'
      BY <1>2, <1>7 DEF RequestObservation
    <2> QED  BY <1>2, <1>3, <1>4, <1>5, <2>1 DEF LedgerGrows
  <1>8. CASE UNCHANGED work
    BY <1>2, <1>3, <1>4, <1>5, <1>8 DEF LedgerGrows
  <1>9. \/ \E K \in SUBSET SourceKinds : WorkerImport(w, K)
        \/ \E o \in BOOLEAN, h \in Hosting : RequestObservation(w, o, h)
        \/ UNCHANGED work
    BY DEF Quiet, StartRun, NotClaimed, EnterSync, SkipSync, Bind,
           SkipCleanup, ObserveArticle, ConfirmObserve,
           Transition, SkipObserve, ReportObserved, CloseRun, AbandonRun, Release,
           Crash
  <1> QED  BY <1>6, <1>7, <1>8, <1>9

(* The reports of a run are finishes and troubles.                         *)
LEMMA ReportsFinish ==
    ASSUME TypeOK, GenerationsAreSaved, NEW w \in Workers,
           FinishSync(w) \/ FinishCleanup(w) \/ FinishObserve(w)
    PROVE  \E k \in Kinds : Finish(w, k)
  <1> USE DEF history
  <1>1. \E s : Follows(run[w], s) /\ run' = [run EXCEPT ![w] = s]
    <2>1. Go(w, "finished") \/ Go(w, "observed") \/ FinishCleanup(w)
      BY DEF FinishSync, FinishObserve
    <2>2. run[w].pc \in Working
      BY DEF FinishSync, FinishCleanup, FinishObserve, Working
    <2>3. CASE FinishCleanup(w)
      <3>1. ~Bind(w)
        BY <2>3 DEF FinishCleanup, Bind
      <3> QED  BY <2>3, <3>1, RunsFollow DEF Continues
    <2> QED  BY <2>1, <2>2, <2>3, MovedRunFollows
  <1>2. CASE FinishSync(w)
    BY <1>1, <1>2 DEF FinishSync, Finish, Working, Kinds, lease
  <1>3. CASE FinishCleanup(w)
    BY <1>1, <1>3 DEF FinishCleanup, Finish, Working, Kinds, lease
  <1>4. CASE FinishObserve(w)
    BY <1>1, <1>4 DEF FinishObserve, Finish, Working, Kinds, lease
  <1> QED  BY <1>2, <1>3, <1>4

LEMMA ErrorsAreTrouble ==
    ASSUME TypeOK, NEW w \in Workers, NEW k \in Kinds,
           WaitRun(w, k) \/ \E c \in Categories : FailRun(w, k, c)
    PROVE  \E again \in BOOLEAN : Trouble(w, k, again)
  <1> USE DEF history, lease
  <1>1. CASE WaitRun(w, k)
    <2>1. Trouble(w, k, TRUE)
      BY <1>1 DEF WaitRun, Trouble
    <2> QED  BY <2>1
  <1>2. CASE \E c \in Categories : FailRun(w, k, c)
    <2>1. PICK c \in Categories : FailRun(w, k, c)
      BY <1>2
    <2>2. PICK e : e = ErrorAfterFailure(k, c)
      OBVIOUS
    <2>3. e.terminal \in BOOLEAN
      BY <2>2, ErrorTypes
    <2>4. Trouble(w, k, ~e.terminal)
      BY <2>1, <2>2, <2>3 DEF FailRun, Trouble
    <2> QED  BY <2>3, <2>4
  <1> QED  BY <1>1, <1>2

-----------------------------------------------------------------------------
(* The theorems.                                                           *)

LEMMA InitInv == Init => IndInv
  <1> SUFFICES ASSUME Init PROVE IndInv
    OBVIOUS
  <1>1. TypeOK
    BY InitTypes
  <1>2. \A w \in Workers : /\ run[w].content = 0 /\ run[w].pc = "idle"
                           /\ \A k \in Kinds : run[w].requested[k] = 0
    BY DEF Init, NoRun
  <1>3. /\ \A k \in Kinds : requested[k] = 0 /\ processed[k] = 0
        /\ sourceGeneration["sync"] = 0 /\ finishedContent = 0 /\ source.generation = 0
    BY DEF Init, Kinds
  <1>4. NoRequestSwallowed
    BY <1>3 DEF NoRequestSwallowed, Owed
  <1>5. SettledMeansCurrent /\ GenerationsAreSaved
    BY <1>2, <1>3 DEF SettledMeansCurrent, GenerationsAreSaved
  <1>6. SnapshotsAreOld
    BY <1>2, <1>3 DEF SnapshotsAreOld
  <1>7. HolderKnows /\ DecidedCovers
    BY <1>2 DEF HolderKnows, DecidedCovers, Working
  <1> QED  BY <1>1, <1>4, <1>5, <1>6, <1>7 DEF IndInv

LEMMA NextTypes == IndInv /\ [Next]_vars => TypeOK'
  <1> SUFFICES ASSUME IndInv, [Next]_vars PROVE TypeOK'
    OBVIOUS
  <1>1. TypeOK /\ GenerationsAreSaved /\ SnapshotsAreOld
    BY DEF IndInv
  <1>2. CASE \E w \in Workers : RunStep(w) \/ Crash(w)
    BY <1>1, <1>2, RunStepTypes
  <1>3. CASE \E o \in Operators : AdminLock(o) \/ AdminResume(o)
    BY <1>1, <1>3, AdminTypes
  <1>4. CASE UNCHANGED vars
    BY <1>1, <1>4 DEF TypeOK, vars, work, outcome, lease, history
  <1> QED  BY <1>1, <1>2, <1>3, <1>4, EnvironmentTypes DEF Next

LEMMA NextInv == IndInv /\ [Next]_vars => IndInv'
  <1> SUFFICES ASSUME IndInv, [Next]_vars PROVE IndInv'
    OBVIOUS
  <1>1. TypeOK /\ GenerationsAreSaved /\ TypeOK'
    BY NextTypes DEF IndInv
  <1>2. ASSUME NEW w \in Workers, RunStep(w) \/ Crash(w) PROVE IndInv'
    <2>1. CASE Quiet(w)
      BY <1>1, <2>1, QuietGrows, GrowthKeepsInv
    <2>2. CASE Claim(w)
      BY <1>1, <2>2, ClaimKeepsInv
    <2>3. CASE Decide(w)
      BY <1>1, <2>3, DecideKeepsInv
    <2>4. CASE FinishSync(w) \/ FinishCleanup(w) \/ FinishObserve(w)
      BY <1>1, <2>4, ReportsFinish, FinishKeepsInv
    <2>5. CASE \/ \E k \in Kinds : WaitRun(w, k)
               \/ \E k \in Kinds, c \in Categories : FailRun(w, k, c)
      <3>1. PICK k \in Kinds : WaitRun(w, k) \/ \E c \in Categories : FailRun(w, k, c)
        BY <2>5
      <3>2. PICK again \in BOOLEAN : Trouble(w, k, again)
        BY <1>1, <3>1, ErrorsAreTrouble
      <3> QED  BY <1>1, <3>2, TroubleKeepsInv
    <2> QED  BY <1>2, <2>1, <2>2, <2>3, <2>4, <2>5 DEF RunStep, Quiet
  <1>3. CASE \E o \in Operators : AdminLock(o) \/ AdminResume(o)
    BY <1>1, <1>3, AdminGrows, GrowthKeepsInv
  <1>4. CASE UNCHANGED vars
    <2>1. LedgerGrows
      <3>1. UNCHANGED <<source, work, lease, run, history>>
        BY <1>4 DEF vars
      <3>2. source.generation \in Nat /\ \A k \in Kinds : requested[k] \in Nat
        BY <1>1, Numbers
      <3> QED  BY <3>1, <3>2 DEF LedgerGrows, work, lease, history
    <2> QED  BY <1>1, <2>1, GrowthKeepsInv
  <1> QED  BY <1>1, <1>2, <1>3, <1>4, EnvironmentGrows, GrowthKeepsInv DEF Next

LEMMA InvHolds == Spec => []IndInv
  BY InitInv, NextInv, PTL DEF Spec

(* Every reachable state has the declared types, and no kind of work has   *)
(* more processed than requested.                                          *)
THEOREM TypesCorrect == Spec => []TypeOK
  <1>1. IndInv => TypeOK
    BY DEF IndInv
  <1> QED  BY <1>1, InvHolds, PTL

(* A request that no run has finished is scheduled, or was given up: what  *)
(* arrives while a run works stays due when the run finishes, waits or     *)
(* fails, whatever other workers, crashes and operators do.                *)
THEOREM NoRequestIsSwallowed == Spec => []NoRequestSwallowed
  <1>1. IndInv => NoRequestSwallowed
    BY DEF IndInv
  <1> QED  BY <1>1, InvHolds, PTL

(* When the ledger owes no sync, the sync that it last accepted as         *)
(* finished had read content as new as the newest generation that asked    *)
(* for one: no run reports the request of a save newer than its record.    *)
(* What Figshare then has is a question of FigshareRemote.                 *)
THEOREM SettledIsCurrent == Spec => []SettledMeansCurrent
  <1>1. IndInv => SettledMeansCurrent
    BY DEF IndInv
  <1> QED  BY <1>1, InvHolds, PTL

=============================================================================
