------------------------------ MODULE SyncWork ------------------------------
(***************************************************************************)
(* The work ledger of one record's synchronisation document: how imports,  *)
(* the dispatcher, workers and an operator share it.  A worker claims the  *)
(* document under a lease, works from a snapshot of what was requested     *)
(* when it claimed, and reports each kind of work with a checkpoint that   *)
(* only the holder of an unexpired lease may write.  Imports change the    *)
(* ledger at any time, without the lease.                                  *)
(*                                                                         *)
(* Times are abstracted: due holds the kinds of work whose dueAt is set,   *)
(* and whenever the code compares a dueAt with the clock it may or may not *)
(* have been reached; a lease is live until an action expires it.          *)
(*                                                                         *)
(* What Figshare has is not here: a run's updates are sent outside the     *)
(* ledger, and one can be skipped or arrive when the lease is long lost    *)
(* (module FigshareRemote).  This module says what the ledger accepts as   *)
(* finished, and of which content of the record.                           *)
(***************************************************************************)
EXTENDS Integers, FiniteSets

CONSTANTS
    Workers,         \* processes that can run Figshare-SyncRecord jobs
    Operators,       \* administrators that can run commands on the record
    MaxAttempts,     \* processing.maxAttempts
    SourceKinds,     \* the kinds of work a post-save hook can request
    Hosting,         \* whether articles have hosted files: subset of BOOLEAN
    Categories,      \* the classes of errors a run can meet
    MaxGeneration,   \* bound: saves of the record
    MaxRequests,     \* bound: requests of each kind
    MaxJobs,         \* bound: undelivered queue jobs
    MaxStops         \* bound: crashes, lost leases and lost deliveries

ASSUME AttemptsAssumption == MaxAttempts \in Nat \ {0}
ASSUME BoundsAssumption ==
    /\ MaxGeneration \in Nat /\ MaxRequests \in Nat
    /\ MaxJobs \in Nat /\ MaxStops \in Nat

Kinds == {"sync", "cleanup", "observe"}
Statuses == {"queued", "running", "waiting", "retrying", "synced", "failed",
             "repair_required"}

\* Errors that a retry cannot cure, and those that count attempts.
TerminalCategories == {"repair", "rejected"}

ASSUME ChoicesAssumption ==
    /\ SourceKinds \subseteq {"sync", "cleanup"}
    /\ Hosting \subseteq BOOLEAN
    /\ Categories \subseteq TerminalCategories \cup {"transient"}

Nobody == "nobody"     \* leaseOwner is null
Stopped == "stopped"   \* the lease of a run that no longer exists

ASSUME OwnersAssumption ==
    /\ Nobody \notin Workers \cup Operators
    /\ Stopped \notin Workers \cup Operators
    /\ Workers \cap Operators = {}

VARIABLES
    source,            \* the record's intent: generation, readiness, pending
    importedGeneration, requested, processed, due, sourceGeneration,
    status, error,     \* the reported outcome
    leaseOwner, leaseLive,
    bound,             \* the document has an article identity
    jobs,              \* queue jobs waiting for a worker
    run,               \* per worker: the run it executes
    finishedContent,   \* history: the content the last finished sync worked on
    gaveUp,            \* history: requests covered by a terminal failure
    stops              \* crashes, lost leases and lost deliveries so far

work == <<importedGeneration, requested, processed, due, sourceGeneration>>
outcome == <<status, error>>
lease == <<leaseOwner, leaseLive>>
history == <<finishedContent, gaveUp>>
vars == <<source, work, outcome, lease, bound, jobs, run, history, stops>>

NoError == [kind |-> "none", category |-> "none", count |-> 0,
            terminal |-> FALSE]

\* A worker that is not running anything.
NoRun == [pc |-> "idle", content |-> 0, kind |-> "sync", owed |-> FALSE,
          requested |-> [k \in Kinds |-> 0], due |-> {}]

-----------------------------------------------------------------------------
(* What the document says.                                                 *)

\* nextActionAt, the earliest dueAt, is not null.
SomethingScheduled == due # {}

\* The work of kind k is scheduled, or is not.
Schedule(k, when) == IF when THEN due \cup {k} ELSE due \ {k}

\* Mutation: only a released lease can be claimed.
ClaimableIfReleased == leaseOwner = Nobody

\* The filter of claim and of the operator's lock: leaseUntil has passed.
Claimable == ~leaseLive

\* Mutation: checkpoints match the document whoever holds it.
HoldsAnyway(w) == TRUE

\* The filter of every checkpoint: the owner of an unexpired lease.
Holds(w) == leaseOwner = w /\ leaseLive

\* The part of assertCurrent that compares the run with the record.
IsCurrent(w) ==
    /\ source.readiness # "initialising"
    /\ source.generation = run[w].content

\* Requests that no run has finished.
Owed(k) == requested[k] > processed[k]

\* Mutation: a report of kind k reschedules it whatever arrived meanwhile.
RescheduleAlways(k, r, when) == Schedule(k, when)

\* Finish, wait and failure touch dueAt only if no request arrived in the run.
Reschedule(k, r, when) ==
    IF requested[k] = r.requested[k] THEN Schedule(k, when) ELSE due

\* Mutation: the run reports whatever is requested by now as processed.
ProcessedNow(k, r) == [processed EXCEPT ![k] = requested[k]]

\* Mutation: each finished run counts as one processed request.
ProcessedOneMore(k, r) == [processed EXCEPT ![k] = @ + 1]

\* finish(k): what was requested when the run claimed the document.
ProcessedBy(k, r) ==
    [processed EXCEPT ![k] = IF @ < r.requested[k] THEN r.requested[k] ELSE @]

\* A terminal sync failure stays visible while its request is unfinished.
UnresolvedSyncFailure == error.terminal /\ error.kind = "sync" /\ Owed("sync")

\* The error after a wait of kind k.
ErrorAfterWait(k) ==
    IF ~UnresolvedSyncFailure /\ error.kind = k THEN NoError ELSE error

\* The error after a failure of kind k; its count is compared with
\* MaxAttempts only, so it stops there.
ErrorAfterFailure(k, category) ==
    LET again == error.category = category /\ error.kind = k
        count == IF ~again THEN 1
                 ELSE IF error.count < MaxAttempts THEN error.count + 1
                 ELSE MaxAttempts
    IN  [kind |-> k, category |-> category, count |-> count,
         terminal |-> category \in TerminalCategories \/ count = MaxAttempts]

-----------------------------------------------------------------------------
Init ==
    /\ source = [generation |-> 0, readiness |-> "none", pending |-> FALSE]
    /\ importedGeneration = 0
    /\ requested = [k \in Kinds |-> 0]
    /\ processed = [k \in Kinds |-> 0]
    /\ due = {}
    /\ sourceGeneration = [k \in Kinds |-> 0]
    /\ status = "queued"
    /\ error = NoError
    /\ leaseOwner = Nobody /\ leaseLive = FALSE
    /\ bound = FALSE
    /\ jobs = 0
    /\ run = [w \in Workers |-> NoRun]
    /\ finishedContent = 0
    /\ gaveUp = [k \in Kinds |-> 0]
    /\ stops = 0

-----------------------------------------------------------------------------
(* The record (module SourceIntent has the protocol behind it).            *)

Save(readiness) ==
    /\ source.generation < MaxGeneration
    /\ source' = [generation |-> source.generation + 1,
                  readiness |-> readiness, pending |-> TRUE]
    /\ UNCHANGED <<work, outcome, lease, bound, jobs, run, history, stops>>

SettleSave(readiness) ==
    /\ source.readiness = "initialising"
    /\ source' = [source EXCEPT !.readiness = readiness,
                                !.pending = readiness = "ready"]
    /\ UNCHANGED <<work, outcome, lease, bound, jobs, run, history, stops>>

(* store.importSource with the policies K of generation g.                 *)
ImportGeneration(g, K) ==
    IF importedGeneration >= g
      THEN UNCHANGED <<work, outcome>>
      ELSE /\ importedGeneration' = g
           /\ requested' = [k \in Kinds |->
                 IF k \in K THEN requested[k] + 1 ELSE requested[k]]
           /\ sourceGeneration' = [k \in Kinds |->
                 IF k \in K THEN g ELSE sourceGeneration[k]]
           /\ due' = due \cup K
           /\ IF status \in {"failed", "synced"}
                THEN status' = "queued" /\ error' = NoError
                ELSE UNCHANGED outcome
           /\ UNCHANGED processed

\* The dispatcher or the wake-up after a save imports the current intent.
Import(K) ==
    /\ source.readiness = "ready" /\ source.pending
    /\ importedGeneration < source.generation
    /\ \A k \in K : requested[k] < MaxRequests
    /\ ImportGeneration(source.generation, K)
    /\ UNCHANGED <<source, lease, bound, jobs, run, history, stops>>

\* An importer acknowledges the generation it imported.
Acknowledge ==
    /\ source.readiness = "ready" /\ source.pending
    /\ importedGeneration = source.generation
    /\ source' = [source EXCEPT !.pending = FALSE]
    /\ UNCHANGED <<work, outcome, lease, bound, jobs, run, history, stops>>

-----------------------------------------------------------------------------
(* Time and deliveries.                                                    *)

\* A lease nobody renews: its holder stopped, or is an operator's command.
ExpireLease ==
    /\ leaseLive /\ leaseOwner \in Operators \cup {Stopped}
    /\ leaseLive' = FALSE
    /\ UNCHANGED <<source, work, outcome, leaseOwner, bound, jobs, run, history,
                   stops>>

\* A running worker stalls past its lease.
LoseLease ==
    /\ leaseLive /\ leaseOwner \in Workers
    /\ stops < MaxStops
    /\ stops' = stops + 1
    /\ leaseLive' = FALSE
    /\ UNCHANGED <<source, work, outcome, leaseOwner, bound, jobs, run, history>>

\* dispatchFigshare finds due work and sends a job, or the wake-up after a
\* save schedules one.  The dispatch cooldown only spaces the jobs out.
Deliver ==
    /\ SomethingScheduled
    /\ jobs < MaxJobs
    /\ jobs' = jobs + 1
    /\ UNCHANGED <<source, work, outcome, lease, bound, run, history, stops>>

LoseJob ==
    /\ jobs > 0 /\ stops < MaxStops
    /\ jobs' = jobs - 1
    /\ stops' = stops + 1
    /\ UNCHANGED <<source, work, outcome, lease, bound, run, history>>

-----------------------------------------------------------------------------
(* A run of the worker.                                                    *)

Go(w, pc) == run' = [run EXCEPT ![w].pc = pc]

\* Nothing of the run matters any more but its lease.
Leave(w) == run' = [run EXCEPT ![w] = [NoRun EXCEPT !.pc = "releasing"]]

\* The job is taken and the record read.  An intent that is not pending and
\* ready in what was read is not imported.
StartRun(w) ==
    /\ run[w].pc = "idle" /\ jobs > 0
    /\ jobs' = jobs - 1
    /\ run' = [run EXCEPT
          ![w].pc = IF source.pending /\ source.readiness = "ready"
                      THEN "read" ELSE "imported",
          ![w].content = source.generation]
    /\ UNCHANGED <<source, work, outcome, lease, bound, history, stops>>

\* importRecordIntent on the record that was read.
WorkerImport(w, K) ==
    /\ run[w].pc = "read"
    /\ \A k \in K : requested[k] < MaxRequests
    /\ ImportGeneration(run[w].content, K)
    /\ Go(w, "imported")
    /\ UNCHANGED <<source, lease, bound, jobs, history, stops>>

\* claim: an expired or released lease, and something due.  The run begins
\* with the first kind that is due.
Claim(w) ==
    /\ run[w].pc = "imported"
    /\ Claimable /\ SomethingScheduled
    /\ leaseOwner' = w /\ leaseLive' = TRUE
    /\ status' = "running"
    /\ \E first \in due :
          run' = [run EXCEPT ![w].pc = "claimed", ![w].requested = requested,
                             ![w].due = due, ![w].kind = first]
    /\ UNCHANGED <<source, work, error, bound, jobs, history, stops>>

\* The document is claimed already, or nothing in it is due yet.
NotClaimed(w) ==
    /\ run[w].pc = "imported"
    /\ run' = [run EXCEPT ![w] = NoRun]
    /\ UNCHANGED <<source, work, outcome, lease, bound, jobs, history, stops>>

\* due(k) of the snapshot is evaluated during the run: a deadline that was in
\* the future at the claim may have passed by then.
DueInRun(w, k) == k \in run[w].due

\* The first assertCurrent of the sync phase.
EnterSync(w) ==
    /\ run[w].pc = "claimed" /\ DueInRun(w, "sync")
    /\ Holds(w) /\ IsCurrent(w)
    /\ run' = [run EXCEPT ![w].pc = "sync", ![w].kind = "sync"]
    /\ UNCHANGED <<source, work, outcome, lease, bound, jobs, history, stops>>

SkipSync(w) ==
    /\ run[w].pc = "claimed"
    /\ Go(w, "cleanup")
    /\ UNCHANGED <<source, work, outcome, lease, bound, jobs, history, stops>>

\* A checkpoint stores the article identity.
Bind(w) ==
    /\ run[w].pc = "sync" /\ Holds(w) /\ ~bound
    /\ bound' = TRUE
    /\ UNCHANGED <<source, work, outcome, lease, jobs, run, history, stops>>

\* The calls that bring the content to Figshare have been answered, and the last
\* assertCurrent precedes the publication decision.
Decide(w) ==
    /\ run[w].pc = "sync" /\ bound
    /\ Holds(w) /\ IsCurrent(w)
    /\ Go(w, "decided")
    /\ UNCHANGED <<source, work, outcome, lease, bound, jobs, history, stops>>

\* finish('sync')
FinishSync(w) ==
    /\ run[w].pc = "decided" /\ Holds(w)
    /\ processed' = ProcessedBy("sync", run[w])
    /\ due' = Reschedule("sync", run[w], FALSE)
    /\ finishedContent' = run[w].content
    /\ Go(w, "finished")
    /\ UNCHANGED <<source, importedGeneration, requested, sourceGeneration,
                   outcome, lease, bound, jobs, gaveUp, stops>>

\* The next checkpoint reports the outcome and asks for an observation, and
\* for a cleanup if a hosted file is desired.
RequestObservation(w, observed, hosted) ==
    /\ run[w].pc = "finished" /\ Holds(w)
    /\ requested["observe"] < MaxRequests
    /\ hosted => requested["cleanup"] < MaxRequests
    /\ status' = IF observed THEN "synced" ELSE "waiting"
    /\ error' = NoError
    /\ requested' = [requested EXCEPT !["observe"] = @ + 1,
                                      !["cleanup"] = IF hosted THEN @ + 1 ELSE @]
    /\ due' = due \cup {"observe"} \cup IF hosted THEN {"cleanup"} ELSE {}
    /\ Go(w, "cleanup")
    /\ UNCHANGED <<source, importedGeneration, processed, sourceGeneration,
                   lease, bound, jobs, history, stops>>

FinishCleanup(w) ==
    /\ run[w].pc = "cleanup" /\ DueInRun(w, "cleanup") /\ Holds(w)
    /\ processed' = ProcessedBy("cleanup", run[w])
    /\ due' = Reschedule("cleanup", run[w], FALSE)
    /\ run' = [run EXCEPT ![w].pc = "observe",
                          ![w].kind = IF bound THEN "cleanup" ELSE @]
    /\ UNCHANGED <<source, importedGeneration, requested, sourceGeneration,
                   outcome, lease, bound, jobs, history, stops>>

SkipCleanup(w) ==
    /\ run[w].pc = "cleanup"
    /\ Go(w, "observe")
    /\ UNCHANGED <<source, work, outcome, lease, bound, jobs, history, stops>>

\* The article is read and a checkpoint stores what was seen.  The run keeps
\* the document of that checkpoint for the test below.
ObserveArticle(w) ==
    /\ run[w].pc = "observe" /\ bound /\ DueInRun(w, "observe") /\ Holds(w)
    /\ run' = [run EXCEPT ![w].pc = "observing", ![w].kind = "observe",
                          ![w].owed = Owed("sync")]
    /\ UNCHANGED <<source, work, outcome, lease, bound, jobs, history, stops>>

\* The record is read again: no pending save, and no sync owed in the
\* document the run kept.
ConfirmObserve(w) ==
    /\ run[w].pc = "observing" /\ Holds(w)
    /\ ~(source.pending /\ source.readiness # "abandoned")
    /\ ~run[w].owed
    /\ run' = [run EXCEPT ![w].pc = "confirmed", ![w].content = source.generation]
    /\ UNCHANGED <<source, work, outcome, lease, bound, jobs, history, stops>>

\* The workflow transition, written with the record version that was read.
\* The ownership test before it is not part of that write.
Transition(w) ==
    /\ run[w].pc = "confirmed"
    /\ source.generation = run[w].content
    /\ Go(w, "transitioned")
    /\ UNCHANGED <<source, work, outcome, lease, bound, jobs, history, stops>>

\* finish('observe'), with the transition or without one to make.
FinishObserve(w) ==
    /\ run[w].pc \in {"confirmed", "transitioned"} /\ Holds(w)
    /\ processed' = ProcessedBy("observe", run[w])
    /\ due' = Reschedule("observe", run[w], FALSE)
    /\ Go(w, "observed")
    /\ UNCHANGED <<source, importedGeneration, requested, sourceGeneration,
                   outcome, lease, bound, jobs, history, stops>>

\* Nothing to observe is due.  Without an article the run returns here: an
\* observation is only ever requested once there is one.
SkipObserve(w) ==
    /\ run[w].pc = "observe"
    /\ IF bound THEN Go(w, "closing") ELSE Leave(w)
    /\ UNCHANGED <<source, work, outcome, lease, bound, jobs, history, stops>>

\* The checkpoint after finish('observe').
ReportObserved(w) ==
    /\ run[w].pc = "observed" /\ Holds(w)
    /\ status' = "synced"
    /\ Go(w, "closing")
    /\ UNCHANGED <<source, work, error, lease, bound, jobs, history, stops>>

\* The last checkpoint: a run that reported nothing does not stay running.
CloseRun(w) ==
    /\ run[w].pc = "closing" /\ (status = "running" => Holds(w))
    /\ status' = IF status # "running" THEN status
                 ELSE IF SomethingScheduled THEN "waiting" ELSE "synced"
    /\ Leave(w)
    /\ UNCHANGED <<source, work, error, lease, bound, jobs, history, stops>>

\* The points of a run where a wait or an error can be raised: remote calls,
\* reads of the record, and checkpoints, which may fail for reasons of their own.
Working == {"claimed", "sync", "decided", "finished", "cleanup", "observe",
            "observing", "confirmed", "transitioned", "observed", "closing"}

\* The kinds of work it can be attributed to: that of the last phase entered,
\* or of the phase the run enters next.
KindAt(w) ==
    LET pc == run[w].pc
        next == CASE pc = "claimed" -> {"sync"}
                  [] pc \in {"cleanup", "observe"} /\ bound -> {pc}
                  [] OTHER -> {}
    IN  {run[w].kind} \cup {k \in next : DueInRun(w, k)}

\* The error handler's wait(reason).
WaitRun(w, k) ==
    /\ run[w].pc \in Working /\ Holds(w)
    /\ k \in KindAt(w)
    /\ status' = "waiting"
    /\ error' = ErrorAfterWait(k)
    /\ due' = Reschedule(k, run[w], TRUE)
    /\ Leave(w)
    /\ UNCHANGED <<source, importedGeneration, requested, processed,
                   sourceGeneration, lease, bound, jobs, history, stops>>

\* The error handler's failure checkpoint: retried later, or terminal.
FailRun(w, k, category) ==
    /\ run[w].pc \in Working /\ Holds(w)
    /\ k \in KindAt(w)
    /\ LET e == ErrorAfterFailure(k, category)
       IN  /\ error' = e
           /\ status' = IF ~e.terminal THEN "retrying"
                        ELSE IF category = "repair" THEN "repair_required"
                        ELSE "failed"
           /\ due' = Reschedule(k, run[w], ~e.terminal)
           /\ gaveUp' = IF e.terminal
                          THEN [gaveUp EXCEPT ![k] = run[w].requested[k]]
                          ELSE gaveUp
    /\ Leave(w)
    /\ UNCHANGED <<source, importedGeneration, requested, processed,
                   sourceGeneration, lease, bound, jobs, finishedContent, stops>>

\* A checkpoint throws because the lease is gone, or the error handler's own
\* checkpoint fails: nothing is written.
AbandonRun(w) ==
    /\ run[w].pc \in Working
    /\ Leave(w)
    /\ UNCHANGED <<source, work, outcome, lease, bound, jobs, history, stops>>

\* release matches the owner only; the lease may be expired or another's.
Release(w) ==
    /\ run[w].pc = "releasing"
    /\ IF leaseOwner = w THEN leaseOwner' = Nobody /\ leaseLive' = FALSE
                         ELSE UNCHANGED lease
    /\ run' = [run EXCEPT ![w] = NoRun]
    /\ UNCHANGED <<source, work, outcome, bound, jobs, history, stops>>

\* The process stops; its lease, if it has one, is nobody's to renew.
Crash(w) ==
    /\ run[w].pc # "idle" /\ stops < MaxStops
    /\ stops' = stops + 1
    /\ leaseOwner' = IF leaseOwner = w THEN Stopped ELSE leaseOwner
    /\ run' = [run EXCEPT ![w] = NoRun]
    /\ UNCHANGED <<source, work, outcome, leaseLive, bound, jobs, history>>

-----------------------------------------------------------------------------
(* figshareAdmin: locks the document like a worker, but needs nothing due. *)

AdminLock(o) ==
    /\ Claimable
    /\ leaseOwner' = o /\ leaseLive' = TRUE
    /\ UNCHANGED <<source, work, outcome, bound, jobs, run, history, stops>>

AdminResume(o) ==
    /\ Holds(o)
    /\ sourceGeneration["sync"] > 0
    /\ requested["sync"] < MaxRequests
    /\ status' = "queued" /\ error' = NoError
    /\ requested' = [requested EXCEPT !["sync"] = @ + 1]
    /\ due' = Schedule("sync", TRUE)
    /\ leaseOwner' = Nobody /\ leaseLive' = FALSE
    /\ UNCHANGED <<source, importedGeneration, processed, sourceGeneration,
                   bound, jobs, run, history, stops>>

-----------------------------------------------------------------------------
RunStep(w) ==
    \/ StartRun(w)
    \/ \E K \in SUBSET SourceKinds : WorkerImport(w, K)
    \/ Claim(w)
    \/ NotClaimed(w)
    \/ EnterSync(w)
    \/ SkipSync(w)
    \/ Bind(w)
    \/ Decide(w)
    \/ FinishSync(w)
    \/ \E o \in BOOLEAN, h \in Hosting : RequestObservation(w, o, h)
    \/ FinishCleanup(w)
    \/ SkipCleanup(w)
    \/ ObserveArticle(w)
    \/ ConfirmObserve(w)
    \/ Transition(w)
    \/ FinishObserve(w)
    \/ SkipObserve(w)
    \/ ReportObserved(w)
    \/ CloseRun(w)
    \/ \E k \in Kinds : WaitRun(w, k)
    \/ \E k \in Kinds, c \in Categories : FailRun(w, k, c)
    \/ AbandonRun(w)
    \/ Release(w)

Next ==
    \/ \E r \in {"initialising", "ready"} : Save(r)
    \/ \E r \in {"ready", "abandoned"} : SettleSave(r)
    \/ \E K \in SUBSET SourceKinds : Import(K)
    \/ Acknowledge
    \/ ExpireLease
    \/ LoseLease
    \/ Deliver
    \/ LoseJob
    \/ \E w \in Workers : RunStep(w) \/ Crash(w)
    \/ \E o \in Operators : AdminLock(o) \/ AdminResume(o)

Spec == Init /\ [][Next]_vars

(* What the process and the queue provide: the recurring dispatch runs and *)
(* sends jobs, a job is taken, a lease nobody renews expires, a deadline   *)
(* passes before some claim, and a run goes on until it releases.          *)
Scheduling ==
    /\ WF_vars(ExpireLease)
    /\ WF_vars(Deliver)
    /\ \A w \in Workers : WF_vars(RunStep(w)) /\ SF_vars(Claim(w))

ScheduledSpec == Spec /\ Scheduling

(* What else finishing takes: saves settle and their intents are imported  *)
(* (module SourceIntent shows that they are), and a remote service that is *)
(* asked again and again lets each step of a sync succeed in the end.      *)
Cooperation ==
    /\ WF_vars(Acknowledge)
    /\ WF_vars(SettleSave("ready"))
    /\ WF_vars(\E K \in SUBSET SourceKinds : Import(K))
    /\ SF_vars(\E w \in Workers : EnterSync(w)) /\ SF_vars(\E w \in Workers : Bind(w))
    /\ SF_vars(\E w \in Workers : Decide(w)) /\ SF_vars(\E w \in Workers : FinishSync(w))

-----------------------------------------------------------------------------
Runs == [pc : {"idle", "read", "imported", "claimed", "sync", "decided",
               "finished", "cleanup", "observe", "observing", "confirmed",
               "transitioned", "observed", "closing", "releasing"},
         content : Nat, kind : Kinds, owed : BOOLEAN,
         requested : [Kinds -> Nat], due : SUBSET Kinds]

Errors == [kind : Kinds \cup {"none"}, category : Categories \cup {"none"},
           count : 0 .. MaxAttempts, terminal : BOOLEAN]

(* Types; no kind of work has more processed than requested.               *)
TypeOK ==
    /\ source \in [generation : Nat, pending : BOOLEAN,
                   readiness : {"none", "initialising", "ready", "abandoned"}]
    /\ importedGeneration \in Nat
    /\ requested \in [Kinds -> Nat] /\ processed \in [Kinds -> Nat]
    /\ \A k \in Kinds : processed[k] <= requested[k]
    /\ due \subseteq Kinds /\ sourceGeneration \in [Kinds -> Nat]
    /\ status \in Statuses /\ error \in Errors
    /\ leaseOwner \in Workers \cup Operators \cup {Nobody, Stopped}
    /\ leaseLive \in BOOLEAN /\ bound \in BOOLEAN
    /\ jobs \in Nat
    /\ run \in [Workers -> Runs]
    /\ finishedContent \in Nat
    /\ gaveUp \in [Kinds -> Nat] /\ stops \in Nat

(* No request is swallowed: a request that no run has finished is          *)
(* scheduled, unless a terminal failure covered that very request.  A run  *)
(* that ends after a newer request arrived leaves the newer one due.       *)
NoRequestSwallowed ==
    \A k \in Kinds : Owed(k) /\ k \notin due => gaveUp[k] = requested[k]

(* When the ledger owes no sync, the last one it accepted as finished has  *)
(* worked on the content of the newest generation that asked for one: a    *)
(* run that read the record earlier cannot use up a newer save's request,  *)
(* and one that outlives its lease cannot report its older content over    *)
(* its successor's.                                                        *)
SettledMeansCurrent ==
    ~Owed("sync") => finishedContent >= sourceGeneration["sync"]

-----------------------------------------------------------------------------
\* The newest sync request was given up with a terminal failure.
GivenUp == gaveUp["sync"] = requested["sync"]

(* Owed synchronisation is attempted again and again until it is finished  *)
(* or given up: no crash, lost lease or lost delivery leaves the document  *)
(* where no worker will claim it for its sync.                             *)
OwedSyncIsAttempted ==
    []<>(Owed("sync") /\ ~GivenUp =>
            \E w \in Workers : run[w].pc = "claimed" /\ "sync" \in run[w].due)

(* If saves settle and the remote service lets some run through in the     *)
(* end, owed synchronisation is finished or given up.                      *)
OwedSyncSettles == Cooperation => (Owed("sync") ~> ~Owed("sync") \/ GivenUp)
=============================================================================
