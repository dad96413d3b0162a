---------------------------- MODULE HarvestRuns ----------------------------
(***************************************************************************)
(* One tracked harvest run (HarvestRunService.ts).  A source sends the run *)
(* in chunks; a request (submission) claims an attempt at its chunk, works *)
(* through the chunk's records one by one, stores an event for each, marks *)
(* the attempt processed and adds its counters to the run.  A submission   *)
(* may stop between any two of its storage calls, a storage call may be    *)
(* refused, and the source sends a chunk again until it is processed; the  *)
(* next attempt resumes behind the events of the earlier ones.             *)
(*                                                                         *)
(* The run exists from the start: findOrCreateRun recovers from the unique *)
(* index on the run, so every submission ends up with the same row.  The   *)
(* counters of a chunk row are shown to administrators only and are left   *)
(* out.  A storage call that is refused has no effect, but the creation,   *)
(* update or deletion of a record (RecordsService.ts) goes on after its    *)
(* write, with hooks and further writes, and can still fail.               *)
(***************************************************************************)
EXTENDS Naturals, Sequences, FiniteSets

CONSTANTS
    Submissions,   \* requests that can be under way at one time
    Chunks,        \* chunk -> its records, each [id, op, strategy]
    Final,         \* the chunks sent with finalChunk
    InitialStore,  \* the records stored before the run
    SlowAttempts,  \* may a submission outlive processingChunkTimeoutMinutes?
    MaxAttempts,   \* bound: attempts at one chunk
    MaxDuplicates, \* bound: duplicates counted before a submission starts
    MaxFaults      \* bound: stopped submissions and refused storage calls

Contents == DOMAIN Chunks
Outcomes == {"created", "updated", "deleted", "unchanged", "failed"}

ASSUME BoundsAssumption ==
    /\ MaxAttempts \in Nat /\ MaxDuplicates \in Nat /\ MaxFaults \in Nat
    /\ SlowAttempts \in BOOLEAN /\ Final \subseteq Contents
ASSUME ChunksAssumption ==
    /\ Contents # {} /\ IsFiniteSet(Contents)
    /\ \A c \in Contents : Chunks[c] \in Seq({Chunks[c][i] : i \in DOMAIN Chunks[c]})
\* An oid names one record, and one that is generated is not in use.
ASSUME StoreAssumption ==
    /\ IsFiniteSet(InitialStore)
    /\ \A d \in InitialStore :
          /\ d = [oid |-> d.oid, id |-> d.id, value |-> d.value]
          /\ d.value \in Seq({d.value[j] : j \in DOMAIN d.value})
          /\ d.oid \notin Contents \X Nat \X Nat
          /\ \A e \in InitialStore : d.oid = e.oid => d = e

VARIABLES
    run,       \* the run row: status, counts by outcome, chunks, duplicates
    attempts,  \* chunk -> its attempts in order, each [status, fate]
    events,    \* chunk -> its record events in order of creation
    stored,    \* the records: [oid, id, value]
    sub,       \* submission -> where it is and what it remembers
    failedWrites, \* chunk -> record -> how often it was applied and said to have failed
    faults

vars == <<run, attempts, events, stored, sub, failedWrites, faults>>

\* An attempt's fate is read by the properties only: the step its submission
\* stopped at, "counted" once the run has counted it, "open" before.  So is
\* failedWrites.
NewAttempt == [status |-> "processing", fate |-> "open"]
NoCounts == [o \in Outcomes |-> 0]

\* attempt is the number of the claimed attempt, stale that of the attempt to be
\* marked; resume the attempts whose events count as done; done the records
\* behind the submission; found the records as read before the first one;
\* outcome and undo those of the record whose event is to be stored.
Idle == [pc |-> "idle", chunk |-> CHOOSE c \in Contents : TRUE, attempt |-> 0,
         stale |-> 0, resume |-> {}, done |-> 0, counters |-> NoCounts,
         found |-> {}, outcome |-> "unchanged", undo |-> {}]

Init ==
    /\ run = [status |-> "running", counts |-> NoCounts, chunks |-> 0, duplicates |-> 0]
    /\ attempts = [c \in Contents |-> <<>>]
    /\ events = [c \in Contents |-> <<>>]
    /\ stored = InitialStore
    /\ sub = [s \in Submissions |-> Idle]
    /\ failedWrites = [c \in Contents |-> [i \in DOMAIN Chunks[c] |-> 0]]
    /\ faults = 0

-----------------------------------------------------------------------------
Claimed == {"read", "process", "persist", "rollback", "count", "fail"}

At(s, pc) == sub[s].pc = pc
Goto(s, pc) == sub' = [sub EXCEPT ![s].pc = pc]
Answer(s) == sub' = [sub EXCEPT ![s] = Idle]
\* What the submission remembers of its records is of no use any more.
Fails(s) == sub' = [sub EXCEPT ![s] = [Idle EXCEPT !.pc = "fail", !.chunk = sub[s].chunk,
                                                  !.attempt = sub[s].attempt]]
Faulty == faults < MaxFaults /\ faults' = faults + 1

Marked(c, k, status) == [attempts EXCEPT ![c][k].status = status]
WithStatus(c, S) == {k \in DOMAIN attempts[c] : attempts[c][k].status \in S}
\* The events that count as done for the submission, and how many of each outcome.
Checkpointed(s) ==
    {j \in DOMAIN events[sub[s].chunk] : events[sub[s].chunk][j].attempt \in sub[s].resume}
Tally(c, js) == [o \in Outcomes |-> Cardinality({j \in js : events[c][j].outcome = o})]

\* What a new attempt is called, and the attempts whose events it takes over.
\* Slips: the number skips one; stale attempts are left out.
NextAttemptSkips(c) == Len(attempts[c]) + 2
NextAttempt(c) == Len(attempts[c]) + 1
ResumeOnlyFailed(c) == WithStatus(c, {"failed"})
ResumeAttempts(c) == WithStatus(c, {"failed", "failed_stale"})

\* The attempt of a stopped submission grows old; that of a submission at work
\* only when it outlives the time-out.  Slip: an attempt never grows old.
NeverStale(c, k) == FALSE
ProcessingChunkStale(c, k) ==
    \/ SlowAttempts
    \/ \A s \in Submissions :
          ~(sub[s].pc \in Claimed /\ sub[s].chunk = c /\ sub[s].attempt = k)

\* submitChunk as far as the stale mark.  A chunk whose attempt is processing and
\* not stale is refused (409), which changes nothing.
Submit(s, c) ==
    LET processing == WithStatus(c, {"processing"})
        start == [Idle EXCEPT !.chunk = c, !.attempt = NextAttempt(c)]
    IN  /\ At(s, "idle")
        /\ \/ /\ WithStatus(c, {"processed"}) # {}
              /\ run.duplicates < MaxDuplicates
              /\ sub' = [sub EXCEPT ![s] = [start EXCEPT !.pc = "bump"]]
           \/ /\ WithStatus(c, {"processed"}) = {} /\ processing = {}
              /\ Len(attempts[c]) < MaxAttempts
              /\ sub' = [sub EXCEPT ![s] = [start EXCEPT !.pc = "list", !.resume = ResumeAttempts(c)]]
           \/ /\ WithStatus(c, {"processed"}) = {} /\ Len(attempts[c]) < MaxAttempts
              /\ \E k \in processing :
                    /\ \A j \in processing : j <= k
                    /\ ProcessingChunkStale(c, k)
                    /\ sub' = [sub EXCEPT ![s] = [start EXCEPT !.pc = "mark", !.stale = k,
                                                     !.resume = ResumeAttempts(c) \union {k}]]
        /\ UNCHANGED <<run, attempts, events, stored, failedWrites, faults>>

BumpDuplicateChunkCount(s) ==
    /\ At(s, "bump")
    /\ run' = [run EXCEPT !.duplicates = @ + 1]
    /\ Answer(s)
    /\ UNCHANGED <<attempts, events, stored, failedWrites, faults>>

\* The mark is written by id, whatever the attempt has become since it was read.
MarkStale(s) ==
    /\ At(s, "mark")
    /\ attempts' = Marked(sub[s].chunk, sub[s].stale, "failed_stale")
    /\ Goto(s, "list")
    /\ UNCHANGED <<run, events, stored, failedWrites, faults>>

\* More events than records is refused with 409.  Slip: the counters start at zero.
ListWithoutCounters(s) ==
    /\ At(s, "list")
    /\ sub' = [sub EXCEPT ![s].pc = "create", ![s].stale = 0, ![s].resume = {},
                          ![s].done = Cardinality(Checkpointed(s))]
    /\ UNCHANGED <<run, attempts, events, stored, failedWrites, faults>>
ListCheckpointedChunkEvents(s) ==
    LET c == sub[s].chunk
        done == Cardinality(Checkpointed(s))
    IN  /\ At(s, "list")
        /\ IF done > Len(Chunks[c]) THEN Answer(s)
           ELSE sub' = [sub EXCEPT ![s].pc = "create", ![s].stale = 0, ![s].resume = {},
                                   ![s].done = done, ![s].counters = Tally(c, Checkpointed(s))]
        /\ UNCHANGED <<run, attempts, events, stored, failedWrites, faults>>

\* (runId, contentHash, attempt) is a unique index: the create of an attempt that
\* another submission has taken is refused.  Slip: there is no such index.
CreateAnyAttempt(s) ==
    LET c == sub[s].chunk
    IN  /\ At(s, "create")
        /\ attempts' = [attempts EXCEPT ![c] = Append(@, NewAttempt)]
        /\ sub' = [sub EXCEPT ![s].pc = "read", ![s].attempt = NextAttempt(c)]
        /\ UNCHANGED <<run, events, stored, failedWrites, faults>>
CreateAttempt(s) ==
    LET c == sub[s].chunk
    IN  /\ At(s, "create")
        /\ \/ /\ Len(attempts[c]) < sub[s].attempt
              /\ attempts' = [attempts EXCEPT ![c] = Append(@, NewAttempt)]
              /\ Goto(s, "read")
           \/ /\ Len(attempts[c]) >= sub[s].attempt
              /\ Answer(s) /\ UNCHANGED attempts
        /\ UNCHANGED <<run, events, stored, failedWrites, faults>>

-----------------------------------------------------------------------------
(* The records of a chunk                                                  *)

\* One read of the records the chunk names, before its first record.  Slip: it
\* finds none.
FindNothing(s) ==
    /\ At(s, "read") /\ Goto(s, "process")
    /\ UNCHANGED <<run, attempts, events, stored, failedWrites, faults>>
FindExisting(s) ==
    LET records == Chunks[sub[s].chunk]
    IN  /\ At(s, "read")
        /\ sub' = [sub EXCEPT ![s].pc = "process",
              ![s].found = {d \in stored : \E i \in DOMAIN records : records[i].id = d.id}]
        /\ UNCHANGED <<run, attempts, events, stored, failedWrites, faults>>

\* getDuplicateHarvestIds
RepeatedInChunk(records, i) == \E j \in DOMAIN records \ {i} : records[j].id = records[i].id

\* The answers of processTrackedRecord that leave the record alone: a request it
\* rejects, and one that has nothing to change.
Rejected(records, i, existing) ==
    \/ records[i].op = "invalid" \/ RepeatedInChunk(records, i)
    \/ Cardinality(existing) > 1
    \/ records[i].op = "create" /\ existing # {}
    \/ records[i].op \in {"update", "delete"} /\ existing = {}
Unchanged(rec, c, existing) ==
    \/ rec.op = "upsert" /\ existing # {} /\ rec.strategy = "ignoreIfExists"
    \/ rec.op \in {"update", "upsert"} /\ \E d \in existing : d.value = <<c>>

\* merge concatenates the arrays of the stored metadata with those sent.
Updated(d, rec, c) ==
    [d EXCEPT !.value = IF rec.strategy = "merge" THEN Append(@, c) ELSE <<c>>]

\* What applying rec can leave in place of its record: [oid, before, after, outcome].
\* existing is what was read before the first record of the chunk; the update
\* reads its record again.
Effects(c, i, attempt, existing) ==
    LET rec == Chunks[c][i]
        oid == IF existing = {} THEN <<c, attempt, i>> ELSE (CHOOSE d \in existing : TRUE).oid
        before == {d \in stored : d.oid = oid}
        effect(after, outcome) ==
            {[oid |-> oid, before |-> before, after |-> after, outcome |-> outcome]}
    IN  IF Rejected(Chunks[c], i, existing) THEN effect(before, "failed")
        ELSE IF Unchanged(rec, c, existing) THEN effect(before, "unchanged")
        ELSE IF existing = {} THEN effect({[oid |-> oid, id |-> rec.id, value |-> <<c>>]}, "created")
        ELSE IF before = {} THEN effect({}, "failed")
        ELSE IF rec.op = "delete" THEN effect({}, "deleted")
        ELSE effect({Updated(d, rec, c) : d \in before}, "updated")

Replaced(oid, docs) == {d \in stored : d.oid # oid} \union docs

\* One record: applied as its effect says, or the record service says that it has
\* failed, before its write or after it; what has failed is never undone.
ProcessTrackedRecord(s) ==
    LET c == sub[s].chunk
        i == sub[s].done + 1
        existing == {d \in sub[s].found : d.id = Chunks[c][i].id}
    IN  /\ At(s, "process") /\ i <= Len(Chunks[c])
        /\ \E e \in Effects(c, i, sub[s].attempt, existing) :
            \/ /\ stored' = Replaced(e.oid, e.after)
               /\ sub' = [sub EXCEPT ![s].pc = "persist", ![s].outcome = e.outcome,
                            ![s].undo = IF e.after = e.before THEN {} ELSE {e}]
               /\ UNCHANGED <<failedWrites, faults>>
            \/ /\ e.after # e.before /\ Faulty
               /\ sub' = [sub EXCEPT ![s].pc = "persist", ![s].outcome = "failed",
                            ![s].undo = {}]
               /\ \/ UNCHANGED <<stored, failedWrites>>
                  \/ /\ stored' = Replaced(e.oid, e.after)
                     /\ failedWrites' = [failedWrites EXCEPT ![c][i] = @ + 1]
        /\ UNCHANGED <<run, attempts, events>>

\* The event of the record just processed, and the counters it adds to; the write
\* of the chunk's progress after it may be refused.  Slip: that refusal is handled
\* as the refusal of the event is.
PersistAndCheckpoint(s) ==
    LET c == sub[s].chunk
        event == [attempt |-> sub[s].attempt, index |-> sub[s].done + 1,
                  outcome |-> sub[s].outcome]
    IN  /\ At(s, "persist")
        /\ events' = [events EXCEPT ![c] = Append(@, event)]
        /\ IF sub[s].undo = {} THEN Fails(s) ELSE Goto(s, "rollback")
        /\ Faulty
        /\ UNCHANGED <<run, attempts, stored, failedWrites>>
PersistTrackedEvents(s) ==
    LET c == sub[s].chunk
        event == [attempt |-> sub[s].attempt, index |-> sub[s].done + 1,
                  outcome |-> sub[s].outcome]
    IN  /\ At(s, "persist")
        /\ events' = [events EXCEPT ![c] = Append(@, event)]
        /\ \/ /\ sub' = [sub EXCEPT ![s].pc = "process", ![s].done = @ + 1,
                              ![s].outcome = Idle.outcome, ![s].undo = {},
                              ![s].counters[sub[s].outcome] = @ + 1]
              /\ UNCHANGED faults
           \/ Fails(s) /\ Faulty
        /\ UNCHANGED <<run, attempts, stored, failedWrites>>

\* The event is refused: what was done is to be undone.  Slip: it is left.
PersistRefusedOnly(s) ==
    /\ At(s, "persist") /\ Faulty
    /\ Fails(s)
    /\ UNCHANGED <<run, attempts, events, stored, failedWrites>>
PersistRefused(s) ==
    /\ At(s, "persist") /\ Faulty
    /\ IF sub[s].undo = {} THEN Fails(s) ELSE Goto(s, "rollback")
    /\ UNCHANGED <<run, attempts, events, stored, failedWrites>>

\* A created record is deleted, an updated one put back, a deleted one restored; if
\* that fails after its write the submission fails no less.
Rollback(s) ==
    \E e \in sub[s].undo :
        /\ At(s, "rollback")
        /\ stored' = IF e.outcome = "updated" /\ {d \in stored : d.oid = e.oid} = {}
                     THEN stored ELSE Replaced(e.oid, e.before)
        /\ Fails(s)
        /\ UNCHANGED <<run, attempts, events, failedWrites, faults>>

RollbackRefused(s) ==
    /\ At(s, "rollback") /\ Faulty
    /\ attempts' = [attempts EXCEPT ![sub[s].chunk][sub[s].attempt].fate = "rollback"]
    /\ Fails(s)
    /\ UNCHANGED <<run, events, stored, failedWrites>>

-----------------------------------------------------------------------------
(* The end of a chunk                                                      *)

FinishChunk(s) ==
    /\ At(s, "process") /\ sub[s].done = Len(Chunks[sub[s].chunk])
    /\ attempts' = Marked(sub[s].chunk, sub[s].attempt, "processed")
    /\ sub' = [sub EXCEPT ![s].pc = "count", ![s].found = {}]
    /\ UNCHANGED <<run, events, stored, failedWrites, faults>>

\* buildAtomicRunCounterUpdate: one pipeline update of the run.  Slip: only the
\* final chunk sets the status.
CountedByFinal(c, counters) ==
    LET counts == [o \in Outcomes |-> run.counts[o] + counters[o]]
        status == IF c \notin Final THEN run.status
                  ELSE IF counts["failed"] > 0 THEN "completed_with_errors" ELSE "completed"
    IN  [run EXCEPT !.counts = counts, !.status = status, !.chunks = @ + 1]
Counted(c, counters) ==
    LET counts == [o \in Outcomes |-> run.counts[o] + counters[o]]
        status == IF c \in Final
                  THEN IF counts["failed"] > 0 THEN "completed_with_errors" ELSE "completed"
                  ELSE IF counters["failed"] > 0 /\ run.status = "completed"
                       THEN "completed_with_errors" ELSE run.status
    IN  [run EXCEPT !.counts = counts, !.status = status, !.chunks = @ + 1]

UpdateRunAfterChunk(s) ==
    /\ At(s, "count")
    /\ run' = Counted(sub[s].chunk, sub[s].counters)
    /\ attempts' = [attempts EXCEPT ![sub[s].chunk][sub[s].attempt].fate = "counted"]
    /\ Answer(s)
    /\ UNCHANGED <<events, stored, failedWrites, faults>>

\* The catch of submitChunk; it marks by id, a processed attempt too.
FailChunk(s) ==
    /\ At(s, "fail")
    /\ attempts' = Marked(sub[s].chunk, sub[s].attempt, "failed")
    /\ Answer(s)
    /\ UNCHANGED <<run, events, stored, failedWrites, faults>>

\* A storage call inside the try is refused.
Refused(s) ==
    /\ \/ At(s, "read") \/ At(s, "count")
       \/ At(s, "process") /\ sub[s].done = Len(Chunks[sub[s].chunk])
    /\ Faulty
    /\ Fails(s)
    /\ UNCHANGED <<run, attempts, events, stored, failedWrites>>

\* The process stops between two storage calls.  One that stops before it has
\* claimed an attempt leaves what one leaves that waits, and is not a case here.
Stop(s) ==
    /\ sub[s].pc \in Claimed /\ Faulty
    /\ attempts' = [attempts EXCEPT ![sub[s].chunk][sub[s].attempt].fate =
                                 IF @ = "open" THEN sub[s].pc ELSE @]
    /\ Answer(s)
    /\ UNCHANGED <<run, events, stored, failedWrites>>

Work(s) ==
    \/ BumpDuplicateChunkCount(s) \/ MarkStale(s) \/ ListCheckpointedChunkEvents(s)
    \/ CreateAttempt(s) \/ FindExisting(s) \/ ProcessTrackedRecord(s)
    \/ PersistTrackedEvents(s) \/ Rollback(s) \/ FinishChunk(s)
    \/ UpdateRunAfterChunk(s) \/ FailChunk(s)
Fault(s) == PersistRefused(s) \/ RollbackRefused(s) \/ Refused(s) \/ Stop(s)

Next == \E s \in Submissions : (\E c \in Contents : Submit(s, c)) \/ Work(s) \/ Fault(s)

Spec == Init /\ [][Next]_vars

\* A request that runs goes on; the source sends every chunk again and again.
FairSpec ==
    /\ Spec
    /\ \A s \in Submissions : WF_vars(Work(s))
    /\ \A c \in Contents : SF_vars(\E s \in Submissions : Submit(s, c))

-----------------------------------------------------------------------------
(* Properties                                                              *)

TypeOK ==
    /\ run.status \in {"running", "completed", "completed_with_errors"}
    /\ run.counts \in [Outcomes -> Nat] /\ run.chunks \in Nat /\ run.duplicates \in Nat
    /\ \A c \in Contents : \A k \in DOMAIN attempts[c] :
          /\ attempts[c][k].status \in {"processing", "processed", "failed", "failed_stale"}
          /\ attempts[c][k].fate \in Claimed \union {"open", "counted"}
    /\ \A c \in Contents : \A j \in DOMAIN events[c] :
          /\ events[c][j].attempt \in DOMAIN attempts[c]
          /\ events[c][j].index \in DOMAIN Chunks[c] /\ events[c][j].outcome \in Outcomes
    /\ \A s \in Submissions :
          LET c == sub[s].chunk
          IN  /\ sub[s].pc \in Claimed \union {"idle", "bump", "mark", "list", "create"}
              /\ sub[s].done \in 0..Len(Chunks[c])
              /\ sub[s].pc \in Claimed => sub[s].attempt \in DOMAIN attempts[c]
              /\ sub[s].pc = "persist" => sub[s].done < Len(Chunks[c])
    /\ \A c \in Contents : failedWrites[c] \in [DOMAIN Chunks[c] -> Nat]
    /\ faults \in 0..MaxFaults

\* However submissions of a chunk race, at most one attempt at it is being
\* processed or has been: the unique index decides between two that found the same
\* attempts, and a resumed attempt never runs beside a processed one.
OneAttemptStands == \A c \in Contents : Cardinality(WithStatus(c, {"processing", "processed"})) <= 1

\* The events of a chunk, over all its attempts, report its records in order, none
\* twice and none left out before one that is reported; those of a processed chunk
\* report all of them.
EveryRecordReportedOnce ==
    \A c \in Contents :
        /\ \A j \in DOMAIN events[c] : events[c][j].index = j
        /\ WithStatus(c, {"processed"}) # {} => Len(events[c]) = Len(Chunks[c])

\* The chunk's i-th record is the only one of the run with its harvest id.
Alone(c, i) ==
    \A b \in Contents : \A j \in DOMAIN Chunks[b] :
        Chunks[b][j].id = Chunks[c][i].id => b = c /\ j = i
Copies(c, i) == {d \in stored : d.id = Chunks[c][i].id}
Reports(c, i, S) == \E j \in DOMAIN events[c] : events[c][j].index = i /\ events[c][j].outcome \in S
UnderWay(c, i) ==
    \E s \in Submissions : sub[s].chunk = c /\ sub[s].done + 1 = i
                           /\ sub[s].pc \in {"persist", "rollback"}
\* The attempts that stopped, or could not undo, between a record and its event.
Unreported(c) == {k \in DOMAIN attempts[c] : attempts[c][k].fate \in {"persist", "rollback"}}

\* A record reported created or updated is stored with what the chunk sent, and
\* one reported deleted is gone: neither a rollback nor a retry takes it back.
ReportedIsStored ==
    \A c \in Contents : \A i \in DOMAIN Chunks[c] : Alone(c, i) =>
        /\ Reports(c, i, {"created", "updated"}) =>
              \E d \in Copies(c, i) : \E j \in DOMAIN d.value : d.value[j] = c
        /\ Reports(c, i, {"deleted"}) => Copies(c, i) = {}

\* How often a stored record holds what the chunk sent, and how often the record
\* of that oid did before the run.
Times(d, c) == Cardinality({j \in DOMAIN d.value : d.value[j] = c})
Before(oid, c) ==
    LET old == {d \in InitialStore : d.oid = oid}
    IN  IF old = {} THEN 0 ELSE Times(CHOOSE d \in old : TRUE, c)
HeldAtMost(docs, c, n) == \A d \in docs : Times(d, c) <= Before(d.oid, c) + n

\* How often a chunk's record may have gone into the stored one without a report
\* of it: its attempt stopped in between or could not undo it, or the record service
\* wrote it and said that it had failed.
Excused(c, i) == Cardinality(Unreported(c)) + failedWrites[c][i]

\* Each time a chunk's record has gone into the stored one it has been reported, is
\* about to be, or is excused: only then does a retry merge the same data a second
\* time, and an event that is refused costs nothing by itself.
StoredIsReported ==
    \A c \in Contents : \A i \in DOMAIN Chunks[c] : Alone(c, i) =>
        HeldAtMost(Copies(c, i), c,
            Excused(c, i)
              + (IF Reports(c, i, {"created", "updated"}) \/ UnderWay(c, i) THEN 1 ELSE 0))

\* A harvest id that one record of the run names gets no second record, also when
\* the attempt that created it stopped before it could report it, or was told that
\* the creation had failed.
NoSecondRecord ==
    \A c \in Contents : \A i \in DOMAIN Chunks[c] : Alone(c, i) =>
        Cardinality(Copies(c, i)) <= 1
        \/ Cardinality({d \in InitialStore : d.id = Chunks[c][i].id}) > 1

CountedChunks == {c \in Contents : \E k \in DOMAIN attempts[c] : attempts[c][k].fate = "counted"}

CountedEvents(o) ==
    UNION {{c} \X {j \in DOMAIN events[c] : events[c][j].outcome = o} : c \in CountedChunks}
AboutToCount(c, k) ==
    \E s \in Submissions : sub[s].chunk = c /\ sub[s].attempt = k /\ sub[s].pc \in {"count", "fail"}

\* The run's counters are exactly the events of the chunks it has counted, each
\* once, and every processed chunk is counted, is about to be, or its submission
\* stopped between the two writes.
RunCountsReported ==
    /\ \A o \in Outcomes : run.counts[o] = Cardinality(CountedEvents(o))
    /\ run.chunks = Cardinality(CountedChunks)
    /\ \A c \in Contents : \A k \in WithStatus(c, {"processed"}) :
          attempts[c][k].fate \in {"counted", "count", "fail"} \/ AboutToCount(c, k)

\* The migration guide: duplicate submissions of the exact same chunk content are
\* detected and counted instead of being reprocessed, so no two attempts at a chunk
\* add to the run.
ChunkIsCountedOnce ==
    \A c \in Contents :
        Cardinality({k \in DOMAIN attempts[c] : attempts[c][k].fate = "counted"}) <= 1

\* A run that says completed has no failed record, in whatever order its chunks
\* are counted and whichever of them is the final one.
CompletedIsClean == run.status = "completed" => run.counts["failed"] = 0

\* A chunk that is sent again until it is processed is processed in the end,
\* whatever stops on the way.
EveryChunkIsProcessed == \A c \in Contents : <>[](WithStatus(c, {"processed"}) # {})
=============================================================================
