------------------------- MODULE HarvestRunsProofs -------------------------
(***************************************************************************)
(* What holds of a tracked harvest run for every set of submissions, every *)
(* set of chunks and every number of attempts and faults.                  *)
(***************************************************************************)
EXTENDS HarvestRuns, FiniteSetTheorems, TLAPS

-----------------------------------------------------------------------------
(* What makes the properties inductive                                     *)

Waiting == {"mark", "list", "create"}
Working == {"read", "process", "persist", "rollback"}
RunForms == [status : {"running", "completed", "completed_with_errors"},
             counts : [Outcomes -> Nat], chunks : Nat, duplicates : Nat]
AttemptForms == [status : {"processing", "processed", "failed", "failed_stale"},
                 fate : Claimed \union {"open", "counted"}]
EventForms == [attempt : Nat, index : Nat, outcome : Outcomes]
SubForms(found, undo) ==
    [pc : Claimed \union Waiting \union {"idle", "bump"}, chunk : Contents, attempt : Nat,
     stale : Nat, resume : SUBSET Nat, done : Nat, counters : [Outcomes -> Nat],
     found : {found}, outcome : Outcomes, undo : {undo}]

\* A claimed attempt exists, a waiting submission has taken the number of one that
\* exists or of the next, and a submission is never behind the end of its chunk.
Placed(s) ==
    LET c == sub[s].chunk
    IN  /\ sub[s].done <= Len(Chunks[c])
        /\ sub[s].pc = "persist" => sub[s].done < Len(Chunks[c])
        /\ sub[s].pc \in Claimed => sub[s].attempt \in DOMAIN attempts[c]
        /\ sub[s].pc \in Waiting => sub[s].attempt \in 1..Len(attempts[c]) + 1
        /\ sub[s].pc = "mark" => sub[s].stale \in DOMAIN attempts[c]

Types ==
    /\ run \in RunForms
    /\ attempts \in [Contents -> Seq(AttemptForms)]
    /\ events \in [Contents -> Seq(EventForms)]
    /\ \A c \in Contents : \A j \in DOMAIN events[c] :
          events[c][j].attempt \in DOMAIN attempts[c] /\ events[c][j].index \in DOMAIN Chunks[c]
    /\ sub = [s \in Submissions |-> sub[s]]
    /\ \A s \in Submissions : sub[s] \in SubForms(sub[s].found, sub[s].undo) /\ Placed(s)
    /\ faults \in 0..MaxFaults

\* The records that were applied and said to have failed are counted.
FailuresOK ==
    /\ failedWrites = [c \in Contents |-> failedWrites[c]]
    /\ \A c \in Contents : failedWrites[c] \in [DOMAIN Chunks[c] -> Nat]

\* What the submission has counted is what the events of its chunk say.
CountersAreEvents(s) ==
    \A o \in Outcomes : sub[s].counters[o] =
        Cardinality({j \in DOMAIN events[sub[s].chunk] : events[sub[s].chunk][j].outcome = o})

\* A submission that holds an attempt finds it as it left it, and has every event
\* of the chunk behind it.
Holds(s) ==
    LET c == sub[s].chunk
        a == attempts[c][sub[s].attempt]
    IN  sub[s].pc \in Claimed =>
        /\ a.fate # "counted"
        /\ sub[s].pc \in Working => a.status = "processing" /\ sub[s].done = Len(events[c])
        /\ sub[s].pc = "count" => a.status = "processed"
        /\ sub[s].pc = "fail" => a.status \in {"processing", "processed"}
        /\ a.status = "processed" \/ sub[s].pc # "fail" => a.fate = "open"
        /\ sub[s].pc # "fail" => CountersAreEvents(s)

\* No submission holds the attempt another is about to declare stale, nor has one
\* that held it finished.  As long as nobody has taken the attempt a submission waits for, no other one stands, and
\* nothing of the chunk is left out of what it resumes behind.
Awaits(s) ==
    LET c == sub[s].chunk
    IN  /\ sub[s].pc = "mark" => /\ ProcessingChunkStale(c, sub[s].stale)
                                 /\ attempts[c][sub[s].stale].status # "processed"
        /\ sub[s].pc \in Waiting /\ sub[s].attempt = Len(attempts[c]) + 1 =>
              /\ \A k \in DOMAIN attempts[c] :
                    \/ attempts[c][k].status \in {"failed", "failed_stale"}
                    \/ sub[s].pc = "mark" /\ k = sub[s].stale
              /\ sub[s].pc # "create" => sub[s].resume = DOMAIN attempts[c]
              /\ sub[s].pc = "create" => sub[s].done = Len(events[c]) /\ CountersAreEvents(s)

HoldersAreAlone ==
    \A s, t \in Submissions :
        sub[s].pc \in Claimed /\ sub[t].pc \in Claimed /\ sub[s].chunk = sub[t].chunk => s = t

OnlyLastStands ==
    \A c \in Contents : \A k \in DOMAIN attempts[c] :
        k < Len(attempts[c]) => attempts[c][k].status \in {"failed", "failed_stale"}

CountedIsProcessed ==
    \A c \in Contents : \A k \in DOMAIN attempts[c] :
        attempts[c][k].fate = "counted" => attempts[c][k].status = "processed"

EventsInOrder ==
    \A c \in Contents :
        /\ \A j \in DOMAIN events[c] : events[c][j].index = j
        /\ \A k \in DOMAIN attempts[c] :
              attempts[c][k].status = "processed" => Len(events[c]) = Len(Chunks[c])

\* The inductive invariant of the run whose attempts never outlive the time-out.
IndInv ==
    /\ Types
    /\ OnlyLastStands /\ CountedIsProcessed /\ EventsInOrder /\ HoldersAreAlone
    /\ \A s \in Submissions : Holds(s) /\ Awaits(s)

Statuses == {"processing", "processed", "failed", "failed_stale"}
Fates == Claimed \union {"open", "counted"}
Pcs == Claimed \union Waiting \union {"idle", "bump"}

-----------------------------------------------------------------------------
(* What the steps do to the submissions                                    *)

\* The step is that of s: it leaves the others where they are.
Moves(s) ==
    /\ sub' = [t \in Submissions |-> sub'[t]]
    /\ \A t \in Submissions \ {s} : sub'[t] = sub[t]
    /\ sub'[s] \in SubForms(sub'[s].found, sub'[s].undo)

\* Every chunk has a number of records.
LEMMA LenChunks == \A c \in Contents : Len(Chunks[c]) \in Nat /\ DOMAIN Chunks[c] = 1..Len(Chunks[c])
BY ChunksAssumption

\* An idle submission has the form of one.
LEMMA IdleForm ==
    /\ Idle \in SubForms({}, {})
    /\ Idle.pc = "idle" /\ Idle.chunk \in Contents /\ Idle.done = 0 /\ Idle.resume = {}
    /\ Idle.stale = 0 /\ Idle.attempt = 0 /\ Idle.found = {} /\ Idle.undo = {}
    /\ Idle.outcome \in Outcomes /\ Idle.counters \in [Outcomes -> Nat]
<1>1. (CHOOSE c \in Contents : TRUE) \in Contents
  BY ChunksAssumption
<1>2. NoCounts \in [Outcomes -> Nat]
  BY DEF NoCounts
<1> QED
  BY <1>1, <1>2 DEF Idle, SubForms, Outcomes

\* A submission is given a new state.
LEMMA MovesTo ==
    ASSUME sub = [t \in Submissions |-> sub[t]], NEW s \in Submissions, NEW r,
           r \in SubForms(r.found, r.undo), sub' = [sub EXCEPT ![s] = r]
    PROVE  Moves(s) /\ sub'[s] = r
<1>1. sub'[s] = r /\ \A t \in Submissions \ {s} : sub'[t] = sub[t]
  OBVIOUS
<1>2. sub' = [t \in Submissions |-> sub'[t]]
  OBVIOUS
<1> QED
  BY <1>1, <1>2 DEF Moves

\* It goes on to another step.
LEMMA GoesTo ==
    ASSUME Types, NEW s \in Submissions, NEW pc \in Pcs, Goto(s, pc)
    PROVE  /\ Moves(s) /\ sub'[s].pc = pc
           /\ sub'[s].chunk = sub[s].chunk /\ sub'[s].attempt = sub[s].attempt
           /\ sub'[s].stale = sub[s].stale /\ sub'[s].resume = sub[s].resume
           /\ sub'[s].done = sub[s].done /\ sub'[s].counters = sub[s].counters
           /\ sub'[s].found = sub[s].found /\ sub'[s].outcome = sub[s].outcome
           /\ sub'[s].undo = sub[s].undo
<1>1. PICK r : r = [sub[s] EXCEPT !.pc = pc]
  OBVIOUS
<1>2. sub[s] \in SubForms(sub[s].found, sub[s].undo)
  BY DEF Types
<1>3. /\ r \in SubForms(sub[s].found, sub[s].undo) /\ r.pc = pc
      /\ r.chunk = sub[s].chunk /\ r.attempt = sub[s].attempt
      /\ r.stale = sub[s].stale /\ r.resume = sub[s].resume
      /\ r.done = sub[s].done /\ r.counters = sub[s].counters
      /\ r.found = sub[s].found /\ r.outcome = sub[s].outcome /\ r.undo = sub[s].undo
  BY <1>1, <1>2 DEF SubForms, Pcs
<1>4. sub' = [sub EXCEPT ![s] = r]
  BY <1>1 DEF Goto
<1>5. sub = [t \in Submissions |-> sub[t]]
  BY DEF Types
<1>6. Moves(s) /\ sub'[s] = r
  BY <1>3, <1>4, <1>5, MovesTo
<1> QED
  BY <1>3, <1>6

\* It answers and forgets.
LEMMA Answers ==
    ASSUME Types, NEW s \in Submissions, Answer(s)
    PROVE  Moves(s) /\ sub'[s] = Idle /\ sub'[s].pc = "idle" /\ sub'[s].done = 0
           /\ sub'[s].chunk \in Contents
<1>1. sub = [t \in Submissions |-> sub[t]]
  BY DEF Types
<1>2. Idle \in SubForms(Idle.found, Idle.undo)
  BY IdleForm
<1>3. Moves(s) /\ sub'[s] = Idle
  BY <1>1, <1>2, MovesTo DEF Answer
<1> QED
  BY <1>3, IdleForm

\* It goes on to mark its attempt failed.
LEMMA FailsTo ==
    ASSUME Types, NEW s \in Submissions, Fails(s)
    PROVE  /\ Moves(s) /\ sub'[s].pc = "fail" /\ sub'[s].done = 0
           /\ sub'[s].chunk = sub[s].chunk /\ sub'[s].attempt = sub[s].attempt
           /\ sub'[s].found = {} /\ sub'[s].undo = {}
<1>1. PICK r : r = [Idle EXCEPT !.pc = "fail", !.chunk = sub[s].chunk, !.attempt = sub[s].attempt]
  OBVIOUS
<1>2. sub[s] \in SubForms(sub[s].found, sub[s].undo)
  BY DEF Types
<1>3. sub[s].chunk \in Contents /\ sub[s].attempt \in Nat
  BY <1>2 DEF SubForms
<1>4. /\ r \in SubForms({}, {}) /\ r.pc = "fail" /\ r.done = 0 /\ r.found = {} /\ r.undo = {}
      /\ r.chunk = sub[s].chunk /\ r.attempt = sub[s].attempt
  BY <1>1, <1>3, IdleForm DEF SubForms, Claimed
<1>5. sub' = [sub EXCEPT ![s] = r]
  BY <1>1 DEF Fails
<1>6. sub = [t \in Submissions |-> sub[t]]
  BY DEF Types
<1>7. Moves(s) /\ sub'[s] = r
  BY <1>4, <1>5, <1>6, MovesTo
<1> QED
  BY <1>4, <1>7

-----------------------------------------------------------------------------
(* What the steps do to the attempts                                       *)

\* Attempts are neither added nor removed, and those of other chunks not touched.
SameAttempts(c) ==
    /\ attempts' \in [Contents -> Seq(AttemptForms)]
    /\ Len(attempts'[c]) = Len(attempts[c]) /\ DOMAIN attempts'[c] = DOMAIN attempts[c]
    /\ \A b \in Contents \ {c} : attempts'[b] = attempts[b]

\* An attempt is replaced.
LEMMA Replaces ==
    ASSUME attempts \in [Contents -> Seq(AttemptForms)], NEW c \in Contents,
           NEW k \in DOMAIN attempts[c], NEW a \in AttemptForms,
           attempts' = [attempts EXCEPT ![c] = [attempts[c] EXCEPT ![k] = a]]
    PROVE  /\ SameAttempts(c) /\ attempts'[c][k] = a
           /\ \A j \in DOMAIN attempts[c] \ {k} : attempts'[c][j] = attempts[c][j]
<1>1. PICK q : q = [attempts[c] EXCEPT ![k] = a]
  OBVIOUS
<1>2. attempts[c] \in Seq(AttemptForms)
  OBVIOUS
<1>3. /\ q \in Seq(AttemptForms) /\ Len(q) = Len(attempts[c]) /\ DOMAIN q = DOMAIN attempts[c]
      /\ q[k] = a /\ \A j \in DOMAIN attempts[c] \ {k} : q[j] = attempts[c][j]
  BY <1>1, <1>2
<1>4. attempts' = [attempts EXCEPT ![c] = q]
  BY <1>1
<1>5. /\ attempts' \in [Contents -> Seq(AttemptForms)] /\ attempts'[c] = q
      /\ \A b \in Contents \ {c} : attempts'[b] = attempts[b]
  BY <1>3, <1>4
<1> QED
  BY <1>3, <1>5 DEF SameAttempts

\* An attempt is marked.
LEMMA Marks ==
    ASSUME attempts \in [Contents -> Seq(AttemptForms)], NEW c \in Contents,
           NEW k \in DOMAIN attempts[c], NEW status \in Statuses, attempts' = Marked(c, k, status)
    PROVE  /\ SameAttempts(c)
           /\ attempts'[c][k].status = status /\ attempts'[c][k].fate = attempts[c][k].fate
           /\ \A j \in DOMAIN attempts[c] \ {k} : attempts'[c][j] = attempts[c][j]
<1>1. PICK a : a = [attempts[c][k] EXCEPT !.status = status]
  OBVIOUS
<1>2. attempts[c] \in Seq(AttemptForms) /\ attempts[c][k] \in AttemptForms
  OBVIOUS
<1>3. a \in AttemptForms /\ a.status = status /\ a.fate = attempts[c][k].fate
  BY <1>1, <1>2 DEF AttemptForms, Statuses
<1>4. attempts' = [attempts EXCEPT ![c] = [attempts[c] EXCEPT ![k] = a]]
  BY <1>1 DEF Marked
<1>5. /\ SameAttempts(c) /\ attempts'[c][k] = a
      /\ \A j \in DOMAIN attempts[c] \ {k} : attempts'[c][j] = attempts[c][j]
  BY <1>3, <1>4, Replaces, ZenonT(40)
<1> QED
  BY <1>3, <1>5

\* An attempt meets its fate.
Met(c, k, fate) == [attempts EXCEPT ![c][k].fate = fate]

LEMMA Meets ==
    ASSUME attempts \in [Contents -> Seq(AttemptForms)], NEW c \in Contents,
           NEW k \in DOMAIN attempts[c], NEW fate \in Fates, attempts' = Met(c, k, fate)
    PROVE  /\ SameAttempts(c)
           /\ attempts'[c][k].fate = fate /\ attempts'[c][k].status = attempts[c][k].status
           /\ \A j \in DOMAIN attempts[c] \ {k} : attempts'[c][j] = attempts[c][j]
<1>1. PICK a : a = [attempts[c][k] EXCEPT !.fate = fate]
  OBVIOUS
<1>2. attempts[c] \in Seq(AttemptForms) /\ attempts[c][k] \in AttemptForms
  OBVIOUS
<1>3. a \in AttemptForms /\ a.fate = fate /\ a.status = attempts[c][k].status
  BY <1>1, <1>2 DEF AttemptForms, Fates
<1>4. attempts' = [attempts EXCEPT ![c] = [attempts[c] EXCEPT ![k] = a]]
  BY <1>1 DEF Met
<1>5. /\ SameAttempts(c) /\ attempts'[c][k] = a
      /\ \A j \in DOMAIN attempts[c] \ {k} : attempts'[c][j] = attempts[c][j]
  BY <1>3, <1>4, Replaces, ZenonT(40)
<1> QED
  BY <1>3, <1>5

\* An attempt is added.
LEMMA Adds ==
    ASSUME attempts \in [Contents -> Seq(AttemptForms)], NEW c \in Contents,
           attempts' = [attempts EXCEPT ![c] = Append(@, NewAttempt)]
    PROVE  /\ attempts' \in [Contents -> Seq(AttemptForms)]
           /\ Len(attempts'[c]) = Len(attempts[c]) + 1
           /\ attempts'[c][Len(attempts[c]) + 1] = NewAttempt
           /\ \A k \in DOMAIN attempts[c] : attempts'[c][k] = attempts[c][k]
           /\ \A b \in Contents \ {c} : attempts'[b] = attempts[b]
<1>1. PICK q : q = Append(attempts[c], NewAttempt)
  OBVIOUS
<1>2. attempts[c] \in Seq(AttemptForms)
  OBVIOUS
<1>3. NewAttempt \in AttemptForms
  BY DEF NewAttempt, AttemptForms
<1>4. /\ q \in Seq(AttemptForms) /\ Len(q) = Len(attempts[c]) + 1
      /\ q[Len(attempts[c]) + 1] = NewAttempt
      /\ \A k \in DOMAIN attempts[c] : q[k] = attempts[c][k]
  BY <1>1, <1>2, <1>3
<1>5. attempts' = [attempts EXCEPT ![c] = q]
  BY <1>1
<1> QED
  BY <1>4, <1>5

\* The event of a submission's record is added to those of its chunk.
LEMMA Records ==
    ASSUME events \in [Contents -> Seq(EventForms)], NEW c \in Contents, NEW e \in EventForms,
           events' = [events EXCEPT ![c] = Append(@, e)]
    PROVE  /\ events' \in [Contents -> Seq(EventForms)]
           /\ Len(events'[c]) = Len(events[c]) + 1
           /\ events'[c][Len(events[c]) + 1] = e
           /\ \A j \in DOMAIN events[c] : events'[c][j] = events[c][j]
           /\ \A b \in Contents \ {c} : events'[b] = events[b]
<1>1. PICK q : q = Append(events[c], e)
  OBVIOUS
<1>2. events[c] \in Seq(EventForms)
  OBVIOUS
<1>3. /\ q \in Seq(EventForms) /\ Len(q) = Len(events[c]) + 1 /\ q[Len(events[c]) + 1] = e
      /\ \A j \in DOMAIN events[c] : q[j] = events[c][j]
  BY <1>1, <1>2
<1>4. events' = [events EXCEPT ![c] = q]
  BY <1>1
<1> QED
  BY <1>3, <1>4

-----------------------------------------------------------------------------
(* What each action does to its submission                                 *)

\* The fields of a submission.
LEMMA Fields ==
    ASSUME Types, NEW s \in Submissions
    PROVE  /\ sub[s] \in SubForms(sub[s].found, sub[s].undo)
           /\ sub[s].pc \in Pcs /\ sub[s].chunk \in Contents /\ sub[s].attempt \in Nat
           /\ sub[s].stale \in Nat /\ sub[s].resume \in SUBSET Nat /\ sub[s].done \in Nat
           /\ sub[s].counters \in [Outcomes -> Nat] /\ sub[s].outcome \in Outcomes
  BY DEF Types, SubForms, Pcs

\* The attempts and the events of a chunk.
LEMMA Chunk ==
    ASSUME Types, NEW c \in Contents
    PROVE  /\ attempts[c] \in Seq(AttemptForms) /\ events[c] \in Seq(EventForms)
           /\ Len(attempts[c]) \in Nat /\ DOMAIN attempts[c] = 1..Len(attempts[c])
           /\ Len(events[c]) \in Nat /\ DOMAIN events[c] = 1..Len(events[c])
           /\ Len(Chunks[c]) \in Nat /\ DOMAIN Chunks[c] = 1..Len(Chunks[c])
<1>1. attempts[c] \in Seq(AttemptForms) /\ events[c] \in Seq(EventForms)
  BY DEF Types
<1> QED
  BY <1>1, LenChunks

\* A submission asks for a number that none has, or is counted as a duplicate.
LEMMA Starts ==
    ASSUME Types, NEW s \in Submissions, NEW c \in Contents, Submit(s, c)
    PROVE  /\ Moves(s) /\ sub[s].pc = "idle" /\ sub'[s].chunk = c /\ sub'[s].done = 0
           /\ sub'[s].attempt = Len(attempts[c]) + 1 /\ sub'[s].found = {}
           /\ \/ sub'[s].pc = "bump"
              \/ /\ sub'[s].pc = "list" /\ sub'[s].resume = ResumeAttempts(c)
                 /\ WithStatus(c, {"processed"}) = {} /\ WithStatus(c, {"processing"}) = {}
              \/ /\ sub'[s].pc = "mark" /\ sub'[s].stale \in WithStatus(c, {"processing"})
                 /\ WithStatus(c, {"processed"}) = {}
                 /\ sub'[s].resume = ResumeAttempts(c) \union {sub'[s].stale}
                 /\ ProcessingChunkStale(c, sub'[s].stale)
<1>1. PICK start : start = [Idle EXCEPT !.chunk = c, !.attempt = NextAttempt(c)]
  OBVIOUS
<1>2. Len(attempts[c]) \in Nat /\ DOMAIN attempts[c] = 1..Len(attempts[c])
  BY Chunk
<1>3. NextAttempt(c) = Len(attempts[c]) + 1 /\ NextAttempt(c) \in Nat
  BY <1>2 DEF NextAttempt
<1>4. /\ start \in SubForms({}, {}) /\ start.chunk = c /\ start.done = 0
      /\ start.attempt = Len(attempts[c]) + 1 /\ start.found = {} /\ start.undo = {}
  BY <1>1, <1>3, IdleForm DEF SubForms
<1>5. sub = [t \in Submissions |-> sub[t]]
  BY DEF Types
<1>6. sub[s].pc = "idle"
  BY DEF Submit, At
<1>7. ResumeAttempts(c) \in SUBSET Nat /\ WithStatus(c, {"processing"}) \in SUBSET Nat
  BY <1>2 DEF ResumeAttempts, WithStatus
<1>8. CASE sub' = [sub EXCEPT ![s] = [start EXCEPT !.pc = "bump"]]
  <2>1. PICK r : r = [start EXCEPT !.pc = "bump"]
    OBVIOUS
  <2>2. /\ r \in SubForms({}, {}) /\ r.pc = "bump" /\ r.chunk = c /\ r.done = 0
        /\ r.attempt = Len(attempts[c]) + 1 /\ r.found = {} /\ r.undo = {}
    BY <2>1, <1>4 DEF SubForms
  <2>3. sub' = [sub EXCEPT ![s] = r]
    BY <2>1, <1>8
  <2>4. Moves(s) /\ sub'[s] = r
    BY <2>2, <2>3, <1>5, MovesTo
  <2> QED
    BY <2>2, <2>4, <1>6
<1>9. CASE /\ WithStatus(c, {"processed"}) = {} /\ WithStatus(c, {"processing"}) = {}
           /\ sub' = [sub EXCEPT ![s] = [start EXCEPT !.pc = "list", !.resume = ResumeAttempts(c)]]
  <2>1. PICK r : r = [start EXCEPT !.pc = "list", !.resume = ResumeAttempts(c)]
    OBVIOUS
  <2>2. /\ r \in SubForms({}, {}) /\ r.pc = "list" /\ r.chunk = c /\ r.done = 0
        /\ r.attempt = Len(attempts[c]) + 1 /\ r.found = {} /\ r.undo = {}
        /\ r.resume = ResumeAttempts(c)
    BY <2>1, <1>4, <1>7 DEF SubForms, Waiting
  <2>3. sub' = [sub EXCEPT ![s] = r]
    BY <2>1, <1>9
  <2>4. Moves(s) /\ sub'[s] = r
    BY <2>2, <2>3, <1>5, MovesTo
  <2> QED
    BY <2>2, <2>4, <1>6, <1>9
<1>10. ASSUME NEW k \in WithStatus(c, {"processing"}), ProcessingChunkStale(c, k),
              WithStatus(c, {"processed"}) = {},
              sub' = [sub EXCEPT ![s] = [start EXCEPT !.pc = "mark", !.stale = k,
                                            !.resume = ResumeAttempts(c) \union {k}]]
       PROVE  /\ Moves(s) /\ sub'[s].chunk = c /\ sub'[s].done = 0
              /\ sub'[s].attempt = Len(attempts[c]) + 1 /\ sub'[s].found = {}
              /\ sub'[s].pc = "mark" /\ sub'[s].stale = k
              /\ sub'[s].resume = ResumeAttempts(c) \union {k}
  <2>1. PICK r : r = [start EXCEPT !.pc = "mark", !.stale = k,
                                   !.resume = ResumeAttempts(c) \union {k}]
    OBVIOUS
  <2>2. k \in Nat
    BY <1>7
  <2>3. /\ r \in SubForms({}, {}) /\ r.pc = "mark" /\ r.chunk = c /\ r.done = 0
        /\ r.attempt = Len(attempts[c]) + 1 /\ r.found = {} /\ r.undo = {}
        /\ r.stale = k /\ r.resume = ResumeAttempts(c) \union {k}
    BY <2>1, <2>2, <1>4, <1>7 DEF SubForms, Waiting
  <2>4. sub' = [sub EXCEPT ![s] = r]
    BY <2>1, <1>10
  <2>5. Moves(s) /\ sub'[s] = r
    BY <2>3, <2>4, <1>5, MovesTo
  <2> QED
    BY <2>3, <2>5
<1>11. \/ sub' = [sub EXCEPT ![s] = [start EXCEPT !.pc = "bump"]]
       \/ /\ WithStatus(c, {"processed"}) = {} /\ WithStatus(c, {"processing"}) = {}
          /\ sub' = [sub EXCEPT ![s] = [start EXCEPT !.pc = "list", !.resume = ResumeAttempts(c)]]
       \/ \E k \in WithStatus(c, {"processing"}) :
             /\ ProcessingChunkStale(c, k) /\ WithStatus(c, {"processed"}) = {}
             /\ sub' = [sub EXCEPT ![s] = [start EXCEPT !.pc = "mark", !.stale = k,
                                              !.resume = ResumeAttempts(c) \union {k}]]
  BY <1>1, Zenon DEF Submit
<1>12. CASE \E k \in WithStatus(c, {"processing"}) :
             /\ ProcessingChunkStale(c, k) /\ WithStatus(c, {"processed"}) = {}
             /\ sub' = [sub EXCEPT ![s] = [start EXCEPT !.pc = "mark", !.stale = k,
                                              !.resume = ResumeAttempts(c) \union {k}]]
  <2>1. PICK k \in WithStatus(c, {"processing"}) :
             /\ ProcessingChunkStale(c, k) /\ WithStatus(c, {"processed"}) = {}
             /\ sub' = [sub EXCEPT ![s] = [start EXCEPT !.pc = "mark", !.stale = k,
                                              !.resume = ResumeAttempts(c) \union {k}]]
    BY <1>12
  <2>2. /\ Moves(s) /\ sub'[s].chunk = c /\ sub'[s].done = 0
        /\ sub'[s].attempt = Len(attempts[c]) + 1 /\ sub'[s].found = {}
        /\ sub'[s].pc = "mark" /\ sub'[s].stale = k
        /\ sub'[s].resume = ResumeAttempts(c) \union {k}
    BY <2>1, <1>10
  <2> QED
    BY <2>1, <2>2, <1>6
<1> QED
  BY <1>8, <1>9, <1>11, <1>12

\* Whatever a submission resumes behind is a finite set of its chunk's events.
LEMMA Finite ==
    ASSUME Types, NEW c \in Contents, NEW js \in SUBSET DOMAIN events[c]
    PROVE  IsFiniteSet(js) /\ Cardinality(js) \in Nat
<1>1. DOMAIN events[c] = 1..Len(events[c]) /\ Len(events[c]) \in Nat
  BY Chunk
<1>2. IsFiniteSet(1..Len(events[c]))
  BY <1>1, FS_Interval
<1> QED
  BY <1>1, <1>2, FS_Subset, FS_CardinalityType

\* Counting a set of events gives a number for each outcome.
LEMMA TallyCounts ==
    ASSUME Types, NEW c \in Contents, NEW js \in SUBSET DOMAIN events[c]
    PROVE  Tally(c, js) \in [Outcomes -> Nat]
<1>1. \A o \in Outcomes : {j \in js : events[c][j].outcome = o} \in SUBSET DOMAIN events[c]
  OBVIOUS
<1>2. \A o \in Outcomes : Cardinality({j \in js : events[c][j].outcome = o}) \in Nat
  BY <1>1, Finite
<1> QED
  BY <1>2 DEF Tally

\* It starts behind the events it resumes from.
LEMMA Lists ==
    ASSUME Types, NEW s \in Submissions, ListCheckpointedChunkEvents(s)
    PROVE  /\ Moves(s) /\ sub[s].pc = "list" /\ sub'[s].found \in {{}, sub[s].found}
           /\ \/ sub'[s].pc = "idle" /\ sub'[s].done = 0 /\ sub'[s].chunk \in Contents
              \/ /\ sub'[s].pc = "create" /\ sub'[s].chunk = sub[s].chunk
                 /\ sub'[s].attempt = sub[s].attempt
                 /\ sub'[s].done = Cardinality(Checkpointed(s))
                 /\ sub'[s].done <= Len(Chunks[sub[s].chunk])
                 /\ sub'[s].counters = Tally(sub[s].chunk, Checkpointed(s))
<1> DEFINE c == sub[s].chunk
           done == Cardinality(Checkpointed(s))
<1>1. sub[s] \in SubForms(sub[s].found, sub[s].undo) /\ c \in Contents
  BY Fields
<1>2. sub[s].pc = "list"
  BY DEF ListCheckpointedChunkEvents, At
<1>3. Checkpointed(s) \in SUBSET DOMAIN events[c]
  BY DEF Checkpointed
<1>4. done \in Nat /\ Tally(c, Checkpointed(s)) \in [Outcomes -> Nat]
  BY <1>1, <1>3, Finite, TallyCounts
<1>5. Len(Chunks[c]) \in Nat
  BY <1>1, LenChunks
<1>6. CASE Answer(s)
  BY <1>2, <1>6, Answers, IdleForm
<1>7. CASE /\ ~(done > Len(Chunks[c]))
           /\ sub' = [sub EXCEPT ![s].pc = "create", ![s].stale = 0, ![s].resume = {},
                                 ![s].done = done, ![s].counters = Tally(c, Checkpointed(s))]
  <2>1. PICK tally : tally = Tally(c, Checkpointed(s))
    OBVIOUS
  <2>2. PICK d : d = done
    OBVIOUS
  <2>3. PICK r : r = [sub[s] EXCEPT !.pc = "create", !.stale = 0, !.resume = {},
                                    !.done = d, !.counters = tally]
    OBVIOUS
  <2>4. tally \in [Outcomes -> Nat] /\ d \in Nat
    BY <1>4, <2>1, <2>2
  <2>5. /\ r \in SubForms(sub[s].found, sub[s].undo) /\ r.pc = "create" /\ r.chunk = c
        /\ r.attempt = sub[s].attempt /\ r.done = d /\ r.counters = tally
        /\ r.found = sub[s].found /\ r.undo = sub[s].undo
    BY <1>1, <2>3, <2>4 DEF SubForms, Waiting
  <2>6. sub = [t \in Submissions |-> sub[t]]
    BY DEF Types
  <2>7. sub' = [sub EXCEPT ![s] = r]
    BY <1>7, <2>1, <2>2, <2>3, <2>6
  <2>8. Moves(s) /\ sub'[s] = r
    BY <2>5, <2>6, <2>7, MovesTo
  <2>9. d <= Len(Chunks[c])
    BY <1>4, <1>5, <1>7, <2>2
  <2> QED
    BY <1>2, <2>1, <2>2, <2>5, <2>8, <2>9
<1> QED
  BY <1>6, <1>7 DEF ListCheckpointedChunkEvents

\* It reads the records its chunk names.
LEMMA Finds ==
    ASSUME Types, NEW s \in Submissions, FindExisting(s)
    PROVE  /\ Moves(s) /\ sub[s].pc = "read" /\ sub'[s].pc = "process"
           /\ sub'[s].chunk = sub[s].chunk /\ sub'[s].attempt = sub[s].attempt
           /\ sub'[s].done = sub[s].done /\ sub'[s].counters = sub[s].counters
           /\ sub'[s].found = {d \in stored : \E i \in DOMAIN Chunks[sub[s].chunk] :
                                                Chunks[sub[s].chunk][i].id = d.id}
<1>1. PICK found :
         found = {d \in stored : \E i \in DOMAIN Chunks[sub[s].chunk] :
                                    Chunks[sub[s].chunk][i].id = d.id}
  OBVIOUS
<1>2. PICK r : r = [sub[s] EXCEPT !.pc = "process", !.found = found]
  OBVIOUS
<1>3. sub[s] \in SubForms(sub[s].found, sub[s].undo)
  BY Fields
<1>4. /\ r \in SubForms(found, sub[s].undo) /\ r.pc = "process" /\ r.chunk = sub[s].chunk
      /\ r.attempt = sub[s].attempt /\ r.done = sub[s].done /\ r.counters = sub[s].counters
      /\ r.found = found /\ r.undo = sub[s].undo
  BY <1>2, <1>3 DEF SubForms, Claimed
<1>5. sub = [t \in Submissions |-> sub[t]]
  BY DEF Types
<1>6. sub' = [sub EXCEPT ![s].pc = "process", ![s].found = found]
  BY <1>1 DEF FindExisting
<1>7. sub' = [sub EXCEPT ![s] = r]
  BY <1>2, <1>5, <1>6
<1>8. Moves(s) /\ sub'[s] = r
  BY <1>4, <1>5, <1>7, MovesTo
<1> QED
  BY <1>1, <1>4, <1>8 DEF FindExisting, At

\* An effect has one of the outcomes.
LEMMA EffectOutcomes ==
    ASSUME NEW c, NEW i, NEW attempt, NEW existing, NEW e \in Effects(c, i, attempt, existing)
    PROVE  e.outcome \in Outcomes
  BY DEF Effects, Outcomes

\* What applying a record as e says can leave: it is done, or the record service says
\* that it has failed, before its write or after it.
NoFailedWrite == failedWrites' = failedWrites
OneFailedWrite(c, i) == failedWrites' = [failedWrites EXCEPT ![c][i] = @ + 1]
Leaves(e, c, i, outcome, undo) ==
    \/ /\ stored' = Replaced(e.oid, e.after) /\ outcome = e.outcome
       /\ undo = IF e.after = e.before THEN {} ELSE {e}
       /\ NoFailedWrite
    \/ /\ e.after # e.before /\ outcome = "failed" /\ undo = {}
       /\ \/ stored' = stored /\ NoFailedWrite
          \/ stored' = Replaced(e.oid, e.after) /\ OneFailedWrite(c, i)

LEMMA Processes ==
    ASSUME Types, NEW s \in Submissions, ProcessTrackedRecord(s)
    PROVE  /\ Moves(s) /\ sub[s].pc = "process" /\ sub'[s].pc = "persist"
           /\ sub'[s].chunk = sub[s].chunk /\ sub'[s].attempt = sub[s].attempt
           /\ sub'[s].done = sub[s].done /\ sub'[s].counters = sub[s].counters
           /\ sub[s].done < Len(Chunks[sub[s].chunk])
           /\ faults' \in 0..MaxFaults
           /\ sub'[s].found = sub[s].found
           /\ \E e \in Effects(sub[s].chunk, sub[s].done + 1, sub[s].attempt,
                    {d \in sub[s].found : d.id = Chunks[sub[s].chunk][sub[s].done + 1].id}) :
                 Leaves(e, sub[s].chunk, sub[s].done + 1, sub'[s].outcome, sub'[s].undo)
<1>1. /\ sub[s] \in SubForms(sub[s].found, sub[s].undo) /\ sub[s].done \in Nat
      /\ sub[s].chunk \in Contents
  BY Fields
<1>2. sub[s].pc = "process" /\ sub[s].done + 1 <= Len(Chunks[sub[s].chunk])
  BY DEF ProcessTrackedRecord, At
<1>3. Len(Chunks[sub[s].chunk]) \in Nat
  BY <1>1, LenChunks
<1>4. sub[s].done < Len(Chunks[sub[s].chunk])
  BY <1>1, <1>2, <1>3
<1>5. PICK e \in Effects(sub[s].chunk, sub[s].done + 1, sub[s].attempt,
                   {d \in sub[s].found : d.id = Chunks[sub[s].chunk][sub[s].done + 1].id}) :
         \/ /\ stored' = Replaced(e.oid, e.after) /\ NoFailedWrite
            /\ sub' = [sub EXCEPT ![s].pc = "persist", ![s].outcome = e.outcome,
                         ![s].undo = IF e.after = e.before THEN {} ELSE {e}]
         \/ /\ e.after # e.before
            /\ \/ stored' = stored /\ NoFailedWrite
               \/ stored' = Replaced(e.oid, e.after) /\ OneFailedWrite(sub[s].chunk, sub[s].done + 1)
            /\ sub' = [sub EXCEPT ![s].pc = "persist", ![s].outcome = "failed", ![s].undo = {}]
  BY Zenon DEF ProcessTrackedRecord, NoFailedWrite, OneFailedWrite
<1>5a. e.outcome \in Outcomes /\ "failed" \in Outcomes
  BY EffectOutcomes DEF Outcomes
<1>6. PICK outcome, undo :
         /\ outcome \in Outcomes
         /\ sub' = [sub EXCEPT ![s].pc = "persist", ![s].outcome = outcome, ![s].undo = undo]
         /\ Leaves(e, sub[s].chunk, sub[s].done + 1, outcome, undo)
  BY <1>5, <1>5a, Zenon DEF Leaves
<1>6a. outcome \in Outcomes
  BY <1>6
<1>7. PICK r : r = [sub[s] EXCEPT !.pc = "persist", !.outcome = outcome, !.undo = undo]
  OBVIOUS
<1>8. /\ r \in SubForms(sub[s].found, undo) /\ r.pc = "persist" /\ r.chunk = sub[s].chunk
      /\ r.attempt = sub[s].attempt /\ r.done = sub[s].done /\ r.counters = sub[s].counters
      /\ r.found = sub[s].found /\ r.outcome = outcome /\ r.undo = undo
  BY <1>1, <1>7, <1>6a DEF SubForms, Claimed
<1>9. sub = [t \in Submissions |-> sub[t]]
  BY DEF Types
<1>10. sub' = [sub EXCEPT ![s] = r]
  BY <1>6, <1>7, <1>9
<1>11. Moves(s) /\ sub'[s] = r
  BY <1>8, <1>9, <1>10, MovesTo
<1>12. faults' \in 0..MaxFaults
  <2>1. faults \in 0..MaxFaults /\ MaxFaults \in Nat
    BY BoundsAssumption DEF Types
  <2>2. Faulty \/ UNCHANGED faults
    BY Zenon DEF ProcessTrackedRecord
  <2> QED
    BY <2>1, <2>2 DEF Faulty
<1>13. /\ sub'[s].found = sub[s].found /\ sub'[s].outcome = outcome /\ sub'[s].undo = undo
  BY <1>8, <1>11
<1>14. Leaves(e, sub[s].chunk, sub[s].done + 1, sub'[s].outcome, sub'[s].undo)
  BY <1>6, <1>13, Zenon
<1>15. /\ Moves(s) /\ sub'[s].pc = "persist"
       /\ sub'[s].chunk = sub[s].chunk /\ sub'[s].attempt = sub[s].attempt
       /\ sub'[s].done = sub[s].done /\ sub'[s].counters = sub[s].counters
  BY <1>8, <1>11
<1> QED
  BY <1>2, <1>4, <1>12, <1>13, <1>14, <1>15, Zenon

\* It counts the record whose event is stored and goes on, or fails behind it.
LEMMA Persists ==
    ASSUME Types, NEW s \in Submissions, PersistTrackedEvents(s)
    PROVE  /\ Moves(s) /\ sub[s].pc = "persist"
           /\ sub'[s].chunk = sub[s].chunk /\ sub'[s].attempt = sub[s].attempt
           /\ \/ /\ sub'[s].pc = "process" /\ sub'[s].done = sub[s].done + 1
                 /\ sub'[s].counters = [sub[s].counters EXCEPT ![sub[s].outcome] = @ + 1]
                 /\ sub'[s].found = sub[s].found
              \/ sub'[s].pc = "fail" /\ sub'[s].done = 0 /\ sub'[s].found = {}
<1>1. /\ sub[s] \in SubForms(sub[s].found, sub[s].undo) /\ sub[s].done \in Nat
      /\ sub[s].counters \in [Outcomes -> Nat] /\ sub[s].outcome \in Outcomes
  BY Fields
<1>2. sub[s].pc = "persist"
  BY DEF PersistTrackedEvents, At
<1>3. CASE Fails(s)
  BY <1>2, <1>3, FailsTo
<1>4. CASE sub' = [sub EXCEPT ![s].pc = "process", ![s].done = @ + 1,
                              ![s].outcome = Idle.outcome, ![s].undo = {},
                              ![s].counters[sub[s].outcome] = @ + 1]
  <2>1. PICK counters : counters = [sub[s].counters EXCEPT ![sub[s].outcome] = @ + 1]
    OBVIOUS
  <2>2. PICK done : done = sub[s].done + 1
    OBVIOUS
  <2>3. PICK outcome : outcome = Idle.outcome
    OBVIOUS
  <2>4. PICK r : r = [sub[s] EXCEPT !.pc = "process", !.done = done, !.outcome = outcome,
                                    !.undo = {}, !.counters = counters]
    OBVIOUS
  <2>5. counters \in [Outcomes -> Nat] /\ done \in Nat /\ outcome \in Outcomes
    BY <1>1, <2>1, <2>2, <2>3, IdleForm
  <2>6. /\ r \in SubForms(sub[s].found, {}) /\ r.pc = "process" /\ r.chunk = sub[s].chunk
        /\ r.attempt = sub[s].attempt /\ r.done = done /\ r.counters = counters
        /\ r.found = sub[s].found /\ r.undo = {}
    BY <1>1, <2>4, <2>5 DEF SubForms, Claimed
  <2>7. sub = [t \in Submissions |-> sub[t]]
    BY DEF Types
  <2>8. sub' = [sub EXCEPT ![s] = r]
    BY <1>4, <2>1, <2>2, <2>3, <2>4, <2>7, <1>1, Zenon DEF SubForms
  <2>9. Moves(s) /\ sub'[s] = r
    BY <2>6, <2>7, <2>8, MovesTo
  <2> QED
    BY <1>2, <2>1, <2>2, <2>6, <2>9
<1> QED
  BY <1>3, <1>4 DEF PersistTrackedEvents

\* Its chunk is done.
LEMMA Finishes ==
    ASSUME Types, NEW s \in Submissions, FinishChunk(s)
    PROVE  /\ Moves(s) /\ sub[s].pc = "process" /\ sub'[s].pc = "count" /\ sub'[s].found = {}
           /\ sub'[s].chunk = sub[s].chunk /\ sub'[s].attempt = sub[s].attempt
           /\ sub'[s].done = sub[s].done /\ sub'[s].counters = sub[s].counters
<1>1. PICK r : r = [sub[s] EXCEPT !.pc = "count", !.found = {}]
  OBVIOUS
<1>2. sub[s] \in SubForms(sub[s].found, sub[s].undo)
  BY Fields
<1>3. /\ r \in SubForms({}, sub[s].undo) /\ r.pc = "count" /\ r.chunk = sub[s].chunk
      /\ r.attempt = sub[s].attempt /\ r.done = sub[s].done /\ r.counters = sub[s].counters
      /\ r.found = {} /\ r.undo = sub[s].undo
  BY <1>1, <1>2 DEF SubForms, Claimed
<1>4. sub = [t \in Submissions |-> sub[t]]
  BY DEF Types
<1>5. sub' = [sub EXCEPT ![s].pc = "count", ![s].found = {}]
  BY DEF FinishChunk
<1>6. sub' = [sub EXCEPT ![s] = r]
  BY <1>1, <1>4, <1>5
<1>7. Moves(s) /\ sub'[s] = r
  BY <1>3, <1>4, <1>6, MovesTo
<1> QED
  BY <1>3, <1>7 DEF FinishChunk, At

-----------------------------------------------------------------------------
(* Types                                                                   *)

\* A step of s that adds no event keeps the types when it keeps s in its place.
LEMMA KeepsTypes ==
    ASSUME Types, NEW s \in Submissions, Moves(s), Placed(s)', UNCHANGED events,
           run' \in RunForms, faults' \in 0..MaxFaults,
           attempts' \in [Contents -> Seq(AttemptForms)],
           \A c \in Contents : Len(attempts[c]) <= Len(attempts'[c])
    PROVE  Types'
<1>1. \A c \in Contents : DOMAIN attempts[c] \subseteq DOMAIN attempts'[c]
  <2> TAKE c \in Contents
  <2>1. attempts[c] \in Seq(AttemptForms) /\ attempts'[c] \in Seq(AttemptForms)
    BY DEF Types
  <2> QED
    BY <2>1
<1>2. events' \in [Contents -> Seq(EventForms)]
  BY DEF Types
<1>3. \A c \in Contents : \A j \in DOMAIN events'[c] :
         events'[c][j].attempt \in DOMAIN attempts'[c] /\ events'[c][j].index \in DOMAIN Chunks[c]
  BY <1>1 DEF Types
<1>4. \A t \in Submissions : sub'[t] \in SubForms(sub'[t].found, sub'[t].undo) /\ Placed(t)'
  <2> TAKE t \in Submissions
  <2>1. CASE t = s
    BY <2>1 DEF Moves
  <2>2. CASE t # s
    <3>1. sub'[t] = sub[t]
      BY <2>2 DEF Moves
    <3>2. sub[t] \in SubForms(sub[t].found, sub[t].undo) /\ Placed(t)
      BY DEF Types
    <3>3. sub[t].chunk \in Contents /\ sub[t].attempt \in Nat
      BY Fields
    <3>4. /\ attempts[sub[t].chunk] \in Seq(AttemptForms)
          /\ attempts'[sub[t].chunk] \in Seq(AttemptForms)
      BY <3>3 DEF Types
    <3>5. Len(attempts[sub[t].chunk]) <= Len(attempts'[sub[t].chunk])
      BY <3>3
    <3>6. sub[t].attempt \in 1..Len(attempts[sub[t].chunk]) + 1
             => sub[t].attempt \in 1..Len(attempts'[sub[t].chunk]) + 1
      BY <3>3, <3>4, <3>5
    <3>7. DOMAIN attempts[sub[t].chunk] \subseteq DOMAIN attempts'[sub[t].chunk]
      BY <1>1, <3>3
    <3>8. Placed(t)'
      BY <3>1, <3>2, <3>6, <3>7, Zenon DEF Placed
    <3> QED
      BY <3>1, <3>2, <3>8
  <2> QED
    BY <2>1, <2>2
<1>5. sub' = [t \in Submissions |-> sub'[t]]
  BY DEF Moves
<1> QED
  BY <1>2, <1>3, <1>4, <1>5 DEF Types

\* A fault is one of those allowed for.
LEMMA FaultCounts ==
    ASSUME Types, Faulty
    PROVE  faults' \in 0..MaxFaults
  BY BoundsAssumption DEF Types, Faulty

\* A step that changes submission s alone.
LEMMA KeepsTypesQuietly ==
    ASSUME Types, NEW s \in Submissions, Moves(s), Placed(s)',
           UNCHANGED <<run, attempts, events>>, faults' \in 0..MaxFaults
    PROVE  Types'
<1>1. run' \in RunForms /\ attempts' \in [Contents -> Seq(AttemptForms)]
  BY DEF Types
<1>2. \A c \in Contents : Len(attempts[c]) <= Len(attempts'[c])
  BY Chunk
<1> QED
  BY <1>1, <1>2, KeepsTypes

\* A step that changes the attempts of one chunk but not how many they are.
LEMMA KeepsTypesMarking ==
    ASSUME Types, NEW s \in Submissions, Moves(s), Placed(s)', NEW c \in Contents, SameAttempts(c),
           UNCHANGED <<events>>, run' \in RunForms, faults' \in 0..MaxFaults
    PROVE  Types'
<1>1. attempts' \in [Contents -> Seq(AttemptForms)]
  BY DEF SameAttempts
<1>2. \A b \in Contents : Len(attempts[b]) <= Len(attempts'[b])
  <2> TAKE b \in Contents
  <2>1. Len(attempts[b]) \in Nat
    BY Chunk
  <2>2. Len(attempts'[b]) = Len(attempts[b])
    BY DEF SameAttempts
  <2> QED
    BY <2>1, <2>2
<1> QED
  BY <1>1, <1>2, KeepsTypes

\* A submission that is idle, or done with its records, is in its place.
LEMMA PlacedIdle ==
    ASSUME Types, NEW s \in Submissions, sub'[s].pc = "idle", sub'[s].done = 0,
           sub'[s].chunk \in Contents
    PROVE  Placed(s)'
<1>1. Len(Chunks[sub'[s].chunk]) \in Nat
  BY LenChunks
<1> QED
  BY <1>1 DEF Placed, Claimed, Waiting
LEMMA PlacedFail ==
    ASSUME Types, NEW s \in Submissions, sub'[s].pc = "fail", sub'[s].done = 0,
           sub'[s].chunk = sub[s].chunk, sub'[s].attempt = sub[s].attempt, sub[s].pc \in Claimed,
           DOMAIN attempts'[sub[s].chunk] = DOMAIN attempts[sub[s].chunk]
    PROVE  Placed(s)'
<1>1. sub[s].chunk \in Contents /\ Len(Chunks[sub[s].chunk]) \in Nat
  BY Fields, LenChunks
<1>2. sub[s].attempt \in DOMAIN attempts[sub[s].chunk]
  BY DEF Types, Placed
<1> QED
  BY <1>1, <1>2 DEF Placed, Claimed, Waiting

\* Counting a chunk leaves a run of the same form.
LEMMA CountedForm ==
    ASSUME Types, NEW c \in Contents, NEW counters \in [Outcomes -> Nat]
    PROVE  /\ Counted(c, counters) \in RunForms
           /\ Counted(c, counters).counts = [o \in Outcomes |-> run.counts[o] + counters[o]]
           /\ Counted(c, counters).chunks = run.chunks + 1
           /\ Counted(c, counters).status = "completed" /\ run.status = "completed"
                 => \/ c \in Final /\ run.counts["failed"] + counters["failed"] = 0
                    \/ c \notin Final /\ counters["failed"] = 0
           /\ Counted(c, counters).status = "completed" /\ run.status # "completed"
                 => run.counts["failed"] + counters["failed"] = 0
<1>1. run \in RunForms
  BY DEF Types
<1>2. PICK counts : counts = [o \in Outcomes |-> run.counts[o] + counters[o]]
  OBVIOUS
<1>3. run.counts \in [Outcomes -> Nat] /\ run.chunks \in Nat
      /\ run.status \in {"running", "completed", "completed_with_errors"}
  BY <1>1 DEF RunForms
<1>4. "failed" \in Outcomes
  BY DEF Outcomes
<1>5. counts \in [Outcomes -> Nat] /\ counts["failed"] = run.counts["failed"] + counters["failed"]
  BY <1>2, <1>3, <1>4
<1>6. PICK status :
         status = IF c \in Final
                  THEN IF counts["failed"] > 0 THEN "completed_with_errors" ELSE "completed"
                  ELSE IF counters["failed"] > 0 /\ run.status = "completed"
                       THEN "completed_with_errors" ELSE run.status
  OBVIOUS
<1>7. status \in {"running", "completed", "completed_with_errors"}
  BY <1>3, <1>6
<1>8. counters["failed"] \in Nat /\ counts["failed"] \in Nat
  BY <1>4, <1>5
<1>9. /\ status = "completed" /\ run.status = "completed"
            => \/ c \in Final /\ counts["failed"] = 0
               \/ c \notin Final /\ counters["failed"] = 0
      /\ status = "completed" /\ run.status # "completed" => counts["failed"] = 0
  BY <1>6, <1>8
<1>10. PICK n : n = run.chunks + 1
  OBVIOUS
<1>11. PICK r : r = [run EXCEPT !.counts = counts, !.status = status, !.chunks = n]
  OBVIOUS
<1>12. r \in RunForms /\ r.counts = counts /\ r.chunks = n /\ r.status = status
  <2>1. n \in Nat
    BY <1>3, <1>10
  <2>2. counts \in [Outcomes -> Nat]
    BY <1>5
  <2> QED
    BY <1>1, <1>7, <1>11, <2>1, <2>2 DEF RunForms
<1>13. r = Counted(c, counters)
  BY <1>2, <1>6, <1>10, <1>11, Zenon DEF Counted
<1> QED
  BY <1>2, <1>5, <1>9, <1>10, <1>12, <1>13

LEMMA InitTypes == Init => Types
<1> SUFFICES ASSUME Init PROVE Types
  OBVIOUS
<1>1. run \in RunForms
  BY DEF Init, RunForms, NoCounts
<1>2. attempts \in [Contents -> Seq(AttemptForms)] /\ events \in [Contents -> Seq(EventForms)]
  BY DEF Init
<1>3. \A c \in Contents : DOMAIN events[c] = {}
  BY DEF Init
<1>4. sub = [s \in Submissions |-> sub[s]] /\ \A s \in Submissions : sub[s] = Idle
  BY DEF Init
<1>5. \A s \in Submissions : sub[s] \in SubForms(sub[s].found, sub[s].undo)
  BY <1>4, IdleForm
<1>6. \A s \in Submissions : Placed(s)
  BY <1>4, IdleForm, LenChunks DEF Placed, Claimed, Waiting
<1>7. faults \in 0..MaxFaults
  BY BoundsAssumption DEF Init
<1> QED
  BY <1>1, <1>2, <1>3, <1>4, <1>5, <1>6, <1>7 DEF Types

\* Every step keeps the types.
LEMMA NextTypes == Types /\ [Next]_vars => Types'
<1> SUFFICES ASSUME Types, [Next]_vars PROVE Types'
  OBVIOUS
<1>1. faults \in 0..MaxFaults /\ run \in RunForms /\ attempts \in [Contents -> Seq(AttemptForms)]
  BY DEF Types
<1>2. ASSUME NEW s \in Submissions, NEW c \in Contents, Submit(s, c) PROVE Types'
  <2>1. UNCHANGED <<run, attempts, events, faults>>
    BY <1>2, Zenon DEF Submit
  <2>2. /\ Moves(s) /\ sub'[s].chunk = c /\ sub'[s].done = 0
        /\ sub'[s].attempt = Len(attempts[c]) + 1
        /\ \/ sub'[s].pc \in {"bump", "list"}
           \/ sub'[s].pc = "mark" /\ sub'[s].stale \in DOMAIN attempts[c]
    BY <1>2, Starts DEF WithStatus
  <2>3. Len(attempts[c]) \in Nat /\ Len(Chunks[c]) \in Nat
    BY Chunk
  <2>4. Placed(s)'
    BY <2>1, <2>2, <2>3 DEF Placed, Claimed, Waiting
  <2> QED
    BY <2>1, <2>2, <2>4, <1>1, KeepsTypesQuietly
<1>3. ASSUME NEW s \in Submissions, BumpDuplicateChunkCount(s) PROVE Types'
  <2>1. Moves(s) /\ Placed(s)'
    BY <1>3, Answers, PlacedIdle DEF BumpDuplicateChunkCount
  <2>2. run' = [run EXCEPT !.duplicates = @ + 1]
    BY <1>3 DEF BumpDuplicateChunkCount
  <2>3. run' \in RunForms
    <3>1. PICK n : n = run.duplicates + 1
      OBVIOUS
    <3>2. PICK r : r = [run EXCEPT !.duplicates = n]
      OBVIOUS
    <3>3. run.duplicates \in Nat
      BY <1>1 DEF RunForms
    <3>4. n \in Nat
      BY <3>1, <3>3
    <3>5. r \in RunForms
      BY <1>1, <3>2, <3>4 DEF RunForms
    <3>6. run' = r
      BY <2>2, <3>1, <3>2
    <3> QED
      BY <3>5, <3>6
  <2>4. UNCHANGED <<attempts, events, faults>>
    BY <1>3 DEF BumpDuplicateChunkCount
  <2>5. \A c \in Contents : Len(attempts[c]) <= Len(attempts'[c])
    BY <2>4, Chunk
  <2> QED
    BY <2>1, <2>3, <2>4, <2>5, <1>1, KeepsTypes
<1>4. ASSUME NEW s \in Submissions, MarkStale(s) PROVE Types'
  <2>1. /\ Moves(s) /\ sub'[s].pc = "list" /\ sub'[s].chunk = sub[s].chunk
        /\ sub'[s].attempt = sub[s].attempt /\ sub'[s].done = sub[s].done /\ sub[s].pc = "mark"
    BY <1>4, GoesTo DEF MarkStale, Pcs, Waiting, At
  <2>2. sub[s].chunk \in Contents /\ sub[s].stale \in DOMAIN attempts[sub[s].chunk]
    BY <2>1, Fields DEF Types, Placed
  <2>3. attempts' = Marked(sub[s].chunk, sub[s].stale, "failed_stale")
    BY <1>4, SMTT(30) DEF MarkStale
  <2>4. SameAttempts(sub[s].chunk)
    BY <2>2, <2>3, <1>1, Marks DEF Statuses
  <2>5. UNCHANGED <<run, events, faults>>
    BY <1>4 DEF MarkStale
  <2>6. Placed(s)
    BY DEF Types
  <2>7. Placed(s)'
    BY <2>1, <2>2, <2>4, <2>6 DEF Placed, Claimed, Waiting, SameAttempts
  <2> QED
    BY <2>1, <2>2, <2>4, <2>5, <2>7, <1>1, KeepsTypesMarking
<1>5. ASSUME NEW s \in Submissions, ListCheckpointedChunkEvents(s) PROVE Types'
  <2>1. UNCHANGED <<run, attempts, events, faults>>
    BY <1>5 DEF ListCheckpointedChunkEvents
  <2>2. Moves(s) /\ sub[s].pc = "list"
    BY <1>5, Lists
  <2>3. Placed(s) /\ sub[s].chunk \in Contents
    BY Fields DEF Types
  <2>4. CASE sub'[s].pc = "idle" /\ sub'[s].done = 0 /\ sub'[s].chunk \in Contents
    <3>1. Placed(s)'
      BY <2>4, PlacedIdle
    <3> QED
      BY <2>1, <2>2, <3>1, <1>1, KeepsTypesQuietly
  <2>5. CASE /\ sub'[s].pc = "create" /\ sub'[s].chunk = sub[s].chunk
             /\ sub'[s].attempt = sub[s].attempt /\ sub'[s].done <= Len(Chunks[sub[s].chunk])
    <3>1. Placed(s)'
      BY <2>1, <2>2, <2>3, <2>5 DEF Placed, Claimed, Waiting
    <3> QED
      BY <2>1, <2>2, <3>1, <1>1, KeepsTypesQuietly
  <2> QED
    BY <1>5, <2>4, <2>5, Lists
<1>6. ASSUME NEW s \in Submissions, CreateAttempt(s) PROVE Types'
  <2> DEFINE c == sub[s].chunk
  <2>1. UNCHANGED <<run, events, faults>> /\ sub[s].pc = "create"
    BY <1>6 DEF CreateAttempt, At
  <2>2. Placed(s) /\ c \in Contents /\ sub[s].attempt \in Nat
    BY Fields DEF Types
  <2>3. CASE /\ Len(attempts[c]) < sub[s].attempt
             /\ attempts' = [attempts EXCEPT ![c] = Append(@, NewAttempt)] /\ Goto(s, "read")
    <3>1. /\ Moves(s) /\ sub'[s].pc = "read" /\ sub'[s].chunk = c
          /\ sub'[s].attempt = sub[s].attempt /\ sub'[s].done = sub[s].done
      BY <2>3, GoesTo DEF Pcs, Claimed
    <3>2. /\ attempts' \in [Contents -> Seq(AttemptForms)]
          /\ Len(attempts'[c]) = Len(attempts[c]) + 1
          /\ \A b \in Contents \ {c} : attempts'[b] = attempts[b]
      BY <2>2, <2>3, <1>1, Adds
    <3>3. Len(attempts[c]) \in Nat /\ DOMAIN attempts'[c] = 1..Len(attempts[c]) + 1
      BY <2>2, <3>2, Chunk
    <3>4. sub[s].attempt \in DOMAIN attempts'[c]
      BY <2>1, <2>2, <2>3, <3>3 DEF Placed, Waiting
    <3>5. Placed(s)'
      BY <2>1, <2>2, <3>1, <3>4 DEF Placed, Claimed, Waiting
    <3>6. \A b \in Contents : Len(attempts[b]) <= Len(attempts'[b])
      <4> TAKE b \in Contents
      <4>1. Len(attempts[b]) \in Nat
        BY Chunk
      <4> QED
        BY <3>2, <4>1
    <3> QED
      BY <2>1, <3>1, <3>2, <3>5, <3>6, <1>1, KeepsTypes
  <2>4. CASE Answer(s) /\ UNCHANGED attempts
    <3>1. Moves(s) /\ Placed(s)'
      BY <2>4, Answers, PlacedIdle
    <3> QED
      BY <2>1, <2>4, <3>1, <1>1, KeepsTypesQuietly
  <2> QED
    BY <1>6, <2>3, <2>4 DEF CreateAttempt
<1>7. ASSUME NEW s \in Submissions, FindExisting(s) PROVE Types'
  <2>1. UNCHANGED <<run, attempts, events, faults>>
    BY <1>7 DEF FindExisting
  <2>2. /\ Moves(s) /\ sub[s].pc = "read" /\ sub'[s].pc = "process"
        /\ sub'[s].chunk = sub[s].chunk /\ sub'[s].attempt = sub[s].attempt
        /\ sub'[s].done = sub[s].done
    BY <1>7, Finds
  <2>3. Placed(s)
    BY DEF Types
  <2>4. Placed(s)'
    BY <2>1, <2>2, <2>3 DEF Placed, Claimed, Waiting
  <2> QED
    BY <2>1, <2>2, <2>4, <1>1, KeepsTypesQuietly
<1>8. ASSUME NEW s \in Submissions, ProcessTrackedRecord(s) PROVE Types'
  <2>1. UNCHANGED <<run, attempts, events>>
    BY <1>8 DEF ProcessTrackedRecord
  <2>2. /\ Moves(s) /\ sub[s].pc = "process" /\ sub'[s].pc = "persist"
        /\ sub'[s].chunk = sub[s].chunk /\ sub'[s].attempt = sub[s].attempt
        /\ sub'[s].done = sub[s].done /\ sub[s].done < Len(Chunks[sub[s].chunk])
        /\ faults' \in 0..MaxFaults
    BY <1>8, Processes
  <2>3. Placed(s)
    BY DEF Types
  <2>4. Placed(s)'
    BY <2>1, <2>2, <2>3 DEF Placed, Claimed, Waiting
  <2> QED
    BY <2>1, <2>2, <2>4, KeepsTypesQuietly
<1>9. ASSUME NEW s \in Submissions, PersistTrackedEvents(s) PROVE Types'
  <2> DEFINE c == sub[s].chunk
             event == [attempt |-> sub[s].attempt, index |-> sub[s].done + 1,
                       outcome |-> sub[s].outcome]
  <2>1. UNCHANGED <<run, attempts>>
    BY <1>9 DEF PersistTrackedEvents
  <2>2. /\ Moves(s) /\ sub[s].pc = "persist"
        /\ sub'[s].chunk = sub[s].chunk /\ sub'[s].attempt = sub[s].attempt
        /\ \/ sub'[s].pc = "process" /\ sub'[s].done = sub[s].done + 1
           \/ sub'[s].pc = "fail" /\ sub'[s].done = 0
    BY <1>9, Persists
  <2>3. /\ Placed(s) /\ c \in Contents /\ sub[s].attempt \in Nat /\ sub[s].done \in Nat
        /\ sub[s].outcome \in Outcomes
    BY Fields DEF Types
  <2>4. Len(Chunks[c]) \in Nat /\ DOMAIN Chunks[c] = 1..Len(Chunks[c])
    BY <2>3, LenChunks
  <2>5. sub[s].done < Len(Chunks[c]) /\ sub[s].attempt \in DOMAIN attempts[c]
    BY <2>2, <2>3 DEF Placed, Claimed
  <2>6. Placed(s)'
    BY <2>1, <2>2, <2>3, <2>4, <2>5 DEF Placed, Claimed, Waiting
  <2>7. faults' \in 0..MaxFaults
    BY <1>1, <1>9, FaultCounts DEF PersistTrackedEvents
  <2>8. event \in EventForms /\ event.attempt = sub[s].attempt /\ event.index = sub[s].done + 1
    BY <2>3 DEF EventForms
  <2>9. events \in [Contents -> Seq(EventForms)]
    BY DEF Types
  <2>10. events' = [events EXCEPT ![c] = Append(@, event)]
    BY <1>9, SMTT(30) DEF PersistTrackedEvents
  <2>11. /\ events' \in [Contents -> Seq(EventForms)]
         /\ Len(events'[c]) = Len(events[c]) + 1
         /\ events'[c][Len(events[c]) + 1] = event
         /\ \A j \in DOMAIN events[c] : events'[c][j] = events[c][j]
         /\ \A b \in Contents \ {c} : events'[b] = events[b]
    BY <2>3, <2>8, <2>9, <2>10, Records
  <2>12. event.attempt \in DOMAIN attempts'[c] /\ event.index \in DOMAIN Chunks[c]
    BY <2>1, <2>3, <2>4, <2>5, <2>8
  <2>13. \A b \in Contents : \A j \in DOMAIN events'[b] :
           events'[b][j].attempt \in DOMAIN attempts'[b] /\ events'[b][j].index \in DOMAIN Chunks[b]
    <3> TAKE b \in Contents
    <3> TAKE j \in DOMAIN events'[b]
    <3>1. CASE b # c
      BY <2>1, <2>11, <3>1 DEF Types
    <3>2. CASE b = c
      <4>1. DOMAIN events'[c] = 1..Len(events[c]) + 1 /\ DOMAIN events[c] = 1..Len(events[c])
            /\ Len(events[c]) \in Nat
        BY <2>3, <2>11, Chunk
      <4>2. j \in DOMAIN events[c] \/ j = Len(events[c]) + 1
        BY <3>2, <4>1
      <4>3. CASE j \in DOMAIN events[c]
        <5>1. events'[c][j] = events[c][j]
          BY <2>11, <4>3
        <5>2. events[c][j].attempt \in DOMAIN attempts[c] /\ events[c][j].index \in DOMAIN Chunks[c]
          BY <2>3, <4>3 DEF Types
        <5> QED
          BY <2>1, <3>2, <5>1, <5>2
      <4>4. CASE j = Len(events[c]) + 1
        BY <2>11, <2>12, <3>2, <4>4
      <4> QED
        BY <4>2, <4>3, <4>4
    <3> QED
      BY <3>1, <3>2
  <2>14. \A t \in Submissions : sub'[t] \in SubForms(sub'[t].found, sub'[t].undo) /\ Placed(t)'
    <3> TAKE t \in Submissions
    <3>1. CASE t = s
      BY <2>2, <2>6, <3>1 DEF Moves
    <3>2. CASE t # s
      <4>1. sub'[t] = sub[t]
        BY <2>2, <3>2 DEF Moves
      <4>2. sub[t] \in SubForms(sub[t].found, sub[t].undo) /\ Placed(t)
        BY DEF Types
      <4> QED
        BY <2>1, <4>1, <4>2 DEF Placed
    <3> QED
      BY <3>1, <3>2
  <2>15. sub' = [t \in Submissions |-> sub'[t]]
    BY <2>2 DEF Moves
  <2> QED
    BY <2>1, <2>7, <2>11, <2>13, <2>14, <2>15, <1>1 DEF Types
<1>10. ASSUME NEW s \in Submissions, Rollback(s) PROVE Types'
  <2>1. UNCHANGED <<run, attempts, events, faults>> /\ Fails(s) /\ sub[s].pc = "rollback"
    BY <1>10 DEF Rollback, At
  <2>2. Moves(s) /\ Placed(s)'
    BY <2>1, FailsTo, PlacedFail DEF Claimed
  <2> QED
    BY <2>1, <2>2, <1>1, KeepsTypesQuietly
<1>11. ASSUME NEW s \in Submissions, FinishChunk(s) PROVE Types'
  <2>1. /\ Moves(s) /\ sub[s].pc = "process" /\ sub'[s].pc = "count" /\ sub'[s].chunk = sub[s].chunk
        /\ sub'[s].attempt = sub[s].attempt /\ sub'[s].done = sub[s].done
    BY <1>11, Finishes
  <2>2. Placed(s) /\ sub[s].chunk \in Contents /\ sub[s].attempt \in DOMAIN attempts[sub[s].chunk]
    BY <2>1, Fields, SMTT(30) DEF Types, Placed, Claimed
  <2>3. attempts' = Marked(sub[s].chunk, sub[s].attempt, "processed")
    BY <1>11 DEF FinishChunk
  <2>4. SameAttempts(sub[s].chunk)
    BY <2>2, <2>3, <1>1, Marks DEF Statuses
  <2>5. UNCHANGED <<run, events, faults>>
    BY <1>11 DEF FinishChunk
  <2>6. Placed(s)'
    BY <2>1, <2>2, <2>4 DEF Placed, Claimed, Waiting, SameAttempts
  <2> QED
    BY <2>1, <2>2, <2>4, <2>5, <2>6, <1>1, KeepsTypesMarking
<1>12. ASSUME NEW s \in Submissions, UpdateRunAfterChunk(s) PROVE Types'
  <2>1. Moves(s) /\ Placed(s)' /\ sub[s].pc = "count"
    BY <1>12, Answers, PlacedIdle DEF UpdateRunAfterChunk, At
  <2>2. sub[s].chunk \in Contents /\ sub[s].attempt \in DOMAIN attempts[sub[s].chunk]
    BY <2>1, Fields DEF Types, Placed, Claimed
  <2>3. run' \in RunForms
    BY <1>12, <2>2, Fields, CountedForm DEF UpdateRunAfterChunk
  <2>4. attempts' = Met(sub[s].chunk, sub[s].attempt, "counted")
    BY <1>12 DEF UpdateRunAfterChunk, Met
  <2>5. SameAttempts(sub[s].chunk)
    BY <2>2, <2>4, <1>1, Meets DEF Fates
  <2>6. UNCHANGED <<events, faults>>
    BY <1>12 DEF UpdateRunAfterChunk
  <2> QED
    BY <2>1, <2>2, <2>3, <2>5, <2>6, <1>1, KeepsTypesMarking
<1>13. ASSUME NEW s \in Submissions, FailChunk(s) PROVE Types'
  <2>1. Moves(s) /\ Placed(s)' /\ sub[s].pc = "fail"
    BY <1>13, Answers, PlacedIdle DEF FailChunk, At
  <2>2. sub[s].chunk \in Contents /\ sub[s].attempt \in DOMAIN attempts[sub[s].chunk]
    BY <2>1, Fields, SMTT(30) DEF Types, Placed, Claimed
  <2>3. attempts' = Marked(sub[s].chunk, sub[s].attempt, "failed")
    BY <1>13 DEF FailChunk
  <2>4. SameAttempts(sub[s].chunk)
    BY <2>2, <2>3, <1>1, Marks DEF Statuses
  <2>5. UNCHANGED <<run, events, faults>>
    BY <1>13 DEF FailChunk
  <2> QED
    BY <2>1, <2>2, <2>4, <2>5, <1>1, KeepsTypesMarking
<1>14. ASSUME NEW s \in Submissions, PersistRefused(s) PROVE Types'
  <2>1. UNCHANGED <<run, attempts, events>> /\ sub[s].pc = "persist" /\ Faulty
    BY <1>14 DEF PersistRefused, At
  <2>2. CASE Fails(s)
    <3>1. Moves(s) /\ Placed(s)'
      BY <2>1, <2>2, FailsTo, PlacedFail DEF Claimed
    <3> QED
      BY <2>1, <3>1, FaultCounts, KeepsTypesQuietly
  <2>3. CASE Goto(s, "rollback")
    <3>1. /\ Moves(s) /\ sub'[s].pc = "rollback" /\ sub'[s].chunk = sub[s].chunk
          /\ sub'[s].attempt = sub[s].attempt /\ sub'[s].done = sub[s].done
      BY <2>3, GoesTo DEF Pcs, Claimed
    <3>2. Placed(s)
      BY DEF Types
    <3>3. Placed(s)'
      BY <2>1, <3>1, <3>2 DEF Placed, Claimed, Waiting
    <3> QED
      BY <2>1, <3>1, <3>3, FaultCounts, KeepsTypesQuietly
  <2> QED
    BY <1>14, <2>2, <2>3 DEF PersistRefused
<1>15. ASSUME NEW s \in Submissions, RollbackRefused(s) PROVE Types'
  <2>1. UNCHANGED <<run, events>> /\ sub[s].pc = "rollback" /\ Faulty /\ Fails(s)
    BY <1>15 DEF RollbackRefused, At
  <2>2. sub[s].chunk \in Contents /\ sub[s].attempt \in DOMAIN attempts[sub[s].chunk]
    BY <2>1, Fields DEF Types, Placed, Claimed
  <2>3. attempts' = Met(sub[s].chunk, sub[s].attempt, "rollback")
    BY <1>15, SMTT(30) DEF RollbackRefused, Met
  <2>4. SameAttempts(sub[s].chunk)
    BY <2>2, <2>3, <1>1, Meets DEF Fates, Claimed
  <2>5. Moves(s) /\ Placed(s)'
    BY <2>1, <2>4, FailsTo, PlacedFail DEF Claimed, SameAttempts
  <2> QED
    BY <2>1, <2>2, <2>4, <2>5, <1>1, FaultCounts, KeepsTypesMarking
<1>16. ASSUME NEW s \in Submissions, Refused(s) PROVE Types'
  <2>1. UNCHANGED <<run, attempts, events>> /\ sub[s].pc \in Claimed /\ Faulty /\ Fails(s)
    BY <1>16 DEF Refused, At, Claimed
  <2>2. Moves(s) /\ Placed(s)'
    BY <2>1, FailsTo, PlacedFail
  <2> QED
    BY <2>1, <2>2, FaultCounts, KeepsTypesQuietly
<1>17. ASSUME NEW s \in Submissions, Stop(s) PROVE Types'
  <2>1. UNCHANGED <<run, events>> /\ sub[s].pc \in Claimed /\ Faulty /\ Answer(s)
    BY <1>17 DEF Stop
  <2>2. sub[s].chunk \in Contents /\ sub[s].attempt \in DOMAIN attempts[sub[s].chunk]
    BY <2>1, Fields DEF Types, Placed
  <2>3. PICK fate : fate = IF attempts[sub[s].chunk][sub[s].attempt].fate = "open" THEN sub[s].pc
                           ELSE attempts[sub[s].chunk][sub[s].attempt].fate
    OBVIOUS
  <2>4. attempts[sub[s].chunk][sub[s].attempt] \in AttemptForms
    BY <2>2, Chunk
  <2>5. fate \in Fates
    BY <2>1, <2>3, <2>4 DEF AttemptForms, Fates
  <2>6. attempts' = Met(sub[s].chunk, sub[s].attempt, fate)
    BY <1>17, <2>3, <2>2, <1>1, Zenon DEF Stop, Met
  <2>7. SameAttempts(sub[s].chunk)
    BY <2>2, <2>5, <2>6, <1>1, Meets
  <2>8. Moves(s) /\ Placed(s)'
    BY <2>1, Answers, PlacedIdle
  <2> QED
    BY <2>1, <2>2, <2>7, <2>8, <1>1, FaultCounts, KeepsTypesMarking
<1>18. CASE UNCHANGED vars
  <2>1. UNCHANGED <<run, attempts, events, sub, faults>>
    BY <1>18 DEF vars
  <2> QED
    BY <2>1 DEF Types, Placed
<1> QED
  BY <1>2, <1>3, <1>4, <1>5, <1>6, <1>7, <1>8, <1>9, <1>10, <1>11, <1>12, <1>13, <1>14, <1>15,
     <1>16, <1>17, <1>18 DEF Next, Work, Fault

LEMMA TypesAlways == Spec => []Types
<1>1. Init => Types
  BY InitTypes
<1>2. Types /\ [Next]_vars => Types'
  BY NextTypes
<1> QED
  BY <1>1, <1>2, PTL DEF Spec

LEMMA InitFailures == Init => FailuresOK
<1> SUFFICES ASSUME Init PROVE FailuresOK
  OBVIOUS
<1>1. failedWrites = [c \in Contents |-> [i \in DOMAIN Chunks[c] |-> 0]]
  BY DEF Init
<1> QED
  BY <1>1 DEF FailuresOK

\* What has been applied and said to have failed is only added to.
LEMMA FailuresGrow ==
    ASSUME Types, FailuresOK, [Next]_vars
    PROVE  /\ FailuresOK'
           /\ \A c \in Contents : \A i \in DOMAIN Chunks[c] : failedWrites[c][i] <= failedWrites'[c][i]
<1>1. CASE NoFailedWrite
  <2>1. FailuresOK'
    BY <1>1 DEF FailuresOK, NoFailedWrite
  <2>2. \A c \in Contents : \A i \in DOMAIN Chunks[c] : failedWrites[c][i] \in Nat
    BY DEF FailuresOK
  <2> QED
    BY <1>1, <2>1, <2>2 DEF NoFailedWrite
<1>2. ASSUME NEW b \in Contents, NEW j \in DOMAIN Chunks[b], OneFailedWrite(b, j)
      PROVE  /\ FailuresOK'
             /\ \A c \in Contents : \A i \in DOMAIN Chunks[c] : failedWrites[c][i] <= failedWrites'[c][i]
  <2>1. \A c \in Contents : failedWrites[c] \in [DOMAIN Chunks[c] -> Nat]
    BY DEF FailuresOK
  <2>2. failedWrites = [c \in Contents |-> failedWrites[c]]
    BY DEF FailuresOK
  <2>3. failedWrites' = [failedWrites EXCEPT ![b] = [failedWrites[b] EXCEPT ![j] = @ + 1]]
    BY <1>2 DEF OneFailedWrite
  <2>4. PICK f : f = [failedWrites[b] EXCEPT ![j] = @ + 1]
    OBVIOUS
  <2>5. f \in [DOMAIN Chunks[b] -> Nat] /\ \A i \in DOMAIN Chunks[b] : failedWrites[b][i] <= f[i]
    BY <2>1, <2>4
  <2>6. failedWrites' = [c \in Contents |-> IF c = b THEN f ELSE failedWrites[c]]
    BY <2>2, <2>3, <2>4
  <2>7. FailuresOK'
    BY <2>1, <2>5, <2>6 DEF FailuresOK
  <2>8. \A c \in Contents : \A i \in DOMAIN Chunks[c] : failedWrites[c][i] \in Nat
    BY <2>1
  <2> QED
    BY <2>5, <2>6, <2>7, <2>8
<1>3. ASSUME NEW s \in Submissions, ProcessTrackedRecord(s)
      PROVE  \/ NoFailedWrite
             \/ \E b \in Contents : \E j \in DOMAIN Chunks[b] : OneFailedWrite(b, j)
  <2>1. NoFailedWrite \/ OneFailedWrite(sub[s].chunk, sub[s].done + 1)
    BY <1>3, Processes, Zenon DEF Leaves
  <2>2. sub[s].chunk \in Contents /\ sub[s].done \in Nat
    BY Fields
  <2>3. /\ Len(Chunks[sub[s].chunk]) \in Nat
        /\ DOMAIN Chunks[sub[s].chunk] = 1..Len(Chunks[sub[s].chunk])
    BY <2>2, LenChunks
  <2>4. sub[s].done < Len(Chunks[sub[s].chunk])
    BY <1>3, Processes
  <2>5. sub[s].done + 1 \in DOMAIN Chunks[sub[s].chunk]
    BY <2>2, <2>3, <2>4
  <2> QED
    BY <2>1, <2>2, <2>5
<1>4. ASSUME NEW s \in Submissions,
             \/ \E c \in Contents : Submit(s, c)
             \/ BumpDuplicateChunkCount(s) \/ MarkStale(s) \/ ListCheckpointedChunkEvents(s)
             \/ CreateAttempt(s) \/ FindExisting(s) \/ PersistTrackedEvents(s) \/ Rollback(s)
             \/ FinishChunk(s) \/ UpdateRunAfterChunk(s) \/ FailChunk(s) \/ Fault(s)
      PROVE  NoFailedWrite
  BY <1>4, Zenon DEF Submit, BumpDuplicateChunkCount, MarkStale, ListCheckpointedChunkEvents,
     CreateAttempt, FindExisting, PersistTrackedEvents, Rollback, FinishChunk,
     UpdateRunAfterChunk, FailChunk, Fault, PersistRefused, RollbackRefused, Refused, Stop,
     NoFailedWrite
<1>5. UNCHANGED vars => NoFailedWrite
  BY DEF vars, NoFailedWrite
<1> QED
  BY <1>1, <1>2, <1>3, <1>4, <1>5 DEF Next, Work

LEMMA FailuresAlways == Spec => []FailuresOK
<1>1. Init => FailuresOK
  BY InitFailures
<1>2. Types /\ FailuresOK /\ [Next]_vars => FailuresOK'
  BY FailuresGrow
<1> QED
  BY <1>1, <1>2, TypesAlways, PTL DEF Spec

LEMMA TypesSuffice == Types /\ FailuresOK => TypeOK
<1> SUFFICES ASSUME Types, FailuresOK PROVE TypeOK
  OBVIOUS
<1>1. /\ run.status \in {"running", "completed", "completed_with_errors"}
      /\ run.counts \in [Outcomes -> Nat] /\ run.chunks \in Nat /\ run.duplicates \in Nat
  <2>1. run \in RunForms
    BY DEF Types
  <2> QED
    BY <2>1 DEF RunForms
<1>2. \A c \in Contents : \A k \in DOMAIN attempts[c] :
         /\ attempts[c][k].status \in {"processing", "processed", "failed", "failed_stale"}
         /\ attempts[c][k].fate \in Claimed \union {"open", "counted"}
  <2> TAKE c \in Contents
  <2> TAKE k \in DOMAIN attempts[c]
  <2>1. attempts[c] \in Seq(AttemptForms)
    BY DEF Types
  <2>2. attempts[c][k] \in AttemptForms
    BY <2>1
  <2> QED
    BY <2>2 DEF AttemptForms
<1>3. \A c \in Contents : \A j \in DOMAIN events[c] :
         /\ events[c][j].attempt \in DOMAIN attempts[c]
         /\ events[c][j].index \in DOMAIN Chunks[c] /\ events[c][j].outcome \in Outcomes
  <2> TAKE c \in Contents
  <2> TAKE j \in DOMAIN events[c]
  <2>1. events[c] \in Seq(EventForms)
    BY DEF Types
  <2>2. events[c][j] \in EventForms
    BY <2>1
  <2>3. events[c][j].outcome \in Outcomes
    BY <2>2 DEF EventForms
  <2> QED
    BY <2>3 DEF Types
<1>4. ASSUME NEW s \in Submissions
      PROVE  LET c == sub[s].chunk
             IN  /\ sub[s].pc \in Claimed \union {"idle", "bump", "mark", "list", "create"}
                 /\ sub[s].done \in 0..Len(Chunks[c])
                 /\ sub[s].pc \in Claimed => sub[s].attempt \in DOMAIN attempts[c]
                 /\ sub[s].pc = "persist" => sub[s].done < Len(Chunks[c])
  <2>1. Placed(s)
    BY DEF Types
  <2>2. sub[s].pc \in Pcs /\ sub[s].done \in Nat /\ sub[s].chunk \in Contents
    BY Fields
  <2>3. Len(Chunks[sub[s].chunk]) \in Nat
    BY <2>2, LenChunks
  <2>4. sub[s].done \in 0..Len(Chunks[sub[s].chunk])
    BY <2>1, <2>2, <2>3 DEF Placed
  <2> QED
    BY <2>1, <2>2, <2>4 DEF Placed, Pcs, Waiting
<1>5. faults \in 0..MaxFaults /\ \A c \in Contents : failedWrites[c] \in [DOMAIN Chunks[c] -> Nat]
  BY DEF Types, FailuresOK
<1> QED
  BY <1>1, <1>2, <1>3, <1>4, <1>5 DEF TypeOK

\* Whatever the submissions of a run do, stopped and late ones included, its row, its
\* attempts and its events have their types, no submission is past the end of its
\* chunk and every event names an attempt and a record that exist.
THEOREM TypesCorrect == Spec => []TypeOK
  BY TypesAlways, FailuresAlways, TypesSuffice, PTL

\* A run that says completed has no failed record: the update that counts a chunk sets
\* the status from the counts it leaves, also when the final chunk is not the last one
\* counted, when an attempt outlives its time-out and when a chunk is counted twice.
THEOREM CompletedRunsAreClean == Spec => []CompletedIsClean
<1>1. Init => CompletedIsClean
  BY DEF Init, CompletedIsClean
<1>2. Types /\ CompletedIsClean /\ [Next]_vars => CompletedIsClean'
  <2> SUFFICES ASSUME Types, CompletedIsClean, [Next]_vars PROVE CompletedIsClean'
    OBVIOUS
  <2>1. run \in RunForms
    BY DEF Types
  <2>2. ASSUME NEW s \in Submissions, UpdateRunAfterChunk(s) PROVE CompletedIsClean'
    <3>1. run' = Counted(sub[s].chunk, sub[s].counters)
      BY <2>2 DEF UpdateRunAfterChunk
    <3>2. sub[s].chunk \in Contents /\ sub[s].counters \in [Outcomes -> Nat]
      BY Fields
    <3>3. "failed" \in Outcomes
      BY DEF Outcomes
    <3>4. run.counts["failed"] \in Nat /\ sub[s].counters["failed"] \in Nat
      BY <2>1, <3>2, <3>3 DEF RunForms
    <3>5. /\ run'.counts = [o \in Outcomes |-> run.counts[o] + sub[s].counters[o]]
          /\ run'.status = "completed" /\ run.status = "completed"
                => \/ sub[s].chunk \in Final
                      /\ run.counts["failed"] + sub[s].counters["failed"] = 0
                   \/ sub[s].chunk \notin Final /\ sub[s].counters["failed"] = 0
          /\ run'.status = "completed" /\ run.status # "completed"
                => run.counts["failed"] + sub[s].counters["failed"] = 0
      BY <3>1, <3>2, CountedForm
    <3>6. run'.counts["failed"] = run.counts["failed"] + sub[s].counters["failed"]
      BY <3>3, <3>5
    <3>7. run.status = "completed" => run.counts["failed"] = 0
      BY DEF CompletedIsClean
    <3>8. run'.status = "completed" => run'.counts["failed"] = 0
      BY <3>4, <3>5, <3>6, <3>7
    <3> QED
      BY <3>8 DEF CompletedIsClean
  <2>3. ASSUME NEW s \in Submissions, BumpDuplicateChunkCount(s) PROVE CompletedIsClean'
    <3>1. PICK n : n = run.duplicates + 1
      OBVIOUS
    <3>2. run' = [run EXCEPT !.duplicates = n]
      BY <2>3, <3>1 DEF BumpDuplicateChunkCount
    <3>3. PICK r : r = [run EXCEPT !.duplicates = n]
      OBVIOUS
    <3>4. r.status = run.status /\ r.counts = run.counts
      BY <2>1, <3>3, Zenon DEF RunForms
    <3> QED
      BY <3>2, <3>3, <3>4 DEF CompletedIsClean
  <2>4. CASE UNCHANGED run
    BY <2>4 DEF CompletedIsClean
  <2>5. \/ UNCHANGED run
        \/ \E s \in Submissions : UpdateRunAfterChunk(s) \/ BumpDuplicateChunkCount(s)
    BY ZenonT(40) DEF Next, Work, Fault, vars, Submit, MarkStale, ListCheckpointedChunkEvents,
       CreateAttempt, FindExisting, ProcessTrackedRecord, PersistTrackedEvents, Rollback,
       FinishChunk, FailChunk, PersistRefused, RollbackRefused, Refused, Stop
  <2> QED
    BY <2>2, <2>3, <2>4, <2>5
<1> QED
  BY <1>1, <1>2, TypesAlways, PTL DEF Spec

-----------------------------------------------------------------------------
(* One attempt stands                                                      *)

\* An attempt that is held is the last of its chunk, and stands.
LEMMA HeldIsLast ==
    ASSUME IndInv, NEW s \in Submissions, sub[s].pc \in Claimed
    PROVE  /\ sub[s].chunk \in Contents /\ sub[s].attempt = Len(attempts[sub[s].chunk])
           /\ sub[s].attempt \in DOMAIN attempts[sub[s].chunk]
           /\ attempts[sub[s].chunk][sub[s].attempt] \in AttemptForms
           /\ attempts[sub[s].chunk][sub[s].attempt].status \in {"processing", "processed"}
<1> DEFINE c == sub[s].chunk
           k == sub[s].attempt
<1>1. Types /\ Holds(s) /\ OnlyLastStands
  BY DEF IndInv
<1>2. c \in Contents /\ Placed(s)
  BY <1>1, Fields DEF Types
<1>3. k \in DOMAIN attempts[c]
  BY <1>2 DEF Placed
<1>4. /\ attempts[c] \in Seq(AttemptForms) /\ DOMAIN attempts[c] = 1..Len(attempts[c])
      /\ Len(attempts[c]) \in Nat
  BY <1>1, <1>2, Chunk
<1>5. attempts[c][k].status \in {"processing", "processed"}
  BY <1>1 DEF Holds, Claimed, Working
<1>6. ~(k < Len(attempts[c]))
  BY <1>1, <1>2, <1>3, <1>5 DEF OnlyLastStands
<1> QED
  BY <1>2, <1>3, <1>4, <1>5, <1>6

\* No submission waits for the attempt that would follow one that is held.
LEMMA HeldIsNotAwaited ==
    ASSUME ~SlowAttempts, IndInv, NEW s \in Submissions, sub[s].pc \in Claimed,
           NEW t \in Submissions, sub[t].pc \in Waiting, sub[t].chunk = sub[s].chunk
    PROVE  sub[t].attempt # Len(attempts[sub[s].chunk]) + 1
<1> SUFFICES ASSUME sub[t].attempt = Len(attempts[sub[s].chunk]) + 1 PROVE FALSE
  OBVIOUS
<1>1. /\ sub[s].attempt \in DOMAIN attempts[sub[s].chunk]
      /\ attempts[sub[s].chunk][sub[s].attempt].status \in {"processing", "processed"}
  BY HeldIsLast
<1>2. Awaits(t)
  BY DEF IndInv
<1>3. sub[t].pc = "mark" /\ sub[t].stale = sub[s].attempt
  BY <1>1, <1>2 DEF Awaits
<1>4. ProcessingChunkStale(sub[s].chunk, sub[s].attempt)
  BY <1>2, <1>3 DEF Awaits
<1> QED
  BY <1>4 DEF ProcessingChunkStale

\* A step that changes submission s alone, and takes no attempt.
LEMMA KeepsQuietly ==
    ASSUME ~SlowAttempts, IndInv, Types', NEW s \in Submissions, Moves(s),
           UNCHANGED <<attempts, events>>,
           sub'[s].pc \in Claimed => /\ sub[s].pc \in Claimed /\ sub'[s].chunk = sub[s].chunk
                                     /\ sub'[s].attempt = sub[s].attempt,
           Holds(s)', Awaits(s)'
    PROVE  IndInv'
<1>1. \A t \in Submissions \ {s} : sub'[t] = sub[t]
  BY DEF Moves
<1>2. OnlyLastStands' /\ CountedIsProcessed' /\ EventsInOrder'
  BY DEF IndInv, OnlyLastStands, CountedIsProcessed, EventsInOrder
<1>3. HoldersAreAlone'
  <2>1. HoldersAreAlone
    BY DEF IndInv
  <2> QED
    BY <1>1, <2>1 DEF HoldersAreAlone
<1>4. ASSUME NEW t \in Submissions, t # s PROVE Holds(t)' /\ Awaits(t)'
  <2>1. sub'[t] = sub[t] /\ Holds(t) /\ Awaits(t)
    BY <1>1, <1>4 DEF IndInv
  <2>2. Holds(t)'
    BY <2>1 DEF Holds, CountersAreEvents
  <2>3. CountersAreEvents(t) => CountersAreEvents(t)'
    BY <2>1 DEF CountersAreEvents
  <2>4. ASSUME sub[t].pc = "mark" PROVE ProcessingChunkStale(sub[t].chunk, sub[t].stale)'
    <3>1. \A u \in Submissions :
             ~(sub[u].pc \in Claimed /\ sub[u].chunk = sub[t].chunk /\ sub[u].attempt = sub[t].stale)
      BY <2>1, <2>4 DEF Awaits, ProcessingChunkStale
    <3>2. \A u \in Submissions :
             ~(sub'[u].pc \in Claimed /\ sub'[u].chunk = sub[t].chunk /\ sub'[u].attempt = sub[t].stale)
      BY <1>1, <3>1
    <3> QED
      BY <2>1, <3>2 DEF ProcessingChunkStale
  <2>5. Awaits(t)'
    BY <2>1, <2>3, <2>4, Zenon DEF Awaits
  <2> QED
    BY <2>2, <2>5
<1> QED
  BY <1>2, <1>3, <1>4 DEF IndInv

\* A step of s that changes the attempt it holds, and only that one.
LEMMA KeepsMarkingOwn ==
    ASSUME ~SlowAttempts, IndInv, Types', NEW s \in Submissions, Moves(s), UNCHANGED events,
           sub[s].pc \in Claimed, SameAttempts(sub[s].chunk),
           \A j \in DOMAIN attempts[sub[s].chunk] \ {sub[s].attempt} :
              attempts'[sub[s].chunk][j] = attempts[sub[s].chunk][j],
           sub'[s].pc \notin Waiting,
           sub'[s].pc \in Claimed => /\ sub'[s].chunk = sub[s].chunk
                                     /\ sub'[s].attempt = sub[s].attempt,
           Holds(s)',
           attempts'[sub[s].chunk][sub[s].attempt].fate = "counted"
              => attempts'[sub[s].chunk][sub[s].attempt].status = "processed",
           attempts'[sub[s].chunk][sub[s].attempt].status = "processed"
              => Len(events[sub[s].chunk]) = Len(Chunks[sub[s].chunk])
    PROVE  IndInv'
<1> DEFINE c == sub[s].chunk
           k == sub[s].attempt
<1>1. \A t \in Submissions \ {s} : sub'[t] = sub[t]
  BY DEF Moves
<1>2. /\ c \in Contents /\ k = Len(attempts[c]) /\ k \in DOMAIN attempts[c]
      /\ Len(attempts'[c]) = Len(attempts[c]) /\ DOMAIN attempts'[c] = DOMAIN attempts[c]
      /\ \A b \in Contents \ {c} : attempts'[b] = attempts[b]
  BY HeldIsLast DEF SameAttempts
<1>3. OnlyLastStands'
  <2>1. OnlyLastStands /\ Len(attempts[c]) \in Nat
    BY <1>2, Chunk DEF IndInv
  <2>2. ASSUME NEW b \in Contents, NEW j \in DOMAIN attempts'[b], j < Len(attempts'[b])
        PROVE  attempts'[b][j].status \in {"failed", "failed_stale"}
    <3>1. CASE b = c
      <4>1. j # k /\ j \in DOMAIN attempts[c] /\ j < Len(attempts[c])
        BY <1>2, <2>1, <2>2, <3>1
      <4>2. attempts'[c][j] = attempts[c][j]
        BY <4>1
      <4> QED
        BY <1>2, <2>1, <3>1, <4>1, <4>2 DEF OnlyLastStands
    <3>2. CASE b # c
      BY <1>2, <2>1, <2>2, <3>2 DEF OnlyLastStands
    <3> QED
      BY <3>1, <3>2
  <2> QED
    BY <2>2 DEF OnlyLastStands
<1>4. CountedIsProcessed'
  <2>1. CountedIsProcessed
    BY DEF IndInv
  <2>2. ASSUME NEW b \in Contents, NEW j \in DOMAIN attempts'[b], attempts'[b][j].fate = "counted"
        PROVE  attempts'[b][j].status = "processed"
    <3>1. CASE b = c /\ j = k
      BY <2>2, <3>1
    <3>2. CASE b = c /\ j # k
      BY <1>2, <2>1, <2>2, <3>2 DEF CountedIsProcessed
    <3>3. CASE b # c
      BY <1>2, <2>1, <2>2, <3>3 DEF CountedIsProcessed
    <3> QED
      BY <3>1, <3>2, <3>3
  <2> QED
    BY <2>2 DEF CountedIsProcessed
<1>5. EventsInOrder'
  <2>1. EventsInOrder
    BY DEF IndInv
  <2>2. ASSUME NEW b \in Contents, NEW j \in DOMAIN attempts'[b],
               attempts'[b][j].status = "processed"
        PROVE  Len(events[b]) = Len(Chunks[b])
    <3>1. CASE b = c /\ j = k
      BY <2>2, <3>1
    <3>2. CASE b = c /\ j # k
      BY <1>2, <2>1, <2>2, <3>2 DEF EventsInOrder
    <3>3. CASE b # c
      BY <1>2, <2>1, <2>2, <3>3 DEF EventsInOrder
    <3> QED
      BY <3>1, <3>2, <3>3
  <2> QED
    BY <2>1, <2>2 DEF EventsInOrder
<1>6. HoldersAreAlone'
  <2>1. HoldersAreAlone
    BY DEF IndInv
  <2> QED
    BY <1>1, <2>1 DEF HoldersAreAlone
<1>7. ASSUME NEW t \in Submissions, t # s PROVE Holds(t)' /\ Awaits(t)'
  <2>1. sub'[t] = sub[t] /\ Holds(t) /\ Awaits(t) /\ HoldersAreAlone /\ Types
    BY <1>1, <1>7 DEF IndInv
  <2>2. sub[t].chunk \in Contents
    BY <2>1, Fields
  <2>3. Holds(t)'
    <3>1. CASE sub[t].pc \in Claimed
      <4>1. sub[t].chunk # c
        BY <1>7, <2>1, <3>1 DEF HoldersAreAlone
      <4>2. attempts'[sub[t].chunk] = attempts[sub[t].chunk]
        BY <1>2, <2>2, <4>1, SMTT(30)
      <4> QED
        BY <2>1, <4>2 DEF Holds, CountersAreEvents
    <3>2. CASE sub[t].pc \notin Claimed
      BY <2>1, <3>2 DEF Holds
    <3> QED
      BY <3>1, <3>2, SMTT(30)
  <2>4. CountersAreEvents(t) => CountersAreEvents(t)'
    BY <2>1 DEF CountersAreEvents
  <2>5. ASSUME sub[t].pc = "mark"
        PROVE  /\ ProcessingChunkStale(sub[t].chunk, sub[t].stale)'
               /\ attempts'[sub[t].chunk][sub[t].stale].status # "processed"
    <3>1. \A u \in Submissions :
             ~(sub[u].pc \in Claimed /\ sub[u].chunk = sub[t].chunk /\ sub[u].attempt = sub[t].stale)
      BY <2>1, <2>5 DEF Awaits, ProcessingChunkStale
    <3>2. \A u \in Submissions :
             ~(sub'[u].pc \in Claimed /\ sub'[u].chunk = sub[t].chunk /\ sub'[u].attempt = sub[t].stale)
      BY <1>1, <3>1
    <3>3. sub[t].stale \in DOMAIN attempts[sub[t].chunk]
      BY <2>1, <2>5 DEF Types, Placed
    <3>4. ~(sub[t].chunk = c /\ sub[t].stale = k)
      BY <3>1
    <3>5. attempts'[sub[t].chunk][sub[t].stale] = attempts[sub[t].chunk][sub[t].stale]
      BY <1>2, <2>2, <3>3, <3>4
    <3>6. attempts[sub[t].chunk][sub[t].stale].status # "processed"
      BY <2>1, <2>5 DEF Awaits
    <3> QED
      BY <2>1, <3>2, <3>5, <3>6 DEF ProcessingChunkStale
  <2>6. ASSUME sub[t].pc \in Waiting, sub[t].attempt = Len(attempts'[sub[t].chunk]) + 1
        PROVE  sub[t].chunk # c
    BY <1>2, <2>1, <2>6, HeldIsNotAwaited
  <2>7. ASSUME sub[t].pc \in Waiting, sub[t].attempt = Len(attempts'[sub[t].chunk]) + 1
        PROVE  attempts'[sub[t].chunk] = attempts[sub[t].chunk]
    BY <1>2, <2>2, <2>6, <2>7
  <2>8. Awaits(t)'
    BY <2>1, <2>4, <2>5, <2>7, Zenon DEF Awaits
  <2> QED
    BY <2>3, <2>8
<1>8. Awaits(s)'
  BY DEF Awaits, Waiting
<1> QED
  BY <1>3, <1>4, <1>5, <1>6, <1>7, <1>8 DEF IndInv

\* A submission that answers, or is to mark its attempt failed, promises no more.
LEMMA HoldsIdle ==
    ASSUME NEW s, sub'[s].pc = "idle"
    PROVE  Holds(s)' /\ Awaits(s)' /\ sub'[s].pc \notin Claimed /\ sub'[s].pc \notin Waiting
  BY DEF Holds, Awaits, Claimed, Waiting

LEMMA HoldsFail ==
    ASSUME NEW s, sub[s].pc \in Claimed, Holds(s),
           sub'[s].pc = "fail", sub'[s].chunk = sub[s].chunk, sub'[s].attempt = sub[s].attempt,
           attempts'[sub[s].chunk][sub[s].attempt].status
              = attempts[sub[s].chunk][sub[s].attempt].status,
           \/ attempts'[sub[s].chunk][sub[s].attempt].fate
                 = attempts[sub[s].chunk][sub[s].attempt].fate
           \/ /\ attempts[sub[s].chunk][sub[s].attempt].status = "processing"
              /\ attempts'[sub[s].chunk][sub[s].attempt].fate # "counted"
    PROVE  Holds(s)' /\ Awaits(s)' /\ sub'[s].pc \notin Waiting
<1>1. attempts[sub[s].chunk][sub[s].attempt].status \in {"processing", "processed"}
  BY DEF Holds, Claimed, Working
<1>2. Awaits(s)' /\ sub'[s].pc \notin Waiting
  BY DEF Awaits, Waiting
<1>3. Holds(s)'
  BY <1>1 DEF Holds, Working
<1> QED
  BY <1>2, <1>3

\* A new submission: no other attempt at its chunk stands but the stale one, and it
\* resumes behind all of them.
LEMMA SubmitKeeps ==
    ASSUME ~SlowAttempts, IndInv, Types', NEW s \in Submissions, NEW c \in Contents, Submit(s, c)
    PROVE  IndInv'
<1>1. UNCHANGED <<attempts, events>>
  BY Zenon DEF Submit
<1>2. Types /\ OnlyLastStands
  BY DEF IndInv
<1>3. /\ Moves(s) /\ sub[s].pc = "idle" /\ sub'[s].chunk = c
      /\ sub'[s].attempt = Len(attempts[c]) + 1
      /\ \/ sub'[s].pc = "bump"
         \/ /\ sub'[s].pc = "list" /\ sub'[s].resume = ResumeAttempts(c)
            /\ WithStatus(c, {"processed"}) = {} /\ WithStatus(c, {"processing"}) = {}
         \/ /\ sub'[s].pc = "mark" /\ sub'[s].stale \in WithStatus(c, {"processing"})
            /\ WithStatus(c, {"processed"}) = {}
            /\ sub'[s].resume = ResumeAttempts(c) \union {sub'[s].stale}
            /\ ProcessingChunkStale(c, sub'[s].stale)
  BY <1>2, Starts
<1>4. Holds(s)' /\ sub'[s].pc \notin Claimed
  BY <1>3 DEF Holds, Claimed
<1>5. /\ DOMAIN attempts[c] = 1..Len(attempts[c]) /\ Len(attempts[c]) \in Nat
      /\ attempts[c] \in Seq(AttemptForms)
  BY <1>2, Chunk
<1>6. \A k \in DOMAIN attempts[c] : attempts[c][k].status \in Statuses
  <2> TAKE k \in DOMAIN attempts[c]
  <2>1. attempts[c][k] \in AttemptForms
    BY <1>5
  <2> QED
    BY <2>1 DEF AttemptForms, Statuses
<1>7. Awaits(s)'
  <2>1. CASE sub'[s].pc = "bump"
    BY <2>1 DEF Awaits, Waiting
  <2>2. CASE /\ sub'[s].pc = "list" /\ sub'[s].resume = ResumeAttempts(c)
             /\ WithStatus(c, {"processed"}) = {} /\ WithStatus(c, {"processing"}) = {}
    <3>1. \A k \in DOMAIN attempts[c] : attempts[c][k].status \in {"failed", "failed_stale"}
      BY <1>6, <2>2 DEF WithStatus, Statuses
    <3>2. ResumeAttempts(c) = DOMAIN attempts[c]
      BY <3>1 DEF ResumeAttempts, WithStatus
    <3> QED
      BY <1>1, <1>3, <2>2, <3>1, <3>2 DEF Awaits
  <2>3. CASE /\ sub'[s].pc = "mark" /\ sub'[s].stale \in WithStatus(c, {"processing"})
             /\ WithStatus(c, {"processed"}) = {}
             /\ sub'[s].resume = ResumeAttempts(c) \union {sub'[s].stale}
             /\ ProcessingChunkStale(c, sub'[s].stale)
    <3> DEFINE j == sub'[s].stale
    <3>1. j \in DOMAIN attempts[c] /\ attempts[c][j].status = "processing"
      BY <2>3 DEF WithStatus
    <3>2. ~(j < Len(attempts[c]))
      BY <1>2, <3>1 DEF OnlyLastStands
    <3>3. \A k \in DOMAIN attempts[c] : k # j => k < Len(attempts[c])
      BY <1>5, <3>1, <3>2
    <3>4. \A k \in DOMAIN attempts[c] :
             attempts[c][k].status \in {"failed", "failed_stale"} \/ k = j
      BY <1>2, <3>3 DEF OnlyLastStands
    <3>5. sub'[s].resume = DOMAIN attempts[c]
      BY <2>3, <3>1, <3>4 DEF ResumeAttempts, WithStatus
    <3>6. \A u \in Submissions :
             ~(sub'[u].pc \in Claimed /\ sub'[u].chunk = c /\ sub'[u].attempt = j)
      <4>1. \A u \in Submissions :
               ~(sub[u].pc \in Claimed /\ sub[u].chunk = c /\ sub[u].attempt = j)
        BY <2>3 DEF ProcessingChunkStale
      <4> QED
        BY <1>3, <1>4, <4>1 DEF Moves
    <3>7. ProcessingChunkStale(sub[s].chunk, sub[s].stale)'
      BY <1>3, <3>6 DEF ProcessingChunkStale
    <3> QED
      BY <1>1, <1>3, <2>3, <3>1, <3>4, <3>5, <3>7 DEF Awaits
  <2> QED
    BY <1>3, <2>1, <2>2, <2>3
<1> QED
  BY <1>1, <1>3, <1>4, <1>7, KeepsQuietly

\* Behind all the events of the chunk, with their counts, unless its number is taken.
LEMMA ListKeeps ==
    ASSUME ~SlowAttempts, IndInv, Types', NEW s \in Submissions, ListCheckpointedChunkEvents(s)
    PROVE  IndInv'
<1> DEFINE c == sub[s].chunk
<1>1. UNCHANGED <<attempts, events>>
  BY DEF ListCheckpointedChunkEvents
<1>2. Types /\ Awaits(s) /\ c \in Contents
  BY Fields DEF IndInv
<1>3. /\ Moves(s) /\ sub[s].pc = "list"
      /\ \/ sub'[s].pc = "idle"
         \/ /\ sub'[s].pc = "create" /\ sub'[s].chunk = c /\ sub'[s].attempt = sub[s].attempt
            /\ sub'[s].done = Cardinality(Checkpointed(s))
            /\ sub'[s].counters = Tally(c, Checkpointed(s))
  BY <1>2, Lists
<1>4. CASE sub'[s].pc = "idle"
  BY <1>1, <1>3, <1>4, HoldsIdle, KeepsQuietly
<1>5. CASE /\ sub'[s].pc = "create" /\ sub'[s].chunk = c /\ sub'[s].attempt = sub[s].attempt
           /\ sub'[s].done = Cardinality(Checkpointed(s))
           /\ sub'[s].counters = Tally(c, Checkpointed(s))
  <2>1. Holds(s)' /\ sub'[s].pc \notin Claimed
    BY <1>5 DEF Holds, Claimed
  <2>2. ASSUME sub[s].attempt = Len(attempts[c]) + 1
        PROVE  /\ \A k \in DOMAIN attempts[c] : attempts[c][k].status \in {"failed", "failed_stale"}
               /\ sub'[s].done = Len(events[c]) /\ CountersAreEvents(s)'
    <3>1. /\ \A k \in DOMAIN attempts[c] : attempts[c][k].status \in {"failed", "failed_stale"}
          /\ sub[s].resume = DOMAIN attempts[c]
      BY <1>2, <1>3, <2>2 DEF Awaits, Waiting
    <3>2. Checkpointed(s) = DOMAIN events[c]
      BY <1>2, <3>1 DEF Checkpointed, Types
    <3>3. DOMAIN events[c] = 1..Len(events[c]) /\ Len(events[c]) \in Nat
      BY <1>2, Chunk
    <3>4. Cardinality(1..Len(events[c])) = Len(events[c])
      BY <3>3, FS_Interval
    <3>5. \A o \in Outcomes : sub'[s].counters[o]
             = Cardinality({j \in DOMAIN events[c] : events[c][j].outcome = o})
      BY <1>5, <3>2 DEF Tally
    <3>6. CountersAreEvents(s)'
      BY <1>1, <1>5, <3>5 DEF CountersAreEvents
    <3> QED
      BY <1>5, <3>1, <3>2, <3>3, <3>4, <3>6
  <2>3. Awaits(s)'
    BY <1>1, <1>5, <2>2 DEF Awaits
  <2> QED
    BY <1>1, <1>3, <2>1, <2>3, KeepsQuietly
<1> QED
  BY <1>3, <1>4, <1>5

\* The records of a chunk: the attempt stays held until the submission is done with it.
LEMMA WorkKeeps ==
    ASSUME ~SlowAttempts, IndInv, Types', NEW s \in Submissions,
           \/ FindExisting(s) \/ ProcessTrackedRecord(s) \/ PersistRefused(s) \/ Rollback(s)
           \/ Refused(s) \/ BumpDuplicateChunkCount(s)
    PROVE  IndInv'
<1>1. Types /\ Holds(s)
  BY DEF IndInv
<1>2. ASSUME Moves(s), UNCHANGED <<attempts, events>>, sub[s].pc \in Working, sub'[s].pc \in Working,
             sub'[s].chunk = sub[s].chunk, sub'[s].attempt = sub[s].attempt,
             sub'[s].done = sub[s].done, sub'[s].counters = sub[s].counters
      PROVE  IndInv'
  <2>1. Holds(s)'
    BY <1>1, <1>2 DEF Holds, CountersAreEvents, Working, Claimed
  <2>2. Awaits(s)' /\ sub[s].pc \in Claimed
    BY <1>2 DEF Awaits, Waiting, Working, Claimed
  <2> QED
    BY <1>2, <2>1, <2>2, KeepsQuietly, SMTT(30)
<1>3. ASSUME Fails(s), UNCHANGED <<attempts, events>>, sub[s].pc \in Claimed PROVE IndInv'
  <2>1. /\ Moves(s) /\ sub'[s].pc = "fail"
        /\ sub'[s].chunk = sub[s].chunk /\ sub'[s].attempt = sub[s].attempt
    BY <1>1, <1>3, FailsTo
  <2>2. Holds(s)' /\ Awaits(s)'
    BY <1>1, <1>3, <2>1, HoldsFail
  <2> QED
    BY <1>3, <2>1, <2>2, KeepsQuietly
<1>4. CASE FindExisting(s)
  <2>1. UNCHANGED <<attempts, events>>
    BY <1>4 DEF FindExisting
  <2> QED
    BY <1>1, <1>2, <1>4, <2>1, Finds DEF Working
<1>5. CASE ProcessTrackedRecord(s)
  <2>1. UNCHANGED <<attempts, events>>
    BY <1>5 DEF ProcessTrackedRecord
  <2> QED
    BY <1>1, <1>2, <1>5, <2>1, Processes, SMTT(30) DEF Working
<1>6. CASE PersistRefused(s)
  <2>1. UNCHANGED <<attempts, events>> /\ sub[s].pc = "persist" /\ (Fails(s) \/ Goto(s, "rollback"))
    BY <1>6 DEF PersistRefused, At
  <2>2. CASE Fails(s)
    BY <1>3, <2>1, <2>2 DEF Claimed
  <2>3. CASE Goto(s, "rollback")
    BY <1>1, <1>2, <2>1, <2>3, GoesTo DEF Working, Pcs, Claimed
  <2> QED
    BY <2>1, <2>2, <2>3
<1>7. CASE Rollback(s)
  <2>1. UNCHANGED <<attempts, events>> /\ sub[s].pc = "rollback" /\ Fails(s)
    BY <1>7 DEF Rollback, At
  <2> QED
    BY <1>3, <2>1 DEF Claimed
<1>8. CASE Refused(s)
  <2>1. UNCHANGED <<attempts, events>> /\ sub[s].pc \in Claimed /\ Fails(s)
    BY <1>8 DEF Refused, At, Claimed
  <2> QED
    BY <1>3, <2>1
<1>9. CASE BumpDuplicateChunkCount(s)
  <2>1. UNCHANGED <<attempts, events>> /\ Answer(s)
    BY <1>9 DEF BumpDuplicateChunkCount
  <2>2. Moves(s) /\ sub'[s].pc = "idle"
    BY <1>1, <2>1, Answers
  <2> QED
    BY <2>1, <2>2, HoldsIdle, KeepsQuietly
<1> QED
  BY <1>4, <1>5, <1>6, <1>7, <1>8, <1>9

\* The end of an attempt: its submission marks it, or says what became of it.
LEMMA EndKeeps ==
    ASSUME ~SlowAttempts, IndInv, Types', NEW s \in Submissions,
           \/ FinishChunk(s) \/ UpdateRunAfterChunk(s) \/ FailChunk(s)
           \/ RollbackRefused(s) \/ Stop(s)
    PROVE  IndInv'
<1> DEFINE c == sub[s].chunk
           k == sub[s].attempt
<1>1. Types /\ Holds(s) /\ EventsInOrder /\ CountedIsProcessed
  BY SMTT(30) DEF IndInv
<1>2. sub[s].pc \in Claimed /\ UNCHANGED events
  BY DEF FinishChunk, UpdateRunAfterChunk, FailChunk, RollbackRefused, Stop, At, Claimed
<1>3. /\ c \in Contents /\ k \in DOMAIN attempts[c] /\ attempts[c][k] \in AttemptForms
      /\ attempts[c][k].status \in {"processing", "processed"}
  BY <1>2, HeldIsLast
<1>4. attempts \in [Contents -> Seq(AttemptForms)]
  BY <1>1 DEF Types
<1>5. attempts[c][k].status = "processed" => Len(events[c]) = Len(Chunks[c])
  BY <1>1, <1>3 DEF EventsInOrder
<1>6. attempts[c][k].fate # "counted"
  BY <1>1, <1>2, SMTT(30) DEF Holds
<1>7. CASE FinishChunk(s)
  <2>1. /\ Moves(s) /\ sub[s].pc = "process" /\ sub'[s].pc = "count" /\ sub'[s].chunk = c
        /\ sub'[s].attempt = k /\ sub'[s].counters = sub[s].counters
    BY <1>1, <1>7, Finishes
  <2>2. attempts' = Marked(c, k, "processed") /\ sub[s].done = Len(Chunks[c])
    BY <1>7, SMTT(30) DEF FinishChunk
  <2>3. /\ SameAttempts(c) /\ attempts'[c][k].status = "processed"
        /\ attempts'[c][k].fate = attempts[c][k].fate
        /\ \A j \in DOMAIN attempts[c] \ {k} : attempts'[c][j] = attempts[c][j]
    BY <1>3, <1>4, <2>2, Marks DEF Statuses
  <2>4. Len(events[c]) = Len(Chunks[c]) /\ CountersAreEvents(s) /\ attempts[c][k].status = "processing"
    BY <1>1, <2>1, <2>2 DEF Holds, Working, Claimed
  <2>5. attempts[c][k].fate = "open"
    \* Its submission has met no fault: it is still at work.
    BY <1>1, <2>1 DEF Holds, Working, Claimed
  <2>6. CountersAreEvents(s)'
    BY <1>2, <2>1, <2>4 DEF CountersAreEvents
  <2>7. Holds(s)' /\ sub'[s].pc \notin Waiting
    BY <2>1, <2>3, <2>5, <2>6 DEF Holds, Working, Waiting
  <2> QED
    BY <1>2, <2>1, <2>3, <2>4, <2>7, KeepsMarkingOwn
<1>8. CASE UpdateRunAfterChunk(s)
  <2>1. Answer(s) /\ sub[s].pc = "count"
    BY <1>8 DEF UpdateRunAfterChunk, At
  <2>2. Moves(s) /\ sub'[s].pc = "idle"
    BY <1>1, <2>1, Answers
  <2>3. attempts' = Met(c, k, "counted")
    BY <1>8 DEF UpdateRunAfterChunk, Met
  <2>4. /\ SameAttempts(c) /\ attempts'[c][k].status = attempts[c][k].status
        /\ \A j \in DOMAIN attempts[c] \ {k} : attempts'[c][j] = attempts[c][j]
    BY <1>3, <1>4, <2>3, Meets DEF Fates
  <2>5. attempts[c][k].status = "processed"
    BY <1>1, <2>1, SMTT(30) DEF Holds, Claimed
  <2> QED
    BY <1>2, <1>5, <2>2, <2>4, <2>5, HoldsIdle, KeepsMarkingOwn
<1>9. CASE FailChunk(s)
  <2>1. Answer(s)
    BY <1>9 DEF FailChunk
  <2>2. Moves(s) /\ sub'[s].pc = "idle"
    BY <1>1, <2>1, Answers
  <2>3. attempts' = Marked(c, k, "failed")
    BY <1>9, SMTT(30) DEF FailChunk
  <2>4. /\ SameAttempts(c) /\ attempts'[c][k].status = "failed"
        /\ attempts'[c][k].fate = attempts[c][k].fate
        /\ \A j \in DOMAIN attempts[c] \ {k} : attempts'[c][j] = attempts[c][j]
    BY <1>3, <1>4, <2>3, Marks DEF Statuses
  <2> QED
    BY <1>2, <1>6, <2>2, <2>4, HoldsIdle, KeepsMarkingOwn
<1>10. CASE RollbackRefused(s)
  <2>1. Fails(s) /\ sub[s].pc = "rollback"
    BY <1>10 DEF RollbackRefused, At
  <2>2. Moves(s) /\ sub'[s].pc = "fail" /\ sub'[s].chunk = c /\ sub'[s].attempt = k
    BY <1>1, <2>1, FailsTo
  <2>3. attempts' = Met(c, k, "rollback")
    BY <1>10, SMTT(30) DEF RollbackRefused, Met
  <2>4. /\ SameAttempts(c) /\ attempts'[c][k].status = attempts[c][k].status
        /\ attempts'[c][k].fate = "rollback"
        /\ \A j \in DOMAIN attempts[c] \ {k} : attempts'[c][j] = attempts[c][j]
    BY <1>3, <1>4, <2>3, Meets DEF Fates, Claimed
  <2>5. attempts[c][k].status = "processing"
    BY <1>1, <2>1 DEF Holds, Working, Claimed
  <2>6. Holds(s)' /\ sub'[s].pc \notin Waiting
    BY <1>1, <1>2, <2>2, <2>4, <2>5, HoldsFail, SMTT(30)
  <2> QED
    BY <1>2, <1>5, <2>2, <2>4, <2>5, <2>6, KeepsMarkingOwn
<1>11. CASE Stop(s)
  <2>1. Answer(s)
    BY <1>11 DEF Stop
  <2>2. Moves(s) /\ sub'[s].pc = "idle"
    BY <1>1, <2>1, Answers
  <2>3. PICK fate : fate = IF attempts[c][k].fate = "open" THEN sub[s].pc ELSE attempts[c][k].fate
    OBVIOUS
  <2>4. fate \in Fates /\ fate # "counted"
    BY <1>2, <1>3, <1>6, <2>3 DEF AttemptForms, Fates, Claimed
  <2>5. attempts' = Met(c, k, fate)
    BY <1>3, <1>4, <1>11, <2>3, Zenon DEF Stop, Met
  <2>6. /\ SameAttempts(c) /\ attempts'[c][k].status = attempts[c][k].status
        /\ attempts'[c][k].fate = fate
        /\ \A j \in DOMAIN attempts[c] \ {k} : attempts'[c][j] = attempts[c][j]
    BY <1>3, <1>4, <2>4, <2>5, Meets
  <2> QED
    BY <1>2, <1>5, <2>2, <2>4, <2>6, HoldsIdle, KeepsMarkingOwn
<1> QED
  BY <1>7, <1>8, <1>9, <1>10, <1>11

\* A stale attempt is marked: no submission holds it, and none has finished it.
LEMMA StaleKeeps ==
    ASSUME ~SlowAttempts, IndInv, Types', NEW s \in Submissions, MarkStale(s)
    PROVE  IndInv'
<1> DEFINE c == sub[s].chunk
           k == sub[s].stale
<1>1. /\ Types /\ Awaits(s) /\ Placed(s) /\ EventsInOrder /\ OnlyLastStands
      /\ CountedIsProcessed /\ HoldersAreAlone
  BY DEF IndInv, Types
<1>2. UNCHANGED events /\ sub[s].pc = "mark" /\ Goto(s, "list")
      /\ attempts' = Marked(c, k, "failed_stale")
  BY DEF MarkStale, At
<1>3. /\ Moves(s) /\ sub'[s].pc = "list" /\ sub'[s].chunk = c /\ sub'[s].attempt = sub[s].attempt
      /\ sub'[s].resume = sub[s].resume
  BY <1>1, <1>2, GoesTo DEF Pcs, Waiting
<1>4. \A t \in Submissions \ {s} : sub'[t] = sub[t]
  BY <1>3 DEF Moves
<1>5. c \in Contents /\ k \in DOMAIN attempts[c]
  BY <1>1, <1>2, Fields, SMTT(30) DEF Placed
<1>6. /\ SameAttempts(c) /\ attempts'[c][k].status = "failed_stale"
      /\ attempts'[c][k].fate = attempts[c][k].fate
      /\ \A j \in DOMAIN attempts[c] \ {k} : attempts'[c][j] = attempts[c][j]
  BY <1>1, <1>2, <1>5, Marks DEF Statuses, Types
<1>7. /\ Len(attempts'[c]) = Len(attempts[c]) /\ DOMAIN attempts'[c] = DOMAIN attempts[c]
      /\ \A b \in Contents \ {c} : attempts'[b] = attempts[b]
  BY <1>6 DEF SameAttempts
<1>8. \A u \in Submissions : ~(sub[u].pc \in Claimed /\ sub[u].chunk = c /\ sub[u].attempt = k)
  BY <1>1, <1>2 DEF Awaits, ProcessingChunkStale
<1>9. attempts[c][k].status # "processed"
  BY <1>1, <1>2 DEF Awaits
<1>10. OnlyLastStands'
  <2>1. ASSUME NEW b \in Contents, NEW j \in DOMAIN attempts'[b], j < Len(attempts'[b])
        PROVE  attempts'[b][j].status \in {"failed", "failed_stale"}
    <3>1. CASE b = c /\ j = k
      BY <1>6, <3>1
    <3>2. CASE b = c /\ j # k
      BY <1>1, <1>5, <1>6, <1>7, <2>1, <3>2 DEF OnlyLastStands
    <3>3. CASE b # c
      BY <1>1, <1>7, <2>1, <3>3 DEF OnlyLastStands
    <3> QED
      BY <3>1, <3>2, <3>3
  <2> QED
    BY <2>1 DEF OnlyLastStands
<1>11. CountedIsProcessed'
  <2>1. ASSUME NEW b \in Contents, NEW j \in DOMAIN attempts'[b], attempts'[b][j].fate = "counted"
        PROVE  attempts'[b][j].status = "processed"
    <3>1. CASE b = c /\ j = k
      BY <1>1, <1>5, <1>6, <1>9, <2>1, <3>1 DEF CountedIsProcessed
    <3>2. CASE b = c /\ j # k
      BY <1>1, <1>6, <1>7, <2>1, <3>2 DEF CountedIsProcessed
    <3>3. CASE b # c
      BY <1>1, <1>7, <2>1, <3>3 DEF CountedIsProcessed
    <3> QED
      BY <3>1, <3>2, <3>3
  <2> QED
    BY <2>1 DEF CountedIsProcessed
<1>12. EventsInOrder'
  <2>1. ASSUME NEW b \in Contents, NEW j \in DOMAIN attempts'[b],
               attempts'[b][j].status = "processed"
        PROVE  Len(events[b]) = Len(Chunks[b])
    <3>1. CASE b = c /\ j = k
      BY <1>6, <2>1, <3>1
    <3>2. CASE b = c /\ j # k
      BY <1>1, <1>6, <1>7, <2>1, <3>2 DEF EventsInOrder
    <3>3. CASE b # c
      BY <1>1, <1>7, <2>1, <3>3 DEF EventsInOrder
    <3> QED
      BY <3>1, <3>2, <3>3
  <2> QED
    BY <1>1, <1>2, <2>1 DEF EventsInOrder
<1>13. sub[s].pc \notin Claimed /\ sub'[s].pc \notin Claimed
  BY <1>2, <1>3 DEF Claimed
<1>14. HoldersAreAlone'
  BY <1>1, <1>4, <1>13 DEF HoldersAreAlone
<1>15. ASSUME NEW t \in Submissions, t # s PROVE Holds(t)' /\ Awaits(t)'
  <2>1. sub'[t] = sub[t] /\ Holds(t) /\ Awaits(t) /\ Placed(t)
    BY <1>4, <1>15 DEF IndInv, Types
  <2>2. sub[t].chunk \in Contents
    BY <1>1, Fields
  <2>3. Holds(t)'
    <3>1. CASE sub[t].pc \in Claimed
      <4>1. sub[t].attempt \in DOMAIN attempts[sub[t].chunk]
        BY <2>1, <3>1 DEF Placed
      <4>2. attempts'[sub[t].chunk][sub[t].attempt] = attempts[sub[t].chunk][sub[t].attempt]
        BY <1>6, <1>7, <1>8, <2>2, <3>1, <4>1
      <4>3. CountersAreEvents(t) => CountersAreEvents(t)'
        BY <1>2, <2>1 DEF CountersAreEvents
      <4>4. Len(events'[sub[t].chunk]) = Len(events[sub[t].chunk])
        BY <1>2
      <4> QED
        BY <2>1, <4>2, <4>3, <4>4, Zenon DEF Holds
    <3>2. CASE sub[t].pc \notin Claimed
      BY <2>1, <3>2 DEF Holds
    <3> QED
      BY <3>1, <3>2
  <2>4. CountersAreEvents(t) => CountersAreEvents(t)'
    BY <1>2, <2>1 DEF CountersAreEvents
  <2>5. \A j \in DOMAIN attempts[sub[t].chunk] :
           \/ attempts'[sub[t].chunk][j].status = attempts[sub[t].chunk][j].status
           \/ attempts'[sub[t].chunk][j].status = "failed_stale"
    BY <1>6, <1>7, <2>2
  <2>6. /\ DOMAIN attempts'[sub[t].chunk] = DOMAIN attempts[sub[t].chunk]
        /\ Len(attempts'[sub[t].chunk]) = Len(attempts[sub[t].chunk])
    BY <1>7, <2>2
  <2>7. ASSUME sub[t].pc = "mark"
        PROVE  /\ ProcessingChunkStale(sub[t].chunk, sub[t].stale)'
               /\ attempts'[sub[t].chunk][sub[t].stale].status # "processed"
    <3>1. \A u \in Submissions :
             ~(sub[u].pc \in Claimed /\ sub[u].chunk = sub[t].chunk /\ sub[u].attempt = sub[t].stale)
      BY <2>1, <2>7 DEF Awaits, ProcessingChunkStale
    <3>2. \A u \in Submissions :
             ~(sub'[u].pc \in Claimed /\ sub'[u].chunk = sub[t].chunk /\ sub'[u].attempt = sub[t].stale)
      BY <1>4, <1>13, <3>1
    <3>3. /\ sub[t].stale \in DOMAIN attempts[sub[t].chunk]
          /\ attempts[sub[t].chunk][sub[t].stale].status # "processed"
      BY <2>1, <2>7 DEF Placed, Awaits
    <3>4. attempts'[sub[t].chunk][sub[t].stale].status # "processed"
      BY <2>5, <3>3
    <3> QED
      BY <2>1, <3>2, <3>4 DEF ProcessingChunkStale
  <2>8. Awaits(t)'
    <3>1. ASSUME sub[t].pc \in Waiting, sub[t].attempt = Len(attempts[sub[t].chunk]) + 1
          PROVE  /\ \A j \in DOMAIN attempts[sub[t].chunk] :
                       \/ attempts'[sub[t].chunk][j].status \in {"failed", "failed_stale"}
                       \/ sub[t].pc = "mark" /\ j = sub[t].stale
                 /\ sub[t].pc # "create" => sub[t].resume = DOMAIN attempts[sub[t].chunk]
                 /\ sub[t].pc = "create" => /\ sub[t].done = Len(events[sub[t].chunk])
                                            /\ CountersAreEvents(t)
      <4>1. \A j \in DOMAIN attempts[sub[t].chunk] :
               \/ attempts[sub[t].chunk][j].status \in {"failed", "failed_stale"}
               \/ sub[t].pc = "mark" /\ j = sub[t].stale
        BY <2>1, <3>1, Zenon DEF Awaits
      <4>2. /\ sub[t].pc # "create" => sub[t].resume = DOMAIN attempts[sub[t].chunk]
            /\ sub[t].pc = "create" => /\ sub[t].done = Len(events[sub[t].chunk])
                                       /\ CountersAreEvents(t)
        BY <2>1, <3>1, Zenon DEF Awaits
      <4> QED
        BY <2>5, <4>1, <4>2
    <3>2. events' = events
      BY <1>2
    <3> QED
      BY <2>1, <2>4, <2>6, <2>7, <3>1, <3>2, Zenon DEF Awaits
  <2> QED
    BY <2>3, <2>8
<1>16. Holds(s)'
  BY <1>13 DEF Holds
<1>17. Awaits(s)'
  <2>1. ASSUME sub[s].attempt = Len(attempts[c]) + 1
        PROVE  /\ \A j \in DOMAIN attempts[c] : attempts'[c][j].status \in {"failed", "failed_stale"}
               /\ sub[s].resume = DOMAIN attempts[c]
    BY <1>1, <1>2, <1>6, <2>1 DEF Awaits, Waiting
  <2> QED
    BY <1>3, <1>7, <2>1, SMTT(30) DEF Awaits
<1> QED
  BY <1>10, <1>11, <1>12, <1>14, <1>15, <1>16, <1>17 DEF IndInv

\* An attempt is created only when no other has the number, and then none stands.
LEMMA CreateKeeps ==
    ASSUME ~SlowAttempts, IndInv, Types', NEW s \in Submissions, CreateAttempt(s)
    PROVE  IndInv'
<1> DEFINE c == sub[s].chunk
           n == Len(attempts[c])
<1>1. /\ Types /\ Awaits(s) /\ Placed(s) /\ EventsInOrder /\ OnlyLastStands
      /\ CountedIsProcessed /\ HoldersAreAlone
  BY DEF IndInv, Types
<1>2. events' = events /\ sub[s].pc = "create"
  BY DEF CreateAttempt, At
<1>3. c \in Contents /\ sub[s].attempt \in Nat
  BY <1>1, Fields
<1>4. n \in Nat /\ DOMAIN attempts[c] = 1..n
  BY <1>1, <1>3, Chunk
<1>5. CASE Answer(s) /\ UNCHANGED attempts
  <2>1. Moves(s) /\ sub'[s].pc = "idle"
    BY <1>1, <1>5, Answers
  <2> QED
    BY <1>2, <1>5, <2>1, HoldsIdle, KeepsQuietly
<1>6. CASE /\ n < sub[s].attempt /\ attempts' = [attempts EXCEPT ![c] = Append(@, NewAttempt)]
           /\ Goto(s, "read")
  <2>1. /\ Moves(s) /\ sub'[s].pc = "read" /\ sub'[s].chunk = c /\ sub'[s].attempt = sub[s].attempt
        /\ sub'[s].done = sub[s].done /\ sub'[s].counters = sub[s].counters
    BY <1>1, <1>6, GoesTo DEF Pcs, Claimed
  <2>2. \A t \in Submissions \ {s} : sub'[t] = sub[t]
    BY <2>1 DEF Moves
  <2>3. attempts \in [Contents -> Seq(AttemptForms)]
    BY <1>1 DEF Types
  <2>4. /\ attempts' \in [Contents -> Seq(AttemptForms)] /\ Len(attempts'[c]) = n + 1
        /\ attempts'[c][n + 1] = NewAttempt
        /\ \A k \in DOMAIN attempts[c] : attempts'[c][k] = attempts[c][k]
        /\ \A b \in Contents \ {c} : attempts'[b] = attempts[b]
    BY <1>3, <1>6, <2>3, Adds
  <2>5. DOMAIN attempts'[c] = 1..n + 1
    BY <1>3, <1>4, <2>4
  <2>6. sub[s].attempt = n + 1
    BY <1>1, <1>2, <1>3, <1>4, <1>6 DEF Placed, Waiting
  <2>7. /\ \A k \in DOMAIN attempts[c] : attempts[c][k].status \in {"failed", "failed_stale"}
        /\ sub[s].done = Len(events[c]) /\ CountersAreEvents(s)
    BY <1>1, <1>2, <2>6 DEF Awaits, Waiting
  <2>8. NewAttempt.status = "processing" /\ NewAttempt.fate = "open"
    BY DEF NewAttempt
  <2>9. OnlyLastStands'
    <3>1. ASSUME NEW b \in Contents, NEW j \in DOMAIN attempts'[b], j < Len(attempts'[b])
          PROVE  attempts'[b][j].status \in {"failed", "failed_stale"}
      <4>1. CASE b = c
        <5>1. j \in DOMAIN attempts[c]
          BY <1>4, <2>4, <2>5, <3>1, <4>1
        <5> QED
          BY <2>4, <2>7, <4>1, <5>1
      <4>2. CASE b # c
        BY <1>1, <2>4, <3>1, <4>2 DEF OnlyLastStands
      <4> QED
        BY <4>1, <4>2
    <3> QED
      BY <3>1 DEF OnlyLastStands
  <2>10. CountedIsProcessed'
    <3>1. ASSUME NEW b \in Contents, NEW j \in DOMAIN attempts'[b], attempts'[b][j].fate = "counted"
          PROVE  attempts'[b][j].status = "processed"
      <4>1. CASE b = c /\ j \in DOMAIN attempts[c]
        BY <1>1, <2>4, <3>1, <4>1 DEF CountedIsProcessed
      <4>2. CASE b = c /\ j = n + 1
        BY <2>4, <2>8, <3>1, <4>2
      <4>3. CASE b # c
        BY <1>1, <2>4, <3>1, <4>3 DEF CountedIsProcessed
      <4>4. b = c => j \in DOMAIN attempts[c] \/ j = n + 1
        BY <1>4, <2>5
      <4> QED
        BY <4>1, <4>2, <4>3, <4>4
    <3> QED
      BY <3>1 DEF CountedIsProcessed
  <2>11. EventsInOrder'
    <3>1. ASSUME NEW b \in Contents, NEW j \in DOMAIN attempts'[b],
                 attempts'[b][j].status = "processed"
          PROVE  Len(events[b]) = Len(Chunks[b])
      <4>1. CASE b = c /\ j \in DOMAIN attempts[c]
        BY <1>1, <2>4, <3>1, <4>1 DEF EventsInOrder
      <4>2. CASE b = c /\ j = n + 1
        BY <2>4, <2>8, <3>1, <4>2
      <4>3. CASE b # c
        BY <1>1, <2>4, <3>1, <4>3 DEF EventsInOrder
      <4>4. b = c => j \in DOMAIN attempts[c] \/ j = n + 1
        BY <1>4, <2>5
      <4> QED
        BY <4>1, <4>2, <4>3, <4>4
    <3> QED
      BY <1>1, <1>2, <3>1 DEF EventsInOrder
  <2>12. \A t \in Submissions : sub[t].pc \in Claimed => sub[t].chunk # c
    <3> TAKE t \in Submissions
    <3> HAVE sub[t].pc \in Claimed
    <3>1. /\ sub[t].attempt \in DOMAIN attempts[sub[t].chunk]
          /\ attempts[sub[t].chunk][sub[t].attempt].status \in {"processing", "processed"}
      BY HeldIsLast
    <3> QED
      BY <2>7, <3>1
  <2>13. HoldersAreAlone'
    <3>1. sub[s].pc \notin Claimed
      BY <1>2 DEF Claimed
    <3> QED
      BY <1>1, <2>1, <2>2, <2>12 DEF HoldersAreAlone
  <2>14. Holds(s)'
    <3>1. CountersAreEvents(s)'
      BY <1>2, <2>1, <2>7 DEF CountersAreEvents
    <3>2. Len(events'[c]) = Len(events[c])
      BY <1>2
    <3>3. attempts'[c][sub[s].attempt] = NewAttempt
      BY <2>4, <2>6
    <3> QED
      BY <2>1, <2>7, <2>8, <3>1, <3>2, <3>3 DEF Holds
  <2>15. Awaits(s)'
    BY <2>1 DEF Awaits, Waiting
  <2>16. ASSUME NEW t \in Submissions, t # s PROVE Holds(t)' /\ Awaits(t)'
    <3>1. sub'[t] = sub[t] /\ Holds(t) /\ Awaits(t) /\ Placed(t)
      BY <2>2, <2>16 DEF IndInv, Types
    <3>2. sub[t].chunk \in Contents /\ sub[t].attempt \in Nat
      BY <1>1, Fields
    <3>3. CountersAreEvents(t) => CountersAreEvents(t)'
      BY <1>2, <3>1 DEF CountersAreEvents
    <3>4. Len(events'[sub[t].chunk]) = Len(events[sub[t].chunk])
      BY <1>2
    <3>5. Holds(t)'
      <4>1. CASE sub[t].pc \in Claimed
        <5>1. attempts'[sub[t].chunk] = attempts[sub[t].chunk]
          BY <2>4, <2>12, <3>2, <4>1
        <5> QED
          BY <3>1, <3>3, <3>4, <5>1, Zenon DEF Holds
      <4>2. CASE sub[t].pc \notin Claimed
        BY <3>1, <4>2 DEF Holds
      <4> QED
        BY <4>1, <4>2
    <3>6. ASSUME sub[t].pc = "mark"
          PROVE  /\ ProcessingChunkStale(sub[t].chunk, sub[t].stale)'
                 /\ attempts'[sub[t].chunk][sub[t].stale].status # "processed"
      <4>1. /\ sub[t].stale \in DOMAIN attempts[sub[t].chunk]
            /\ attempts[sub[t].chunk][sub[t].stale].status # "processed"
        BY <3>1, <3>6 DEF Placed, Awaits
      <4>2. attempts'[sub[t].chunk][sub[t].stale] = attempts[sub[t].chunk][sub[t].stale]
        BY <2>4, <3>2, <4>1
      <4>3. \A u \in Submissions :
             ~(sub[u].pc \in Claimed /\ sub[u].chunk = sub[t].chunk /\ sub[u].attempt = sub[t].stale)
        BY <3>1, <3>6 DEF Awaits, ProcessingChunkStale
      <4>4. ~(sub[t].chunk = c /\ sub[t].stale = n + 1)
        BY <1>4, <4>1
      <4>5. \A u \in Submissions :
             ~(sub'[u].pc \in Claimed /\ sub'[u].chunk = sub[t].chunk /\ sub'[u].attempt = sub[t].stale)
        BY <2>1, <2>2, <2>6, <4>3, <4>4
      <4> QED
        BY <3>1, <4>1, <4>2, <4>5 DEF ProcessingChunkStale
    <3>7. ASSUME sub[t].pc \in Waiting, sub[t].attempt = Len(attempts'[sub[t].chunk]) + 1
          PROVE  attempts'[sub[t].chunk] = attempts[sub[t].chunk]
      <4>1. sub[t].attempt \in 1..Len(attempts[sub[t].chunk]) + 1
        BY <3>1, <3>7 DEF Placed
      <4>2. sub[t].chunk # c
        BY <1>4, <2>4, <3>7, <4>1
      <4> QED
        BY <2>4, <3>2, <4>2
    <3>8. Awaits(t)'
      BY <3>1, <3>3, <3>4, <3>6, <3>7, Zenon DEF Awaits
    <3> QED
      BY <3>5, <3>8
  <2> QED
    BY <2>9, <2>10, <2>11, <2>13, <2>14, <2>15, <2>16 DEF IndInv
<1> QED
  BY <1>5, <1>6 DEF CreateAttempt

\* The event of a record follows those of the records before it.
LEMMA PersistKeeps ==
    ASSUME ~SlowAttempts, IndInv, Types', NEW s \in Submissions, PersistTrackedEvents(s)
    PROVE  IndInv'
<1> DEFINE c == sub[s].chunk
           n == Len(events[c])
           event == [attempt |-> sub[s].attempt, index |-> sub[s].done + 1,
                     outcome |-> sub[s].outcome]
<1>1. /\ Types /\ Holds(s) /\ Placed(s) /\ EventsInOrder /\ OnlyLastStands
      /\ CountedIsProcessed /\ HoldersAreAlone
  BY DEF IndInv, Types
<1>2. /\ Moves(s) /\ sub[s].pc = "persist" /\ sub'[s].chunk = c /\ sub'[s].attempt = sub[s].attempt
      /\ \/ /\ sub'[s].pc = "process" /\ sub'[s].done = sub[s].done + 1
            /\ sub'[s].counters = [sub[s].counters EXCEPT ![sub[s].outcome] = @ + 1]
         \/ sub'[s].pc = "fail"
  BY <1>1, Persists
<1>3. /\ c \in Contents /\ sub[s].attempt \in Nat /\ sub[s].done \in Nat
      /\ sub[s].outcome \in Outcomes /\ sub[s].counters \in [Outcomes -> Nat]
  BY <1>1, Fields
<1>4. attempts' = attempts /\ events' = [events EXCEPT ![c] = Append(@, event)]
  BY DEF PersistTrackedEvents
<1>5. /\ event \in EventForms /\ event.index = sub[s].done + 1 /\ event.outcome = sub[s].outcome
  BY <1>3 DEF EventForms
<1>6. events \in [Contents -> Seq(EventForms)]
  BY <1>1 DEF Types
<1>7. /\ events' \in [Contents -> Seq(EventForms)] /\ Len(events'[c]) = n + 1
      /\ events'[c][n + 1] = event
      /\ \A j \in DOMAIN events[c] : events'[c][j] = events[c][j]
      /\ \A b \in Contents \ {c} : events'[b] = events[b]
  BY <1>3, <1>4, <1>5, <1>6, Records
<1>8. n \in Nat /\ DOMAIN events[c] = 1..n /\ DOMAIN events'[c] = 1..n + 1
  BY <1>1, <1>3, <1>7, Chunk
<1>9. /\ attempts[c][sub[s].attempt].status = "processing" /\ sub[s].done = n
      /\ attempts[c][sub[s].attempt].fate = "open" /\ CountersAreEvents(s)
  BY <1>1, <1>2 DEF Holds, Claimed, Working
<1>10. \A t \in Submissions \ {s} : sub'[t] = sub[t]
  BY <1>2 DEF Moves
<1>11. sub[s].pc \in Claimed /\ sub'[s].pc \in Claimed
  BY <1>2 DEF Claimed
<1>12. OnlyLastStands' /\ CountedIsProcessed'
  BY <1>1, <1>4 DEF OnlyLastStands, CountedIsProcessed
<1>13. HoldersAreAlone'
  BY <1>1, <1>2, <1>10, <1>11 DEF HoldersAreAlone
<1>14. EventsInOrder'
  <2>1. ASSUME NEW b \in Contents, NEW j \in DOMAIN events'[b] PROVE events'[b][j].index = j
    <3>1. CASE b # c
      BY <1>1, <1>7, <2>1, <3>1 DEF EventsInOrder
    <3>2. CASE b = c /\ j \in DOMAIN events[c]
      BY <1>1, <1>7, <3>2 DEF EventsInOrder
    <3>3. CASE b = c /\ j = n + 1
      BY <1>5, <1>7, <1>9, <3>3
    <3>4. b = c => j \in DOMAIN events[c] \/ j = n + 1
      BY <1>8
    <3> QED
      BY <3>1, <3>2, <3>3, <3>4
  <2>2. ASSUME NEW b \in Contents, NEW k \in DOMAIN attempts[b], attempts[b][k].status = "processed"
        PROVE  b # c
    <3>1. sub[s].attempt = Len(attempts[c]) /\ DOMAIN attempts[c] = 1..Len(attempts[c])
          /\ Len(attempts[c]) \in Nat
      BY <1>1, <1>3, <1>11, HeldIsLast, Chunk
    <3>2. b = c => k # sub[s].attempt
      BY <1>9, <2>2
    <3>3. b = c => k < Len(attempts[c])
      BY <3>1, <3>2
    <3> QED
      BY <1>1, <2>2, <3>3 DEF OnlyLastStands
  <2>3. ASSUME NEW b \in Contents, NEW k \in DOMAIN attempts'[b], attempts'[b][k].status = "processed"
        PROVE  Len(events'[b]) = Len(Chunks[b])
    <3>1. k \in DOMAIN attempts[b] /\ attempts[b][k].status = "processed"
      BY <1>4, <2>3
    <3>2. b # c
      BY <2>2, <3>1
    <3> QED
      BY <1>1, <1>7, <3>1, <3>2 DEF EventsInOrder
  <2> QED
    BY <2>1, <2>3 DEF EventsInOrder
<1>15. Holds(s)'
  <2>1. CASE sub'[s].pc = "fail"
    BY <1>2, <1>4, <1>9, <2>1, SMTT(30) DEF Holds, Working
  <2>2. CASE /\ sub'[s].pc = "process" /\ sub'[s].done = sub[s].done + 1
             /\ sub'[s].counters = [sub[s].counters EXCEPT ![sub[s].outcome] = @ + 1]
    <3>1. ASSUME NEW o \in Outcomes
          PROVE  sub'[s].counters[o] = Cardinality({j \in DOMAIN events'[c] : events'[c][j].outcome = o})
      <4> DEFINE S == {j \in DOMAIN events[c] : events[c][j].outcome = o}
      <4>1. sub[s].counters[o] = Cardinality(S)
        BY <1>9, <3>1 DEF CountersAreEvents
      <4>2. S \in SUBSET DOMAIN events[c]
        OBVIOUS
      <4>3. IsFiniteSet(S) /\ Cardinality(S) \in Nat
        BY <1>1, <1>3, <4>2, Finite, SMTT(30)
      <4>4. CASE o = sub[s].outcome
        <5>1. {j \in DOMAIN events'[c] : events'[c][j].outcome = o} = S \union {n + 1}
          <6>1. \A j \in DOMAIN events[c] : j \in DOMAIN events'[c] /\ events'[c][j] = events[c][j]
            BY <1>7, <1>8
          <6>2. n + 1 \in DOMAIN events'[c] /\ events'[c][n + 1].outcome = o
            BY <1>5, <1>7, <1>8, <4>4
          <6>3. \A j \in DOMAIN events'[c] : j \in DOMAIN events[c] \/ j = n + 1
            BY <1>8
          <6> QED
            BY <6>1, <6>2, <6>3, Zenon
        <5>2. n + 1 \notin S
          BY <1>8
        <5>3. Cardinality(S \union {n + 1}) = Cardinality(S) + 1
          BY <4>3, <5>2, FS_AddElement
        <5>4. sub'[s].counters[o] = sub[s].counters[o] + 1
          BY <1>3, <2>2, <4>4, Zenon
        <5> QED
          BY <4>1, <5>1, <5>3, <5>4
      <4>5. CASE o # sub[s].outcome
        <5>1. {j \in DOMAIN events'[c] : events'[c][j].outcome = o} = S
          <6>1. \A j \in DOMAIN events[c] : j \in DOMAIN events'[c] /\ events'[c][j] = events[c][j]
            BY <1>7, <1>8
          <6>2. events'[c][n + 1].outcome # o
            BY <1>5, <1>7, <1>8, <4>5
          <6>3. \A j \in DOMAIN events'[c] : j \in DOMAIN events[c] \/ j = n + 1
            BY <1>8
          <6> QED
            BY <6>1, <6>2, <6>3, Zenon
        <5>2. sub'[s].counters[o] = sub[s].counters[o]
          BY <1>3, <2>2, <4>5
        <5> QED
          BY <4>1, <5>1, <5>2
      <4> QED
        BY <4>4, <4>5
    <3>2. CountersAreEvents(s)'
      BY <1>2, <3>1 DEF CountersAreEvents
    <3> QED
      BY <1>2, <1>4, <1>7, <1>9, <2>2, <3>2 DEF Holds
  <2> QED
    BY <1>2, <2>1, <2>2
<1>16. Awaits(s)'
  BY <1>2 DEF Awaits, Waiting
<1>17. ASSUME NEW t \in Submissions, t # s PROVE Holds(t)' /\ Awaits(t)'
  <2>1. sub'[t] = sub[t] /\ Holds(t) /\ Awaits(t) /\ sub[t].chunk \in Contents
    BY <1>1, <1>10, <1>17, Fields DEF IndInv
  <2>2. ASSUME sub[t].chunk # c
        PROVE  /\ events'[sub[t].chunk] = events[sub[t].chunk]
               /\ CountersAreEvents(t) => CountersAreEvents(t)'
    <3>1. events'[sub[t].chunk] = events[sub[t].chunk]
      BY <1>7, <2>1, <2>2
    <3> QED
      BY <2>1, <3>1, Zenon DEF CountersAreEvents
  <2>3. Holds(t)'
    <3>1. CASE sub[t].pc \in Claimed
      <4>1. sub[t].chunk # c
        BY <1>1, <1>11, <1>17, <3>1 DEF HoldersAreAlone
      <4> QED
        BY <1>4, <2>1, <2>2, <4>1, Zenon DEF Holds
    <3>2. CASE sub[t].pc \notin Claimed
      BY <2>1, <3>2 DEF Holds
    <3> QED
      BY <3>1, <3>2
  <2>4. ASSUME sub[t].pc = "mark"
        PROVE  /\ ProcessingChunkStale(sub[t].chunk, sub[t].stale)'
               /\ attempts'[sub[t].chunk][sub[t].stale].status # "processed"
    <3>1. \A u \in Submissions :
             ~(sub[u].pc \in Claimed /\ sub[u].chunk = sub[t].chunk /\ sub[u].attempt = sub[t].stale)
      BY <2>1, <2>4 DEF Awaits, ProcessingChunkStale
    <3>2. \A u \in Submissions :
             ~(sub'[u].pc \in Claimed /\ sub'[u].chunk = sub[t].chunk /\ sub'[u].attempt = sub[t].stale)
      BY <1>2, <1>10, <1>11, <3>1
    <3>3. attempts[sub[t].chunk][sub[t].stale].status # "processed"
      BY <2>1, <2>4 DEF Awaits
    <3> QED
      BY <1>4, <2>1, <3>2, <3>3 DEF ProcessingChunkStale
  <2>5. ASSUME sub[t].pc \in Waiting, sub[t].attempt = Len(attempts[sub[t].chunk]) + 1
        PROVE  sub[t].chunk # c
    BY <1>11, <2>5, HeldIsNotAwaited
  <2>6. attempts' = attempts
    BY <1>4
  <2>7. Awaits(t)'
    BY <2>1, <2>2, <2>4, <2>5, <2>6, Zenon DEF Awaits
  <2> QED
    BY <2>3, <2>7
<1> QED
  BY <1>12, <1>13, <1>14, <1>15, <1>16, <1>17 DEF IndInv

LEMMA InitIndInv == Init => IndInv
<1> SUFFICES ASSUME Init PROVE IndInv
  OBVIOUS
<1>1. Types
  BY InitTypes
<1>2. \A c \in Contents : DOMAIN attempts[c] = {} /\ DOMAIN events[c] = {}
  BY DEF Init
<1>3. \A s \in Submissions : sub[s].pc = "idle"
  BY IdleForm DEF Init
<1>4. OnlyLastStands /\ CountedIsProcessed /\ EventsInOrder
  BY <1>2 DEF OnlyLastStands, CountedIsProcessed, EventsInOrder
<1>5. HoldersAreAlone /\ \A s \in Submissions : Holds(s) /\ Awaits(s)
  BY <1>3 DEF HoldersAreAlone, Holds, Awaits, Claimed, Waiting
<1> QED
  BY <1>1, <1>4, <1>5 DEF IndInv

\* A step that changes nothing keeps everything.
LEMMA StutterKeeps ==
    ASSUME IndInv, Types', UNCHANGED vars
    PROVE  IndInv'
<1>1. UNCHANGED <<attempts, events, sub>>
  BY DEF vars
<1>2. OnlyLastStands' /\ CountedIsProcessed' /\ EventsInOrder' /\ HoldersAreAlone'
  BY <1>1 DEF IndInv, OnlyLastStands, CountedIsProcessed, EventsInOrder, HoldersAreAlone
<1>3. ASSUME NEW s \in Submissions PROVE Holds(s)' /\ Awaits(s)'
  <2>1. Holds(s) /\ Awaits(s)
    BY DEF IndInv
  <2>2. CountersAreEvents(s) => CountersAreEvents(s)'
    BY <1>1 DEF CountersAreEvents
  <2>3. ProcessingChunkStale(sub[s].chunk, sub[s].stale)
           => ProcessingChunkStale(sub[s].chunk, sub[s].stale)'
    BY <1>1 DEF ProcessingChunkStale
  <2>4. Holds(s)'
    BY <1>1, <2>1, <2>2, Zenon DEF Holds
  <2>5. Awaits(s)'
    BY <1>1, <2>1, <2>2, <2>3, Zenon DEF Awaits
  <2> QED
    BY <2>4, <2>5
<1> QED
  BY <1>2, <1>3 DEF IndInv

LEMMA NextIndInv ==
    ASSUME ~SlowAttempts
    PROVE  IndInv /\ [Next]_vars => IndInv'
<1> SUFFICES ASSUME IndInv, [Next]_vars PROVE IndInv'
  OBVIOUS
<1>1. Types'
  BY NextTypes DEF IndInv
<1>2. CASE UNCHANGED vars
  BY <1>1, <1>2, StutterKeeps
<1>3. ASSUME NEW s \in Submissions, NEW c \in Contents, Submit(s, c) PROVE IndInv'
  BY <1>1, <1>3, SubmitKeeps
<1>4. ASSUME NEW s \in Submissions, Work(s) \/ Fault(s) PROVE IndInv'
  BY <1>1, <1>4, WorkKeeps, StaleKeeps, ListKeeps, CreateKeeps, PersistKeeps, EndKeeps
     DEF Work, Fault
<1> QED
  BY <1>2, <1>3, <1>4 DEF Next

LEMMA IndInvAlways ==
    ASSUME ~SlowAttempts
    PROVE  Spec => []IndInv
<1>1. Init => IndInv
  BY InitIndInv
<1>2. IndInv /\ [Next]_vars => IndInv'
  BY NextIndInv
<1> QED
  BY <1>1, <1>2, PTL DEF Spec

\* A set with no two elements has at most one.
LEMMA AtMostOne ==
    ASSUME NEW S, \A x, y \in S : x = y
    PROVE  Cardinality(S) <= 1
<1>1. CASE S = {}
  BY <1>1, FS_EmptySet
<1>2. CASE S # {}
  <2>1. PICK x \in S : TRUE
    BY <1>2
  <2>2. S = {x}
    BY <2>1
  <2> QED
    BY <2>2, FS_Singleton
<1> QED
  BY <1>1, <1>2

\* As long as no attempt outlives the time-out, at most one attempt at a chunk is being
\* processed or has been, however its submissions race, stop and take one another over.
THEOREM OneAttempt ==
    ASSUME ~SlowAttempts
    PROVE  Spec => []OneAttemptStands
<1>1. IndInv => OneAttemptStands
  <2> SUFFICES ASSUME IndInv, NEW c \in Contents
               PROVE  Cardinality(WithStatus(c, {"processing", "processed"})) <= 1
    BY DEF OneAttemptStands
  <2>1. Types /\ OnlyLastStands
    BY DEF IndInv
  <2>2. DOMAIN attempts[c] = 1..Len(attempts[c]) /\ Len(attempts[c]) \in Nat
    BY <2>1, Chunk
  <2>3. ASSUME NEW k \in WithStatus(c, {"processing", "processed"}) PROVE k = Len(attempts[c])
    <3>1. k \in DOMAIN attempts[c] /\ attempts[c][k].status \in {"processing", "processed"}
      BY <2>3 DEF WithStatus
    <3>2. ~(k < Len(attempts[c]))
      BY <2>1, <3>1 DEF OnlyLastStands
    <3> QED
      BY <2>2, <3>1, <3>2
  <2> QED
    BY <2>3, AtMostOne
<1> QED
  BY <1>1, IndInvAlways, PTL

\* As long as no attempt outlives the time-out, the events of a chunk report its records
\* in order, each once, over all its attempts, and those of a processed chunk all of
\* them: an attempt takes over exactly where the ones before it stopped.
THEOREM ReportedOnce ==
    ASSUME ~SlowAttempts
    PROVE  Spec => []EveryRecordReportedOnce
<1>1. IndInv => EveryRecordReportedOnce
  BY DEF IndInv, EventsInOrder, EveryRecordReportedOnce, WithStatus
<1> QED
  BY <1>1, IndInvAlways, PTL

\* As long as no attempt outlives the time-out, no two attempts at a chunk add to the
\* run; one that does outlive it can make a chunk count twice.
THEOREM CountedOnce ==
    ASSUME ~SlowAttempts
    PROVE  Spec => []ChunkIsCountedOnce
<1>1. IndInv => ChunkIsCountedOnce
  <2> SUFFICES ASSUME IndInv, NEW c \in Contents
               PROVE  Cardinality({k \in DOMAIN attempts[c] : attempts[c][k].fate = "counted"}) <= 1
    BY DEF ChunkIsCountedOnce
  <2>1. Types /\ OnlyLastStands /\ CountedIsProcessed
    BY DEF IndInv
  <2>2. DOMAIN attempts[c] = 1..Len(attempts[c]) /\ Len(attempts[c]) \in Nat
    BY <2>1, Chunk
  <2>3. ASSUME NEW k \in DOMAIN attempts[c], attempts[c][k].fate = "counted"
        PROVE  k = Len(attempts[c])
    <3>1. attempts[c][k].status = "processed"
      BY <2>1, <2>3 DEF CountedIsProcessed
    <3>2. ~(k < Len(attempts[c]))
      BY <2>1, <3>1 DEF OnlyLastStands
    <3> QED
      BY <2>2, <3>2
  <2> QED
    BY <2>3, AtMostOne
<1> QED
  BY <1>1, IndInvAlways, PTL

-----------------------------------------------------------------------------
(* The run counts what its chunks report                                   *)

Ended == {"counted", "count", "fail"}

\* The counts as sums over finite sets: the inductive form of RunCountsReported.
CountsReported ==
    /\ \A o \in Outcomes : /\ IsFiniteSet(CountedEvents(o))
                           /\ run.counts[o] = Cardinality(CountedEvents(o))
    /\ run.chunks = Cardinality(CountedChunks)
ProcessedIsAccounted ==
    \A c \in Contents : \A k \in WithStatus(c, {"processed"}) :
        attempts[c][k].fate \in Ended \/ AboutToCount(c, k)

\* A chunk whose attempt is held is not counted yet.
LEMMA HeldIsNotCounted ==
    ASSUME IndInv, NEW s \in Submissions, sub[s].pc \in Claimed
    PROVE  sub[s].chunk \notin CountedChunks
<1> SUFFICES ASSUME sub[s].chunk \in CountedChunks PROVE FALSE
  OBVIOUS
<1> DEFINE c == sub[s].chunk
<1>1. Types /\ Holds(s) /\ OnlyLastStands /\ CountedIsProcessed
  BY DEF IndInv
<1>2. c \in Contents /\ sub[s].attempt = Len(attempts[c])
  BY HeldIsLast
<1>3. PICK k \in DOMAIN attempts[c] : attempts[c][k].fate = "counted"
  BY DEF CountedChunks
<1>4. attempts[c][k].status = "processed"
  BY <1>1, <1>2, <1>3 DEF CountedIsProcessed
<1>5. ~(k < Len(attempts[c]))
  BY <1>1, <1>2, <1>4 DEF OnlyLastStands
<1>6. DOMAIN attempts[c] = 1..Len(attempts[c]) /\ Len(attempts[c]) \in Nat
  BY <1>1, <1>2, Chunk
<1>7. k = sub[s].attempt
  BY <1>2, <1>5, <1>6
<1> QED
  BY <1>1, <1>3, <1>7 DEF Holds

\* What the run has counted is the same when the fates of the attempts are.
LEMMA SameCountedChunks ==
    ASSUME \A c \in Contents : \A k \in DOMAIN attempts[c] :
              k \in DOMAIN attempts'[c]
              /\ (attempts'[c][k].fate = "counted" <=> attempts[c][k].fate = "counted"),
           \A c \in Contents : \A k \in DOMAIN attempts'[c] :
              attempts'[c][k].fate = "counted" => k \in DOMAIN attempts[c]
    PROVE  CountedChunks' = CountedChunks
  BY DEF CountedChunks

LEMMA SameCountedEvents ==
    ASSUME CountedChunks' = CountedChunks,
           \A c \in CountedChunks : events'[c] = events[c], NEW o
    PROVE  CountedEvents(o)' = CountedEvents(o)
  BY DEF CountedEvents

\* Marking an attempt and saying what became of one that is not counted leave the
\* counted chunks as they are.
LEMMA MarkingCountsNone ==
    ASSUME NEW c \in Contents, NEW k \in DOMAIN attempts[c], SameAttempts(c),
           \A j \in DOMAIN attempts[c] \ {k} : attempts'[c][j] = attempts[c][j],
           attempts'[c][k].fate = "counted" <=> attempts[c][k].fate = "counted"
    PROVE  CountedChunks' = CountedChunks
<1>1. DOMAIN attempts'[c] = DOMAIN attempts[c] /\ \A b \in Contents \ {c} : attempts'[b] = attempts[b]
  BY DEF SameAttempts
<1>2. ASSUME NEW b \in Contents
      PROVE  /\ DOMAIN attempts'[b] = DOMAIN attempts[b]
             /\ \A j \in DOMAIN attempts[b] :
                   attempts'[b][j].fate = "counted" <=> attempts[b][j].fate = "counted"
  <2>1. CASE b = c
    BY <1>1, <2>1
  <2>2. CASE b # c
    <3>1. attempts'[b] = attempts[b]
      BY <1>1, <2>2
    <3> QED
      BY <3>1
  <2> QED
    BY <2>1, <2>2
<1> QED
  BY <1>2, SameCountedChunks

\* Only the update of the run counts a chunk, and no event is added to a counted one.
LEMMA OthersCountNone ==
    ASSUME IndInv, [Next]_vars, ~(\E s \in Submissions : UpdateRunAfterChunk(s))
    PROVE  /\ CountedChunks' = CountedChunks
           /\ \A c \in CountedChunks : events'[c] = events[c]
<1>1. Types /\ attempts \in [Contents -> Seq(AttemptForms)]
  BY DEF IndInv, Types
<1>2. CASE UNCHANGED <<attempts, events>>
  BY <1>2, SMTT(30) DEF CountedChunks
<1>3. ASSUME NEW s \in Submissions, MarkStale(s)
      PROVE  CountedChunks' = CountedChunks /\ UNCHANGED events
  <2>1. /\ sub[s].pc = "mark" /\ UNCHANGED events
        /\ attempts' = Marked(sub[s].chunk, sub[s].stale, "failed_stale")
    BY <1>3 DEF MarkStale, At
  <2>2. sub[s].chunk \in Contents /\ sub[s].stale \in DOMAIN attempts[sub[s].chunk]
    BY <1>1, <2>1, Fields, SMTT(30) DEF Types, Placed
  <2>3. /\ SameAttempts(sub[s].chunk)
        /\ attempts'[sub[s].chunk][sub[s].stale].fate = attempts[sub[s].chunk][sub[s].stale].fate
        /\ \A j \in DOMAIN attempts[sub[s].chunk] \ {sub[s].stale} :
              attempts'[sub[s].chunk][j] = attempts[sub[s].chunk][j]
    BY <1>1, <2>1, <2>2, Marks DEF Statuses
  <2> QED
    BY <2>1, <2>2, <2>3, MarkingCountsNone
<1>4. ASSUME NEW s \in Submissions, CreateAttempt(s)
      PROVE  CountedChunks' = CountedChunks /\ UNCHANGED events
  <2> DEFINE c == sub[s].chunk
  <2>1. UNCHANGED events /\ c \in Contents
    BY <1>1, <1>4, Fields DEF CreateAttempt
  <2>2. CASE UNCHANGED attempts
    BY <2>1, <2>2 DEF CountedChunks
  <2>3. CASE attempts' = [attempts EXCEPT ![c] = Append(@, NewAttempt)]
    <3>1. /\ attempts' \in [Contents -> Seq(AttemptForms)]
          /\ Len(attempts'[c]) = Len(attempts[c]) + 1
          /\ attempts'[c][Len(attempts[c]) + 1] = NewAttempt
          /\ \A k \in DOMAIN attempts[c] : attempts'[c][k] = attempts[c][k]
          /\ \A b \in Contents \ {c} : attempts'[b] = attempts[b]
      BY <1>1, <2>1, <2>3, Adds
    <3>2. /\ Len(attempts[c]) \in Nat /\ DOMAIN attempts[c] = 1..Len(attempts[c])
          /\ DOMAIN attempts'[c] = 1..Len(attempts[c]) + 1
      BY <1>1, <2>1, <3>1, Chunk
    <3>3. NewAttempt.fate # "counted"
      BY DEF NewAttempt
    <3>4. ASSUME NEW b \in Contents, NEW k \in DOMAIN attempts[b]
          PROVE  /\ k \in DOMAIN attempts'[b]
                 /\ attempts'[b][k].fate = "counted" <=> attempts[b][k].fate = "counted"
      <4>1. CASE b = c
        BY <3>1, <3>2, <4>1, SMTT(30)
      <4>2. CASE b # c
        <5>1. attempts'[b] = attempts[b]
          BY <3>1, <4>2
        <5> QED
          BY <5>1
      <4> QED
        BY <4>1, <4>2
    <3>5. ASSUME NEW b \in Contents, NEW k \in DOMAIN attempts'[b], attempts'[b][k].fate = "counted"
          PROVE  k \in DOMAIN attempts[b]
      <4>1. CASE b = c
        <5>1. k # Len(attempts[c]) + 1
          BY <3>1, <3>3, <3>5, <4>1
        <5> QED
          BY <3>2, <4>1, <5>1
      <4>2. CASE b # c
        BY <3>1, <3>5, <4>2
      <4> QED
        BY <4>1, <4>2
    <3> QED
      BY <2>1, <3>4, <3>5, SameCountedChunks
  <2> QED
    BY <1>4, <2>2, <2>3 DEF CreateAttempt
<1>5. ASSUME NEW s \in Submissions, FinishChunk(s) \/ FailChunk(s) \/ RollbackRefused(s) \/ Stop(s)
      PROVE  CountedChunks' = CountedChunks /\ UNCHANGED events
  <2> DEFINE c == sub[s].chunk
             k == sub[s].attempt
  <2>1. sub[s].pc \in Claimed /\ UNCHANGED events
    BY <1>5 DEF FinishChunk, FailChunk, RollbackRefused, Stop, At, Claimed
  <2>2. c \in Contents /\ k \in DOMAIN attempts[c] /\ attempts[c][k] \in AttemptForms
    BY <2>1, HeldIsLast
  <2>3. attempts[c][k].fate # "counted"
    BY <2>1 DEF IndInv, Holds
  <2>4. CASE \E status \in Statuses : attempts' = Marked(c, k, status)
    <3>1. /\ SameAttempts(c) /\ attempts'[c][k].fate = attempts[c][k].fate
          /\ \A j \in DOMAIN attempts[c] \ {k} : attempts'[c][j] = attempts[c][j]
      BY <1>1, <2>2, <2>4, Marks
    <3> QED
      BY <2>1, <2>2, <3>1, MarkingCountsNone
  <2>5. CASE \E fate \in Fates \ {"counted"} : attempts' = Met(c, k, fate)
    <3>1. /\ SameAttempts(c) /\ attempts'[c][k].fate # "counted"
          /\ \A j \in DOMAIN attempts[c] \ {k} : attempts'[c][j] = attempts[c][j]
      BY <1>1, <2>2, <2>5, Meets
    <3> QED
      BY <2>1, <2>2, <2>3, <3>1, MarkingCountsNone
  <2>6. CASE FinishChunk(s) \/ FailChunk(s)
    <3>1. attempts' = Marked(c, k, "processed") \/ attempts' = Marked(c, k, "failed")
      BY <2>6 DEF FinishChunk, FailChunk
    <3> QED
      BY <2>4, <3>1 DEF Statuses
  <2>7. CASE RollbackRefused(s)
    <3>1. attempts' = Met(c, k, "rollback")
      BY <2>7 DEF RollbackRefused, Met
    <3> QED
      BY <2>5, <3>1 DEF Fates, Claimed
  <2>8. CASE Stop(s)
    <3>1. PICK fate : fate = IF attempts[c][k].fate = "open" THEN sub[s].pc ELSE attempts[c][k].fate
      OBVIOUS
    <3>2. fate \in Fates \ {"counted"}
      BY <2>1, <2>2, <2>3, <3>1 DEF AttemptForms, Fates, Claimed
    <3>3. attempts' = Met(c, k, fate)
      BY <1>1, <2>2, <2>8, <3>1, Zenon DEF Stop, Met
    <3> QED
      BY <2>5, <3>2, <3>3
  <2> QED
    BY <1>5, <2>6, <2>7, <2>8, SMTT(30)
<1>6. ASSUME NEW s \in Submissions, PersistTrackedEvents(s)
      PROVE  CountedChunks' = CountedChunks /\ \A c \in CountedChunks : events'[c] = events[c]
  <2>1. sub[s].pc \in Claimed /\ UNCHANGED attempts
    BY <1>6 DEF PersistTrackedEvents, At, Claimed
  <2>2. sub[s].chunk \notin CountedChunks
    BY <2>1, HeldIsNotCounted
  <2>3. PICK q : events' = [events EXCEPT ![sub[s].chunk] = q]
    BY <1>6 DEF PersistTrackedEvents
  <2>4. \A c \in CountedChunks : events'[c] = events[c]
    <3>1. CountedChunks \subseteq Contents /\ DOMAIN events = Contents
      BY <1>1 DEF CountedChunks, Types
    <3> QED
      BY <2>2, <2>3, <3>1
  <2> QED
    BY <2>1, <2>4 DEF CountedChunks
<1>7. \/ UNCHANGED <<attempts, events>>
      \/ \E s \in Submissions :
            \/ MarkStale(s) \/ CreateAttempt(s) \/ PersistTrackedEvents(s)
            \/ FinishChunk(s) \/ FailChunk(s) \/ RollbackRefused(s) \/ Stop(s)
  BY ZenonT(40) DEF Next, Work, Fault, vars, Submit, BumpDuplicateChunkCount,
     ListCheckpointedChunkEvents, FindExisting, ProcessTrackedRecord, Rollback, PersistRefused,
     Refused
<1> QED
  BY <1>2, <1>3, <1>4, <1>5, <1>6, <1>7

\* The counters of the run change with the update of the run only.
LEMMA OthersKeepCounts ==
    ASSUME Types, [Next]_vars, ~(\E s \in Submissions : UpdateRunAfterChunk(s))
    PROVE  run'.counts = run.counts /\ run'.chunks = run.chunks
<1>1. CASE UNCHANGED run
  BY <1>1
<1>2. ASSUME NEW s \in Submissions, BumpDuplicateChunkCount(s)
      PROVE  run'.counts = run.counts /\ run'.chunks = run.chunks
  <2>1. run \in RunForms
    BY DEF Types
  <2>2. PICK n : n = run.duplicates + 1
    OBVIOUS
  <2>3. PICK r : r = [run EXCEPT !.duplicates = n]
    OBVIOUS
  <2>4. run' = r
    BY <1>2, <2>2, <2>3 DEF BumpDuplicateChunkCount
  <2>5. r.counts = run.counts /\ r.chunks = run.chunks
    BY <2>1, <2>3, Zenon DEF RunForms
  <2> QED
    BY <2>4, <2>5
<1>3. \/ UNCHANGED run
      \/ \E s \in Submissions : BumpDuplicateChunkCount(s)
  BY ZenonT(40) DEF Next, Work, Fault, vars, Submit, MarkStale, ListCheckpointedChunkEvents,
     CreateAttempt, FindExisting, ProcessTrackedRecord, PersistTrackedEvents, Rollback,
     FinishChunk, FailChunk, PersistRefused, RollbackRefused, Refused, Stop
<1> QED
  BY <1>1, <1>2, <1>3

\* The update of the run adds the events of a chunk that was not counted.
LEMMA UpdateCounts ==
    ASSUME IndInv, CountsReported, NEW s \in Submissions, UpdateRunAfterChunk(s)
    PROVE  CountsReported'
<1> DEFINE c == sub[s].chunk
           k == sub[s].attempt
           E(o) == {j \in DOMAIN events[c] : events[c][j].outcome = o}
<1>1. Types /\ Holds(s)
  BY DEF IndInv
<1>2. sub[s].pc = "count" /\ sub[s].pc \in Claimed /\ events' = events
  BY DEF UpdateRunAfterChunk, At, Claimed
<1>3. c \in Contents /\ k \in DOMAIN attempts[c] /\ c \notin CountedChunks
  BY <1>2, HeldIsLast, HeldIsNotCounted
<1>4. attempts' = Met(c, k, "counted") /\ attempts \in [Contents -> Seq(AttemptForms)]
  BY <1>1 DEF UpdateRunAfterChunk, Met, Types
<1>5. /\ SameAttempts(c) /\ attempts'[c][k].fate = "counted"
      /\ \A j \in DOMAIN attempts[c] \ {k} : attempts'[c][j] = attempts[c][j]
  BY <1>3, <1>4, Meets DEF Fates
<1>6. DOMAIN attempts'[c] = DOMAIN attempts[c] /\ \A b \in Contents \ {c} : attempts'[b] = attempts[b]
  BY <1>5 DEF SameAttempts
<1>7. CountedChunks' = CountedChunks \union {c}
  <2>1. ASSUME NEW b \in Contents, b # c PROVE b \in CountedChunks' <=> b \in CountedChunks
    <3>1. attempts'[b] = attempts[b]
      BY <1>6, <2>1
    <3> QED
      BY <3>1 DEF CountedChunks
  <2>2. c \in CountedChunks'
    BY <1>3, <1>5, <1>6 DEF CountedChunks
  <2>3. CountedChunks \subseteq Contents /\ CountedChunks' \subseteq Contents
    BY DEF CountedChunks
  <2> QED
    BY <1>3, <2>1, <2>2, <2>3
<1>8. IsFiniteSet(CountedChunks) /\ Cardinality(CountedChunks) \in Nat
  <2>1. CountedChunks \in SUBSET Contents
    BY DEF CountedChunks
  <2> QED
    BY <2>1, ChunksAssumption, FS_Subset, FS_CardinalityType
<1>9. Cardinality(CountedChunks') = Cardinality(CountedChunks) + 1
  BY <1>3, <1>7, <1>8, FS_AddElement
<1>10. /\ sub[s].counters \in [Outcomes -> Nat]
       /\ run' = Counted(c, sub[s].counters)
  BY <1>1, Fields DEF UpdateRunAfterChunk
<1>11. /\ run'.counts = [o \in Outcomes |-> run.counts[o] + sub[s].counters[o]]
       /\ run'.chunks = run.chunks + 1
  BY <1>1, <1>3, <1>10, CountedForm, SMTT(30)
<1>12. ASSUME NEW o \in Outcomes
       PROVE  /\ IsFiniteSet(CountedEvents(o)')
              /\ run'.counts[o] = Cardinality(CountedEvents(o)')
  <2> DEFINE R == CountedEvents(o)
             P == {c} \X E(o)
  <2>1. CountedEvents(o)' = R \union P
    <3>1. \A b : b \in CountedChunks' <=> b \in CountedChunks \/ b = c
      BY <1>7
    <3> HIDE DEF c
    <3> QED
      BY <1>2, <3>1 DEF CountedEvents
  <2>2. IsFiniteSet(R) /\ run.counts[o] = Cardinality(R)
    BY DEF CountsReported
  <2>3. E(o) \in SUBSET DOMAIN events[c]
    OBVIOUS
  <2>4. IsFiniteSet(E(o)) /\ Cardinality(E(o)) \in Nat
    BY <1>1, <1>3, <2>3, Finite
  <2>5. sub[s].counters[o] = Cardinality(E(o))
    <3>1. CountersAreEvents(s)
      BY <1>1, <1>2 DEF Holds
    <3> QED
      BY <3>1 DEF CountersAreEvents
  <2>6. IsFiniteSet({c}) /\ Cardinality({c}) = 1
    BY FS_Singleton
  <2>7. IsFiniteSet(P) /\ Cardinality(P) = Cardinality(E(o))
    <3>1. IsFiniteSet(P) /\ Cardinality(P) = Cardinality({c}) * Cardinality(E(o))
      BY <2>4, <2>6, FS_Product
    <3> QED
      BY <2>4, <2>6, <3>1
  <2>8. R \cap P = {}
    <3>1. ASSUME NEW x \in R, x \in P PROVE FALSE
      <4>1. PICK b \in CountedChunks :
                   x \in {b} \X {j \in DOMAIN events[b] : events[b][j].outcome = o}
        BY DEF CountedEvents
      <4>2. x[1] = b /\ x[1] = c
        BY <3>1, <4>1
      <4> QED
        BY <1>3, <4>1, <4>2
    <3> QED
      BY <3>1
  <2>9. IsFiniteSet(R \union P)
        /\ Cardinality(R \union P) = Cardinality(R) + Cardinality(P) - Cardinality(R \cap P)
    BY <2>2, <2>7, FS_Union
  <2>10. Cardinality(R \cap P) = 0
    BY <2>8, FS_EmptySet
  <2>11. Cardinality(R) \in Nat /\ Cardinality(P) \in Nat
    BY <2>2, <2>7, FS_CardinalityType
  <2>12. Cardinality(R \union P) = Cardinality(R) + Cardinality(P)
    BY <2>9, <2>10, <2>11
  <2>13. run'.counts[o] = run.counts[o] + sub[s].counters[o]
    BY <1>11
  <2> QED
    BY <2>1, <2>2, <2>5, <2>7, <2>9, <2>12, <2>13
<1>13. run'.chunks = Cardinality(CountedChunks')
  BY <1>9, <1>11 DEF CountsReported
<1> QED
  BY <1>12, <1>13 DEF CountsReported

LEMMA CountsStay ==
    ASSUME IndInv, CountsReported, [Next]_vars
    PROVE  CountsReported'
<1>1. CASE \E s \in Submissions : UpdateRunAfterChunk(s)
  BY <1>1, UpdateCounts
<1>2. CASE ~(\E s \in Submissions : UpdateRunAfterChunk(s))
  <2>1. CountedChunks' = CountedChunks /\ \A c \in CountedChunks : events'[c] = events[c]
    BY <1>2, OthersCountNone
  <2>2. \A o \in Outcomes : CountedEvents(o)' = CountedEvents(o)
    BY <2>1, SameCountedEvents
  <2>3. run'.counts = run.counts /\ run'.chunks = run.chunks
    BY <1>2, OthersKeepCounts DEF IndInv
  <2> QED
    BY <2>1, <2>2, <2>3 DEF CountsReported
<1> QED
  BY <1>1, <1>2

\* Submission s is about to count attempt k at chunk c, or to mark it.
Counting(s, c, k) == sub[s].chunk = c /\ sub[s].attempt = k /\ sub[s].pc \in {"count", "fail"}

\* A step of s loses no processed attempt: s is about to count it afterwards, or it was
\* processed before and s was not about to count it.
LEMMA AccountsStay ==
    ASSUME ProcessedIsAccounted, NEW s \in Submissions, Moves(s),
           \A c \in Contents : \A k \in DOMAIN attempts'[c] :
              attempts'[c][k].status = "processed" /\ attempts'[c][k].fate \notin Ended =>
                 \/ Counting(s, c, k)'
                 \/ /\ k \in DOMAIN attempts[c] /\ attempts[c][k].status = "processed"
                    /\ attempts[c][k].fate \notin Ended /\ ~Counting(s, c, k)
    PROVE  ProcessedIsAccounted'
<1> SUFFICES ASSUME NEW c \in Contents, NEW k \in DOMAIN attempts'[c],
                    attempts'[c][k].status = "processed", attempts'[c][k].fate \notin Ended
             PROVE  AboutToCount(c, k)'
  BY DEF ProcessedIsAccounted, WithStatus
<1>1. CASE Counting(s, c, k)'
  BY <1>1 DEF Counting, AboutToCount
<1>2. CASE /\ k \in DOMAIN attempts[c] /\ attempts[c][k].status = "processed"
           /\ attempts[c][k].fate \notin Ended /\ ~Counting(s, c, k)
  <2>1. AboutToCount(c, k)
    BY <1>2 DEF ProcessedIsAccounted, WithStatus
  <2>2. PICK t \in Submissions : Counting(t, c, k)
    BY <2>1 DEF AboutToCount, Counting
  <2>3. t # s /\ sub'[t] = sub[t]
    BY <1>2, <2>2 DEF Moves
  <2> QED
    BY <2>2, <2>3 DEF AboutToCount, Counting
<1> QED
  BY <1>1, <1>2

\* When it leaves the attempts alone and was not about to count, or still is.
LEMMA QuietAccountsStay ==
    ASSUME ProcessedIsAccounted, NEW s \in Submissions, Moves(s), UNCHANGED attempts,
           sub[s].pc \notin {"count", "fail"}
           \/ (/\ sub'[s].chunk = sub[s].chunk /\ sub'[s].attempt = sub[s].attempt
               /\ sub'[s].pc \in {"count", "fail"})
    PROVE  ProcessedIsAccounted'
<1>1. \A c, k : Counting(s, c, k) => Counting(s, c, k)'
  BY DEF Counting
<1> QED
  BY <1>1, AccountsStay

\* When it changes one attempt, the only one it can have been about to count.
LEMMA OwnAccountsStay ==
    ASSUME ProcessedIsAccounted, NEW s \in Submissions, Moves(s), NEW c \in Contents,
           NEW k \in DOMAIN attempts[c], SameAttempts(c),
           \A j \in DOMAIN attempts[c] \ {k} : attempts'[c][j] = attempts[c][j],
           sub[s].pc \in {"count", "fail"} => sub[s].chunk = c /\ sub[s].attempt = k,
           attempts'[c][k].status = "processed" /\ attempts'[c][k].fate \notin Ended
              => /\ sub'[s].chunk = c /\ sub'[s].attempt = k
                 /\ sub'[s].pc \in {"count", "fail"}
    PROVE  ProcessedIsAccounted'
<1>1. DOMAIN attempts'[c] = DOMAIN attempts[c] /\ \A b \in Contents \ {c} : attempts'[b] = attempts[b]
  BY DEF SameAttempts
<1>2. ASSUME NEW b \in Contents, NEW j \in DOMAIN attempts'[b],
             attempts'[b][j].status = "processed", attempts'[b][j].fate \notin Ended
      PROVE  \/ Counting(s, b, j)'
             \/ /\ j \in DOMAIN attempts[b] /\ attempts[b][j].status = "processed"
                /\ attempts[b][j].fate \notin Ended /\ ~Counting(s, b, j)
  <2>1. CASE b = c /\ j = k
    BY <1>2, <2>1 DEF Counting
  <2>2. CASE ~(b = c /\ j = k)
    <3>1. j \in DOMAIN attempts[b] /\ attempts'[b][j] = attempts[b][j]
      BY <1>1, <2>2
    <3>2. ~Counting(s, b, j)
      BY <2>2 DEF Counting
    <3> QED
      BY <1>2, <3>1, <3>2
  <2> QED
    BY <2>1, <2>2
<1> QED
  BY <1>2, AccountsStay

\* No step loses a processed attempt but by saying what it stopped at.
LEMMA NextAccounts ==
    ASSUME IndInv, ProcessedIsAccounted, [Next]_vars
    PROVE  ProcessedIsAccounted'
<1>1. Types /\ attempts \in [Contents -> Seq(AttemptForms)]
  BY DEF IndInv, Types
<1>2. CASE UNCHANGED vars
  BY <1>2 DEF vars, ProcessedIsAccounted, WithStatus, AboutToCount
<1>3. ASSUME NEW s \in Submissions, NEW c \in Contents, Submit(s, c) PROVE ProcessedIsAccounted'
  <2>1. UNCHANGED attempts
    BY <1>3, Zenon DEF Submit
  <2>2. Moves(s) /\ sub[s].pc = "idle"
    BY <1>1, <1>3, Starts
  <2> QED
    BY <2>1, <2>2, QuietAccountsStay
<1>4. ASSUME NEW s \in Submissions, BumpDuplicateChunkCount(s) PROVE ProcessedIsAccounted'
  <2>1. UNCHANGED attempts /\ sub[s].pc = "bump" /\ Answer(s)
    BY <1>4 DEF BumpDuplicateChunkCount, At
  <2> QED
    BY <1>1, <2>1, Answers, QuietAccountsStay
<1>5. ASSUME NEW s \in Submissions, MarkStale(s) PROVE ProcessedIsAccounted'
  <2>1. /\ sub[s].pc = "mark" /\ Goto(s, "list")
        /\ attempts' = Marked(sub[s].chunk, sub[s].stale, "failed_stale")
    BY <1>5 DEF MarkStale, At
  <2>2. sub[s].chunk \in Contents /\ sub[s].stale \in DOMAIN attempts[sub[s].chunk]
    BY <1>1, <2>1, Fields, SMTT(30) DEF Types, Placed
  <2>3. /\ SameAttempts(sub[s].chunk)
        /\ attempts'[sub[s].chunk][sub[s].stale].status = "failed_stale"
        /\ \A j \in DOMAIN attempts[sub[s].chunk] \ {sub[s].stale} :
              attempts'[sub[s].chunk][j] = attempts[sub[s].chunk][j]
    BY <1>1, <2>1, <2>2, Marks DEF Statuses
  <2>4. Moves(s)
    BY <1>1, <2>1, GoesTo DEF Pcs, Waiting
  <2> QED
    BY <2>1, <2>2, <2>3, <2>4, OwnAccountsStay
<1>6. ASSUME NEW s \in Submissions, ListCheckpointedChunkEvents(s) PROVE ProcessedIsAccounted'
  <2>1. UNCHANGED attempts
    BY <1>6 DEF ListCheckpointedChunkEvents
  <2>2. Moves(s) /\ sub[s].pc = "list"
    BY <1>1, <1>6, Lists
  <2> QED
    BY <2>1, <2>2, QuietAccountsStay
<1>7. ASSUME NEW s \in Submissions, CreateAttempt(s) PROVE ProcessedIsAccounted'
  <2> DEFINE c == sub[s].chunk
  <2>1. sub[s].pc = "create" /\ c \in Contents
    BY <1>1, <1>7, Fields DEF CreateAttempt, At
  <2>2. CASE Answer(s) /\ UNCHANGED attempts
    BY <1>1, <2>1, <2>2, Answers, QuietAccountsStay
  <2>3. CASE attempts' = [attempts EXCEPT ![c] = Append(@, NewAttempt)] /\ Goto(s, "read")
    <3>1. Moves(s)
      BY <1>1, <2>3, GoesTo DEF Pcs, Claimed
    <3>2. /\ Len(attempts'[c]) = Len(attempts[c]) + 1
          /\ attempts' \in [Contents -> Seq(AttemptForms)]
          /\ attempts'[c][Len(attempts[c]) + 1] = NewAttempt
          /\ \A k \in DOMAIN attempts[c] : attempts'[c][k] = attempts[c][k]
          /\ \A b \in Contents \ {c} : attempts'[b] = attempts[b]
      BY <1>1, <2>1, <2>3, Adds
    <3>3. /\ Len(attempts[c]) \in Nat /\ DOMAIN attempts[c] = 1..Len(attempts[c])
          /\ DOMAIN attempts'[c] = 1..Len(attempts[c]) + 1
      BY <1>1, <2>1, <3>2, Chunk
    <3>4. NewAttempt.status = "processing"
      BY DEF NewAttempt
    <3>5. ASSUME NEW b \in Contents, NEW k \in DOMAIN attempts'[b],
                 attempts'[b][k].status = "processed"
          PROVE  k \in DOMAIN attempts[b] /\ attempts'[b][k] = attempts[b][k]
      <4>1. CASE b = c
        <5>1. k # Len(attempts[c]) + 1
          BY <3>2, <3>4, <3>5, <4>1
        <5> QED
          BY <3>2, <3>3, <4>1, <5>1
      <4>2. CASE b # c
        BY <3>2, <4>2
      <4> QED
        BY <4>1, <4>2
    <3>6. \A b, k : ~Counting(s, b, k)
      BY <2>1 DEF Counting
    <3>7. ASSUME NEW b \in Contents, NEW k \in DOMAIN attempts'[b],
                 attempts'[b][k].status = "processed", attempts'[b][k].fate \notin Ended
          PROVE  /\ k \in DOMAIN attempts[b] /\ attempts[b][k].status = "processed"
                 /\ attempts[b][k].fate \notin Ended /\ ~Counting(s, b, k)
      BY <3>5, <3>6, <3>7
    <3> QED
      BY <3>1, <3>7, AccountsStay
  <2> QED
    BY <1>7, <2>2, <2>3 DEF CreateAttempt
<1>8. ASSUME NEW s \in Submissions, FindExisting(s) PROVE ProcessedIsAccounted'
  <2>1. UNCHANGED attempts
    BY <1>8 DEF FindExisting
  <2> QED
    BY <1>1, <1>8, <2>1, Finds, QuietAccountsStay
<1>9. ASSUME NEW s \in Submissions, ProcessTrackedRecord(s) PROVE ProcessedIsAccounted'
  <2>1. UNCHANGED attempts
    BY <1>9 DEF ProcessTrackedRecord
  <2> QED
    BY <1>1, <1>9, <2>1, Processes, QuietAccountsStay
<1>10. ASSUME NEW s \in Submissions, PersistTrackedEvents(s) PROVE ProcessedIsAccounted'
  <2>1. UNCHANGED attempts
    BY <1>10 DEF PersistTrackedEvents
  <2> QED
    BY <1>1, <1>10, <2>1, Persists, QuietAccountsStay
<1>11. ASSUME NEW s \in Submissions, PersistRefused(s) \/ Rollback(s) PROVE ProcessedIsAccounted'
  <2>1. UNCHANGED attempts /\ sub[s].pc \in {"persist", "rollback"} /\ (Fails(s) \/ Goto(s, "rollback"))
    BY <1>11 DEF PersistRefused, Rollback, At
  <2>2. Moves(s)
    BY <1>1, <2>1, FailsTo, GoesTo DEF Pcs, Claimed
  <2> QED
    BY <2>1, <2>2, QuietAccountsStay
<1>12. ASSUME NEW s \in Submissions, Refused(s) PROVE ProcessedIsAccounted'
  <2>1. UNCHANGED attempts /\ Fails(s)
    BY <1>12 DEF Refused
  <2> QED
    BY <1>1, <2>1, FailsTo, QuietAccountsStay
<1>13. ASSUME NEW s \in Submissions,
              \/ FinishChunk(s) \/ UpdateRunAfterChunk(s) \/ FailChunk(s)
              \/ RollbackRefused(s) \/ Stop(s)
       PROVE  ProcessedIsAccounted'
  <2> DEFINE c == sub[s].chunk
             k == sub[s].attempt
  <2>1. sub[s].pc \in Claimed /\ Holds(s)
    BY <1>13 DEF FinishChunk, UpdateRunAfterChunk, FailChunk, RollbackRefused, Stop, At, Claimed,
                 IndInv
  <2>2. c \in Contents /\ k \in DOMAIN attempts[c]
    BY <2>1, HeldIsLast
  <2>3. ASSUME Moves(s), SameAttempts(c),
               \A j \in DOMAIN attempts[c] \ {k} : attempts'[c][j] = attempts[c][j],
               attempts'[c][k].status = "processed" /\ attempts'[c][k].fate \notin Ended
                  => /\ sub'[s].chunk = c /\ sub'[s].attempt = k
                     /\ sub'[s].pc \in {"count", "fail"}
        PROVE  ProcessedIsAccounted'
    BY <2>2, <2>3, OwnAccountsStay
  <2>4. CASE FinishChunk(s)
    <3>1. attempts' = Marked(c, k, "processed")
      BY <2>4 DEF FinishChunk
    <3>2. SameAttempts(c) /\ \A j \in DOMAIN attempts[c] \ {k} : attempts'[c][j] = attempts[c][j]
      BY <1>1, <2>2, <3>1, Marks DEF Statuses
    <3>3. Moves(s) /\ sub'[s].chunk = c /\ sub'[s].attempt = k /\ sub'[s].pc = "count"
      BY <1>1, <2>4, Finishes
    <3> QED
      BY <2>3, <3>2, <3>3
  <2>5. CASE UpdateRunAfterChunk(s)
    <3>1. attempts' = Met(c, k, "counted") /\ Answer(s)
      BY <2>5 DEF UpdateRunAfterChunk, Met
    <3>2. /\ SameAttempts(c) /\ attempts'[c][k].fate = "counted"
          /\ \A j \in DOMAIN attempts[c] \ {k} : attempts'[c][j] = attempts[c][j]
      BY <1>1, <2>2, <3>1, Meets DEF Fates
    <3>3. Moves(s)
      BY <1>1, <3>1, Answers
    <3> QED
      BY <2>3, <3>2, <3>3 DEF Ended
  <2>6. CASE FailChunk(s)
    <3>1. attempts' = Marked(c, k, "failed") /\ Answer(s)
      BY <2>6, SMTT(30) DEF FailChunk
    <3>2. /\ SameAttempts(c) /\ attempts'[c][k].status = "failed"
          /\ \A j \in DOMAIN attempts[c] \ {k} : attempts'[c][j] = attempts[c][j]
      BY <1>1, <2>2, <3>1, Marks DEF Statuses
    <3>3. Moves(s)
      BY <1>1, <3>1, Answers
    <3> QED
      BY <2>3, <3>2, <3>3
  <2>7. CASE RollbackRefused(s)
    <3>1. attempts' = Met(c, k, "rollback") /\ Fails(s) /\ sub[s].pc = "rollback"
      BY <2>7, SMTT(30) DEF RollbackRefused, Met, At
    <3>2. /\ SameAttempts(c) /\ attempts'[c][k].status = attempts[c][k].status
          /\ \A j \in DOMAIN attempts[c] \ {k} : attempts'[c][j] = attempts[c][j]
      BY <1>1, <2>2, <3>1, Meets DEF Fates, Claimed
    <3>3. attempts[c][k].status = "processing"
      BY <2>1, <3>1 DEF Holds, Claimed, Working
    <3>4. Moves(s)
      BY <1>1, <3>1, FailsTo
    <3> QED
      BY <2>3, <3>2, <3>3, <3>4
  <2>8. CASE Stop(s)
    <3>1. PICK fate : fate = IF attempts[c][k].fate = "open" THEN sub[s].pc ELSE attempts[c][k].fate
      OBVIOUS
    <3>2. attempts[c][k] \in AttemptForms
      BY <2>1, HeldIsLast
    <3>3. fate \in Fates
      BY <2>1, <3>1, <3>2 DEF AttemptForms, Fates
    <3>4. attempts' = Met(c, k, fate)
      BY <1>1, <2>2, <2>8, <3>1, Zenon DEF Stop, Met
    <3>5. /\ SameAttempts(c) /\ attempts'[c][k].status = attempts[c][k].status
          /\ attempts'[c][k].fate = fate
          /\ \A j \in DOMAIN attempts[c] \ {k} : attempts'[c][j] = attempts[c][j]
      BY <1>1, <2>2, <3>3, <3>4, Meets
    <3>6. attempts[c][k].status = "processed" => fate \in {"count", "fail"}
      BY <2>1, <3>1 DEF Holds, Claimed, Working
    <3>7. Moves(s)
      BY <1>1, <2>8, Answers DEF Stop
    <3> QED
      BY <2>3, <3>5, <3>6, <3>7 DEF Ended
  <2> QED
    BY <1>13, <2>4, <2>5, <2>6, <2>7, <2>8, SMTT(30)
<1> QED
  BY <1>2, <1>3, <1>4, <1>5, <1>6, <1>7, <1>8, <1>9, <1>10, <1>11, <1>12, <1>13
     DEF Next, Work, Fault

\* As long as no attempt outlives the time-out, the run's counters are exactly the events
\* of the chunks it has counted, each once, and every processed chunk is counted, about to
\* be, or its submission stopped between the two writes.
THEOREM RunCounts ==
    ASSUME ~SlowAttempts
    PROVE  Spec => []RunCountsReported
<1>1. Init => CountsReported /\ ProcessedIsAccounted
  <2> SUFFICES ASSUME Init PROVE CountsReported /\ ProcessedIsAccounted
    OBVIOUS
  <2>1. \A c \in Contents : DOMAIN attempts[c] = {}
    BY DEF Init
  <2>2. CountedChunks = {}
    BY <2>1 DEF CountedChunks
  <2>3. \A o : CountedEvents(o) = {}
    BY <2>2 DEF CountedEvents
  <2>4. run.chunks = 0 /\ \A o \in Outcomes : run.counts[o] = 0
    BY DEF Init, NoCounts
  <2>5. CountsReported
    BY <2>2, <2>3, <2>4, FS_EmptySet DEF CountsReported
  <2>6. ProcessedIsAccounted
    BY <2>1 DEF ProcessedIsAccounted, WithStatus
  <2> QED
    BY <2>5, <2>6
<1>2. IndInv /\ CountsReported /\ ProcessedIsAccounted /\ [Next]_vars
         => CountsReported' /\ ProcessedIsAccounted'
  BY CountsStay, NextAccounts
<1>3. CountsReported /\ ProcessedIsAccounted => RunCountsReported
  BY DEF CountsReported, ProcessedIsAccounted, RunCountsReported, Ended
<1> QED
  BY <1>1, <1>2, <1>3, IndInvAlways, PTL DEF Spec

-----------------------------------------------------------------------------
(* What the records of the chunks hold                                     *)

\* What the values of stored records are made of.
Data == Contents \union UNION {{d.value[j] : j \in DOMAIN d.value} : d \in InitialStore}

\* An oid was generated for a record of a chunk or is that of an old record: it
\* stays with one harvest id.
Names(oid, id) ==
    \/ /\ oid \in Contents \X Nat \X Nat
       /\ oid[3] \in DOMAIN Chunks[oid[1]] /\ id = Chunks[oid[1]][oid[3]].id
    \/ \E d \in InitialStore : oid = d.oid /\ id = d.id

Document(d) == d \in [oid : {d.oid}, id : {d.id}, value : Seq(Data)] /\ Names(d.oid, d.id)

Current(s) == Chunks[sub[s].chunk][sub[s].done + 1]
Applied(s) == sub[s].pc \in {"persist", "rollback"}

\* What an applied record would put back, and what it has left.
UndoFits(s) ==
    Applied(s) =>
        /\ sub[s].done + 1 \in DOMAIN Chunks[sub[s].chunk]
        /\ \A e \in sub[s].undo :
              /\ Names(e.oid, Current(s).id)
              /\ \A d \in e.before \union e.after : Document(d) /\ d.oid = e.oid

Single(S) == \A d, e \in S : d = e
HasSent(S, c) == \E d \in S : \E j \in DOMAIN d.value : d.value[j] = c

\* The records a submission has still to apply are as it has read them.
Ahead(s, i) ==
    \/ sub[s].pc = "process" /\ sub[s].done < i
    \/ Applied(s) /\ sub[s].done + 1 < i
FoundIsCurrent(s) ==
    \A i \in DOMAIN Chunks[sub[s].chunk] :
        Alone(sub[s].chunk, i) /\ Ahead(s, i) =>
            {d \in sub[s].found : d.id = Chunks[sub[s].chunk][i].id} = Copies(sub[s].chunk, i)

\* The record it has applied is as its outcome says, and undoing it leaves what was
\* there before.
OutcomeFits(s, c, copies, lost) ==
    /\ sub[s].outcome \in {"created", "updated"} => HasSent(copies, c)
    /\ sub[s].outcome = "deleted" => copies = {}
    /\ sub[s].outcome \notin {"created", "updated"} \/ sub[s].undo = {} => HeldAtMost(copies, c, lost)
    /\ \A e \in sub[s].undo : /\ e.after = copies
                              /\ Single(e.before) /\ IsFiniteSet(e.before)
                              /\ HeldAtMost(e.before, c, lost)
OutcomeIsStored(s) ==
    Applied(s) /\ Alone(sub[s].chunk, sub[s].done + 1) =>
        OutcomeFits(s, sub[s].chunk, Copies(sub[s].chunk, sub[s].done + 1),
                    Excused(sub[s].chunk, sub[s].done + 1))

\* A record that a chunk names alone has one copy at most, unless it had more, and
\* it is stored as it was reported.
RecordFits(c, i) ==
    /\ IsFiniteSet(Copies(c, i))
    /\ Single(Copies(c, i)) \/ ~Single({d \in InitialStore : d.id = Chunks[c][i].id})
    /\ Reports(c, i, {"created", "updated"}) => HasSent(Copies(c, i), c)
    /\ Reports(c, i, {"deleted"}) => Copies(c, i) = {}
    /\ HeldAtMost(Copies(c, i), c,
           Excused(c, i)
             + (IF Reports(c, i, {"created", "updated"}) \/ UnderWay(c, i) THEN 1 ELSE 0))

\* What a submission knows of the records is so.
OwnRecords(s) ==
    /\ \A d \in sub[s].found : Document(d)
    /\ UndoFits(s) /\ FoundIsCurrent(s) /\ OutcomeIsStored(s)

RecordsInv ==
    /\ \A d \in stored : Document(d)
    /\ \A c \in Contents : \A i \in DOMAIN Chunks[c] : Alone(c, i) => RecordFits(c, i)
    /\ \A s \in Submissions : OwnRecords(s)

-----------------------------------------------------------------------------
(* Documents                                                               *)

\* How often a sequence holds something is a number.
LEMMA Occurrences ==
    ASSUME NEW T, NEW v \in Seq(T), NEW c
    PROVE  Cardinality({j \in DOMAIN v : v[j] = c}) \in Nat /\ IsFiniteSet({j \in DOMAIN v : v[j] = c})
<1>1. DOMAIN v = 1..Len(v) /\ Len(v) \in Nat
  OBVIOUS
<1>2. IsFiniteSet(1..Len(v))
  BY <1>1, FS_Interval
<1>3. {j \in DOMAIN v : v[j] = c} \subseteq 1..Len(v)
  BY <1>1
<1> QED
  BY <1>2, <1>3, FS_Subset, FS_CardinalityType

LEMMA TimesIsNatural ==
    ASSUME NEW d, Document(d), NEW c
    PROVE  Times(d, c) \in Nat
<1>1. d.value \in Seq(Data)
  BY DEF Document
<1> QED
  BY <1>1, Occurrences DEF Times

LEMMA BeforeIsNatural ==
    ASSUME NEW oid, NEW c
    PROVE  Before(oid, c) \in Nat
<1> DEFINE old == {d \in InitialStore : d.oid = oid}
<1>1. CASE old = {}
  BY <1>1 DEF Before
<1>2. CASE old # {}
  <2>1. (CHOOSE d \in old : TRUE) \in old
    BY <1>2
  <2>2. PICK d \in InitialStore : d = CHOOSE e \in old : TRUE
    BY <2>1
  <2>3. d.value \in Seq({d.value[j] : j \in DOMAIN d.value})
    BY <2>2, StoreAssumption
  <2>4. Times(d, c) \in Nat
    BY <2>3, Occurrences DEF Times
  <2> QED
    BY <1>2, <2>2, <2>4 DEF Before
<1> QED
  BY <1>1, <1>2

\* A larger bound holds too.
LEMMA HeldMore ==
    ASSUME NEW S, \A d \in S : Document(d), NEW c, NEW m \in Nat, NEW n \in Nat, m <= n,
           HeldAtMost(S, c, m)
    PROVE  HeldAtMost(S, c, n)
<1> SUFFICES ASSUME NEW d \in S PROVE Times(d, c) <= Before(d.oid, c) + n
  BY DEF HeldAtMost
<1>1. Times(d, c) <= Before(d.oid, c) + m
  BY DEF HeldAtMost
<1>2. Times(d, c) \in Nat /\ Before(d.oid, c) \in Nat
  BY TimesIsNatural, BeforeIsNatural
<1> QED
  BY <1>1, <1>2

\* An oid stays with one id.
LEMMA NamesOnce ==
    ASSUME NEW oid, NEW x, NEW y, Names(oid, x), Names(oid, y)
    PROVE  x = y
  BY StoreAssumption DEF Names

LEMMA OldDocuments == \A d \in InitialStore : Document(d)
<1> SUFFICES ASSUME NEW d \in InitialStore PROVE Document(d)
  OBVIOUS
<1>1. /\ d = [oid |-> d.oid, id |-> d.id, value |-> d.value]
      /\ d.value \in Seq({d.value[j] : j \in DOMAIN d.value})
  BY StoreAssumption
<1>2. {d.value[j] : j \in DOMAIN d.value} \subseteq Data
  BY DEF Data
<1>3. d.value \in Seq(Data)
  BY <1>1, <1>2
<1>4. Names(d.oid, d.id)
  BY DEF Names
<1> QED
  BY <1>1, <1>3, <1>4 DEF Document

\* A new record is one, and holds what was sent once.
LEMMA NewDocument ==
    ASSUME NEW c \in Contents, NEW k \in Nat, NEW i \in DOMAIN Chunks[c], NEW d,
           d = [oid |-> <<c, k, i>>, id |-> Chunks[c][i].id, value |-> <<c>>]
    PROVE  /\ Document(d) /\ d.oid = <<c, k, i>> /\ d.id = Chunks[c][i].id
           /\ HasSent({d}, c) /\ Times(d, c) = 1
<1>1. i \in Nat
  BY LenChunks
<1>2. Names(<<c, k, i>>, Chunks[c][i].id)
  BY <1>1 DEF Names
<1>3. <<c>> \in Seq(Data) /\ DOMAIN <<c>> = {1}
  BY DEF Data
<1>4. {j \in DOMAIN <<c>> : <<c>>[j] = c} = {1}
  BY <1>3
<1>5. Times(d, c) = 1
  BY <1>4, FS_Singleton DEF Times
<1> QED
  BY <1>2, <1>3, <1>5 DEF Document, HasSent

\* An updated record is that record, and holds what was sent once more at most.
LEMMA UpdatedDocument ==
    ASSUME NEW c \in Contents, NEW d, Document(d), NEW rec
    PROVE  /\ Document(Updated(d, rec, c)) /\ Updated(d, rec, c).oid = d.oid
           /\ Updated(d, rec, c).id = d.id
           /\ HasSent({Updated(d, rec, c)}, c) /\ Times(Updated(d, rec, c), c) <= Times(d, c) + 1
<1>1. PICK v : v = IF rec.strategy = "merge" THEN Append(d.value, c) ELSE <<c>>
  OBVIOUS
<1>2. d \in [oid : {d.oid}, id : {d.id}, value : Seq(Data)] /\ Names(d.oid, d.id)
  BY DEF Document
<1>3. d.value \in Seq(Data) /\ c \in Data
  BY <1>2 DEF Data
<1>4. v \in Seq(Data) /\ \E j \in DOMAIN v : v[j] = c
  <2>1. CASE v = Append(d.value, c)
    <3>1. v \in Seq(Data) /\ Len(d.value) + 1 \in DOMAIN v /\ v[Len(d.value) + 1] = c
      BY <1>3, <2>1
    <3> QED
      BY <3>1
  <2>2. CASE v = <<c>>
    <3>1. v \in Seq(Data) /\ 1 \in DOMAIN v /\ v[1] = c
      BY <1>3, <2>2
    <3> QED
      BY <3>1
  <2> QED
    BY <1>1, <2>1, <2>2
<1>5. PICK u : u = [d EXCEPT !.value = v]
  OBVIOUS
<1>6. u \in [oid : {d.oid}, id : {d.id}, value : Seq(Data)] /\ u.oid = d.oid /\ u.id = d.id /\ u.value = v
  BY <1>2, <1>4, <1>5
<1>7. Updated(d, rec, c) = u
  BY <1>1, <1>5 DEF Updated
<1>8. Times(u, c) <= Times(d, c) + 1
  <2> DEFINE J == {j \in DOMAIN d.value : d.value[j] = c}
  <2>1. Cardinality(J) \in Nat /\ IsFiniteSet(J)
    BY <1>3, Occurrences
  <2>2. Times(d, c) = Cardinality(J)
    BY DEF Times
  <2>3. CASE v = Append(d.value, c)
    <3>1. {j \in DOMAIN v : v[j] = c} = J \union {Len(d.value) + 1}
      BY <1>3, <2>3
    <3>2. Len(d.value) + 1 \notin J
      BY <1>3
    <3>3. Cardinality(J \union {Len(d.value) + 1}) = Cardinality(J) + 1
      BY <2>1, <3>2, FS_AddElement
    <3>4. Times(u, c) = Cardinality(J \union {Len(d.value) + 1})
      BY <1>6, <3>1 DEF Times
    <3> QED
      BY <2>1, <2>2, <3>3, <3>4
  <2>4. CASE v = <<c>>
    <3>1. {j \in DOMAIN v : v[j] = c} = {1}
      BY <2>4
    <3>2. Times(u, c) = 1
      BY <1>6, <3>1, FS_Singleton DEF Times
    <3> QED
      BY <2>1, <2>2, <3>2
  <2> QED
    BY <1>1, <2>3, <2>4
<1> QED
  BY <1>2, <1>4, <1>6, <1>7, <1>8 DEF Document, HasSent

-----------------------------------------------------------------------------
(* Effects                                                                 *)

\* The oid a record is applied to, and what is stored under it.
Target(c, k, i, existing) ==
    IF existing = {} THEN <<c, k, i>> ELSE (CHOOSE d \in existing : TRUE).oid
Under(oid) == {d \in stored : d.oid = oid}

\* What an effect can be.
LEMMA EffectForms ==
    ASSUME NEW c, NEW k, NEW i, NEW existing, NEW e \in Effects(c, i, k, existing), NEW new, NEW oid, NEW before,
           oid = Target(c, k, i, existing), before = Under(oid),
           new = [oid |-> <<c, k, i>>, id |-> Chunks[c][i].id, value |-> <<c>>]
    PROVE  /\ e.oid = oid /\ e.before = before
           /\ \/ e.after = before /\ e.outcome \in {"failed", "unchanged"}
              \/ /\ ~Rejected(Chunks[c], i, existing)
                 /\ \/ existing = {} /\ e.outcome = "created" /\ e.after = {new}
                    \/ existing # {} /\ before = {} /\ e.outcome = "failed" /\ e.after = {}
                    \/ existing # {} /\ e.outcome = "deleted" /\ e.after = {}
                    \/ /\ existing # {} /\ e.outcome = "updated"
                       /\ e.after = {Updated(d, Chunks[c][i], c) : d \in before}
<1> DEFINE Forms(after, outcome) ==
        [oid |-> oid, before |-> before, after |-> after, outcome |-> outcome]
<1>1. \/ e = Forms(before, "failed") \/ e = Forms(before, "unchanged")
      \/ ~Rejected(Chunks[c], i, existing) /\ existing = {} /\ e = Forms({new}, "created")
      \/ /\ ~Rejected(Chunks[c], i, existing) /\ existing # {}
         /\ \/ before = {} /\ e = Forms({}, "failed")
            \/ e = Forms({}, "deleted")
            \/ e = Forms({Updated(d, Chunks[c][i], c) : d \in before}, "updated")
  BY Zenon DEF Effects, Target, Under
<1>2. ASSUME NEW after, NEW outcome, e = Forms(after, outcome)
      PROVE  e.oid = oid /\ e.before = before /\ e.after = after /\ e.outcome = outcome
  BY <1>2
<1> HIDE DEF Forms
<1> QED
  BY <1>1, <1>2, Zenon

\* An effect concerns one oid, of the record's id, and documents only.
LEMMA EffectFits ==
    ASSUME NEW c \in Contents, NEW k \in Nat, NEW i \in DOMAIN Chunks[c], NEW existing,
           \A d \in stored : Document(d),
           \A d \in existing : Document(d) /\ d.id = Chunks[c][i].id,
           NEW e \in Effects(c, i, k, existing)
    PROVE  /\ Names(e.oid, Chunks[c][i].id)
           /\ e.before = {d \in stored : d.oid = e.oid}
           /\ \A d \in e.before \union e.after : Document(d) /\ d.oid = e.oid
<1> DEFINE rec == Chunks[c][i]
<1>a. PICK oid : oid = Target(c, k, i, existing)
  OBVIOUS
<1>b. PICK before : before = Under(oid)
  OBVIOUS
<1>1. PICK new : new = [oid |-> <<c, k, i>>, id |-> rec.id, value |-> <<c>>]
  OBVIOUS
<1>2. Document(new) /\ new.oid = <<c, k, i>> /\ new.id = rec.id
  BY <1>1, NewDocument
<1>3. Names(oid, rec.id)
  <2>1. CASE existing = {}
    BY <1>a, <1>2, <2>1 DEF Document, Target
  <2>2. CASE existing # {}
    <3>1. (CHOOSE d \in existing : TRUE) \in existing
      BY <2>2
    <3> QED
      BY <1>a, <2>2, <3>1 DEF Document, Target
  <2> QED
    BY <2>1, <2>2
<1>4. \/ e.oid = oid /\ e.before = before /\ e.after = before
      \/ existing = {} /\ e.oid = oid /\ e.before = before /\ e.after = {new}
      \/ e.oid = oid /\ e.before = before /\ e.after = {}
      \/ e.oid = oid /\ e.before = before /\ e.after = {Updated(d, rec, c) : d \in before}
  BY <1>a, <1>b, <1>1, EffectForms
<1>5. \A d \in before : Document(d) /\ d.oid = oid
  BY <1>b DEF Under
<1>6. \A d \in before : Document(Updated(d, rec, c)) /\ Updated(d, rec, c).oid = oid
  <2> TAKE d \in before
  <2>1. PICK r : r = rec
    OBVIOUS
  <2>2. Document(d) /\ d.oid = oid
    BY <1>5
  <2>3. Document(Updated(d, r, c)) /\ Updated(d, r, c).oid = d.oid
    BY <2>2, UpdatedDocument, Zenon
  <2> QED
    BY <2>1, <2>2, <2>3
<1>7. existing = {} => oid = <<c, k, i>>
  BY <1>a DEF Target
<1>8. \A d \in e.after : Document(d) /\ d.oid = oid
  BY <1>2, <1>4, <1>5, <1>6, <1>7
<1>9. e.oid = oid /\ e.before = before
  BY <1>4
<1> QED
  BY <1>b, <1>3, <1>5, <1>8, <1>9 DEF Under

\* A finite set with two elements has more than one.
LEMMA MoreThanOne ==
    ASSUME NEW S, IsFiniteSet(S), ~Single(S)
    PROVE  Cardinality(S) > 1
<1>1. PICK x \in S, y \in S : x # y
  BY DEF Single
<1>2. {x, y} \subseteq S
  OBVIOUS
<1>3. Cardinality({x, y}) = 2
  <2>1. IsFiniteSet({x}) /\ Cardinality({x}) = 1
    BY FS_Singleton
  <2>2. {x, y} = {x} \union {y} /\ y \notin {x}
    BY <1>1
  <2>3. Cardinality({x} \union {y}) = Cardinality({x}) + 1
    BY <2>1, <2>2, FS_AddElement
  <2> QED
    BY <2>1, <2>2, <2>3
<1>4. Cardinality({x, y}) <= Cardinality(S)
  BY <1>2, FS_Subset
<1> QED
  BY <1>3, <1>4, FS_CardinalityType

\* Applied to the copies as they are, a record leaves what its outcome says.
LEMMA EffectOnCopies ==
    ASSUME NEW c \in Contents, NEW k \in Nat, NEW i \in DOMAIN Chunks[c],
           \A d \in stored : Document(d), IsFiniteSet(Copies(c, i)),
           NEW e \in Effects(c, i, k, Copies(c, i))
    PROVE  \/ e.after = e.before /\ e.outcome \notin {"created", "updated", "deleted"}
           \/ /\ e.before = Copies(c, i) /\ Single(e.before) /\ Single(e.after)
              /\ IsFiniteSet(e.after) /\ \A d \in e.after : d.id = Chunks[c][i].id
              /\ e.outcome \in {"created", "updated", "deleted"}
              /\ e.outcome = "deleted" => e.after = {}
              /\ e.outcome \in {"created", "updated"} => HasSent(e.after, c)
              /\ \A n \in Nat : HeldAtMost(Copies(c, i), c, n) => HeldAtMost(e.after, c, n + 1)
<1> DEFINE rec == Chunks[c][i]
           copies == Copies(c, i)
<1>a. PICK oid : oid = Target(c, k, i, copies)
  OBVIOUS
<1>b. PICK before : before = Under(oid)
  OBVIOUS
<1>1. \A d \in copies : d \in stored /\ Document(d) /\ d.id = rec.id
  BY DEF Copies
<1>2. PICK new : new = [oid |-> <<c, k, i>>, id |-> rec.id, value |-> <<c>>]
  OBVIOUS
<1>3. /\ Document(new) /\ new.oid = <<c, k, i>> /\ new.id = rec.id
      /\ HasSent({new}, c) /\ Times(new, c) = 1
  BY <1>2, NewDocument
<1>4. Names(oid, rec.id)
  <2>1. CASE copies = {}
    BY <1>a, <1>3, <2>1 DEF Document, Target
  <2>2. CASE copies # {}
    <3>1. (CHOOSE d \in copies : TRUE) \in copies
      BY <2>2
    <3> QED
      BY <1>a, <1>1, <2>2, <3>1 DEF Document, Target
  <2> QED
    BY <2>1, <2>2
<1>5. before \subseteq copies
  <2> SUFFICES ASSUME NEW d \in before PROVE d.id = rec.id
    BY <1>b DEF Copies, Under
  <2> QED
    BY <1>b, <1>4, NamesOnce DEF Document, Under
<1>6. copies # {} => before # {}
  <2> SUFFICES ASSUME copies # {} PROVE before # {}
    OBVIOUS
  <2>1. (CHOOSE d \in copies : TRUE) \in copies
    OBVIOUS
  <2> QED
    BY <1>a, <1>b, <1>1, <2>1 DEF Target, Under
<1>7. \/ e.before = before /\ e.after = before /\ e.outcome \in {"failed", "unchanged"}
      \/ /\ ~Rejected(Chunks[c], i, copies) /\ e.before = before
         /\ \/ copies = {} /\ e.outcome = "created" /\ e.after = {new}
            \/ copies # {} /\ before = {} /\ e.outcome = "failed" /\ e.after = {}
            \/ copies # {} /\ e.outcome = "deleted" /\ e.after = {}
            \/ copies # {} /\ e.outcome = "updated" /\ e.after = {Updated(d, rec, c) : d \in before}
  BY <1>a, <1>b, <1>2, EffectForms
<1>8. CASE e.before = before /\ e.after = before /\ e.outcome \in {"failed", "unchanged"}
  BY <1>8
<1>9. CASE ~Rejected(Chunks[c], i, copies) /\ e.before = before
  <2>1. Single(copies)
    BY <1>9, MoreThanOne DEF Rejected
  <2>2. before = copies
    BY <1>5, <1>6, <2>1 DEF Single
  <2>3. CASE copies = {} /\ e.outcome = "created" /\ e.after = {new}
    <3>1. \A n \in Nat : HeldAtMost({new}, c, n + 1)
      BY <1>3, BeforeIsNatural DEF HeldAtMost
    <3>2. Single({new}) /\ IsFiniteSet({new})
      BY FS_Singleton DEF Single
    <3> QED
      BY <1>3, <1>9, <2>1, <2>2, <2>3, <3>1, <3>2
  <2>4. CASE copies # {} /\ e.outcome = "deleted" /\ e.after = {}
    <3>1. Single({}) /\ IsFiniteSet({}) /\ \A n \in Nat : HeldAtMost({}, c, n + 1)
      BY FS_EmptySet DEF Single, HeldAtMost
    <3> QED
      BY <1>9, <2>1, <2>2, <2>4, <3>1
  <2>5. CASE copies # {} /\ e.outcome = "updated" /\ e.after = {Updated(d, rec, c) : d \in before}
    <3>1. PICK old \in copies : copies = {old}
      BY <2>1, <2>5 DEF Single
    <3>2. PICK u : u = Updated(old, rec, c)
      OBVIOUS
    <3>3. e.after = {u}
      BY <2>2, <2>5, <3>1, <3>2
    <3>4. /\ Document(u) /\ u.oid = old.oid /\ u.id = rec.id
          /\ HasSent({u}, c) /\ Times(u, c) <= Times(old, c) + 1
      BY <1>1, <3>2, UpdatedDocument
    <3>5. Single({u}) /\ IsFiniteSet({u})
      BY FS_Singleton DEF Single
    <3>6. ASSUME NEW n \in Nat, HeldAtMost(copies, c, n) PROVE HeldAtMost({u}, c, n + 1)
      <4>1. Times(old, c) <= Before(old.oid, c) + n
        BY <3>6 DEF HeldAtMost
      <4>2. Times(old, c) \in Nat /\ Times(u, c) \in Nat /\ Before(old.oid, c) \in Nat
        BY <1>1, <3>4, TimesIsNatural, BeforeIsNatural
      <4>3. Times(u, c) <= Before(u.oid, c) + (n + 1)
        BY <3>4, <4>1, <4>2
      <4> QED
        BY <4>3 DEF HeldAtMost
    <3> QED
      BY <1>9, <2>1, <2>2, <2>5, <3>3, <3>4, <3>5, <3>6
  <2> QED
    BY <1>7, <1>9, <2>2, <2>3, <2>4, <2>5
<1> QED
  BY <1>7, <1>8, <1>9

-----------------------------------------------------------------------------
(* What a step does to the copies of a record                              *)

\* A change of another id's record leaves them.
LEMMA CopiesStay ==
    ASSUME NEW c \in Contents, NEW i \in DOMAIN Chunks[c], NEW oid, NEW docs, NEW id, Names(oid, id),
           id # Chunks[c][i].id, \A d \in stored : Document(d),
           \A d \in docs : Document(d) /\ d.oid = oid, stored' = Replaced(oid, docs)
    PROVE  Copies(c, i)' = Copies(c, i)
<1>1. \A d \in stored : d.oid = oid => d.id = id
  BY NamesOnce DEF Document
<1>2. \A d \in docs : d.id = id
  BY NamesOnce DEF Document
<1> QED
  BY <1>1, <1>2 DEF Copies, Replaced

\* A change of the one oid they have leaves what it puts there.
LEMMA CopiesReplaced ==
    ASSUME NEW c \in Contents, NEW i \in DOMAIN Chunks[c], NEW oid, NEW docs,
           Names(oid, Chunks[c][i].id), \A d \in Copies(c, i) : d.oid = oid,
           \A d \in docs : Document(d) /\ d.oid = oid, stored' = Replaced(oid, docs)
    PROVE  Copies(c, i)' = docs
<1>1. \A d \in docs : d.id = Chunks[c][i].id
  BY NamesOnce DEF Document
<1> QED
  BY <1>1 DEF Copies, Replaced

LEMMA CopiesAsStored ==
    ASSUME NEW c, NEW i, stored' = stored
    PROVE  Copies(c, i)' = Copies(c, i)
  BY DEF Copies

LEMMA DocumentsReplaced ==
    ASSUME NEW oid, NEW docs, \A d \in stored : Document(d), \A d \in docs : Document(d),
           stored' = Replaced(oid, docs)
    PROVE  \A d \in stored' : Document(d)
  BY DEF Replaced

\* The excuses of a record are a number.
LEMMA LostIsNatural ==
    ASSUME Types, FailuresOK, NEW c \in Contents, NEW i \in DOMAIN Chunks[c]
    PROVE  /\ IsFiniteSet(Unreported(c)) /\ Cardinality(Unreported(c)) \in Nat
           /\ failedWrites[c][i] \in Nat /\ Excused(c, i) \in Nat
<1>1. DOMAIN attempts[c] = 1..Len(attempts[c]) /\ Len(attempts[c]) \in Nat
  BY Chunk
<1>2. IsFiniteSet(1..Len(attempts[c]))
  BY <1>1, FS_Interval
<1>3. Unreported(c) \subseteq 1..Len(attempts[c])
  BY <1>1 DEF Unreported
<1>4. IsFiniteSet(Unreported(c)) /\ Cardinality(Unreported(c)) \in Nat
  BY <1>2, <1>3, FS_Subset, FS_CardinalityType
<1>5. failedWrites[c][i] \in Nat
  BY DEF FailuresOK
<1> QED
  BY <1>4, <1>5 DEF Excused

\* A step takes back none of them.
ExcusesStay(c) ==
    /\ Unreported(c) \subseteq Unreported(c)' /\ FailuresOK /\ FailuresOK'
    /\ \A i \in DOMAIN Chunks[c] : failedWrites[c][i] <= failedWrites'[c][i]

LEMMA LostGrows ==
    ASSUME Types, Types', NEW c \in Contents, NEW i \in DOMAIN Chunks[c], ExcusesStay(c)
    PROVE  /\ Excused(c, i) \in Nat /\ Excused(c, i)' \in Nat
           /\ Excused(c, i) <= Excused(c, i)'
           /\ Unreported(c) # Unreported(c)' => Excused(c, i) + 1 <= Excused(c, i)'
           /\ failedWrites'[c][i] = failedWrites[c][i] + 1 => Excused(c, i) + 1 <= Excused(c, i)'
<1>0. Unreported(c) \subseteq Unreported(c)' /\ FailuresOK
  BY DEF ExcusesStay
<1>1. IsFiniteSet(Unreported(c)) /\ Cardinality(Unreported(c)) \in Nat
  BY <1>0, LostIsNatural
<1>2. (IsFiniteSet(Unreported(c)) /\ Cardinality(Unreported(c)) \in Nat)'
  <2>0. DOMAIN attempts'[c] = 1..Len(attempts'[c]) /\ Len(attempts'[c]) \in Nat
    BY LenChunks DEF Types
  <2>1. PICK n \in Nat : DOMAIN attempts'[c] = 1..n
    BY <2>0
  <2>2. IsFiniteSet(1..n)
    BY <2>1, FS_Interval
  <2>3. Unreported(c)' \subseteq 1..n
    BY <2>1 DEF Unreported
  <2> QED
    BY <2>2, <2>3, FS_Subset, FS_CardinalityType
<1>3. Cardinality(Unreported(c)) <= Cardinality(Unreported(c)')
  BY <1>0, <1>2, FS_Subset
<1>4. ASSUME Unreported(c) # Unreported(c)'
      PROVE  Cardinality(Unreported(c)) + 1 <= Cardinality(Unreported(c)')
  <2>1. PICK k \in Unreported(c)' : k \notin Unreported(c)
    BY <1>0, <1>4
  <2>2. Cardinality(Unreported(c) \union {k}) = Cardinality(Unreported(c)) + 1
    BY <1>1, <2>1, FS_AddElement
  <2>3. Unreported(c) \union {k} \subseteq Unreported(c)'
    BY <1>0, <2>1
  <2>4. Cardinality(Unreported(c) \union {k}) <= Cardinality(Unreported(c)')
    BY <1>2, <2>3, FS_Subset
  <2> QED
    BY <2>2, <2>4
<1>5. /\ failedWrites[c][i] \in Nat /\ failedWrites'[c][i] \in Nat
      /\ failedWrites[c][i] <= failedWrites'[c][i]
  BY DEF ExcusesStay, FailuresOK
<1>6. PICK a, b, m, n : /\ a = Cardinality(Unreported(c)) /\ b = Cardinality(Unreported(c)')
                        /\ m = failedWrites[c][i] /\ n = failedWrites'[c][i]
  OBVIOUS
<1>7. Excused(c, i) = a + m /\ Excused(c, i)' = b + n
  BY <1>6 DEF Excused
<1>8. /\ a \in Nat /\ b \in Nat /\ m \in Nat /\ n \in Nat /\ a <= b /\ m <= n
      /\ Unreported(c) # Unreported(c)' => a + 1 <= b
  BY <1>1, <1>2, <1>3, <1>4, <1>5, <1>6
<1>9. /\ a + m \in Nat /\ b + n \in Nat /\ a + m <= b + n
      /\ a + 1 <= b => a + m + 1 <= b + n
      /\ n = m + 1 => a + m + 1 <= b + n
  BY <1>8
<1> QED
  BY <1>6, <1>7, <1>8, <1>9

\* A step that leaves the copies and their reports leaves the record fitting, unless
\* it forgets a record under way that had been applied.
LEMMA PairStays ==
    ASSUME Types, Types', NEW c \in Contents, NEW i \in DOMAIN Chunks[c], RecordFits(c, i),
           \A d \in stored : Document(d), Copies(c, i)' = Copies(c, i),
           \A S : Reports(c, i, S)' <=> Reports(c, i, S), ExcusesStay(c),
           \/ UnderWay(c, i) => UnderWay(c, i)'
           \/ HeldAtMost(Copies(c, i), c, Excused(c, i)')
    PROVE  RecordFits(c, i)'
<1> DEFINE reported == Reports(c, i, {"created", "updated"})
<1>1. PICK copies : copies = Copies(c, i)
  OBVIOUS
<1>2. PICK m, n : m = Excused(c, i) /\ n = Excused(c, i)'
  OBVIOUS
<1>3. m \in Nat /\ n \in Nat /\ m <= n
  BY <1>2, LostGrows
<1>4. \A d \in copies : Document(d)
  BY <1>1 DEF Copies
<1>5. PICK x : x = IF reported \/ UnderWay(c, i) THEN 1 ELSE 0
  OBVIOUS
<1>6. PICK y : y = IF reported' \/ UnderWay(c, i)' THEN 1 ELSE 0
  OBVIOUS
<1>7. HeldAtMost(copies, c, m + x)
  BY <1>1, <1>2, <1>5 DEF RecordFits
<1>8. reported' <=> reported
  OBVIOUS
<1>9. HeldAtMost(copies, c, n + y)
  <2>1. CASE x <= y
    BY <1>3, <1>4, <1>5, <1>6, <1>7, <2>1, HeldMore
  <2>2. CASE ~(x <= y)
    <3>1. HeldAtMost(copies, c, n) /\ y = 0
      BY <1>1, <1>2, <1>5, <1>6, <1>8, <2>2
    <3> QED
      BY <1>3, <3>1
  <2> QED
    BY <2>1, <2>2
<1>10. HeldAtMost(Copies(c, i)', c, Excused(c, i)' + (IF reported' \/ UnderWay(c, i)' THEN 1 ELSE 0))
  BY <1>1, <1>2, <1>6, <1>9
<1>11. /\ IsFiniteSet(Copies(c, i)')
       /\ Single(Copies(c, i)') \/ ~Single({d \in InitialStore : d.id = Chunks[c][i].id})
       /\ reported' => HasSent(Copies(c, i)', c)
       /\ Reports(c, i, {"deleted"})' => Copies(c, i)' = {}
  BY DEF RecordFits
<1> QED
  BY <1>10, <1>11 DEF RecordFits

-----------------------------------------------------------------------------
(* What a step does to its submission's records                            *)

\* It answers or fails, and knows of no records any more.
LEMMA Forgets ==
    ASSUME Types, NEW s \in Submissions, Answer(s) \/ Fails(s)
    PROVE  /\ Moves(s) /\ sub'[s].pc \in {"idle", "fail"} /\ sub'[s].found = {} /\ sub'[s].undo = {}
<1>1. CASE Answer(s)
  BY <1>1, Answers, IdleForm
<1>2. CASE Fails(s)
  <2>1. PICK r : r = [Idle EXCEPT !.pc = "fail", !.chunk = sub[s].chunk, !.attempt = sub[s].attempt]
    OBVIOUS
  <2>2. r.found = {} /\ r.undo = {}
    BY <2>1, IdleForm DEF SubForms
  <2>3. sub' = [sub EXCEPT ![s] = r] /\ sub = [t \in Submissions |-> sub[t]]
    BY <1>2, <2>1 DEF Fails, Types
  <2>4. sub'[s] = r
    BY <2>3
  <2> QED
    BY <1>2, <2>2, <2>4, FailsTo
<1> QED
  BY <1>1, <1>2

\* A submission that is at none of its records has nothing to keep to.
LEMMA AtNoRecord ==
    ASSUME NEW s \in Submissions, sub'[s].pc \notin {"process", "persist", "rollback"},
           \A d \in sub'[s].found : Document(d)
    PROVE  OwnRecords(s)'
<1>1. UndoFits(s)' /\ OutcomeIsStored(s)'
  BY DEF UndoFits, OutcomeIsStored, Applied
<1>2. FoundIsCurrent(s)'
  BY DEF FoundIsCurrent, Ahead, Applied
<1> QED
  BY <1>1, <1>2 DEF OwnRecords

\* The submissions that do not step keep to theirs, as long as the copies do.
LEMMA OthersKeepRecords ==
    ASSUME Types, Types', NEW t \in Submissions, sub'[t] = sub[t], OwnRecords(t),
           \A d \in stored : Document(d),
           ExcusesStay(sub[t].chunk),
           sub[t].pc \in {"process", "persist", "rollback"} =>
              \A i \in DOMAIN Chunks[sub[t].chunk] :
                 Alone(sub[t].chunk, i) => Copies(sub[t].chunk, i)' = Copies(sub[t].chunk, i)
    PROVE  OwnRecords(t)'
<1> DEFINE c == sub[t].chunk
<1>1. c \in Contents
  BY Fields
<1>2. CASE sub[t].pc \notin {"process", "persist", "rollback"}
  BY <1>2, AtNoRecord DEF OwnRecords
<1>3. CASE sub[t].pc \in {"process", "persist", "rollback"}
  <2>1. UndoFits(t)'
    BY DEF OwnRecords, UndoFits, Applied, Current
  <2>2. FoundIsCurrent(t)'
    <3> SUFFICES ASSUME NEW i \in DOMAIN Chunks[c], Alone(c, i), Ahead(t, i)'
                 PROVE  {d \in sub[t].found : d.id = Chunks[c][i].id} = Copies(c, i)'
      BY DEF FoundIsCurrent
    <3>1. Ahead(t, i)
      BY DEF Ahead, Applied
    <3>2. {d \in sub[t].found : d.id = Chunks[c][i].id} = Copies(c, i)
      BY <3>1 DEF OwnRecords, FoundIsCurrent
    <3> QED
      BY <1>3, <3>2
  <2>3. OutcomeIsStored(t)'
    <3> SUFFICES ASSUME Applied(t), Alone(c, sub[t].done + 1)
                 PROVE  OutcomeFits(t, c, Copies(c, sub[t].done + 1), Excused(c, sub[t].done + 1))'
      BY DEF OutcomeIsStored, Applied
    <3>1. sub[t].done + 1 \in DOMAIN Chunks[c]
      BY DEF OwnRecords, UndoFits
    <3>2. PICK copies : copies = Copies(c, sub[t].done + 1)
      OBVIOUS
    <3>3. Copies(c, sub[t].done + 1)' = copies
      BY <1>3, <3>1, <3>2
    <3>4. PICK m, n : m = Excused(c, sub[t].done + 1) /\ n = Excused(c, sub[t].done + 1)'
      OBVIOUS
    <3>5. m \in Nat /\ n \in Nat /\ m <= n
      BY <1>1, <3>1, <3>4, LostGrows
    <3>6. OutcomeFits(t, c, copies, m)
      BY <3>2, <3>4 DEF OwnRecords, OutcomeIsStored
    <3>7. \A d \in copies : Document(d)
      BY <3>2 DEF Copies
    <3>8. \A e \in sub[t].undo : \A d \in e.before : Document(d)
      BY DEF OwnRecords, UndoFits
    <3>9. HeldAtMost(copies, c, m) => HeldAtMost(copies, c, n)
      BY <3>5, <3>7, HeldMore
    <3>10. \A e \in sub[t].undo : HeldAtMost(e.before, c, m) => HeldAtMost(e.before, c, n)
      BY <3>5, <3>8, HeldMore
    <3>11. OutcomeFits(t, c, copies, n)
      BY <3>6, <3>9, <3>10 DEF OutcomeFits
    <3>12. /\ sub'[t].outcome \in {"created", "updated"} => HasSent(copies, c)
           /\ sub'[t].outcome = "deleted" => copies = {}
           /\ sub'[t].outcome \notin {"created", "updated"} \/ sub'[t].undo = {}
                 => HeldAtMost(copies, c, n)
           /\ \A e \in sub'[t].undo : /\ e.after = copies
                                      /\ Single(e.before) /\ IsFiniteSet(e.before)
                                      /\ HeldAtMost(e.before, c, n)
      BY <3>11 DEF OutcomeFits
    <3> QED
      BY <3>3, <3>4, <3>12 DEF OutcomeFits
  <2> QED
    BY <2>1, <2>2, <2>3 DEF OwnRecords
<1> QED
  BY <1>2, <1>3

\* A submission at one of its records is the only one of its chunk, and that record
\* has not been reported.
LEMMA HolderIsAlone ==
    ASSUME IndInv, NEW s \in Submissions, sub[s].pc \in {"process", "persist", "rollback"}
    PROVE  /\ \A t \in Submissions \ {s} :
                 sub[t].chunk = sub[s].chunk => sub[t].pc \notin {"process", "persist", "rollback"}
           /\ \A S : ~Reports(sub[s].chunk, sub[s].done + 1, S)
<1>1. ASSUME NEW t \in Submissions \ {s}, sub[t].chunk = sub[s].chunk,
             sub[t].pc \in {"process", "persist", "rollback"}
      PROVE  FALSE
  BY <1>1 DEF IndInv, HoldersAreAlone, Claimed
<1>2. sub[s].chunk \in Contents /\ sub[s].done \in Nat
  BY Fields DEF IndInv
<1>3. DOMAIN events[sub[s].chunk] = 1..Len(events[sub[s].chunk]) /\ Len(events[sub[s].chunk]) \in Nat
  BY <1>2, Chunk DEF IndInv
<1>4. sub[s].done = Len(events[sub[s].chunk])
  BY DEF IndInv, Holds, Claimed, Working
<1>5. \A j \in DOMAIN events[sub[s].chunk] : events[sub[s].chunk][j].index = j
  BY <1>2 DEF IndInv, EventsInOrder
<1>6. \A j \in DOMAIN events[sub[s].chunk] : events[sub[s].chunk][j].index # sub[s].done + 1
  BY <1>3, <1>4, <1>5
<1> QED
  BY <1>1, <1>6 DEF Reports

\* Whatever is under way of another record still is.
LEMMA UnderWayStays ==
    ASSUME NEW s \in Submissions, Moves(s), NEW c, NEW i, UnderWay(c, i),
           ~(sub[s].chunk = c /\ sub[s].done + 1 = i /\ Applied(s))
    PROVE  UnderWay(c, i)'
<1>1. PICK t \in Submissions : sub[t].chunk = c /\ sub[t].done + 1 = i /\ sub[t].pc \in {"persist", "rollback"}
  BY DEF UnderWay
<1>2. t # s
  BY <1>1 DEF Applied
<1>3. sub'[t] = sub[t]
  BY <1>2 DEF Moves
<1> QED
  BY <1>1, <1>3 DEF UnderWay

\* Where a step is put together from: the copies of other records stay, and so do
\* their reports; those of its own record and its submission are as they should be.
LEMMA StepKeepsRecords ==
    ASSUME IndInv, Types', RecordsInv, NEW s \in Submissions, Moves(s),
           NEW b, NEW k, b = sub[s].chunk, k = sub[s].done + 1,
           \A c \in Contents : ExcusesStay(c),
           \A d \in stored' : Document(d), OwnRecords(s)',
           stored' = stored \/ sub[s].pc \in {"process", "persist", "rollback"},
           \A c \in Contents : \A i \in DOMAIN Chunks[c] :
              Alone(c, i) /\ ~(c = b /\ i = k /\ sub[s].pc \in {"process", "persist", "rollback"}) =>
                 Copies(c, i)' = Copies(c, i) /\ \A S : Reports(c, i, S)' <=> Reports(c, i, S),
           sub[s].pc \in {"process", "persist", "rollback"} /\ k \in DOMAIN Chunks[b] /\ Alone(b, k)
              => RecordFits(b, k)'
    PROVE  RecordsInv'
<1> DEFINE at == sub[s].pc \in {"process", "persist", "rollback"}
<1>1. Types /\ \A d \in stored : Document(d)
  BY DEF IndInv, RecordsInv
<1>2. ASSUME NEW c \in Contents, NEW i \in DOMAIN Chunks[c], Alone(c, i) PROVE RecordFits(c, i)'
  <2>1. CASE c = b /\ i = k /\ at
    BY <1>2, <2>1
  <2>2. CASE ~(c = b /\ i = k /\ at)
    <3>1. RecordFits(c, i)
      BY <1>2 DEF RecordsInv
    <3>2. Copies(c, i)' = Copies(c, i) /\ \A S : Reports(c, i, S)' <=> Reports(c, i, S)
      BY <1>2, <2>2
    <3>3. UnderWay(c, i) => UnderWay(c, i)'
      BY <2>2, UnderWayStays DEF Applied
    <3> QED
      BY <1>1, <3>1, <3>2, <3>3, PairStays
  <2> QED
    BY <2>1, <2>2
<1>3. ASSUME NEW t \in Submissions PROVE OwnRecords(t)'
  <2>1. CASE t # s
    <3>1. sub'[t] = sub[t] /\ OwnRecords(t) /\ sub[t].chunk \in Contents
      BY <1>1, <2>1, Fields DEF Moves, RecordsInv
    <3>2. ASSUME sub[t].pc \in {"process", "persist", "rollback"},
                 NEW i \in DOMAIN Chunks[sub[t].chunk], Alone(sub[t].chunk, i)
          PROVE  Copies(sub[t].chunk, i)' = Copies(sub[t].chunk, i)
      <4>1. CASE stored' = stored
        BY <3>1, <4>1 DEF Copies
      <4>2. CASE at
        <5>1. sub[t].chunk # sub[s].chunk
          BY <2>1, <3>2, <4>2, HolderIsAlone
        <5> QED
          BY <3>1, <3>2, <5>1
      <4> QED
        BY <4>1, <4>2
    <3> QED
      BY <1>1, <3>1, <3>2, OthersKeepRecords
  <2> QED
    BY <2>1
<1> QED
  BY <1>2, <1>3 DEF RecordsInv

\* A step that touches neither records nor events, unless it gives up a record that
\* it has applied.
LEMMA QuietRecords ==
    ASSUME IndInv, Types', RecordsInv, NEW s \in Submissions, Moves(s), NEW c, c = sub[s].chunk,
           \A b \in Contents : ExcusesStay(b),
           UNCHANGED <<stored, events>>, OwnRecords(s)',
           \/ ~Applied(s)
           \/ Applied(s)' /\ sub'[s].chunk = c /\ sub'[s].done = sub[s].done
           \/ Unreported(c)' # Unreported(c)
           \/ sub[s].outcome \notin {"created", "updated"} \/ sub[s].undo = {}
    PROVE  RecordsInv'
<1>0. PICK i : i = sub[s].done + 1
  OBVIOUS
<1>1. Types /\ \A d \in stored : Document(d)
  BY DEF IndInv, RecordsInv
<1>2. c \in Contents
  BY <1>1, Fields
<1>3. \A b, j : Copies(b, j)' = Copies(b, j)
  BY CopiesAsStored
<1>4. \A b, j, S : Reports(b, j, S)' <=> Reports(b, j, S)
  BY DEF Reports
<1>5. ASSUME sub[s].pc \in {"process", "persist", "rollback"}, i \in DOMAIN Chunks[c], Alone(c, i)
      PROVE  RecordFits(c, i)'
  <2>1. RecordFits(c, i)
    BY <1>2, <1>5 DEF RecordsInv
  <2>2. UnderWay(c, i) => UnderWay(c, i)' \/ HeldAtMost(Copies(c, i), c, Excused(c, i)')
    <3>1. CASE ~Applied(s)
      BY <1>0, <3>1, UnderWayStays
    <3>2. CASE Applied(s)' /\ sub'[s].chunk = c /\ sub'[s].done = sub[s].done
      BY <1>0, <3>2 DEF UnderWay, Applied
    <3>3. CASE Applied(s) /\ Unreported(c)' # Unreported(c)
      <4>1. PICK m, n : m = Excused(c, i) /\ n = Excused(c, i)'
        OBVIOUS
      <4>2. m \in Nat /\ n \in Nat /\ m + 1 <= n
        BY <1>1, <1>2, <1>5, <3>3, <4>1, LostGrows
      <4>3. UnderWay(c, i)
        BY <1>0, <3>3 DEF UnderWay, Applied
      <4>4. HeldAtMost(Copies(c, i), c, m + 1)
        BY <2>1, <4>1, <4>3 DEF RecordFits
      <4>5. \A d \in Copies(c, i) : Document(d)
        BY <1>1 DEF Copies
      <4>6. HeldAtMost(Copies(c, i), c, n)
        BY <4>2, <4>4, <4>5, HeldMore
      <4> QED
        BY <4>1, <4>6
    <3>4. CASE Applied(s) /\ (sub[s].outcome \notin {"created", "updated"} \/ sub[s].undo = {})
      <4>1. PICK m, n : m = Excused(c, i) /\ n = Excused(c, i)'
        OBVIOUS
      <4>2. m \in Nat /\ n \in Nat /\ m <= n
        BY <1>1, <1>2, <1>5, <4>1, LostGrows
      <4>3. HeldAtMost(Copies(c, i), c, m)
        BY <1>0, <1>5, <3>4, <4>1 DEF RecordsInv, OwnRecords, OutcomeIsStored, OutcomeFits
      <4>4. \A d \in Copies(c, i) : Document(d)
        BY <1>1 DEF Copies
      <4>5. HeldAtMost(Copies(c, i), c, n)
        BY <4>2, <4>3, <4>4, HeldMore
      <4> QED
        BY <4>1, <4>5
    <3> QED
      BY <3>1, <3>2, <3>3, <3>4
  <2> QED
    BY <1>1, <1>2, <1>3, <1>4, <1>5, <2>1, <2>2, PairStays
<1> QED
  BY <1>0, <1>1, <1>3, <1>4, <1>5, StepKeepsRecords

-----------------------------------------------------------------------------
(* The steps                                                               *)

Lost == {"persist", "rollback"}

\* An attempt that stopped before it could report stays one.
LEMMA LostIfKept ==
    ASSUME NEW c \in Contents, \A k \in DOMAIN attempts[c] : attempts[c][k].fate \in Lost =>
              k \in DOMAIN attempts'[c] /\ attempts'[c][k].fate = attempts[c][k].fate
    PROVE  Unreported(c) \subseteq Unreported(c)'
  BY DEF Unreported, Lost

\* A step that marks one attempt, or says what became of one, loses none.
LEMMA LostIfMarked ==
    ASSUME NEW c \in Contents, NEW k \in DOMAIN attempts[c], SameAttempts(c),
           \A j \in DOMAIN attempts[c] \ {k} : attempts'[c][j] = attempts[c][j],
           attempts[c][k].fate \in Lost => attempts'[c][k].fate = attempts[c][k].fate
    PROVE  \A b \in Contents : Unreported(b) \subseteq Unreported(b)'
<1> TAKE b \in Contents
<1>1. CASE b = c
  BY <1>1, LostIfKept DEF SameAttempts
<1>2. CASE b # c
  BY <1>2, LostIfKept DEF SameAttempts
<1> QED
  BY <1>1, <1>2

\* An attempt that says it stopped before it could report is a further one.
LEMMA LostIsAdded ==
    ASSUME NEW c \in Contents, NEW k \in DOMAIN attempts[c], DOMAIN attempts'[c] = DOMAIN attempts[c],
           attempts[c][k].fate \notin Lost, attempts'[c][k].fate \in Lost
    PROVE  Unreported(c)' # Unreported(c)
  BY DEF Unreported, Lost

\* The attempt a submission holds is open while it is at the records.
LEMMA HeldIsOpen ==
    ASSUME IndInv, NEW s \in Submissions, sub[s].pc \in Claimed
    PROVE  /\ sub[s].chunk \in Contents /\ sub[s].attempt \in DOMAIN attempts[sub[s].chunk]
           /\ sub[s].pc \notin {"fail"} => attempts[sub[s].chunk][sub[s].attempt].fate = "open"
<1>1. sub[s].chunk \in Contents /\ sub[s].attempt \in DOMAIN attempts[sub[s].chunk]
  BY HeldIsLast
<1> QED
  BY <1>1 DEF IndInv, Holds

\* No step forgets an attempt that stopped before it could report.
LEMMA LostStays ==
    ASSUME IndInv, [Next]_vars
    PROVE  \A c \in Contents : Unreported(c) \subseteq Unreported(c)'
<1>1. Types /\ attempts \in [Contents -> Seq(AttemptForms)]
  BY DEF IndInv, Types
<1>2. CASE UNCHANGED attempts
  BY <1>2 DEF Unreported
<1>3. ASSUME NEW s \in Submissions, MarkStale(s)
      PROVE  \A c \in Contents : Unreported(c) \subseteq Unreported(c)'
  <2>1. sub[s].pc = "mark" /\ attempts' = Marked(sub[s].chunk, sub[s].stale, "failed_stale")
    BY <1>3 DEF MarkStale, At
  <2>2. sub[s].chunk \in Contents /\ sub[s].stale \in DOMAIN attempts[sub[s].chunk]
    BY <1>1, <2>1, Fields, SMTT(30) DEF Types, Placed
  <2>3. /\ SameAttempts(sub[s].chunk)
        /\ attempts'[sub[s].chunk][sub[s].stale].fate = attempts[sub[s].chunk][sub[s].stale].fate
        /\ \A j \in DOMAIN attempts[sub[s].chunk] \ {sub[s].stale} :
              attempts'[sub[s].chunk][j] = attempts[sub[s].chunk][j]
    BY <1>1, <2>1, <2>2, Marks DEF Statuses
  <2> QED
    BY <2>2, <2>3, LostIfMarked
<1>4. ASSUME NEW s \in Submissions, CreateAttempt(s), ~UNCHANGED attempts
      PROVE  \A c \in Contents : Unreported(c) \subseteq Unreported(c)'
  <2>1. sub[s].chunk \in Contents
    BY <1>1, Fields
  <2>2. attempts' = [attempts EXCEPT ![sub[s].chunk] = Append(@, NewAttempt)]
    BY <1>4 DEF CreateAttempt
  <2>3. /\ Len(attempts'[sub[s].chunk]) = Len(attempts[sub[s].chunk]) + 1
        /\ attempts' \in [Contents -> Seq(AttemptForms)]
        /\ \A k \in DOMAIN attempts[sub[s].chunk] :
              attempts'[sub[s].chunk][k] = attempts[sub[s].chunk][k]
        /\ \A b \in Contents \ {sub[s].chunk} : attempts'[b] = attempts[b]
    BY <1>1, <2>1, <2>2, Adds
  <2>4. /\ Len(attempts[sub[s].chunk]) \in Nat
        /\ DOMAIN attempts[sub[s].chunk] = 1..Len(attempts[sub[s].chunk])
        /\ DOMAIN attempts'[sub[s].chunk] = 1..Len(attempts[sub[s].chunk]) + 1
    BY <1>1, <2>1, <2>3, Chunk
  <2>5. DOMAIN attempts[sub[s].chunk] \subseteq DOMAIN attempts'[sub[s].chunk]
    BY <2>4
  <2> TAKE c \in Contents
  <2>6. CASE c = sub[s].chunk
    BY <2>3, <2>5, <2>6, LostIfKept
  <2>7. CASE c # sub[s].chunk
    BY <2>3, <2>7, LostIfKept
  <2> QED
    BY <2>6, <2>7
<1>5. ASSUME NEW s \in Submissions,
             \/ FinishChunk(s) \/ UpdateRunAfterChunk(s) \/ FailChunk(s)
             \/ RollbackRefused(s) \/ Stop(s)
      PROVE  \A c \in Contents : Unreported(c) \subseteq Unreported(c)'
  <2> DEFINE c == sub[s].chunk
             k == sub[s].attempt
  <2>1. sub[s].pc \in Claimed
    BY <1>5 DEF FinishChunk, UpdateRunAfterChunk, FailChunk, RollbackRefused, Stop, At, Claimed
  <2>2. c \in Contents /\ k \in DOMAIN attempts[c] /\ (sub[s].pc # "fail" => attempts[c][k].fate = "open")
    BY <2>1, HeldIsOpen
  <2>3. CASE FinishChunk(s) \/ FailChunk(s)
    <3>1. attempts' = Marked(c, k, "processed") \/ attempts' = Marked(c, k, "failed")
      BY <2>3, SMTT(30) DEF FinishChunk, FailChunk
    <3>2. /\ SameAttempts(c) /\ attempts'[c][k].fate = attempts[c][k].fate
          /\ \A j \in DOMAIN attempts[c] \ {k} : attempts'[c][j] = attempts[c][j]
      BY <1>1, <2>2, <3>1, Marks DEF Statuses
    <3> QED
      BY <2>2, <3>2, LostIfMarked
  <2>4. CASE UpdateRunAfterChunk(s) \/ RollbackRefused(s)
    <3>1. sub[s].pc \in {"count", "rollback"}
      BY <2>4 DEF UpdateRunAfterChunk, RollbackRefused, At
    <3>2. attempts' = Met(c, k, "counted") \/ attempts' = Met(c, k, "rollback")
      BY <2>4, SMTT(30) DEF UpdateRunAfterChunk, RollbackRefused, Met
    <3>3. SameAttempts(c) /\ \A j \in DOMAIN attempts[c] \ {k} : attempts'[c][j] = attempts[c][j]
      BY <1>1, <2>2, <3>2, Meets DEF Fates, Claimed
    <3>4. attempts[c][k].fate \notin Lost
      BY <2>2, <3>1 DEF Lost
    <3> QED
      BY <2>2, <3>3, <3>4, LostIfMarked
  <2>5. CASE Stop(s)
    <3>1. PICK fate : fate = IF attempts[c][k].fate = "open" THEN sub[s].pc ELSE attempts[c][k].fate
      OBVIOUS
    <3>2. attempts[c][k] \in AttemptForms
      BY <2>1, HeldIsLast
    <3>3. fate \in Fates
      BY <2>1, <3>1, <3>2 DEF AttemptForms, Fates
    <3>4. attempts' = Met(c, k, fate)
      BY <1>1, <2>2, <2>5, <3>1, Zenon DEF Stop, Met
    <3>5. /\ SameAttempts(c) /\ attempts'[c][k].fate = fate
          /\ \A j \in DOMAIN attempts[c] \ {k} : attempts'[c][j] = attempts[c][j]
      BY <1>1, <2>2, <3>3, <3>4, Meets
    <3>6. attempts[c][k].fate \in Lost => fate = attempts[c][k].fate
      BY <3>1 DEF Lost
    <3> QED
      BY <2>2, <3>5, <3>6, LostIfMarked
  <2> QED
    BY <1>5, <2>3, <2>4, <2>5
<1>6. ASSUME NEW s \in Submissions, NEW c \in Contents, Submit(s, c) PROVE UNCHANGED attempts
  BY <1>6, Zenon DEF Submit
<1>7. ASSUME NEW s \in Submissions,
             \/ BumpDuplicateChunkCount(s) \/ ListCheckpointedChunkEvents(s) \/ FindExisting(s)
             \/ ProcessTrackedRecord(s) \/ PersistTrackedEvents(s) \/ Rollback(s)
             \/ PersistRefused(s) \/ Refused(s)
      PROVE  UNCHANGED attempts
  BY <1>7, Zenon DEF BumpDuplicateChunkCount, ListCheckpointedChunkEvents, FindExisting,
     ProcessTrackedRecord, PersistTrackedEvents, Rollback, PersistRefused, Refused
<1>8. UNCHANGED vars => UNCHANGED attempts
  BY DEF vars
<1> QED
  BY <1>2, <1>3, <1>4, <1>5, <1>6, <1>7, <1>8 DEF Next, Work, Fault

\* A step that leaves its submission at none of its records.
LEMMA LeavesRecords ==
    ASSUME IndInv, Types', RecordsInv, NEW s \in Submissions, Moves(s), NEW c, c = sub[s].chunk,
           \A b \in Contents : ExcusesStay(b), UNCHANGED <<stored, events>>,
           sub'[s].found = {} \/ sub'[s].found = sub[s].found, sub'[s].pc \notin {"process", "persist", "rollback"},
           \/ ~Applied(s)
           \/ Unreported(c)' # Unreported(c)
           \/ sub[s].outcome \notin {"created", "updated"} \/ sub[s].undo = {}
    PROVE  RecordsInv'
<1>1. \A d \in sub'[s].found : Document(d)
  BY DEF RecordsInv, OwnRecords
<1>2. OwnRecords(s)'
  BY <1>1, AtNoRecord
<1> QED
  BY <1>2, QuietRecords

\* The steps away from the records.
LEMMA AwayKeepsRecords ==
    ASSUME IndInv, Types', RecordsInv, NEW s \in Submissions,
           \A b \in Contents : ExcusesStay(b),
           \/ \E c \in Contents : Submit(s, c)
           \/ BumpDuplicateChunkCount(s) \/ MarkStale(s) \/ ListCheckpointedChunkEvents(s)
           \/ CreateAttempt(s) \/ FinishChunk(s) \/ UpdateRunAfterChunk(s) \/ FailChunk(s)
           \/ Refused(s)
    PROVE  RecordsInv'
<1>1. Types
  BY DEF IndInv
<1>2. UNCHANGED <<stored, events>>
  BY Zenon DEF Submit, BumpDuplicateChunkCount, MarkStale, ListCheckpointedChunkEvents,
     CreateAttempt, FinishChunk, UpdateRunAfterChunk, FailChunk, Refused
<1>3. ~Applied(s)
  BY Zenon DEF Submit, BumpDuplicateChunkCount, MarkStale, ListCheckpointedChunkEvents,
     CreateAttempt, FinishChunk, UpdateRunAfterChunk, FailChunk, Refused, At, Applied
<1>4. /\ Moves(s) /\ sub'[s].pc \notin {"process", "persist", "rollback"}
      /\ sub'[s].found = {} \/ sub'[s].found = sub[s].found
  <2>1. ASSUME NEW c \in Contents, Submit(s, c)
        PROVE  Moves(s) /\ sub'[s].pc \notin {"process", "persist", "rollback"} /\ sub'[s].found = {}
    BY <1>1, <2>1, Starts
  <2>2. CASE ListCheckpointedChunkEvents(s)
    BY <1>1, <2>2, Lists
  <2>3. CASE FinishChunk(s)
    BY <1>1, <2>3, Finishes
  <2>4. CASE MarkStale(s)
    <3>1. Goto(s, "list") /\ "list" \in Pcs
      BY <2>4 DEF MarkStale, Pcs, Waiting
    <3>2. Moves(s) /\ sub'[s].pc = "list" /\ sub'[s].found = sub[s].found
      BY <1>1, <3>1, GoesTo
    <3> QED
      BY <3>2
  <2>5. CASE CreateAttempt(s) /\ ~Answer(s)
    <3>1. Goto(s, "read") /\ "read" \in Pcs
      BY <2>5 DEF CreateAttempt, Pcs, Claimed
    <3>2. Moves(s) /\ sub'[s].pc = "read" /\ sub'[s].found = sub[s].found
      BY <1>1, <3>1, GoesTo
    <3> QED
      BY <3>2
  <2>6. CASE Answer(s) \/ Fails(s)
    BY <1>1, <2>6, Forgets
  <2>7. BumpDuplicateChunkCount(s) \/ UpdateRunAfterChunk(s) \/ FailChunk(s) => Answer(s)
    BY Zenon DEF BumpDuplicateChunkCount, UpdateRunAfterChunk, FailChunk
  <2>8. Refused(s) => Fails(s)
    BY Zenon DEF Refused
  <2> QED
    BY <2>1, <2>2, <2>3, <2>4, <2>5, <2>6, <2>7, <2>8
<1> QED
  BY <1>2, <1>3, <1>4, LeavesRecords

\* It reads the records before the first one.
LEMMA FindKeepsRecords ==
    ASSUME IndInv, Types', RecordsInv, NEW s \in Submissions,
           \A b \in Contents : ExcusesStay(b), FindExisting(s)
    PROVE  RecordsInv'
<1>1. PICK c : c = sub[s].chunk
  OBVIOUS
<1>2. Types /\ c \in Contents
  BY <1>1, Fields DEF IndInv
<1>3. /\ Moves(s) /\ sub[s].pc = "read" /\ sub'[s].pc = "process" /\ sub'[s].chunk = c
      /\ sub'[s].found = {d \in stored : \E i \in DOMAIN Chunks[c] : Chunks[c][i].id = d.id}
  BY <1>1, <1>2, Finds
<1>4. UNCHANGED <<stored, events>>
  BY Zenon DEF FindExisting
<1>5. \A d \in sub'[s].found : Document(d)
  BY <1>3 DEF RecordsInv
<1>6. UndoFits(s)' /\ OutcomeIsStored(s)'
  BY <1>3 DEF UndoFits, OutcomeIsStored, Applied
<1>7. \A i \in DOMAIN Chunks[c] : {d \in sub'[s].found : d.id = Chunks[c][i].id} = Copies(c, i)'
  BY <1>3, <1>4 DEF Copies
<1>8. FoundIsCurrent(s)'
  BY <1>3, <1>7 DEF FoundIsCurrent
<1>9. ~Applied(s)
  BY <1>3 DEF Applied
<1> QED
  BY <1>1, <1>3, <1>4, <1>5, <1>6, <1>8, <1>9, QuietRecords DEF OwnRecords

\* It stops, or cannot undo a record: what it has applied is not going to be reported.
LEMMA GivesUpKeepsRecords ==
    ASSUME IndInv, Types', RecordsInv, NEW s \in Submissions,
           \A b \in Contents : ExcusesStay(b), Stop(s) \/ RollbackRefused(s)
    PROVE  RecordsInv'
<1>1. PICK c, k : c = sub[s].chunk /\ k = sub[s].attempt
  OBVIOUS
<1>2. Types /\ sub[s].pc \in Claimed
  BY DEF IndInv, Stop, RollbackRefused, At, Claimed
<1>3. /\ c \in Contents /\ k \in DOMAIN attempts[c]
      /\ sub[s].pc # "fail" => attempts[c][k].fate = "open"
  BY <1>1, <1>2, HeldIsOpen
<1>4. UNCHANGED <<stored, events>> /\ (Answer(s) \/ Fails(s))
  BY Zenon DEF Stop, RollbackRefused
<1>5. Moves(s) /\ sub'[s].pc \in {"idle", "fail"} /\ sub'[s].found = {}
  BY <1>2, <1>4, Forgets
<1>6. ASSUME Applied(s) PROVE Unreported(c)' # Unreported(c)
  <2>1. attempts[c][k].fate = "open" /\ sub[s].pc \in {"persist", "rollback"}
    BY <1>3, <1>6 DEF Applied
  <2>2. PICK fate \in Lost : attempts' = Met(c, k, fate)
    <3>1. CASE RollbackRefused(s)
      <4>1. attempts' = Met(c, k, "rollback")
        BY <1>1, <3>1 DEF RollbackRefused, Met
      <4> QED
        BY <4>1 DEF Lost
    <3>2. CASE Stop(s)
      <4>1. PICK fate : fate = IF attempts[c][k].fate = "open" THEN sub[s].pc ELSE attempts[c][k].fate
        OBVIOUS
      <4>2. attempts' = Met(c, k, fate)
        BY <1>1, <1>2, <1>3, <3>2, <4>1, Zenon DEF Stop, Met
      <4> QED
        BY <2>1, <4>1, <4>2 DEF Lost
    <3> QED
      BY <3>1, <3>2
  <2>3. fate \in Fates
    BY DEF Lost, Fates, Claimed
  <2>4. DOMAIN attempts'[c] = DOMAIN attempts[c] /\ attempts'[c][k].fate = fate
    BY <1>2, <1>3, <2>2, <2>3, Meets DEF SameAttempts, Types
  <2> QED
    BY <1>3, <2>1, <2>4, LostIsAdded DEF Lost
<1> QED
  BY <1>1, <1>4, <1>5, <1>6, LeavesRecords

\* Its event is refused: it undoes what it has changed, or gives up.
LEMMA RefusedKeepsRecords ==
    ASSUME IndInv, Types', RecordsInv, NEW s \in Submissions,
           \A b \in Contents : ExcusesStay(b), PersistRefused(s)
    PROVE  RecordsInv'
<1>1. PICK c : c = sub[s].chunk
  OBVIOUS
<1>2. Types /\ c \in Contents
  BY <1>1, Fields DEF IndInv
<1>3. sub[s].pc = "persist" /\ UNCHANGED <<attempts, events, stored, failedWrites>>
  BY Zenon DEF PersistRefused, At
<1>4. CASE sub[s].undo = {} /\ Fails(s)
  <2>1. Moves(s) /\ sub'[s].pc \in {"idle", "fail"} /\ sub'[s].found = {}
    BY <1>2, <1>4, Forgets
  <2> QED
    BY <1>1, <1>3, <1>4, <2>1, LeavesRecords
<1>5. CASE Goto(s, "rollback")
  <2>1. /\ Moves(s) /\ sub'[s].pc = "rollback" /\ sub'[s].chunk = c /\ sub'[s].done = sub[s].done
        /\ sub'[s].found = sub[s].found /\ sub'[s].outcome = sub[s].outcome
        /\ sub'[s].undo = sub[s].undo
    BY <1>1, <1>2, <1>5, GoesTo DEF Pcs, Claimed
  <2>2. Applied(s) /\ Applied(s)'
    BY <1>3, <2>1 DEF Applied
  <2>3. OwnRecords(s)
    BY DEF RecordsInv
  <2>4. \A d \in sub'[s].found : Document(d)
    BY <2>1, <2>3 DEF OwnRecords
  <2>5. UndoFits(s)'
    BY <1>1, <2>1, <2>2, <2>3 DEF OwnRecords, UndoFits, Current
  <2>6. \A i : Ahead(s, i)' => Ahead(s, i)
    BY <2>1, <2>2 DEF Ahead
  <2>7. \A i : Copies(c, i)' = Copies(c, i)
    BY <1>3, CopiesAsStored
  <2>8. FoundIsCurrent(s)'
    BY <1>1, <2>1, <2>3, <2>6, <2>7 DEF OwnRecords, FoundIsCurrent
  <2>9. OutcomeIsStored(s)'
    <3>1. PICK i, copies, n :
             i = sub[s].done + 1 /\ copies = Copies(c, i) /\ n = Excused(c, i)
      OBVIOUS
    <3>2. Alone(c, i) => OutcomeFits(s, c, copies, n)
      BY <1>1, <2>2, <2>3, <3>1 DEF OwnRecords, OutcomeIsStored
    <3>3. Copies(c, i)' = copies /\ Excused(c, i)' = n
      BY <1>3, <3>1 DEF Copies, Unreported, Excused
    <3>4. Alone(c, i) => OutcomeFits(s, c, copies, n)'
      BY <2>1, <3>2 DEF OutcomeFits
    <3>5. sub'[s].done + 1 = i
      BY <2>1, <3>1
    <3>6. Alone(c, i) => OutcomeFits(s, c, Copies(c, i), Excused(c, i))'
      BY <3>3, <3>4 DEF OutcomeFits
    <3> QED
      BY <2>1, <3>5, <3>6 DEF OutcomeIsStored
  <2>10. OwnRecords(s)'
    BY <2>4, <2>5, <2>8, <2>9 DEF OwnRecords
  <2> QED
    BY <1>1, <1>3, <2>1, <2>2, <2>10, QuietRecords
<1> QED
  BY <1>4, <1>5 DEF PersistRefused

\* A change of the record of one id leaves the copies of all others that are alone.
LEMMA OthersStay ==
    ASSUME NEW c \in Contents, NEW i \in DOMAIN Chunks[c], NEW oid, NEW docs,
           Names(oid, Chunks[c][i].id), \A d \in stored : Document(d),
           \A d \in docs : Document(d) /\ d.oid = oid, stored' = Replaced(oid, docs)
    PROVE  \A b \in Contents : \A j \in DOMAIN Chunks[b] :
              Alone(b, j) /\ ~(b = c /\ j = i) => Copies(b, j)' = Copies(b, j)
<1> SUFFICES ASSUME NEW b \in Contents, NEW j \in DOMAIN Chunks[b], Alone(b, j), ~(b = c /\ j = i)
             PROVE  Copies(b, j)' = Copies(b, j)
  OBVIOUS
<1>1. Chunks[c][i].id # Chunks[b][j].id
  BY DEF Alone
<1> QED
  BY <1>1, CopiesStay

\* What a record that has not been reported must fit.
LEMMA FitsUnreported ==
    ASSUME NEW c \in Contents, NEW i \in DOMAIN Chunks[c], NEW docs, docs = Copies(c, i)',
           IsFiniteSet(docs), Single(docs), \A d \in docs : Document(d),
           \A S : ~Reports(c, i, S)', NEW n \in Nat, n = Excused(c, i)',
           HeldAtMost(docs, c, n) \/ (UnderWay(c, i)' /\ HeldAtMost(docs, c, n + 1))
    PROVE  RecordFits(c, i)'
<1>1. PICK x : x = IF Reports(c, i, {"created", "updated"})' \/ UnderWay(c, i)' THEN 1 ELSE 0
  OBVIOUS
<1>2. HeldAtMost(docs, c, n + x)
  <2>1. CASE UnderWay(c, i)' /\ HeldAtMost(docs, c, n + 1)
    BY <1>1, <2>1
  <2>2. CASE HeldAtMost(docs, c, n)
    BY <1>1, <2>2, HeldMore
  <2> QED
    BY <2>1, <2>2
<1>3. HeldAtMost(Copies(c, i)', c, Excused(c, i)' +
         (IF Reports(c, i, {"created", "updated"})' \/ UnderWay(c, i)' THEN 1 ELSE 0))
  BY <1>1, <1>2
<1> QED
  BY <1>3 DEF RecordFits

\* It undoes a record: what was there before is there again.
LEMMA RollbackKeepsRecords ==
    ASSUME IndInv, Types', RecordsInv, NEW s \in Submissions,
           \A b \in Contents : ExcusesStay(b), Rollback(s)
    PROVE  RecordsInv'
<1>1. PICK c, i : c = sub[s].chunk /\ i = sub[s].done + 1
  OBVIOUS
<1>2. Types /\ c \in Contents
  BY <1>1, Fields DEF IndInv
<1>3. PICK e \in sub[s].undo :
         stored' = IF e.outcome = "updated" /\ {d \in stored : d.oid = e.oid} = {}
                   THEN stored ELSE Replaced(e.oid, e.before)
  BY Zenon DEF Rollback
<1>4. sub[s].pc = "rollback" /\ Fails(s) /\ UNCHANGED <<attempts, events, failedWrites>>
  BY Zenon DEF Rollback, At
<1>5. Moves(s) /\ sub'[s].pc \in {"idle", "fail"} /\ sub'[s].found = {}
  BY <1>2, <1>4, Forgets
<1>6. Applied(s) /\ OwnRecords(s) /\ \A d \in stored : Document(d)
  BY <1>4 DEF Applied, RecordsInv
<1>7. /\ i \in DOMAIN Chunks[c] /\ Names(e.oid, Chunks[c][i].id)
      /\ \A d \in e.before \union e.after : Document(d) /\ d.oid = e.oid
  BY <1>1, <1>3, <1>6 DEF OwnRecords, UndoFits, Current
<1>8. stored' = stored \/ stored' = Replaced(e.oid, e.before)
  BY <1>3
<1>9. \A d \in stored' : Document(d)
  BY <1>6, <1>7, <1>8, DocumentsReplaced
<1>10. OwnRecords(s)'
  BY <1>5, AtNoRecord
<1>11. \A b \in Contents : \A j \in DOMAIN Chunks[b] :
          Alone(b, j) /\ ~(b = c /\ j = i) => Copies(b, j)' = Copies(b, j)
  <2>1. CASE stored' = stored
    BY <2>1, CopiesAsStored
  <2>2. CASE stored' = Replaced(e.oid, e.before)
    BY <1>2, <1>6, <1>7, <2>2, OthersStay
  <2> QED
    BY <1>8, <2>1, <2>2
<1>12. \A b, j, S : Reports(b, j, S)' <=> Reports(b, j, S)
  BY <1>4 DEF Reports
<1>13. ASSUME Alone(c, i) PROVE RecordFits(c, i)'
  <2>1. PICK n : n = Excused(c, i)
    OBVIOUS
  <2>2. n \in Nat /\ n = Excused(c, i)'
    BY <1>2, <1>4, <1>7, <2>1, LostIsNatural DEF Unreported, Excused, ExcusesStay
  <2>3. /\ e.after = Copies(c, i) /\ Single(e.before) /\ IsFiniteSet(e.before)
        /\ HeldAtMost(e.before, c, n)
    BY <1>1, <1>3, <1>6, <1>13, <2>1 DEF OwnRecords, OutcomeIsStored, OutcomeFits
  <2>4. \A S : ~Reports(c, i, S)'
    BY <1>1, <1>4, <1>12, HolderIsAlone
  <2>5. CASE stored' = Replaced(e.oid, e.before)
    <3>1. Copies(c, i)' = e.before
      BY <1>2, <1>7, <2>3, <2>5, CopiesReplaced
    <3> QED
      BY <1>2, <1>7, <2>2, <2>3, <2>4, <3>1, FitsUnreported
  <2>6. CASE stored' = stored /\ {d \in stored : d.oid = e.oid} = {}
    <3>1. Copies(c, i) = {}
      BY <1>7, <2>3, <2>6 DEF Copies
    <3>2. Copies(c, i)' = {}
      BY <2>6, <3>1, CopiesAsStored
    <3>3. IsFiniteSet({}) /\ Single({}) /\ HeldAtMost({}, c, n)
      BY FS_EmptySet DEF Single, HeldAtMost
    <3> QED
      BY <1>2, <1>7, <2>2, <2>4, <3>2, <3>3, FitsUnreported
  <2> QED
    BY <1>3, <2>5, <2>6
<1> QED
  BY <1>1, <1>4, <1>5, <1>7, <1>9, <1>10, <1>11, <1>12, <1>13, StepKeepsRecords

\* The event of a record says how it has been stored, and speaks of no other.
LEMMA PersistReports ==
    ASSUME IndInv, Types', NEW s \in Submissions, PersistTrackedEvents(s),
           NEW c, NEW i, c = sub[s].chunk, i = sub[s].done + 1
    PROVE  /\ \A S : Reports(c, i, S)' <=> sub[s].outcome \in S
           /\ \A b \in Contents : \A j : \A S :
                 ~(b = c /\ j = i) => (Reports(b, j, S)' <=> Reports(b, j, S))
<1> DEFINE event == [attempt |-> sub[s].attempt, index |-> i, outcome |-> sub[s].outcome]
<1>1. Types /\ c \in Contents /\ i \in Nat /\ sub[s].attempt \in Nat /\ sub[s].outcome \in Outcomes
  BY Fields DEF IndInv
<1>2. PICK e : e = event
  OBVIOUS
<1>3. e \in EventForms /\ e.index = i /\ e.outcome = sub[s].outcome
  BY <1>1, <1>2 DEF EventForms
<1>4. events' = [events EXCEPT ![c] = Append(@, e)]
  BY <1>2 DEF PersistTrackedEvents
<1>5. events \in [Contents -> Seq(EventForms)]
  BY <1>1 DEF Types
<1>6. /\ Len(events'[c]) = Len(events[c]) + 1
      /\ events'[c][Len(events[c]) + 1] = e
      /\ \A j \in DOMAIN events[c] : events'[c][j] = events[c][j]
      /\ \A b \in Contents \ {c} : events'[b] = events[b]
  BY <1>1, <1>3, <1>4, <1>5, Records
<1>7. PICK n : n = Len(events[c])
  OBVIOUS
<1>8. n \in Nat /\ DOMAIN events[c] = 1..n
  BY <1>1, <1>7, Chunk
<1>9. DOMAIN events'[c] = 1..n + 1
  <2>1. events'[c] \in Seq(EventForms)
    BY <1>1 DEF Types
  <2> QED
    BY <1>6, <1>7, <2>1
<1>10. \A S : ~Reports(c, i, S)
  <2>1. sub[s].pc = "persist"
    BY DEF PersistTrackedEvents, At
  <2> QED
    BY <2>1, HolderIsAlone
<1>11. ASSUME NEW b \in Contents, b # c, NEW j, NEW S PROVE Reports(b, j, S)' <=> Reports(b, j, S)
  BY <1>6, <1>11 DEF Reports
<1>12. ASSUME NEW j, NEW S
       PROVE  Reports(c, j, S)' <=> Reports(c, j, S) \/ (j = i /\ sub[s].outcome \in S)
  <2>1. \A m \in 1..n : events'[c][m] = events[c][m]
    BY <1>6, <1>8
  <2>2. events'[c][n + 1] = e /\ 1..n + 1 = (1..n) \union {n + 1}
    BY <1>6, <1>7, <1>8
  <2>3. Reports(c, j, S)' <=>
           \E m \in (1..n) \union {n + 1} : events'[c][m].index = j /\ events'[c][m].outcome \in S
    BY <1>9, <2>2 DEF Reports
  <2>4. Reports(c, j, S) <=> \E m \in 1..n : events[c][m].index = j /\ events[c][m].outcome \in S
    BY <1>8 DEF Reports
  <2> QED
    BY <1>3, <2>1, <2>2, <2>3, <2>4
<1> QED
  BY <1>10, <1>11, <1>12

\* It stores the event of its record.
LEMMA PersistKeepsRecords ==
    ASSUME IndInv, Types', RecordsInv, NEW s \in Submissions,
           \A b \in Contents : ExcusesStay(b), PersistTrackedEvents(s)
    PROVE  RecordsInv'
<1>1. PICK c, i : c = sub[s].chunk /\ i = sub[s].done + 1
  OBVIOUS
<1>2. Types /\ c \in Contents /\ i \in Nat /\ sub[s].done \in Nat
  BY <1>1, Fields DEF IndInv
<1>3. /\ Moves(s) /\ sub[s].pc = "persist" /\ sub'[s].chunk = c
      /\ \/ sub'[s].pc = "process" /\ sub'[s].done = i /\ sub'[s].found = sub[s].found
         \/ sub'[s].pc = "fail" /\ sub'[s].found = {}
  BY <1>1, <1>2, Persists
<1>4. UNCHANGED <<attempts, stored, failedWrites>>
  BY Zenon DEF PersistTrackedEvents
<1>5. Applied(s) /\ OwnRecords(s) /\ \A d \in stored : Document(d)
  BY <1>3 DEF Applied, RecordsInv
<1>6. /\ \A S : Reports(c, i, S)' <=> sub[s].outcome \in S
      /\ \A b \in Contents : \A j : \A S :
            ~(b = c /\ j = i) => (Reports(b, j, S)' <=> Reports(b, j, S))
  BY <1>1, PersistReports
<1>7. \A b, j : Copies(b, j)' = Copies(b, j)
  BY <1>4, CopiesAsStored
<1>8. OwnRecords(s)'
  <2>1. CASE sub'[s].pc = "fail" /\ sub'[s].found = {}
    BY <2>1, AtNoRecord
  <2>2. CASE sub'[s].pc = "process" /\ sub'[s].done = i /\ sub'[s].found = sub[s].found
    <3>1. UndoFits(s)' /\ OutcomeIsStored(s)'
      BY <2>2 DEF UndoFits, OutcomeIsStored, Applied
    <3>2. \A j : Ahead(s, j)' => Ahead(s, j)
      BY <1>1, <1>3, <1>5, <2>2 DEF Ahead, Applied
    <3>3. FoundIsCurrent(s)'
      BY <1>1, <1>3, <1>5, <1>7, <2>2, <3>2 DEF OwnRecords, FoundIsCurrent
    <3> QED
      BY <1>5, <2>2, <3>1, <3>3 DEF OwnRecords
  <2> QED
    BY <1>3, <2>1, <2>2
<1>9. ASSUME i \in DOMAIN Chunks[c], Alone(c, i) PROVE RecordFits(c, i)'
  <2>1. PICK copies, n, x : /\ copies = Copies(c, i) /\ n = Excused(c, i)
                            /\ x = IF sub[s].outcome \in {"created", "updated"} \/ UnderWay(c, i)' THEN 1 ELSE 0
    OBVIOUS
  <2>2. n \in Nat /\ n = Excused(c, i)'
    BY <1>2, <1>4, <1>9, <2>1, LostIsNatural DEF Unreported, Excused, ExcusesStay
  <2>3. RecordFits(c, i) /\ UnderWay(c, i)
    BY <1>1, <1>2, <1>5, <1>9 DEF RecordsInv, UnderWay, Applied
  <2>4. OutcomeFits(s, c, copies, n)
    BY <1>1, <1>5, <1>9, <2>1 DEF OwnRecords, OutcomeIsStored
  <2>5. IsFiniteSet(copies) /\ (Single(copies) \/ ~Single({d \in InitialStore : d.id = Chunks[c][i].id}))
    BY <2>1, <2>3 DEF RecordFits
  <2>6. HeldAtMost(copies, c, n + x)
    <3>1. CASE sub[s].outcome \in {"created", "updated"}
      <4>1. HeldAtMost(copies, c, n + 1)
        BY <2>1, <2>3 DEF RecordFits
      <4> QED
        BY <2>1, <3>1, <4>1
    <3>2. CASE sub[s].outcome \notin {"created", "updated"}
      <4>1. HeldAtMost(copies, c, n)
        BY <2>4, <3>2 DEF OutcomeFits
      <4>2. \A d \in copies : Document(d)
        BY <1>5, <2>1 DEF Copies
      <4> QED
        BY <2>1, <2>2, <4>1, <4>2, HeldMore
    <3> QED
      BY <3>1, <3>2
  <2>7. Copies(c, i)' = copies
    BY <1>7, <2>1
  <2>8. HeldAtMost(Copies(c, i)', c, Excused(c, i)' +
           (IF Reports(c, i, {"created", "updated"})' \/ UnderWay(c, i)' THEN 1 ELSE 0))
    BY <1>6, <2>1, <2>2, <2>6, <2>7
  <2>9. /\ Reports(c, i, {"created", "updated"})' => HasSent(copies, c)
        /\ Reports(c, i, {"deleted"})' => copies = {}
    BY <1>6, <2>4 DEF OutcomeFits
  <2> QED
    BY <2>5, <2>7, <2>8, <2>9 DEF RecordFits
<1>10. \A d \in stored' : Document(d)
  BY <1>4, <1>5
<1> QED
  BY <1>1, <1>3, <1>4, <1>6, <1>7, <1>8, <1>9, <1>10, StepKeepsRecords

\* What is known of the record a submission is about to apply.
LEMMA BeforeEffect ==
    ASSUME IndInv, FailuresOK, RecordsInv, NEW s \in Submissions, sub[s].pc = "process",
           NEW c, NEW i, c = sub[s].chunk, i = sub[s].done + 1, i \in DOMAIN Chunks[c], Alone(c, i),
           NEW n, n = Excused(c, i)
    PROVE  /\ {d \in sub[s].found : d.id = Chunks[c][i].id} = Copies(c, i)
           /\ RecordFits(c, i) /\ HeldAtMost(Copies(c, i), c, n)
           /\ \A S : ~Reports(c, i, S)
           /\ ~UnderWay(c, i)
<1>1. Types /\ c \in Contents /\ i \in Nat /\ sub[s].done \in Nat
  BY Fields DEF IndInv
<1>2. \A S : ~Reports(c, i, S)
  BY HolderIsAlone
<1>3. ~UnderWay(c, i)
  BY HolderIsAlone DEF UnderWay
<1>4. RecordFits(c, i)
  BY <1>1 DEF RecordsInv
<1>5. Ahead(s, i)
  BY <1>1 DEF Ahead
<1>6. n \in Nat
  BY <1>1, LostIsNatural
<1>7. HeldAtMost(Copies(c, i), c, n)
  <2>1. HeldAtMost(Copies(c, i), c, n + 0)
    BY <1>2, <1>3, <1>4 DEF RecordFits
  <2> QED
    BY <1>6, <2>1
<1> QED
  BY <1>2, <1>3, <1>4, <1>5, <1>7 DEF RecordsInv, OwnRecords, FoundIsCurrent

\* It applies a record, or is refused.
LEMMA ProcessKeepsRecords ==
    ASSUME IndInv, Types', RecordsInv, NEW s \in Submissions,
           \A b \in Contents : ExcusesStay(b), ProcessTrackedRecord(s)
    PROVE  RecordsInv'
<1>1. PICK c, i, k, existing :
         /\ c = sub[s].chunk /\ i = sub[s].done + 1 /\ k = sub[s].attempt
         /\ existing = {d \in sub[s].found : d.id = Chunks[c][i].id}
  OBVIOUS
<1>2. Types /\ c \in Contents /\ sub[s].done \in Nat /\ k \in Nat
  BY <1>1, Fields DEF IndInv
<1>3. /\ Moves(s) /\ sub[s].pc = "process" /\ sub'[s].pc = "persist"
      /\ sub'[s].chunk = c /\ sub'[s].done = sub[s].done /\ sub'[s].found = sub[s].found
      /\ sub[s].done < Len(Chunks[c])
  BY <1>1, <1>2, Processes
<1>4. PICK e \in Effects(c, i, k, existing) :
         Leaves(e, c, i, sub'[s].outcome, sub'[s].undo)
  BY <1>1, <1>2, Processes
<1>4a. stored' = stored \/ stored' = Replaced(e.oid, e.after)
  BY <1>4 DEF Leaves
<1>5. i \in DOMAIN Chunks[c]
  <2>1. Len(Chunks[c]) \in Nat /\ DOMAIN Chunks[c] = 1..Len(Chunks[c])
    BY <1>2, LenChunks
  <2> QED
    BY <1>1, <1>2, <1>3, <2>1
<1>6. UNCHANGED <<attempts, events>>
  BY Zenon DEF ProcessTrackedRecord
<1>7. OwnRecords(s) /\ \A d \in stored : Document(d)
  BY DEF RecordsInv
<1>8. /\ Names(e.oid, Chunks[c][i].id) /\ e.before = {d \in stored : d.oid = e.oid}
      /\ \A d \in e.before \union e.after : Document(d) /\ d.oid = e.oid
  BY <1>1, <1>2, <1>5, <1>7, EffectFits DEF OwnRecords
<1>9. \A d \in stored' : Document(d)
  BY <1>4a, <1>7, <1>8, DocumentsReplaced
<1>10. \A b \in Contents : \A j \in DOMAIN Chunks[b] :
          Alone(b, j) /\ ~(b = c /\ j = i) => Copies(b, j)' = Copies(b, j)
  <2>1. CASE stored' = stored
    BY <2>1, CopiesAsStored
  <2>2. CASE stored' = Replaced(e.oid, e.after)
    BY <1>2, <1>5, <1>7, <1>8, <2>2, OthersStay
  <2> QED
    BY <1>4a, <2>1, <2>2
<1>11. \A b, j, S : Reports(b, j, S)' <=> Reports(b, j, S)
  BY <1>6 DEF Reports
<1>12. ASSUME Alone(c, i)
       PROVE  RecordFits(c, i)' /\ OutcomeFits(s, c, Copies(c, i), Excused(c, i))'
  <2>1. PICK copies, n : copies = Copies(c, i) /\ n = Excused(c, i)
    OBVIOUS
  <2>2. n \in Nat /\ (NoFailedWrite => n = Excused(c, i)')
    BY <1>2, <1>5, <1>6, <2>1, LostIsNatural DEF Unreported, Excused, ExcusesStay, NoFailedWrite
  <2>3. /\ existing = copies /\ RecordFits(c, i) /\ HeldAtMost(copies, c, n)
        /\ ~UnderWay(c, i)
    BY <1>1, <1>2, <1>3, <1>5, <1>12, <2>1, BeforeEffect DEF ExcusesStay
  <2>4. \A S : ~Reports(c, i, S)'
    BY <1>1, <1>2, <1>3, <1>5, <1>11, <1>12, <2>1, BeforeEffect DEF ExcusesStay
  <2>5. IsFiniteSet(copies)
    BY <2>1, <2>3 DEF RecordFits
  <2>6. \/ e.after = e.before /\ e.outcome \notin {"created", "updated", "deleted"}
        \/ /\ e.before = copies /\ Single(e.before) /\ Single(e.after)
           /\ IsFiniteSet(e.after) /\ \A d \in e.after : d.id = Chunks[c][i].id
           /\ e.outcome \in {"created", "updated", "deleted"}
           /\ e.outcome = "deleted" => e.after = {}
           /\ e.outcome \in {"created", "updated"} => HasSent(e.after, c)
           /\ \A m \in Nat : HeldAtMost(copies, c, m) => HeldAtMost(e.after, c, m + 1)
    BY <1>2, <1>5, <1>7, <2>1, <2>3, <2>5, EffectOnCopies
  <2>7. CASE /\ stored' = stored /\ sub'[s].undo = {} /\ NoFailedWrite
             /\ sub'[s].outcome \notin {"created", "updated", "deleted"}
    <3>1. Copies(c, i)' = copies
      BY <2>1, <2>7, CopiesAsStored
    <3>2. RecordFits(c, i)'
      BY <1>2, <1>5, <1>7, <1>11, <2>1, <2>3, <3>1, PairStays
    <3>3. OutcomeFits(s, c, copies, n)'
      BY <2>3, <2>7 DEF OutcomeFits
    <3> QED
      BY <2>2, <2>7, <3>1, <3>2, <3>3 DEF OutcomeFits
  <2>8. CASE /\ stored' = Replaced(e.oid, e.after) /\ e.before = copies
             /\ sub'[s].outcome = e.outcome /\ NoFailedWrite
             /\ sub'[s].undo = IF e.after = e.before THEN {} ELSE {e}
             /\ e.outcome \in {"created", "updated", "deleted"}
    <3>1. /\ Single(e.before) /\ Single(e.after) /\ IsFiniteSet(e.after)
          /\ e.outcome = "deleted" => e.after = {}
          /\ e.outcome \in {"created", "updated"} => HasSent(e.after, c)
          /\ HeldAtMost(e.after, c, n + 1)
      BY <2>2, <2>3, <2>6, <2>8
    <3>2. Copies(c, i)' = e.after
      BY <1>2, <1>5, <1>8, <2>1, <2>8, CopiesReplaced
    <3>3. UnderWay(c, i)'
      BY <1>1, <1>3 DEF UnderWay
    <3>4. RecordFits(c, i)'
      BY <1>2, <1>5, <1>8, <2>2, <2>4, <2>8, <3>1, <3>2, <3>3, FitsUnreported
    <3>5. sub'[s].outcome \notin {"created", "updated"} \/ sub'[s].undo = {} => HeldAtMost(e.after, c, n)
      <4>1. HeldAtMost({}, c, n)
        BY DEF HeldAtMost
      <4>2. sub'[s].undo = {} => e.after = e.before
        BY <2>8
      <4> QED
        BY <2>3, <2>8, <3>1, <4>1, <4>2
    <3>6. \A f \in sub'[s].undo : f = e
      BY <2>8
    <3>7. OutcomeFits(s, c, e.after, n)'
      BY <2>3, <2>5, <2>8, <3>1, <3>5, <3>6 DEF OutcomeFits
    <3> QED
      BY <2>2, <2>8, <3>2, <3>4, <3>7 DEF OutcomeFits
  <2>9. CASE /\ stored' = Replaced(e.oid, e.after) /\ e.before = copies
             /\ sub'[s].outcome = "failed" /\ sub'[s].undo = {} /\ OneFailedWrite(c, i)
             /\ e.outcome \in {"created", "updated", "deleted"}
    <3>1. /\ Single(e.after) /\ IsFiniteSet(e.after) /\ HeldAtMost(e.after, c, n + 1)
          /\ \A d \in e.after : Document(d)
      BY <1>8, <2>2, <2>3, <2>6, <2>9
    <3>2. Copies(c, i)' = e.after
      BY <1>2, <1>5, <1>8, <2>1, <2>9, CopiesReplaced
    <3>3. PICK m : m = Excused(c, i)'
      OBVIOUS
    <3>4. failedWrites'[c][i] = failedWrites[c][i] + 1
      BY <1>2, <1>5, <2>9 DEF OneFailedWrite, FailuresOK, ExcusesStay
    <3>5. m \in Nat /\ n + 1 <= m
      BY <1>2, <1>5, <2>1, <3>3, <3>4, LostGrows
    <3>6. HeldAtMost(e.after, c, m)
      BY <2>2, <3>1, <3>5, HeldMore
    <3>7. RecordFits(c, i)'
      BY <1>2, <1>5, <2>4, <3>1, <3>2, <3>3, <3>5, <3>6, FitsUnreported
    <3>8. OutcomeFits(s, c, e.after, m)'
      BY <2>9, <3>6 DEF OutcomeFits
    <3> QED
      BY <3>2, <3>3, <3>7, <3>8 DEF OutcomeFits
  <2>10. e.after = e.before /\ stored' = Replaced(e.oid, e.after) => stored' = stored
    BY <1>8 DEF Replaced
  <2> QED
    BY <1>4, <2>6, <2>7, <2>8, <2>9, <2>10 DEF Leaves
<1>13. OwnRecords(s)'
  <2>1. \A d \in sub'[s].found : Document(d)
    BY <1>3, <1>7 DEF OwnRecords
  <2>2. \A f \in sub'[s].undo : f = e
    BY <1>4 DEF Leaves
  <2>3. UndoFits(s)'
    BY <1>1, <1>3, <1>5, <1>8, <2>2 DEF UndoFits, Current
  <2>4. \A j \in DOMAIN Chunks[c] : Ahead(s, j)' => Ahead(s, j) /\ j # i
    <3>1. \A j \in DOMAIN Chunks[c] : j \in Nat
      BY <1>2, LenChunks
    <3> QED
      BY <1>1, <1>2, <1>3, <3>1 DEF Ahead, Applied
  <2>5. FoundIsCurrent(s)'
    <3> SUFFICES ASSUME NEW j \in DOMAIN Chunks[c], Alone(c, j), Ahead(s, j)'
                 PROVE  {d \in sub[s].found : d.id = Chunks[c][j].id} = Copies(c, j)'
      BY <1>3 DEF FoundIsCurrent
    <3>1. {d \in sub[s].found : d.id = Chunks[c][j].id} = Copies(c, j)
      BY <1>1, <1>7, <2>4 DEF OwnRecords, FoundIsCurrent
    <3> QED
      BY <1>2, <1>10, <2>4, <3>1
  <2>6. OutcomeIsStored(s)'
    <3>1. sub'[s].done + 1 = i
      BY <1>1, <1>3
    <3>2. Alone(c, i) => OutcomeFits(s, c, Copies(c, i), Excused(c, i))'
      BY <1>12
    <3> QED
      BY <1>3, <3>1, <3>2 DEF OutcomeIsStored
  <2> QED
    BY <2>1, <2>3, <2>5, <2>6 DEF OwnRecords
<1> QED
  BY <1>1, <1>3, <1>9, <1>10, <1>11, <1>12, <1>13, StepKeepsRecords

-----------------------------------------------------------------------------
(* What is reported is stored                                              *)

\* Before the run a record holds what it held before the run.
LEMMA InitRecords == Init => RecordsInv
<1> SUFFICES ASSUME Init PROVE RecordsInv
  OBVIOUS
<1>1. stored = InitialStore
  BY DEF Init
<1>2. \A d \in stored : Document(d)
  BY <1>1, OldDocuments
<1>3. ASSUME NEW c \in Contents, NEW i \in DOMAIN Chunks[c] PROVE RecordFits(c, i)
  <2>1. DOMAIN attempts[c] = {} /\ DOMAIN events[c] = {}
    BY DEF Init
  <2>2. Unreported(c) = {} /\ \A S : ~Reports(c, i, S)
    BY <2>1 DEF Unreported, Reports
  <2>3. PICK x : x = IF Reports(c, i, {"created", "updated"}) \/ UnderWay(c, i) THEN 1 ELSE 0
    OBVIOUS
  <2>4. ASSUME NEW d \in Copies(c, i) PROVE Times(d, c) <= Before(d.oid, c) + (0 + x)
    <3>1. d \in InitialStore /\ {e \in InitialStore : e.oid = d.oid} = {d}
      BY <1>1, <2>4, StoreAssumption DEF Copies
    <3>2. Before(d.oid, c) = Times(d, c)
      BY <3>1 DEF Before
    <3>3. Times(d, c) \in Nat
      BY <1>1, <1>2, <3>1, TimesIsNatural
    <3> QED
      BY <2>3, <3>2, <3>3
  <2>5. Excused(c, i) = 0
    <3>1. failedWrites[c][i] = 0
      BY DEF Init
    <3> QED
      BY <2>2, <3>1, FS_EmptySet DEF Excused
  <2>6. IsFiniteSet(Copies(c, i))
    BY <1>1, StoreAssumption, FS_Subset DEF Copies
  <2>7. Copies(c, i) = {d \in InitialStore : d.id = Chunks[c][i].id}
    BY <1>1 DEF Copies
  <2> QED
    BY <2>2, <2>3, <2>4, <2>5, <2>6, <2>7 DEF RecordFits, HeldAtMost
<1>4. ASSUME NEW s \in Submissions PROVE OwnRecords(s)
  <2>1. sub[s].pc = "idle" /\ sub[s].found = {}
    BY IdleForm DEF Init
  <2> QED
    BY <2>1 DEF OwnRecords, UndoFits, FoundIsCurrent, OutcomeIsStored, Ahead, Applied
<1> QED
  BY <1>2, <1>3, <1>4 DEF RecordsInv

\* A step that changes nothing keeps the records.
LEMMA StutterKeepsRecords ==
    ASSUME RecordsInv, UNCHANGED vars
    PROVE  RecordsInv'
<1>1. /\ stored' = stored /\ attempts' = attempts /\ events' = events /\ sub' = sub
      /\ failedWrites' = failedWrites
  BY DEF vars
<1>2. \A c, i : Copies(c, i)' = Copies(c, i)
  BY <1>1 DEF Copies
<1>3. \A c, i : Excused(c, i)' = Excused(c, i)
  BY <1>1 DEF Unreported, Excused
<1>4. \A c, i, S : Reports(c, i, S)' <=> Reports(c, i, S)
  BY <1>1 DEF Reports
<1>5. \A c, i : UnderWay(c, i)' <=> UnderWay(c, i)
  BY <1>1 DEF UnderWay
<1>6. \A c, i : RecordFits(c, i) => RecordFits(c, i)'
  BY <1>2, <1>3, <1>4, <1>5 DEF RecordFits
<1>7. \A s \in Submissions : OwnRecords(s) => OwnRecords(s)'
  BY <1>1, <1>2, <1>3 DEF OwnRecords, UndoFits, Applied, Current, FoundIsCurrent, Ahead,
     OutcomeIsStored, OutcomeFits
<1> QED
  BY <1>1, <1>6, <1>7 DEF RecordsInv

LEMMA NextRecords == IndInv /\ Types' /\ FailuresOK /\ RecordsInv /\ [Next]_vars => RecordsInv'
<1> SUFFICES ASSUME IndInv, Types', FailuresOK, RecordsInv, [Next]_vars PROVE RecordsInv'
  OBVIOUS
<1>1. \A b \in Contents : ExcusesStay(b)
  BY LostStays, FailuresGrow DEF IndInv, ExcusesStay
<1>2. CASE UNCHANGED vars
  BY <1>2, StutterKeepsRecords
<1>3. ASSUME NEW s \in Submissions, (\E c \in Contents : Submit(s, c)) \/ Work(s) \/ Fault(s)
      PROVE  RecordsInv'
  BY <1>1, <1>3, AwayKeepsRecords, FindKeepsRecords, GivesUpKeepsRecords, RefusedKeepsRecords,
     RollbackKeepsRecords, PersistKeepsRecords, ProcessKeepsRecords DEF Work, Fault
<1> QED
  BY <1>2, <1>3 DEF Next

LEMMA RecordsInvAlways ==
    ASSUME ~SlowAttempts
    PROVE  Spec => []RecordsInv
<1>1. Init => RecordsInv
  BY InitRecords
<1>2. IndInv => Types
  BY DEF IndInv
<1>3. IndInv /\ Types' /\ FailuresOK /\ RecordsInv /\ [Next]_vars => RecordsInv'
  BY NextRecords
<1> QED
  BY <1>1, <1>2, <1>3, IndInvAlways, FailuresAlways, PTL DEF Spec

\* As long as no attempt outlives the time-out, a record that is reported created or
\* updated holds what its chunk sent, and one reported deleted is gone: what is read
\* once before the first record of a chunk is still so when the record is applied, and
\* a rollback is over before its record can be reported.
THEOREM ReportedStored ==
    ASSUME ~SlowAttempts
    PROVE  Spec => []ReportedIsStored
<1>1. RecordsInv => ReportedIsStored
  BY DEF RecordsInv, RecordFits, ReportedIsStored, HasSent
<1> QED
  BY <1>1, RecordsInvAlways, PTL

\* As long as no attempt outlives the time-out, a stored record holds what a chunk sent
\* at most once more than before the run when the chunk has reported it or is at it, once
\* more for each attempt that stopped in between or could not undo it, and once more for
\* each time the record service wrote it and said that it had failed.
THEOREM StoredReported ==
    ASSUME ~SlowAttempts
    PROVE  Spec => []StoredIsReported
<1>1. RecordsInv => StoredIsReported
  BY DEF RecordsInv, RecordFits, StoredIsReported
<1> QED
  BY <1>1, RecordsInvAlways, PTL

\* As long as no attempt outlives the time-out, a harvest id that one record of the run
\* names has one record at most, unless it had several before: an attempt finds what the
\* ones before it have created, reported or not.
THEOREM OneRecord ==
    ASSUME ~SlowAttempts
    PROVE  Spec => []NoSecondRecord
<1>1. RecordsInv => NoSecondRecord
  <2> SUFFICES ASSUME RecordsInv, NEW c \in Contents, NEW i \in DOMAIN Chunks[c], Alone(c, i)
               PROVE  \/ Cardinality(Copies(c, i)) <= 1
                      \/ Cardinality({d \in InitialStore : d.id = Chunks[c][i].id}) > 1
    BY DEF NoSecondRecord
  <2> DEFINE old == {d \in InitialStore : d.id = Chunks[c][i].id}
  <2>1. IsFiniteSet(old)
    BY StoreAssumption, FS_Subset
  <2>2. CASE Single(Copies(c, i))
    BY <2>2, AtMostOne DEF Single
  <2>3. CASE ~Single(old)
    BY <2>1, <2>3, MoreThanOne
  <2> QED
    BY <2>2, <2>3 DEF RecordsInv, RecordFits
<1> QED
  BY <1>1, RecordsInvAlways, PTL
=============================================================================
