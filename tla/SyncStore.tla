------------------------------ MODULE SyncStore ------------------------------
(***************************************************************************)
(* FigshareSyncStore (figshare-v2/sync-store.ts): the access to the work   *)
(* document of one record.  A compound change reads the document, computes *)
(* its successor and replaces it if the revision is still the one read; it *)
(* retries a bounded number of times.  Claims, renewals, releases and      *)
(* dispatches are single updates that match on lease fields and bump the   *)
(* revision.  A change by an owner also needs an unexpired lease, tested   *)
(* with the caller's clock before the write travels to the database.       *)
(***************************************************************************)
EXTENDS Naturals

CONSTANTS
    Importers, Requesters, Runs, Operators, BrandOf, Missing, Nobody,
    MaxRounds,   \* attempts of a change (30 in the code)
    LeaseTime,   \* length of a lease, in heartbeats
    MaxTime      \* bound: the clock stops here

ASSUME BoundsAssumption ==
    MaxRounds \in Nat \ {0} /\ LeaseTime \in Nat \ {0} /\ MaxTime \in Nat
ASSUME ClientsAssumption ==
    /\ Importers \cap (Requesters \cup Runs \cup Operators) = {}
    /\ Requesters \cap (Runs \cup Operators) = {}
    /\ Runs \cap Operators = {}
    /\ Nobody \notin Runs \cup Operators

Holders == Runs \cup Operators
Clients == Importers \cup Requesters \cup Holders
Failures == {"missing", "brand", "lost", "contended"}

VARIABLES
    doc,       \* the stored document, or Missing
    now,       \* the clock
    pc,        \* where each call stands
    rounds,    \* lost compare-and-set rounds of each change
    began,     \* history: the revision at a change's first read
    snapshot,  \* the document each change read last
    started,   \* startedWork: what a holder found when it claimed
    beat,      \* when each holder sent its last heartbeat
    beating,   \* the holders with a renewal under way
    answer     \* the outcome of each call

vars == <<doc, now, pc, rounds, began, snapshot, started, beat, beating,
          answer>>

Init ==
    /\ doc = Missing /\ now = 1
    /\ pc = [c \in Clients |-> IF c \in Requesters THEN "read" ELSE "idle"]
    /\ rounds = [c \in Clients |-> 0] /\ began = [c \in Clients |-> 0]
    /\ snapshot = [c \in Clients |-> Missing]
    /\ started = [h \in Holders |-> {}] /\ beat = [h \in Holders |-> 0]
    /\ beating = {}
    /\ answer = [c \in Clients |-> "open"]

Due == doc.requests \ doc.handled # {}

\* Every write increments the revision.
Bumped(d) == [d EXCEPT !.revision = @ + 1]

Goto(c, l) == pc' = [pc EXCEPT ![c] = l]

End(c, a) ==
    /\ pc' = [pc EXCEPT ![c] = "ended"]
    /\ answer' = [answer EXCEPT ![c] = a]
    /\ snapshot' = [snapshot EXCEPT ![c] = Missing]

\* initialise: an upsert that only inserts, a duplicate key ignored, and the
\* brand compared with the one saved (which no later write changes).
Initialise(c) ==
    /\ pc[c] = "idle"
    /\ doc' = IF doc # Missing THEN doc
              ELSE [brand |-> BrandOf[c], requests |-> {}, handled |-> {},
                    owner |-> Nobody, until |-> 0, dispatchUntil |-> 0,
                    revision |-> 0]
    /\ IF doc'.brand = BrandOf[c]
       THEN Goto(c, "read") /\ UNCHANGED <<snapshot, answer>>
       ELSE End(c, "brand")
    /\ UNCHANGED <<now, rounds, began, started, beat, beating>>

\* The first half of a round of change: get, the owner's test, and fn on the
\* copy; the filter's clock reading is that of the test.
Read(c) ==
    /\ pc[c] = "read"
    /\ IF doc = Missing THEN End(c, "missing") /\ UNCHANGED began
       ELSE /\ began' = [began EXCEPT ![c] = IF rounds[c] = 0 THEN doc.revision
                                                              ELSE @]
            /\ IF c \in Holders /\ (doc.owner # c \/ doc.until <= now)
               THEN End(c, "lost")
               ELSE /\ snapshot' = [snapshot EXCEPT ![c] = doc]
                    /\ Goto(c, "write") /\ UNCHANGED answer
    /\ UNCHANGED <<doc, now, rounds, started, beat, beating>>

\* For the type invariant's mutant: a run that counts itself as handled.
ChangedItself(c) ==
    IF c \in Runs
    THEN Bumped([snapshot[c] EXCEPT !.handled = @ \cup {c}])
    ELSE Bumped([snapshot[c] EXCEPT !.requests = @ \cup {c}])

\* fn: an import or a request adds work, a run reports what it started with.
Changed(c) ==
    IF c \in Runs
    THEN Bumped([snapshot[c] EXCEPT !.handled = @ \cup started[c]])
    ELSE Bumped([snapshot[c] EXCEPT !.requests = @ \cup {c}])

\* For mutants: a filter without the revision, or with fn's copy's revision.
MatchesAnyRevision(c) == c \in Holders => doc.owner = c
MatchesIncremented(c) == doc.revision = snapshot[c].revision + 1

\* The filter of replaceOne.  Its lease part compares with a time at which
\* the snapshot's lease was live, so it cannot fail if the revision matches.
Matches(c) == doc.revision = snapshot[c].revision

\* The second half: replaceOne under the filter, else another round.
Write(c) ==
    /\ pc[c] = "write"
    /\ IF Matches(c)
       THEN doc' = Changed(c) /\ End(c, "done") /\ UNCHANGED rounds
       ELSE /\ rounds' = [rounds EXCEPT ![c] = @ + 1]
            /\ IF rounds[c] + 1 = MaxRounds
               THEN End(c, "contended")
               ELSE Goto(c, "read") /\ UNCHANGED <<snapshot, answer>>
            /\ UNCHANGED doc
    /\ UNCHANGED <<now, began, started, beat, beating>>

\* claim, and the operator's lock, which asks for no due work.
Claim(h) ==
    /\ pc[h] = "idle" /\ doc # Missing
    /\ doc.until <= now
    /\ h \in Runs => Due
    /\ doc' = Bumped([doc EXCEPT !.owner = h, !.until = now + LeaseTime])
    /\ started' = [started EXCEPT ![h] = doc.requests]
    /\ beat' = [beat EXCEPT ![h] = now]
    /\ Goto(h, "read")
    /\ UNCHANGED <<now, rounds, began, snapshot, beating, answer>>

\* The heartbeat: one renewal at a time, its times read when it is sent.
SendRenew(r) ==
    /\ pc[r] \in {"read", "write"} /\ r \notin beating /\ beat[r] < now
    /\ beat' = [beat EXCEPT ![r] = now]
    /\ beating' = beating \cup {r}
    /\ UNCHANGED <<doc, now, pc, rounds, began, snapshot, started, answer>>

Renew(r) ==
    /\ r \in beating
    /\ beating' = beating \ {r}
    /\ doc' = IF doc.owner = r /\ doc.until > beat[r]
              THEN Bumped([doc EXCEPT !.until = beat[r] + LeaseTime])
              ELSE doc
    /\ UNCHANGED <<now, pc, rounds, began, snapshot, started, beat, answer>>

\* release: by owner alone, whether or not the lease has run out.
Release(h) ==
    /\ pc[h] = "ended"
    /\ doc' = IF doc.owner = h
              THEN Bumped([doc EXCEPT !.owner = Nobody, !.until = 0])
              ELSE doc
    /\ Goto(h, "gone")
    /\ UNCHANGED <<now, rounds, began, snapshot, started, beat, beating, answer>>

\* A process stops: its lease stays until it runs out.
Stop(h) ==
    /\ pc[h] \in {"read", "write", "ended"}
    /\ Goto(h, "gone")
    /\ beating' = beating \ {h}
    /\ UNCHANGED <<doc, now, rounds, began, snapshot, started, beat, answer>>

\* due and dispatchClaim: one delivery per cooldown.
DispatchClaim ==
    /\ doc # Missing /\ Due /\ doc.dispatchUntil <= now
    /\ doc' = Bumped([doc EXCEPT !.dispatchUntil = now + LeaseTime])
    /\ UNCHANGED <<now, pc, rounds, began, snapshot, started, beat, beating,
                   answer>>

Tick ==
    /\ now < MaxTime
    /\ now' = now + 1
    /\ UNCHANGED <<doc, pc, rounds, began, snapshot, started, beat, beating,
                   answer>>

Next ==
    \/ \E c \in Importers : Initialise(c)
    \/ \E c \in Clients : Read(c) \/ Write(c)
    \/ \E h \in Holders : Claim(h) \/ Release(h) \/ Stop(h)
    \/ \E r \in Runs : SendRenew(r) \/ Renew(r)
    \/ DispatchClaim
    \/ Tick

Spec == Init /\ [][Next]_vars

-----------------------------------------------------------------------------
Documents == [brand : {BrandOf[c] : c \in Importers}, requests : SUBSET Clients,
              handled : SUBSET Clients, owner : Holders \cup {Nobody},
              until : Nat, dispatchUntil : Nat, revision : Nat]

\* What the callers see of them.
Views == [brand : {BrandOf[c] : c \in Importers}, requests : SUBSET Clients,
          handled : SUBSET Clients, owner : Holders \cup {Nobody}]

ASSUME MissingAssumption == Missing \notin Documents \cup Views

\* Types; only work somebody asked for is ever handled.
TypeOK ==
    /\ doc \in Documents \cup {Missing} /\ now \in Nat
    /\ pc \in [Clients -> {"idle", "read", "write", "ended", "gone"}]
    /\ rounds \in [Clients -> Nat] /\ began \in [Clients -> Nat]
    /\ snapshot \in [Clients -> Documents \cup {Missing}]
    /\ started \in [Holders -> SUBSET Clients] /\ beat \in [Holders -> Nat]
    /\ beating \subseteq Runs
    /\ answer \in [Clients -> {"open", "done"} \cup Failures]
    /\ doc # Missing => doc.handled \subseteq doc.requests

(* Contention is real: a change loses a round only to a write that took    *)
(* effect since it began, so it gives up only after MaxRounds such writes. *)
ContentionIsReal ==
    \A c \in Clients :
        rounds[c] > 0 => doc.revision - began[c] >= rounds[c]

-----------------------------------------------------------------------------
(* The document without what the store alone needs.                        *)
View(d) == [brand |-> d.brand, requests |-> d.requests, handled |-> d.handled,
            owner |-> d.owner]

Promise == INSTANCE SyncDocument WITH
    document <- IF doc = Missing THEN Missing ELSE View(doc),
    lapsed <- doc = Missing \/ doc.until <= now

(* The store implements the atomic document: no update is lost or applied  *)
(* twice, failed calls leave no trace, and a holder that was replaced      *)
(* changes nothing, whatever is in flight.                                 *)
ImplementsDocument == Promise!Spec
=============================================================================
