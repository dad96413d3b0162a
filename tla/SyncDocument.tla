---------------------------- MODULE SyncDocument ----------------------------
(***************************************************************************)
(* What FigshareSyncStore promises to its callers, without revisions,      *)
(* retries or clocks: one document per record, to which every call applies *)
(* its whole effect once and at one instant, or fails and leaves no trace. *)
(* A lease holder's change takes effect only while nobody else has taken   *)
(* the document over; a holder may be replaced only once its lease lapsed. *)
(* Module SyncStore is shown to implement this specification.              *)
(***************************************************************************)
CONSTANTS
    Importers,   \* calls of importSource
    Requesters,  \* calls of change without an owner (request, cancel)
    Runs,        \* worker runs: claim, one change as the owner, release
    Operators,   \* operator commands: lock, one change as the owner, release
    BrandOf,     \* the brand each importer passes
    Missing,     \* no document yet
    Nobody       \* no lease owner

Holders == Runs \cup Operators
Clients == Importers \cup Requesters \cup Holders
Failures == {"missing", "brand", "lost", "contended"}

VARIABLES
    document,   \* [brand, requests, handled, owner] or Missing
    lapsed,     \* whether the lease of document.owner has run out
    started,    \* per holder, the requests it found when it took the document
    answer      \* per call: "open", "done" or how it failed

vars == <<document, lapsed, started, answer>>

Init ==
    /\ document = Missing /\ lapsed = TRUE
    /\ started = [h \in Holders |-> {}]
    /\ answer = [c \in Clients |-> "open"]

Due == document.requests \ document.handled # {}

Create(c) ==
    /\ document = Missing
    /\ document' = [brand |-> BrandOf[c], requests |-> {}, handled |-> {},
                    owner |-> Nobody]
    /\ UNCHANGED <<lapsed, started, answer>>

Answer(c, a) == answer[c] = "open" /\ answer' = [answer EXCEPT ![c] = a]

\* New work, by an importer, a requester or an operator that is the owner.
Request(c) ==
    /\ document # Missing
    /\ c \in Operators => document.owner = c
    /\ Answer(c, "done")
    /\ document' = [document EXCEPT !.requests = @ \cup {c}]
    /\ UNCHANGED <<lapsed, started>>

\* The owner reports as handled what it found when it took the document.
Finish(r) ==
    /\ document # Missing /\ document.owner = r
    /\ Answer(r, "done")
    /\ document' = [document EXCEPT !.handled = @ \cup started[r]]
    /\ UNCHANGED <<lapsed, started>>

Take(h) ==
    /\ document # Missing /\ lapsed
    /\ h \in Runs => Due
    /\ document' = [document EXCEPT !.owner = h]
    /\ lapsed' = FALSE
    /\ started' = [started EXCEPT ![h] = document.requests]
    /\ UNCHANGED answer

Lapse == ~lapsed /\ lapsed' = TRUE /\ UNCHANGED <<document, started, answer>>

Prolong(h) ==
    /\ document # Missing /\ document.owner = h
    /\ lapsed' = FALSE
    /\ UNCHANGED <<document, started, answer>>

Release(h) ==
    /\ document # Missing /\ document.owner = h
    /\ document' = [document EXCEPT !.owner = Nobody]
    /\ lapsed' = TRUE
    /\ UNCHANGED <<started, answer>>

Fail(c) ==
    /\ \E f \in Failures : Answer(c, f)
    /\ UNCHANGED <<document, lapsed, started>>

Next ==
    \/ \E c \in Importers : Create(c)
    \/ \E c \in Importers \cup Requesters \cup Operators : Request(c)
    \/ \E r \in Runs : Finish(r)
    \/ Lapse
    \/ \E h \in Holders : Take(h) \/ Prolong(h) \/ Release(h)
    \/ \E c \in Clients : Fail(c)

Spec == Init /\ [][Next]_vars
=============================================================================
