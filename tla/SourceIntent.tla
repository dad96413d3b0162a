---------------------------- MODULE SourceIntent ----------------------------
(***************************************************************************)
(* The durable source intent that a record save leaves for Figshare        *)
(* synchronisation, and its import into the synchronisation document.      *)
(*                                                                         *)
(* One record.  Each member of Saves is one call of RecordsService.create  *)
(* or updateMeta: it writes the record and its intent in one Mongo update, *)
(* runs the synchronous post-save hooks, and then readies or abandons the  *)
(* intent.  Importers are the dispatcher, the wake-up after a save and the *)
(* worker, which all run importRecordIntent on a snapshot of the record    *)
(* they read earlier.  Every Mongo update is one atomic step; everything   *)
(* between two updates may interleave, and every process may stop.         *)
(*                                                                         *)
(* Times are abstracted: `stale` holds the saves whose requestedAt is      *)
(* older than STALE_INITIALISING_MS.                                       *)
(***************************************************************************)
EXTENDS Naturals, FiniteSets

CONSTANTS
    Saves,        \* the save tokens: one per call of create / updateMeta
    Kinds,        \* the kinds of work a hook can request: sync, cleanup
    Importers     \* concurrent executions of importRecordIntent

VARIABLES
    intent,       \* record.figshareSyncIntent
    phase,        \* where each save is in RecordsService
    policies,     \* the kinds of work each save requests
    stale,        \* saves requested more than STALE_INITIALISING_MS ago
    importer,     \* per importer: its pc and the snapshot it works on
    sync,         \* the import side of the synchronisation document
    savedAt,      \* history: the generation each save was written with
    imported      \* history: the saves an effective import carried

vars == <<intent, phase, policies, stale, importer, sync, savedAt, imported>>

Readiness == {"none", "initialising", "ready", "abandoned"}
Phases == {"new", "hooks", "saved", "failed", "interrupted"}

Intents == [generation : Nat, pending : BOOLEAN, readiness : Readiness,
            saves : SUBSET Saves, ready : SUBSET Saves]

Snapshots == [pc : {"idle", "read", "imported"}, generation : Nat,
              saves : SUBSET Saves]

Idle == [pc |-> "idle", generation |-> 0, saves |-> {}]

-----------------------------------------------------------------------------
(* The Mongo updates of the intent.  `saves` is the merged list, `ready`   *)
(* the entries of it whose readiness is ready.                             *)

\* The saves that a new update merges with: none once the intent is imported.
PriorSaves(i) == IF i.pending THEN i.saves ELSE {}

\* Mutation: one ready save makes the merged intent ready.
DeriveFromAnySave(i) ==
    [generation |-> i.generation,
     pending |-> IF i.saves = {} THEN FALSE ELSE TRUE,
     readiness |-> IF i.saves = {} THEN "abandoned"
                   ELSE IF i.saves \cap i.ready # {} THEN "ready"
                   ELSE "initialising",
     saves |-> i.saves, ready |-> i.ready]

\* deriveFigshareIntent: readiness and pending follow from the merged saves.
Derive(i) ==
    [generation |-> i.generation,
     pending |-> IF i.saves = {} THEN FALSE ELSE TRUE,
     readiness |-> IF i.saves = {} THEN "abandoned"
                   ELSE IF i.saves \subseteq i.ready THEN "ready"
                   ELSE "initialising",
     saves |-> i.saves, ready |-> i.ready]

\* The intent part of storage create / updateMeta, in the record's own update.
MergeSave(i, s, initialising) ==
    Derive([generation |-> i.generation + 1, pending |-> TRUE,
            readiness |-> i.readiness,
            saves |-> PriorSaves(i) \cup {s},
            ready |-> (PriorSaves(i) \cap i.ready)
                         \cup IF initialising THEN {} ELSE {s}])

\* Mutation: the update does not look for the save in the merged list.
ReadyUnlistedSave(i, s) ==
    IF i.pending THEN Derive([i EXCEPT !.ready = @ \cup {s}]) ELSE i

\* Mutation: the save is readied without deriving the intent again.
ReadyWithoutDerive(i, s) ==
    IF i.pending /\ s \in i.saves THEN [i EXCEPT !.ready = @ \cup {s}] ELSE i

\* readyFigshareIntent; an intent that no longer holds the save is untouched.
ReadySave(i, s) ==
    IF i.pending /\ s \in i.saves
      THEN Derive([i EXCEPT !.ready = @ \cup {s}])
      ELSE i

\* abandonFigshareIntent drops one save that is still initialising.
AbandonSave(i, s) ==
    IF i.pending /\ s \in i.saves \ i.ready
      THEN Derive([i EXCEPT !.saves = @ \ {s}])
      ELSE i

\* recoverStaleFigshareIntents promotes the initialising saves that are old.
PromoteStale(i, old) == Derive([i EXCEPT !.ready = @ \cup (i.saves \cap old)])

\* Mutation: the acknowledgement does not match the generation.
AckAnyGeneration(i, g) ==
    IF i.readiness = "ready" THEN [i EXCEPT !.pending = FALSE] ELSE i

\* Mutation: an older imported generation acknowledges a newer intent.
AckLaterGeneration(i, g) ==
    IF i.generation >= g /\ i.readiness = "ready"
      THEN [i EXCEPT !.pending = FALSE]
      ELSE i

\* acknowledgeFigshareIntent, for the generation that was imported.
AckGeneration(i, g) ==
    IF i.generation = g /\ i.readiness = "ready"
      THEN [i EXCEPT !.pending = FALSE]
      ELSE i

-----------------------------------------------------------------------------
(* store.importSource: the compare-and-set on `revision` makes the read    *)
(* and the write of the document one step (module SyncStore models it).    *)

KindsOf(S) == UNION {policies[s] : s \in S}

\* The document after generation g, which asks for the given kinds of work.
WithGeneration(d, g, kinds) ==
    [importedGeneration |-> g,
     requested |-> [k \in Kinds |-> IF k \in kinds THEN d.requested[k] + 1
                                                    ELSE d.requested[k]],
     sourceGeneration |-> [k \in Kinds |-> IF k \in kinds THEN g
                                            ELSE d.sourceGeneration[k]]]

\* Mutation: importing the same generation twice requests the work twice.
ImportTwice(d, g, kinds) ==
    IF d.importedGeneration > g THEN d ELSE WithGeneration(d, g, kinds)

\* Mutation: a late importer is not recognised.
ImportUnguarded(d, g, kinds) == WithGeneration(d, g, kinds)

ImportGeneration(d, g, kinds) ==
    IF d.importedGeneration >= g THEN d ELSE WithGeneration(d, g, kinds)

-----------------------------------------------------------------------------
Init ==
    /\ intent = [generation |-> 0, pending |-> FALSE, readiness |-> "none",
                 saves |-> {}, ready |-> {}]
    /\ phase = [s \in Saves |-> "new"]
    /\ policies = [s \in Saves |-> {}]
    /\ stale = {}
    /\ importer = [i \in Importers |-> Idle]
    /\ sync = [importedGeneration |-> 0,
               requested |-> [k \in Kinds |-> 0],
               sourceGeneration |-> [k \in Kinds |-> 0]]
    /\ savedAt = [s \in Saves |-> 0]
    /\ imported = {}

\* The record and its intent are written.  Without synchronous post-save
\* hooks (an update) the intent is ready at once and nothing finalises it.
Persist(s, kinds, initialising) ==
    /\ phase[s] = "new"
    /\ phase' = [phase EXCEPT ![s] = IF initialising THEN "hooks" ELSE "saved"]
    /\ policies' = [policies EXCEPT ![s] = kinds]
    /\ intent' = MergeSave(intent, s, initialising)
    /\ savedAt' = [savedAt EXCEPT ![s] = intent.generation + 1]
    /\ UNCHANGED <<stale, importer, sync, imported>>

\* The post-save hooks succeeded: the save readies its intent.
FinishSave(s) ==
    /\ phase[s] = "hooks"
    /\ phase' = [phase EXCEPT ![s] = "saved"]
    /\ intent' = ReadySave(intent, s)
    /\ UNCHANGED <<policies, stale, importer, sync, savedAt, imported>>

\* A post-save hook or a secondary write failed: the finally block abandons.
FailSave(s) ==
    /\ phase[s] = "hooks"
    /\ phase' = [phase EXCEPT ![s] = "failed"]
    /\ intent' = AbandonSave(intent, s)
    /\ UNCHANGED <<policies, stale, importer, sync, savedAt, imported>>

\* The save failed and the abandoning update failed too; the error is caught
\* and logged, and the intent stays initialising.
FailSaveUnabandoned(s) ==
    /\ phase[s] = "hooks"
    /\ phase' = [phase EXCEPT ![s] = "failed"]
    /\ UNCHANGED <<intent, policies, stale, importer, sync, savedAt, imported>>

\* The process stops between the write and the readying or abandoning.
InterruptSave(s) ==
    /\ phase[s] = "hooks"
    /\ phase' = [phase EXCEPT ![s] = "interrupted"]
    /\ UNCHANGED <<intent, policies, stale, importer, sync, savedAt, imported>>

\* Time passes: the entry of the save becomes older than the threshold.  The
\* age of an entry is only ever read while the entry is initialising.
Age(s) ==
    /\ intent.pending /\ s \in intent.saves \ intent.ready
    /\ s \notin stale
    /\ stale' = stale \cup {s}
    /\ UNCHANGED <<intent, phase, policies, importer, sync, savedAt, imported>>

\* dispatchFigshare begins with the recovery of stale intents.
RecoverStale ==
    /\ intent.pending /\ intent.readiness = "initialising"
    /\ (intent.saves \ intent.ready) \cap stale # {}
    /\ intent' = PromoteStale(intent, stale)
    /\ UNCHANGED <<phase, policies, stale, importer, sync, savedAt, imported>>

\* The importer reads the record; only a pending, ready intent is imported.
ReadRecord(i) ==
    /\ importer[i].pc = "idle"
    /\ intent.pending /\ intent.readiness = "ready"
    /\ importer' = [importer EXCEPT ![i] =
          [pc |-> "read", generation |-> intent.generation,
           saves |-> intent.saves]]
    /\ UNCHANGED <<intent, phase, policies, stale, sync, savedAt, imported>>

ImportSource(i) ==
    LET snap == importer[i]
    IN  /\ snap.pc = "read"
        /\ sync' = ImportGeneration(sync, snap.generation, KindsOf(snap.saves))
        /\ imported' = imported \cup (IF sync.importedGeneration >= snap.generation
                                       THEN {} ELSE snap.saves)
        /\ importer' = [importer EXCEPT ![i].pc = "imported"]
        /\ UNCHANGED <<intent, phase, policies, stale, savedAt>>

Acknowledge(i) ==
    /\ importer[i].pc = "imported"
    /\ intent' = AckGeneration(intent, importer[i].generation)
    /\ importer' = [importer EXCEPT ![i] = Idle]
    /\ UNCHANGED <<phase, policies, stale, sync, savedAt, imported>>

\* The importer stops, or importSource throws after 30 lost revisions.
StopImport(i) ==
    /\ importer[i].pc # "idle"
    /\ importer' = [importer EXCEPT ![i] = Idle]
    /\ UNCHANGED <<intent, phase, policies, stale, sync, savedAt, imported>>

SaveStep(s) ==
    \/ \E kinds \in SUBSET Kinds, b \in BOOLEAN : Persist(s, kinds, b)
    \/ FinishSave(s)
    \/ FailSave(s)
    \/ FailSaveUnabandoned(s)
    \/ InterruptSave(s)
    \/ Age(s)

ImportStep(i) ==
    \/ ReadRecord(i)
    \/ ImportSource(i)
    \/ Acknowledge(i)
    \/ StopImport(i)

Next ==
    \/ \E s \in Saves : SaveStep(s)
    \/ RecoverStale
    \/ \E i \in Importers : ImportStep(i)

Spec == Init /\ [][Next]_vars

(* The dispatcher is a recurring job: it keeps recovering stale intents    *)
(* and reading pending ones, and a job that is retried for ever eventually *)
(* gets past each step.  Time passes.  Nothing is assumed of the saves.    *)
FairSpec ==
    /\ Spec
    /\ \A s \in Saves : WF_vars(Age(s))
    /\ WF_vars(RecoverStale)
    /\ \A i \in Importers : /\ WF_vars(ReadRecord(i))
                            /\ SF_vars(ImportSource(i))
                            /\ SF_vars(Acknowledge(i))

-----------------------------------------------------------------------------
(* Types; the ready entries of the intent are entries of its merged list.  *)
TypeOK ==
    /\ intent \in Intents
    /\ intent.ready \subseteq intent.saves
    /\ phase \in [Saves -> Phases]
    /\ policies \in [Saves -> SUBSET Kinds]
    /\ stale \subseteq Saves
    /\ importer \in [Importers -> Snapshots]
    /\ sync \in [importedGeneration : Nat, requested : [Kinds -> Nat],
                 sourceGeneration : [Kinds -> Nat]]
    /\ savedAt \in [Saves -> Nat]
    /\ imported \subseteq Saves

\* The work that save s asked for is in the synchronisation document.
Requested(s) ==
    \A k \in policies[s] : sync.sourceGeneration[k] >= savedAt[s]

(* No save is lost: whatever the interleaving of saves, importers and      *)
(* recovery, a written save that did not fail is in the pending intent or  *)
(* its work has been requested at its generation or a later one.  This is  *)
(* what importRecordIntent's order (import, then acknowledge the imported  *)
(* generation) is for.                                                     *)
SavesAreCarried ==
    \A s \in Saves : phase[s] \in {"hooks", "saved", "interrupted"} =>
        (intent.pending /\ s \in intent.saves) \/ Requested(s)

(* A save's work is requested only if its hooks succeeded or its intent    *)
(* went stale: merging several saves never lets the ready ones carry one   *)
(* that is still running its hooks into an import.                         *)
ImportsOnlySettledSaves ==
    \A s \in imported : phase[s] = "saved" \/ s \in stale

(* Acknowledgement never outruns the import: an intent that is ready and   *)
(* no longer pending has its own generation in the document.               *)
AcknowledgedIsImported ==
    intent.readiness = "ready" /\ ~intent.pending
        => sync.importedGeneration = intent.generation

(* Duplicate deliveries coalesce: an imported generation adds at most one  *)
(* request of each kind, however many importers carry it.                  *)
OneRequestPerGeneration ==
    \A k \in Kinds : sync.requested[k] <= sync.importedGeneration

(* A late importer never takes the document back to an older generation,   *)
(* neither the import mark nor the generation the work is attributed to.   *)
ImportsNeverRegress ==
    [][/\ sync.importedGeneration' >= sync.importedGeneration
       /\ \A k \in Kinds :
             sync.sourceGeneration'[k] >= sync.sourceGeneration[k]]_vars

(* Every written save that does not fail has its work requested in the     *)
(* end, even if its process stopped before it readied the intent.          *)
SavesAreEventuallyRequested ==
    \A s \in Saves :
        phase[s] \in {"saved", "interrupted"} ~> Requested(s)
=============================================================================
