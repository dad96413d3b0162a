------------------------- MODULE SourceIntentProofs -------------------------
(***************************************************************************)
(* Theorems of SourceIntent, for every set of saves, kinds and importers.  *)
(* IndInv is inductive; the safety properties of the module follow.        *)
(***************************************************************************)
EXTENDS SourceIntent, TLAPS

-----------------------------------------------------------------------------
(* The inductive invariant.                                                *)

Live(s) == phase[s] \in {"hooks", "saved", "interrupted"}
Settled(s) == phase[s] = "saved" \/ s \in stale

\* Readiness and pending agree with the merged saves.
IntentConsistent ==
    /\ intent.pending => /\ intent.saves # {}
                         /\ intent.readiness =
                              IF intent.saves \subseteq intent.ready
                                THEN "ready" ELSE "initialising"
    /\ intent.readiness = "initialising" => intent.pending
    /\ \A s \in intent.ready : Settled(s)

\* The document lags behind the record, and each kind behind the document.
GenerationsOrdered ==
    /\ sync.importedGeneration <= intent.generation
    /\ \A k \in Kinds : sync.sourceGeneration[k] <= sync.importedGeneration
    /\ \A s \in Saves : savedAt[s] <= intent.generation

\* Whatever was written up to the imported generation has been requested.
ImportedIsRequested ==
    \A s \in Saves :
        Live(s) /\ savedAt[s] <= sync.importedGeneration => Requested(s)

\* A snapshot carries what was written up to it and not requested since; it
\* is settled; at its own generation the intent can only be acknowledged.
SnapshotOK(i) ==
    LET snap == importer[i]
    IN  snap.pc # "idle" =>
          /\ snap.generation <= intent.generation
          /\ \A s \in snap.saves : Settled(s)
          /\ \A s \in Saves : Live(s) /\ savedAt[s] <= snap.generation
                               => s \in snap.saves \/ Requested(s)
          /\ snap.generation = intent.generation => intent.readiness = "ready"
          /\ snap.pc = "imported" =>
                snap.generation <= sync.importedGeneration

IndInv ==
    /\ TypeOK
    /\ IntentConsistent
    /\ GenerationsOrdered
    /\ ImportedIsRequested
    /\ \A i \in Importers : SnapshotOK(i)
    /\ SavesAreCarried
    /\ ImportsOnlySettledSaves
    /\ AcknowledgedIsImported
    /\ OneRequestPerGeneration

-----------------------------------------------------------------------------

(* What the document holds after an import: the mark is the later of the   *)
(* two generations, and each kind keeps its generation or takes the new.   *)
LEMMA ImportGenerationFacts ==
    ASSUME NEW d, NEW g \in Nat, NEW kinds \in SUBSET Kinds,
           d \in [importedGeneration : Nat, requested : [Kinds -> Nat],
                  sourceGeneration : [Kinds -> Nat]],
           \A k \in Kinds : d.sourceGeneration[k] <= d.importedGeneration
    PROVE  LET e == ImportGeneration(d, g, kinds)
           IN  /\ e \in [importedGeneration : Nat, requested : [Kinds -> Nat],
                         sourceGeneration : [Kinds -> Nat]]
               /\ e.importedGeneration >= d.importedGeneration
               /\ e.importedGeneration >= g
               /\ e.importedGeneration \in {d.importedGeneration, g}
               /\ \A k \in Kinds :
                     /\ e.sourceGeneration[k] <= e.importedGeneration
                     /\ e.sourceGeneration[k] >= d.sourceGeneration[k]
                     /\ e.requested[k] - d.requested[k]
                           <= e.importedGeneration - d.importedGeneration
               /\ e.importedGeneration # d.importedGeneration =>
                     \A k \in kinds : e.sourceGeneration[k] = g
  <1>1. CASE d.importedGeneration >= g
    BY <1>1 DEF ImportGeneration
  <1>2. CASE ~(d.importedGeneration >= g)
    BY <1>2 DEF ImportGeneration, WithGeneration
  <1> QED  BY <1>1, <1>2

(* The fields of a derived intent.                                         *)
LEMMA DeriveFacts ==
    ASSUME NEW i \in Intents
    PROVE  /\ Derive(i) \in Intents
           /\ Derive(i).generation = i.generation
           /\ Derive(i).saves = i.saves
           /\ Derive(i).ready = i.ready
           /\ Derive(i).pending <=> i.saves # {}
           /\ Derive(i).readiness = IF i.saves = {} THEN "abandoned"
                                    ELSE IF i.saves \subseteq i.ready
                                      THEN "ready" ELSE "initialising"
  BY DEF Derive, Intents, Readiness

(* The initial state, before any save of the record.                       *)
LEMMA InitIndInv == Init => IndInv
  BY SMTT(30) DEF Init, IndInv, TypeOK, Intents, Readiness, Phases, Snapshots, Idle,
     IntentConsistent, GenerationsOrdered, ImportedIsRequested, SnapshotOK,
     SavesAreCarried, ImportsOnlySettledSaves, AcknowledgedIsImported,
     OneRequestPerGeneration, Requested, Live, Settled

(* A save of the record: the new entry joins the pending ones, and what is *)
(* no longer pending has been requested already.                           *)
LEMMA PersistIndInv ==
    ASSUME IndInv, NEW s \in Saves, NEW kinds \in SUBSET Kinds,
           NEW b \in BOOLEAN, Persist(s, kinds, b)
    PROVE  IndInv'
  <1> USE DEF IndInv, Live, Settled, Requested
  <1>1. /\ intent'.generation = intent.generation + 1
        /\ intent'.pending
        /\ intent'.saves = PriorSaves(intent) \cup {s}
        /\ intent'.ready = (PriorSaves(intent) \cap intent.ready)
                             \cup IF b THEN {} ELSE {s}
        /\ intent'.readiness = IF intent'.saves \subseteq intent'.ready
                                 THEN "ready" ELSE "initialising"
        /\ intent' \in Intents
    <2> DEFINE m == [generation |-> intent.generation + 1, pending |-> TRUE,
                     readiness |-> intent.readiness,
                     saves |-> PriorSaves(intent) \cup {s},
                     ready |-> (PriorSaves(intent) \cap intent.ready)
                                  \cup IF b THEN {} ELSE {s}]
    <2>1. m \in Intents
      BY DEF TypeOK, Intents, PriorSaves
    <2>2. intent' = Derive(m)
      BY DEF Persist, MergeSave
    <2> QED  BY <2>1, <2>2, DeriveFacts
  <1>2. TypeOK'
    <2>1. intent' \in Intents /\ intent'.ready \subseteq intent'.saves
      BY <1>1 DEF PriorSaves
    <2>2. savedAt' \in [Saves -> Nat]
      BY DEF Persist, TypeOK, Intents
    <2>3. phase' \in [Saves -> Phases] /\ policies' \in [Saves -> SUBSET Kinds]
      BY DEF Persist, TypeOK, Phases
    <2> QED  BY <2>1, <2>2, <2>3 DEF Persist, TypeOK
  <1>3. IntentConsistent'
    BY <1>1 DEF Persist, TypeOK, IntentConsistent, PriorSaves, Phases
  <1>4. GenerationsOrdered'
    BY <1>1 DEF Persist, TypeOK, GenerationsOrdered, Intents
  <1>5. ImportedIsRequested'
    BY <1>1 DEF Persist, TypeOK, Intents, GenerationsOrdered, ImportedIsRequested, Phases
  <1>6. \A i \in Importers : SnapshotOK(i)'
    BY <1>1 DEF Persist, TypeOK, Intents, Snapshots, GenerationsOrdered, SnapshotOK, Phases
  <1>7. SavesAreCarried'
    BY <1>1 DEF Persist, TypeOK, PriorSaves, SavesAreCarried, Phases
  <1>8. ImportsOnlySettledSaves' /\ AcknowledgedIsImported' /\ OneRequestPerGeneration'
    BY <1>1 DEF Persist, TypeOK, ImportsOnlySettledSaves, AcknowledgedIsImported,
       OneRequestPerGeneration, Phases
  <1> QED  BY <1>2, <1>3, <1>4, <1>5, <1>6, <1>7, <1>8

(* The save readies its entry; an intent without it stays as it is.        *)
LEMMA FinishSaveIndInv ==
    ASSUME IndInv, NEW s \in Saves, FinishSave(s)
    PROVE  IndInv'
  <1> USE DEF IndInv, Live, Settled, Requested
  <1>1. /\ intent' \in Intents
        /\ intent'.generation = intent.generation
        /\ intent'.saves = intent.saves
        /\ intent'.ready \subseteq intent'.saves
        /\ intent.ready \subseteq intent'.ready
        /\ intent'.ready \subseteq intent.ready \cup {s}
        /\ intent'.pending <=> intent.pending
        /\ intent.pending => intent'.readiness = IF intent'.saves \subseteq intent'.ready
                                                 THEN "ready" ELSE "initialising"
        /\ ~intent.pending => intent' = intent
    <2>1. CASE intent.pending /\ s \in intent.saves
      <3> DEFINE m == [intent EXCEPT !.ready = @ \cup {s}]
      <3>1. m \in Intents
        BY DEF TypeOK, Intents
      <3>2. intent' = Derive(m)
        BY <2>1 DEF FinishSave, ReadySave
      <3>3. /\ m.generation = intent.generation /\ m.saves = intent.saves
            /\ m.ready = intent.ready \cup {s}
        BY DEF TypeOK, Intents
      <3> QED  BY <2>1, <3>1, <3>2, <3>3, DeriveFacts DEF TypeOK, IntentConsistent
    <2>2. CASE ~(intent.pending /\ s \in intent.saves)
      BY <2>2 DEF FinishSave, ReadySave, TypeOK, IntentConsistent
    <2> QED  BY <2>1, <2>2
  <1>2. TypeOK'
    BY <1>1 DEF FinishSave, TypeOK, Phases
  <1>3. IntentConsistent'
    BY <1>1 DEF FinishSave, TypeOK, IntentConsistent, Phases
  <1>4. GenerationsOrdered' /\ ImportedIsRequested'
    BY <1>1 DEF FinishSave, TypeOK, GenerationsOrdered, ImportedIsRequested, Phases
  <1>5. \A i \in Importers : SnapshotOK(i)'
    BY <1>1 DEF FinishSave, TypeOK, Snapshots, SnapshotOK, IntentConsistent, Phases
  <1>6. SavesAreCarried'
    BY <1>1 DEF FinishSave, TypeOK, SavesAreCarried, Phases
  <1>7. ImportsOnlySettledSaves' /\ AcknowledgedIsImported' /\ OneRequestPerGeneration'
    BY <1>1 DEF FinishSave, TypeOK, ImportsOnlySettledSaves, AcknowledgedIsImported,
       OneRequestPerGeneration, Phases
  <1> QED  BY <1>2, <1>3, <1>4, <1>5, <1>6, <1>7

(* The failed save drops its own entry, if it is still initialising.       *)
LEMMA FailSaveIndInv ==
    ASSUME IndInv, NEW s \in Saves, FailSave(s)
    PROVE  IndInv'
  <1> USE DEF IndInv, Live, Settled, Requested
  <1>1. /\ intent' \in Intents
        /\ intent'.generation = intent.generation
        /\ intent'.ready = intent.ready
        /\ intent'.ready \subseteq intent'.saves
        /\ intent.saves \ {s} \subseteq intent'.saves
        /\ intent'.saves \subseteq intent.saves
        /\ intent'.pending => intent.pending
        /\ intent.pending /\ ~intent'.pending =>
              intent'.saves = {} /\ intent'.readiness = "abandoned"
        /\ intent'.pending => intent'.saves # {}
        /\ intent'.pending => intent'.readiness = IF intent'.saves \subseteq intent'.ready
                                                  THEN "ready" ELSE "initialising"
        /\ ~intent.pending => intent' = intent
        /\ intent.readiness = "ready" => intent' = intent
    <2>1. CASE intent.pending /\ s \in intent.saves \ intent.ready
      <3> DEFINE m == [intent EXCEPT !.saves = @ \ {s}]
      <3>1. m \in Intents
        BY DEF TypeOK, Intents
      <3>2. intent' = Derive(m)
        BY <2>1 DEF FailSave, AbandonSave
      <3>3. /\ m.generation = intent.generation /\ m.ready = intent.ready
            /\ m.saves = intent.saves \ {s}
        BY DEF TypeOK, Intents
      <3>4. intent.readiness # "ready"
        BY <2>1 DEF IntentConsistent
      <3>5. intent.ready \subseteq intent.saves \ {s}
        BY <2>1 DEF TypeOK
      <3> HIDE DEF m
      <3> QED  BY <2>1, <3>1, <3>2, <3>3, <3>4, <3>5, DeriveFacts
    <2>2. CASE ~(intent.pending /\ s \in intent.saves \ intent.ready)
      BY <2>2 DEF FailSave, AbandonSave, TypeOK, IntentConsistent
    <2> QED  BY <2>1, <2>2
  <1>2. TypeOK'
    BY <1>1 DEF FailSave, TypeOK, Phases
  <1>3. IntentConsistent'
    BY <1>1 DEF FailSave, TypeOK, IntentConsistent, Phases
  <1>4. GenerationsOrdered' /\ ImportedIsRequested'
    BY <1>1 DEF FailSave, TypeOK, GenerationsOrdered, ImportedIsRequested, Phases
  <1>5. \A i \in Importers : SnapshotOK(i)'
    BY <1>1 DEF FailSave, TypeOK, Snapshots, SnapshotOK, Phases
  <1>6. SavesAreCarried'
    BY <1>1 DEF FailSave, TypeOK, SavesAreCarried, Phases
  <1>7. ImportsOnlySettledSaves' /\ AcknowledgedIsImported' /\ OneRequestPerGeneration'
    BY <1>1 DEF FailSave, TypeOK, ImportsOnlySettledSaves, AcknowledgedIsImported,
       OneRequestPerGeneration, Phases
  <1> QED  BY <1>2, <1>3, <1>4, <1>5, <1>6, <1>7

(* The promotion of stale entries: each promoted entry is stale.           *)
LEMMA RecoverStaleIndInv ==
    ASSUME IndInv, RecoverStale
    PROVE  IndInv'
  <1> USE DEF IndInv, Live, Settled, Requested
  <1>1. /\ intent' \in Intents
        /\ intent'.generation = intent.generation
        /\ intent'.saves = intent.saves
        /\ intent'.ready = intent.ready \cup (intent.saves \cap stale)
        /\ intent'.saves # {} /\ intent'.pending
        /\ intent'.readiness = IF intent'.saves \subseteq intent'.ready
                                 THEN "ready" ELSE "initialising"
    <2> DEFINE m == [intent EXCEPT !.ready = @ \cup (intent.saves \cap stale)]
    <2>1. m \in Intents
      BY DEF TypeOK, Intents
    <2>2. intent' = Derive(m)
      BY DEF RecoverStale, PromoteStale
    <2>3. /\ m.generation = intent.generation /\ m.saves = intent.saves
          /\ m.ready = intent.ready \cup (intent.saves \cap stale)
      BY DEF TypeOK, Intents
    <2>4. intent.saves # {}
      BY DEF RecoverStale
    <2> HIDE DEF m
    <2> QED  BY <2>1, <2>2, <2>3, <2>4, DeriveFacts
  <1>2. TypeOK'
    BY <1>1 DEF RecoverStale, TypeOK
  <1>3. IntentConsistent'
    BY <1>1 DEF RecoverStale, TypeOK, IntentConsistent
  <1>4. GenerationsOrdered' /\ ImportedIsRequested'
    BY <1>1 DEF RecoverStale, GenerationsOrdered, ImportedIsRequested
  <1>5. \A i \in Importers : SnapshotOK(i)'
    BY <1>1 DEF RecoverStale, SnapshotOK
  <1>6. SavesAreCarried'
    BY <1>1 DEF RecoverStale, SavesAreCarried
  <1>7. ImportsOnlySettledSaves' /\ AcknowledgedIsImported' /\ OneRequestPerGeneration'
    BY <1>1 DEF RecoverStale, ImportsOnlySettledSaves, AcknowledgedIsImported,
       OneRequestPerGeneration
  <1> QED  BY <1>2, <1>3, <1>4, <1>5, <1>6, <1>7

(* The steps of a save that leave the intent alone.                        *)
LEMMA SilentSaveIndInv ==
    ASSUME IndInv, NEW s \in Saves,
           FailSaveUnabandoned(s) \/ InterruptSave(s) \/ Age(s)
    PROVE  IndInv'
  <1> USE DEF IndInv, Live, Settled, Requested, FailSaveUnabandoned, InterruptSave, Age
  <1>1. /\ UNCHANGED <<intent, policies, importer, sync, savedAt, imported>>
        /\ stale \subseteq stale' /\ stale' \subseteq Saves
        /\ phase' \in [Saves -> Phases]
        /\ \A t \in Saves : phase[t] = "saved" => phase'[t] = "saved"
        /\ \A t \in Saves : Live(t)' => Live(t)
    BY DEF TypeOK, Phases
  <1> HIDE DEF FailSaveUnabandoned, InterruptSave, Age
  <1>2. TypeOK'
    BY <1>1 DEF TypeOK
  <1>3. IntentConsistent'
    <2>1. \A t \in intent.ready : Settled(t)'
      BY <1>1 DEF IntentConsistent, TypeOK, Intents
    <2> QED  BY <1>1, <2>1 DEF IntentConsistent
  <1>4. GenerationsOrdered' /\ ImportedIsRequested' /\ SavesAreCarried'
    BY <1>1 DEF GenerationsOrdered, ImportedIsRequested, SavesAreCarried
  <1>5. \A i \in Importers : SnapshotOK(i)'
    BY <1>1 DEF SnapshotOK, TypeOK, Snapshots
  <1>6. ImportsOnlySettledSaves' /\ AcknowledgedIsImported' /\ OneRequestPerGeneration'
    BY <1>1 DEF ImportsOnlySettledSaves, AcknowledgedIsImported,
       OneRequestPerGeneration, TypeOK
  <1> QED  BY <1>2, <1>3, <1>4, <1>5, <1>6

(* An importer takes its snapshot, or gives up.                            *)
LEMMA SnapshotIndInv ==
    ASSUME IndInv, NEW i \in Importers, ReadRecord(i) \/ StopImport(i)
    PROVE  IndInv'
  <1> USE DEF IndInv, Live, Settled, Requested
  <1>1. UNCHANGED <<intent, phase, policies, stale, sync, savedAt, imported>>
    BY DEF ReadRecord, StopImport
  <1>2. importer' \in [Importers -> Snapshots]
    BY DEF ReadRecord, StopImport, TypeOK, Intents, Snapshots, Idle
  <1>3. \A j \in Importers : SnapshotOK(j)'
    <2> SUFFICES ASSUME NEW j \in Importers PROVE SnapshotOK(j)'
      OBVIOUS
    <2>1. CASE j # i
      BY <1>1, <2>1 DEF ReadRecord, StopImport, TypeOK, SnapshotOK
    <2>2. CASE j = i /\ StopImport(i)
      BY <1>1, <2>2 DEF StopImport, TypeOK, SnapshotOK, Idle
    <2>3. CASE j = i /\ ReadRecord(i)
      <3>1. importer'[i] = [pc |-> "read", generation |-> intent.generation,
                            saves |-> intent.saves]
        BY <2>3 DEF ReadRecord, TypeOK
      <3>2. \A s \in intent.saves : Settled(s)
        BY <2>3 DEF ReadRecord, IntentConsistent
      <3>3. \A s \in Saves : Live(s) => s \in intent.saves \/ Requested(s)
        BY DEF SavesAreCarried
      <3> QED  BY <1>1, <2>3, <3>1, <3>2, <3>3 DEF ReadRecord, TypeOK, Intents, SnapshotOK
    <2> QED  BY <2>1, <2>2, <2>3
  <1>4. TypeOK' /\ IntentConsistent' /\ GenerationsOrdered'
    BY <1>1, <1>2 DEF TypeOK, IntentConsistent, GenerationsOrdered
  <1>5. ImportedIsRequested' /\ SavesAreCarried'
    BY <1>1 DEF ImportedIsRequested, SavesAreCarried
  <1>6. ImportsOnlySettledSaves' /\ AcknowledgedIsImported' /\ OneRequestPerGeneration'
    BY <1>1 DEF ImportsOnlySettledSaves, AcknowledgedIsImported, OneRequestPerGeneration
  <1> QED  BY <1>3, <1>4, <1>5, <1>6

(* An import: what was written up to the snapshot is requested after it,   *)
(* because the snapshot carries it or an earlier import did.               *)
LEMMA ImportSourceIndInv ==
    ASSUME IndInv, NEW i \in Importers, ImportSource(i)
    PROVE  /\ IndInv'
           /\ sync'.importedGeneration >= sync.importedGeneration
           /\ \A k \in Kinds : sync'.sourceGeneration[k] >= sync.sourceGeneration[k]
  <1> USE DEF IndInv, Live, Settled
  <1> DEFINE g == importer[i].generation
             kinds == KindsOf(importer[i].saves)
  <1>1. importer[i] \in Snapshots /\ g \in Nat /\ g <= intent.generation
        /\ importer[i].pc = "read"
    BY DEF ImportSource, TypeOK, Snapshots, SnapshotOK
  <1>2. kinds \in SUBSET Kinds
    BY <1>1 DEF KindsOf, TypeOK, Snapshots
  <1>3. /\ sync' = ImportGeneration(sync, g, kinds)
        /\ UNCHANGED <<intent, phase, policies, stale, savedAt>>
        /\ importer' = [importer EXCEPT ![i].pc = "imported"]
        /\ imported' \subseteq imported \cup importer[i].saves
    BY DEF ImportSource
  <1>4. /\ sync' \in [importedGeneration : Nat, requested : [Kinds -> Nat],
                       sourceGeneration : [Kinds -> Nat]]
        /\ sync'.importedGeneration >= sync.importedGeneration
        /\ sync'.importedGeneration >= g
        /\ sync'.importedGeneration \in {sync.importedGeneration, g}
        /\ \A k \in Kinds :
              /\ sync'.sourceGeneration[k] <= sync'.importedGeneration
              /\ sync'.sourceGeneration[k] >= sync.sourceGeneration[k]
              /\ sync'.requested[k] - sync.requested[k]
                    <= sync'.importedGeneration - sync.importedGeneration
        /\ sync'.importedGeneration # sync.importedGeneration =>
              \A k \in kinds : sync'.sourceGeneration[k] = g
    <2>1. /\ sync \in [importedGeneration : Nat, requested : [Kinds -> Nat],
                        sourceGeneration : [Kinds -> Nat]]
          /\ \A k \in Kinds : sync.sourceGeneration[k] <= sync.importedGeneration
      BY DEF TypeOK, GenerationsOrdered
    <2> HIDE DEF g, kinds
    <2> QED  BY <1>1, <1>2, <1>3, <2>1, ImportGenerationFacts
  <1>5. \A s \in Saves : Requested(s) => Requested(s)'
    BY <1>3, <1>4 DEF Requested, TypeOK
  <1>6. /\ importer' \in [Importers -> Snapshots]
        /\ \A j \in Importers : /\ importer'[j].generation = importer[j].generation
                                /\ importer'[j].saves = importer[j].saves
        /\ \A j \in Importers \ {i} : importer'[j] = importer[j]
    BY <1>1, <1>3 DEF TypeOK, Snapshots
  <1>7. TypeOK'
    <2>1. imported' \subseteq Saves
      BY <1>1, <1>3 DEF TypeOK, Snapshots
    <2> QED  BY <1>3, <1>4, <1>6, <2>1 DEF TypeOK
  <1>8. IntentConsistent' /\ GenerationsOrdered'
    BY <1>1, <1>3, <1>4 DEF IntentConsistent, GenerationsOrdered, TypeOK, Intents
  <1>9. ImportedIsRequested'
    <2> SUFFICES ASSUME NEW s \in Saves, Live(s),
                        savedAt[s] <= sync'.importedGeneration
                 PROVE  Requested(s)'
      BY <1>3 DEF ImportedIsRequested
    <2>1. CASE sync'.importedGeneration = sync.importedGeneration
      BY <1>5, <2>1 DEF ImportedIsRequested
    <2>2. CASE sync'.importedGeneration # sync.importedGeneration
      <3>1. sync'.importedGeneration = g
        BY <1>4, <2>2
      <3>2. s \in importer[i].saves \/ Requested(s)
        BY <1>1, <3>1 DEF SnapshotOK
      <3>3. CASE Requested(s)
        BY <1>5, <3>3
      <3>4. CASE s \in importer[i].saves
        <4>1. policies[s] \subseteq kinds
          BY <3>4 DEF KindsOf
        <4>2. \A k \in policies[s] : sync'.sourceGeneration[k] = g
          BY <1>4, <2>2, <4>1
        <4> QED  BY <1>1, <1>3, <3>1, <4>2 DEF Requested, TypeOK
      <3> QED  BY <3>2, <3>3, <3>4
    <2> QED  BY <2>1, <2>2
  <1>10. \A j \in Importers : SnapshotOK(j)'
    <2> SUFFICES ASSUME NEW j \in Importers, importer'[j].pc # "idle"
                 PROVE  SnapshotOK(j)'
      BY DEF SnapshotOK
    <2>1. importer[j].pc # "idle"
      <3>1. CASE j = i
        BY <1>1, <3>1
      <3>2. CASE j # i
        BY <1>6, <3>2
      <3> QED  BY <3>1, <3>2
    <2>2. importer'[j].pc = "imported" =>
             importer'[j].generation <= sync'.importedGeneration
      <3>1. CASE j = i
        BY <1>4, <1>6, <3>1
      <3>2. CASE j # i
        <4>1. importer'[j] = importer[j] /\ importer[j] \in Snapshots
          BY <1>6, <3>2 DEF TypeOK
        <4> QED  BY <1>4, <4>1, <2>1 DEF SnapshotOK, TypeOK, Snapshots
      <3> QED  BY <3>1, <3>2
    <2> QED  BY <1>3, <1>5, <1>6, <2>1, <2>2 DEF SnapshotOK
  <1>11. SavesAreCarried'
    BY <1>3, <1>5 DEF SavesAreCarried
  <1>12. ImportsOnlySettledSaves'
    BY <1>1, <1>3 DEF ImportsOnlySettledSaves, SnapshotOK, TypeOK, Snapshots
  <1>13. AcknowledgedIsImported'
    BY <1>1, <1>3, <1>4 DEF AcknowledgedIsImported, TypeOK, Intents
  <1>14. OneRequestPerGeneration'
    BY <1>4 DEF OneRequestPerGeneration, TypeOK
  <1> QED  BY <1>4, <1>7, <1>8, <1>9, <1>10, <1>11, <1>12, <1>13, <1>14

(* An acknowledgement that takes effect names the intent's own generation, *)
(* and everything written up to it has been requested.                     *)
LEMMA AcknowledgeIndInv ==
    ASSUME IndInv, NEW i \in Importers, Acknowledge(i)
    PROVE  IndInv'
  <1> USE DEF IndInv, Live, Settled, Requested
  <1>1. /\ UNCHANGED <<phase, policies, stale, sync, savedAt, imported>>
        /\ importer' = [importer EXCEPT ![i] = Idle]
        /\ intent' = AckGeneration(intent, importer[i].generation)
        /\ importer[i].pc = "imported"
    BY DEF Acknowledge
  <1>2. /\ intent' \in Intents
        /\ intent'.generation = intent.generation
        /\ intent'.saves = intent.saves /\ intent'.ready = intent.ready
        /\ intent'.readiness = intent.readiness
        /\ intent'.pending => intent.pending
        /\ intent # intent' => /\ intent.generation = importer[i].generation
                              /\ intent.readiness = "ready"
    BY <1>1 DEF AckGeneration, TypeOK, Intents
  <1>3. intent # intent' => sync.importedGeneration = intent.generation
    BY <1>1, <1>2 DEF SnapshotOK, GenerationsOrdered, TypeOK, Intents
  <1>4. TypeOK'
    BY <1>1, <1>2 DEF TypeOK, Snapshots, Idle
  <1>5. IntentConsistent' /\ GenerationsOrdered' /\ ImportedIsRequested'
    BY <1>1, <1>2 DEF IntentConsistent, GenerationsOrdered, ImportedIsRequested
  <1>6. \A j \in Importers : SnapshotOK(j)'
    BY <1>1, <1>2 DEF SnapshotOK, Idle, TypeOK
  <1>7. SavesAreCarried'
    <2> SUFFICES ASSUME intent # intent', NEW s \in Saves, Live(s)
                 PROVE  Requested(s)
      BY <1>1, <1>2 DEF SavesAreCarried
    <2> QED  BY <1>3 DEF ImportedIsRequested, GenerationsOrdered
  <1>8. ImportsOnlySettledSaves' /\ OneRequestPerGeneration'
    BY <1>1 DEF ImportsOnlySettledSaves, OneRequestPerGeneration
  <1>9. AcknowledgedIsImported'
    BY <1>1, <1>2, <1>3 DEF AcknowledgedIsImported
  <1> QED  BY <1>4, <1>5, <1>6, <1>7, <1>8, <1>9

(* Every step keeps the inductive invariant, and only imports touch the    *)
(* document.                                                               *)
LEMMA NextIndInv ==
    ASSUME IndInv, [Next]_vars
    PROVE  /\ IndInv'
           /\ \/ UNCHANGED sync
              \/ /\ sync'.importedGeneration >= sync.importedGeneration
                 /\ \A k \in Kinds :
                       sync'.sourceGeneration[k] >= sync.sourceGeneration[k]
  <1>1. CASE UNCHANGED vars
    BY <1>1 DEF vars, IndInv, TypeOK, IntentConsistent, GenerationsOrdered,
       ImportedIsRequested, SnapshotOK, SavesAreCarried, ImportsOnlySettledSaves,
       AcknowledgedIsImported, OneRequestPerGeneration, Live, Settled, Requested
  <1>2. ASSUME NEW s \in Saves, SaveStep(s) PROVE IndInv' /\ UNCHANGED sync
    <2>1. ASSUME NEW kinds \in SUBSET Kinds, NEW b \in BOOLEAN, Persist(s, kinds, b)
          PROVE  IndInv' /\ UNCHANGED sync
      BY <2>1, PersistIndInv DEF Persist
    <2>2. CASE FinishSave(s)
      BY <2>2, FinishSaveIndInv DEF FinishSave
    <2>3. CASE FailSave(s)
      BY <2>3, FailSaveIndInv DEF FailSave
    <2>4. CASE FailSaveUnabandoned(s) \/ InterruptSave(s) \/ Age(s)
      BY <2>4, SilentSaveIndInv DEF FailSaveUnabandoned, InterruptSave, Age
    <2> QED  BY <1>2, <2>1, <2>2, <2>3, <2>4 DEF SaveStep
  <1>3. CASE RecoverStale
    BY <1>3, RecoverStaleIndInv DEF RecoverStale
  <1>4. ASSUME NEW i \in Importers, ReadRecord(i) \/ StopImport(i)
        PROVE  IndInv' /\ UNCHANGED sync
    BY <1>4, SnapshotIndInv DEF ReadRecord, StopImport
  <1>5. ASSUME NEW i \in Importers, Acknowledge(i) PROVE IndInv' /\ UNCHANGED sync
    BY <1>5, AcknowledgeIndInv DEF Acknowledge
  <1>6. ASSUME NEW i \in Importers, ImportSource(i)
        PROVE  /\ IndInv'
               /\ sync'.importedGeneration >= sync.importedGeneration
               /\ \A k \in Kinds :
                     sync'.sourceGeneration[k] >= sync.sourceGeneration[k]
    BY <1>6, ImportSourceIndInv
  <1> QED  BY <1>1, <1>2, <1>3, <1>4, <1>5, <1>6 DEF Next, ImportStep

(* The inductive invariant holds in every reachable state.                 *)
LEMMA IndInvAlways == Spec => []IndInv
  BY InitIndInv, NextIndInv, PTL DEF Spec

(* Type correctness of the intent, the document and the processes.         *)
THEOREM TypeCorrect == Spec => []TypeOK
  <1>1. IndInv => TypeOK
    BY DEF IndInv
  <1> QED  BY <1>1, IndInvAlways, PTL

(* A written save that did not fail is pending or has been requested, for  *)
(* any number of saves and importers, and whichever of them stop.          *)
THEOREM SavesAreNeverLost == Spec => []SavesAreCarried
  <1>1. IndInv => SavesAreCarried
    BY DEF IndInv
  <1> QED  BY <1>1, IndInvAlways, PTL

(* An import carries only saves that finished or went stale.               *)
THEOREM OnlySettledSavesAreImported == Spec => []ImportsOnlySettledSaves
  <1>1. IndInv => ImportsOnlySettledSaves
    BY DEF IndInv
  <1> QED  BY <1>1, IndInvAlways, PTL

(* An acknowledged generation is in the document.                          *)
THEOREM AcknowledgedGenerationIsImported == Spec => []AcknowledgedIsImported
  <1>1. IndInv => AcknowledgedIsImported
    BY DEF IndInv
  <1> QED  BY <1>1, IndInvAlways, PTL

(* Duplicate imports of a generation coalesce.                             *)
THEOREM DuplicateImportsCoalesce == Spec => []OneRequestPerGeneration
  <1>1. IndInv => OneRequestPerGeneration
    BY DEF IndInv
  <1> QED  BY <1>1, IndInvAlways, PTL

(* No importer, however late, moves the document to an older generation.   *)
THEOREM ImportsAreMonotone == Spec => ImportsNeverRegress
  <1> DEFINE Forward ==
        /\ sync.importedGeneration' >= sync.importedGeneration
        /\ \A k \in Kinds :
              sync.sourceGeneration'[k] >= sync.sourceGeneration[k]
  <1>1. IndInv /\ [Next]_vars => [Forward]_vars
    <2> SUFFICES ASSUME IndInv, [Next]_vars PROVE Forward
      OBVIOUS
    <2>1. CASE UNCHANGED sync
      BY <2>1 DEF IndInv, TypeOK
    <2>2. CASE ~UNCHANGED sync
      BY <2>2, NextIndInv
    <2> QED  BY <2>1, <2>2
  <1> QED  BY <1>1, IndInvAlways, PTL DEF Spec, ImportsNeverRegress
=============================================================================
