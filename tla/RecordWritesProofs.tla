--------------------------- MODULE RecordWritesProofs ---------------------------
(***************************************************************************)
(* Theorems of RecordWrites, for any saves, workers, rounds of a write and *)
(* lost leases: types, that no background write undoes another write, and  *)
(* that a transition never overtakes a save that asked for a sync.         *)
(***************************************************************************)
EXTENDS RecordWrites, TLAPS

USE ConstantsAssumption

-----------------------------------------------------------------------------
(* What makes the properties inductive                                     *)

\* The types of what TypeOK leaves out.
SaveForms == [pc : {"new", "open", "submitted", "hooks", "written", "done", "failed", "stopped"},
              form : Records, asks : BOOLEAN]
Settled == {"look", "cleanup", "cleaning", "cleaned", "observe", "transition",
            "transitionHooks", "observed", "end"}
Runs == [pc : Settled \union {"idle", "read", "sync", "finish", "request", "project", "projecting"},
         read : Records, generation : Nat, todo : SUBSET Kinds, again : SUBSET Kinds,
         behind : BOOLEAN, tries : 0 .. Attempts - 1]
Types ==
    /\ current \subseteq Workers
    /\ intent \in [generation : Nat, saves : SUBSET Saves, initialising : SUBSET Saves]
    /\ save \in [Saves -> SaveForms] /\ run \in [Workers -> Runs]
    /\ work \in [Kinds -> [owed : BOOLEAN, due : BOOLEAN]]
    /\ lapses \in Nat /\ cut \in BOOLEAN

\* The sync comes first: a run that is past it has no sync to do.
SyncIsFirst == \A w \in Workers : run[w].pc \in Settled => "sync" \notin run[w].todo

\* What a run with the record's present version will write back is what is there, and
\* before its first write no save has asked for a sync since it looked.
CurrentReads ==
    \A w \in current :
        /\ run[w].pc = "transition" => run[w].read = record /\ intent.saves = {}
        /\ run[w].pc = "transitionHooks" => record = [run[w].read EXCEPT !.stage = "published"]

IndInv == TypeOK /\ Types /\ SyncIsFirst /\ CurrentReads

-----------------------------------------------------------------------------
(* Saves                                                                   *)

LEMMA Record0Type == Record0 \in Records
  BY DEF Record0, Records

LEMMA FirstTry == 0 \in 0 .. Attempts - 1
  OBVIOUS

LEMMA IdleType == Idle \in Runs /\ Idle.pc = "idle"
  BY Record0Type DEF Idle, Runs

\* Save s goes on: its form and its place are others.
Submits(s) ==
    /\ save' \in [Saves -> SaveForms]
    /\ save'[s].pc # save[s].pc

LEMMA OpenSubmits ==
    ASSUME TypeOK, Types, NEW s \in Saves, Open(s)
    PROVE  Submits(s)
  <1>1. save[s] \in SaveForms /\ save \in [Saves -> SaveForms] /\ record \in Records
    BY DEF TypeOK, Types
  <1>2. PICK f : f = [save[s] EXCEPT !.pc = "open", !.form = record]
    OBVIOUS
  <1>3. f \in SaveForms /\ f.pc = "open"
    BY <1>1, <1>2 DEF SaveForms
  <1>4. save' = [save EXCEPT ![s] = f] /\ save[s].pc = "new"
    BY <1>2 DEF Open, SaveAt
  <1> QED  BY <1>1, <1>3, <1>4 DEF Submits

LEMMA SubmitSubmits ==
    ASSUME TypeOK, Types, NEW s \in Saves, Submit(s)
    PROVE  Submits(s)
  <1>1. /\ save[s] \in SaveForms /\ save \in [Saves -> SaveForms]
        /\ record \in Records /\ save[s].form \in Records
    BY DEF TypeOK, Types, SaveForms
  <1>2. PICK g : g = [save[s].form EXCEPT !.stage = record.stage]
    OBVIOUS
  <1>3. g \in Records
    BY <1>1, <1>2 DEF Records
  <1>4. PICK f : f = [save[s] EXCEPT !.pc = "submitted", !.form = g]
    OBVIOUS
  <1>5. f \in SaveForms /\ f.pc = "submitted"
    BY <1>1, <1>3, <1>4 DEF SaveForms
  <1>6. save' = [save EXCEPT ![s] = f] /\ save[s].pc = "open"
    BY <1>2, <1>4 DEF Submit, SaveAt
  <1> QED  BY <1>1, <1>5, <1>6 DEF Submits

LEMMA WriteSubmits ==
    ASSUME TypeOK, Types, NEW s \in Saves, Write(s)
    PROVE  Submits(s) /\ record' \in Records
  <1>1. /\ save[s] \in SaveForms /\ save \in [Saves -> SaveForms]
        /\ save[s].form \in Records
    BY DEF TypeOK, Types, SaveForms
  <1>2. PICK asks \in BOOLEAN :
           /\ SaveAt(s, "submitted")
           /\ Overwrite([save[s].form EXCEPT !.text = s])
           /\ save' = [save EXCEPT ![s].pc = IF Hooks THEN "hooks" ELSE "done",
                                   ![s].asks = asks]
    BY DEF Write
  <1>3. PICK pc : pc = IF Hooks THEN "hooks" ELSE "done"
    OBVIOUS
  <1>4. PICK f : f = [save[s] EXCEPT !.pc = pc, !.asks = asks]
    OBVIOUS
  <1>5. f \in SaveForms /\ f.pc = pc /\ pc # "submitted"
    BY <1>1, <1>3, <1>4 DEF SaveForms
  <1>6. save' = [save EXCEPT ![s] = f]
    BY <1>2, <1>3, <1>4
  <1>7. PICK r : r = [save[s].form EXCEPT !.text = s]
    OBVIOUS
  <1>8. r \in Records
    BY <1>1, <1>7 DEF Records
  <1>9. record' = r
    BY <1>2, <1>7 DEF Overwrite
  <1> QED  BY <1>1, <1>2, <1>5, <1>6, <1>8, <1>9 DEF Submits, SaveAt

LEMMA PersistSubmits ==
    ASSUME TypeOK, Types, NEW s \in Saves, PersistSecondary(s)
    PROVE  Submits(s) /\ record' \in Records
  <1>1. /\ save[s] \in SaveForms /\ save \in [Saves -> SaveForms]
        /\ save[s].form \in Records
    BY DEF TypeOK, Types, SaveForms
  <1>2. PICK f : f = [save[s] EXCEPT !.pc = "written", !.form = Record0]
    OBVIOUS
  <1>3. f \in SaveForms /\ f.pc = "written"
    BY <1>1, <1>2, Record0Type DEF SaveForms
  <1>4. save' = [save EXCEPT ![s] = f] /\ save[s].pc = "hooks"
    BY <1>2 DEF PersistSecondary, SaveAt
  <1>5. PICK r : r = [save[s].form EXCEPT !.text = s]
    OBVIOUS
  <1>6. r \in Records
    BY <1>1, <1>5 DEF Records
  <1>7. record' = r
    BY <1>5 DEF PersistSecondary, Overwrite
  <1> QED  BY <1>1, <1>3, <1>4, <1>6, <1>7 DEF Submits

LEMMA EndSubmits ==
    ASSUME TypeOK, Types, NEW s \in Saves, ReadyIntent(s) \/ FailHooks(s) \/ StopSave(s)
    PROVE  Submits(s)
  <1>1. save[s] \in SaveForms /\ save \in [Saves -> SaveForms]
    BY DEF TypeOK, Types
  <1>2. CASE ReadyIntent(s)
    <2>1. PICK f : f = [save[s] EXCEPT !.pc = "done"]
      OBVIOUS
    <2>2. f \in SaveForms /\ f.pc = "done"
      BY <1>1, <2>1 DEF SaveForms
    <2>3. save' = [save EXCEPT ![s] = f] /\ save[s].pc = "written"
      BY <1>2, <2>1 DEF ReadyIntent, SaveAt
    <2> QED  BY <1>1, <2>2, <2>3 DEF Submits
  <1>3. ASSUME NEW pc \in {"failed", "stopped"},
               save' = [save EXCEPT ![s].pc = pc, ![s].form = Record0],
               save[s].pc \in {"hooks", "written"}
        PROVE  Submits(s)
    <2>1. PICK f : f = [save[s] EXCEPT !.pc = pc, !.form = Record0]
      OBVIOUS
    <2>2. f \in SaveForms /\ f.pc = pc
      BY <1>1, <2>1, Record0Type DEF SaveForms
    <2>3. save' = [save EXCEPT ![s] = f]
      BY <1>3, <2>1
    <2> QED  BY <1>1, <1>3, <2>2, <2>3 DEF Submits
  <1>4. CASE FailHooks(s)
    BY <1>3, <1>4 DEF FailHooks, SaveAt
  <1>5. CASE StopSave(s)
    BY <1>3, <1>5 DEF StopSave
  <1> QED  BY <1>2, <1>4, <1>5

-----------------------------------------------------------------------------
(* Runs                                                                    *)

\* A run that is not at a transition, and has no sync to do once it is past it.
Plain(r) ==
    /\ r \in Runs
    /\ r.pc \in Settled => "sync" \notin r.todo
    /\ r.pc \notin {"transition", "transitionHooks"}

\* Worker w's run becomes a plain one, and the others stay where they are.
Goes(w) ==
    /\ run' \in [Workers -> Runs] /\ Plain(run'[w])
    /\ \A v \in Workers \ {w} : /\ run'[v].pc = run[v].pc /\ run'[v].read = run[v].read
                                /\ run'[v].todo = run[v].todo

LEMMA BecomesGoes ==
    ASSUME Types, NEW w \in Workers, NEW r, Plain(r), run' = [run EXCEPT ![w] = r]
    PROVE  Goes(w)
  <1>1. run \in [Workers -> Runs] /\ r \in Runs
    BY DEF Types, Plain
  <1> QED  BY <1>1 DEF Goes

LEMMA IdleGoes ==
    ASSUME Types, NEW w \in Workers, run' = [run EXCEPT ![w] = Idle]
    PROVE  Goes(w)
  BY BecomesGoes, IdleType DEF Plain, Settled

\* The next place of a run that has no sync to do.
LEMMA NextPlace ==
    ASSUME NEW todo \in SUBSET Kinds, "sync" \notin todo
    PROVE  NextPc(todo) \in {"cleanup", "observe", "end"}
  BY DEF NextPc, Kinds

LEMMA KindType == \A w \in Workers : Kind(w) \in Kinds
  BY DEF Kind, Kinds

LEMMA OnwardPlain ==
    ASSUME Types, NEW w \in Workers, NEW k \in Kinds,
           k # "sync" => "sync" \notin run[w].todo
    PROVE  Plain(Onward(w, k))
  <1>1. run[w] \in Runs /\ run[w].todo \in SUBSET Kinds
    BY DEF Types, Runs
  <1>a. PICK todo : todo = run[w].todo \ {k}
    OBVIOUS
  <1>2. todo \in SUBSET Kinds /\ todo = run[w].todo \ {k} /\ "sync" \notin todo
    BY <1>1, <1>a
  <1>3. PICK pc : pc = IF k = "sync" THEN "look" ELSE NextPc(todo)
    OBVIOUS
  <1>4. pc \in {"look", "cleanup", "observe", "end"}
    BY <1>2, <1>3, NextPlace
  <1>5. PICK r : r = [run[w] EXCEPT !.pc = pc, !.todo = todo, !.tries = 0]
    OBVIOUS
  <1>6. Onward(w, k) = r
    BY <1>2, <1>3, <1>5 DEF Onward
  <1>7. r \in Runs /\ r.pc = pc /\ r.todo = todo
    BY <1>1, <1>2, <1>4, <1>5, FirstTry DEF Runs, Settled
  <1> QED  BY <1>2, <1>4, <1>6, <1>7 DEF Plain

(* A run that moves to a place, and maybe begins to count its tries again. *)
LEMMA MovesGoes ==
    ASSUME Types, NEW w \in Workers, NEW pc,
           pc \in {"finish", "request", "project", "projecting", "cleaning", "cleaned",
                   "cleanup", "observed"},
           pc \in Settled => "sync" \notin run[w].todo,
           \/ run' = [run EXCEPT ![w].pc = pc]
           \/ run' = [run EXCEPT ![w].pc = pc, ![w].tries = 0]
    PROVE  Goes(w)
  <1>1. run[w] \in Runs
    BY DEF Types
  <1>2. CASE run' = [run EXCEPT ![w].pc = pc]
    <2>1. PICK r : r = [run[w] EXCEPT !.pc = pc]
      OBVIOUS
    <2>2. r \in Runs /\ r.pc = pc /\ r.todo = run[w].todo
      BY <1>1, <2>1 DEF Runs, Settled
    <2>3. run' = [run EXCEPT ![w] = r]
      BY <1>2, <2>1
    <2> QED  BY <2>2, <2>3, BecomesGoes DEF Plain
  <1>3. CASE run' = [run EXCEPT ![w].pc = pc, ![w].tries = 0]
    <2>1. PICK r : r = [run[w] EXCEPT !.pc = pc, !.tries = 0]
      OBVIOUS
    <2>2. r \in Runs /\ r.pc = pc /\ r.todo = run[w].todo
      BY <1>1, <2>1, FirstTry DEF Runs, Settled
    <2>3. run' = [run EXCEPT ![w] = r]
      BY <1>3, <2>1
    <2> QED  BY <2>2, <2>3, BecomesGoes DEF Plain
  <1> QED  BY <1>2, <1>3

(* A run that gives up, and its work.                                      *)
LEMMA GiveUpGoes ==
    ASSUME TypeOK, Types, NEW w \in Workers, NEW due \in BOOLEAN, GiveUp(w, due)
    PROVE  /\ Goes(w) /\ current' = current \ {w}
           /\ owner' \in Workers \union {NoWorker}
           /\ work' \in [Kinds -> [owed : BOOLEAN, due : BOOLEAN]]
           /\ \A k \in Kinds : work'[k].owed => work'[k].due \/ cut \/ (owner = w /\ ~due)
  <1>1. run' = [run EXCEPT ![w] = Idle] /\ current' = current \ {w}
    BY DEF GiveUp
  <1>2. Goes(w)
    BY <1>1, IdleGoes
  <1>3. owner' \in Workers \union {NoWorker}
    BY DEF GiveUp, TypeOK
  <1>4. /\ work \in [Kinds -> [owed : BOOLEAN, due : BOOLEAN]]
        /\ \A k \in Kinds : work[k].owed => work[k].due \/ cut
    BY DEF TypeOK, Types
  <1>5. CASE owner = w
    <2>1. PICK k \in Kinds : k = Kind(w)
      BY KindType
    <2>2. PICK r : r = [work[k] EXCEPT !.due = due]
      OBVIOUS
    <2>3. r \in [owed : BOOLEAN, due : BOOLEAN] /\ r.due = due
      BY <1>4, <2>2
    <2>4. work' = [work EXCEPT ![k] = r]
      BY <1>5, <2>1, <2>2 DEF GiveUp
    <2>5. /\ work' \in [Kinds -> [owed : BOOLEAN, due : BOOLEAN]]
          /\ \A j \in Kinds \ {k} : work'[j] = work[j]
          /\ work'[k].due = due
      BY <1>4, <2>3, <2>4
    <2> QED  BY <1>1, <1>2, <1>3, <1>4, <1>5, <2>5
  <1>6. CASE owner # w
    <2>1. work' = work
      BY <1>6 DEF GiveUp
    <2> QED  BY <1>1, <1>2, <1>3, <1>4, <2>1
  <1> QED  BY <1>5, <1>6

(* Requested work is owed and due; finished work is neither, or was again. *)
LEMMA WorkTypes ==
    ASSUME TypeOK, Types
    PROVE  /\ \A K : Request(K) =>
                 /\ work' \in [Kinds -> [owed : BOOLEAN, due : BOOLEAN]]
                 /\ \A k \in Kinds : work'[k].owed => work'[k].due \/ cut
           /\ \A w \in Workers, k \in Kinds :
                 /\ Finished(w, k) \in [Kinds -> [owed : BOOLEAN, due : BOOLEAN]]
                 /\ \A j \in Kinds : Finished(w, k)[j].owed => Finished(w, k)[j].due \/ cut
  <1>1. /\ work \in [Kinds -> [owed : BOOLEAN, due : BOOLEAN]]
        /\ \A k \in Kinds : work[k].owed => work[k].due \/ cut
    BY DEF TypeOK, Types
  <1>2. ASSUME NEW K, Request(K)
        PROVE  /\ work' \in [Kinds -> [owed : BOOLEAN, due : BOOLEAN]]
               /\ \A k \in Kinds : work'[k].owed => work'[k].due \/ cut
    BY <1>1, <1>2 DEF Request
  <1>3. ASSUME NEW w \in Workers, NEW k \in Kinds
        PROVE  /\ Finished(w, k) \in [Kinds -> [owed : BOOLEAN, due : BOOLEAN]]
               /\ \A j \in Kinds : Finished(w, k)[j].owed => Finished(w, k)[j].due \/ cut
    BY <1>1 DEF Finished
  <1> QED  BY <1>2, <1>3

(* The other runs learn that there is work again, and go on as they were.  *)
LEMMA AgainTypes ==
    ASSUME Types, NEW K \in SUBSET Kinds
    PROVE  /\ Again(K) \in [Workers -> Runs]
           /\ \A v \in Workers : /\ Again(K)[v].pc = run[v].pc
                                 /\ Again(K)[v].read = run[v].read
                                 /\ Again(K)[v].todo = run[v].todo
  <1> SUFFICES ASSUME NEW v \in Workers
               PROVE  /\ Again(K)[v] \in Runs
                      /\ Again(K)[v].pc = run[v].pc
                      /\ Again(K)[v].read = run[v].read
                      /\ Again(K)[v].todo = run[v].todo
    BY DEF Again
  <1>1. run[v] \in Runs
    BY DEF Types
  <1>2. PICK r : r = [run[v] EXCEPT !.again = @ \union K]
    OBVIOUS
  <1>3. r \in Runs /\ r.pc = run[v].pc /\ r.read = run[v].read /\ r.todo = run[v].todo
    BY <1>1, <1>2 DEF Runs
  <1>4. Again(K)[v] \in {run[v], r}
    BY <1>2 DEF Again
  <1> QED  BY <1>1, <1>3, <1>4

-----------------------------------------------------------------------------
(* The steps of a run.                                                     *)

\* A step of worker w that leaves w with a plain run, and what the others have
\* read as it was, unless it makes a version that nobody has read.
StepKeeps(w) ==
    /\ Goes(w)
    /\ work' \in [Kinds -> [owed : BOOLEAN, due : BOOLEAN]]
    /\ \A k \in Kinds : work'[k].owed => work'[k].due \/ cut'
    /\ cut' \in BOOLEAN /\ owner' \in Workers \union {NoWorker}
    /\ pushed' \in Saves \union {NoSave}
    /\ intent' \in [generation : Nat, saves : SUBSET Saves, initialising : SUBSET Saves]
    /\ intent'.initialising \subseteq intent'.saves
    /\ UNCHANGED <<save, lapses>>
    /\ \/ /\ record' = record /\ intent'.saves \subseteq intent.saves
          /\ current' \subseteq current \union {w}
       \/ record' \in Records /\ current' = {} /\ intent' = intent

LEMMA StepKeepsInv ==
    ASSUME IndInv, NEW w \in Workers, StepKeeps(w)
    PROVE  IndInv'
  <1>1. /\ run \in [Workers -> Runs] /\ run' \in [Workers -> Runs] /\ current \subseteq Workers
        /\ intent.saves \in SUBSET Saves
    BY DEF IndInv, Types, StepKeeps, Goes
  <1>2. TypeOK'
    <2>1. \A v \in Workers : run'[v].tries < Attempts
      BY <1>1 DEF Runs
    <2>2. record' \in Records
      BY DEF IndInv, TypeOK, StepKeeps
    <2> QED  BY <2>1, <2>2 DEF StepKeeps, TypeOK
  <1>3. Types'
    <2>1. current' \subseteq Workers
      BY <1>1 DEF StepKeeps
    <2> QED  BY <1>1, <2>1 DEF IndInv, StepKeeps, Types
  <1>4. SyncIsFirst'
    BY <1>1 DEF IndInv, SyncIsFirst, StepKeeps, Goes, Plain
  <1>5. CurrentReads'
    <2> SUFFICES ASSUME NEW v \in current'
                 PROVE  /\ run'[v].pc = "transition" => run'[v].read = record' /\ intent'.saves = {}
                        /\ run'[v].pc = "transitionHooks" =>
                              record' = [run'[v].read EXCEPT !.stage = "published"]
      BY DEF CurrentReads
    <2>1. v \in Workers
      BY <1>3 DEF Types
    <2>2. CASE v = w
      BY <2>2 DEF StepKeeps, Goes, Plain
    <2>3. CASE v # w
      <3>1. /\ v \in current /\ record' = record /\ intent'.saves \subseteq intent.saves
            /\ run'[v].pc = run[v].pc /\ run'[v].read = run[v].read
        BY <2>1, <2>3 DEF StepKeeps, Goes
      <3>2. PICK r : r = run[v].read /\ run'[v].read = r
        BY <3>1
      <3>3. /\ run[v].pc = "transition" => r = record /\ intent.saves = {}
            /\ run[v].pc = "transitionHooks" => record = [r EXCEPT !.stage = "published"]
        BY <3>1, <3>2 DEF IndInv, CurrentReads
      <3> QED  BY <3>1, <3>2, <3>3
    <2> QED  BY <2>2, <2>3
  <1> QED  BY <1>2, <1>3, <1>4, <1>5 DEF IndInv

(* What a step leaves alone.                                               *)
LEMMA Same ==
    ASSUME IndInv
    PROVE  /\ TypeOK /\ Types /\ run \in [Workers -> Runs]
           /\ work \in [Kinds -> [owed : BOOLEAN, due : BOOLEAN]]
           /\ \A k \in Kinds : work[k].owed => work[k].due \/ cut
           /\ cut \in BOOLEAN /\ owner \in Workers \union {NoWorker}
           /\ pushed \in Saves \union {NoSave} /\ record \in Records
           /\ intent \in [generation : Nat, saves : SUBSET Saves, initialising : SUBSET Saves]
           /\ intent.initialising \subseteq intent.saves
  BY DEF IndInv, TypeOK, Types

LEMMA StartKeeps ==
    ASSUME IndInv, NEW w \in Workers, Start(w)
    PROVE  StepKeeps(w)
  <1>1. /\ run \in [Workers -> Runs] /\ record \in Records /\ {"sync"} \in SUBSET Kinds
        /\ intent \in [generation : Nat, saves : SUBSET Saves, initialising : SUBSET Saves]
    BY Same DEF Kinds
  <1>2. PICK rs : rs = IF Ready THEN Again({"sync"}) ELSE run
    OBVIOUS
  <1>3. /\ rs \in [Workers -> Runs]
        /\ \A v \in Workers : rs[v].pc = run[v].pc /\ rs[v].read = run[v].read
                              /\ rs[v].todo = run[v].todo
    BY <1>1, <1>2, AgainTypes, Same
  <1>4. PICK r : r = [rs[w] EXCEPT !.pc = "read", !.read.text = record.text,
                                   !.generation = intent.generation]
    OBVIOUS
  <1>5. r \in Runs /\ r.pc = "read"
    <2>1. rs[w] \in Runs /\ rs[w].read \in Records
      BY <1>3 DEF Runs
    <2>2. PICK read : read = [rs[w].read EXCEPT !.text = record.text]
      OBVIOUS
    <2>3. read \in Records
      BY <1>1, <2>1, <2>2 DEF Records
    <2>4. r = [rs[w] EXCEPT !.pc = "read", !.read = read, !.generation = intent.generation]
      BY <1>4, <2>2
    <2> QED  BY <1>1, <2>1, <2>3, <2>4 DEF Runs
  <1>6. run' = [rs EXCEPT ![w] = r]
    <2>1. run' = [rs EXCEPT ![w].pc = "read", ![w].read.text = record.text,
                            ![w].generation = intent.generation]
      BY <1>2, Zenon DEF Start
    <2> QED  BY <1>3, <1>4, <2>1
  <1>7. Goes(w)
    BY <1>3, <1>5, <1>6 DEF Goes, Plain, Settled
  <1>8. CASE Ready
    <2>1. /\ intent' = [intent EXCEPT !.saves = {}] /\ Request({"sync"})
          /\ intent.initialising = {}
      BY <1>8 DEF Start, Ready
    <2>2. /\ intent' \in [generation : Nat, saves : SUBSET Saves, initialising : SUBSET Saves]
          /\ intent'.saves = {} /\ intent'.initialising = {}
      BY <1>1, <2>1
    <2>3. /\ work' \in [Kinds -> [owed : BOOLEAN, due : BOOLEAN]]
          /\ \A k \in Kinds : work'[k].owed => work'[k].due \/ cut
      BY <2>1, WorkTypes, Same
    <2> QED  BY <1>7, <2>2, <2>3, Same DEF Start, StepKeeps
  <1>9. CASE ~Ready
    BY <1>7, <1>9, Same DEF Start, StepKeeps
  <1> QED  BY <1>8, <1>9

LEMMA ClaimKeeps ==
    ASSUME IndInv, NEW w \in Workers, Claim(w)
    PROVE  StepKeeps(w)
  <1>0. run[w] \in Runs /\ Due \in SUBSET Kinds
    BY Same DEF Due
  <1>1. CASE owner = NoWorker /\ Due # {} /\ "sync" \in Due
    <2>1. PICK r : r = [run[w] EXCEPT !.pc = "sync", !.todo = Due]
      OBVIOUS
    <2>2. r \in Runs /\ r.pc = "sync"
      BY <1>0, <2>1 DEF Runs
    <2>3. run' = [run EXCEPT ![w] = r]
      BY <1>1, <2>1 DEF Claim
    <2>4. Goes(w)
      BY <2>2, <2>3, BecomesGoes, Same DEF Plain, Settled
    <2> QED  BY <1>1, <2>4, Same DEF Claim, StepKeeps
  <1>2. CASE owner = NoWorker /\ Due # {} /\ "sync" \notin Due
    <2>1. PICK r : r = [Idle EXCEPT !.pc = "look", !.todo = Due]
      OBVIOUS
    <2>2. r \in Runs /\ r.pc = "look" /\ r.todo = Due
      BY <1>0, <2>1, IdleType DEF Runs, Settled
    <2>3. run' = [run EXCEPT ![w] = r]
      BY <1>2, <2>1 DEF Claim
    <2>4. Goes(w)
      BY <1>2, <2>2, <2>3, BecomesGoes, Same DEF Plain
    <2> QED  BY <1>2, <2>4, Same DEF Claim, StepKeeps
  <1>3. CASE ~(owner = NoWorker /\ Due # {})
    <2>1. Goes(w)
      BY <1>3, IdleGoes, Same DEF Claim
    <2> QED  BY <1>3, <2>1, Same DEF Claim, StepKeeps
  <1> QED  BY <1>1, <1>2, <1>3

(* A run that waits.                                                       *)
LEMMA WaitKeeps ==
    ASSUME IndInv, NEW w \in Workers, Wait(w),
           UNCHANGED <<record, intent, save, pushed, lapses, cut>>
    PROVE  StepKeeps(w)
  <1>1. GiveUp(w, TRUE)
    BY DEF Wait
  <1>2. /\ Goes(w) /\ current' = current \ {w}
        /\ owner' \in Workers \union {NoWorker}
        /\ work' \in [Kinds -> [owed : BOOLEAN, due : BOOLEAN]]
        /\ \A k \in Kinds : work'[k].owed => work'[k].due \/ cut
    BY <1>1, GiveUpGoes, Same
  <1> QED  BY <1>2, Same DEF StepKeeps

LEMMA PushKeeps ==
    ASSUME IndInv, NEW w \in Workers, Push(w)
    PROVE  StepKeeps(w)
  <1>0. run[w] \in Runs /\ run[w].read.text \in Saves \union {NoSave}
    BY Same DEF Runs, Records
  <1>1. CASE intent.initialising = {} /\ intent.generation = run[w].generation
    <2>1. PICK r : r = [run[w] EXCEPT !.pc = "finish", !.read = Record0, !.generation = 0]
      OBVIOUS
    <2>2. r \in Runs /\ r.pc = "finish"
      BY <1>0, <2>1, Record0Type DEF Runs
    <2>3. run' = [run EXCEPT ![w] = r]
      BY <1>1, <2>1 DEF Push
    <2>4. Goes(w)
      BY <2>2, <2>3, BecomesGoes, Same DEF Plain, Settled
    <2> QED  BY <1>0, <1>1, <2>4, Same DEF Push, StepKeeps
  <1>2. CASE ~(intent.initialising = {} /\ intent.generation = run[w].generation)
    BY <1>2, WaitKeeps DEF Push
  <1> QED  BY <1>1, <1>2

LEMMA FinishesKeep ==
    ASSUME IndInv, NEW w \in Workers, FinishSync(w) \/ FinishObserve(w) \/ FinishCleanup(w)
    PROVE  StepKeeps(w)
  <1>0. "sync" \in Kinds /\ "observe" \in Kinds /\ "cleanup" \in Kinds
    BY DEF Kinds
  <1>1. CASE FinishSync(w)
    <2>1. Goes(w)
      BY <1>1, MovesGoes, Same DEF FinishSync, Settled
    <2> QED  BY <1>0, <1>1, <2>1, WorkTypes, Same DEF FinishSync, StepKeeps
  <1>2. CASE FinishObserve(w)
    <2>1. Goes(w)
      BY <1>2, MovesGoes, Same DEF FinishObserve, Settled
    <2> QED  BY <1>0, <1>2, <2>1, WorkTypes, Same DEF FinishObserve, StepKeeps
  <1>3. CASE FinishCleanup(w)
    <2>1. "sync" \notin run[w].todo
      BY <1>3 DEF FinishCleanup, At, IndInv, SyncIsFirst, Settled
    <2>2. PICK o : o = Onward(w, "cleanup") /\ Plain(o)
      BY <1>0, <2>1, OnwardPlain, Same
    <2>3. PICK behind : behind = work["sync"].owed
      OBVIOUS
    <2>4. behind \in BOOLEAN
      BY <1>0, <2>3, Same
    <2>5. PICK r : r = [o EXCEPT !.behind = behind]
      OBVIOUS
    <2>6. r \in Runs /\ r.pc = o.pc /\ r.todo = o.todo
      BY <2>2, <2>4, <2>5 DEF Plain, Runs
    <2>7. run' = [run EXCEPT ![w] = r]
      BY <1>3, <2>2, <2>3, <2>5 DEF FinishCleanup
    <2>8. Goes(w)
      BY <2>2, <2>6, <2>7, BecomesGoes, Same DEF Plain
    <2> QED  BY <1>0, <1>3, <2>8, WorkTypes, Same DEF FinishCleanup, StepKeeps
  <1> QED  BY <1>1, <1>2, <1>3

LEMMA RequestKeeps ==
    ASSUME IndInv, NEW w \in Workers, RequestObservation(w)
    PROVE  StepKeeps(w)
  <1>1. PICK rs : rs = Again(FollowUp)
    OBVIOUS
  <1>2. /\ rs \in [Workers -> Runs]
        /\ \A v \in Workers : rs[v].pc = run[v].pc /\ rs[v].read = run[v].read
                              /\ rs[v].todo = run[v].todo
    <2>1. FollowUp \in SUBSET Kinds
      BY DEF FollowUp, Kinds
    <2> QED  BY <1>1, <2>1, AgainTypes, Same
  <1>3. PICK r : r = [rs[w] EXCEPT !.pc = "project"]
    OBVIOUS
  <1>4. r \in Runs /\ r.pc = "project"
    BY <1>2, <1>3 DEF Runs
  <1>5. run' = [rs EXCEPT ![w] = r]
    BY <1>1, <1>3 DEF RequestObservation
  <1>6. Goes(w)
    BY <1>2, <1>4, <1>5 DEF Goes, Plain, Settled
  <1>7. /\ work' \in [Kinds -> [owed : BOOLEAN, due : BOOLEAN]]
        /\ \A k \in Kinds : work'[k].owed => work'[k].due \/ cut
    BY WorkTypes, Same DEF RequestObservation
  <1> QED  BY <1>6, <1>7, Same DEF RequestObservation, StepKeeps

LEMMA FetchesKeep ==
    ASSUME IndInv, NEW w \in Workers, ReadToProject(w) \/ ReadToCleanup(w)
    PROVE  StepKeeps(w)
  <1>1. PICK pc \in {"projecting", "cleaning"} :
           Fetch(w, pc) /\ (pc = "cleaning" => At(w, "cleanup"))
    BY DEF ReadToProject, ReadToCleanup
  <1>2. pc = "cleaning" => "sync" \notin run[w].todo
    BY <1>1 DEF At, IndInv, SyncIsFirst, Settled
  <1>3. Goes(w)
    BY <1>1, <1>2, MovesGoes, Same DEF Fetch, Settled
  <1> QED  BY <1>1, <1>3, Same DEF Fetch, StepKeeps

LEMMA CheckpointKeeps ==
    ASSUME IndInv, NEW w \in Workers, CheckpointArticle(w)
    PROVE  StepKeeps(w)
  <1>1. run[w] \in Runs /\ run[w].todo \in SUBSET Kinds /\ "sync" \in Kinds
    BY Same DEF Runs, Kinds
  <1>2. "sync" \notin run[w].todo
    BY DEF CheckpointArticle, At, IndInv, SyncIsFirst, Settled
  <1>3. PICK pc : pc = NextPc(run[w].todo) /\ pc \in {"cleanup", "observe", "end"}
    BY <1>1, <1>2, NextPlace
  <1>4. PICK behind : behind = work["sync"].owed /\ behind \in BOOLEAN
    BY <1>1, Same
  <1>5. PICK r : r = [run[w] EXCEPT !.pc = pc, !.behind = behind]
    OBVIOUS
  <1>6. r \in Runs /\ r.pc = pc /\ r.todo = run[w].todo
    BY <1>1, <1>3, <1>4, <1>5 DEF Runs, Settled
  <1>7. run' = [run EXCEPT ![w] = r]
    BY <1>3, <1>4, <1>5 DEF CheckpointArticle
  <1>8. Goes(w)
    BY <1>2, <1>3, <1>6, <1>7, BecomesGoes, Same DEF Plain
  <1> QED  BY <1>8, Same DEF CheckpointArticle, StepKeeps

(* A field write, whatever fields of the record it replaces.               *)
LEMMA FieldsKeep ==
    ASSUME IndInv, NEW w \in Workers, NEW r \in Records, NEW pc, NEW next,
           SetRecordFields(w, r, pc, next), Plain(next),
           pc \in {"project", "cleanup"},
           pc = "cleanup" => "sync" \notin run[w].todo
    PROVE  StepKeeps(w)
  <1>1. CASE Matches(w)
    <2>1. Goes(w)
      BY <1>1, BecomesGoes, Same DEF SetRecordFields
    <2> QED  BY <1>1, <2>1, Same DEF SetRecordFields, Overwrite, StepKeeps
  <1>2. CASE ~Matches(w) /\ run[w].tries + 1 < Attempts
    <2>1. run[w] \in Runs
      BY Same
    <2>2. PICK again : again = [run[w] EXCEPT !.pc = pc, !.tries = @ + 1]
      OBVIOUS
    <2>3. again \in Runs /\ again.pc = pc /\ again.todo = run[w].todo
      <3>1. run[w].tries + 1 \in 0 .. Attempts - 1
        BY <1>2, <2>1 DEF Runs
      <3> QED  BY <2>1, <2>2, <3>1 DEF Runs, Settled
    <2>4. run' = [run EXCEPT ![w] = again]
      BY <1>2, <2>2 DEF SetRecordFields
    <2>5. Goes(w)
      BY <2>3, <2>4, BecomesGoes, Same DEF Plain, Settled
    <2> QED  BY <1>2, <2>5, Same DEF SetRecordFields, StepKeeps
  <1>3. CASE ~Matches(w) /\ ~(run[w].tries + 1 < Attempts)
    BY <1>3, WaitKeeps DEF SetRecordFields
  <1> QED  BY <1>1, <1>2, <1>3

LEMMA FieldWritesKeep ==
    ASSUME IndInv, NEW w \in Workers, Project(w) \/ Cleanup(w)
    PROVE  StepKeeps(w)
  <1>0. run[w] \in Runs /\ record \in Records
    BY Same
  <1>1. CASE Project(w)
    <2>1. PICK r : r = [record EXCEPT !.linked = TRUE]
      OBVIOUS
    <2>2. r \in Records
      BY <1>0, <2>1 DEF Records
    <2>3. SetRecordFields(w, r, "project", Onward(w, Kind(w)))
      BY <1>1, <2>1 DEF Project
    <2>4. Plain(Onward(w, Kind(w)))
      <3>1. Kind(w) \in Kinds
        BY KindType
      <3>2. Kind(w) # "sync" => "sync" \notin run[w].todo
        BY DEF Kind
      <3> QED  BY <3>1, <3>2, OnwardPlain, Same
    <2> QED  BY <2>2, <2>3, <2>4, FieldsKeep
  <1>2. CASE Cleanup(w)
    <2>1. PICK r : r = [record EXCEPT !.refs = "url"]
      OBVIOUS
    <2>2. r \in Records
      BY <1>0, <2>1 DEF Records
    <2>3. PICK next : next = [run[w] EXCEPT !.pc = "cleaned"]
      OBVIOUS
    <2>4. SetRecordFields(w, r, "cleanup", next)
      BY <1>2, <2>1, <2>3 DEF Cleanup
    <2>5. "sync" \notin run[w].todo
      BY <1>2 DEF Cleanup, At, IndInv, SyncIsFirst, Settled
    <2>6. Plain(next)
      <3>1. next \in Runs /\ next.pc = "cleaned" /\ next.todo = run[w].todo
        BY <1>0, <2>3 DEF Runs, Settled
      <3> QED  BY <2>5, <3>1 DEF Plain
    <2> QED  BY <2>2, <2>4, <2>5, <2>6, FieldsKeep
  <1> QED  BY <1>1, <1>2

LEMMA EndsKeep ==
    ASSUME IndInv, NEW w \in Workers,
           Release(w) \/ LeaseLost(w) \/ FailTransitionHooks(w)
    PROVE  StepKeeps(w)
  <1>1. CASE Release(w) \/ LeaseLost(w)
    <2>1. Goes(w)
      BY <1>1, IdleGoes, Same DEF Release, LeaseLost
    <2> QED  BY <1>1, <2>1, Same DEF Release, LeaseLost, StepKeeps
  <1>2. CASE FailTransitionHooks(w)
    <2>1. PICK due \in BOOLEAN : due = ("observe" \in run[w].again)
      <3>1. ("observe" \in run[w].again) \in BOOLEAN
        OBVIOUS
      <3> QED  BY <3>1, Zenon
    <2>2. GiveUp(w, due) /\ cut' = (cut \/ owner = w)
      BY <1>2, <2>1, Zenon DEF FailTransitionHooks
    <2>3. /\ Goes(w) /\ current' = current \ {w}
          /\ owner' \in Workers \union {NoWorker}
          /\ work' \in [Kinds -> [owed : BOOLEAN, due : BOOLEAN]]
          /\ \A k \in Kinds : work'[k].owed => work'[k].due \/ cut \/ owner = w
      BY <2>2, GiveUpGoes, Same
    <2>4. /\ cut' \in BOOLEAN
          /\ \A k \in Kinds : work'[k].owed => work'[k].due \/ cut'
      BY <2>2, <2>3, Zenon
    <2>5. UNCHANGED <<record, intent, save, pushed, lapses>>
      BY <1>2 DEF FailTransitionHooks
    <2> QED  BY <2>3, <2>4, <2>5, Same DEF StepKeeps
  <1> QED  BY <1>1, <1>2

(* An observation reads the record it may transition.                      *)
LEMMA ObserveKeepsInv ==
    ASSUME IndInv, NEW w \in Workers, Observe(w)
    PROVE  IndInv'
  <1>0. /\ run \in [Workers -> Runs] /\ run[w] \in Runs /\ record \in Records
        /\ "sync" \notin run[w].todo
    BY Same DEF Observe, At, IndInv, SyncIsFirst, Settled
  <1>1. CASE NewerSource \/ run[w].behind
    BY <1>1, WaitKeeps, StepKeepsInv DEF Observe
  <1>2. CASE ~(NewerSource \/ run[w].behind) /\ record.stage = "published"
    <2>1. Goes(w)
      BY <1>0, <1>2, MovesGoes, Same DEF Observe, Settled
    <2>2. StepKeeps(w)
      BY <1>2, <2>1, Same DEF Observe, StepKeeps
    <2> QED  BY <2>2, StepKeepsInv
  <1>3. CASE ~(NewerSource \/ run[w].behind) /\ record.stage # "published"
    <2>1. PICK r : r = [run[w] EXCEPT !.pc = "transition", !.read = record]
      OBVIOUS
    <2>2. r \in Runs /\ r.pc = "transition" /\ r.read = record /\ r.todo = run[w].todo
      BY <1>0, <2>1 DEF Runs, Settled
    <2>3. run' = [run EXCEPT ![w] = r]
      BY <1>3, <2>1 DEF Observe
    <2>4. /\ run' \in [Workers -> Runs] /\ run'[w] = r
          /\ \A v \in Workers \ {w} : run'[v] = run[v]
      BY <1>0, <2>2, <2>3
    <2>5. /\ current' = current \union {w} /\ intent.saves = {}
          /\ UNCHANGED <<record, intent, save, work, owner, pushed, lapses, cut>>
      BY <1>3 DEF Observe, NewerSource
    <2>6. TypeOK' /\ Types'
      <3>1. \A v \in Workers : run'[v].tries < Attempts
        BY <2>4 DEF Runs
      <3> QED  BY <2>4, <2>5, <3>1 DEF IndInv, TypeOK, Types
    <2>7. SyncIsFirst'
      BY <1>0, <2>2, <2>4 DEF IndInv, SyncIsFirst
    <2>8. CurrentReads'
      <3> SUFFICES ASSUME NEW v \in current'
                   PROVE  /\ run'[v].pc = "transition" =>
                                run'[v].read = record' /\ intent'.saves = {}
                          /\ run'[v].pc = "transitionHooks" =>
                                record' = [run'[v].read EXCEPT !.stage = "published"]
        BY DEF CurrentReads
      <3>1. CASE v = w
        BY <2>2, <2>4, <2>5, <3>1
      <3>2. CASE v # w
        <4>1. v \in current /\ run'[v] = run[v] /\ record' = record /\ intent' = intent
          BY <2>4, <2>5, <3>2 DEF IndInv, Types
        <4>2. PICK q : q = run[v] /\ run'[v] = q
          BY <4>1
        <4>3. /\ q.pc = "transition" => q.read = record /\ intent.saves = {}
              /\ q.pc = "transitionHooks" => record = [q.read EXCEPT !.stage = "published"]
          BY <4>1, <4>2 DEF IndInv, CurrentReads
        <4> QED  BY <4>1, <4>2, <4>3
      <3> QED  BY <3>1, <3>2
    <2> QED  BY <2>6, <2>7, <2>8 DEF IndInv
  <1> QED  BY <1>1, <1>2, <1>3

(* What a transition that goes through writes: the record, published.      *)
LEMMA WriteSnapshotWrites ==
    ASSUME IndInv, NEW w \in Workers, NEW pc, WriteSnapshot(w, pc), Matches(w),
           run[w].pc \in {"transition", "transitionHooks"}
    PROVE  /\ record' \in Records /\ record'.stage = "published"
           /\ record'.text = record.text /\ record'.linked = record.linked
           /\ record'.refs = record.refs
           /\ record'.stage # record.stage => intent.saves = {}
  <1>1. run[w] \in Runs /\ run[w].read \in Records /\ record \in Records
    BY Same DEF Runs
  <1>2. PICK read : read = run[w].read
    OBVIOUS
  <1>3. record' = [read EXCEPT !.stage = "published"]
    BY <1>2 DEF WriteSnapshot
  <1>4. CASE run[w].pc = "transition"
    <2>1. read = record /\ intent.saves = {}
      BY <1>2, <1>4 DEF Matches, IndInv, CurrentReads
    <2> QED  BY <1>1, <1>3, <2>1 DEF Records
  <1>5. CASE run[w].pc = "transitionHooks"
    <2>1. record = [read EXCEPT !.stage = "published"]
      BY <1>2, <1>5 DEF Matches, IndInv, CurrentReads
    <2>2. record' = record
      BY <1>3, <2>1
    <2>3. record.stage = "published"
      BY <1>1, <1>2, <2>1 DEF Records
    <2> QED  BY <1>1, <2>2, <2>3
  <1> QED  BY <1>4, <1>5

LEMMA TransitionKeepsInv ==
    ASSUME IndInv, NEW w \in Workers, Transition(w) \/ TransitionSecondary(w)
    PROVE  IndInv'
  <1>0. /\ run \in [Workers -> Runs] /\ run[w] \in Runs /\ run[w].read \in Records
        /\ run[w].pc \in {"transition", "transitionHooks"} /\ "sync" \notin run[w].todo
    BY Same DEF Runs, Transition, TransitionSecondary, At, IndInv, SyncIsFirst, Settled
  <1>1. PICK pc \in {"transitionHooks", "observed"} : WriteSnapshot(w, pc)
    BY DEF Transition, TransitionSecondary
  <1>2. CASE ~Matches(w)
    BY <1>1, <1>2, WaitKeeps, StepKeepsInv DEF WriteSnapshot
  <1>3. CASE Matches(w)
    <2>1. record' \in Records
      BY <1>0, <1>1, <1>3, WriteSnapshotWrites
    <2>2. PICK read : read = run[w].read
      OBVIOUS
    <2>3. PICK next : next = IF pc = "observed" THEN Record0 ELSE read
      OBVIOUS
    <2>4. PICK r : r = [run[w] EXCEPT !.pc = pc, !.read = next]
      OBVIOUS
    <2>5. r \in Runs /\ r.pc = pc /\ r.read = next /\ r.todo = run[w].todo
      BY <1>0, <2>2, <2>3, <2>4, Record0Type DEF Runs, Settled
    <2>6. run' = [run EXCEPT ![w] = r]
      BY <1>1, <1>3, <2>2, <2>3, <2>4 DEF WriteSnapshot
    <2>7. /\ run' \in [Workers -> Runs] /\ run'[w] = r
          /\ \A v \in Workers \ {w} : run'[v] = run[v]
      BY <1>0, <2>5, <2>6
    <2>8. /\ current' = {w} /\ record' = [read EXCEPT !.stage = "published"]
          /\ UNCHANGED <<intent, save, work, owner, pushed, lapses, cut>>
      BY <1>1, <1>3, <2>2 DEF WriteSnapshot
    <2>9. TypeOK' /\ Types'
      <3>1. \A v \in Workers : run'[v].tries < Attempts
        BY <2>7 DEF Runs
      <3> QED  BY <2>1, <2>7, <2>8, <3>1 DEF IndInv, TypeOK, Types
    <2>10. SyncIsFirst'
      BY <1>0, <2>5, <2>7 DEF IndInv, SyncIsFirst
    <2>11. CurrentReads'
      <3>1. pc = "transitionHooks" => r.read = read
        BY <2>3, <2>5
      <3> QED  BY <2>5, <2>7, <2>8, <3>1 DEF CurrentReads
    <2> QED  BY <2>9, <2>10, <2>11 DEF IndInv
  <1> QED  BY <1>2, <1>3

-----------------------------------------------------------------------------
(* The steps of a save, and of time.                                       *)

(* A new version of the record: nobody has read it.                        *)
LEMMA WritesKeepInv ==
    ASSUME IndInv, NEW s \in Saves, Write(s) \/ PersistSecondary(s)
    PROVE  IndInv'
  <1>1. save' \in [Saves -> SaveForms] /\ record' \in Records
    BY WriteSubmits, PersistSubmits, Same DEF Submits
  <1>2. current' = {} /\ UNCHANGED <<work, owner, run, pushed, lapses, cut>>
    BY DEF Write, PersistSecondary, Overwrite
  <1>3. /\ intent' \in [generation : Nat, saves : SUBSET Saves, initialising : SUBSET Saves]
        /\ intent'.initialising \subseteq intent'.saves
    <2>1. CASE intent' = intent
      BY <2>1, Same
    <2>2. CASE intent' = [generation |-> intent.generation + 1,
                          saves |-> intent.saves \union {s},
                          initialising |-> intent.initialising
                                             \union (IF Hooks THEN {s} ELSE {})]
      BY <2>2, Same
    <2> QED  BY <2>1, <2>2 DEF Write, PersistSecondary
  <1>4. TypeOK' /\ Types'
    BY <1>1, <1>2, <1>3 DEF IndInv, TypeOK, Types
  <1>5. SyncIsFirst' /\ CurrentReads'
    BY <1>2 DEF IndInv, SyncIsFirst, CurrentReads
  <1> QED  BY <1>4, <1>5 DEF IndInv

(* Other steps of saves write nothing to the record, and ask for nothing.  *)
LEMMA SavesKeepInv ==
    ASSUME IndInv, NEW s \in Saves,
           Open(s) \/ Submit(s) \/ ReadyIntent(s) \/ FailHooks(s) \/ StopSave(s)
             \/ RecoverStale(s)
    PROVE  IndInv'
  <1>0. intent \in [generation : Nat, saves : SUBSET Saves, initialising : SUBSET Saves]
        /\ intent.initialising \subseteq intent.saves
    BY Same
  <1>1. save' \in [Saves -> SaveForms]
    <2>1. CASE RecoverStale(s)
      BY <2>1, Same DEF RecoverStale, Types
    <2> QED  BY <2>1, OpenSubmits, SubmitSubmits, EndSubmits, Same DEF Submits
  <1>2. UNCHANGED <<record, current, work, owner, run, pushed, lapses, cut>>
    BY DEF Open, Submit, ReadyIntent, FailHooks, StopSave, RecoverStale
  <1>3. /\ intent' \in [generation : Nat, saves : SUBSET Saves, initialising : SUBSET Saves]
        /\ intent'.initialising \subseteq intent'.saves
        /\ intent'.saves \subseteq intent.saves
    <2>1. CASE intent' = intent
      BY <1>0, <2>1
    <2>2. CASE intent' = [intent EXCEPT !.initialising = @ \ {s}]
      BY <1>0, <2>2
    <2>3. CASE intent' = [intent EXCEPT !.saves = @ \ {s}, !.initialising = @ \ {s}]
      BY <1>0, <2>3
    <2> QED  BY <2>1, <2>2, <2>3
             DEF Open, Submit, ReadyIntent, FailHooks, StopSave, RecoverStale
  <1>4. TypeOK' /\ Types'
    BY <1>1, <1>2, <1>3 DEF IndInv, TypeOK, Types
  <1>5. SyncIsFirst'
    BY <1>2 DEF IndInv, SyncIsFirst
  <1>6. CurrentReads'
    BY <1>2, <1>3 DEF IndInv, CurrentReads
  <1> QED  BY <1>4, <1>5, <1>6 DEF IndInv

LEMMA LapseKeepsInv ==
    ASSUME IndInv, Lapse
    PROVE  IndInv'
  <1>1. /\ UNCHANGED <<record, current, intent, save, work, run, pushed>>
        /\ owner' = NoWorker /\ lapses' = lapses + 1 /\ lapses \in Nat
    BY Same DEF Lapse, Types
  <1>2. cut' \in BOOLEAN /\ (cut => cut')
    BY DEF Lapse
  <1>3. TypeOK' /\ Types'
    BY <1>1, <1>2 DEF IndInv, TypeOK, Types
  <1>4. SyncIsFirst' /\ CurrentReads'
    BY <1>1 DEF IndInv, SyncIsFirst, CurrentReads
  <1> QED  BY <1>3, <1>4 DEF IndInv

-----------------------------------------------------------------------------
(* The theorems.                                                           *)

LEMMA InitInv == Init => IndInv
  <1> SUFFICES ASSUME Init PROVE IndInv
    OBVIOUS
  <1>1. /\ record \in Records /\ run \in [Workers -> Runs]
        /\ \A w \in Workers : run[w].pc = "idle"
    BY Record0Type, IdleType DEF Init
  <1>2. save \in [Saves -> SaveForms]
    BY Record0Type DEF Init, SaveForms
  <1>3. \A w \in Workers : run[w].tries < Attempts
    BY <1>1 DEF Runs
  <1>4. TypeOK
    BY <1>1, <1>3 DEF Init, TypeOK
  <1>5. Types
    BY <1>1, <1>2 DEF Init, Types
  <1>6. SyncIsFirst /\ CurrentReads
    BY <1>1 DEF Init, SyncIsFirst, CurrentReads, Settled
  <1> QED  BY <1>4, <1>5, <1>6 DEF IndInv

LEMMA NextInv == IndInv /\ [Next]_vars => IndInv'
  <1> SUFFICES ASSUME IndInv, [Next]_vars PROVE IndInv'
    OBVIOUS
  <1>1. ASSUME NEW s \in Saves,
               Open(s) \/ Submit(s) \/ SaveStep(s) \/ StopSave(s) \/ RecoverStale(s)
        PROVE  IndInv'
    BY <1>1, WritesKeepInv, SavesKeepInv DEF SaveStep
  <1>2. ASSUME NEW w \in Workers, Start(w) \/ RunStep(w)
        PROVE  IndInv'
    <2>1. CASE Observe(w) \/ Transition(w) \/ TransitionSecondary(w)
      BY <2>1, ObserveKeepsInv, TransitionKeepsInv
    <2>2. CASE ~(Observe(w) \/ Transition(w) \/ TransitionSecondary(w))
      <3>1. StepKeeps(w)
        BY <1>2, <2>2, StartKeeps, ClaimKeeps, PushKeeps, FinishesKeep, RequestKeeps,
           FetchesKeep, CheckpointKeeps, FieldWritesKeep, EndsKeep DEF RunStep
      <3> QED  BY <3>1, StepKeepsInv
    <2> QED  BY <2>1, <2>2
  <1>3. CASE UNCHANGED vars
    BY <1>3 DEF vars, IndInv, TypeOK, Types, SyncIsFirst, CurrentReads
  <1> QED  BY <1>1, <1>2, <1>3, LapseKeepsInv DEF Next

LEMMA InvHolds == Spec => []IndInv
  BY InitInv, NextInv, PTL DEF Spec

(* The declared types; whatever work is owed is due unless a run was cut   *)
(* off; no write is tried more often than it may be.                       *)
THEOREM TypesCorrect == Spec => []TypeOK
  <1>1. IndInv => TypeOK
    BY DEF IndInv
  <1> QED  BY <1>1, InvHolds, PTL

(* Every step of a save other than a recovery goes on with that save.      *)
LEMMA SavesChange ==
    ASSUME IndInv, NEW s \in Saves,
           Open(s) \/ Submit(s) \/ SaveStep(s) \/ StopSave(s)
    PROVE  save' # save
  BY OpenSubmits, SubmitSubmits, WriteSubmits, PersistSubmits, EndSubmits, Same
     DEF SaveStep, Submits

(* What a step that is not a save's does to the record: it adds the link,  *)
(* the references or the publication to what is there.                     *)
LEMMA BackgroundAdds ==
    ASSUME IndInv, Next, save' = save
    PROVE  \/ record' = record
           \/ /\ record'.text = record.text
              /\ record'.stage = record.stage
              /\ record.linked => record'.linked
              /\ record.refs = "url" => record'.refs = "url"
           \/ /\ record'.text = record.text /\ record'.linked = record.linked
              /\ record'.refs = record.refs /\ record'.stage = "published"
              /\ record'.stage # record.stage => intent.saves = {}
  <1>0. record \in Records
    BY Same
  <1>1. CASE \E s \in Saves : Open(s) \/ Submit(s) \/ SaveStep(s) \/ StopSave(s)
    BY <1>1, SavesChange
  <1>2. CASE Lapse \/ \E s \in Saves : RecoverStale(s)
    BY <1>2 DEF Lapse, RecoverStale
  <1>3. CASE \E w \in Workers : Project(w) \/ Cleanup(w)
    <2>1. PICK w \in Workers : Project(w) \/ Cleanup(w)
      BY <1>3
    <2>2. PICK l : l = [record EXCEPT !.linked = TRUE]
      OBVIOUS
    <2>3. PICK u : u = [record EXCEPT !.refs = "url"]
      OBVIOUS
    <2>4. record' \in {record, l, u}
      BY <2>1, <2>2, <2>3 DEF Project, Cleanup, SetRecordFields, Overwrite
    <2>5. /\ l.text = record.text /\ l.stage = record.stage /\ l.linked = TRUE
          /\ l.refs = record.refs
          /\ u.text = record.text /\ u.stage = record.stage /\ u.linked = record.linked
          /\ u.refs = "url"
      BY <1>0, <2>2, <2>3 DEF Records
    <2> QED  BY <2>4, <2>5
  <1>4. CASE \E w \in Workers : Transition(w) \/ TransitionSecondary(w)
    <2>1. PICK w \in Workers : Transition(w) \/ TransitionSecondary(w)
      BY <1>4
    <2>2. PICK pc : WriteSnapshot(w, pc) /\ run[w].pc \in {"transition", "transitionHooks"}
      BY <2>1 DEF Transition, TransitionSecondary, At
    <2>3. CASE Matches(w)
      BY <2>2, <2>3, WriteSnapshotWrites
    <2>4. CASE ~Matches(w)
      BY <2>2, <2>4 DEF WriteSnapshot
    <2> QED  BY <2>3, <2>4
  <1>5. CASE \E w \in Workers : \/ Start(w)
                                \/ /\ RunStep(w) /\ ~Project(w) /\ ~Cleanup(w)
                                   /\ ~Transition(w) /\ ~TransitionSecondary(w)
    <2>1. PICK w \in Workers : \/ Start(w)
                               \/ /\ RunStep(w) /\ ~Project(w) /\ ~Cleanup(w)
                                  /\ ~Transition(w) /\ ~TransitionSecondary(w)
      BY <1>5
    <2> QED  BY <2>1 DEF RunStep, Start, Claim, Push, FinishSync, RequestObservation,
                  ReadToProject, ReadToCleanup, Fetch, CheckpointArticle, FinishCleanup,
                  Observe, FailTransitionHooks, FinishObserve, Release, LeaseLost
  <1> QED  BY <1>1, <1>2, <1>3, <1>4, <1>5 DEF Next

(* A background write keeps the text that the last save wrote, and the     *)
(* link, references and stage that other background writes have set, also  *)
(* after a lost lease or with saves between the writes of a transition.    *)
THEOREM BackgroundWritesKeepRecord == Spec => BackgroundKeepsRecord
  <1>1. IndInv /\ [Next]_vars =>
          [save' = save =>
             /\ record'.text = record.text
             /\ record.stage = "published" => record'.stage = "published"
             /\ record.linked => record'.linked
             /\ record.refs = "url" => record'.refs = "url"]_vars
    <2> SUFFICES ASSUME IndInv, Next, save' = save
                 PROVE  /\ record'.text = record.text
                        /\ record.stage = "published" => record'.stage = "published"
                        /\ record.linked => record'.linked
                        /\ record.refs = "url" => record'.refs = "url"
      OBVIOUS
    <2> QED  BY BackgroundAdds
  <1> QED  BY <1>1, InvHolds, PTL DEF Spec, BackgroundKeepsRecord

(* The record's stage changes only while every save that asked for a sync  *)
(* has been imported: the look at the intent and the write are two steps,  *)
(* and the version that is written under covers what is between them.      *)
THEOREM TransitionsWaitForSaves == Spec => TransitionsSeeNewerSaves
  <1>1. IndInv /\ [Next]_vars =>
          [save' = save /\ record'.stage # record.stage => intent.saves = {}]_vars
    <2> SUFFICES ASSUME IndInv, Next, save' = save, record'.stage # record.stage
                 PROVE  intent.saves = {}
      OBVIOUS
    <2> QED  BY BackgroundAdds
  <1> QED  BY <1>1, InvHolds, PTL DEF Spec, TransitionsSeeNewerSaves

=============================================================================
