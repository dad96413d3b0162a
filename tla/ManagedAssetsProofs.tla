------------------------ MODULE ManagedAssetsProofs ------------------------
(***************************************************************************)
(* That the files of an article are those of its receipts, for every       *)
(* number of workers, contents, links, files, saves and faults: each       *)
(* content has one file and one uploader, a deletion is of what the record *)
(* no longer selects, and a settled sync has mirrored the record.          *)
(***************************************************************************)
EXTENDS ManagedAssets, TLAPS, FiniteSetTheorems

-----------------------------------------------------------------------------
(* What makes the properties inductive                                     *)

Uploading == {"upload", "sending", "complete", "completing", "catch"}
Making == Uploading \union {"init", "creating", "created", "relist"}
Deleting == {"delete", "deleting", "deleted"}
Bound == Uploading \union Deleting \union {"relist"}
Runs == [pc : Making \union Deleting \union {"idle", "gate", "mirror"}, generation : 0..MaxSaves,
         desired : SUBSET Keys, todo : SUBSET Keys,
         listed : [FileIds -> Live \union {"absent", "deleted"}],
         key : Keys \union {NoKey}, file : FileIds \union {NoFile}]
Types ==
    /\ TypeOK /\ wk \in [Workers -> Runs]
    /\ \A w \in Workers : /\ wk[w].pc \in Making \union Deleting => wk[w].key \in Keys
                          /\ wk[w].pc \in Bound \union {"created"} => wk[w].file \in FileIds

\* A receipt has a file from its binding on, and a file that is live has the receipt it
\* was made for, which stays until the file is deleted.
ReceiptsNameFiles ==
    /\ \A k \in Keys :
          IF receipts[k].state \in {"none", "initialising"} THEN receipts[k].file = NoFile
          ELSE /\ receipts[k].file \in FileIds
               /\ files[receipts[k].file].key = k /\ files[receipts[k].file].status # "absent"
    /\ \A f \in FilesIn(Live) :
          /\ files[f].key \in Keys
          /\ LET r == receipts[files[f].key]
             IN  r.state = "initialising" \/ (r.file = f /\ r.state # "removed")
    /\ \A f \in FileIds : files[f].key \in Links => files[f].status \in {"available", "deleted"}

FilesAreUnique == \A f, g \in FilesIn(Live) : files[f].key = files[g].key => f = g

\* An initialisation that may still reach Figshare is of a content without a file.
CreationIsPending(w) ==
    wk[w].pc \in {"init", "creating"} =>
        /\ receipts[wk[w].key].state = "initialising"
        /\ \A f \in FilesIn(Live) : files[f].key # wk[w].key

\* A worker is at work on its receipt's file, or on one that has been deleted since it
\* lost the lease.
WorksOnReceipt(w) ==
    /\ wk[w].pc = "created" /\ owner = w =>
          /\ receipts[wk[w].key].state = "initialising"
          /\ files[wk[w].file].key = wk[w].key /\ files[wk[w].file].status \in Live
    /\ wk[w].pc \in Bound =>
          /\ files[wk[w].file].key = wk[w].key /\ files[wk[w].file].status # "absent"
          /\ \/ receipts[wk[w].key].file = wk[w].file
             \/ files[wk[w].file].status = "deleted" /\ owner # w
    /\ wk[w].pc = "deleted" => files[wk[w].file].status = "deleted"

\* An upload that somebody is at work on is not approved for another.
UploadIsHeld(w) ==
    wk[w].pc \in Uploading /\ receipts[wk[w].key].file = wk[w].file
    => ~receipts[wk[w].key].approved

\* A run's selection is the record's unless the record was saved since, and what it
\* has seen deleted is gone.
RunIsOfItsSave(w) ==
    wk[w].pc # "idle" =>
        /\ wk[w].generation <= record.generation
        /\ wk[w].generation = record.generation => wk[w].desired = Desired
        /\ wk[w].todo \subseteq wk[w].desired
        /\ wk[w].pc = "gate" => wk[w].todo = wk[w].desired
        /\ \A f \in FileIds :
              /\ wk[w].listed[f] # "absent" => files[f].status # "absent"
              /\ wk[w].listed[f] = "deleted" => files[f].status = "deleted"

Mirrored(k) ==
    /\ k \in Links \/ receipts[k].state = "available"
    /\ receipts[k].file \in FileIds
    /\ files[receipts[k].file].status = "available" \/ receipts[k].file \in late

\* What the holder of the lease has behind it is mirrored, and its listing still holds
\* for the files of its selection, but for late deletions.
HolderMirrors(w) ==
    owner = w /\ wk[w].pc \notin {"idle", "gate"} =>
        /\ wk[w].pc \in Making => wk[w].key \in wk[w].todo
        /\ wk[w].pc \in Deleting => /\ wk[w].key \notin wk[w].desired
                                    /\ receipts[wk[w].key].state = "deleting"
        /\ \A k \in wk[w].desired \ wk[w].todo : Mirrored(k)
        /\ \A k \in Keys \ wk[w].desired :
              receipts[k].file \in FileIds => wk[w].listed[receipts[k].file] # "absent"
        /\ \A f \in FileIds :
              wk[w].listed[f] \in Live /\ files[f].key \in wk[w].desired =>
                 \/ f \in late
                 \/ /\ files[f].status \in Live
                    /\ wk[w].listed[f] = "available" => files[f].status = "available"

\* Two workers neither initialise the same content nor upload to the same file.
Apart(v, w) ==
    v = w \/ /\ wk[v].pc \in {"init", "creating"} /\ wk[w].pc \in {"init", "creating"}
                => wk[v].key # wk[w].key
             /\ wk[v].pc \in Uploading /\ wk[w].pc \in Uploading => wk[v].file # wk[w].file

DoneIsSettled ==
    /\ owner # NoWorker => sync = "due"
    /\ sync = "done" =>
          \A k \in Keys : IF k \in Desired THEN Mirrored(k)
                          ELSE receipts[k].state \in {"none", "removed"}

RunInv(w) ==
    /\ CreationIsPending(w) /\ WorksOnReceipt(w) /\ UploadIsHeld(w)
    /\ RunIsOfItsSave(w) /\ HolderMirrors(w)

IndInv ==
    /\ Types /\ ReceiptsNameFiles /\ FilesAreUnique /\ DoneIsSettled
    /\ \A w \in Workers : RunInv(w) /\ \A v \in Workers : Apart(v, w)

Pcs == Making \union Deleting \union {"idle", "gate", "mirror"}
States == {"none", "initialising", "uploading", "completing", "available", "deleting", "removed"}
FileStates == Live \union {"absent", "deleted"}
ReceiptForms == [state : States, file : FileIds \union {NoFile}, approved : BOOLEAN]
FileForms == [key : Keys \union {NoKey}, status : FileStates]

\* Only w moves, and what it read stays as it was.
Moves(w) == wk' \in [Workers -> Runs] /\ \A v \in Workers : v # w => wk'[v] = wk[v]
SameRun(w) ==
    /\ wk'[w].generation = wk[w].generation /\ wk'[w].desired = wk[w].desired
SameTodo(w) == wk'[w].todo = wk[w].todo
SameListing(w) == wk'[w].listed = wk[w].listed
SameWork(w) == wk'[w].key = wk[w].key /\ wk'[w].file = wk[w].file

-----------------------------------------------------------------------------
(* What the operators of the model do to the state                         *)

LEMMA Fields ==
    ASSUME Types, NEW w \in Workers
    PROVE  /\ wk[w] \in Runs /\ wk[w].pc \in Pcs /\ wk[w].generation \in 0..MaxSaves
           /\ wk[w].desired \subseteq Keys /\ wk[w].todo \subseteq Keys
           /\ wk[w].listed \in [FileIds -> FileStates]
           /\ wk[w].key \in Keys \union {NoKey} /\ wk[w].file \in FileIds \union {NoFile}
  BY DEF Types, Runs, Pcs, FileStates

LEMMA GotoMoves ==
    ASSUME Types, NEW w \in Workers, NEW pc \in Pcs, Goto(w, pc)
    PROVE  /\ Moves(w) /\ wk'[w].pc = pc
           /\ SameRun(w) /\ SameTodo(w) /\ SameListing(w) /\ SameWork(w)
  BY DEF Types, Goto, Moves, SameRun, SameTodo, SameListing, SameWork, Runs, Pcs

LEMMA Puts ==
    ASSUME Types, NEW w \in Workers, NEW r \in Runs, wk' = [wk EXCEPT ![w] = r]
    PROVE  Moves(w) /\ wk'[w] = r
  BY DEF Types, Moves

\* A worker takes a content up, with its file if it has one.
LEMMA TakesUp ==
    ASSUME Types, NEW w \in Workers, NEW pc \in Pcs, NEW k \in Keys, NEW g \in FileIds,
           wk' = [wk EXCEPT ![w].pc = pc, ![w].key = k, ![w].file = g]
    PROVE  /\ Moves(w) /\ wk'[w].pc = pc /\ wk'[w].key = k /\ wk'[w].file = g
           /\ wk'[w].todo = wk[w].todo /\ SameRun(w) /\ SameListing(w)
<1>1. PICK r : r = [wk[w] EXCEPT !.pc = pc, !.key = k, !.file = g]
  OBVIOUS
<1>2. wk[w] \in Runs /\ wk' = [wk EXCEPT ![w] = r]
  BY <1>1, Fields
<1>3. /\ r \in Runs /\ r.pc = pc /\ r.key = k /\ r.file = g /\ r.todo = wk[w].todo
      /\ r.listed = wk[w].listed /\ r.generation = wk[w].generation /\ r.desired = wk[w].desired
  BY <1>1, <1>2 DEF Runs, Pcs
<1> QED
  BY <1>2, <1>3, Puts DEF SameRun, SameListing

LEMMA TakesUpNew ==
    ASSUME Types, NEW w \in Workers, NEW pc \in Pcs, NEW k \in Keys,
           wk' = [wk EXCEPT ![w].pc = pc, ![w].key = k]
    PROVE  /\ Moves(w) /\ wk'[w].pc = pc /\ wk'[w].key = k
           /\ wk'[w].todo = wk[w].todo /\ SameRun(w) /\ SameListing(w)
<1>1. PICK r : r = [wk[w] EXCEPT !.pc = pc, !.key = k]
  OBVIOUS
<1>2. wk[w] \in Runs /\ wk' = [wk EXCEPT ![w] = r]
  BY <1>1, Fields
<1>3. /\ r \in Runs /\ r.pc = pc /\ r.key = k /\ r.todo = wk[w].todo
      /\ r.listed = wk[w].listed /\ r.generation = wk[w].generation /\ r.desired = wk[w].desired
  BY <1>1, <1>2 DEF Runs, Pcs
<1> QED
  BY <1>2, <1>3, Puts DEF SameRun, SameListing

\* A worker that has done with a content goes back to the list.
LEMMA PutsDownAnew ==
    ASSUME Types, NEW w \in Workers, NEW t \in SUBSET Keys, NEW l \in [FileIds -> FileStates],
           wk' = [wk EXCEPT ![w].pc = "mirror", ![w].listed = l, ![w].todo = t,
                            ![w].key = NoKey, ![w].file = NoFile]
    PROVE  /\ Moves(w) /\ SameRun(w)
           /\ wk'[w].pc = "mirror" /\ wk'[w].todo = t /\ wk'[w].listed = l
<1>1. PICK r : r = [wk[w] EXCEPT !.pc = "mirror", !.listed = l, !.todo = t,
                                 !.key = NoKey, !.file = NoFile]
  OBVIOUS
<1>2. wk[w] \in Runs /\ wk' = [wk EXCEPT ![w] = r]
  BY <1>1, Fields
<1>3. /\ r \in Runs /\ r.pc = "mirror" /\ r.todo = t /\ r.listed = l
      /\ r.generation = wk[w].generation /\ r.desired = wk[w].desired
  BY <1>1, <1>2 DEF Runs, FileStates
<1> QED
  BY <1>2, <1>3, Puts DEF SameRun

LEMMA PutsDown ==
    ASSUME Types, NEW w \in Workers, NEW t \in SUBSET Keys,
           wk' = [wk EXCEPT ![w].pc = "mirror", ![w].todo = t,
                            ![w].key = NoKey, ![w].file = NoFile]
    PROVE  /\ Moves(w) /\ SameRun(w) /\ SameListing(w)
           /\ wk'[w].pc = "mirror" /\ wk'[w].todo = t
<1>1. PICK r : r = [wk[w] EXCEPT !.pc = "mirror", !.todo = t, !.key = NoKey, !.file = NoFile]
  OBVIOUS
<1>2. wk[w] \in Runs /\ wk' = [wk EXCEPT ![w] = r]
  BY <1>1, Fields
<1>3. /\ r \in Runs /\ r.pc = "mirror" /\ r.todo = t /\ r.listed = wk[w].listed
      /\ r.generation = wk[w].generation /\ r.desired = wk[w].desired
  BY <1>1, <1>2 DEF Runs
<1> QED
  BY <1>2, <1>3, Puts DEF SameRun, SameListing

LEMMA PutsDownDeleted ==
    ASSUME Types, NEW w \in Workers,
           wk' = [wk EXCEPT ![w].pc = "mirror", ![w].key = NoKey, ![w].file = NoFile]
    PROVE  /\ Moves(w) /\ SameRun(w) /\ SameListing(w) /\ SameTodo(w) /\ wk'[w].pc = "mirror"
<1>1. PICK r : r = [wk[w] EXCEPT !.pc = "mirror", !.key = NoKey, !.file = NoFile]
  OBVIOUS
<1>2. wk[w] \in Runs /\ wk' = [wk EXCEPT ![w] = r]
  BY <1>1, Fields
<1>3. /\ r \in Runs /\ r.pc = "mirror" /\ r.todo = wk[w].todo /\ r.listed = wk[w].listed
      /\ r.generation = wk[w].generation /\ r.desired = wk[w].desired
  BY <1>1, <1>2 DEF Runs
<1> QED
  BY <1>2, <1>3, Puts DEF SameRun, SameListing, SameTodo

LEMMA Checkpoints ==
    ASSUME Types, NEW w \in Workers, NEW k \in Keys, NEW state \in States,
           NEW file \in FileIds \union {NoFile}, NEW approved \in BOOLEAN,
           Checkpoint(w, k, state, file, approved)
    PROVE  /\ owner = w /\ receipts' \in [Keys -> ReceiptForms]
           /\ receipts'[k].state = state /\ receipts'[k].file = file
           /\ receipts'[k].approved = approved
           /\ \A j \in Keys : j # k => receipts'[j] = receipts[j]
<1>1. receipts \in [Keys -> ReceiptForms]
  BY DEF Types, TypeOK, ReceiptForms, States
<1>2. PICK r : r = [state |-> state, file |-> file, approved |-> approved]
  OBVIOUS
<1>3. r \in ReceiptForms /\ r.state = state /\ r.file = file /\ r.approved = approved
  BY <1>2 DEF ReceiptForms
<1>4. owner = w /\ receipts' = [receipts EXCEPT ![k] = r]
  BY <1>2 DEF Checkpoint
<1> QED
  BY <1>1, <1>3, <1>4

LEMMA FileChanges ==
    ASSUME Types, NEW f \in FileIds, NEW key \in Keys, NEW status \in FileStates,
           ToFile(f, key, status)
    PROVE  /\ files' \in [FileIds -> FileForms]
           /\ files'[f].key = key /\ files'[f].status = status
           /\ \A g \in FileIds : g # f => files'[g] = files[g]
<1>1. files \in [FileIds -> FileForms]
  BY DEF Types, TypeOK, FileForms, FileStates
<1>2. PICK r : r = [key |-> key, status |-> status]
  OBVIOUS
<1>3. r \in FileForms /\ r.key = key /\ r.status = status
  BY <1>2 DEF FileForms
<1>4. files' = [files EXCEPT ![f] = r]
  BY <1>2 DEF ToFile
<1> QED
  BY <1>1, <1>3, <1>4

LEMMA IdleForm ==
    /\ Idle \in Runs /\ Idle.pc = "idle" /\ Idle.key = NoKey /\ Idle.file = NoFile
    /\ Idle.todo = {} /\ Idle.desired = {} /\ \A f \in FileIds : Idle.listed[f] = "absent"
  BY BoundsAssumption DEF Idle, Runs, FileStates

LEMMA Ends ==
    ASSUME Types, NEW w \in Workers, NEW result, End(w, result)
    PROVE  /\ Moves(w) /\ wk'[w].pc = "idle"
           /\ owner = w => /\ owner' = NoWorker
                           /\ IF record.generation = wk[w].generation THEN sync' = result
                              ELSE sync' = "due"
           /\ owner # w => owner' = owner /\ sync' = sync
<1>1. wk' = [wk EXCEPT ![w] = Idle] /\ wk \in [Workers -> Runs]
  BY DEF End, Types
<1>2. Moves(w) /\ wk'[w].pc = "idle"
  BY <1>1, IdleForm DEF Moves
<1> QED
  BY <1>2 DEF End

-----------------------------------------------------------------------------
(* What a step leaves to the workers that do not take it                   *)

\* A file that was made stays what it is until it is deleted, only a file of a receipt is
\* deleted, and somebody else than the holder of the lease deletes late.
FilesGoOn(M) ==
    /\ late \subseteq late'
    /\ \A f \in FileIds :
          /\ files[f].status # "absent" =>
                files'[f].key = files[f].key /\ files'[f].status # "absent"
          /\ files[f].status = "deleted" => files'[f].status = "deleted"
          /\ files[f].status \in Live /\ files'[f].status \notin Live =>
                /\ \E k \in Keys : receipts[k].file = f
                /\ f \in late' \/ owner \in M
          /\ files[f].status = "available" => files'[f].status \in {"available", "deleted"}

\* A receipt keeps its file until that is deleted, and its initialisation until the file
\* is there.
ReceiptsGoOn(M) ==
    \A k \in Keys :
        /\ receipts[k].file \in FileIds =>
              \/ receipts'[k].file = receipts[k].file
              \/ files'[receipts[k].file].status = "deleted"
        /\ receipts[k].state = "initialising" /\ (\A f \in FilesIn(Live) : files[f].key # k) =>
              \/ /\ receipts'[k].state = "initialising"
                 /\ \A f \in FileIds : files'[f].status \in Live => files'[f].key # k
              \/ \E w \in M : wk[w].pc = "creating" /\ wk[w].key = k
        /\ receipts'[k].approved =>
              \/ receipts[k].approved /\ receipts'[k].file = receipts[k].file
              \/ \E w \in M : wk[w].pc = "catch" /\ receipts'[k].file = wk[w].file
              \/ \A w \in Workers : wk[w].key # k

\* Steps of the workers M, the others being where they were.
Frame(M) ==
    /\ FilesGoOn(M) /\ ReceiptsGoOn(M)
    /\ owner' \in {owner, NoWorker} \union M
    /\ owner \in Workers \ M => receipts' = receipts
    /\ record' = record \/ record'.generation = record.generation + 1
    /\ \A v \in Workers \ M : wk'[v] = wk[v]

LEMMA Known ==
    ASSUME Types
    PROVE  /\ receipts \in [Keys -> ReceiptForms] /\ files \in [FileIds -> FileForms]
           /\ \A k \in Keys : /\ receipts[k].state \in States /\ receipts[k].approved \in BOOLEAN
                              /\ receipts[k].file \in FileIds \union {NoFile}
           /\ \A f \in FileIds : /\ files[f].key \in Keys \union {NoKey}
                               /\ files[f].status \in FileStates
           /\ record.generation \in 0..MaxSaves /\ record.selected \subseteq Keys
  BY DEF Types, TypeOK, ReceiptForms, FileForms, States, FileStates

LEMMA NamedFiles ==
    ASSUME ReceiptsNameFiles, NEW k \in Keys, receipts[k].file \in FileIds
    PROVE  /\ receipts[k].state \notin {"none", "initialising"}
           /\ files[receipts[k].file].key = k /\ files[receipts[k].file].status # "absent"
  BY BoundsAssumption DEF ReceiptsNameFiles

LEMMA OthersKeep ==
    ASSUME IndInv, NEW M \in SUBSET Workers, Frame(M), NEW v \in Workers \ M
    PROVE  RunInv(v)'
<1> USE Known
<1>1. /\ Types /\ ReceiptsNameFiles /\ FilesAreUnique /\ RunInv(v)
      /\ \A w \in M : Apart(v, w)
  BY DEF IndInv
<1>2. wk'[v] = wk[v] /\ \A w \in M : v # w
  BY DEF Frame
<1>3. owner' = v => owner = v /\ receipts' = receipts
  BY BoundsAssumption DEF Frame
<1>4. CreationIsPending(v)'
  <2> SUFFICES ASSUME wk[v].pc \in {"init", "creating"} PROVE CreationIsPending(v)'
    BY <1>2 DEF CreationIsPending
  <2>1. /\ wk[v].key \in Keys /\ receipts[wk[v].key].state = "initialising"
        /\ \A f \in FilesIn(Live) : files[f].key # wk[v].key
    BY <1>1 DEF RunInv, CreationIsPending, Types, Making
  <2>2. \A w \in M : ~(wk[w].pc = "creating" /\ wk[w].key = wk[v].key)
    BY <1>1, <1>2 DEF Apart
  <2>3. /\ receipts'[wk[v].key].state = "initialising"
        /\ \A f \in FileIds : files'[f].status \in Live => files'[f].key # wk[v].key
    BY <2>1, <2>2 DEF Frame, ReceiptsGoOn
  <2> QED
    BY <1>2, <2>3 DEF CreationIsPending, FilesIn
<1>5. WorksOnReceipt(v)'
  <2>1. CASE wk[v].pc = "created" /\ owner' = v
    <3>1. /\ wk[v].key \in Keys /\ wk[v].file \in FileIds /\ receipts' = receipts
          /\ receipts[wk[v].key].state = "initialising" /\ receipts[wk[v].key].file = NoFile
          /\ files[wk[v].file].key = wk[v].key /\ files[wk[v].file].status \in Live
      BY <1>1, <1>3, <2>1 DEF RunInv, WorksOnReceipt, ReceiptsNameFiles, Types, Making
    <3>2. \A k \in Keys : receipts[k].file = wk[v].file => files[wk[v].file].key = k
      BY <1>1, <3>1, BoundsAssumption DEF ReceiptsNameFiles
    <3>3. ~\E k \in Keys : receipts[k].file = wk[v].file
      BY <3>1, <3>2, BoundsAssumption
    <3>4. files[wk[v].file].status # "absent"
      BY <3>1 DEF Live
    <3>5. files'[wk[v].file].key = wk[v].key /\ files'[wk[v].file].status \in Live
      BY <3>1, <3>3, <3>4 DEF Frame, FilesGoOn
    <3> QED
      BY <1>2, <2>1, <3>1, <3>5 DEF WorksOnReceipt, Bound, Uploading, Deleting
  <2>2. CASE wk[v].pc \in Bound
    <3>1. /\ wk[v].key \in Keys /\ wk[v].file \in FileIds
          /\ files[wk[v].file].key = wk[v].key /\ files[wk[v].file].status # "absent"
          /\ \/ receipts[wk[v].key].file = wk[v].file
             \/ files[wk[v].file].status = "deleted" /\ owner # v
          /\ wk[v].pc = "deleted" => files[wk[v].file].status = "deleted"
      BY <1>1, <2>2 DEF RunInv, WorksOnReceipt, Types, Bound, Uploading, Deleting, Making
    <3>2. /\ files'[wk[v].file].key = wk[v].key /\ files'[wk[v].file].status # "absent"
          /\ files[wk[v].file].status = "deleted" => files'[wk[v].file].status = "deleted"
      BY <3>1 DEF Frame, FilesGoOn
    <3>3. \/ receipts'[wk[v].key].file = wk[v].file
          \/ files'[wk[v].file].status = "deleted" /\ owner' # v
      BY <1>3, <3>1, <3>2 DEF Frame, ReceiptsGoOn
    <3> QED
      BY <1>2, <2>2, <3>1, <3>2, <3>3 DEF WorksOnReceipt, Bound, Uploading, Deleting
  <2> QED
    BY <1>2, <2>1, <2>2 DEF WorksOnReceipt, Bound, Deleting
<1>6. UploadIsHeld(v)'
  <2> SUFFICES ASSUME wk[v].pc \in Uploading, receipts'[wk[v].key].file = wk[v].file,
                      receipts'[wk[v].key].approved
               PROVE  FALSE
    BY <1>2 DEF UploadIsHeld
  <2>1. wk[v].key \in Keys
    BY <1>1 DEF Types, Making
  <2>2. \A w \in M : ~(wk[w].pc = "catch" /\ receipts'[wk[v].key].file = wk[w].file)
    BY <1>1, <1>2 DEF Apart, Uploading
  <2> QED
    BY <1>1, <2>1, <2>2 DEF Frame, ReceiptsGoOn, RunInv, UploadIsHeld
<1>7. RunIsOfItsSave(v)'
  <2>1. wk[v].generation \in Nat /\ record.generation \in Nat
    BY <1>1, Fields, BoundsAssumption
  <2>2. \A f \in FileIds : files[f].status # "absent" => files'[f].status # "absent"
    BY DEF Frame, FilesGoOn
  <2>3. \A f \in FileIds : files[f].status = "deleted" => files'[f].status = "deleted"
    BY DEF Frame, FilesGoOn
  <2>4. record'.generation = record.generation \/ record'.generation = record.generation + 1
    BY DEF Frame
  <2>5. record'.generation = record.generation => Desired' = Desired
    <3>1. record'.generation = record.generation => record' = record
      BY <2>1 DEF Frame
    <3> QED
      BY <3>1 DEF Desired
  <2> QED
    BY <1>1, <1>2, <2>1, <2>2, <2>3, <2>4, <2>5 DEF RunInv, RunIsOfItsSave
<1>8. HolderMirrors(v)'
  <2> SUFFICES ASSUME owner' = v, wk[v].pc \notin {"idle", "gate"} PROVE HolderMirrors(v)'
    BY <1>2 DEF HolderMirrors
  <2>1. /\ owner = v /\ receipts' = receipts /\ owner \notin M
        /\ wk[v].desired \subseteq Keys /\ wk[v].listed \in [FileIds -> FileStates]
    BY <1>1, <1>3, Fields
  <2>2. \A k \in Keys : Mirrored(k) => Mirrored(k)'
    BY <1>1, <2>1 DEF Mirrored, Frame, FilesGoOn, Live
  <2>3. \A f \in FileIds :
           wk[v].listed[f] \in Live /\ files'[f].key \in wk[v].desired =>
              \/ f \in late'
              \/ /\ files'[f].status \in Live
                 /\ wk[v].listed[f] = "available" => files'[f].status = "available"
    <3> TAKE f \in FileIds
    <3> SUFFICES ASSUME wk[v].listed[f] \in Live, files'[f].key \in wk[v].desired, f \notin late'
                 PROVE  /\ files'[f].status \in Live
                        /\ wk[v].listed[f] = "available" => files'[f].status = "available"
      OBVIOUS
    <3>1. files[f].status # "absent" /\ files'[f].key = files[f].key /\ f \notin late
      BY <1>1, <2>1 DEF RunInv, RunIsOfItsSave, Frame, FilesGoOn, Live
    <3>2. /\ files[f].status \in Live
          /\ wk[v].listed[f] = "available" => files[f].status = "available"
      BY <1>1, <2>1, <3>1 DEF RunInv, HolderMirrors
    <3> QED
      BY <2>1, <3>2 DEF Frame, FilesGoOn, Live
  <2>4. HolderMirrors(v)
    BY <1>1 DEF RunInv
  <2> QED
    BY <1>2, <2>1, <2>2, <2>3, <2>4 DEF HolderMirrors
<1> QED
  BY <1>4, <1>5, <1>6, <1>7, <1>8 DEF RunInv

\* Nobody who did not yet comes near another.
Keeps(w) ==
    /\ wk'[w].pc \in {"init", "creating"} =>
          wk[w].pc \in {"init", "creating"} /\ wk'[w].key = wk[w].key
    /\ wk'[w].pc \in Uploading => wk[w].pc \in Uploading /\ wk'[w].file = wk[w].file

LEMMA Together ==
    ASSUME IndInv, NEW w \in Workers, Moves(w), Frame({w}), RunInv(w)',
           Types', ReceiptsNameFiles', FilesAreUnique', DoneIsSettled',
           Keeps(w) \/ \A v \in Workers : v # w => Apart(v, w)'
    PROVE  IndInv'
<1>1. \A v \in Workers : RunInv(v)'
  BY OthersKeep
<1>2. \A u, v \in Workers : Apart(u, v)'
  BY DEF IndInv, Apart, Keeps, Moves
<1> QED
  BY <1>1, <1>2 DEF IndInv

-----------------------------------------------------------------------------
(* Steps that change neither receipts nor files                            *)

Quiet == UNCHANGED <<record, receipts, files, late>> /\ faults' \in 0..MaxFaults

LEMMA FaultyFaults ==
    ASSUME Types, Faulty \/ UNCHANGED faults
    PROVE  faults' \in 0..MaxFaults
  BY BoundsAssumption DEF Faulty, Types, TypeOK

LEMMA QuietKeeps ==
    ASSUME IndInv, NEW M \in SUBSET Workers, Quiet, owner' \in {owner, NoWorker} \union M,
           \A v \in Workers \ M : wk'[v] = wk[v]
    PROVE  Frame(M) /\ ReceiptsNameFiles' /\ FilesAreUnique'
<1>1. FilesGoOn(M)
  BY DEF Quiet, FilesGoOn, Live
<1>2. ReceiptsGoOn(M)
  BY DEF Quiet, ReceiptsGoOn, FilesIn
<1>3. ReceiptsNameFiles' /\ FilesAreUnique'
  BY DEF IndInv, Quiet, ReceiptsNameFiles, FilesAreUnique, FilesIn
<1> QED
  BY <1>1, <1>2, <1>3 DEF Frame, Quiet

LEMMA QuietTypes ==
    ASSUME Types, Quiet, owner' \in Workers \union {NoWorker}, sync' \in {"due", "repair", "done"},
           wk' \in [Workers -> Runs],
           \A w \in Workers : /\ wk'[w].pc \in Making \union Deleting => wk'[w].key \in Keys
                              /\ wk'[w].pc \in Bound \union {"created"} => wk'[w].file \in FileIds
    PROVE  Types'
<1>1. TypeOK'
  BY DEF Types, TypeOK, Quiet, Bound, Uploading, Deleting
<1> QED
  BY <1>1 DEF Types

LEMMA QuietSettled ==
    ASSUME IndInv, Quiet, owner' # NoWorker => sync' = "due", sync' = "done" => sync = "done"
    PROVE  DoneIsSettled'
  BY DEF IndInv, DoneIsSettled, Quiet, Mirrored, Desired

\* A worker gets on with what it is at.
LEMMA GoesOn ==
    ASSUME IndInv, NEW w \in Workers, NEW pc, Goto(w, pc), Quiet, UNCHANGED <<owner, sync>>,
           \/ wk[w].pc = "init" /\ pc = "creating"
           \/ wk[w].pc \in Uploading /\ pc \in Uploading
           \/ /\ wk[w].pc \in Deleting /\ pc \in Deleting
              /\ pc = "deleted" => files[wk[w].file].status = "deleted"
    PROVE  IndInv'
<1> USE DEF Bound, Making, Uploading, Deleting
<1>1. pc \in Pcs /\ Types
  BY DEF IndInv, Pcs
<1>2. /\ Moves(w) /\ wk'[w].pc = pc
      /\ SameRun(w) /\ SameTodo(w) /\ SameListing(w) /\ SameWork(w)
  BY <1>1, GotoMoves
<1>3. Frame({w}) /\ ReceiptsNameFiles' /\ FilesAreUnique'
  BY <1>2, QuietKeeps DEF Moves
<1>4. Types'
  BY <1>1, <1>2, QuietTypes DEF Moves, SameWork, Types, TypeOK
<1>5. DoneIsSettled'
  BY QuietSettled DEF IndInv, DoneIsSettled
<1>6. RunInv(w)
  BY DEF IndInv
<1>7. CreationIsPending(w)'
  BY <1>2, <1>6 DEF RunInv, CreationIsPending, Quiet, FilesIn, SameWork
<1>8. WorksOnReceipt(w)'
  BY <1>2, <1>6 DEF RunInv, WorksOnReceipt, Quiet, SameWork
<1>9. UploadIsHeld(w)'
  BY <1>2, <1>6 DEF RunInv, UploadIsHeld, Quiet, SameWork
<1>10. RunIsOfItsSave(w)'
  BY <1>2, <1>6 DEF RunInv, RunIsOfItsSave, Quiet, SameRun, SameTodo, SameListing, Desired
<1>11. HolderMirrors(w)'
  BY <1>2, <1>6 DEF RunInv, HolderMirrors, Quiet, SameRun, SameTodo, SameListing, SameWork,
                   Mirrored
<1>12. Keeps(w)
  BY <1>2 DEF Keeps, SameWork
<1> QED
  BY <1>2, <1>3, <1>4, <1>5, <1>7, <1>8, <1>9, <1>10, <1>11, <1>12, Together DEF RunInv

\* Nothing is asked of a worker that is idle.
LEMMA IdleInv ==
    ASSUME NEW w \in Workers, wk'[w].pc = "idle"
    PROVE  RunInv(w)' /\ Keeps(w)
  BY DEF RunInv, CreationIsPending, WorksOnReceipt, UploadIsHeld, RunIsOfItsSave, HolderMirrors,
         Keeps, Bound, Making, Uploading, Deleting

LEMMA Leaves ==
    ASSUME IndInv, NEW w \in Workers, Moves(w), wk'[w].pc = "idle", Quiet,
           owner' \in {owner, NoWorker}, sync' \in {"due", "repair", "done"}, DoneIsSettled'
    PROVE  IndInv'
<1>1. Frame({w}) /\ ReceiptsNameFiles' /\ FilesAreUnique'
  BY QuietKeeps DEF Moves
<1>2. Types'
  BY QuietTypes DEF IndInv, Types, TypeOK, Moves, Bound, Making, Uploading, Deleting
<1> QED
  BY <1>1, <1>2, IdleInv, Together

\* A run that ends without having settled the sync.
LEMMA GivesUp ==
    ASSUME IndInv, NEW w \in Workers, NEW result \in {"due", "repair"}, End(w, result), Quiet
    PROVE  IndInv'
<1>1. Types
  BY DEF IndInv
<1>2. Moves(w) /\ wk'[w].pc = "idle"
  BY <1>1, Ends
<1>3. /\ owner = w => owner' = NoWorker /\ sync' \in {"due", "repair"}
      /\ owner # w => owner' = owner /\ sync' = sync
  BY <1>1, Ends
<1>4. sync' \in {"due", "repair", "done"} /\ owner' \in {owner, NoWorker}
  BY <1>1, <1>3 DEF Types, TypeOK
<1>5. DoneIsSettled'
  BY <1>3, QuietSettled DEF IndInv, DoneIsSettled
<1> QED
  BY <1>2, <1>4, <1>5, Leaves

-----------------------------------------------------------------------------
(* The actions that change neither receipts nor files                      *)

LEMMA QuietNow ==
    ASSUME Types, UNCHANGED <<record, receipts, files, late>>, Faulty \/ UNCHANGED faults
    PROVE  Quiet
  BY FaultyFaults DEF Quiet

LEMMA ClaimKeeps ==
    ASSUME IndInv, NEW w \in Workers, Claim(w)
    PROVE  IndInv'
<1>1. Types
  BY DEF IndInv
<1>2. Quiet
  BY <1>1, QuietNow DEF Claim
<1>3. Desired \subseteq Keys /\ record.generation \in 0..MaxSaves
  BY <1>1, Known DEF Desired
<1>4. PICK r : r = [Idle EXCEPT !.pc = "gate", !.generation = record.generation,
                                !.desired = Desired, !.todo = Desired]
  OBVIOUS
<1>5. /\ r \in Runs /\ r.pc = "gate" /\ r.generation = record.generation
      /\ r.desired = Desired /\ r.todo = Desired /\ \A f \in FileIds : r.listed[f] = "absent"
  BY <1>3, <1>4, IdleForm DEF Idle, Runs
<1>6. wk' = [wk EXCEPT ![w] = r] /\ wk \in [Workers -> Runs]
  BY <1>1, <1>4 DEF Claim, Types
<1>7. Moves(w) /\ wk'[w] = r
  BY <1>5, <1>6 DEF Moves
<1>8. Frame({w}) /\ ReceiptsNameFiles' /\ FilesAreUnique'
  BY <1>2, <1>7, QuietKeeps DEF Claim, Moves
<1>9. Types'
  BY <1>1, <1>2, <1>5, <1>7, QuietTypes DEF Claim, Moves, Types, Making, Bound, Uploading, Deleting
<1>10. DoneIsSettled'
  BY <1>2, QuietSettled DEF Claim
<1>11. RunIsOfItsSave(w)'
  <2>1. record' = record /\ Desired' = Desired
    BY <1>2 DEF Quiet, Desired
  <2>2. record.generation <= record.generation
    BY <1>3, BoundsAssumption
  <2> QED
    BY <1>5, <1>7, <2>1, <2>2 DEF RunIsOfItsSave
<1>12. RunInv(w)' /\ Keeps(w)
  BY <1>5, <1>7, <1>11 DEF RunInv, CreationIsPending, WorksOnReceipt, UploadIsHeld, HolderMirrors,
                           Keeps, Bound, Uploading, Deleting
<1> QED
  BY <1>7, <1>8, <1>9, <1>10, <1>12, Together

LEMMA GateKeeps ==
    ASSUME IndInv, NEW w \in Workers, Gate(w)
    PROVE  IndInv'
<1>1. Types /\ RunInv(w) /\ ReceiptsNameFiles
  BY DEF IndInv
<1>2. Quiet
  BY <1>1, QuietNow DEF Gate
<1>3. CASE /\ wk' = [wk EXCEPT ![w].pc = "mirror", ![w].listed = Statuses]
           /\ UNCHANGED <<owner, sync>>
  <2>1. Statuses \in [FileIds -> FileStates] /\ \A f \in FileIds : Statuses[f] = files[f].status
    BY <1>1, Known DEF Statuses
  <2>2. /\ Moves(w) /\ wk'[w].pc = "mirror" /\ wk'[w].listed = Statuses
        /\ SameRun(w) /\ SameTodo(w) /\ SameWork(w)
    <3>1. PICK l : l = Statuses
      OBVIOUS
    <3>2. l \in [FileIds -> FileStates]
      BY <2>1, <3>1
    <3>3. wk' = [wk EXCEPT ![w].pc = "mirror", ![w].listed = l] /\ wk \in [Workers -> Runs]
      BY <1>1, <1>3, <3>1 DEF Types
    <3>4. /\ Moves(w) /\ wk'[w].pc = "mirror" /\ wk'[w].listed = l
          /\ SameRun(w) /\ SameTodo(w) /\ SameWork(w)
      <4>1. PICK r : r = [wk[w] EXCEPT !.pc = "mirror", !.listed = l]
        OBVIOUS
      <4>2. wk[w] \in Runs /\ wk' = [wk EXCEPT ![w] = r]
        BY <1>1, <3>3, <4>1, Fields
      <4>3. /\ r \in Runs /\ r.pc = "mirror" /\ r.listed = l /\ r.todo = wk[w].todo
            /\ r.key = wk[w].key /\ r.file = wk[w].file
            /\ r.generation = wk[w].generation /\ r.desired = wk[w].desired
        BY <3>2, <4>1, <4>2 DEF Runs, FileStates
      <4> QED
        BY <1>1, <4>2, <4>3, Puts DEF SameRun, SameTodo, SameWork
    <3> QED
      BY <3>1, <3>4
  <2>3. Frame({w}) /\ ReceiptsNameFiles' /\ FilesAreUnique'
    BY <1>2, <1>3, <2>2, QuietKeeps DEF Moves
  <2>4. Types'
    BY <1>1, <1>2, <1>3, <2>2, QuietTypes
       DEF Moves, Types, TypeOK, Making, Bound, Uploading, Deleting
  <2>5. DoneIsSettled'
    BY <1>2, <1>3, QuietSettled DEF IndInv, DoneIsSettled
  <2>6. wk[w].pc = "gate" /\ wk[w].todo = wk[w].desired /\ wk[w].desired \subseteq Keys
    <3>1. wk[w].pc = "gate" /\ wk[w].desired \subseteq Keys
      BY <1>1, Fields DEF Gate, At
    <3> QED
      BY <1>1, <3>1 DEF RunInv, RunIsOfItsSave
  <2>7. RunIsOfItsSave(w)'
    <3>1. record' = record /\ Desired' = Desired /\ files' = files
      BY <1>2 DEF Quiet, Desired
    <3>2. /\ wk[w].generation <= record.generation
          /\ wk[w].generation = record.generation => wk[w].desired = Desired
      BY <1>1, <2>6 DEF RunInv, RunIsOfItsSave
    <3> QED
      BY <2>1, <2>2, <2>6, <3>1, <3>2 DEF RunIsOfItsSave, SameRun, SameTodo
  <2>8. HolderMirrors(w)'
    <3>1. receipts' = receipts /\ files' = files
      BY <1>2 DEF Quiet
    <3>2. \A k \in Keys : receipts[k].file \in FileIds => Statuses[receipts[k].file] # "absent"
      BY <1>1, <2>1, NamedFiles
    <3>3. wk'[w].desired \ wk'[w].todo = {}
      BY <2>2, <2>6 DEF SameRun, SameTodo
    <3> QED
      BY <2>1, <2>2, <3>1, <3>2, <3>3
         DEF HolderMirrors, SameRun, SameTodo, Making, Uploading, Deleting
  <2>9. RunInv(w)' /\ Keeps(w)
    BY <2>2, <2>7, <2>8 DEF RunInv, CreationIsPending, WorksOnReceipt, UploadIsHeld,
                           Keeps, Bound, Uploading, Deleting
  <2> QED
    BY <2>2, <2>3, <2>4, <2>5, <2>9, Together
<1>4. CASE \E result \in {"due", "repair"} : End(w, result)
  BY <1>2, <1>4, GivesUp
<1> QED
  BY <1>3, <1>4 DEF Gate

LEMMA VerifyLinkKeeps ==
    ASSUME IndInv, NEW w \in Workers, VerifyLink(w)
    PROVE  IndInv'
<1>1. Types /\ RunInv(w) /\ ReceiptsNameFiles
  BY DEF IndInv
<1>2. PICK k \in wk[w].todo :
         /\ wk[w].pc = "mirror" /\ owner = w /\ k \in Links
         /\ receipts[k].file \in FileIds /\ wk[w].listed[receipts[k].file] \in Live
         /\ wk' = [wk EXCEPT ![w].todo = @ \ {k}]
  BY DEF VerifyLink, At, ListedAs
<1>3. Quiet /\ UNCHANGED <<owner, sync>>
  BY <1>1, QuietNow DEF VerifyLink
<1>4. /\ Moves(w) /\ wk'[w].pc = "mirror" /\ wk'[w].todo = wk[w].todo \ {k}
      /\ SameRun(w) /\ SameListing(w) /\ SameWork(w)
  BY <1>1, <1>2 DEF Types, Runs, Moves, SameRun, SameListing, SameWork
<1>5. k \in Keys /\ k \in wk[w].desired
  BY <1>1, <1>2, Fields DEF RunInv, RunIsOfItsSave
<1>6. Mirrored(k)
  <2>1. files[receipts[k].file].key = k
    BY <1>1, <1>2, <1>5, BoundsAssumption DEF ReceiptsNameFiles
  <2>2. receipts[k].file \in late \/ files[receipts[k].file].status \in Live
    BY <1>1, <1>2, <1>5, <2>1 DEF RunInv, HolderMirrors
  <2>3. files[receipts[k].file].status \in {"available", "deleted"}
    BY <1>1, <1>2, <2>1 DEF ReceiptsNameFiles
  <2> QED
    BY <1>2, <2>2, <2>3 DEF Mirrored, Live
<1>7. Frame({w}) /\ ReceiptsNameFiles' /\ FilesAreUnique'
  BY <1>3, <1>4, QuietKeeps DEF Moves
<1>8. Types'
  BY <1>1, <1>3, <1>4, QuietTypes
     DEF Moves, Types, TypeOK, Making, Bound, Uploading, Deleting
<1>9. DoneIsSettled'
  BY <1>3, QuietSettled DEF IndInv, DoneIsSettled
<1>10. RunIsOfItsSave(w)'
  BY <1>1, <1>2, <1>3, <1>4 DEF RunInv, RunIsOfItsSave, Quiet, SameRun, SameListing, Desired
<1>11. HolderMirrors(w)'
  BY <1>1, <1>2, <1>3, <1>4, <1>6
     DEF RunInv, HolderMirrors, Quiet, SameRun, SameListing, Mirrored, Making, Uploading, Deleting
<1>12. RunInv(w)' /\ Keeps(w)
  BY <1>4, <1>10, <1>11 DEF RunInv, CreationIsPending, WorksOnReceipt, UploadIsHeld,
                           Keeps, Bound, Uploading, Deleting
<1> QED
  BY <1>4, <1>7, <1>8, <1>9, <1>12, Together

LEMMA SendsKeep ==
    ASSUME IndInv, NEW w \in Workers,
           \/ SendCreate(w) \/ SendParts(w) \/ UploadParts(w) \/ UploadFails(w) \/ SendDelete(w)
    PROVE  IndInv'
<1>1. Types /\ RunInv(w) /\ ReceiptsNameFiles
  BY DEF IndInv
<1>2. Quiet
  BY <1>1, QuietNow DEF SendCreate, SendParts, UploadParts, UploadFails, SendDelete
<1>3. CASE SendCreate(w)
  BY <1>2, <1>3, GoesOn, GivesUp DEF SendCreate, At
<1>4. CASE SendParts(w)
  BY <1>2, <1>4, GoesOn DEF SendParts, At, Uploading
<1>5. CASE UploadParts(w)
  BY <1>2, <1>5, GoesOn DEF UploadParts, At, Uploading
<1>6. CASE UploadFails(w)
  BY <1>2, <1>6, GoesOn DEF UploadFails, Uploading
<1>7. CASE SendDelete(w)
  <2>1. wk[w].pc = "delete" /\ owner = w
    BY <1>7 DEF SendDelete, At
  <2>2. ASSUME ~ListedAs(w, wk[w].file, Live)
        PROVE  files[wk[w].file].status = "deleted"
    <3>1. /\ wk[w].file \in FileIds /\ wk[w].listed \in [FileIds -> FileStates]
          /\ wk[w].key \in Keys /\ wk[w].key \notin wk[w].desired
          /\ receipts[wk[w].key].file = wk[w].file
      BY <1>1, <2>1, Fields DEF Types, RunInv, WorksOnReceipt, HolderMirrors,
                                Bound, Making, Uploading, Deleting
    <3>2. wk[w].listed[wk[w].file] # "absent"
      BY <1>1, <2>1, <3>1 DEF RunInv, HolderMirrors
    <3>3. wk[w].listed[wk[w].file] = "deleted"
      BY <2>2, <3>1, <3>2 DEF ListedAs, FileStates, Live
    <3> QED
      BY <1>1, <2>1, <3>1, <3>3 DEF RunInv, RunIsOfItsSave
  <2>3. \/ /\ Goto(w, "deleted") /\ ~ListedAs(w, wk[w].file, Live)
           /\ UNCHANGED <<owner, sync>>
        \/ Goto(w, "deleting") /\ UNCHANGED <<owner, sync>>
        \/ End(w, "due")
    BY <1>7 DEF SendDelete
  <2>4. "delete" \in Deleting /\ "deleting" \in Deleting /\ "deleted" \in Deleting
    BY DEF Deleting
  <2> QED
    BY <1>2, <2>1, <2>2, <2>3, <2>4, GoesOn, GivesUp
<1> QED
  BY <1>3, <1>4, <1>5, <1>6, <1>7

LEMMA UnresolvedKeeps ==
    ASSUME IndInv, NEW w \in Workers, Unresolved(w)
    PROVE  IndInv'
<1>1. Types
  BY DEF IndInv
<1>2. Quiet
  BY <1>1, QuietNow DEF Unresolved
<1> QED
  BY <1>2, GivesUp DEF Unresolved

\* The sync of the record as it is has been mirrored; one of an earlier save stays due.
LEMMA FinishKeeps ==
    ASSUME IndInv, NEW w \in Workers, Finish(w)
    PROVE  IndInv'
<1>1. Types /\ RunInv(w) /\ ReceiptsNameFiles
  BY DEF IndInv
<1>2. Quiet /\ End(w, "done") /\ owner = w
  BY <1>1, QuietNow DEF Finish
<1>3. /\ wk[w].pc = "mirror" /\ wk[w].todo = {}
      /\ \A k \in Keys \ wk[w].desired : receipts[k].state \in {"none", "removed"}
  BY DEF Finish, At, Undesired
<1>4. /\ Moves(w) /\ wk'[w].pc = "idle" /\ owner' = NoWorker
      /\ IF record.generation = wk[w].generation THEN sync' = "done" ELSE sync' = "due"
  BY <1>1, <1>2, Ends
<1>5. \A k \in wk[w].desired : Mirrored(k)
  BY <1>1, <1>2, <1>3 DEF RunInv, HolderMirrors
<1>6. record.generation = wk[w].generation => wk[w].desired = Desired
  BY <1>1, <1>3 DEF RunInv, RunIsOfItsSave
<1>7. Desired' = Desired /\ receipts' = receipts /\ \A k : Mirrored(k) => Mirrored(k)'
  BY <1>2 DEF Quiet, Desired, Mirrored
<1>8. DoneIsSettled'
  BY <1>3, <1>4, <1>5, <1>6, <1>7 DEF DoneIsSettled
<1> QED
  BY <1>2, <1>4, <1>8, Leaves

LEMMA LossesKeep ==
    ASSUME IndInv, NEW w \in Workers, LeaseLost(w) \/ Stop(w)
    PROVE  IndInv'
<1>1. Types
  BY DEF IndInv
<1>2. Quiet /\ owner' \in {owner, NoWorker} /\ sync' = sync
  BY <1>1, QuietNow DEF LeaseLost, Stop
<1>3. wk' = [wk EXCEPT ![w] = Idle] /\ wk \in [Workers -> Runs]
  BY <1>1 DEF LeaseLost, Stop, Types
<1>4. Moves(w) /\ wk'[w].pc = "idle"
  BY <1>3, IdleForm DEF Moves
<1>5. DoneIsSettled'
  BY <1>2, QuietSettled DEF IndInv, DoneIsSettled
<1>6. sync' \in {"due", "repair", "done"}
  BY <1>1, <1>2 DEF Types, TypeOK
<1> QED
  BY <1>2, <1>4, <1>5, <1>6, Leaves

LEMMA LapseKeeps ==
    ASSUME IndInv, Lapse
    PROVE  IndInv'
<1>1. Types /\ owner \in Workers
  BY DEF IndInv, Types, TypeOK, Lapse
<1>2. Quiet /\ owner' = NoWorker /\ sync' = sync
  BY <1>1, QuietNow DEF Lapse
<1>3. DoneIsSettled'
  BY <1>2, QuietSettled DEF IndInv, DoneIsSettled
<1>4. CASE wk' = [wk EXCEPT ![owner] = Idle]
  <2>1. Moves(owner) /\ wk'[owner].pc = "idle"
    BY <1>1, <1>4, IdleForm DEF Moves, Types
  <2>2. sync' \in {"due", "repair", "done"}
    BY <1>1, <1>2 DEF Types, TypeOK
  <2> HIDE DEF Moves
  <2>3. PICK w \in Workers : w = owner
    BY <1>1
  <2>4. Moves(w) /\ wk'[w].pc = "idle"
    BY <2>1, <2>3 DEF Moves
  <2> QED
    BY <1>2, <1>3, <2>2, <2>4, Leaves
<1>5. CASE wk' = wk
  <2>1. Frame({}) /\ ReceiptsNameFiles' /\ FilesAreUnique'
    BY <1>2, <1>5, QuietKeeps
  <2>2. \A v \in Workers : RunInv(v)'
    BY <2>1, OthersKeep
  <2>3. Types'
    BY <1>1, <1>2, <1>5, QuietTypes DEF Types, TypeOK
  <2>4. \A u, v \in Workers : Apart(u, v)'
    BY <1>5 DEF IndInv, Apart
  <2> QED
    BY <1>3, <2>1, <2>2, <2>3, <2>4 DEF IndInv
<1> QED
  BY <1>4, <1>5 DEF Lapse

LEMMA SaveKeeps ==
    ASSUME IndInv, Save
    PROVE  IndInv'
<1>1. Types /\ UNCHANGED <<owner, receipts, files, wk, faults, late>> /\ sync' = "due"
  BY DEF IndInv, Save
<1>2. PICK S \in Selections : record' = [generation |-> record.generation + 1, selected |-> S]
  BY DEF Save
<1>3. record.generation \in 0..MaxSaves /\ record.generation < MaxSaves
  BY <1>1, Known DEF Save
<1>4. record' \in [generation : 0..MaxSaves, selected : SUBSET Keys]
  BY <1>2, <1>3, BoundsAssumption
<1>5. Types'
  BY <1>1, <1>4 DEF Types, TypeOK
<1>6. Frame({})
  <2>1. FilesGoOn({})
    BY <1>1 DEF FilesGoOn, Live
  <2>2. ReceiptsGoOn({})
    BY <1>1 DEF ReceiptsGoOn, FilesIn
  <2> QED
    BY <1>1, <1>2, <2>1, <2>2 DEF Frame
<1>7. ReceiptsNameFiles' /\ FilesAreUnique'
  BY <1>1 DEF IndInv, ReceiptsNameFiles, FilesAreUnique, FilesIn
<1>8. DoneIsSettled'
  BY <1>1 DEF DoneIsSettled
<1>9. \A v \in Workers : RunInv(v)'
  BY <1>6, OthersKeep
<1>10. \A u, v \in Workers : Apart(u, v)'
  BY <1>1 DEF IndInv, Apart
<1> QED
  BY <1>5, <1>7, <1>8, <1>9, <1>10 DEF IndInv

-----------------------------------------------------------------------------
(* Checkpoints: the actions that change a receipt under the lease          *)

\* What the new receipt of content k must not undo.
Continues(w, k, state, file, approved) ==
    /\ receipts[k].file \in FileIds =>
          file = receipts[k].file \/ files[receipts[k].file].status = "deleted"
    /\ receipts[k].state = "initialising" => \E f \in FilesIn(Live) : files[f].key = k
    /\ approved => \/ receipts[k].approved /\ file = receipts[k].file
                   \/ wk[w].pc = "catch" /\ file = wk[w].file
    /\ state \in States \ {"none"}
    /\ IF state = "initialising" THEN file = NoFile
       ELSE file \in FileIds /\ files[file].key = k /\ files[file].status # "absent"
    /\ \A f \in FilesIn(Live) : files[f].key = k =>
          state = "initialising" \/ (file = f /\ state # "removed")

LEMMA CheckpointKeeps ==
    ASSUME IndInv, NEW w \in Workers, Moves(w), NEW k \in Keys, NEW state,
           NEW file, NEW approved \in BOOLEAN,
           Checkpoint(w, k, state, file, approved), Continues(w, k, state, file, approved),
           UNCHANGED <<record, files, faults, late>>,
           sync' \in {"due", "repair"}, owner' = NoWorker \/ UNCHANGED <<owner, sync>>,
           wk'[w].pc \in Making \union Deleting => wk'[w].key \in Keys,
           wk'[w].pc \in Bound \union {"created"} => wk'[w].file \in FileIds
    PROVE  Frame({w}) /\ Types' /\ ReceiptsNameFiles' /\ FilesAreUnique' /\ DoneIsSettled'
<1>1. /\ Types /\ ReceiptsNameFiles /\ FilesAreUnique /\ DoneIsSettled
      /\ state \in States /\ file \in FileIds \union {NoFile}
  BY DEF IndInv, Continues
<1>2. /\ owner = w /\ receipts' \in [Keys -> ReceiptForms]
      /\ receipts'[k].state = state /\ receipts'[k].file = file
      /\ receipts'[k].approved = approved
      /\ \A j \in Keys : j # k => receipts'[j] = receipts[j]
  BY <1>1, Checkpoints
<1>3. FilesGoOn({w})
  BY <1>2 DEF FilesGoOn, Live
<1>4. ReceiptsGoOn({w})
  <2> SUFFICES ASSUME NEW j \in Keys
               PROVE  ReceiptsGoOn({w})!(j)
    BY DEF ReceiptsGoOn
  <2>1. CASE j = k
    BY <1>2, <2>1 DEF Continues
  <2>2. CASE j # k
    BY <1>2, <2>2 DEF FilesIn
  <2> QED
    BY <2>1, <2>2
<1>5. Frame({w})
  BY <1>2, <1>3, <1>4 DEF Frame, Moves
<1>6. ReceiptsNameFiles'
  <2>1. ASSUME NEW j \in Keys
        PROVE  IF receipts'[j].state \in {"none", "initialising"} THEN receipts'[j].file = NoFile
               ELSE /\ receipts'[j].file \in FileIds
                    /\ files[receipts'[j].file].key = j
                    /\ files[receipts'[j].file].status # "absent"
    <3>1. CASE j = k
      BY <1>2, <3>1 DEF Continues
    <3>2. CASE j # k
      BY <1>1, <1>2, <3>2 DEF ReceiptsNameFiles
    <3> QED
      BY <3>1, <3>2
  <2>2. ASSUME NEW f \in FilesIn(Live)
        PROVE  /\ files[f].key \in Keys
               /\ \/ receipts'[files[f].key].state = "initialising"
                  \/ receipts'[files[f].key].file = f /\ receipts'[files[f].key].state # "removed"
    <3>1. files[f].key \in Keys
      BY <1>1 DEF ReceiptsNameFiles
    <3>2. CASE files[f].key = k
      BY <1>2, <3>2 DEF Continues
    <3>3. CASE files[f].key # k
      BY <1>1, <1>2, <3>1, <3>3 DEF ReceiptsNameFiles
    <3> QED
      BY <3>1, <3>2, <3>3
  <2>3. FilesIn(Live)' = FilesIn(Live) /\ files' = files
    BY DEF FilesIn, Live
  <2> QED
    BY <1>1, <2>1, <2>2, <2>3 DEF ReceiptsNameFiles
<1>7. FilesAreUnique'
  BY <1>1 DEF FilesAreUnique, FilesIn
<1>8. DoneIsSettled'
  BY <1>1, <1>2, BoundsAssumption DEF DoneIsSettled
<1>9. Types'
  BY <1>1, <1>2 DEF Types, TypeOK, Moves, ReceiptForms, States, Bound, Uploading, Deleting
<1> QED
  BY <1>5, <1>6, <1>7, <1>8, <1>9

\* The holder goes on behind a checkpoint of content k.
LEMMA HolderGoesOn ==
    ASSUME IndInv, NEW w \in Workers, owner = w, wk[w].pc \notin {"idle", "gate"}, NEW k \in Keys,
           SameRun(w), SameListing(w), wk'[w].pc \notin {"idle", "gate"},
           \A j \in Keys : j # k => receipts'[j] = receipts[j],
           UNCHANGED <<record, files, late>>, owner' = owner,
           wk'[w].todo \subseteq wk[w].todo, wk[w].todo \subseteq wk'[w].todo \union {k},
           k \in wk[w].desired \ wk'[w].todo => Mirrored(k)',
           k \notin wk[w].desired => receipts'[k].file = receipts[k].file,
           wk'[w].pc \in Making => wk'[w].key \in wk'[w].todo,
           wk'[w].pc \in Deleting => /\ wk'[w].key \notin wk[w].desired
                                     /\ receipts'[wk'[w].key].state = "deleting"
    PROVE  RunIsOfItsSave(w)' /\ HolderMirrors(w)'
<1>1. RunIsOfItsSave(w) /\ HolderMirrors(w) /\ wk[w].desired \subseteq Keys
  BY Fields DEF IndInv, RunInv
<1>2. Desired' = Desired
  BY DEF Desired
<1>3. RunIsOfItsSave(w)'
  BY <1>1, <1>2 DEF RunIsOfItsSave, SameRun, SameListing
<1>4. \A j \in wk[w].desired \ wk'[w].todo : Mirrored(j)'
  <2> TAKE j \in wk[w].desired \ wk'[w].todo
  <2>1. CASE j = k
    BY <2>1
  <2>2. CASE j # k
    <3>1. Mirrored(j) /\ receipts'[j] = receipts[j]
      BY <1>1, <2>2 DEF HolderMirrors
    <3> QED
      BY <3>1 DEF Mirrored
  <2> QED
    BY <2>1, <2>2
<1>5. \A j \in Keys \ wk[w].desired :
         receipts'[j].file \in FileIds => wk[w].listed[receipts'[j].file] # "absent"
  BY <1>1 DEF HolderMirrors
<1> QED
  BY <1>1, <1>3, <1>4, <1>5 DEF HolderMirrors, SameRun, SameListing

\* Between two contents a worker has no work of its own.
LEMMA AtMirror ==
    ASSUME NEW w \in Workers, wk'[w].pc = "mirror"
    PROVE  CreationIsPending(w)' /\ WorksOnReceipt(w)' /\ UploadIsHeld(w)' /\ Keeps(w)
  BY DEF CreationIsPending, WorksOnReceipt, UploadIsHeld, Keeps, Bound, Uploading, Deleting

LEMMA LiveFiles ==
    ASSUME ReceiptsNameFiles, NEW k \in Keys, receipts[k].state # "initialising"
    PROVE  \A f \in FilesIn(Live) : files[f].key = k =>
               receipts[k].file = f /\ receipts[k].state # "removed"
  BY DEF ReceiptsNameFiles

LEMMA VerifyKeeps ==
    ASSUME IndInv, NEW w \in Workers, Verify(w)
    PROVE  IndInv'
<1>1. Types /\ RunInv(w) /\ ReceiptsNameFiles /\ DoneIsSettled
  BY DEF IndInv
<1>2. PICK k \in wk[w].todo :
         /\ wk[w].pc = "mirror" /\ k \notin Links
         /\ receipts[k].file \in FileIds /\ wk[w].listed[receipts[k].file] = "available"
         /\ Checkpoint(w, k, "available", receipts[k].file, receipts[k].approved)
         /\ wk' = [wk EXCEPT ![w].todo = @ \ {k}]
         /\ UNCHANGED <<record, sync, owner, files, faults, late>>
  BY DEF Verify, At, ListedAs
<1>3. /\ k \in Keys /\ k \in wk[w].desired /\ owner = w
      /\ receipts[k].file \in FileIds \union {NoFile} /\ receipts[k].approved \in BOOLEAN
  BY <1>1, <1>2, Known, Fields DEF RunInv, RunIsOfItsSave, Checkpoint
<1>4. /\ Moves(w) /\ wk'[w].pc = "mirror" /\ wk'[w].todo = wk[w].todo \ {k}
      /\ SameRun(w) /\ SameListing(w)
  BY <1>1, <1>2, SMTT(30) DEF Types, Runs, Moves, SameRun, SameListing
<1>5. /\ receipts'[k].state = "available" /\ receipts'[k].file = receipts[k].file
      /\ \A j \in Keys : j # k => receipts'[j] = receipts[j]
  BY <1>1, <1>2, <1>3, Checkpoints DEF States
<1>6. /\ receipts[k].state \notin {"none", "initialising"}
      /\ files[receipts[k].file].key = k /\ files[receipts[k].file].status # "absent"
  BY <1>1, <1>2, <1>3, NamedFiles
<1>7. Continues(w, k, "available", receipts[k].file, receipts[k].approved)
  BY <1>1, <1>2, <1>3, <1>6, LiveFiles DEF Continues, States
<1>8. Frame({w}) /\ Types' /\ ReceiptsNameFiles' /\ FilesAreUnique' /\ DoneIsSettled'
  <2>1. sync' = "due" /\ UNCHANGED <<record, files, faults, late>> /\ UNCHANGED <<owner, sync>>
    BY <1>1, <1>2, <1>3, BoundsAssumption DEF DoneIsSettled
  <2>2. wk'[w].pc \notin Making \union Deleting \union Bound \union {"created"}
    BY <1>4 DEF Making, Bound, Uploading, Deleting
  <2> QED
    BY <1>2, <1>3, <1>4, <1>7, <2>1, <2>2, CheckpointKeeps
<1>9. Mirrored(k)'
  <2>1. receipts[k].file \in late \/ files[receipts[k].file].status = "available"
    BY <1>1, <1>2, <1>3, <1>6 DEF RunInv, HolderMirrors, Live
  <2> QED
    BY <1>2, <1>5, <2>1 DEF Mirrored
<1>10. RunIsOfItsSave(w)' /\ HolderMirrors(w)'
  <2>1. wk'[w].pc \notin Making \union Deleting \union {"idle", "gate"}
    BY <1>4 DEF Making, Uploading, Deleting
  <2>2. wk[w].pc \notin {"idle", "gate"}
    BY <1>2
  <2> QED
    BY <1>2, <1>3, <1>4, <1>5, <1>9, <2>1, <2>2, HolderGoesOn
<1> QED
  BY <1>4, <1>8, <1>10, AtMirror, Together DEF RunInv

\* What the state says of an upload's holder.
LEMMA HolderFacts ==
    ASSUME IndInv, NEW w \in Workers, owner = w, wk[w].pc \in Bound
    PROVE  /\ wk[w].key \in Keys /\ wk[w].file \in FileIds
           /\ receipts[wk[w].key].file = wk[w].file
           /\ receipts[wk[w].key].state \in States \ {"none", "initialising"}
           /\ receipts[wk[w].key].approved \in BOOLEAN
           /\ files[wk[w].file].key = wk[w].key /\ files[wk[w].file].status # "absent"
           /\ \A f \in FilesIn(Live) : files[f].key = wk[w].key =>
                 f = wk[w].file /\ receipts[wk[w].key].state # "removed"
           /\ sync = "due"
<1>1. /\ Types /\ ReceiptsNameFiles /\ DoneIsSettled /\ WorksOnReceipt(w)
  BY DEF IndInv, RunInv
<1>2. wk[w].key \in Keys /\ wk[w].file \in FileIds
  BY <1>1 DEF Types, Bound, Making, Uploading, Deleting
<1>3. receipts[wk[w].key].file = wk[w].file
  BY <1>1 DEF WorksOnReceipt
<1>4. /\ receipts[wk[w].key].state \notin {"none", "initialising"}
      /\ files[wk[w].file].key = wk[w].key /\ files[wk[w].file].status # "absent"
  BY <1>1, <1>2, <1>3, NamedFiles
<1>5. receipts[wk[w].key].state \in States /\ receipts[wk[w].key].approved \in BOOLEAN
  BY <1>1, <1>2, Known
<1>6. \A f \in FilesIn(Live) : files[f].key = wk[w].key =>
         f = wk[w].file /\ receipts[wk[w].key].state # "removed"
  BY <1>1, <1>2, <1>3, <1>4, LiveFiles
<1>7. sync = "due"
  BY <1>1, BoundsAssumption DEF DoneIsSettled
<1> QED
  BY <1>2, <1>3, <1>4, <1>5, <1>6, <1>7

\* An approved upload has no uploader.
LEMMA ResumeKeeps ==
    ASSUME IndInv, NEW w \in Workers, Resume(w)
    PROVE  IndInv'
<1>1. Types /\ RunInv(w) /\ ReceiptsNameFiles /\ DoneIsSettled
  BY DEF IndInv
<1>2. PICK k \in wk[w].todo :
         /\ wk[w].pc = "mirror" /\ receipts[k].approved
         /\ receipts[k].file \in FileIds
         /\ Checkpoint(w, k, "uploading", receipts[k].file, FALSE)
         /\ wk' = [wk EXCEPT ![w].pc = "upload", ![w].key = k, ![w].file = receipts[k].file]
         /\ UNCHANGED <<record, sync, owner, files, faults, late>>
  BY DEF Resume, At, Resumable, ListedAs
<1>3. k \in Keys /\ k \in wk[w].desired /\ owner = w
  BY <1>1, <1>2, Fields DEF RunInv, RunIsOfItsSave, Checkpoint
<1>4. PICK g \in FileIds : g = receipts[k].file
  BY <1>2
<1>5. /\ Moves(w) /\ wk'[w].pc = "upload" /\ wk'[w].key = k /\ wk'[w].file = g
      /\ wk'[w].todo = wk[w].todo /\ SameRun(w) /\ SameListing(w)
  <2>1. wk' = [wk EXCEPT ![w].pc = "upload", ![w].key = k, ![w].file = g]
    BY <1>2, <1>4
  <2>2. "upload" \in Pcs
    BY DEF Pcs, Making, Uploading
  <2> QED
    BY <1>1, <1>3, <2>1, <2>2, TakesUp
<1>6. /\ receipts'[k].state = "uploading" /\ receipts'[k].file = g
      /\ receipts'[k].approved = FALSE
      /\ \A j \in Keys : j # k => receipts'[j] = receipts[j]
  BY <1>1, <1>2, <1>3, <1>4, Checkpoints DEF States
<1>7. /\ receipts[k].state \notin {"none", "initialising"}
      /\ files[g].key = k /\ files[g].status # "absent"
  BY <1>1, <1>2, <1>3, <1>4, NamedFiles
<1>8. Continues(w, k, "uploading", g, FALSE)
  BY <1>1, <1>3, <1>4, <1>7, LiveFiles DEF Continues, States
<1>9. Frame({w}) /\ Types' /\ ReceiptsNameFiles' /\ FilesAreUnique' /\ DoneIsSettled'
  <2>1. sync' = "due" /\ UNCHANGED <<record, files, faults, late>> /\ UNCHANGED <<owner, sync>>
    BY <1>1, <1>2, <1>3, BoundsAssumption DEF DoneIsSettled
  <2>2. Checkpoint(w, k, "uploading", g, FALSE)
    BY <1>2, <1>4
  <2> QED
    BY <1>3, <1>5, <1>8, <2>1, <2>2, CheckpointKeeps
<1>10. RunIsOfItsSave(w)' /\ HolderMirrors(w)'
  <2>1. "upload" \in Making /\ "upload" \notin Deleting \union {"idle", "gate"}
    BY DEF Making, Uploading, Deleting
  <2>2. UNCHANGED <<record, files, late>> /\ owner' = owner /\ wk[w].pc \notin {"idle", "gate"}
    BY <1>2
  <2> QED
    BY <1>2, <1>3, <1>5, <1>6, <2>1, <2>2, HolderGoesOn
<1>11. CreationIsPending(w)' /\ WorksOnReceipt(w)' /\ UploadIsHeld(w)'
  BY <1>2, <1>5, <1>6, <1>7 DEF CreationIsPending, WorksOnReceipt, UploadIsHeld
<1>12. ASSUME NEW v \in Workers, v # w PROVE Apart(v, w)'
  <2>1. ASSUME wk[v].pc \in Uploading, wk[v].file = g PROVE FALSE
    <3>1. wk[v].key = k
      BY <1>7, <2>1 DEF IndInv, RunInv, WorksOnReceipt, Bound
    <3> QED
      BY <1>2, <1>4, <2>1, <3>1 DEF IndInv, RunInv, UploadIsHeld
  <2> QED
    BY <1>5, <1>12, <2>1 DEF Apart, Moves
<1> QED
  BY <1>5, <1>9, <1>10, <1>11, <1>12, Together DEF RunInv

\* An initialisation begins only when there is none and no file.
LEMMA InitialiseKeeps ==
    ASSUME IndInv, NEW w \in Workers, Initialise(w)
    PROVE  IndInv'
<1>1. Types /\ RunInv(w) /\ ReceiptsNameFiles /\ DoneIsSettled
  BY DEF IndInv
<1>2. PICK k \in wk[w].todo :
         /\ wk[w].pc = "mirror" /\ receipts[k].state \in {"none", "removed"}
         /\ Checkpoint(w, k, "initialising", NoFile, FALSE)
         /\ wk' = [wk EXCEPT ![w].pc = "init", ![w].key = k]
         /\ UNCHANGED <<record, sync, owner, files, faults, late>>
  BY DEF Initialise, At, Initialisable
<1>3. k \in Keys /\ k \in wk[w].desired /\ owner = w
  BY <1>1, <1>2, Fields DEF RunInv, RunIsOfItsSave, Checkpoint
<1>4. /\ Moves(w) /\ wk'[w].pc = "init" /\ wk'[w].key = k
      /\ wk'[w].todo = wk[w].todo /\ SameRun(w) /\ SameListing(w)
  <2>1. "init" \in Pcs
    BY DEF Pcs, Making
  <2> QED
    BY <1>1, <1>2, <1>3, <2>1, TakesUpNew
<1>5. /\ receipts'[k].state = "initialising" /\ receipts'[k].file = NoFile
      /\ \A j \in Keys : j # k => receipts'[j] = receipts[j]
  BY <1>1, <1>2, <1>3, Checkpoints DEF States
<1>6. \A f \in FilesIn(Live) : files[f].key # k
  BY <1>1, <1>2, <1>3, LiveFiles, BoundsAssumption DEF ReceiptsNameFiles, FilesIn
<1>7. receipts[k].file \in FileIds => files[receipts[k].file].status = "deleted"
  BY <1>1, <1>3, <1>6, NamedFiles, Known DEF FilesIn, FileStates
<1>8. Continues(w, k, "initialising", NoFile, FALSE)
  BY <1>2, <1>6, <1>7 DEF Continues, States
<1>9. Frame({w}) /\ Types' /\ ReceiptsNameFiles' /\ FilesAreUnique' /\ DoneIsSettled'
  <2>1. sync' = "due" /\ UNCHANGED <<record, files, faults, late>> /\ UNCHANGED <<owner, sync>>
    BY <1>1, <1>2, <1>3, BoundsAssumption DEF DoneIsSettled
  <2>2. wk'[w].pc \notin Bound \union {"created"}
    BY <1>4 DEF Bound, Uploading, Deleting
  <2> QED
    BY <1>2, <1>3, <1>4, <1>8, <2>1, <2>2, CheckpointKeeps
<1>10. RunIsOfItsSave(w)' /\ HolderMirrors(w)'
  <2>1. "init" \in Making /\ "init" \notin Deleting \union {"idle", "gate"}
    BY DEF Making, Uploading, Deleting
  <2>2. UNCHANGED <<record, files, late>> /\ owner' = owner /\ wk[w].pc \notin {"idle", "gate"}
    BY <1>2
  <2> QED
    BY <1>2, <1>3, <1>4, <1>5, <2>1, <2>2, HolderGoesOn
<1>11. CreationIsPending(w)' /\ WorksOnReceipt(w)' /\ UploadIsHeld(w)'
  BY <1>2, <1>4, <1>5, <1>6
     DEF CreationIsPending, WorksOnReceipt, UploadIsHeld, FilesIn, Bound, Uploading, Deleting
<1>12. ASSUME NEW v \in Workers, v # w PROVE Apart(v, w)'
  <2>1. wk[v].pc \in {"init", "creating"} => wk[v].key # k
    BY <1>2 DEF IndInv, RunInv, CreationIsPending
  <2> QED
    BY <1>4, <1>12, <2>1 DEF Apart, Moves, Uploading
<1> QED
  BY <1>4, <1>9, <1>10, <1>11, <1>12, Together DEF RunInv

\* The holder of a new file is its only worker.
LEMMA NewFile ==
    ASSUME IndInv, NEW w \in Workers, owner = w, wk[w].pc = "created"
    PROVE  /\ wk[w].key \in Keys /\ wk[w].file \in FileIds
           /\ receipts[wk[w].key].state = "initialising" /\ receipts[wk[w].key].file = NoFile
           /\ files[wk[w].file].key = wk[w].key /\ files[wk[w].file].status \in Live
           /\ \A f \in FilesIn(Live) : files[f].key = wk[w].key => f = wk[w].file
           /\ \A v \in Workers : ~(wk[v].pc \in Bound /\ wk[v].file = wk[w].file)
           /\ sync = "due" /\ wk[w].key \in wk[w].desired
<1>1. /\ Types /\ ReceiptsNameFiles /\ DoneIsSettled /\ FilesAreUnique /\ RunInv(w)
  BY DEF IndInv
<1>2. wk[w].key \in Keys /\ wk[w].file \in FileIds
  BY <1>1 DEF Types, Making
<1>3. /\ receipts[wk[w].key].state = "initialising" /\ receipts[wk[w].key].file = NoFile
      /\ files[wk[w].file].key = wk[w].key /\ files[wk[w].file].status \in Live
  BY <1>1, <1>2 DEF RunInv, WorksOnReceipt, ReceiptsNameFiles
<1>4. \A f \in FilesIn(Live) : files[f].key = wk[w].key => f = wk[w].file
  BY <1>1, <1>2, <1>3 DEF FilesAreUnique, FilesIn
<1>5. ASSUME NEW v \in Workers, wk[v].pc \in Bound, wk[v].file = wk[w].file PROVE FALSE
  <2>1. wk[v].key = wk[w].key /\ receipts[wk[v].key].file = wk[w].file
    BY <1>3, <1>5 DEF IndInv, RunInv, WorksOnReceipt, Live
  <2> QED
    BY <1>2, <1>3, <2>1, BoundsAssumption
<1>6. sync = "due" /\ wk[w].key \in wk[w].desired
  BY <1>1, BoundsAssumption DEF DoneIsSettled, RunInv, HolderMirrors, RunIsOfItsSave, Making
<1> QED
  BY <1>2, <1>3, <1>4, <1>5, <1>6

LEMMA BindFileKeeps ==
    ASSUME IndInv, NEW w \in Workers, BindFile(w)
    PROVE  IndInv'
<1>1. Types /\ RunInv(w)
  BY DEF IndInv
<1>2. PICK k \in Keys, g \in FileIds : k = wk[w].key /\ g = wk[w].file
  BY <1>1 DEF BindFile, At, Types, Making
<1>3. /\ wk[w].pc = "created" /\ Checkpoint(w, k, "uploading", g, FALSE) /\ Goto(w, "upload")
      /\ UNCHANGED <<record, sync, owner, files, faults, late>> /\ owner = w
  BY <1>2 DEF BindFile, At, Checkpoint
<1>4. /\ receipts[k].state = "initialising" /\ receipts[k].file = NoFile
      /\ files[g].key = k /\ files[g].status \in Live
      /\ \A f \in FilesIn(Live) : files[f].key = k => f = g
      /\ \A v \in Workers : ~(wk[v].pc \in Bound /\ wk[v].file = g)
      /\ sync = "due" /\ k \in wk[w].desired
  BY <1>2, <1>3, NewFile
<1>5. /\ Moves(w) /\ wk'[w].pc = "upload" /\ wk'[w].key = k /\ wk'[w].file = g
      /\ SameRun(w) /\ SameListing(w) /\ SameTodo(w)
  <2>1. "upload" \in Pcs
    BY DEF Pcs, Making, Uploading
  <2> QED
    BY <1>1, <1>2, <1>3, <2>1, GotoMoves DEF SameWork
<1>6. /\ receipts'[k].state = "uploading" /\ receipts'[k].file = g
      /\ receipts'[k].approved = FALSE
      /\ \A j \in Keys : j # k => receipts'[j] = receipts[j]
  BY <1>1, <1>3, Checkpoints DEF States
<1>7. Continues(w, k, "uploading", g, FALSE)
  BY <1>4, BoundsAssumption DEF Continues, States, Live, FilesIn
<1>8. Frame({w}) /\ Types' /\ ReceiptsNameFiles' /\ FilesAreUnique' /\ DoneIsSettled'
  BY <1>3, <1>4, <1>5, <1>7, CheckpointKeeps
<1>9. k \in wk[w].todo
  BY <1>1, <1>2, <1>3 DEF RunInv, HolderMirrors, Making
<1>10. RunIsOfItsSave(w)' /\ HolderMirrors(w)'
  <2>1. "upload" \in Making /\ "upload" \notin Deleting \union {"idle", "gate"}
    BY DEF Making, Uploading, Deleting
  <2>2. UNCHANGED <<record, files, late>> /\ owner' = owner /\ wk[w].pc \notin {"idle", "gate"}
    BY <1>3
  <2> QED
    BY <1>3, <1>4, <1>5, <1>6, <1>9, <2>1, <2>2, HolderGoesOn DEF SameTodo
<1>11. CreationIsPending(w)' /\ WorksOnReceipt(w)' /\ UploadIsHeld(w)'
  BY <1>3, <1>4, <1>5, <1>6 DEF CreationIsPending, WorksOnReceipt, UploadIsHeld, Live
<1>12. ASSUME NEW v \in Workers, v # w PROVE Apart(v, w)'
  BY <1>4, <1>5, <1>12 DEF Apart, Moves, Bound
<1> QED
  BY <1>5, <1>8, <1>10, <1>11, <1>12, Together DEF RunInv

LEMMA BindLinkKeeps ==
    ASSUME IndInv, NEW w \in Workers, BindLink(w)
    PROVE  IndInv'
<1>1. Types /\ RunInv(w) /\ ReceiptsNameFiles
  BY DEF IndInv
<1>2. PICK k \in Keys, g \in FileIds : k = wk[w].key /\ g = wk[w].file
  BY <1>1 DEF BindLink, At, Types, Making
<1>3. /\ wk[w].pc = "created" /\ Checkpoint(w, k, "available", g, FALSE) /\ k \in Links
      /\ wk' = [wk EXCEPT ![w].pc = "mirror", ![w].todo = @ \ {k},
                          ![w].key = NoKey, ![w].file = NoFile]
      /\ UNCHANGED <<record, sync, owner, files, faults, late>> /\ owner = w
  BY <1>2 DEF BindLink, At, Checkpoint
<1>4. /\ receipts[k].state = "initialising" /\ receipts[k].file = NoFile
      /\ files[g].key = k /\ files[g].status \in Live
      /\ \A f \in FilesIn(Live) : files[f].key = k => f = g
      /\ sync = "due" /\ k \in wk[w].desired
  BY <1>2, <1>3, NewFile
<1>5. /\ Moves(w) /\ wk'[w].pc = "mirror" /\ wk'[w].todo = wk[w].todo \ {k}
      /\ SameRun(w) /\ SameListing(w)
  <2>1. PICK t : t = wk[w].todo \ {k}
    OBVIOUS
  <2>2. t \in SUBSET Keys /\ wk \in [Workers -> Runs]
    BY <1>1, <2>1, Fields DEF Types
  <2>3. wk' = [wk EXCEPT ![w].pc = "mirror", ![w].todo = t, ![w].key = NoKey, ![w].file = NoFile]
    BY <1>3, <2>1
  <2>4. Moves(w) /\ wk'[w].pc = "mirror" /\ wk'[w].todo = t /\ SameRun(w) /\ SameListing(w)
    BY <1>1, <2>2, <2>3, PutsDown
  <2> QED
    BY <2>1, <2>4
<1>6. /\ receipts'[k].state = "available" /\ receipts'[k].file = g
      /\ \A j \in Keys : j # k => receipts'[j] = receipts[j]
  BY <1>1, <1>3, Checkpoints DEF States
<1>7. Continues(w, k, "available", g, FALSE)
  BY <1>4, BoundsAssumption DEF Continues, States, Live, FilesIn
<1>8. Frame({w}) /\ Types' /\ ReceiptsNameFiles' /\ FilesAreUnique' /\ DoneIsSettled'
  <2>1. wk'[w].pc \notin Making \union Deleting \union Bound \union {"created"}
    BY <1>5 DEF Making, Bound, Uploading, Deleting
  <2>2. sync' = "due" /\ UNCHANGED <<owner, sync>> /\ UNCHANGED <<record, files, faults, late>>
    BY <1>3, <1>4
  <2>3. Moves(w) /\ Checkpoint(w, k, "available", g, FALSE)
    BY <1>3, <1>5
  <2> QED
    BY <1>7, <2>1, <2>2, <2>3, CheckpointKeeps
<1>9. Mirrored(k)'
  BY <1>1, <1>3, <1>4, <1>6 DEF Mirrored, ReceiptsNameFiles, Live
<1>10. RunIsOfItsSave(w)' /\ HolderMirrors(w)'
  <2>1. wk'[w].pc \notin Making \union Deleting \union {"idle", "gate"}
    BY <1>5 DEF Making, Uploading, Deleting
  <2>2. UNCHANGED <<record, files, late>> /\ owner' = owner /\ wk[w].pc \notin {"idle", "gate"}
    BY <1>3
  <2> QED
    BY <1>3, <1>4, <1>5, <1>6, <1>9, <2>1, <2>2, HolderGoesOn
<1> QED
  BY <1>5, <1>8, <1>10, AtMirror, Together DEF RunInv

LEMMA SendCompleteKeeps ==
    ASSUME IndInv, NEW w \in Workers, SendComplete(w)
    PROVE  IndInv'
<1>1. Types /\ RunInv(w)
  BY DEF IndInv
<1>2. PICK k \in Keys, g \in FileIds : k = wk[w].key /\ g = wk[w].file
  BY <1>1 DEF SendComplete, At, Types, Making, Bound, Uploading
<1>3. PICK pc \in {"completing", "catch"} : Goto(w, pc)
  BY DEF SendComplete
<1>4. /\ wk[w].pc = "complete" /\ Checkpoint(w, k, "completing", g, FALSE)
      /\ UNCHANGED <<record, sync, owner, files, faults, late>> /\ owner = w
  BY <1>2 DEF SendComplete, At, Checkpoint
<1>5. /\ receipts[k].state \notin {"none", "initialising"} /\ receipts[k].file = g
      /\ files[g].key = k /\ files[g].status # "absent"
      /\ \A f \in FilesIn(Live) : files[f].key = k => f = g
      /\ sync = "due"
  BY <1>2, <1>4, HolderFacts DEF Bound, Uploading
<1>6. /\ Moves(w) /\ wk'[w].pc = pc /\ wk'[w].key = k /\ wk'[w].file = g
      /\ SameRun(w) /\ SameListing(w) /\ SameTodo(w)
  <2>1. pc \in Pcs
    BY DEF Pcs, Making, Uploading
  <2> QED
    BY <1>1, <1>2, <1>3, <2>1, GotoMoves DEF SameWork
<1>7. /\ receipts'[k].state = "completing" /\ receipts'[k].file = g
      /\ receipts'[k].approved = FALSE
      /\ \A j \in Keys : j # k => receipts'[j] = receipts[j]
  BY <1>1, <1>4, Checkpoints DEF States
<1>8. Continues(w, k, "completing", g, FALSE)
  BY <1>5 DEF Continues, States
<1>9. Frame({w}) /\ Types' /\ ReceiptsNameFiles' /\ FilesAreUnique' /\ DoneIsSettled'
  BY <1>4, <1>5, <1>6, <1>8, CheckpointKeeps
<1>10. k \in wk[w].todo /\ k \in wk[w].desired
  BY <1>1, <1>2, <1>4 DEF RunInv, HolderMirrors, RunIsOfItsSave, Making, Uploading
<1>11. RunIsOfItsSave(w)' /\ HolderMirrors(w)'
  <2>1. pc \in Making /\ pc \notin Deleting \union {"idle", "gate"}
    BY DEF Making, Uploading, Deleting
  <2>2. UNCHANGED <<record, files, late>> /\ owner' = owner /\ wk[w].pc \notin {"idle", "gate"}
    BY <1>4
  <2> QED
    BY <1>4, <1>6, <1>7, <1>10, <2>1, <2>2, HolderGoesOn DEF SameTodo
<1>12. CreationIsPending(w)' /\ WorksOnReceipt(w)' /\ UploadIsHeld(w)'
  BY <1>4, <1>5, <1>6, <1>7 DEF CreationIsPending, WorksOnReceipt, UploadIsHeld
<1>13. Keeps(w)
  BY <1>2, <1>4, <1>6 DEF Keeps, Uploading
<1> QED
  BY <1>6, <1>9, <1>11, <1>12, <1>13, Together DEF RunInv

LEMMA CatchUploadKeeps ==
    ASSUME IndInv, NEW w \in Workers, CatchUpload(w)
    PROVE  IndInv'
<1>1. Types
  BY DEF IndInv
<1>2. PICK k \in Keys, g \in FileIds : k = wk[w].key /\ g = wk[w].file
  BY <1>1 DEF CatchUpload, At, Types, Making, Bound, Uploading
<1>3. /\ wk[w].pc = "catch" /\ Checkpoint(w, k, "uploading", g, TRUE) /\ End(w, "due")
      /\ UNCHANGED <<record, files, faults, late>> /\ owner = w
  BY <1>2 DEF CatchUpload, Approves, At, Checkpoint
<1>4. /\ receipts[k].state \notin {"none", "initialising"} /\ receipts[k].file = g
      /\ files[g].key = k /\ files[g].status # "absent"
      /\ \A f \in FilesIn(Live) : files[f].key = k => f = g
  BY <1>2, <1>3, HolderFacts DEF Bound, Uploading
<1>5. Continues(w, k, "uploading", g, TRUE)
  BY <1>2, <1>3, <1>4 DEF Continues, States
<1>6. Moves(w) /\ wk'[w].pc = "idle" /\ owner' = NoWorker /\ sync' = "due"
  BY <1>1, <1>3, Ends
<1>7. Frame({w}) /\ Types' /\ ReceiptsNameFiles' /\ FilesAreUnique' /\ DoneIsSettled'
  <2>1. wk'[w].pc \notin Making \union Deleting \union Bound \union {"created"}
    BY <1>6 DEF Making, Bound, Uploading, Deleting
  <2> QED
    BY <1>3, <1>5, <1>6, <2>1, CheckpointKeeps
<1> QED
  BY <1>6, <1>7, IdleInv, Together

LEMMA RelistKeeps ==
    ASSUME IndInv, NEW w \in Workers, Relist(w)
    PROVE  IndInv'
<1>1. Types /\ RunInv(w) /\ ReceiptsNameFiles
  BY DEF IndInv
<1>2. PICK k \in Keys, g \in FileIds : k = wk[w].key /\ g = wk[w].file
  BY <1>1 DEF Relist, At, Types, Making, Bound
<1>3. /\ wk[w].pc = "relist" /\ owner = w /\ UNCHANGED <<record, files, faults, late>>
  BY DEF Relist, At
<1>4. CASE ~(files[g].status = "available")
  <2>1. End(w, "due") /\ UNCHANGED receipts
    BY <1>2, <1>4 DEF Relist
  <2>2. Quiet
    BY <1>1, <1>3, <2>1, QuietNow
  <2> QED
    BY <2>1, <2>2, GivesUp
<1>5. CASE files[g].status = "available"
  <2>1. /\ Checkpoint(w, k, "available", g, receipts[k].approved) /\ UNCHANGED <<owner, sync>>
        /\ wk' = [wk EXCEPT ![w].pc = "mirror", ![w].listed = Statuses, ![w].todo = @ \ {k},
                            ![w].key = NoKey, ![w].file = NoFile]
    BY <1>2, <1>5 DEF Relist
  <2>2. /\ receipts[k].state \notin {"none", "initialising"} /\ receipts[k].file = g
        /\ receipts[k].approved \in BOOLEAN
        /\ files[g].key = k
        /\ \A f \in FilesIn(Live) : files[f].key = k => f = g
        /\ sync = "due"
    BY <1>2, <1>3, HolderFacts DEF Bound
  <2>3. Statuses \in [FileIds -> FileStates] /\ \A f \in FileIds : Statuses[f] = files[f].status
    BY <1>1, Known DEF Statuses
  <2>4. /\ Moves(w) /\ wk'[w].pc = "mirror" /\ wk'[w].todo = wk[w].todo \ {k}
        /\ wk'[w].listed = Statuses /\ SameRun(w)
    <3>1. PICK t, l : t = wk[w].todo \ {k} /\ l = Statuses
      OBVIOUS
    <3>2. t \in SUBSET Keys /\ l \in [FileIds -> FileStates] /\ wk \in [Workers -> Runs]
      BY <1>1, <2>3, <3>1, Fields DEF Types
    <3>3. wk' = [wk EXCEPT ![w].pc = "mirror", ![w].listed = l, ![w].todo = t,
                           ![w].key = NoKey, ![w].file = NoFile]
      BY <2>1, <3>1
    <3>4. Moves(w) /\ wk'[w].pc = "mirror" /\ wk'[w].todo = t /\ wk'[w].listed = l /\ SameRun(w)
      BY <1>1, <3>2, <3>3, PutsDownAnew
    <3> QED
      BY <3>1, <3>4
  <2>5. /\ receipts'[k].state = "available" /\ receipts'[k].file = g
        /\ \A j \in Keys : j # k => receipts'[j] = receipts[j]
    BY <1>1, <2>1, <2>2, Checkpoints DEF States
  <2>6. Continues(w, k, "available", g, receipts[k].approved)
    BY <1>5, <2>2 DEF Continues, States
  <2>7. Frame({w}) /\ Types' /\ ReceiptsNameFiles' /\ FilesAreUnique' /\ DoneIsSettled'
    <3>1. wk'[w].pc \notin Making \union Deleting \union Bound \union {"created"}
      BY <2>4 DEF Making, Bound, Uploading, Deleting
    <3>2. sync' = "due" /\ UNCHANGED <<owner, sync>> /\ UNCHANGED <<record, files, faults, late>>
      BY <1>3, <2>1, <2>2
    <3>3. Moves(w) /\ Checkpoint(w, k, "available", g, receipts[k].approved)
      BY <2>1, <2>4
    <3> QED
      BY <2>2, <2>6, <3>1, <3>2, <3>3, CheckpointKeeps
  <2>8. /\ RunIsOfItsSave(w) /\ HolderMirrors(w) /\ k \in wk[w].desired
        /\ wk[w].desired \subseteq Keys
    BY <1>1, <1>2, <1>3, Fields DEF RunInv, RunIsOfItsSave, HolderMirrors, Making
  <2>9. RunIsOfItsSave(w)'
    <3>1. Desired' = Desired /\ wk[w].todo \ {k} \subseteq wk[w].desired
      BY <1>3, <2>8 DEF Desired, RunIsOfItsSave
    <3> QED
      BY <1>3, <2>3, <2>4, <2>8, <3>1 DEF RunIsOfItsSave, SameRun
  <2>10. \A j \in wk[w].desired \ wk'[w].todo : Mirrored(j)'
    <3> TAKE j \in wk[w].desired \ wk'[w].todo
    <3>1. CASE j = k
      BY <1>3, <1>5, <2>5, <3>1 DEF Mirrored
    <3>2. CASE j # k
      <4>1. Mirrored(j) /\ receipts'[j] = receipts[j]
        BY <1>3, <2>4, <2>5, <2>8, <3>2 DEF HolderMirrors
      <4> QED
        BY <1>3, <4>1 DEF Mirrored
    <3> QED
      BY <3>1, <3>2
  <2>11. \A j \in Keys : receipts'[j].file \in FileIds => Statuses[receipts'[j].file] # "absent"
    <3> TAKE j \in Keys
    <3>1. receipts'[j].file \in FileIds => files[receipts'[j].file].status # "absent"
      BY <1>3, <2>7, BoundsAssumption DEF ReceiptsNameFiles
    <3> QED
      BY <2>3, <3>1
  <2>12. HolderMirrors(w)'
    BY <1>3, <2>3, <2>4, <2>10, <2>11 DEF HolderMirrors, SameRun, Making, Uploading, Deleting
  <2> QED
    BY <2>4, <2>7, <2>9, <2>12, AtMirror, Together DEF RunInv
<1> QED
  BY <1>4, <1>5

LEMMA UndesireKeeps ==
    ASSUME IndInv, NEW w \in Workers, Undesire(w)
    PROVE  IndInv'
<1>1. Types /\ RunInv(w) /\ ReceiptsNameFiles /\ DoneIsSettled
  BY DEF IndInv
<1>2. CASE End(w, "repair") /\ UNCHANGED receipts
  <2>1. Quiet
    BY <1>1, <1>2, QuietNow DEF Undesire
  <2> QED
    BY <1>2, <2>1, GivesUp
<1>3. CASE ~(End(w, "repair") /\ UNCHANGED receipts)
  <2>1. PICK k \in Keys \ wk[w].desired :
           /\ wk[w].pc = "mirror" /\ receipts[k].state \in {"available", "deleting"}
           /\ Checkpoint(w, k, "deleting", receipts[k].file, receipts[k].approved)
           /\ wk' = [wk EXCEPT ![w].pc = "delete", ![w].key = k, ![w].file = receipts[k].file]
           /\ UNCHANGED <<record, sync, owner, files, faults, late>>
    BY <1>3 DEF Undesire, Undesired, At, Deletable
  <2>2. /\ receipts[k].file \in FileIds /\ files[receipts[k].file].key = k
        /\ files[receipts[k].file].status # "absent" /\ receipts[k].approved \in BOOLEAN
    BY <1>1, <2>1, Known DEF ReceiptsNameFiles
  <2>3. PICK g \in FileIds : g = receipts[k].file
    BY <2>2
  <2>4. owner = w /\ sync = "due"
    BY <1>1, <2>1, BoundsAssumption DEF Checkpoint, DoneIsSettled
  <2>5. /\ Moves(w) /\ wk'[w].pc = "delete" /\ wk'[w].key = k /\ wk'[w].file = g
        /\ wk'[w].todo = wk[w].todo /\ SameRun(w) /\ SameListing(w)
    <3>1. wk' = [wk EXCEPT ![w].pc = "delete", ![w].key = k, ![w].file = g]
      BY <2>1, <2>3
    <3>2. "delete" \in Pcs
      BY DEF Pcs, Deleting
    <3>3. Types /\ k \in Keys
      BY <1>1, <2>1
    <3> QED
      BY <3>1, <3>2, <3>3, TakesUp
  <2>6. /\ receipts'[k].state = "deleting" /\ receipts'[k].file = g
        /\ \A j \in Keys : j # k => receipts'[j] = receipts[j]
    BY <1>1, <2>1, <2>2, <2>3, Checkpoints DEF States
  <2>7. Continues(w, k, "deleting", g, receipts[k].approved)
    BY <1>1, <2>1, <2>2, <2>3, LiveFiles DEF Continues, States
  <2>8. Frame({w}) /\ Types' /\ ReceiptsNameFiles' /\ FilesAreUnique' /\ DoneIsSettled'
    <3>1. Checkpoint(w, k, "deleting", g, receipts[k].approved)
      BY <2>1, <2>3
    <3>2. sync' = "due" /\ UNCHANGED <<owner, sync>> /\ UNCHANGED <<record, files, faults, late>>
      BY <2>1, <2>4
    <3>3. k \in Keys /\ "delete" \notin {"created"}
      BY <2>1
    <3> QED
      BY <2>2, <2>5, <2>7, <3>1, <3>2, <3>3, CheckpointKeeps
  <2>9. RunIsOfItsSave(w)' /\ HolderMirrors(w)'
    <3>1. "delete" \notin Making \union {"idle", "gate"} /\ wk[w].pc \notin {"idle", "gate"}
      BY <2>1 DEF Making, Uploading
    <3>2. UNCHANGED <<record, files, late>> /\ owner' = owner
      BY <2>1
    <3> QED
      BY <2>1, <2>3, <2>4, <2>5, <2>6, <3>1, <3>2, HolderGoesOn
  <2>10. CreationIsPending(w)' /\ WorksOnReceipt(w)' /\ UploadIsHeld(w)' /\ Keeps(w)
    BY <2>1, <2>2, <2>3, <2>5, <2>6
       DEF CreationIsPending, WorksOnReceipt, UploadIsHeld, Keeps, Uploading
  <2> QED
    BY <2>5, <2>8, <2>9, <2>10, Together DEF RunInv
<1> QED
  BY <1>2, <1>3

\* A content is without a file when its receipt says so.
LEMMA RemoveKeeps ==
    ASSUME IndInv, NEW w \in Workers, Remove(w)
    PROVE  IndInv'
<1>1. Types /\ RunInv(w) /\ ReceiptsNameFiles
  BY DEF IndInv
<1>2. PICK k \in Keys, g \in FileIds : k = wk[w].key /\ g = wk[w].file
  BY <1>1 DEF Remove, At, Types, Bound, Deleting
<1>3. /\ wk[w].pc = "deleted" /\ Checkpoint(w, k, "removed", g, receipts[k].approved)
      /\ wk' = [wk EXCEPT ![w].pc = "mirror", ![w].key = NoKey, ![w].file = NoFile]
      /\ UNCHANGED <<record, sync, owner, files, faults, late>> /\ owner = w
  BY <1>2 DEF Remove, At, Checkpoint
<1>4. /\ receipts[k].state \notin {"none", "initialising"} /\ receipts[k].file = g
      /\ receipts[k].approved \in BOOLEAN
      /\ files[g].key = k /\ files[g].status # "absent"
      /\ \A f \in FilesIn(Live) : files[f].key = k => f = g
      /\ sync = "due"
  BY <1>2, <1>3, HolderFacts DEF Bound, Deleting
<1>5. files[g].status = "deleted" /\ k \notin wk[w].desired
  BY <1>1, <1>2, <1>3 DEF RunInv, WorksOnReceipt, HolderMirrors, Deleting
<1>6. /\ Moves(w) /\ wk'[w].pc = "mirror" /\ wk'[w].todo = wk[w].todo
      /\ SameRun(w) /\ SameListing(w)
  BY <1>1, <1>3, PutsDownDeleted DEF SameTodo
<1>7. /\ receipts'[k].state = "removed" /\ receipts'[k].file = g
      /\ \A j \in Keys : j # k => receipts'[j] = receipts[j]
  BY <1>1, <1>3, <1>4, Checkpoints DEF States
<1>8. Continues(w, k, "removed", g, receipts[k].approved)
  BY <1>4, <1>5 DEF Continues, States, FilesIn, Live
<1>9. Frame({w}) /\ Types' /\ ReceiptsNameFiles' /\ FilesAreUnique' /\ DoneIsSettled'
  <2>1. wk'[w].pc \notin Making \union Deleting \union Bound \union {"created"}
    BY <1>6 DEF Making, Bound, Uploading, Deleting
  <2> QED
    BY <1>3, <1>4, <1>6, <1>8, <2>1, CheckpointKeeps
<1>10. RunIsOfItsSave(w)' /\ HolderMirrors(w)'
  <2>1. wk'[w].pc \notin Making \union Deleting \union {"idle", "gate"}
    BY <1>6 DEF Making, Uploading, Deleting
  <2>2. UNCHANGED <<record, files, late>> /\ owner' = owner /\ wk[w].pc \notin {"idle", "gate"}
    BY <1>3
  <2> QED
    BY <1>3, <1>4, <1>5, <1>6, <1>7, <2>1, <2>2, HolderGoesOn
<1> QED
  BY <1>6, <1>9, <1>10, AtMirror, Together DEF RunInv

\* The operator finds the receipt's own file, and approves no upload that has a worker.
LEMMA ResolveKeeps ==
    ASSUME IndInv, NEW k \in Keys, NEW f \in FileIds, ResolveReceipt(k, f)
    PROVE  IndInv'
<1>1. /\ Types /\ ReceiptsNameFiles /\ FilesAreUnique
      /\ UNCHANGED <<record, owner, files, wk, faults, late>> /\ sync' = "due"
      /\ owner = NoWorker /\ files[f].key = k /\ files[f].status \in Live
  BY DEF IndInv, ResolveReceipt, Live
<1>2. PICK state \in {"available", "uploading"}, approved \in BOOLEAN :
         /\ receipts' = [receipts EXCEPT ![k] =
                           [state |-> state, file |-> f, approved |-> approved]]
         /\ approved => \A w \in Workers : wk[w].key # k
  BY DEF ResolveReceipt
<1>3. /\ receipts' \in [Keys -> ReceiptForms]
      /\ receipts'[k].state = state /\ receipts'[k].file = f /\ receipts'[k].approved = approved
      /\ \A j \in Keys : j # k => receipts'[j] = receipts[j]
  <2>1. receipts \in [Keys -> ReceiptForms]
    BY <1>1, Known
  <2>2. PICK r : r = [state |-> state, file |-> f, approved |-> approved]
    OBVIOUS
  <2>3. r \in ReceiptForms /\ r.state = state /\ r.file = f /\ r.approved = approved
    BY <2>2 DEF ReceiptForms, States
  <2>4. receipts' = [receipts EXCEPT ![k] = r]
    BY <1>2, <2>2
  <2> QED
    BY <2>1, <2>3, <2>4
<1>4. \/ receipts[k].state = "initialising" /\ receipts[k].file = NoFile
      \/ receipts[k].file = f
  BY <1>1 DEF ReceiptsNameFiles, FilesIn
<1>5. ReceiptsGoOn({})
  <2> SUFFICES ASSUME NEW j \in Keys
               PROVE  ReceiptsGoOn({})!(j)
    BY DEF ReceiptsGoOn
  <2>1. CASE j = k
    BY <1>1, <1>2, <1>3, <1>4, <2>1, BoundsAssumption DEF FilesIn
  <2>2. CASE j # k
    BY <1>1, <1>3, <2>2 DEF FilesIn
  <2> QED
    BY <2>1, <2>2
<1>6. Frame({})
  <2>1. FilesGoOn({})
    BY <1>1 DEF FilesGoOn, Live
  <2> QED
    BY <1>1, <1>5, <2>1, BoundsAssumption DEF Frame
<1>7. ReceiptsNameFiles'
  <2>1. ASSUME NEW j \in Keys
        PROVE  IF receipts'[j].state \in {"none", "initialising"} THEN receipts'[j].file = NoFile
               ELSE /\ receipts'[j].file \in FileIds
                    /\ files[receipts'[j].file].key = j
                    /\ files[receipts'[j].file].status # "absent"
    <3>1. CASE j = k
      BY <1>1, <1>3, <3>1 DEF Live
    <3>2. CASE j # k
      BY <1>1, <1>3, <3>2 DEF ReceiptsNameFiles
    <3> QED
      BY <3>1, <3>2
  <2>2. ASSUME NEW g \in FilesIn(Live)
        PROVE  /\ files[g].key \in Keys
               /\ \/ receipts'[files[g].key].state = "initialising"
                  \/ receipts'[files[g].key].file = g /\ receipts'[files[g].key].state # "removed"
    <3>1. files[g].key \in Keys
      BY <1>1 DEF ReceiptsNameFiles
    <3>2. CASE files[g].key = k
      <4>1. g = f
        BY <1>1, <3>2 DEF FilesAreUnique, FilesIn
      <4> QED
        BY <1>1, <1>3, <3>1, <4>1
    <3>3. CASE files[g].key # k
      BY <1>1, <1>3, <3>1, <3>3 DEF ReceiptsNameFiles
    <3> QED
      BY <3>1, <3>2, <3>3
  <2>3. FilesIn(Live)' = FilesIn(Live) /\ files' = files
    BY <1>1 DEF FilesIn, Live
  <2> QED
    BY <1>1, <2>1, <2>2, <2>3 DEF ReceiptsNameFiles
<1>8. FilesAreUnique' /\ DoneIsSettled'
  BY <1>1, BoundsAssumption DEF FilesAreUnique, FilesIn, DoneIsSettled
<1>9. Types'
  BY <1>1, <1>3 DEF Types, TypeOK, ReceiptForms, States
<1>10. \A v \in Workers : RunInv(v)'
  BY <1>6, OthersKeep
<1>11. \A u, v \in Workers : Apart(u, v)'
  BY <1>1 DEF IndInv, Apart
<1> QED
  BY <1>7, <1>8, <1>9, <1>10, <1>11 DEF IndInv

-----------------------------------------------------------------------------
(* The actions that change a file                                          *)

\* Figshare gets on with an upload.
Progress ==
    /\ files' \in [FileIds -> FileForms]
    /\ \A f \in FileIds :
          \/ files'[f] = files[f]
          \/ /\ files'[f].key = files[f].key
             /\ files[f].status \in {"created", "processing"}
             /\ files'[f].status \in {"processing", "available"}

LEMMA ProgressKeeps ==
    ASSUME IndInv, NEW M \in SUBSET Workers, Progress,
           UNCHANGED <<record, sync, owner, receipts, late>>,
           \A v \in Workers \ M : wk'[v] = wk[v]
    PROVE  Frame(M) /\ ReceiptsNameFiles' /\ FilesAreUnique' /\ DoneIsSettled'
<1>1. Types /\ ReceiptsNameFiles /\ FilesAreUnique /\ DoneIsSettled
  BY DEF IndInv
<1>2. \A f \in FileIds : /\ files'[f].key = files[f].key
                         /\ files'[f].status \in Live <=> files[f].status \in Live
                         /\ files[f].status \in {"available", "absent", "deleted"} =>
                               files'[f].status = files[f].status
                         /\ files[f].status # "absent" => files'[f].status # "absent"
  BY DEF Progress, Live
<1>3. FilesIn(Live)' = FilesIn(Live)
  BY <1>2 DEF FilesIn, Live
<1>4. FilesGoOn(M)
  BY <1>2 DEF FilesGoOn
<1>5. ReceiptsGoOn(M)
  BY <1>2 DEF ReceiptsGoOn, FilesIn
<1>6. Frame(M)
  BY <1>4, <1>5 DEF Frame
<1>7. FilesAreUnique'
  <2>1. \A f \in FilesIn(Live) : f \in FileIds
    BY DEF FilesIn
  <2> QED
    BY <1>1, <1>2, <1>3, <2>1 DEF FilesAreUnique
<1>8. ReceiptsNameFiles'
  <2>1. \A f \in FilesIn(Live) : f \in FileIds
    BY DEF FilesIn
  <2>2. \A k \in Keys :
          IF receipts[k].state \in {"none", "initialising"} THEN receipts[k].file = NoFile
          ELSE /\ receipts[k].file \in FileIds
               /\ files'[receipts[k].file].key = k /\ files'[receipts[k].file].status # "absent"
    BY <1>1, <1>2 DEF ReceiptsNameFiles
  <2>3. \A f \in FilesIn(Live) :
          /\ files'[f].key \in Keys
          /\ \/ receipts[files'[f].key].state = "initialising"
             \/ receipts[files'[f].key].file = f /\ receipts[files'[f].key].state # "removed"
    BY <1>1, <1>2, <2>1 DEF ReceiptsNameFiles
  <2>4. \A f \in FileIds : files'[f].key \in Links => files'[f].status \in {"available", "deleted"}
    BY <1>1, <1>2 DEF ReceiptsNameFiles, Progress
  <2> QED
    BY <1>3, <2>2, <2>3, <2>4 DEF ReceiptsNameFiles
<1>9. DoneIsSettled'
  <2>1. \A k \in Keys : Mirrored(k) => Mirrored(k)'
    BY <1>2 DEF Mirrored
  <2>2. Desired' = Desired
    BY DEF Desired
  <2> QED
    BY <1>1, <2>1, <2>2 DEF DoneIsSettled
<1> QED
  BY <1>6, <1>7, <1>8, <1>9

LEMMA MakeAvailableKeeps ==
    ASSUME IndInv, NEW f \in FileIds, MakeAvailable(f)
    PROVE  IndInv'
<1>1. /\ Types /\ ReceiptsNameFiles /\ files[f].status = "processing"
      /\ UNCHANGED <<record, sync, owner, receipts, wk, faults, late>>
  BY DEF IndInv, MakeAvailable
<1>2. PICK k \in Keys : files[f].key = k /\ ToFile(f, k, "available")
  BY <1>1 DEF MakeAvailable, ReceiptsNameFiles, FilesIn, Live
<1>3. Progress
  BY <1>1, <1>2, FileChanges DEF Progress, FileStates, Live
<1>4. Frame({}) /\ ReceiptsNameFiles' /\ FilesAreUnique' /\ DoneIsSettled'
  BY <1>1, <1>3, ProgressKeeps
<1>5. Types'
  BY <1>1, <1>3 DEF Types, TypeOK, Progress, FileForms, FileStates
<1>6. \A v \in Workers : RunInv(v)'
  BY <1>4, OthersKeep
<1>7. \A u, v \in Workers : Apart(u, v)'
  BY <1>1 DEF IndInv, Apart
<1> QED
  BY <1>4, <1>5, <1>6, <1>7 DEF IndInv

LEMMA CompleteFileUploadKeeps ==
    ASSUME IndInv, NEW w \in Workers, CompleteFileUpload(w)
    PROVE  IndInv'
<1>1. Types /\ RunInv(w) /\ ReceiptsNameFiles
  BY DEF IndInv
<1>2. PICK k \in Keys, g \in FileIds : k = wk[w].key /\ g = wk[w].file
  BY <1>1 DEF CompleteFileUpload, At, Types, Making, Bound, Uploading
<1>3. PICK pc \in {"relist", "catch"} : Goto(w, pc)
  BY DEF CompleteFileUpload
<1>4. /\ wk[w].pc = "completing" /\ UNCHANGED <<record, sync, owner, receipts, late>>
      /\ faults' \in 0..MaxFaults
  BY <1>1, FaultyFaults DEF CompleteFileUpload, At
<1>5. files[g].key = k /\ files[g].status # "absent"
  BY <1>1, <1>2, <1>4 DEF RunInv, WorksOnReceipt, Bound, Uploading
<1>6. Progress
  <2>1. CASE files' = files
    BY <1>1, <2>1, Known DEF Progress
  <2>2. CASE files[g].status = "created" /\ ToFile(g, k, "processing")
    BY <1>1, <1>5, <2>2, FileChanges DEF Progress, FileStates, Live
  <2> QED
    BY <1>2, <2>1, <2>2 DEF CompleteFileUpload
<1>7. /\ Moves(w) /\ wk'[w].pc = pc /\ wk'[w].key = k /\ wk'[w].file = g
      /\ SameRun(w) /\ SameListing(w) /\ SameTodo(w)
  <2>1. pc \in Pcs
    BY DEF Pcs, Making, Uploading
  <2> QED
    BY <1>1, <1>2, <1>3, <2>1, GotoMoves DEF SameWork
<1>8. Frame({w}) /\ ReceiptsNameFiles' /\ FilesAreUnique' /\ DoneIsSettled'
  BY <1>4, <1>6, <1>7, ProgressKeeps DEF Moves
<1>9. Types'
  <2>1. TypeOK'
    BY <1>1, <1>4, <1>6, <1>7 DEF Types, TypeOK, Progress, FileForms, FileStates, Moves,
                                 Bound, Uploading, Deleting
  <2> QED
    BY <1>1, <1>7, <2>1 DEF Types, Moves
<1>10. \A f \in FileIds : /\ files'[f].key = files[f].key
                          /\ files'[f].status \in Live <=> files[f].status \in Live
                          /\ files[f].status \in {"available", "absent", "deleted"} =>
                                files'[f].status = files[f].status
                          /\ files[f].status # "absent" => files'[f].status # "absent"
  BY <1>6 DEF Progress, Live
<1>11. WorksOnReceipt(w)'
  BY <1>1, <1>2, <1>4, <1>5, <1>7, <1>10
     DEF RunInv, WorksOnReceipt, Bound, Uploading, Deleting
<1>12. UploadIsHeld(w)' /\ CreationIsPending(w)'
  BY <1>1, <1>2, <1>4, <1>7 DEF RunInv, UploadIsHeld, CreationIsPending, Uploading
<1>13. RunIsOfItsSave(w)'
  <2>1. Desired' = Desired
    BY <1>4 DEF Desired
  <2> QED
    BY <1>1, <1>4, <1>7, <1>10, <2>1 DEF RunInv, RunIsOfItsSave, SameRun, SameListing, SameTodo
<1>14. HolderMirrors(w)'
  <2> SUFFICES ASSUME owner = w PROVE HolderMirrors(w)'
    BY <1>4 DEF HolderMirrors
  <2>1. HolderMirrors(w)
    BY <1>1 DEF RunInv
  <2>2. \A j \in Keys : Mirrored(j) => Mirrored(j)'
    BY <1>4, <1>10 DEF Mirrored
  <2>3. wk[w].desired \subseteq Keys /\ k \in wk[w].todo
    BY <1>1, <1>2, <1>4, <2>1, Fields DEF HolderMirrors, Making, Uploading
  <2>4. \A f \in FileIds :
           wk[w].listed[f] \in Live /\ files'[f].key \in wk[w].desired =>
              \/ f \in late
              \/ /\ files'[f].status \in Live
                 /\ wk[w].listed[f] = "available" => files'[f].status = "available"
    BY <1>4, <1>10, <2>1 DEF HolderMirrors
  <2> QED
    BY <1>4, <1>7, <2>1, <2>2, <2>3, <2>4
       DEF HolderMirrors, SameRun, SameListing, SameTodo, Making, Uploading, Deleting
<1>15. Keeps(w)
  BY <1>2, <1>4, <1>7 DEF Keeps, Uploading
<1> QED
  BY <1>7, <1>8, <1>9, <1>11, <1>12, <1>13, <1>14, <1>15, Together DEF RunInv

\* The file of a pending initialisation is the first of its content.
LEMMA CreateArticleFileKeeps ==
    ASSUME IndInv, NEW w \in Workers, CreateArticleFile(w)
    PROVE  IndInv'
<1>1. /\ Types /\ RunInv(w) /\ ReceiptsNameFiles /\ FilesAreUnique /\ DoneIsSettled
      /\ wk \in [Workers -> Runs]
  BY DEF IndInv, Types
<1>2. PICK k \in Keys : k = wk[w].key
  BY <1>1 DEF CreateArticleFile, At, Types, Making
<1>3. PICK g \in FileIds :
         /\ files[g].status = "absent"
         /\ ToFile(g, k, IF k \in Links THEN "available" ELSE "created")
         /\ \/ /\ wk' = [wk EXCEPT ![w].pc = "created", ![w].file = g]
               /\ UNCHANGED <<owner, sync, faults>>
            \/ End(w, "due") /\ Faulty
  BY <1>2 DEF CreateArticleFile, FilesIn
<1>4. wk[w].pc = "creating" /\ UNCHANGED <<record, receipts, late>> /\ faults' \in 0..MaxFaults
  BY <1>1, <1>3, FaultyFaults DEF CreateArticleFile, At
<1>5. receipts[k].state = "initialising" /\ \A f \in FilesIn(Live) : files[f].key # k
  BY <1>1, <1>2, <1>4 DEF RunInv, CreationIsPending
<1>6. /\ files' \in [FileIds -> FileForms]
      /\ files'[g].key = k /\ files'[g].status \in {"created", "available"}
      /\ k \in Links => files'[g].status = "available"
      /\ \A f \in FileIds : f # g => files'[f] = files[f]
  <2>1. (IF k \in Links THEN "available" ELSE "created") \in FileStates
    BY DEF FileStates, Live
  <2> QED
    BY <1>1, <1>3, <2>1, FileChanges
<1>7. \/ /\ wk'[w].pc = "created" /\ wk'[w].key = k /\ wk'[w].file = g
         /\ Moves(w) /\ SameRun(w) /\ SameListing(w) /\ SameTodo(w)
         /\ UNCHANGED <<owner, sync>>
      \/ /\ Moves(w) /\ wk'[w].pc = "idle" /\ owner' \in {owner, NoWorker}
         /\ sync' = "due" \/ UNCHANGED <<owner, sync>>
  <2>1. CASE /\ wk' = [wk EXCEPT ![w].pc = "created", ![w].file = g]
             /\ UNCHANGED <<owner, sync, faults>>
    BY <1>1, <1>2, <2>1 DEF Runs, Moves, SameRun, SameListing, SameTodo, Making
  <2>2. CASE End(w, "due")
    BY <1>1, <2>2, Ends
  <2> QED
    BY <1>3, <2>1, <2>2
<1>8. Moves(w) /\ owner' \in {owner, NoWorker} /\ (sync' = "due" \/ UNCHANGED <<owner, sync>>)
  BY <1>7
<1>9. FilesIn(Live)' = FilesIn(Live) \union {g}
  <2>1. \A f \in FileIds : files'[f].status \in Live <=> f = g \/ files[f].status \in Live
    BY <1>6 DEF Live
  <2> QED
    BY <2>1 DEF FilesIn, Live
<1>10. Frame({w})
  <2>1. FilesGoOn({w})
    BY <1>3, <1>4, <1>6 DEF FilesGoOn, Live
  <2>2. ReceiptsGoOn({w})
    BY <1>2, <1>4, <1>6 DEF ReceiptsGoOn, FilesIn
  <2> QED
    BY <1>4, <1>8, <2>1, <2>2 DEF Frame, Moves
<1>11. ReceiptsNameFiles'
  <2>1. \A j \in Keys :
          IF receipts[j].state \in {"none", "initialising"} THEN receipts[j].file = NoFile
          ELSE /\ receipts[j].file \in FileIds
               /\ files'[receipts[j].file].key = j /\ files'[receipts[j].file].status # "absent"
    BY <1>1, <1>3, <1>6 DEF ReceiptsNameFiles
  <2>2. ASSUME NEW f \in FilesIn(Live) \union {g}
        PROVE  /\ files'[f].key \in Keys
               /\ \/ receipts[files'[f].key].state = "initialising"
                  \/ receipts[files'[f].key].file = f /\ receipts[files'[f].key].state # "removed"
    <3>1. CASE f = g
      BY <1>5, <1>6, <3>1
    <3>2. CASE f # g
      <4>1. files'[f] = files[f]
        BY <1>6, <3>2 DEF FilesIn
      <4> QED
        BY <1>1, <3>2, <4>1 DEF ReceiptsNameFiles
    <3> QED
      BY <3>1, <3>2
  <2>3. \A f \in FileIds : files'[f].key \in Links => files'[f].status \in {"available", "deleted"}
    BY <1>1, <1>6 DEF ReceiptsNameFiles
  <2> QED
    BY <1>4, <1>9, <2>1, <2>2, <2>3 DEF ReceiptsNameFiles
<1>12. FilesAreUnique'
  <2>1. \A f \in FilesIn(Live) : f \in FileIds /\ f # g
    BY <1>3 DEF FilesIn, Live
  <2> QED
    BY <1>1, <1>5, <1>6, <1>9, <2>1 DEF FilesAreUnique
<1>13. DoneIsSettled'
  <2>1. \A j \in Keys : Mirrored(j) => Mirrored(j)'
    BY <1>3, <1>4, <1>6 DEF Mirrored
  <2>2. Desired' = Desired /\ (owner # NoWorker => sync = "due")
    BY <1>1, <1>4 DEF Desired, DoneIsSettled
  <2>3. CASE sync' = "due"
    BY <2>3 DEF DoneIsSettled
  <2>4. CASE UNCHANGED <<owner, sync>>
    BY <1>1, <1>4, <2>1, <2>2, <2>4 DEF DoneIsSettled
  <2> QED
    BY <1>8, <2>3, <2>4
<1>14. Types'
  <2>1. wk'[w].pc \in Making \union Deleting => wk'[w].key \in Keys
    BY <1>7 DEF Making, Uploading, Deleting
  <2>2. wk'[w].pc \in Bound \union {"created"} => wk'[w].file \in FileIds
    BY <1>7 DEF Bound, Uploading, Deleting
  <2>3. TypeOK'
    <3>1. \A v \in Workers : wk'[v].pc \in {"upload", "sending", "complete", "completing", "catch",
                              "relist", "delete", "deleting", "deleted"} => wk'[v].file \in FileIds
      BY <1>1, <1>8, <2>2 DEF Types, Moves, Bound, Uploading, Deleting
    <3>2. sync' \in {"due", "repair", "done"} /\ owner' \in Workers \union {NoWorker}
      BY <1>1, <1>8 DEF Types, TypeOK
    <3> QED
      BY <1>1, <1>4, <1>6, <3>1, <3>2 DEF Types, TypeOK, FileForms, FileStates
  <2> QED
    BY <1>1, <1>8, <2>1, <2>2, <2>3 DEF Types, Moves
<1>15. CASE wk'[w].pc = "idle"
  BY <1>8, <1>10, <1>11, <1>12, <1>13, <1>14, <1>15, IdleInv, Together
<1>16. CASE wk'[w].pc # "idle"
  <2>1. /\ wk'[w].pc = "created" /\ wk'[w].key = k /\ wk'[w].file = g
        /\ SameRun(w) /\ SameListing(w) /\ SameTodo(w) /\ owner' = owner
    BY <1>7, <1>16
  <2>2. CreationIsPending(w)' /\ WorksOnReceipt(w)' /\ UploadIsHeld(w)' /\ Keeps(w)
    BY <1>4, <1>5, <1>6, <2>1
       DEF CreationIsPending, WorksOnReceipt, UploadIsHeld, Keeps, Live, Bound, Uploading, Deleting
  <2>3. RunIsOfItsSave(w)
    BY <1>1 DEF RunInv
  <2>4. wk[w].listed[g] = "absent"
    BY <1>3, <1>4, <2>3 DEF RunIsOfItsSave
  <2>5. RunIsOfItsSave(w)'
    <3>1. Desired' = Desired
      BY <1>4 DEF Desired
    <3>2. \A f \in FileIds :
              /\ wk[w].listed[f] # "absent" => files'[f].status # "absent"
              /\ wk[w].listed[f] = "deleted" => files'[f].status = "deleted"
      BY <1>4, <1>6, <2>3, <2>4 DEF RunIsOfItsSave
    <3> QED
      BY <1>4, <2>1, <2>3, <3>1, <3>2 DEF RunIsOfItsSave, SameRun, SameListing, SameTodo
  <2>6. HolderMirrors(w)'
    <3> SUFFICES ASSUME owner = w PROVE HolderMirrors(w)'
      BY <2>1 DEF HolderMirrors
    <3>1. HolderMirrors(w) /\ k \in wk[w].todo /\ wk[w].desired \subseteq Keys
      BY <1>1, <1>2, <1>4, Fields DEF RunInv, HolderMirrors, Making
    <3>2. \A j \in Keys : Mirrored(j) => Mirrored(j)'
      BY <1>3, <1>4, <1>6 DEF Mirrored
    <3>3. \A f \in FileIds :
             wk[w].listed[f] \in Live /\ files'[f].key \in wk[w].desired =>
                \/ f \in late
                \/ /\ files'[f].status \in Live
                   /\ wk[w].listed[f] = "available" => files'[f].status = "available"
      BY <1>4, <1>6, <2>4, <3>1 DEF HolderMirrors, Live
    <3> QED
      BY <1>4, <2>1, <3>1, <3>2, <3>3
         DEF HolderMirrors, SameRun, SameListing, SameTodo, Making, Uploading, Deleting
  <2> QED
    BY <1>8, <1>10, <1>11, <1>12, <1>13, <1>14, <2>2, <2>5, <2>6, Together DEF RunInv
<1> QED
  BY <1>15, <1>16

\* A deletion is of a file its holder does not want; one that comes late is recorded.
LEMMA DeleteArticleFileKeeps ==
    ASSUME IndInv, NEW w \in Workers, DeleteArticleFile(w)
    PROVE  IndInv'
<1>1. /\ Types /\ RunInv(w) /\ ReceiptsNameFiles /\ FilesAreUnique /\ DoneIsSettled
      /\ wk \in [Workers -> Runs]
  BY DEF IndInv, Types
<1>2. PICK k \in Keys, g \in FileIds : k = wk[w].key /\ g = wk[w].file
  BY <1>1 DEF DeleteArticleFile, At, Types, Bound, Deleting
<1>3. /\ wk[w].pc = "deleting" /\ ToFile(g, k, "deleted") /\ UNCHANGED <<record, receipts>>
      /\ late' = IF owner = w THEN late ELSE late \union {g}
      /\ faults' \in 0..MaxFaults
  BY <1>1, <1>2, FaultyFaults DEF DeleteArticleFile, At
<1>4. /\ files[g].key = k /\ files[g].status # "absent"
      /\ receipts[k].file = g \/ files[g].status = "deleted"
  BY <1>1, <1>2, <1>3 DEF RunInv, WorksOnReceipt, Bound, Deleting
<1>5. /\ files' \in [FileIds -> FileForms]
      /\ files'[g].key = k /\ files'[g].status = "deleted"
      /\ \A f \in FileIds : f # g => files'[f] = files[f]
  <2>1. "deleted" \in FileStates
    BY DEF FileStates
  <2> QED
    BY <1>1, <1>3, <2>1, FileChanges
<1>6. \/ /\ wk'[w].pc = "deleted" /\ wk'[w].key = k /\ wk'[w].file = g
         /\ Moves(w) /\ SameRun(w) /\ SameListing(w) /\ SameTodo(w)
         /\ UNCHANGED <<owner, sync>>
      \/ /\ Moves(w) /\ wk'[w].pc = "idle" /\ owner' \in {owner, NoWorker}
         /\ sync' = "due" \/ UNCHANGED <<owner, sync>>
  <2>1. CASE Goto(w, "deleted") /\ UNCHANGED <<owner, sync, faults>>
    BY <1>1, <1>2, <2>1, GotoMoves DEF Pcs, Deleting, SameWork
  <2>2. CASE End(w, "due")
    BY <1>1, <2>2, Ends
  <2> QED
    BY <2>1, <2>2 DEF DeleteArticleFile
<1>7. Moves(w) /\ owner' \in {owner, NoWorker} /\ (sync' = "due" \/ UNCHANGED <<owner, sync>>)
  BY <1>6
<1>8. \A f \in FileIds : files'[f].key = files[f].key /\ (files'[f].status \in Live => f # g)
  BY <1>4, <1>5 DEF Live
<1>9. FilesIn(Live)' = FilesIn(Live) \ {g}
  <2>1. \A f \in FileIds : files'[f].status \in Live <=> f # g /\ files[f].status \in Live
    BY <1>5 DEF Live
  <2> QED
    BY <2>1 DEF FilesIn, Live
<1>10. Frame({w})
  <2>1. FilesGoOn({w})
    BY <1>3, <1>4, <1>5 DEF FilesGoOn, Live
  <2>2. ReceiptsGoOn({w})
    BY <1>3, <1>5, <1>8 DEF ReceiptsGoOn, FilesIn
  <2> QED
    BY <1>3, <1>7, <2>1, <2>2 DEF Frame, Moves
<1>11. ReceiptsNameFiles'
  <2>1. \A j \in Keys :
          IF receipts[j].state \in {"none", "initialising"} THEN receipts[j].file = NoFile
          ELSE /\ receipts[j].file \in FileIds
               /\ files'[receipts[j].file].key = j /\ files'[receipts[j].file].status # "absent"
    BY <1>1, <1>5, <1>8 DEF ReceiptsNameFiles
  <2>2. \A f \in FilesIn(Live) \ {g} :
          /\ files'[f].key \in Keys
          /\ \/ receipts[files'[f].key].state = "initialising"
             \/ receipts[files'[f].key].file = f /\ receipts[files'[f].key].state # "removed"
    <3>1. \A f \in FilesIn(Live) : f \in FileIds
      BY DEF FilesIn
    <3> QED
      BY <1>1, <1>8, <3>1 DEF ReceiptsNameFiles
  <2>3. \A f \in FileIds : files'[f].key \in Links => files'[f].status \in {"available", "deleted"}
    BY <1>1, <1>5 DEF ReceiptsNameFiles
  <2> QED
    BY <1>3, <1>9, <2>1, <2>2, <2>3 DEF ReceiptsNameFiles
<1>12. FilesAreUnique'
  <2>1. \A f \in FilesIn(Live) : f \in FileIds
    BY DEF FilesIn
  <2> QED
    BY <1>1, <1>8, <1>9, <2>1 DEF FilesAreUnique
<1>13. owner # w => \A j \in Keys : Mirrored(j) => Mirrored(j)'
  BY <1>3, <1>5 DEF Mirrored
<1>14. DoneIsSettled'
  <2>1. Desired' = Desired /\ (owner # NoWorker => sync = "due")
    BY <1>1, <1>3 DEF Desired, DoneIsSettled
  <2>2. CASE sync' = "due"
    BY <2>2 DEF DoneIsSettled
  <2>3. CASE UNCHANGED <<owner, sync>>
    <3>1. CASE owner = w
      BY <2>1, <2>2, <2>3, <3>1, BoundsAssumption
    <3>2. CASE owner # w
      BY <1>1, <1>3, <1>13, <2>1, <2>3, <3>2 DEF DoneIsSettled
    <3> QED
      BY <3>1, <3>2
  <2> QED
    BY <1>7, <2>2, <2>3
<1>15. Types'
  <2>1. wk'[w].pc \in Making \union Deleting => wk'[w].key \in Keys
    BY <1>6 DEF Making, Uploading, Deleting
  <2>2. wk'[w].pc \in Bound \union {"created"} => wk'[w].file \in FileIds
    BY <1>6 DEF Bound, Uploading, Deleting
  <2>3. TypeOK'
    <3>1. \A v \in Workers : wk'[v].pc \in {"upload", "sending", "complete", "completing", "catch",
                              "relist", "delete", "deleting", "deleted"} => wk'[v].file \in FileIds
      BY <1>1, <1>7, <2>2 DEF Types, Moves, Bound, Uploading, Deleting
    <3>2. /\ sync' \in {"due", "repair", "done"} /\ owner' \in Workers \union {NoWorker}
          /\ late' \subseteq FileIds
      BY <1>1, <1>3, <1>7 DEF Types, TypeOK
    <3> QED
      BY <1>1, <1>3, <1>5, <3>1, <3>2 DEF Types, TypeOK, FileForms, FileStates
  <2> QED
    BY <1>1, <1>7, <2>1, <2>2, <2>3 DEF Types, Moves
<1>16. CASE wk'[w].pc = "idle"
  BY <1>7, <1>10, <1>11, <1>12, <1>14, <1>15, <1>16, IdleInv, Together
<1>17. CASE wk'[w].pc # "idle"
  <2>1. /\ wk'[w].pc = "deleted" /\ wk'[w].key = k /\ wk'[w].file = g
        /\ SameRun(w) /\ SameListing(w) /\ SameTodo(w) /\ owner' = owner
    BY <1>6, <1>17
  <2>2. CreationIsPending(w)' /\ UploadIsHeld(w)' /\ Keeps(w)
    BY <2>1 DEF CreationIsPending, UploadIsHeld, Keeps, Uploading
  <2>3. WorksOnReceipt(w)'
    <3>1. receipts[k].file = g \/ owner # w
      BY <1>1, <1>2, <1>3 DEF RunInv, WorksOnReceipt, Bound, Deleting
    <3> QED
      BY <1>3, <1>5, <2>1, <3>1 DEF WorksOnReceipt, Uploading
  <2>4. RunIsOfItsSave(w)
    BY <1>1 DEF RunInv
  <2>5. RunIsOfItsSave(w)'
    <3>1. Desired' = Desired
      BY <1>3 DEF Desired
    <3>2. \A f \in FileIds :
              /\ wk[w].listed[f] # "absent" => files'[f].status # "absent"
              /\ wk[w].listed[f] = "deleted" => files'[f].status = "deleted"
      BY <1>3, <1>5, <2>4 DEF RunIsOfItsSave
    <3> QED
      BY <1>3, <2>1, <2>4, <3>1, <3>2 DEF RunIsOfItsSave, SameRun, SameListing, SameTodo
  <2>6. HolderMirrors(w)'
    <3> SUFFICES ASSUME owner = w PROVE HolderMirrors(w)'
      BY <2>1 DEF HolderMirrors
    <3>1. /\ HolderMirrors(w) /\ k \notin wk[w].desired /\ wk[w].desired \subseteq Keys
          /\ receipts[k].state = "deleting"
      BY <1>1, <1>2, <1>3, Fields DEF RunInv, HolderMirrors, Deleting
    <3>2. \A j \in wk[w].desired \ wk[w].todo : Mirrored(j)'
      <4> TAKE j \in wk[w].desired \ wk[w].todo
      <4>1. Mirrored(j) /\ j # k /\ j \in Keys
        BY <1>3, <3>1 DEF HolderMirrors
      <4>2. receipts[j].file # g
        BY <1>1, <1>4, <4>1, NamedFiles
      <4> QED
        BY <1>3, <1>5, <4>1, <4>2 DEF Mirrored
    <3>3. \A f \in FileIds :
             wk[w].listed[f] \in Live /\ files'[f].key \in wk[w].desired =>
                \/ f \in late'
                \/ /\ files'[f].status \in Live
                   /\ wk[w].listed[f] = "available" => files'[f].status = "available"
      BY <1>3, <1>5, <3>1 DEF HolderMirrors
    <3> QED
      BY <1>3, <2>1, <3>1, <3>2, <3>3
         DEF HolderMirrors, SameRun, SameListing, SameTodo, Making, Uploading, Deleting
  <2> QED
    BY <1>7, <1>10, <1>11, <1>12, <1>14, <1>15, <2>2, <2>3, <2>5, <2>6, Together DEF RunInv
<1> QED
  BY <1>16, <1>17

-----------------------------------------------------------------------------
(* The invariant                                                           *)

LEMMA InitHolds == Init => IndInv
<1> SUFFICES ASSUME Init PROVE IndInv
  OBVIOUS
<1>1. /\ owner = NoWorker /\ sync = "due" /\ faults = 0 /\ late = {}
      /\ wk \in [Workers -> Runs] /\ \A w \in Workers : wk[w] = Idle /\ wk[w].pc = "idle"
  BY IdleForm DEF Init
<1>2. \A k \in Keys : receipts[k].state = "none" /\ receipts[k].file = NoFile
  BY DEF Init
<1>3. \A f \in FileIds : files[f].status = "absent" /\ files[f].key = NoKey
  BY DEF Init
<1>4. FilesIn(Live) = {}
  BY <1>3 DEF FilesIn, Live
<1>5. Types
  <2>1. record \in [generation : 0..MaxSaves, selected : SUBSET Keys]
    BY BoundsAssumption DEF Init
  <2>2. receipts \in [Keys -> ReceiptForms]
    BY DEF Init, ReceiptForms, States
  <2>3. files \in [FileIds -> FileForms]
    BY DEF Init, FileForms, FileStates
  <2>4. faults \in 0..MaxFaults
    BY <1>1, BoundsAssumption
  <2> QED
    BY <1>1, <2>1, <2>2, <2>3, <2>4
       DEF Types, TypeOK, ReceiptForms, States, FileForms, FileStates, Bound, Making, Uploading,
           Deleting
<1>6. ReceiptsNameFiles /\ FilesAreUnique /\ DoneIsSettled
  BY <1>1, <1>2, <1>3, <1>4, BoundsAssumption DEF ReceiptsNameFiles, FilesAreUnique, DoneIsSettled
<1>7. ASSUME NEW w \in Workers
      PROVE  RunInv(w) /\ \A v \in Workers : Apart(v, w)
  BY <1>1 DEF RunInv, CreationIsPending, WorksOnReceipt, UploadIsHeld, RunIsOfItsSave,
              HolderMirrors, Apart, Bound, Making, Uploading, Deleting
<1> QED
  BY <1>5, <1>6, <1>7 DEF IndInv

LEMMA WorkKeeps ==
    ASSUME IndInv, NEW w \in Workers, Work(w)
    PROVE  IndInv'
  BY GateKeeps, VerifyKeeps, VerifyLinkKeeps, ResumeKeeps, UnresolvedKeeps, InitialiseKeeps,
     SendsKeep, CreateArticleFileKeeps, BindFileKeeps, BindLinkKeeps, SendCompleteKeeps,
     CompleteFileUploadKeeps, CatchUploadKeeps, RelistKeeps, UndesireKeeps,
     DeleteArticleFileKeeps, RemoveKeeps, FinishKeeps, LossesKeep DEF Work

LEMMA NextKeeps == IndInv /\ [Next]_vars => IndInv'
<1> SUFFICES ASSUME IndInv, [Next]_vars PROVE IndInv'
  OBVIOUS
<1>1. ASSUME NEW w \in Workers, Claim(w) \/ Work(w) \/ UploadFails(w) \/ Stop(w)
      PROVE  IndInv'
  BY <1>1, ClaimKeeps, WorkKeeps, SendsKeep, LossesKeep
<1>2. CASE Lapse \/ Save \/ Operator
  BY <1>2, LapseKeeps, SaveKeeps, ResolveKeeps DEF Operator
<1>3. ASSUME NEW f \in FileIds, MakeAvailable(f) PROVE IndInv'
  BY <1>3, MakeAvailableKeeps
<1>4. CASE UNCHANGED vars
  <2>1. UNCHANGED record /\ UNCHANGED sync /\ UNCHANGED owner /\ UNCHANGED receipts
        /\ UNCHANGED files /\ UNCHANGED wk /\ UNCHANGED faults /\ UNCHANGED late
    BY <1>4 DEF vars
  <2>2. Types'
    BY <2>1 DEF IndInv, Types, TypeOK
  <2>3. ReceiptsNameFiles' /\ FilesAreUnique' /\ DoneIsSettled'
    BY <2>1 DEF IndInv, ReceiptsNameFiles, FilesAreUnique, FilesIn, DoneIsSettled, Mirrored, Desired
  <2>4. \A v \in Workers : RunInv(v)'
    <3>1. Frame({})
      BY <2>1 DEF Frame, FilesGoOn, ReceiptsGoOn, FilesIn, Live
    <3> QED
      BY <3>1, OthersKeep
  <2>5. \A u, v \in Workers : Apart(u, v)'
    BY <2>1 DEF IndInv, Apart
  <2> QED
    BY <2>2, <2>3, <2>4, <2>5 DEF IndInv
<1> QED
  BY <1>1, <1>2, <1>3, <1>4 DEF Next

LEMMA InvHolds == Spec => []IndInv
  BY InitHolds, NextKeeps, PTL DEF Spec

-----------------------------------------------------------------------------
(* Theorems                                                                *)

(* Receipts, files and workers keep the form that managed-assets.ts gives  *)
(* them, and a worker beyond the file's creation knows its number.         *)
THEOREM TypesCorrect == Spec => []TypeOK
  <1>1. IndInv => TypeOK
    BY DEF IndInv, Types
  <1> QED  BY <1>1, InvHolds, PTL

(* No two workers send parts of the same file, also when one goes on       *)
(* without its lease: only an approved upload is resumed, its approval is  *)
(* used up, and nobody is at work on an approved one.                      *)
THEOREM UploadersAlone == Spec => []UploadersAreAlone
  <1>1. IndInv => UploadersAreAlone
    BY DEF IndInv, Apart, UploadersAreAlone, Uploading
  <1> QED  BY <1>1, InvHolds, PTL

(* A content has one file at Figshare at most, whatever answers are lost   *)
(* and whoever still has a request under way: a receipt whose              *)
(* initialisation is uncertain is never initialised again.                 *)
THEOREM OneFileForAKey == Spec => []OneFilePerKey
  <1>1. IndInv => OneFilePerKey
    <2> SUFFICES ASSUME FilesAreUnique, NEW k \in Keys
                 PROVE  Cardinality({f \in FilesIn(Live) : files[f].key = k}) <= 1
      BY DEF IndInv, OneFilePerKey
    <2> DEFINE S == {f \in FilesIn(Live) : files[f].key = k}
    <2>1. CASE S = {}
      BY <2>1, FS_EmptySet
    <2>2. CASE S # {}
      <3>1. PICK f \in S : TRUE
        BY <2>2
      <3>2. S = {f}
        BY <3>1 DEF FilesAreUnique
      <3>3. Cardinality({f}) = 1
        BY FS_Singleton
      <3>4. Cardinality(S) = 1
        BY <3>2, <3>3, Zenon
      <3> QED
        BY <3>4
    <2> QED
      BY <2>1, <2>2
  <1> QED  BY <1>1, InvHolds, PTL

(* A sync that is settled has made every selected content available and    *)
(* left no file of the others, but for a deletion that came too late.      *)
THEOREM DoneHasMirrored == Spec => []DoneIsMirrored
  <1>1. IndInv => DoneIsMirrored
    <2> SUFFICES ASSUME IndInv, sync = "done", NEW k \in Keys
                 PROVE  IF k \in Desired
                        THEN /\ receipts[k].state = "available" \/ k \in Links
                             /\ \/ files[receipts[k].file].status = "available"
                                \/ receipts[k].file \in late
                        ELSE {f \in FilesIn(Live) : files[f].key = k} = {}
      BY DEF DoneIsMirrored
    <2>1. CASE k \in Desired
      BY <2>1 DEF IndInv, DoneIsSettled, Mirrored
    <2>2. CASE k \notin Desired
      <3>1. receipts[k].state \in {"none", "removed"} /\ ReceiptsNameFiles
        BY <2>2 DEF IndInv, DoneIsSettled
      <3>2. ASSUME NEW f \in FilesIn(Live), files[f].key = k PROVE FALSE
        <4>1. receipts[k].file = f /\ receipts[k].state = "none" /\ f \in FileIds
          BY <3>1, <3>2, LiveFiles DEF FilesIn
        <4> QED
          BY <3>1, <4>1, BoundsAssumption DEF ReceiptsNameFiles
      <3> QED
        BY <2>2, <3>2
    <2> QED
      BY <2>1, <2>2
  <1> QED  BY <1>1, InvHolds, PTL

LEMMA OnlySendDelete ==
    ASSUME IndInv, [Next]_vars, NEW w \in Workers, wk[w].pc # "deleting", wk'[w].pc = "deleting"
    PROVE  SendDelete(w) /\ Guard(w)
<1>1. Types /\ wk \in [Workers -> Runs]
  BY DEF IndInv, Types
<1>2. ASSUME NEW v \in Workers, NEW pc, Goto(v, pc), pc # "deleting" \/ v # w PROVE FALSE
  BY <1>1, <1>2 DEF Goto, Runs
<1>3. ASSUME NEW v \in Workers, NEW result, End(v, result) PROVE FALSE
  BY <1>1, <1>3, Ends DEF Moves
<1>4. ASSUME NEW v \in Workers, wk' = [wk EXCEPT ![v] = Idle] PROVE FALSE
  BY <1>1, <1>4, IdleForm
<1>5. ASSUME NEW v \in Workers, NEW r, wk' = [wk EXCEPT ![v] = r], r.pc # "deleting" PROVE FALSE
  BY <1>1, <1>5
<1>6. ASSUME NEW v \in Workers, SendDelete(v) PROVE SendDelete(w) /\ Guard(w)
  BY <1>2, <1>3, <1>6 DEF SendDelete
<1>7. ASSUME NEW v \in Workers,
             \/ SendCreate(v) \/ BindFile(v) \/ SendParts(v) \/ UploadParts(v) \/ SendComplete(v)
             \/ CompleteFileUpload(v) \/ CatchUpload(v) \/ Unresolved(v) \/ Finish(v)
             \/ UploadFails(v)
      PROVE  FALSE
  <2>1. CASE SendCreate(v)
    BY <1>2, <1>3, <2>1 DEF SendCreate
  <2>2. CASE BindFile(v)
    BY <1>2, <2>2 DEF BindFile
  <2>3. CASE SendParts(v)
    BY <1>2, <2>3 DEF SendParts
  <2>4. CASE UploadParts(v)
    BY <1>2, <2>4 DEF UploadParts
  <2>5. CASE SendComplete(v)
    BY <1>2, <2>5 DEF SendComplete
  <2>6. CASE CompleteFileUpload(v)
    BY <1>2, <2>6 DEF CompleteFileUpload
  <2>7. CASE CatchUpload(v) \/ Unresolved(v) \/ Finish(v)
    BY <1>3, <2>7 DEF CatchUpload, Unresolved, Finish
  <2>8. CASE UploadFails(v)
    BY <1>2, <2>8 DEF UploadFails
  <2> QED
    BY <1>7, <2>1, <2>2, <2>3, <2>4, <2>5, <2>6, <2>7, <2>8
<1>8. ASSUME NEW v \in Workers, Claim(v) PROVE FALSE
  <2>1. PICK r : r = [Idle EXCEPT !.pc = "gate", !.generation = record.generation,
                                  !.desired = Desired, !.todo = Desired]
    OBVIOUS
  <2>2. r.pc = "gate"
    BY <2>1 DEF Idle
  <2> QED
    BY <1>5, <1>8, <2>1, <2>2 DEF Claim
<1>9. ASSUME NEW v \in Workers, DeleteArticleFile(v) PROVE FALSE
  BY <1>2, <1>3, <1>9 DEF DeleteArticleFile
<1>10. ASSUME NEW v \in Workers, LeaseLost(v) \/ Stop(v) PROVE FALSE
  BY <1>4, <1>10 DEF LeaseLost, Stop
<1>11. ASSUME NEW v \in Workers, Gate(v) PROVE FALSE
  <2>1. \/ End(v, "repair") \/ End(v, "due")
        \/ wk' = [wk EXCEPT ![v].pc = "mirror", ![v].listed = Statuses]
    BY <1>11 DEF Gate
  <2> QED
    BY <1>1, <1>3, <2>1 DEF Runs
<1>12. ASSUME NEW v \in Workers, Verify(v) \/ VerifyLink(v) PROVE FALSE
  BY <1>1, <1>12, ZenonT(40) DEF Verify, VerifyLink, At, Runs
<1>13. ASSUME NEW v \in Workers, Resume(v) PROVE FALSE
  BY <1>1, <1>13 DEF Resume, Runs
<1>14. ASSUME NEW v \in Workers, Initialise(v) PROVE FALSE
  BY <1>1, <1>14 DEF Initialise, Runs
<1>15. ASSUME NEW v \in Workers, CreateArticleFile(v) PROVE FALSE
  <2>1. PICK g \in FileIds :
           \/ wk' = [wk EXCEPT ![v].pc = "created", ![v].file = g]
           \/ End(v, "due")
    BY <1>15 DEF CreateArticleFile, FilesIn
  <2> QED
    BY <1>1, <1>3, <2>1 DEF Runs
<1>16. ASSUME NEW v \in Workers, BindLink(v) \/ Remove(v) PROVE FALSE
  <2>1. CASE Remove(v)
    BY <1>1, <2>1, PutsDownDeleted DEF Remove, Moves
  <2>2. CASE BindLink(v)
    <3>1. PICK t \in SUBSET Keys : t = wk[v].todo \ {wk[v].key}
      BY <1>1, Fields
    <3>2. wk' = [wk EXCEPT ![v].pc = "mirror", ![v].todo = t,
                           ![v].key = NoKey, ![v].file = NoFile]
      BY <2>2, <3>1 DEF BindLink
    <3> QED
      BY <1>1, <3>2, PutsDown DEF Moves
  <2> QED
    BY <1>16, <2>1, <2>2
<1>17. ASSUME NEW v \in Workers, Relist(v) PROVE FALSE
  BY <1>1, <1>3, <1>17 DEF Relist, Runs
<1>18. ASSUME NEW v \in Workers, Undesire(v) PROVE FALSE
  BY <1>1, <1>3, <1>18 DEF Undesire, Runs
<1>19. CASE Lapse
  <2>1. owner \in Workers /\ (wk' = wk \/ wk' = [wk EXCEPT ![owner] = Idle])
    BY <1>1, <1>19 DEF Lapse, Types, TypeOK
  <2> QED
    BY <1>4, <2>1
<1>20. wk' # wk
  OBVIOUS
<1> QED
  BY <1>6, <1>7, <1>8, <1>9, <1>10, <1>11, <1>12, <1>13, <1>14, <1>15, <1>16, <1>17, <1>18,
     <1>19, <1>20 DEF Next, Work, Save, Operator, ResolveReceipt, MakeAvailable, vars

(* A file is only asked to be deleted while the saved record does not      *)
(* select its content: the guard before the request compares the           *)
(* generation, so that the list the worker made earlier is still that of   *)
(* the record.                                                             *)
THEOREM DeletesDeselected == Spec => DeletesAreDeselected
  <1>1. IndInv /\ [Next]_vars =>
           [\A w \in Workers : ~At(w, "deleting") /\ wk'[w].pc = "deleting"
               => wk[w].key \notin Desired /\ receipts[wk[w].key].state = "deleting"]_vars
    <2> SUFFICES ASSUME IndInv, [Next]_vars, NEW w \in Workers,
                        wk[w].pc # "deleting", wk'[w].pc = "deleting"
                 PROVE  wk[w].key \notin Desired /\ receipts[wk[w].key].state = "deleting"
      BY DEF At
    <2>1. wk[w].pc = "delete" /\ owner = w /\ record.generation = wk[w].generation
      BY OnlySendDelete DEF SendDelete, Guard, At
    <2> QED
      BY <2>1 DEF IndInv, RunInv, RunIsOfItsSave, HolderMirrors, Deleting
  <1> QED  BY <1>1, InvHolds, PTL DEF Spec, DeletesAreDeselected
=============================================================================
