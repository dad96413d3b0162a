--------------------------- MODULE ManagedAssets ---------------------------
(***************************************************************************)
(* The hosted files of one Figshare article (figshare-v2/managed-assets.ts *)
(* with the worker around it).  A worker that holds the record's lease     *)
(* mirrors the selected attachments: a receipt per staged content (key) is *)
(* written before a file is initialised, and only a receipt gives the      *)
(* right to delete a file.  A worker may lose its lease while a request    *)
(* of its is under way and go on until it next looks; every change of the  *)
(* receipts is made under the lease (SyncStore shows that it is atomic).   *)
(*                                                                         *)
(* A key is the content of an attachment: new bytes are another key.  The  *)
(* parts of an upload are one request.  A link is a key that is a URL and  *)
(* has no content to upload.  Left out: references to hosted files, links  *)
(* made without a receipt, the fingerprint that spares the hash of a       *)
(* receipt's content, and the staging disk.                                *)
(***************************************************************************)
EXTENDS Naturals, FiniteSets

CONSTANTS
    Workers,
    Keys,        \* contents of attachments, and URLs
    Links,       \* the URLs among them
    Selections,  \* the sets of keys a save may select
    FirstSelection,
    FileIds,     \* numbers Figshare gives to files, in their order
    NoWorker, NoKey, NoFile,
    MaxSaves,    \* bound: saves after the first
    MaxFaults    \* bound: lost leases, stopped workers, failed requests

ASSUME BoundsAssumption ==
    /\ MaxSaves \in Nat /\ MaxFaults \in Nat /\ Selections \subseteq SUBSET Keys
    /\ FirstSelection \in Selections
    /\ Links \subseteq Keys /\ FileIds \subseteq Nat
    /\ NoWorker \notin Workers /\ NoKey \notin Keys /\ NoFile \notin FileIds

VARIABLES
    record,    \* the saved record: its generation and the keys it selects
    sync,      \* the source sync's work: "due", "repair" or "done"
    owner,     \* holder of the lease
    receipts,  \* key -> [state, file, approved]; state "none": no receipt
    files,     \* Figshare: file -> [key, status]; status "absent": never made
    wk,        \* worker -> where it is and what it has read
    faults,
    late       \* files deleted for a worker that no longer held the lease

vars == <<record, sync, owner, receipts, files, wk, faults, late>>

Live == {"created", "processing", "available"}
Idle == [pc |-> "idle", generation |-> 0, desired |-> {}, todo |-> {},
         listed |-> [f \in FileIds |-> "absent"], key |-> NoKey, file |-> NoFile]

Init ==
    /\ record = [generation |-> 0, selected |-> FirstSelection]
    /\ sync = "due" /\ owner = NoWorker
    /\ receipts = [k \in Keys |-> [state |-> "none", file |-> NoFile, approved |-> FALSE]]
    /\ files = [f \in FileIds |-> [key |-> NoKey, status |-> "absent"]]
    /\ wk = [w \in Workers |-> Idle]
    /\ faults = 0 /\ late = {}

-----------------------------------------------------------------------------
At(w, pc) == wk[w].pc = pc
Goto(w, pc) == wk' = [wk EXCEPT ![w].pc = pc]
Faulty == faults < MaxFaults /\ faults' = faults + 1
FilesIn(S) == {f \in FileIds : files[f].status \in S}
ToFile(f, key, status) == files' = [files EXCEPT ![f] = [key |-> key, status |-> status]]

\* checkpoint: receipt k becomes [state, file, approved], under w's lease.
Checkpoint(w, k, state, file, approved) ==
    /\ owner = w
    /\ receipts' = [receipts EXCEPT ![k] = [state |-> state, file |-> file, approved |-> approved]]
Statuses == [f \in FileIds |-> files[f].status]

\* The run ends with the sync due again (a wait or a retry), in need of repair, or
\* done.  What a newer save has asked for stays due.  Slip: it is settled as well.
EndsAll(w, result) ==
    /\ wk' = [wk EXCEPT ![w] = Idle]
    /\ IF owner = w THEN owner' = NoWorker /\ sync' = result ELSE UNCHANGED <<owner, sync>>
End(w, result) ==
    /\ wk' = [wk EXCEPT ![w] = Idle]
    /\ IF owner = w
       THEN /\ owner' = NoWorker
            /\ sync' = IF record.generation = wk[w].generation THEN result ELSE "due"
       ELSE UNCHANGED <<owner, sync>>

\* The transport's guard before a mutation: the lease is held and no newer save
\* is there.  Slip: only the lease is looked at.
GuardLease(w) == owner = w
Guard(w) == owner = w /\ record.generation = wk[w].generation

\* What is mirrored: URLs only if no attachment is selected.
Desired == IF record.selected \subseteq Links THEN record.selected ELSE record.selected \ Links

Claim(w) ==
    /\ At(w, "idle") /\ owner = NoWorker /\ sync = "due"
    /\ owner' = w
    /\ wk' = [wk EXCEPT ![w] = [Idle EXCEPT !.pc = "gate", !.generation = record.generation,
                                 !.desired = Desired, !.todo = Desired]]
    /\ UNCHANGED <<record, sync, receipts, files, faults, late>>

Approved(f) == \E k \in Keys : receipts[k].file = f /\ receipts[k].approved
Interrupted(k) == receipts[k].state \in {"initialising", "uploading"} /\ ~receipts[k].approved

\* Files still being uploaded hold the run back unless each may be resumed.
Gate(w) ==
    LET pending == FilesIn({"created"})
    IN  /\ At(w, "gate") /\ owner = w
        /\ IF \A f \in pending : Approved(f)
           THEN /\ wk' = [wk EXCEPT ![w].pc = "mirror", ![w].listed = Statuses]
                /\ UNCHANGED <<owner, sync>>
           ELSE End(w, IF \E k \in Keys : Interrupted(k) THEN "repair" ELSE "due")
        /\ UNCHANGED <<record, receipts, files, faults, late>>

-----------------------------------------------------------------------------
(* The selected attachments                                                *)

ListedAs(w, f, S) == f \in FileIds /\ wk[w].listed[f] \in S

\* The receipt's file is there: no upload is needed.
Verify(w) ==
    \E k \in wk[w].todo :
        LET r == receipts[k]
        IN  /\ At(w, "mirror") /\ k \notin Links /\ r.state \notin {"none", "removed"}
            /\ ListedAs(w, r.file, {"available"})
            /\ Checkpoint(w, k, "available", r.file, r.approved)
            /\ wk' = [wk EXCEPT ![w].todo = @ \ {k}]
            /\ UNCHANGED <<record, sync, owner, files, faults, late>>

\* A URL's receipt is left as it is while its file is there.
VerifyLink(w) ==
    \E k \in wk[w].todo :
        /\ At(w, "mirror") /\ owner = w /\ k \in Links
        /\ receipts[k].state # "removed" /\ ListedAs(w, receipts[k].file, Live)
        /\ wk' = [wk EXCEPT ![w].todo = @ \ {k}]
        /\ UNCHANGED <<record, sync, owner, receipts, files, faults, late>>

\* Only an approved upload is taken up again, and the approval is used up.  Slip:
\* any interrupted upload is taken up.
ResumableAny(w, r) == r.state = "uploading" /\ ListedAs(w, r.file, Live \ {"available"})
Resumable(w, r) ==
    r.approved /\ r.state = "uploading" /\ ListedAs(w, r.file, Live \ {"available"})

Resume(w) ==
    \E k \in wk[w].todo :
        /\ At(w, "mirror") /\ Resumable(w, receipts[k])
        /\ Checkpoint(w, k, "uploading", receipts[k].file, FALSE)
        /\ wk' = [wk EXCEPT ![w].pc = "upload", ![w].key = k, ![w].file = receipts[k].file]
        /\ UNCHANGED <<record, sync, owner, files, faults, late>>

\* A receipt that says neither "there" nor "may go on" stops the run.
Unresolved(w) ==
    \E k \in wk[w].todo :
        LET r == receipts[k]
        IN  /\ At(w, "mirror") /\ owner = w /\ r.state \notin {"none", "removed"}
            /\ ~ListedAs(w, r.file, IF k \in Links THEN Live ELSE {"available"}) /\ ~Resumable(w, r)
            /\ End(w, IF r.state = "completing" /\ ListedAs(w, r.file, Live)
                      THEN "due" ELSE "repair")
            /\ UNCHANGED <<record, receipts, files, faults, late>>

\* The receipt is written before the file is initialised.  Slip: an
\* initialisation whose outcome is not known is repeated.
InitialisableAgain == {"none", "removed", "initialising"}
Initialisable == {"none", "removed"}
Initialise(w) ==
    \E k \in wk[w].todo :
        /\ At(w, "mirror") /\ receipts[k].state \in Initialisable
        /\ Checkpoint(w, k, "initialising", NoFile, FALSE)
        /\ wk' = [wk EXCEPT ![w].pc = "init", ![w].key = k]
        /\ UNCHANGED <<record, sync, owner, files, faults, late>>

\* Refused by the guard, the run ends and leaves the receipt as it is.
SendCreate(w) ==
    /\ At(w, "init") /\ owner = w
    /\ IF Guard(w) THEN Goto(w, "creating") /\ UNCHANGED <<owner, sync>> ELSE End(w, "due")
    /\ UNCHANGED <<record, receipts, files, faults, late>>

\* Slip: the answer is not read.
CreateUnread(w) ==
    /\ At(w, "creating")
    /\ \E f \in FilesIn({"absent"}) :
          /\ \A g \in FilesIn({"absent"}) : f <= g
          /\ ToFile(f, wk[w].key, "created")
    /\ Goto(w, "created")
    /\ UNCHANGED <<record, sync, owner, receipts, faults, late>>
CreateArticleFile(w) ==
    /\ At(w, "creating")
    /\ \E f \in FilesIn({"absent"}) :
          /\ \A g \in FilesIn({"absent"}) : f <= g
          /\ ToFile(f, wk[w].key, IF wk[w].key \in Links THEN "available" ELSE "created")
          /\ \/ /\ wk' = [wk EXCEPT ![w].pc = "created", ![w].file = f]
                /\ UNCHANGED <<owner, sync, faults>>
             \/ End(w, "due") /\ Faulty
    /\ UNCHANGED <<record, receipts, late>>

\* The two checkpoints of the file's number and of its descriptor.
BindFile(w) ==
    /\ At(w, "created") /\ wk[w].key \notin Links
    /\ Checkpoint(w, wk[w].key, "uploading", wk[w].file, FALSE)
    /\ Goto(w, "upload")
    /\ UNCHANGED <<record, sync, owner, files, faults, late>>

BindLink(w) ==
    /\ At(w, "created") /\ wk[w].key \in Links
    /\ Checkpoint(w, wk[w].key, "available", wk[w].file, FALSE)
    /\ wk' = [wk EXCEPT ![w].pc = "mirror", ![w].todo = @ \ {wk[w].key},
                        ![w].key = NoKey, ![w].file = NoFile]
    /\ UNCHANGED <<record, sync, owner, files, faults, late>>

SendParts(w) ==
    /\ At(w, "upload") /\ owner = w
    /\ Goto(w, IF Guard(w) THEN "sending" ELSE "catch")
    /\ UNCHANGED <<record, sync, owner, receipts, files, faults, late>>

UploadParts(w) ==
    /\ At(w, "sending")
    /\ Goto(w, "complete")
    /\ UNCHANGED <<record, sync, owner, receipts, files, faults, late>>

SendComplete(w) ==
    /\ At(w, "complete")
    /\ Checkpoint(w, wk[w].key, "completing", wk[w].file, FALSE)
    /\ Goto(w, IF Guard(w) THEN "completing" ELSE "catch")
    /\ UNCHANGED <<record, sync, owner, files, faults, late>>

\* Figshare takes the parts and makes the file available later; the answer may be lost.
CompleteFileUpload(w) ==
    /\ At(w, "completing")
    /\ IF files[wk[w].file].status = "created"
       THEN ToFile(wk[w].file, wk[w].key, "processing") ELSE UNCHANGED files
    /\ \/ Goto(w, "relist") /\ UNCHANGED faults
       \/ Goto(w, "catch") /\ Faulty
    /\ UNCHANGED <<record, sync, owner, receipts, late>>

\* A part or the completion fails at Figshare.
UploadFails(w) ==
    /\ wk[w].pc \in {"sending", "completing"} /\ Faulty
    /\ Goto(w, "catch")
    /\ UNCHANGED <<record, sync, owner, receipts, files, late>>

\* The catch: a worker that still holds its lease approves its own upload.
Approves(w) == Checkpoint(w, wk[w].key, "uploading", wk[w].file, TRUE)

CatchUpload(w) ==
    /\ At(w, "catch")
    /\ Approves(w)
    /\ End(w, "due")
    /\ UNCHANGED <<record, files, faults, late>>

Relist(w) ==
    /\ At(w, "relist") /\ owner = w
    /\ IF files[wk[w].file].status = "available"
       THEN /\ Checkpoint(w, wk[w].key, "available", wk[w].file, receipts[wk[w].key].approved)
            /\ wk' = [wk EXCEPT ![w].pc = "mirror", ![w].listed = Statuses,
                                ![w].todo = @ \ {wk[w].key},
                                ![w].key = NoKey, ![w].file = NoFile]
            /\ UNCHANGED <<owner, sync>>
       ELSE End(w, "due") /\ UNCHANGED receipts
    /\ UNCHANGED <<record, files, faults, late>>

-----------------------------------------------------------------------------
(* The files no longer selected                                            *)

\* The receipts to be deleted.
Undesired(w) == {k \in Keys \ wk[w].desired : receipts[k].state \notin {"none", "removed"}}

\* Slip: a deletion that was interrupted is not taken up again.
DeletableOnce == {"available"}
Deletable == {"available", "deleting"}

Undesire(w) ==
    \E k \in Undesired(w) :
        /\ At(w, "mirror") /\ wk[w].todo = {}
        /\ IF receipts[k].state \in Deletable
           THEN /\ Checkpoint(w, k, "deleting", receipts[k].file, receipts[k].approved)
                /\ wk' = [wk EXCEPT ![w].pc = "delete", ![w].key = k,
                                    ![w].file = receipts[k].file]
                /\ UNCHANGED <<owner, sync>>
           ELSE owner = w /\ End(w, "repair") /\ UNCHANGED receipts
        /\ UNCHANGED <<record, files, faults, late>>

SendDelete(w) ==
    /\ At(w, "delete") /\ owner = w
    /\ IF ~ListedAs(w, wk[w].file, Live) THEN Goto(w, "deleted") /\ UNCHANGED <<owner, sync>>
       ELSE IF Guard(w) THEN Goto(w, "deleting") /\ UNCHANGED <<owner, sync>>
       ELSE End(w, "due")
    /\ UNCHANGED <<record, receipts, files, faults, late>>

DeleteArticleFile(w) ==
    /\ At(w, "deleting")
    /\ ToFile(wk[w].file, wk[w].key, "deleted")
    /\ late' = IF owner = w THEN late ELSE late \union {wk[w].file}
    /\ \/ Goto(w, "deleted") /\ UNCHANGED <<owner, sync, faults>>
       \/ End(w, "due") /\ Faulty
    /\ UNCHANGED <<record, receipts>>

Remove(w) ==
    /\ At(w, "deleted")
    /\ Checkpoint(w, wk[w].key, "removed", wk[w].file, receipts[wk[w].key].approved)
    /\ wk' = [wk EXCEPT ![w].pc = "mirror", ![w].key = NoKey, ![w].file = NoFile]
    /\ UNCHANGED <<record, sync, owner, files, faults, late>>

\* The run goes on to its end and settles the sync unless a newer save is there.
Finish(w) ==
    /\ At(w, "mirror") /\ owner = w /\ wk[w].todo = {} /\ Undesired(w) = {}
    /\ End(w, "done")
    /\ UNCHANGED <<record, receipts, files, faults, late>>

-----------------------------------------------------------------------------
(* Leases, saves, Figshare and the operator                                *)

InFlight == {"creating", "sending", "completing", "deleting"}

LeaseLost(w) ==
    /\ owner # w /\ wk[w].pc \notin InFlight \union {"idle"}
    /\ wk' = [wk EXCEPT ![w] = Idle]
    /\ UNCHANGED <<record, sync, owner, receipts, files, faults, late>>

\* The lease runs out: its worker has stopped, or cannot renew it.  Without a request
\* under way it changes nothing more, whether it still runs or not.
Lapse ==
    /\ owner # NoWorker /\ Faulty
    /\ owner' = NoWorker
    /\ wk' = IF wk[owner].pc \in InFlight THEN wk ELSE [wk EXCEPT ![owner] = Idle]
    /\ UNCHANGED <<record, sync, receipts, files, late>>

\* A request does not arrive, and its worker stops or gives the run up.
Stop(w) ==
    /\ wk[w].pc \in InFlight /\ Faulty
    /\ wk' = [wk EXCEPT ![w] = Idle]
    /\ owner' = IF owner = w THEN NoWorker ELSE owner
    /\ UNCHANGED <<record, sync, receipts, files, late>>

Save ==
    /\ record.generation < MaxSaves
    /\ \E S \in Selections :
          record' = [generation |-> record.generation + 1, selected |-> S]
    /\ sync' = "due"
    /\ UNCHANGED <<owner, receipts, files, wk, faults, late>>

\* External: Figshare finishes a completed upload in its own time.
MakeAvailable(f) ==
    /\ files[f].status = "processing"
    /\ ToFile(f, files[f].key, "available")
    /\ UNCHANGED <<record, sync, owner, receipts, wk, faults, late>>

\* bind-file and resume-upload: the operator has found the file of an unresolved
\* receipt by its contents (a URL has none) and, before resume-upload, stopped its uploader.
ResolveReceipt(k, f) ==
    /\ owner = NoWorker /\ files[f].key = k /\ k \notin Links
    /\ receipts[k].state \in {"initialising", "uploading", "completing"}
    /\ ~receipts[k].approved
    /\ \/ /\ files[f].status = "available"
          /\ receipts' = [receipts EXCEPT ![k] =
                [state |-> "available", file |-> f, approved |-> FALSE]]
       \/ /\ files[f].status \in {"created", "processing"}
          /\ \A w \in Workers : wk[w].key # k
          /\ receipts' = [receipts EXCEPT ![k] =
                [state |-> "uploading", file |-> f, approved |-> TRUE]]
    /\ sync' = "due"
    /\ UNCHANGED <<record, owner, files, wk, faults, late>>

Work(w) ==
    \/ Gate(w) \/ Verify(w) \/ VerifyLink(w) \/ Resume(w) \/ Unresolved(w) \/ Initialise(w)
    \/ SendCreate(w) \/ CreateArticleFile(w) \/ BindFile(w) \/ BindLink(w) \/ SendParts(w)
    \/ UploadParts(w) \/ SendComplete(w) \/ CompleteFileUpload(w) \/ CatchUpload(w)
    \/ Relist(w) \/ Undesire(w) \/ SendDelete(w) \/ DeleteArticleFile(w) \/ Remove(w)
    \/ Finish(w) \/ LeaseLost(w)

Operator == \E k \in Keys, f \in FileIds : ResolveReceipt(k, f)

Next ==
    \/ \E w \in Workers :
          Claim(w) \/ Work(w) \/ UploadFails(w) \/ Stop(w)
    \/ Lapse \/ Save \/ Operator
    \/ \E f \in FileIds : MakeAvailable(f)

Spec == Init /\ [][Next]_vars

FairSpec ==
    /\ Spec
    /\ \A w \in Workers : WF_vars(Work(w))
    /\ WF_vars(\E w \in Workers : Claim(w))
    /\ \A f \in FileIds : WF_vars(MakeAvailable(f))

OperatedSpec == FairSpec /\ SF_vars(Operator)

-----------------------------------------------------------------------------
(* Properties                                                              *)

TypeOK ==
    /\ record \in [generation : 0..MaxSaves, selected : SUBSET Keys]
    /\ sync \in {"due", "repair", "done"} /\ owner \in Workers \union {NoWorker}
    /\ receipts \in [Keys -> [state : {"none", "initialising", "uploading", "completing",
                                       "available", "deleting", "removed"},
                              file : FileIds \union {NoFile}, approved : BOOLEAN]]
    /\ files \in [FileIds -> [key : Keys \union {NoKey},
                              status : Live \union {"absent", "deleted"}]]
    /\ \A w \in Workers : wk[w].pc \in {"upload", "sending", "complete", "completing", "catch",
                              "relist", "delete", "deleting", "deleted"} => wk[w].file \in FileIds
    /\ faults \in 0..MaxFaults /\ late \subseteq FileIds

\* No two workers send the parts of one file at the same time, also when one has
\* lost its lease without knowing: its successor does not take the upload up.
UploadersAreAlone ==
    \A v, w \in Workers : v # w /\ wk[v].pc \in {"sending", "completing"}
                          /\ wk[w].pc \in {"upload", "sending", "complete", "completing"}
                          => wk[v].file # wk[w].file

\* A content has at most one file at Figshare, whatever requests were lost, repeated
\* or late: an uncertain initialisation is never repeated.
OneFilePerKey ==
    \A k \in Keys : Cardinality({f \in FilesIn(Live) : files[f].key = k}) <= 1

\* When a worker asks for a deletion, the file's content is not selected by the record
\* as it is saved at that moment, though the list was made from an earlier read.
DeletesAreDeselected ==
    [][\A w \in Workers : ~At(w, "deleting") /\ wk'[w].pc = "deleting"
          => wk[w].key \notin Desired /\ receipts[wk[w].key].state = "deleting"]_vars

\* A settled sync has mirrored the record: each selected content is available, and of
\* the others no file is left; but a worker's delete that outlives its lease can come
\* after its successor has found the file there.
DoneIsMirrored ==
    sync = "done" =>
        \A k \in Keys :
            IF k \in Desired
            THEN /\ receipts[k].state = "available" \/ k \in Links
                 /\ files[receipts[k].file].status = "available" \/ receipts[k].file \in late
            ELSE {f \in FilesIn(Live) : files[f].key = k} = {}

\* What neither a retry nor the operator's commands resolve: an initialisation that
\* left no file or was that of a URL, a deselected upload that is not finished, a
\* selected file that is gone.
Stranded ==
    \E k \in Keys :
        LET live == {f \in FilesIn(Live) : files[f].key = k}
        IN  \/ receipts[k].state = "initialising" /\ (live = {} \/ k \in Links)
            \/ receipts[k].state = "uploading" /\ k \notin Desired
            \/ receipts[k].state \in {"available", "deleting"} /\ live = {} /\ k \in Desired

\* With an operator who resolves receipts, every sync is settled in the end or needs
\* repair for one of those reasons: it does not wait or retry for ever.
MirrorSettles == <>[](sync = "done" \/ (sync = "repair" /\ Stranded))

\* The queued-synchronisation guide: uploads interrupted by a stopped process or lost
\* lease are reported as needing repair.
InterruptedIsReported ==
    \A k \in Keys, f \in FileIds :
        (/\ receipts[k].state \in {"uploading", "completing"} /\ receipts[k].file = f
         /\ files[f].status = "created" /\ \A w \in Workers : wk[w].key # k)
        ~> (sync = "repair" \/ receipts[k].approved \/ files[f].status # "created")
=============================================================================
