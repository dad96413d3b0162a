---------------------------- MODULE RecordWrites ----------------------------
(***************************************************************************)
(* Who writes a record, and over what.  Ordinary saves (RecordsService.    *)
(* updateMeta) write a whole record that they read earlier, whatever its   *)
(* version, and write it again after their synchronous hooks.  The Figshare *)
(* worker writes in the background: the article's fields (project), links  *)
(* for attachments (cleanup) and the workflow transition, each under the   *)
(* version it has read.  A save may undo what the worker wrote; the sync   *)
(* it asks for is to bring it back.                                        *)
(*                                                                         *)
(* Taken as atomic, for other modules show them to be: the merge and the   *)
(* import of an intent (SourceIntent), a change of the ledger (SyncStore). *)
(* The article is there and public (FigshareRemote), its files are hosted  *)
(* (ManagedAssets), and policies stay eligible.                            *)
(***************************************************************************)
EXTENDS Naturals, FiniteSets

CONSTANTS
    Saves, Workers, NoSave, NoWorker,
    Hooks,      \* whether saves and transitions have synchronous hooks
    Attempts,   \* rounds of a conditional write; 3 in the code
    MaxLapses   \* bound: leases lost

ASSUME ConstantsAssumption ==
    /\ NoSave \notin Saves /\ NoWorker \notin Workers /\ Hooks \in BOOLEAN
    /\ Attempts \in Nat \ {0} /\ MaxLapses \in Nat

VARIABLES
    record,  \* text (the save that wrote it), stage, linked, refs
    current, \* running workers whose last read was of the record's present version
    intent,  \* generation, saves to import, those of them still initialising
    save,    \* save -> pc, the record it will write, whether it asks for a sync
    work,    \* kind -> owed (requested and not processed), due
    owner,   \* holder of the lease
    run,     \* worker -> its run
    pushed,  \* the text Figshare has
    lapses,
    cut      \* history: what follows a sync or an observation was cut off

vars == <<record, current, intent, save, work, owner, run, pushed, lapses, cut>>

Kinds == {"sync", "cleanup", "observe"}
Record0 == [text |-> NoSave, stage |-> "queued", linked |-> FALSE, refs |-> "attachment"]
Idle == [pc |-> "idle", read |-> Record0, generation |-> 0,
         todo |-> {}, again |-> {}, behind |-> FALSE, tries |-> 0]

Init ==
    /\ record = Record0 /\ current = {}
    /\ intent = [generation |-> 0, saves |-> {}, initialising |-> {}]
    /\ save = [s \in Saves |-> [pc |-> "new", form |-> Record0, asks |-> FALSE]]
    /\ work = [k \in Kinds |-> [owed |-> FALSE, due |-> FALSE]]
    /\ owner = NoWorker /\ run = [w \in Workers |-> Idle]
    /\ pushed = NoSave /\ lapses = 0 /\ cut = FALSE

-----------------------------------------------------------------------------
(* Ordinary saves                                                          *)

SaveAt(s, pc) == save[s].pc = pc

\* Every write makes a new version: what has been read before is not current any more.
Overwrite(r) == record' = r /\ current' = {}

\* The form is loaded: the metadata the save will carry.
Open(s) ==
    /\ SaveAt(s, "new") /\ s = CHOOSE next \in Saves : SaveAt(next, "new")
    /\ save' = [save EXCEPT ![s].pc = "open", ![s].form = record]
    /\ UNCHANGED <<record, current, intent, work, owner, run, pushed, lapses, cut>>

\* The request reads the record again, for all but the metadata.
Submit(s) ==
    /\ SaveAt(s, "open")
    /\ save' = [save EXCEPT ![s].pc = "submitted", ![s].form.stage = record.stage]
    /\ UNCHANGED <<record, current, intent, work, owner, run, pushed, lapses, cut>>

\* The primary write, which merges the intent if a sync is asked for.
Write(s) ==
    \E asks \in BOOLEAN :
        /\ SaveAt(s, "submitted")
        /\ Overwrite([save[s].form EXCEPT !.text = s])
        /\ intent' = IF asks
                     THEN [generation |-> intent.generation + 1, saves |-> intent.saves \union {s},
                           initialising |-> intent.initialising \union (IF Hooks THEN {s} ELSE {})]
                     ELSE intent
        /\ save' = [save EXCEPT ![s].pc = IF Hooks THEN "hooks" ELSE "done", ![s].asks = asks]
        /\ UNCHANGED <<work, owner, run, pushed, lapses, cut>>

\* The secondary write, after the hooks.
PersistSecondary(s) ==
    /\ SaveAt(s, "hooks")
    /\ Overwrite([save[s].form EXCEPT !.text = s])
    /\ save' = [save EXCEPT ![s].pc = "written", ![s].form = Record0]
    /\ UNCHANGED <<intent, work, owner, run, pushed, lapses, cut>>

ReadyIntent(s) ==
    /\ SaveAt(s, "written")
    /\ save' = [save EXCEPT ![s].pc = "done"]
    /\ intent' = [intent EXCEPT !.initialising = @ \ {s}]
    /\ UNCHANGED <<record, current, work, owner, run, pushed, lapses, cut>>

\* A hook fails: the intent is abandoned, the primary write stays.
FailHooks(s) ==
    /\ SaveAt(s, "hooks")
    /\ save' = [save EXCEPT ![s].pc = "failed", ![s].form = Record0]
    /\ intent' = [intent EXCEPT !.saves = @ \ {s}, !.initialising = @ \ {s}]
    /\ UNCHANGED <<record, current, work, owner, run, pushed, lapses, cut>>

StopSave(s) ==
    /\ save[s].pc \in {"hooks", "written"}
    /\ save' = [save EXCEPT ![s].pc = "stopped", ![s].form = Record0]
    /\ UNCHANGED <<record, current, intent, work, owner, run, pushed, lapses, cut>>

\* What a stopped save has asked for is made ready in time.  Hooks do not outlast that
\* time (STALE_INITIALISING_MS), so no save is recovered that still runs.
RecoverStale(s) ==
    /\ SaveAt(s, "stopped") /\ s \in intent.initialising
    /\ intent' = [intent EXCEPT !.initialising = @ \ {s}]
    /\ UNCHANGED <<record, current, save, work, owner, run, pushed, lapses, cut>>

-----------------------------------------------------------------------------
(* Runs of the worker                                                      *)

At(w, pc) == run[w].pc = pc
Ready == intent.saves # {} /\ intent.initialising = {}
Due == {k \in Kinds : work[k].due}

\* Work of the kinds K is requested: a run under way has not begun these requests, and
\* what it finishes of a kind leaves them owed and due.
Request(K) ==
    work' = [k \in Kinds |-> IF k \in K THEN [owed |-> TRUE, due |-> TRUE] ELSE work[k]]
Again(K) == [w \in Workers |-> IF At(w, "idle") \/ At(w, "read") THEN run[w]
                               ELSE [run[w] EXCEPT !.again = @ \union K]]
Finished(w, k) ==
    IF k \in run[w].again THEN work ELSE [work EXCEPT ![k] = [owed |-> FALSE, due |-> FALSE]]

\* The work a run is at, and the next it turns to, of what was due when it began.
Kind(w) == CASE "sync" \in run[w].todo -> "sync"
             [] run[w].todo \in {{"cleanup"}, {"cleanup", "observe"}} -> "cleanup"
             [] OTHER -> "observe"
NextPc(todo) == CASE "cleanup" \in todo -> "cleanup"
                  [] todo = {"observe"} -> "observe"
                  [] todo = {} -> "end"

\* The run gives up; its present work is due again or not.
GiveUp(w, due) ==
    /\ run' = [run EXCEPT ![w] = Idle] /\ current' = current \ {w}
    /\ IF owner = w
       THEN owner' = NoWorker /\ work' = [work EXCEPT ![Kind(w)].due = due]
       ELSE UNCHANGED <<owner, work>>
\* It waits for something and will be back.  Slip: the work is not due any more.
WaitUnscheduled(w) == GiveUp(w, FALSE)
Wait(w) == GiveUp(w, TRUE)

\* A run begins with a read of the record, to push its text, and imports what is ready.
Start(w) ==
    /\ At(w, "idle") /\ w = CHOOSE next \in Workers : At(next, "idle")
    /\ Ready \/ Due # {}
    /\ run' = [IF Ready THEN Again({"sync"}) ELSE run EXCEPT
                  ![w].pc = "read", ![w].read.text = record.text,
                  ![w].generation = intent.generation]
    /\ IF Ready THEN intent' = [intent EXCEPT !.saves = {}] /\ Request({"sync"})
       ELSE UNCHANGED <<intent, work>>
    /\ UNCHANGED <<record, current, save, owner, pushed, lapses, cut>>

Claim(w) ==
    /\ At(w, "read")
    /\ IF owner = NoWorker /\ Due # {}
       THEN /\ owner' = w
            /\ run' = [run EXCEPT ![w] =
                  IF "sync" \in Due THEN [@ EXCEPT !.pc = "sync", !.todo = Due]
                  ELSE [Idle EXCEPT !.pc = "look", !.todo = Due]]
       ELSE UNCHANGED owner /\ run' = [run EXCEPT ![w] = Idle]
    /\ UNCHANGED <<record, current, intent, save, work, pushed, lapses, cut>>

\* The content goes out if the record is still that of the generation read.
Push(w) ==
    /\ At(w, "sync") /\ owner = w
    /\ IF intent.initialising = {} /\ intent.generation = run[w].generation
       THEN /\ pushed' = run[w].read.text
            /\ run' = [run EXCEPT ![w].pc = "finish", ![w].read = Record0, ![w].generation = 0]
            /\ UNCHANGED <<current, owner, work>>
       ELSE Wait(w) /\ UNCHANGED pushed
    /\ UNCHANGED <<record, intent, save, lapses, cut>>

FinishSync(w) ==
    /\ At(w, "finish") /\ owner = w
    /\ work' = Finished(w, "sync")
    /\ run' = [run EXCEPT ![w].pc = "request"]
    /\ UNCHANGED <<record, current, intent, save, owner, pushed, lapses, cut>>

\* What a finished sync asks for.  Slip: the attachments' cleanup is forgotten.
ObservationOnly == {"observe"}
FollowUp == {"observe", "cleanup"}
RequestObservation(w) ==
    /\ At(w, "request") /\ owner = w
    /\ Request(FollowUp)
    /\ run' = [Again(FollowUp) EXCEPT ![w].pc = "project"]
    /\ UNCHANGED <<record, current, intent, save, owner, pushed, lapses, cut>>

-----------------------------------------------------------------------------
(* Conditional writes                                                      *)

\* The condition of every background write.  Slip: it is not looked at.
MatchesAny(w) == TRUE
Matches(w) == w \in current

\* The run reads the record, still under its lease, and goes to its write.
Fetch(w, pc) ==
    /\ owner = w
    /\ run' = [run EXCEPT ![w].pc = pc]
    /\ current' = current \union {w}
    /\ UNCHANGED <<record, intent, save, work, owner, pushed, lapses, cut>>

\* A field write: if the version matches, fields become r's; otherwise it is tried
\* again from a read at pc, and in the end given up.
SetRecordFields(w, r, pc, next) ==
    /\ IF Matches(w)
       THEN /\ Overwrite(r)
            /\ run' = [run EXCEPT ![w] = next]
            /\ UNCHANGED <<owner, work>>
       ELSE /\ UNCHANGED record
            /\ IF run[w].tries + 1 < Attempts
               THEN /\ run' = [run EXCEPT ![w].pc = pc, ![w].tries = @ + 1]
                    /\ UNCHANGED <<current, owner, work>>
               ELSE Wait(w)
    /\ UNCHANGED <<intent, save, pushed, lapses, cut>>

\* The run goes on after the work of kind k.
Onward(w, k) ==
    LET todo == run[w].todo \ {k}
    IN  [run[w] EXCEPT !.pc = IF k = "sync" THEN "look" ELSE NextPc(todo),
                       !.todo = todo, !.tries = 0]

ReadToProject(w) == At(w, "project") /\ Fetch(w, "projecting")
Project(w) ==
    /\ At(w, "projecting")
    /\ SetRecordFields(w, [record EXCEPT !.linked = TRUE], "project", Onward(w, Kind(w)))

\* The state of the article is checkpointed, and with the answer the run learns of
\* newer requests.
CheckpointArticle(w) ==
    /\ At(w, "look") /\ owner = w
    /\ run' = [run EXCEPT ![w].pc = NextPc(run[w].todo), ![w].behind = work["sync"].owed]
    /\ UNCHANGED <<record, current, intent, save, work, owner, pushed, lapses, cut>>

ReadToCleanup(w) == At(w, "cleanup") /\ Fetch(w, "cleaning")
Cleanup(w) ==
    /\ At(w, "cleaning")
    /\ SetRecordFields(w, [record EXCEPT !.refs = "url"], "cleanup",
                       [run[w] EXCEPT !.pc = "cleaned"])

FinishCleanup(w) ==
    /\ At(w, "cleaned") /\ owner = w
    /\ work' = Finished(w, "cleanup")
    /\ run' = [run EXCEPT ![w] = [Onward(w, "cleanup") EXCEPT !.behind = work["sync"].owed]]
    /\ UNCHANGED <<record, current, intent, save, owner, pushed, lapses, cut>>

\* A save that is live and not imported is newer content.  Slip: one that is still
\* initialising is not seen.
NewerReady == Ready
NewerSource == intent.saves # {}

Observe(w) ==
    /\ At(w, "observe") /\ owner = w
    /\ IF NewerSource \/ run[w].behind
       THEN Wait(w)
       ELSE /\ IF record.stage = "published" THEN run' = [run EXCEPT ![w].pc = "observed"]
               ELSE run' = [run EXCEPT ![w].pc = "transition", ![w].read = record]
            /\ current' = current \union {w}
            /\ UNCHANGED <<owner, work>>
    /\ UNCHANGED <<record, intent, save, pushed, lapses, cut>>

\* Both writes of a transition are whole records, and conditional.  (Hooks of the update
\* and of the transition are taken together, with one write after them.)
WriteSnapshot(w, pc) ==
    /\ IF Matches(w)
       THEN /\ record' = [run[w].read EXCEPT !.stage = "published"]
            /\ current' = {w}
            /\ run' = [run EXCEPT ![w].pc = pc,
                                  ![w].read = IF pc = "observed" THEN Record0 ELSE @]
            /\ UNCHANGED <<owner, work>>
       ELSE Wait(w) /\ UNCHANGED record
    /\ UNCHANGED <<intent, save, pushed, lapses, cut>>

Transition(w) ==
    At(w, "transition") /\ WriteSnapshot(w, IF Hooks THEN "transitionHooks" ELSE "observed")
TransitionSecondary(w) == At(w, "transitionHooks") /\ WriteSnapshot(w, "observed")

\* A hook of the transition fails: the observation needs repair and is not due any more.
FailTransitionHooks(w) ==
    /\ At(w, "transitionHooks")
    /\ GiveUp(w, "observe" \in run[w].again)
    /\ cut' = (cut \/ owner = w)
    /\ UNCHANGED <<record, intent, save, pushed, lapses>>

FinishObserve(w) ==
    /\ At(w, "observed") /\ owner = w
    /\ work' = Finished(w, "observe")
    /\ run' = [run EXCEPT ![w].pc = "project", ![w].tries = 0]
    /\ current' = current \ {w}
    /\ UNCHANGED <<record, intent, save, owner, pushed, lapses, cut>>

-----------------------------------------------------------------------------
Release(w) ==
    /\ At(w, "end")
    /\ owner' = IF owner = w THEN NoWorker ELSE owner
    /\ run' = [run EXCEPT ![w] = Idle] /\ current' = current \ {w}
    /\ UNCHANGED <<record, intent, save, work, pushed, lapses, cut>>

\* The lease runs out.  A run that is about to write does so all the same.
Lapse ==
    /\ owner # NoWorker /\ lapses < MaxLapses
    /\ lapses' = lapses + 1 /\ owner' = NoWorker
    /\ cut' = (cut \/ run[owner].pc = "request"
                   \/ (Kind(owner) = "observe" /\ run[owner].pc \in {"project", "projecting"}))
    /\ UNCHANGED <<record, current, intent, save, work, run, pushed>>

LeaseLost(w) ==
    /\ owner # w
    /\ run[w].pc \notin {"idle", "read", "projecting", "cleaning", "transition",
                         "transitionHooks", "end"}
    /\ run' = [run EXCEPT ![w] = Idle] /\ current' = current \ {w}
    /\ UNCHANGED <<record, intent, save, work, owner, pushed, lapses, cut>>

SaveStep(s) == Write(s) \/ PersistSecondary(s) \/ ReadyIntent(s) \/ FailHooks(s)
RunStep(w) ==
    \/ Claim(w) \/ Push(w) \/ FinishSync(w) \/ RequestObservation(w) \/ ReadToProject(w)
    \/ Project(w) \/ CheckpointArticle(w) \/ ReadToCleanup(w) \/ Cleanup(w)
    \/ FinishCleanup(w) \/ Observe(w) \/ Transition(w) \/ TransitionSecondary(w) \/ FailTransitionHooks(w) \/ FinishObserve(w)
    \/ Release(w) \/ LeaseLost(w)

Next ==
    \/ \E s \in Saves : Open(s) \/ Submit(s) \/ SaveStep(s) \/ StopSave(s) \/ RecoverStale(s)
    \/ \E w \in Workers : Start(w) \/ RunStep(w)
    \/ Lapse

Spec == Init /\ [][Next]_vars

\* Saves that have begun end, stale ones are recovered, jobs are delivered, runs go on.
FairSpec ==
    /\ Spec
    /\ \A s \in Saves : WF_vars(SaveStep(s)) /\ WF_vars(RecoverStale(s))
    /\ \A w \in Workers : WF_vars(Start(w)) /\ WF_vars(RunStep(w))

-----------------------------------------------------------------------------
(* Properties                                                              *)

Records == [text : Saves \union {NoSave}, stage : {"queued", "published"},
            linked : BOOLEAN, refs : {"attachment", "url"}]

TypeOK ==
    /\ record \in Records
    /\ intent.saves \subseteq Saves /\ intent.initialising \subseteq intent.saves
    /\ \A k \in Kinds : work[k].owed => work[k].due \/ cut
    /\ owner \in Workers \union {NoWorker} /\ pushed \in Saves \union {NoSave}
    /\ \A w \in Workers : run[w].tries < Attempts

\* A background write never undoes a save, nor another background write, also when its
\* worker has lost the lease or a save comes between the two writes of a transition.
BackgroundKeepsRecord ==
    [][save' = save =>
        /\ record'.text = record.text
        /\ record.stage = "published" => record'.stage = "published"
        /\ record.linked => record'.linked
        /\ record.refs = "url" => record'.refs = "url"]_vars

\* A transition takes effect only while no save that asked for a sync awaits its import.
TransitionsSeeNewerSaves ==
    [][save' = save /\ record'.stage # record.stage => intent.saves = {}]_vars

\* If the last save of the record has asked for a sync and has not failed, Figshare gets
\* its text and the record its link, its references and its stage, whatever saves and
\* runs have written over one another; a run cut off between a finish and what follows
\* it is the exception.
Mirrored ==
    /\ pushed = record.text /\ record.linked
    /\ record.stage = "published" /\ record.refs = "url"
AskedFor == \E s \in Saves : record.text = s /\ save[s].asks /\ save[s].pc \in {"done", "stopped"}
LastSaveIsMirrored == <>[](AskedFor /\ ~cut => Mirrored)
=============================================================================
