--------------------------- MODULE FigshareRemote ---------------------------
(***************************************************************************)
(* What a sync run does at Figshare: it creates the record's article once, *)
(* brings its content up to date and asks for publication.  A request may  *)
(* take effect although its answer is lost, and even after the run that    *)
(* sent it is over.  The synchronisation document therefore holds evidence *)
(* of a creation and of a publication, written before the request is sent  *)
(* and reconciled with Figshare by the next run.                           *)
(*                                                                         *)
(* A save is imported at once here and asks for a sync (modules            *)
(* SourceIntent and SyncWork have the rest), so the generation a request   *)
(* comes from is the record's.  The content of a record is its generation. *)
(* Files and embargo are left out, and publication is automatic.           *)
(***************************************************************************)
EXTENDS Naturals, Sequences, FiniteSets

CONSTANTS
    Workers,
    Operators,       \* administrators that repair the record
    Curated,         \* whether Figshare reviews a publication: subset of BOOLEAN
    ByHand,          \* somebody may also ask for publication at Figshare
    Republish,       \* article.republishOnMetadataChange
    Late,            \* the requests that may take effect after their run
    MaxGeneration,   \* bound: saves of the record
    MaxRequests,     \* bound: sync requests
    MaxArticles,     \* bound: creations begun
    MaxSubmissions,  \* bound: publications asked for by runs
    MaxVersion,      \* bound: versions published
    MaxStops         \* bound: crashes and lost leases

ASSUME SettingsAssumption ==
    /\ Curated \subseteq BOOLEAN /\ ByHand \in BOOLEAN /\ Republish \in BOOLEAN
    /\ Late \subseteq {"create", "update", "publish"}

ASSUME BoundsAssumption ==
    /\ MaxGeneration \in Nat /\ MaxRequests \in Nat
    /\ MaxArticles \in Nat /\ MaxSubmissions \in Nat /\ MaxVersion \in Nat
    /\ MaxStops \in Nat

Nobody == "nobody"

ASSUME NobodyAssumption == Nobody \notin Workers

VARIABLES
    generation,              \* the record's, with its newest save
    requested, processed, due,  \* the sync work
    leaseOwner, leaseLive,
    bound,                   \* the article's identity, 0 if there is none
    create, publish,         \* evidence of operations
    synced,                  \* checkpoints.metadata
    articles,                \* at Figshare: the articles of this record
    inflight,                \* requests sent and not performed
    run,                     \* per worker: the run it executes
    repair,                  \* per operator: the evidence it verified
    abandoned,               \* history: creations an operator abandoned
    submissions,             \* history: the generations submitted, by publish.id
    settled,                 \* history: the requests observed or reset
    tokens, stops

work == <<generation, requested, processed, due>>
lease == <<leaseOwner, leaseLive>>
evidence == <<create, publish>>
document == <<bound, evidence, synced>>
remote == <<articles, inflight>>
history == <<abandoned, submissions, settled, tokens>>
aside == <<repair, history, stops>>
vars == <<work, lease, document, remote, run, aside>>

NoCreate == [token |-> 0, outcome |-> "none", request |-> 0]
NoPublish == [id |-> 0, generation |-> 0, content |-> 0, previousVersion |-> 0,
              outcome |-> "none"]
Unseen == [version |-> 0, public |-> FALSE, locked |-> FALSE]
NoRun == [pc |-> "idle", content |-> 0, requested |-> 0, seen |-> Unseen,
          changed |-> FALSE, made |-> 0]
NoRepair == [action |-> "none", id |-> 0]

-----------------------------------------------------------------------------
(* What a run knows and may do.                                            *)

Max2(a, b) == IF a > b THEN a ELSE b

Holds(w) == leaseOwner = w /\ leaseLive

\* assertCurrent, apart from the lease.
IsCurrent(w) == generation = run[w].content

\* Mutation: finish counts one request more than the run began with.
ProcessedOneMore(w) == run[w].requested + 1

\* What is processed once w finishes.
ProcessedBy(w) == Max2(processed, run[w].requested)

\* isCurationLocked
Locked(a) == a.review

Seen(i) == [version |-> articles[i].version, public |-> articles[i].public,
            locked |-> Locked(articles[i])]

\* Mutation: any published version confirms the request.
ConfirmsAnyVersion(seen) == seen.public /\ seen.version >= publish.previousVersion

\* The article that was read shows that the request took effect.
Confirms(seen) == seen.public /\ seen.version > publish.previousVersion

Outstanding == publish.outcome \notin {"none", "observed"}

\* Mutation: the save that asked for publication supersedes its own request.
SupersedesItself(w) == run[w].content >= publish.generation

\* A newer save supersedes a request that did not publish.
Supersedes(w) == run[w].content > publish.generation

\* Mutation: a failed request leaves no evidence behind.
ForgetCreate(outcome) == NoCreate

\* A request without a good answer keeps its evidence.
CreateWithout(outcome) == [create EXCEPT !.outcome = outcome]

\* needsPublish and the comparison with what was submitted before.
NeedsPublish(w) ==
    /\ ~run[w].seen.public \/ (run[w].changed /\ Republish)
    /\ publish.outcome = "none" \/ publish.content # synced

\* The articles that a listing by the token of the evidence can show.
Candidates == {i \in DOMAIN articles : articles[i].token = create.token}

-----------------------------------------------------------------------------
Init ==
    /\ generation = 1 /\ requested = 1 /\ processed = 0
    /\ due = TRUE
    /\ leaseOwner = Nobody /\ leaseLive = FALSE
    /\ bound = 0 /\ create = NoCreate /\ publish = NoPublish /\ synced = 0
    /\ articles = <<>> /\ inflight = {}
    /\ run = [w \in Workers |-> NoRun]
    /\ repair = [o \in Operators |-> NoRepair]
    /\ abandoned = 0 /\ submissions = <<>> /\ settled = {}
    /\ tokens = 0 /\ stops = 0

\* A save of the record, imported.
Save ==
    /\ generation < MaxGeneration /\ requested < MaxRequests
    /\ generation' = generation + 1
    /\ requested' = requested + 1
    /\ due' = TRUE
    /\ UNCHANGED <<processed, lease, document, remote, run, aside>>

-----------------------------------------------------------------------------
(* Figshare.                                                               *)

NewArticle(token) == [token |-> token, content |-> 0, version |-> 0,
                      public |-> FALSE, published |-> 0, review |-> FALSE]

\* The article goes public with its present content.
Released(a) == [a EXCEPT !.version = @ + 1, !.public = TRUE,
                         !.published = a.content, !.review = FALSE]

\* Publication of article i is asked for: it is reviewed, or happens.
Submit(i) ==
    \E curated \in Curated :
        articles' = [articles EXCEPT ![i] =
            IF curated THEN [@ EXCEPT !.review = TRUE] ELSE Released(@)]

\* The worker that waits for the answer to r.
WaitsFor(w, r) ==
    /\ r.by = w
    /\ \/ r.type = "create" /\ run[w].pc = "creating" /\ r.of = create.token
       \/ r.type = "update" /\ run[w].pc = "updating" /\ r.of = run[w].content
       \/ r.type = "publish" /\ run[w].pc = "publishing" /\ r.of = publish.id

\* A request takes effect, and its run may hear of it.
Perform(r) ==
    /\ inflight' = inflight \ {r}
    /\ CASE r.type = "create" -> articles' = Append(articles, NewArticle(r.of))
         [] r.type = "update" ->
              articles' = [articles EXCEPT ![r.article].content = r.of,
                                           ![r.article].token = 0]
         [] r.type = "publish" ->
              /\ articles[r.article].version < MaxVersion
              /\ Submit(r.article)
    /\ \/ UNCHANGED run
       \/ \E w \in Workers :
             /\ WaitsFor(w, r)
             /\ run' = [run EXCEPT
                   ![w].pc = CASE r.type = "create"  -> "created"
                               [] r.type = "update"  -> "sent"
                               [] r.type = "publish" -> "published",
                   ![w].made = IF r.type = "create" THEN Len(articles') ELSE @]
    /\ UNCHANGED <<work, lease, document, aside>>

\* Figshare answers that the content is incomplete.
Refuse(r) ==
    /\ r.type = "publish"
    /\ inflight' = inflight \ {r}
    /\ \E w \in Workers : /\ WaitsFor(w, r)
                          /\ run' = [run EXCEPT ![w].pc = "refused"]
    /\ UNCHANGED <<work, lease, document, articles, aside>>

\* The curator publishes the article or returns it for changes.
Review(approve) ==
    /\ \E i \in DOMAIN articles :
          /\ articles[i].review
          /\ articles[i].version < MaxVersion
          /\ articles' = [articles EXCEPT ![i] =
                IF approve THEN Released(@) ELSE [@ EXCEPT !.review = FALSE]]
    /\ UNCHANGED <<work, lease, document, inflight, run, aside>>

\* Somebody publishes the article at Figshare.
SubmitByHand ==
    /\ ByHand /\ bound # 0
    /\ ~articles[bound].review /\ articles[bound].version < MaxVersion
    /\ Submit(bound)
    /\ UNCHANGED <<work, lease, document, inflight, run, aside>>

-----------------------------------------------------------------------------
(* Runs: how they begin and end.                                           *)

Go(w, pc) == run' = [run EXCEPT ![w].pc = pc]

\* Requests of the run that is over, unless they may still take effect.
Withdraw(w) == inflight' = {r \in inflight : r.by = w => r.type \in Late}

\* The record is read and the document claimed, for its sync if that is due
\* and else to observe the article.
Begin(w) ==
    /\ run[w].pc = "idle" /\ ~leaseLive
    /\ due \/ bound # 0
    /\ leaseOwner' = w /\ leaseLive' = TRUE
    /\ run' = [run EXCEPT ![w] = [NoRun EXCEPT
          !.pc = IF due THEN "start" ELSE "observe",
          !.content = generation, !.requested = requested]]
    /\ UNCHANGED <<work, document, remote, aside>>

\* The last checkpoint of a run and its release.  A request that arrived
\* meanwhile stays due.
EndRun(w, again) ==
    /\ due' = IF again \/ requested # run[w].requested THEN due ELSE FALSE
    /\ leaseOwner' = Nobody /\ leaseLive' = FALSE
    /\ run' = [run EXCEPT ![w] = NoRun]
    /\ Withdraw(w)
    /\ UNCHANGED <<generation, requested>>

Wait(w) == EndRun(w, TRUE) /\ UNCHANGED processed
Fail(w) == (\E again \in BOOLEAN : EndRun(w, again)) /\ UNCHANGED processed
RequireRepair(w) == EndRun(w, FALSE) /\ UNCHANGED processed

\* A remote read, or anything else between the requests, fails.
RaiseError(w) ==
    /\ run[w].pc \in {"start", "bound", "reconcile", "update", "updated",
                      "deciding", "finish", "observe"}
    /\ Holds(w)
    /\ Fail(w)
    /\ UNCHANGED <<document, articles, aside>>

\* assertCurrent finds a newer save before the sync, before an update, or
\* before the publication decision.
FindNewerSave(w) ==
    /\ run[w].pc \in {"start", "update", "updated"}
    /\ Holds(w) /\ ~IsCurrent(w)
    /\ Wait(w)
    /\ UNCHANGED <<document, articles, aside>>

LoseLease(w) ==
    /\ Holds(w) /\ stops < MaxStops
    /\ stops' = stops + 1
    /\ leaseLive' = FALSE
    /\ UNCHANGED <<work, leaseOwner, document, remote, run, repair, history>>

\* A run without the lease ends at its next checkpoint.
AbandonRun(w) ==
    /\ run[w].pc # "idle" /\ ~Holds(w)
    /\ run' = [run EXCEPT ![w] = NoRun]
    /\ leaseOwner' = IF leaseOwner = w THEN Nobody ELSE leaseOwner
    /\ Withdraw(w)
    /\ UNCHANGED <<work, leaseLive, document, articles, aside>>

\* The process stops; the lease it held expires in time.
Crash(w) ==
    /\ run[w].pc # "idle" /\ Holds(w) /\ stops < MaxStops
    /\ stops' = stops + 1
    /\ run' = [run EXCEPT ![w] = NoRun]
    /\ leaseLive' = FALSE
    /\ Withdraw(w)
    /\ UNCHANGED <<work, leaseOwner, document, articles, repair, history>>

-----------------------------------------------------------------------------
(* Creation.                                                               *)

\* There is an article.
Continue(w) ==
    /\ run[w].pc = "start" /\ bound # 0 /\ Holds(w) /\ IsCurrent(w)
    /\ Go(w, "bound")
    /\ UNCHANGED <<work, lease, document, remote, aside>>

\* Evidence of an earlier creation: its article is looked up by the token.
\* An error of that creation is reported first, unless a newer request came.
RecoverCreate(w, i) ==
    /\ run[w].pc = "start" /\ bound = 0 /\ create # NoCreate
    /\ Holds(w) /\ IsCurrent(w)
    /\ bound' = i
    /\ IF create.outcome \in {"failed", "uncertain"}
            /\ run[w].requested <= create.request
         THEN Fail(w)
         ELSE Go(w, "bound") /\ UNCHANGED <<work, lease, inflight>>
    /\ UNCHANGED <<evidence, synced, articles, aside>>

\* No article shows the token: nothing is created.
CreateNotFound(w) ==
    /\ run[w].pc = "start" /\ bound = 0 /\ create # NoCreate
    /\ Holds(w) /\ IsCurrent(w)
    /\ Candidates = {}
    /\ RequireRepair(w)
    /\ UNCHANGED <<document, articles, aside>>

\* The evidence of a new creation is written.
StartCreate(w) ==
    /\ run[w].pc = "start" /\ bound = 0 /\ create = NoCreate
    /\ Holds(w) /\ IsCurrent(w)
    /\ tokens < MaxArticles
    /\ tokens' = tokens + 1
    /\ create' = [token |-> tokens + 1, outcome |-> "submitted",
                  request |-> run[w].requested]
    /\ Go(w, "create")
    /\ UNCHANGED <<work, lease, bound, publish, synced, remote, repair,
                   abandoned, submissions, settled, stops>>

SendCreate(w) ==
    /\ run[w].pc = "create" /\ Holds(w) /\ IsCurrent(w)
    /\ inflight' = inflight \cup
          {[type |-> "create", of |-> create.token, article |-> 0, by |-> w]}
    /\ Go(w, "creating")
    /\ UNCHANGED <<work, lease, document, articles, aside>>

\* The guard of the transport refuses before sending.
RefuseCreate(w) ==
    /\ run[w].pc = "create" /\ Holds(w) /\ ~IsCurrent(w)
    /\ create' = NoCreate
    /\ Wait(w)
    /\ UNCHANGED <<bound, publish, synced, articles, aside>>

\* The answer carries an identity, and the article shows the token.
ConfirmCreate(w) ==
    /\ run[w].pc = "created" /\ Holds(w)
    /\ bound' = run[w].made
    /\ create' = [create EXCEPT !.outcome = "confirmed"]
    /\ Go(w, "bound")
    /\ UNCHANGED <<work, lease, publish, synced, remote, aside>>

\* No answer, an error, or no article where the answer said: with a status
\* the outcome is a failure, and still the article may exist.
FailCreate(w, outcome) ==
    /\ run[w].pc \in {"create", "creating", "created"} /\ Holds(w)
    /\ create' = CreateWithout(outcome)
    /\ Go(w, "lookup")
    /\ UNCHANGED <<work, lease, bound, publish, synced, remote, aside>>

\* The failed creation is looked up once, and its error reported.
LookUpCreate(w) ==
    /\ run[w].pc = "lookup" /\ Holds(w)
    /\ \/ Candidates = {} /\ UNCHANGED bound
       \/ bound' \in Candidates
    /\ Fail(w)
    /\ UNCHANGED <<evidence, synced, articles, aside>>

-----------------------------------------------------------------------------
(* Content and publication.                                                *)

\* The article is read, to reconcile what earlier runs did.
ReadArticle(w) ==
    /\ run[w].pc = "bound"
    /\ run' = [run EXCEPT ![w].pc = "reconcile", ![w].seen = Seen(bound)]
    /\ UNCHANGED <<work, lease, document, remote, aside>>

\* The publication was not asked for, has been observed, or is now.
ReconcileDone(w) ==
    /\ run[w].pc = "reconcile" /\ Holds(w)
    /\ Outstanding => Confirms(run[w].seen)
    /\ publish' = IF Outstanding THEN [publish EXCEPT !.outcome = "observed"]
                  ELSE publish
    /\ IF run[w].seen.locked
         THEN Wait(w)
         ELSE Go(w, "update") /\ UNCHANGED <<work, lease, inflight>>
    /\ settled' = IF Outstanding THEN settled \cup {publish.id} ELSE settled
    /\ UNCHANGED <<bound, create, synced, articles, repair, abandoned,
                   submissions, tokens, stops>>

\* It was asked for and is not visible: a newer save supersedes it.
Supersede(w) ==
    /\ run[w].pc = "reconcile" /\ Holds(w)
    /\ Outstanding /\ ~Confirms(run[w].seen) /\ ~run[w].seen.locked
    /\ Supersedes(w)
    /\ publish' = NoPublish
    /\ Go(w, "update")
    /\ UNCHANGED <<work, lease, bound, create, synced, remote, repair,
                   abandoned, submissions, settled, tokens, stops>>

\* Else the run waits for it, and an uncertain one needs an operator.
AwaitPublication(w) ==
    /\ run[w].pc = "reconcile" /\ Holds(w)
    /\ Outstanding /\ ~Confirms(run[w].seen)
    /\ \/ run[w].seen.locked /\ Wait(w)
       \/ /\ ~run[w].seen.locked /\ ~Supersedes(w)
          /\ IF publish.outcome \in {"submitted", "uncertain"}
               THEN RequireRepair(w) ELSE Wait(w)
    /\ UNCHANGED <<document, articles, aside>>

\* Mutation: the checkpoint follows whether or not the update was made.
CheckpointLocked(w) ==
    /\ run[w].pc = "update" /\ Locked(articles[bound])
    /\ synced' = run[w].content
    /\ Go(w, "updated")
    /\ UNCHANGED <<work, lease, bound, evidence, remote, aside>>

\* runSyncMetadataProgram returns the article of a review unchanged.
SkipLocked(w) ==
    /\ run[w].pc = "update" /\ Locked(articles[bound])
    /\ Go(w, "updated")
    /\ UNCHANGED <<work, lease, document, remote, aside>>

\* metadata: the article has the content already.
SkipEqual(w) ==
    /\ run[w].pc = "update" /\ Holds(w)
    /\ articles[bound].content = run[w].content
    /\ synced' = run[w].content
    /\ Go(w, "updated")
    /\ UNCHANGED <<work, lease, bound, evidence, remote, aside>>

SendUpdate(w) ==
    /\ run[w].pc = "update" /\ Holds(w) /\ IsCurrent(w)
    /\ articles[bound].content # run[w].content
    /\ ~Locked(articles[bound])
    /\ inflight' = inflight \cup {[type |-> "update", of |-> run[w].content,
                                   article |-> bound, by |-> w]}
    /\ run' = [run EXCEPT ![w].pc = "updating", ![w].changed = TRUE]
    /\ UNCHANGED <<work, lease, document, articles, aside>>

FailUpdate(w) ==
    /\ run[w].pc = "updating" /\ Holds(w)
    /\ Fail(w)
    /\ UNCHANGED <<document, articles, aside>>

\* The answer of an update is checkpointed.
ConfirmUpdate(w) ==
    /\ run[w].pc = "sent" /\ Holds(w)
    /\ synced' = run[w].content
    /\ Go(w, "updated")
    /\ UNCHANGED <<work, lease, bound, evidence, remote, aside>>

\* The publication decision rests on one more read of the article.
Decide(w) ==
    /\ run[w].pc = "updated" /\ Holds(w) /\ IsCurrent(w)
    /\ run' = [run EXCEPT ![w].pc = "deciding", ![w].seen = Seen(bound)]
    /\ UNCHANGED <<work, lease, document, remote, aside>>

\* The evidence of a publication is written.
StartPublish(w) ==
    /\ run[w].pc = "deciding" /\ Holds(w)
    /\ NeedsPublish(w)
    /\ Len(submissions) < MaxSubmissions
    /\ publish' = [id |-> Len(submissions) + 1, generation |-> run[w].content,
                   content |-> synced, outcome |-> "submitted",
                   previousVersion |-> run[w].seen.version]
    /\ submissions' = Append(submissions, run[w].content)
    /\ Go(w, "publish")
    /\ UNCHANGED <<work, lease, bound, create, synced, remote, repair,
                   abandoned, settled, tokens, stops>>

SkipPublish(w) ==
    /\ run[w].pc = "deciding" /\ ~NeedsPublish(w)
    /\ Go(w, "finish")
    /\ UNCHANGED <<work, lease, document, remote, aside>>

SendPublish(w) ==
    /\ run[w].pc = "publish" /\ Holds(w) /\ IsCurrent(w)
    /\ ~Locked(articles[bound])
    /\ inflight' = inflight \cup {[type |-> "publish", of |-> publish.id,
                                   article |-> bound, by |-> w]}
    /\ Go(w, "publishing")
    /\ UNCHANGED <<work, lease, document, articles, aside>>

\* The guard refuses, or there is no good answer: the outcome is uncertain,
\* unless Figshare said that the content is incomplete.
FailPublish(w) ==
    /\ run[w].pc \in {"publish", "publishing", "published"} /\ Holds(w)
    /\ publish' = [publish EXCEPT !.outcome = "uncertain"]
    /\ Fail(w)
    /\ UNCHANGED <<bound, create, synced, articles, aside>>

RejectPublish(w) ==
    /\ run[w].pc = "refused" /\ Holds(w)
    /\ publish' = [publish EXCEPT !.outcome = "rejected"]
    /\ RequireRepair(w)
    /\ UNCHANGED <<bound, create, synced, articles, aside>>

AcceptPublish(w) ==
    /\ run[w].pc = "published" /\ Holds(w)
    /\ publish' = [publish EXCEPT !.outcome = "accepted"]
    /\ Go(w, "finish")
    /\ UNCHANGED <<work, lease, bound, create, synced, remote, aside>>

\* finish('sync')
FinishSync(w) ==
    /\ run[w].pc = "finish" /\ Holds(w)
    /\ processed' = ProcessedBy(w)
    /\ EndRun(w, FALSE)
    /\ UNCHANGED <<document, articles, aside>>

\* A run without sync to do reads the article and records what it sees.
Observe(w) ==
    /\ run[w].pc = "observe" /\ Holds(w)
    /\ LET seen == Outstanding /\ Confirms(Seen(bound))
       IN  /\ publish' = IF seen THEN [publish EXCEPT !.outcome = "observed"]
                         ELSE publish
           /\ settled' = IF seen THEN settled \cup {publish.id} ELSE settled
    /\ Wait(w)
    /\ UNCHANGED <<bound, create, synced, articles, repair, abandoned,
                   submissions, tokens, stops>>

-----------------------------------------------------------------------------
(* figshareAdmin verifies remotely, locks, and changes the document if the *)
(* evidence is still the same.                                             *)

\* No article shows the token.
VerifyAbandon(o) ==
    /\ repair[o] = NoRepair
    /\ create # NoCreate /\ bound = 0 /\ Candidates = {}
    /\ repair' = [repair EXCEPT ![o] = [action |-> "abandon", id |-> create.token]]
    /\ UNCHANGED <<work, lease, document, remote, run, history, stops>>

\* The article shows neither the publication nor a review.
VerifyReset(o) ==
    /\ repair[o] = NoRepair
    /\ Outstanding /\ bound # 0
    /\ ~Confirms(Seen(bound)) /\ ~Locked(articles[bound])
    /\ repair' = [repair EXCEPT ![o] = [action |-> "reset", id |-> publish.id]]
    /\ UNCHANGED <<work, lease, document, remote, run, history, stops>>

AbandonCreate(o) ==
    /\ repair[o].action = "abandon" /\ ~leaseLive
    /\ bound = 0 /\ create.token = repair[o].id
    /\ create' = NoCreate
    /\ abandoned' = abandoned + 1
    /\ repair' = [repair EXCEPT ![o] = NoRepair]
    /\ leaseOwner' = Nobody
    /\ UNCHANGED <<work, leaseLive, bound, publish, synced, remote, run,
                   submissions, settled, tokens, stops>>

ResetPublish(o) ==
    /\ repair[o].action = "reset" /\ ~leaseLive
    /\ publish.id = repair[o].id
    /\ publish' = NoPublish
    /\ settled' = settled \cup {publish.id}
    /\ repair' = [repair EXCEPT ![o] = NoRepair]
    /\ leaseOwner' = Nobody
    /\ UNCHANGED <<work, leaseLive, bound, create, synced, remote, run,
                   abandoned, submissions, tokens, stops>>

\* A worker holds the lease, or the evidence has changed.
GiveUpRepair(o) ==
    /\ repair[o] # NoRepair
    /\ repair' = [repair EXCEPT ![o] = NoRepair]
    /\ UNCHANGED <<work, lease, document, remote, run, history, stops>>

\* resume asks for another sync.
Resume(o) ==
    /\ ~leaseLive /\ requested < MaxRequests
    /\ requested' = requested + 1
    /\ due' = TRUE
    /\ leaseOwner' = Nobody
    /\ UNCHANGED <<generation, processed, leaseLive, document, remote, run,
                   aside>>

-----------------------------------------------------------------------------
Creation(w) ==
    \/ \E i \in Candidates : RecoverCreate(w, i)
    \/ CreateNotFound(w)
    \/ StartCreate(w) \/ SendCreate(w) \/ RefuseCreate(w) \/ ConfirmCreate(w)
    \/ \E outcome \in {"failed", "uncertain"} : FailCreate(w, outcome)
    \/ LookUpCreate(w)

Publication(w) ==
    \/ StartPublish(w) \/ SkipPublish(w) \/ SendPublish(w) \/ FailPublish(w)
    \/ RejectPublish(w) \/ AcceptPublish(w)

RunStep(w) ==
    \/ Begin(w) \/ RaiseError(w) \/ FindNewerSave(w) \/ AbandonRun(w)
    \/ Creation(w)
    \/ Continue(w) \/ ReadArticle(w)
    \/ ReconcileDone(w) \/ Supersede(w) \/ AwaitPublication(w)
    \/ SkipLocked(w) \/ SkipEqual(w) \/ SendUpdate(w) \/ FailUpdate(w)
    \/ ConfirmUpdate(w)
    \/ Decide(w) \/ Publication(w) \/ FinishSync(w) \/ Observe(w)

AdminStep(o) ==
    \/ VerifyAbandon(o) \/ VerifyReset(o) \/ AbandonCreate(o) \/ ResetPublish(o)
    \/ GiveUpRepair(o) \/ Resume(o)

Next ==
    \/ Save
    \/ \E r \in inflight : Perform(r) \/ Refuse(r)
    \/ \E approve \in BOOLEAN : Review(approve)
    \/ SubmitByHand
    \/ \E w \in Workers : RunStep(w) \/ LoseLease(w) \/ Crash(w)
    \/ \E o \in Operators : AdminStep(o)

Spec == Init /\ [][Next]_vars

-----------------------------------------------------------------------------
Requests == [type : {"create", "update", "publish"}, of : Nat, article : Nat,
             by : Workers]

(* Types; the evidence that is bound or submitted exists.                  *)
TypeOK ==
    /\ generation \in Nat /\ requested \in Nat /\ processed \in Nat
    /\ processed <= requested
    /\ due \in BOOLEAN
    /\ leaseOwner \in Workers \cup {Nobody} /\ leaseLive \in BOOLEAN
    /\ bound \in {0} \cup DOMAIN articles
    /\ create \in [token : 0 .. tokens, request : Nat,
                   outcome : {"none", "submitted", "confirmed", "failed",
                              "uncertain"}]
    /\ publish \in [id : 0 .. Len(submissions), generation : Nat, content : Nat,
                    previousVersion : Nat,
                    outcome : {"none", "submitted", "accepted", "rejected",
                               "uncertain", "observed"}]
    /\ synced \in Nat
    /\ articles \in Seq([token : Nat, content : Nat, version : Nat,
                         public : BOOLEAN, published : Nat, review : BOOLEAN])
    /\ inflight \subseteq Requests

(* One record has one article: whatever answers are lost, however late a   *)
(* creation takes effect and whoever holds the lease, another article is   *)
(* created only after an operator abandoned the creation before it.        *)
OneArticle == Len(articles) <= 1 + abandoned

(* A publication request of the same content is never repeated unless the  *)
(* one before was observed, or reset by an operator.                       *)
NeverResubmitted ==
    \A i, j \in DOMAIN submissions :
        i < j => i \in settled \/ submissions[i] < submissions[j]

(* A request is taken for published only if content at least as new as its *)
(* own is public, whichever request or person published it.                *)
ObservedIsPublic ==
    publish.outcome = "observed" => articles[bound].published >= publish.content

(* The article has what the document's checkpoint says it was given: an    *)
(* update that a lock skipped, a lost answer hid or a stop cut off is not  *)
(* checkpointed, and a later run brings back nothing older.                *)
(* It depends on updates that do not outlive their lease (worker.ts:211);  *)
(* what happens when they do is in the README.                             *)
CheckpointIsAtFigshare == bound # 0 => articles[bound].content >= synced
=============================================================================
