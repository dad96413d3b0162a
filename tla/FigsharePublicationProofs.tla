---------------------- MODULE FigsharePublicationProofs ----------------------
(***************************************************************************)
(* That the same content is not submitted again, for every number of       *)
(* workers, operators and saves and every setting of FigshareRemote, and   *)
(* that what was observed is public, and what was checkpointed is at the   *)
(* article, while updates come in time.                                    *)
(***************************************************************************)
EXTENDS FigshareCreationProofs

-----------------------------------------------------------------------------
(* What makes ObservedIsPublic and NeverResubmitted inductive.             *)

\* The evidence is that of the last submission, if there is any.
EvidenceIsLatest ==
    /\ publish.id \in {0, Len(submissions)}
    /\ publish.id # 0 => publish.generation = submissions[publish.id]
    /\ publish.outcome = "none" => publish.id = 0
    /\ publish.outcome = "observed" => publish.id \in {0} \cup settled

\* A submission that was not settled and has no evidence left is of an older
\* save than the record and the run that holds the lease.
SupersededAreOlder ==
    \A i \in DOMAIN submissions \ settled :
        i # publish.id =>
            /\ submissions[i] < generation
            /\ \A w \in Workers : Holds(w) => submissions[i] < run[w].content

PastReconciliation == {"update", "updating", "sent", "updated", "deciding"}

\* No run goes past its reconciliation while a publication is outstanding.
Reconciled ==
    \A w \in Workers :
        Holds(w) /\ run[w].pc \in PastReconciliation => ~Outstanding

UpdatesInFlight == {r \in inflight : r.type = "update"}

\* While a run holds the lease, a content update in flight is its own, or brings the
\* same content.
UpdatesInTime ==
    \A w \in Workers, r \in UpdatesInFlight : Holds(w) => r.of = run[w].content

\* Content never goes back: a content update in flight brings what is there or newer.
UpdatesAhead ==
    /\ \A r, q \in UpdatesInFlight : r.of = q.of /\ r.of <= generation
    /\ \A i \in DOMAIN articles :
          /\ i # bound => articles[i].content = 0
          /\ articles[i].content <= generation
          /\ \A r \in UpdatesInFlight : articles[i].content <= r.of

\* The article has what was checkpointed and submitted, and it is public once a
\* version is out that the submission did not know of.
ArticleCovers ==
    bound # 0 =>
        /\ synced <= articles[bound].content
        /\ publish.content <= articles[bound].content
        /\ articles[bound].version > publish.previousVersion
              => articles[bound].published >= publish.content

\* So it is for what a run has sent and has seen.
RunCovered(w) ==
    /\ Holds(w) => \A i \in DOMAIN articles : articles[i].content <= run[w].content
    /\ run[w].pc = "sent" => run[w].content <= articles[bound].content
    /\ run[w].pc = "reconcile" => run[w].seen.version <= articles[bound].version
    /\ Holds(w) /\ run[w].pc = "deciding"
            /\ articles[bound].version > run[w].seen.version
          => articles[bound].published >= synced

PublicInv ==
    /\ Types /\ UpdatesAhead /\ ArticleCovers
    /\ \A w \in Workers : RunCovered(w)
    /\ ObservedIsPublic

\* What the comparison of submissions needs of the state.
PublishShape ==
    /\ generation \in Nat
    /\ submissions \in Seq(Nat)
    /\ DOMAIN publish = DOMAIN NoPublish
    /\ DOMAIN run = Workers
    /\ \A w \in Workers : /\ DOMAIN run[w] = DOMAIN NoRun
                          /\ run[w].content \in Nat
                          /\ run[w].content <= generation

PublishInv ==
    /\ PublishShape
    /\ EvidenceIsLatest
    /\ SupersededAreOlder
    /\ Reconciled
    /\ NeverResubmitted

(* A step that keeps the identity of the evidence and the submissions.     *)
LEMMA EvidenceStep ==
    ASSUME PublishInv, PublishShape', generation <= generation',
           UNCHANGED submissions, settled \subseteq settled',
           publish'.id = publish.id, publish'.generation = publish.generation,
           publish'.outcome = "none" => publish.outcome = "none",
           publish'.outcome = "observed" => publish.id \in {0} \cup settled',
           \A w \in Workers : Holds(w)' =>
                Holds(w) /\ run'[w].content = run[w].content,
           Reconciled'
    PROVE  PublishInv'
  <1> USE DEF PublishInv
  <1>1. EvidenceIsLatest'
    BY DEF EvidenceIsLatest
  <1>2. SupersededAreOlder'
    <2> SUFFICES ASSUME NEW i \in DOMAIN submissions \ settled, i # publish.id
                 PROVE  /\ submissions[i] < generation'
                        /\ \A w \in Workers :
                              Holds(w)' => submissions[i] < run'[w].content
      BY DEF SupersededAreOlder
    <2>1. submissions[i] \in Nat /\ generation \in Nat /\ generation' \in Nat
      BY DEF PublishShape
    <2> QED  BY <2>1 DEF SupersededAreOlder
  <1>3. NeverResubmitted'
    BY DEF NeverResubmitted
  <1> QED  BY <1>1, <1>2, <1>3

(* A step that leaves the evidence alone and takes no run past its         *)
(* reconciliation.                                                         *)
LEMMA QuietPublish ==
    ASSUME PublishInv, PublishShape', generation <= generation',
           UNCHANGED <<submissions, settled, publish>>,
           \A w \in Workers : Holds(w)' =>
                /\ Holds(w)
                /\ run'[w].content = run[w].content
                /\ run'[w].pc \in PastReconciliation
                      => run[w].pc \in PastReconciliation
    PROVE  PublishInv'
  <1>1. Reconciled'
    BY DEF PublishInv, Reconciled, Outstanding
  <1>2. publish.outcome = "observed" => publish.id \in {0} \cup settled'
    BY DEF PublishInv, EvidenceIsLatest
  <1> QED  BY <1>1, <1>2, EvidenceStep

(* A run that moves on.                                                    *)
LEMMA MoveFacts ==
    ASSUME PublishShape, NEW w \in Workers, NEW pc, Go(w, pc),
           UNCHANGED <<generation, submissions, lease>>,
           DOMAIN publish' = DOMAIN NoPublish
    PROVE  /\ PublishShape'
           /\ run'[w].pc = pc
           /\ \A v \in Workers :
                 /\ Holds(v)' = Holds(v)
                 /\ run'[v].content = run[v].content
                 /\ v # w => run'[v] = run[v]
  <1>1. \A v \in Workers : /\ DOMAIN run'[v] = DOMAIN run[v]
                           /\ run'[v].content = run[v].content
                           /\ v # w => run'[v] = run[v]
    BY DEF Go, PublishShape, NoRun
  <1>2. DOMAIN run' = Workers /\ run'[w].pc = pc
    BY DEF Go, PublishShape, NoRun
  <1>3. \A v \in Workers : Holds(v)' = Holds(v)
    BY DEF Holds, lease
  <1>4. PublishShape'
    BY <1>1, <1>2 DEF PublishShape
  <1> QED  BY <1>1, <1>2, <1>3, <1>4

(* A run that ends leaves no holder of the lease.                          *)
LEMMA EndFacts ==
    ASSUME PublishShape, NEW w \in Workers, NEW again, EndRun(w, again),
           UNCHANGED submissions, DOMAIN publish' = DOMAIN NoPublish
    PROVE  PublishShape' /\ \A v \in Workers : ~Holds(v)'
  <1>1. PublishShape'
    <2>1. generation' = generation /\ DOMAIN run' = Workers
      BY DEF EndRun, PublishShape
    <2>2. \A v \in Workers : run'[v] = NoRun \/ run'[v] = run[v]
      BY DEF EndRun, PublishShape
    <2>3. NoRun.content = 0 /\ generation \in Nat
      BY DEF NoRun, PublishShape
    <2>4. \A v \in Workers : /\ DOMAIN run'[v] = DOMAIN NoRun
                             /\ run'[v].content \in Nat
                             /\ run'[v].content <= generation
      BY <2>2, <2>3 DEF PublishShape
    <2> QED  BY <2>1, <2>4 DEF PublishShape
  <1> QED  BY <1>1 DEF EndRun, Holds

(* So it is for each way a run ends.                                       *)
LEMMA StopFacts ==
    ASSUME PublishShape, NEW w \in Workers,
           Wait(w) \/ Fail(w) \/ RequireRepair(w),
           UNCHANGED submissions, DOMAIN publish' = DOMAIN NoPublish
    PROVE  PublishShape' /\ \A v \in Workers : ~Holds(v)'
  BY EndFacts DEF Wait, Fail, RequireRepair

(* A step that does not touch the runs.                                    *)
LEMMA StillFacts ==
    ASSUME PublishInv, UNCHANGED <<lease, run, publish, submissions, settled>>,
           generation' \in Nat, generation <= generation'
    PROVE  PublishInv'
  <1>1. PublishShape'
    BY DEF PublishInv, PublishShape
  <1>2. \A w \in Workers : Holds(w)' = Holds(w)
    BY DEF Holds, lease
  <1> QED  BY <1>1, <1>2, QuietPublish

(* Begin, the loss of a lease, and the ends of runs.                       *)
LEMMA BoundaryPublishInv ==
    ASSUME PublishInv, NEW w \in Workers,
           \/ Begin(w) \/ RaiseError(w) \/ FindNewerSave(w) \/ LoseLease(w)
           \/ AbandonRun(w) \/ Crash(w)
    PROVE  PublishInv'
  <1> USE DEF PublishInv
  <1>1. CASE Begin(w)
    <2>1. UNCHANGED <<generation, submissions, settled, publish>>
      BY <1>1 DEF Begin, work, document, evidence, aside, history
    <2>2. \A v \in Workers : Holds(v)' => v = w
      BY <1>1 DEF Begin, Holds
    <2>3. \A v \in Workers : IF v = w
            THEN /\ DOMAIN run'[v] = DOMAIN NoRun
                 /\ run'[v].content = generation
                 /\ run'[v].pc \in {"start", "observe"}
            ELSE run'[v] = run[v]
      BY <1>1 DEF Begin, PublishShape, NoRun
    <2>4. DOMAIN run' = Workers
      BY <1>1 DEF Begin, PublishShape
    <2>5. PublishShape'
      BY <2>1, <2>3, <2>4 DEF PublishShape
    <2>6. EvidenceIsLatest' /\ NeverResubmitted'
      BY <2>1 DEF EvidenceIsLatest, NeverResubmitted
    <2>7. SupersededAreOlder'
      BY <2>1, <2>2, <2>3 DEF SupersededAreOlder
    <2>8. Reconciled'
      BY <2>2, <2>3 DEF Reconciled, PastReconciliation
    <2> QED  BY <2>5, <2>6, <2>7, <2>8
  <1>2. CASE RaiseError(w) \/ FindNewerSave(w)
    <2>1. UNCHANGED <<submissions, settled, publish>>
      BY <1>2 DEF RaiseError, FindNewerSave, document, evidence, aside, history
    <2>2. PublishShape' /\ \A v \in Workers : ~Holds(v)'
      BY <1>2, <2>1, StopFacts DEF RaiseError, FindNewerSave, PublishShape
    <2>3. generation' = generation
      BY <1>2 DEF RaiseError, FindNewerSave, Wait, Fail, EndRun
    <2> QED  BY <2>1, <2>2, <2>3, QuietPublish DEF PublishShape
  <1>3. CASE LoseLease(w)
    <2>1. UNCHANGED <<generation, submissions, settled, publish, run>>
      BY <1>3 DEF LoseLease, work, document, evidence, history
    <2>2. \A v \in Workers : ~Holds(v)'
      BY <1>3 DEF LoseLease, Holds
    <2> QED  BY <2>1, <2>2, QuietPublish DEF PublishShape
  <1>4. CASE AbandonRun(w) \/ Crash(w)
    <2>1. UNCHANGED <<generation, submissions, settled, publish>>
      BY <1>4 DEF AbandonRun, Crash, work, document, evidence, aside, history
    <2>2. /\ DOMAIN run' = Workers
          /\ \A v \in Workers : run'[v] = IF v = w THEN NoRun ELSE run[v]
      BY <1>4 DEF AbandonRun, Crash, PublishShape
    <2>3. PublishShape'
      BY <2>1, <2>2 DEF PublishShape, NoRun
    <2>4. \A v \in Workers : Holds(v)' => Holds(v) /\ v # w
      BY <1>4, NobodyAssumption DEF AbandonRun, Crash, Holds
    <2> QED  BY <2>1, <2>2, <2>3, <2>4, QuietPublish DEF PublishShape
  <1> QED  BY <1>1, <1>2, <1>3, <1>4

(* A step of a run that takes it to pc and leaves the evidence alone.      *)
LEMMA MovePublishInv ==
    ASSUME PublishInv, NEW w \in Workers, NEW pc, Go(w, pc),
           pc \in PastReconciliation => run[w].pc \in PastReconciliation,
           UNCHANGED <<generation, lease, publish, submissions, settled>>
    PROVE  PublishInv'
  <1>1. /\ PublishShape'
        /\ run'[w].pc = pc
        /\ \A v \in Workers : /\ Holds(v)' = Holds(v)
                              /\ run'[v].content = run[v].content
                              /\ v # w => run'[v] = run[v]
    BY MoveFacts DEF PublishInv, PublishShape
  <1> QED  BY <1>1, QuietPublish DEF PublishInv, PublishShape

(* A step that ends the run and leaves the evidence alone.                 *)
LEMMA StopPublishInv ==
    ASSUME PublishInv, NEW w \in Workers,
           Wait(w) \/ Fail(w) \/ RequireRepair(w),
           UNCHANGED <<publish, submissions, settled>>
    PROVE  PublishInv'
  <1>1. PublishShape' /\ \A v \in Workers : ~Holds(v)'
    BY StopFacts DEF PublishInv, PublishShape
  <1>2. generation' = generation
    BY DEF Wait, Fail, RequireRepair, EndRun
  <1> QED  BY <1>1, <1>2, QuietPublish DEF PublishInv, PublishShape

(* Creation does not touch the evidence of a publication.                  *)
LEMMA CreationPublishInv ==
    ASSUME PublishInv, NEW w \in Workers, Creation(w) \/ Continue(w)
    PROVE  PublishInv'
  <1> USE DEF PastReconciliation, work, lease, document, evidence, remote,
              aside, history
  <1>1. CASE \E i \in Candidates : RecoverCreate(w, i)
    <2>1. UNCHANGED <<publish, submissions, settled>>
      BY <1>1 DEF RecoverCreate
    <2>2. CASE Fail(w)
      BY <2>1, <2>2, StopPublishInv
    <2>3. CASE Go(w, "bound") /\ UNCHANGED <<work, lease, inflight>>
      BY <2>1, <2>3, MovePublishInv
    <2> QED  BY <1>1, <2>2, <2>3 DEF RecoverCreate
  <1>2. CASE CreateNotFound(w) \/ RefuseCreate(w) \/ LookUpCreate(w)
    BY <1>2, StopPublishInv DEF CreateNotFound, RefuseCreate, LookUpCreate
  <1>3. CASE Continue(w) \/ ConfirmCreate(w)
    <2>1. Go(w, "bound")
      BY <1>3 DEF Continue, ConfirmCreate
    <2>2. UNCHANGED <<generation, lease, publish, submissions, settled>>
      BY <1>3 DEF Continue, ConfirmCreate
    <2> QED  BY <2>1, <2>2, MovePublishInv
  <1>4. CASE StartCreate(w)
    <2>1. Go(w, "create")
      BY <1>4 DEF StartCreate
    <2>2. UNCHANGED <<generation, lease, publish, submissions, settled>>
      BY <1>4 DEF StartCreate
    <2> QED  BY <2>1, <2>2, MovePublishInv
  <1>5. CASE SendCreate(w)
    <2>1. Go(w, "creating")
      BY <1>5 DEF SendCreate
    <2>2. UNCHANGED <<generation, lease, publish, submissions, settled>>
      BY <1>5 DEF SendCreate
    <2> QED  BY <2>1, <2>2, MovePublishInv
  <1>6. CASE \E outcome \in {"failed", "uncertain"} : FailCreate(w, outcome)
    <2>1. Go(w, "lookup")
      BY <1>6 DEF FailCreate
    <2>2. UNCHANGED <<generation, lease, publish, submissions, settled>>
      BY <1>6 DEF FailCreate
    <2> QED  BY <2>1, <2>2, MovePublishInv
  <1> QED  BY <1>1, <1>2, <1>3, <1>4, <1>5, <1>6 DEF Creation

(* A step of a run that changes other fields than the content it has.      *)
LEMMA ReadFacts ==
    ASSUME PublishInv, NEW w \in Workers, NEW e,
           DOMAIN e = DOMAIN NoRun, e.content = run[w].content,
           e.pc \in PastReconciliation => run[w].pc \in PastReconciliation,
           run' = [run EXCEPT ![w] = e],
           UNCHANGED <<generation, lease, publish, submissions, settled>>
    PROVE  PublishInv'
  <1>1. DOMAIN run' = Workers /\ run'[w] = e
        /\ \A v \in Workers : v # w => run'[v] = run[v]
    BY DEF PublishInv, PublishShape
  <1>2. PublishShape'
    BY <1>1 DEF PublishInv, PublishShape
  <1>3. \A v \in Workers : Holds(v)' = Holds(v)
    BY DEF Holds, lease
  <1> QED  BY <1>1, <1>2, <1>3, QuietPublish DEF PublishInv, PublishShape

(* An answer of Figshare does not let a run pass its reconciliation.       *)
LEMMA FigsharePublishInv ==
    ASSUME PublishInv,
           \/ \E r \in inflight : Perform(r) \/ Refuse(r)
           \/ \E approve \in BOOLEAN : Review(approve)
           \/ SubmitByHand
    PROVE  PublishInv'
  <1> USE DEF work, lease, document, evidence, remote, aside, history
  <1>1. CASE \E r \in inflight : Perform(r)
    <2>1. PICK r \in inflight : Perform(r)
      BY <1>1
    <2>2. UNCHANGED <<generation, lease, publish, submissions, settled>>
      BY <2>1 DEF Perform
    <2>3. CASE UNCHANGED run
      BY <2>2, <2>3, StillFacts DEF PublishInv, PublishShape
    <2>4. CASE run' # run
      <3>1. PICK w \in Workers :
                  /\ WaitsFor(w, r)
                  /\ run' = [run EXCEPT
                        ![w].pc = CASE r.type = "create"  -> "created"
                                    [] r.type = "update"  -> "sent"
                                    [] r.type = "publish" -> "published",
                        ![w].made = IF r.type = "create" THEN Len(articles')
                                    ELSE @]
        BY <2>1, <2>4 DEF Perform
      <3> DEFINE pc == CASE r.type = "create"  -> "created"
                         [] r.type = "update"  -> "sent"
                         [] r.type = "publish" -> "published"
                 made == IF r.type = "create" THEN Len(articles')
                         ELSE run[w].made
      <3>2. pc \in PastReconciliation => run[w].pc \in PastReconciliation
        BY <3>1 DEF WaitsFor, PastReconciliation
      <3>3. run' = [run EXCEPT ![w].pc = pc, ![w].made = made]
        BY <3>1
      <3> HIDE DEF pc, made
      <3>4. DOMAIN run = Workers /\ DOMAIN run[w] = DOMAIN NoRun
        BY DEF PublishInv, PublishShape
      <3>5. run' = [run EXCEPT ![w] = [run[w] EXCEPT !.pc = pc, !.made = made]]
        BY <3>3, <3>4
      <3> DEFINE e == [run[w] EXCEPT !.pc = pc, !.made = made]
      <3>6. DOMAIN e = DOMAIN NoRun /\ e.pc = pc /\ e.content = run[w].content
        BY <3>4 DEF NoRun
      <3>7. run' = [run EXCEPT ![w] = e]
        BY <3>5
      <3> HIDE DEF e
      <3> QED  BY <2>2, <3>2, <3>6, <3>7, ReadFacts
    <2> QED  BY <2>3, <2>4
  <1>2. CASE \E r \in inflight : Refuse(r)
    <2>1. PICK r \in inflight, w \in Workers : Refuse(r) /\ Go(w, "refused")
      BY <1>2 DEF Refuse, Go
    <2>2. UNCHANGED <<generation, lease, publish, submissions, settled>>
      BY <2>1 DEF Refuse
    <2> QED  BY <2>1, <2>2, MovePublishInv DEF PastReconciliation
  <1>3. CASE (\E approve \in BOOLEAN : Review(approve)) \/ SubmitByHand
    <2>1. UNCHANGED <<generation, lease, run, publish, submissions, settled>>
      BY <1>3 DEF Review, SubmitByHand
    <2> QED  BY <2>1, StillFacts DEF PublishInv, PublishShape
  <1> QED  BY <1>1, <1>2, <1>3

(* The reconciliation: a publication is observed, awaited or superseded.   *)
LEMMA ReconcilePublishInv ==
    ASSUME PublishInv, NEW w \in Workers,
           ReconcileDone(w) \/ Supersede(w) \/ AwaitPublication(w)
    PROVE  PublishInv'
  <1> USE DEF PublishInv
  <1>1. CASE ReconcileDone(w)
    <2>1. /\ UNCHANGED submissions /\ settled \subseteq settled'
          /\ DOMAIN publish' = DOMAIN NoPublish
          /\ publish'.id = publish.id /\ publish'.generation = publish.generation
          /\ publish'.outcome = IF Outstanding THEN "observed"
                                ELSE publish.outcome
          /\ Outstanding => publish.id \in settled'
      BY <1>1 DEF ReconcileDone, PublishShape, NoPublish
    <2>2. publish'.outcome \in {"none", "observed"}
          /\ (publish'.outcome = "none" => publish.outcome = "none")
          /\ (publish'.outcome = "observed" => publish.id \in {0} \cup settled')
      BY <2>1 DEF Outstanding, EvidenceIsLatest
    <2>3. Reconciled'
      BY <2>2 DEF Reconciled, Outstanding
    <2>4. CASE Wait(w)
      <3>1. PublishShape' /\ \A v \in Workers : ~Holds(v)'
        BY <2>1, <2>4, StopFacts
      <3>2. generation' = generation
        BY <2>4 DEF Wait, EndRun
      <3> QED  BY <2>1, <2>2, <2>3, <3>1, <3>2, EvidenceStep DEF PublishShape
    <2>5. CASE Go(w, "update") /\ UNCHANGED <<work, lease, inflight>>
      <3>1. generation' = generation
        BY <2>5 DEF work
      <3>2. PublishShape' /\ \A v \in Workers : Holds(v)' =>
                Holds(v) /\ run'[v].content = run[v].content
        BY <2>1, <2>5, <3>1, MoveFacts
      <3> QED  BY <2>1, <2>2, <2>3, <3>1, <3>2, EvidenceStep DEF PublishShape
    <2> QED  BY <1>1, <2>4, <2>5 DEF ReconcileDone
  <1>2. CASE Supersede(w)
    <2>1. /\ UNCHANGED <<generation, submissions, settled, lease>>
          /\ publish' = NoPublish /\ Holds(w) /\ Go(w, "update")
          /\ run[w].content > publish.generation
      BY <1>2 DEF Supersede, Supersedes, work, remote
    <2>2. /\ PublishShape'
          /\ \A v \in Workers : Holds(v)' =>
                v = w /\ Holds(v) /\ run'[v].content = run[v].content
      BY <2>1, MoveFacts DEF Holds
    <2>3. EvidenceIsLatest' /\ Reconciled' /\ NeverResubmitted'
      BY <2>1 DEF EvidenceIsLatest, Reconciled, Outstanding, NeverResubmitted,
                  NoPublish
    <2>4. SupersededAreOlder'
      <3> SUFFICES ASSUME NEW i \in DOMAIN submissions \ settled
                   PROVE  /\ submissions[i] < generation
                          /\ submissions[i] < run[w].content
        BY <2>1, <2>2 DEF SupersededAreOlder
      <3>1. CASE i = publish.id
        <4>1. i # 0 /\ submissions[i] \in Nat
          BY DEF PublishShape
        <4>2. submissions[i] < run[w].content
          BY <2>1, <3>1, <4>1 DEF EvidenceIsLatest
        <4> QED  BY <4>1, <4>2 DEF PublishShape
      <3>2. CASE i # publish.id
        BY <2>1, <3>2 DEF SupersededAreOlder
      <3> QED  BY <3>1, <3>2
    <2> QED  BY <2>2, <2>3, <2>4
  <1>3. CASE AwaitPublication(w)
    BY <1>3, StopPublishInv DEF AwaitPublication, document, evidence, aside,
       history
  <1> QED  BY <1>1, <1>2, <1>3

(* Content leaves the evidence of a publication alone.                     *)
LEMMA ContentPublishInv ==
    ASSUME PublishInv, NEW w \in Workers,
           \/ ReadArticle(w) \/ SkipLocked(w) \/ SkipEqual(w) \/ SendUpdate(w)
           \/ FailUpdate(w) \/ ConfirmUpdate(w) \/ Decide(w) \/ SkipPublish(w)
           \/ SendPublish(w) \/ FinishSync(w)
    PROVE  PublishInv'
  <1> USE DEF PastReconciliation, work, lease, document, evidence, remote,
              aside, history
  <1>1. CASE ReadArticle(w) \/ Decide(w) \/ SendUpdate(w)
    <2>1. UNCHANGED <<generation, lease, publish, submissions, settled>>
      BY <1>1 DEF ReadArticle, Decide, SendUpdate
    <2>2. PICK e :
             /\ e \in {[run[w] EXCEPT !.pc = "reconcile", !.seen = Seen(bound)],
                       [run[w] EXCEPT !.pc = "deciding", !.seen = Seen(bound)],
                       [run[w] EXCEPT !.pc = "updating", !.changed = TRUE]}
             /\ run' = [run EXCEPT ![w] = e]
             /\ e.pc \in PastReconciliation => run[w].pc \in PastReconciliation
      <3>1. CASE ReadArticle(w)
        BY <3>1 DEF ReadArticle, PublishInv, PublishShape, NoRun
      <3>2. CASE Decide(w)
        BY <3>2 DEF Decide, PublishInv, PublishShape, NoRun
      <3>3. CASE SendUpdate(w)
        BY <3>3 DEF SendUpdate, PublishInv, PublishShape, NoRun
      <3> QED  BY <1>1, <3>1, <3>2, <3>3
    <2>3. DOMAIN e = DOMAIN NoRun /\ e.content = run[w].content
      BY <2>2 DEF PublishInv, PublishShape, NoRun
    <2> QED  BY <2>1, <2>2, <2>3, ReadFacts
  <1>2. CASE SkipLocked(w) \/ SkipEqual(w) \/ ConfirmUpdate(w)
    <2>1. Go(w, "updated") /\ run[w].pc \in PastReconciliation
      BY <1>2 DEF SkipLocked, SkipEqual, ConfirmUpdate
    <2>2. UNCHANGED <<generation, lease, publish, submissions, settled>>
      BY <1>2 DEF SkipLocked, SkipEqual, ConfirmUpdate
    <2> QED  BY <2>1, <2>2, MovePublishInv
  <1>3. CASE FailUpdate(w)
    BY <1>3, StopPublishInv DEF FailUpdate
  <1>4. CASE SkipPublish(w)
    BY <1>4, MovePublishInv DEF SkipPublish
  <1>5. CASE SendPublish(w)
    BY <1>5, MovePublishInv DEF SendPublish
  <1>6. CASE FinishSync(w)
    <2>1. EndRun(w, FALSE) /\ UNCHANGED <<publish, submissions, settled>>
      BY <1>6 DEF FinishSync
    <2>2. PublishShape' /\ \A v \in Workers : ~Holds(v)'
      BY <2>1, EndFacts DEF PublishInv, PublishShape
    <2>3. generation' = generation
      BY <2>1 DEF EndRun
    <2> QED  BY <2>1, <2>2, <2>3, QuietPublish DEF PublishInv, PublishShape
  <1> QED  BY <1>1, <1>2, <1>3, <1>4, <1>5, <1>6

(* A request of publication is of newer content, or the last was observed. *)
LEMMA StartPublishInv ==
    ASSUME PublishInv, NEW w \in Workers, StartPublish(w)
    PROVE  PublishInv'
  <1> USE DEF PublishInv
  <1> DEFINE n == Len(submissions)
             c == run[w].content
  <1>1. /\ UNCHANGED <<generation, lease, settled>>
        /\ submissions' = Append(submissions, c)
        /\ publish'.id = n + 1 /\ publish'.generation = c
        /\ publish'.outcome = "submitted"
        /\ DOMAIN publish' = DOMAIN NoPublish
        /\ Holds(w) /\ Go(w, "publish")
    BY DEF StartPublish, work, NoPublish
  <1>2. n \in Nat /\ c \in Nat /\ c <= generation /\ generation \in Nat
    BY DEF PublishShape
  <1>3. /\ submissions' \in Seq(Nat)
        /\ DOMAIN submissions = 1 .. n /\ DOMAIN submissions' = 1 .. (n + 1)
        /\ Len(submissions') = n + 1
        /\ submissions'[n + 1] = c
        /\ \A i \in 1 .. n : submissions'[i] = submissions[i]
    BY <1>1, <1>2 DEF PublishShape
  <1>4. /\ DOMAIN run' = Workers /\ run'[w].pc = "publish"
        /\ \A v \in Workers : /\ DOMAIN run'[v] = DOMAIN NoRun
                              /\ run'[v].content = run[v].content
                              /\ Holds(v)' => v = w
    BY <1>1 DEF Go, PublishShape, NoRun, Holds, lease
  <1>5. PublishShape'
    BY <1>1, <1>3, <1>4 DEF PublishShape
  <1>6. EvidenceIsLatest'
    BY <1>1, <1>2, <1>3 DEF EvidenceIsLatest
  <1>7. Reconciled'
    BY <1>4 DEF Reconciled, PastReconciliation
  <1>8. ASSUME NEW i \in 1 .. n, i \notin settled
        PROVE  submissions[i] < c /\ submissions[i] < generation
    <2>1. i # publish.id
      <3>1. ~Outstanding
        BY <1>1 DEF StartPublish, Reconciled, PastReconciliation
      <3>2. publish.id \in {0} \cup settled
        BY <3>1 DEF Outstanding, EvidenceIsLatest
      <3> QED  BY <1>8, <3>2
    <2> QED  BY <1>1, <1>3, <1>8, <2>1 DEF SupersededAreOlder
  <1>9. SupersededAreOlder'
    <2> SUFFICES ASSUME NEW i \in DOMAIN submissions' \ settled, i # n + 1
                 PROVE  submissions[i] < generation /\ submissions[i] < c
                        /\ submissions'[i] = submissions[i]
      BY <1>1, <1>4 DEF SupersededAreOlder
    <2>1. i \in 1 .. n
      BY <1>2, <1>3
    <2> QED  BY <1>3, <1>8, <2>1
  <1>10. NeverResubmitted'
    <2> SUFFICES ASSUME NEW i \in 1 .. (n + 1), NEW j \in 1 .. (n + 1), i < j,
                        i \notin settled
                 PROVE  submissions'[i] < submissions'[j]
      BY <1>1, <1>3 DEF NeverResubmitted
    <2>1. i \in 1 .. n
      BY <1>2
    <2>2. CASE j = n + 1
      BY <1>3, <1>8, <2>1, <2>2
    <2>3. CASE j # n + 1
      <3>1. j \in 1 .. n
        BY <1>2, <2>3
      <3> QED  BY <1>3, <2>1, <3>1 DEF NeverResubmitted
    <2> QED  BY <2>2, <2>3
  <1> HIDE DEF n, c
  <1> QED  BY <1>5, <1>6, <1>7, <1>9, <1>10

(* Answers to a publication, and an observation of the article.            *)
LEMMA AnswerPublishInv ==
    ASSUME PublishInv, NEW w \in Workers,
           FailPublish(w) \/ RejectPublish(w) \/ AcceptPublish(w) \/ Observe(w)
    PROVE  PublishInv'
  <1> USE DEF PublishInv
  <1>1. /\ UNCHANGED submissions /\ settled \subseteq settled'
        /\ DOMAIN publish' = DOMAIN NoPublish
        /\ publish'.id = publish.id /\ publish'.generation = publish.generation
        /\ publish'.outcome = "none" => publish.outcome = "none"
        /\ publish'.outcome = "observed" => publish.id \in {0} \cup settled'
    <2>1. CASE FailPublish(w) \/ RejectPublish(w) \/ AcceptPublish(w)
      BY <2>1 DEF FailPublish, RejectPublish, AcceptPublish, PublishShape,
                  NoPublish, aside, history
    <2>2. CASE Observe(w)
      BY <2>2 DEF Observe, PublishShape, NoPublish, EvidenceIsLatest
    <2> QED  BY <2>1, <2>2
  <1>2. CASE FailPublish(w) \/ RejectPublish(w) \/ Observe(w)
    <2>1. Wait(w) \/ Fail(w) \/ RequireRepair(w)
      BY <1>2 DEF FailPublish, RejectPublish, Observe
    <2>2. PublishShape' /\ \A v \in Workers : ~Holds(v)'
      BY <1>1, <2>1, StopFacts
    <2>3. generation' = generation
      BY <2>1 DEF Wait, Fail, RequireRepair, EndRun
    <2>4. Reconciled'
      BY <2>2 DEF Reconciled
    <2> QED  BY <1>1, <2>2, <2>3, <2>4, EvidenceStep DEF PublishShape
  <1>3. CASE AcceptPublish(w)
    <2>1. UNCHANGED <<generation, lease>> /\ Go(w, "finish") /\ Holds(w)
      BY <1>3 DEF AcceptPublish, work
    <2>2. /\ PublishShape' /\ run'[w].pc = "finish"
          /\ \A v \in Workers : /\ Holds(v)' = Holds(v)
                                /\ run'[v].content = run[v].content
      BY <1>1, <2>1, MoveFacts
    <2>3. \A v \in Workers : Holds(v)' => v = w
      BY <2>1, <2>2 DEF Holds
    <2>4. Reconciled'
      BY <2>2, <2>3 DEF Reconciled, PastReconciliation
    <2> QED  BY <1>1, <2>1, <2>2, <2>4, EvidenceStep DEF PublishShape
  <1> QED  BY <1>2, <1>3

(* An operator settles the publication it resets.                          *)
LEMMA AdminPublishInv ==
    ASSUME PublishInv, NEW o \in Operators, AdminStep(o)
    PROVE  PublishInv'
  <1> USE DEF PublishInv
  <1>1. CASE VerifyAbandon(o) \/ VerifyReset(o) \/ GiveUpRepair(o)
    BY <1>1, StillFacts DEF VerifyAbandon, VerifyReset, GiveUpRepair, work,
       document, evidence, history, PublishShape
  <1>2. CASE AbandonCreate(o) \/ Resume(o)
    <2>1. UNCHANGED <<generation, run, publish, submissions, settled>>
      BY <1>2 DEF AbandonCreate, Resume, work, document, evidence, aside,
                  history
    <2>2. PublishShape' /\ \A v \in Workers : ~Holds(v)'
      BY <1>2, <2>1 DEF AbandonCreate, Resume, PublishShape, Holds
    <2> QED  BY <2>1, <2>2, QuietPublish DEF PublishShape
  <1>3. CASE ResetPublish(o)
    <2>1. /\ UNCHANGED <<generation, run, submissions>>
          /\ publish' = NoPublish /\ settled' = settled \cup {publish.id}
          /\ \A v \in Workers : ~Holds(v)'
      BY <1>3 DEF ResetPublish, work, Holds
    <2>2. PublishShape'
      BY <2>1 DEF PublishShape
    <2>3. EvidenceIsLatest' /\ Reconciled' /\ NeverResubmitted'
      BY <2>1 DEF EvidenceIsLatest, Reconciled, NeverResubmitted, NoPublish
    <2>4. SupersededAreOlder'
      BY <2>1 DEF SupersededAreOlder
    <2> QED  BY <2>2, <2>3, <2>4
  <1> QED  BY <1>1, <1>2, <1>3 DEF AdminStep

(* The evidence of a publication is that of the last submission; what was  *)
(* neither settled nor kept as evidence is of an older save; and no run    *)
(* goes past its reconciliation while a publication is outstanding.        *)
THEOREM PublicationsAreReconciled == Spec => []PublishInv
  <1>1. Init => PublishInv
    <2> SUFFICES ASSUME Init PROVE PublishInv
      OBVIOUS
    <2>1. generation = 1 /\ submissions = <<>> /\ publish = NoPublish
          /\ run = [w \in Workers |-> NoRun]
      BY DEF Init
    <2>2. PublishShape
      BY <2>1 DEF PublishShape, NoRun
    <2>3. EvidenceIsLatest /\ SupersededAreOlder /\ NeverResubmitted
      BY <2>1 DEF EvidenceIsLatest, SupersededAreOlder, NeverResubmitted,
                  NoPublish
    <2>4. Reconciled
      BY <2>1 DEF Reconciled, Outstanding, NoPublish
    <2> QED  BY <2>2, <2>3, <2>4 DEF PublishInv
  <1>2. PublishInv /\ [Next]_vars => PublishInv'
    <2> SUFFICES ASSUME PublishInv, [Next]_vars PROVE PublishInv'
      OBVIOUS
    <2>1. CASE Save \/ UNCHANGED vars
      <3>1. UNCHANGED <<lease, run, publish, submissions, settled>>
        BY <2>1 DEF Save, vars, document, evidence, aside, history
      <3>2. generation' \in Nat /\ generation <= generation'
        BY <2>1 DEF Save, vars, work, PublishInv, PublishShape
      <3> QED  BY <3>1, <3>2, StillFacts
    <2>2. CASE \/ \E r \in inflight : Perform(r) \/ Refuse(r)
               \/ \E approve \in BOOLEAN : Review(approve)
               \/ SubmitByHand
      BY <2>2, FigsharePublishInv
    <2>3. CASE \E w \in Workers : RunStep(w) \/ LoseLease(w) \/ Crash(w)
      BY <2>3, BoundaryPublishInv, CreationPublishInv, ReconcilePublishInv,
         ContentPublishInv, StartPublishInv, AnswerPublishInv
         DEF RunStep, Publication
    <2>4. CASE \E o \in Operators : AdminStep(o)
      BY <2>4, AdminPublishInv
    <2> QED  BY <2>1, <2>2, <2>3, <2>4 DEF Next
  <1> QED  BY <1>1, <1>2, PTL DEF Spec

(* A publication request of the same content is never repeated unless the  *)
(* one before was observed, or reset by an operator: for any number of     *)
(* saves, requests, crashes and workers.                                   *)
THEOREM NoPublicationIsRepeated == Spec => []NeverResubmitted
  <1>1. PublishInv => NeverResubmitted
    BY DEF PublishInv
  <1> QED  BY <1>1, PublicationsAreReconciled, PTL

-----------------------------------------------------------------------------
(* That what was observed is public.                                       *)

\* A run that does not come to look at the article, nor to report an update.
Same(w) ==
    /\ run'[w].content = run[w].content /\ run'[w].seen = run[w].seen
    /\ Holds(w)' => Holds(w)
    /\ run'[w].pc \in {"sent", "reconcile", "deciding"} => run'[w].pc = run[w].pc

\* One that is over.
Over(w) == run'[w].pc = "idle" /\ ~Holds(w)'

(* The numbers that are compared.                                          *)
LEMMA Numbers ==
    ASSUME Types
    PROVE  /\ generation \in Nat /\ requested \in Nat /\ synced \in Nat
           /\ publish.content \in Nat /\ publish.previousVersion \in Nat
           /\ \A i \in DOMAIN articles : articles[i] \in ArticleForms
           /\ \A i \in DOMAIN articles :
                 articles[i].content \in Nat /\ articles[i].version \in Nat
                 /\ articles[i].published \in Nat
           /\ \A w \in Workers : run[w] \in RunForms
           /\ \A w \in Workers : run[w].content \in Nat /\ run[w].seen.version \in Nat
           /\ \A r \in inflight : r.of \in Nat
           /\ bound # 0 => bound \in DOMAIN articles
           /\ 0 \notin DOMAIN articles
           /\ \A w \in Workers : run[w].pc \in AtArticle => bound # 0
           /\ bound = 0 => publish = NoPublish /\ synced = 0
  <1>1. articles \in Seq(ArticleForms)
    BY DEF Types, TypeOK, ArticleForms
  <1>2. \A i \in DOMAIN articles : articles[i] \in ArticleForms
    BY <1>1, ElementOfSeq, LenProperties
  <1>3. \A i \in DOMAIN articles :
           articles[i].content \in Nat /\ articles[i].version \in Nat
           /\ articles[i].published \in Nat
    BY <1>2 DEF ArticleForms
  <1>4. \A w \in Workers : run[w] \in RunForms
    BY DEF Types
  <1>5. \A w \in Workers : run[w].content \in Nat /\ run[w].seen.version \in Nat
    BY <1>4 DEF RunForms
  <1>6. publish.content \in Nat /\ publish.previousVersion \in Nat
    BY EvidenceForms DEF PublishForms
  <1>7. \A r \in inflight : r.of \in Nat
    BY DEF Types, TypeOK, Requests
  <1>8. /\ generation \in Nat /\ requested \in Nat /\ synced \in Nat
        /\ bound \in {0} \cup DOMAIN articles /\ 0 \notin DOMAIN articles
    BY <1>1, LenProperties DEF Types, TypeOK
  <1>9. \A w \in Workers : run[w].pc \in AtArticle => bound # 0
    BY DEF Types, RunInv
  <1>10. bound = 0 => publish = NoPublish /\ synced = 0
    BY EvidenceForms
  <1> QED  BY <1>2, <1>3, <1>4, <1>5, <1>6, <1>7, <1>8, <1>9, <1>10

(* A step that leaves the articles alone and sends no update.              *)
LEMMA QuietAhead ==
    ASSUME PublicInv, Types', UNCHANGED articles, generation <= generation',
           UNCHANGED bound \/ bound = 0, UpdatesInFlight' \subseteq UpdatesInFlight
    PROVE  UpdatesAhead'
  <1>1. \A i \in DOMAIN articles : i # bound' => articles[i].content = 0
    BY Numbers DEF PublicInv, UpdatesAhead
  <1>2. generation \in Nat /\ generation' \in Nat
    BY Numbers DEF PublicInv, Types, TypeOK
  <1>3. \A r, q \in UpdatesInFlight' : r.of = q.of /\ r.of <= generation'
    <2> SUFFICES ASSUME NEW r \in UpdatesInFlight', NEW q \in UpdatesInFlight'
                 PROVE  r.of = q.of /\ r.of <= generation'
      OBVIOUS
    <2>1. r.of = q.of /\ r.of <= generation /\ r.of \in Nat
      BY Numbers DEF PublicInv, UpdatesAhead, UpdatesInFlight
    <2> QED  BY <1>2, <2>1
  <1>4. \A i \in DOMAIN articles :
           /\ articles[i].content <= generation'
           /\ \A r \in UpdatesInFlight' : articles[i].content <= r.of
    <2> SUFFICES ASSUME NEW i \in DOMAIN articles
                 PROVE  /\ articles[i].content <= generation'
                        /\ \A r \in UpdatesInFlight' : articles[i].content <= r.of
      OBVIOUS
    <2>1. articles[i].content <= generation /\ articles[i].content \in Nat
      BY Numbers DEF PublicInv, UpdatesAhead
    <2> QED  BY <1>2, <2>1 DEF PublicInv, UpdatesAhead
  <1> QED  BY <1>1, <1>3, <1>4 DEF UpdatesAhead

(* A run that is not concerned by a step that leaves the articles alone.   *)
LEMMA QuietRun ==
    ASSUME PublicInv, UNCHANGED <<articles, bound>>, NEW v \in Workers,
           \/ Same(v) /\ (Holds(v)' /\ run[v].pc = "deciding" => UNCHANGED synced)
           \/ Over(v)
    PROVE  RunCovered(v)'
  <1>1. CASE Over(v)
    BY <1>1 DEF Over, RunCovered
  <1>2. CASE Same(v) /\ (Holds(v)' /\ run[v].pc = "deciding" => UNCHANGED synced)
    BY <1>2 DEF Same, PublicInv, RunCovered
  <1> QED  BY <1>1, <1>2

(* A step that leaves articles and evidence alone.                         *)
LEMMA QuietPublic ==
    ASSUME PublicInv, Types', UNCHANGED <<articles, bound, synced, publish>>,
           generation <= generation', UpdatesInFlight' \subseteq UpdatesInFlight,
           \A v \in Workers : Same(v) \/ Over(v) \/ RunCovered(v)'
    PROVE  PublicInv'
  <1>1. \A v \in Workers : RunCovered(v)'
    BY QuietRun
  <1>2. ArticleCovers' /\ ObservedIsPublic'
    BY DEF PublicInv, ArticleCovers, ObservedIsPublic
  <1> QED  BY <1>1, <1>2, QuietAhead DEF PublicInv

(* A step that checkpoints content or evidence of a publication.           *)
LEMMA CheckpointPublic ==
    ASSUME PublicInv, Types', UNCHANGED <<articles, bound>>,
           generation <= generation', UpdatesInFlight' \subseteq UpdatesInFlight,
           bound # 0 =>
              /\ synced' <= articles[bound].content
              /\ publish'.content <= articles[bound].content
              /\ articles[bound].version > publish'.previousVersion
                    => articles[bound].published >= publish'.content,
           ObservedIsPublic',
           \A v \in Workers : \/ Same(v) /\ (Holds(v)' /\ run[v].pc = "deciding" => UNCHANGED synced)
                              \/ Over(v) \/ RunCovered(v)'
    PROVE  PublicInv'
  <1>1. \A v \in Workers : RunCovered(v)'
    BY QuietRun
  <1>2. ArticleCovers'
    BY DEF ArticleCovers
  <1> QED  BY <1>1, <1>2, QuietAhead DEF PublicInv

(* The record is bound to an article.                                      *)
LEMMA BindPublic ==
    ASSUME PublicInv, Types', bound = 0, UNCHANGED <<articles, synced, publish>>,
           generation <= generation', UpdatesInFlight' \subseteq UpdatesInFlight,
           \A v \in Workers : Same(v) \/ Over(v)
    PROVE  PublicInv'
  <1>1. \A v \in Workers : RunCovered(v)'
    <2> SUFFICES ASSUME NEW v \in Workers PROVE RunCovered(v)'
      OBVIOUS
    <2>1. CASE Over(v)
      BY <2>1 DEF Over, RunCovered
    <2>2. CASE Same(v)
      <3>1. run[v].pc \notin {"sent", "reconcile", "deciding"}
        BY Numbers DEF PublicInv, AtArticle
      <3> QED  BY <2>2, <3>1 DEF Same, PublicInv, RunCovered
    <2> QED  BY <2>1, <2>2
  <1>2. publish = NoPublish /\ synced = 0
    BY Numbers DEF PublicInv
  <1>3. publish.content = 0 /\ publish.outcome = "none"
    BY <1>2 DEF NoPublish
  <1>4. bound' # 0 => /\ articles[bound'].content \in Nat
                      /\ articles[bound'].published \in Nat
    <2>1. bound' \in {0} \cup DOMAIN articles
      BY DEF Types, TypeOK
    <2> QED  BY <2>1, Numbers DEF PublicInv
  <1>5. ArticleCovers' /\ ObservedIsPublic'
    BY <1>2, <1>3, <1>4 DEF ArticleCovers, ObservedIsPublic
  <1> QED  BY <1>1, <1>5, QuietAhead DEF PublicInv

(* A run that moves on.                                                    *)
LEMMA MoveSame ==
    ASSUME Types, NEW w \in Workers, NEW pc \in Pcs, Go(w, pc),
           pc \notin {"sent", "reconcile", "deciding"}, UNCHANGED lease
    PROVE  \A v \in Workers : Same(v)
  <1>1. run[w] \in RunForms
    BY DEF Types
  <1>2. /\ run'[w] = [run[w] EXCEPT !.pc = pc] /\ run'[w].pc = pc
        /\ \A v \in Workers \ {w} : run'[v] = run[v]
    BY MoveTypes
  <1>3. run'[w].content = run[w].content /\ run'[w].seen = run[w].seen
    BY <1>1, <1>2 DEF RunForms
  <1>4. \A v \in Workers : Holds(v)' = Holds(v)
    BY DEF Holds, lease
  <1> QED  BY <1>2, <1>3, <1>4 DEF Same

(* A run that ends.                                                        *)
LEMMA EndOver ==
    ASSUME Types, NEW w \in Workers, NEW again, EndRun(w, again)
    PROVE  /\ \A v \in Workers : Same(v) \/ Over(v)
           /\ generation' = generation /\ UpdatesInFlight' \subseteq UpdatesInFlight
  <1>1. /\ run' = [run EXCEPT ![w] = NoRun] /\ generation' = generation
        /\ leaseLive' = FALSE /\ inflight' \subseteq inflight
    BY DEF EndRun, Withdraw
  <1>2. run'[w].pc = "idle" /\ \A v \in Workers \ {w} : run'[v] = run[v]
    BY <1>1 DEF Types, NoRun
  <1> QED  BY <1>1, <1>2 DEF Same, Over, Holds, UpdatesInFlight

(* So it is for each way a run ends.                                       *)
LEMMA StopOver ==
    ASSUME Types, NEW w \in Workers, Wait(w) \/ Fail(w) \/ RequireRepair(w)
    PROVE  /\ \A v \in Workers : Same(v) \/ Over(v)
           /\ generation' = generation /\ UpdatesInFlight' \subseteq UpdatesInFlight
  BY EndOver DEF Wait, Fail, RequireRepair

(* A stop that changes nothing of the article and the publication.         *)
LEMMA StopPublic ==
    ASSUME PublicInv, Types', NEW w \in Workers, Wait(w) \/ Fail(w) \/ RequireRepair(w),
           UNCHANGED <<articles, bound, synced, publish>>
    PROVE  PublicInv'
  <1>1. Types /\ generation \in Nat
    BY Numbers DEF PublicInv
  <1> QED  BY <1>1, StopOver, QuietPublic

(* Begin, the loss of a lease, and the ends of runs.                       *)
LEMMA BoundaryPublic ==
    ASSUME PublicInv, Types', NEW w \in Workers,
           \/ Begin(w) \/ RaiseError(w) \/ FindNewerSave(w) \/ LoseLease(w)
           \/ AbandonRun(w) \/ Crash(w)
    PROVE  PublicInv'
  <1>0. Types /\ generation \in Nat
    BY Numbers DEF PublicInv
  <1>1. CASE Begin(w)
    <2>1. /\ leaseOwner' = w /\ ~leaseLive
          /\ UNCHANGED <<generation, articles, inflight, bound, synced, publish>>
          /\ run' = [run EXCEPT ![w] = [NoRun EXCEPT
                !.pc = IF due THEN "start" ELSE "observe",
                !.content = generation, !.requested = requested]]
      BY <1>1 DEF Begin, work, document, evidence, remote
    <2>2. \A v \in Workers \ {w} : Same(v)
      BY <2>1, <1>0 DEF Same, Holds, Types
    <2>3. run'[w].content = generation /\ run'[w].pc \in {"start", "observe"}
      <3>1. run'[w] = [NoRun EXCEPT !.pc = IF due THEN "start" ELSE "observe",
                          !.content = generation, !.requested = requested]
        BY <2>1, <1>0 DEF Types
      <3> QED  BY <3>1 DEF NoRun
    <2>4. RunCovered(w)'
      BY <2>1, <2>3 DEF RunCovered, PublicInv, UpdatesAhead
    <2>5. UpdatesInFlight' = UpdatesInFlight
      BY <2>1 DEF UpdatesInFlight
    <2> QED  BY <1>0, <2>1, <2>2, <2>4, <2>5, QuietPublic
  <1>2. CASE RaiseError(w) \/ FindNewerSave(w)
    <2>1. Wait(w) \/ Fail(w)
      BY <1>2 DEF RaiseError, FindNewerSave
    <2>2. UNCHANGED <<articles, bound, synced, publish>>
      BY <1>2 DEF RaiseError, FindNewerSave, document, evidence
    <2> QED  BY <2>1, <2>2, StopPublic
  <1>3. CASE LoseLease(w)
    <2>1. UNCHANGED <<generation, articles, inflight, bound, synced, publish, run>>
          /\ leaseLive' = FALSE
      BY <1>3 DEF LoseLease, work, document, evidence, remote
    <2>2. \A v \in Workers : Same(v)
      BY <2>1 DEF Same, Holds
    <2>3. UpdatesInFlight' = UpdatesInFlight
      BY <2>1 DEF UpdatesInFlight
    <2> QED  BY <1>0, <2>1, <2>2, <2>3, QuietPublic
  <1>4. CASE AbandonRun(w) \/ Crash(w)
    <2>1. /\ UNCHANGED <<generation, articles, bound, synced, publish>>
          /\ run' = [run EXCEPT ![w] = NoRun] /\ inflight' \subseteq inflight
          /\ leaseOwner' \in {leaseOwner, Nobody} /\ leaseLive' \in {leaseLive, FALSE}
          /\ ~Holds(w)'
      BY <1>4, NobodyAssumption DEF AbandonRun, Crash, Withdraw, work, document, evidence, Holds
    <2>2. run'[w].pc = "idle" /\ \A v \in Workers \ {w} : run'[v] = run[v]
      BY <2>1, <1>0 DEF Types, NoRun
    <2>3. \A v \in Workers : Holds(v)' => Holds(v)
      BY <2>1, NobodyAssumption DEF Holds
    <2>4. \A v \in Workers : Same(v) \/ Over(v)
      BY <2>1, <2>2, <2>3 DEF Same, Over
    <2>5. UpdatesInFlight' \subseteq UpdatesInFlight
      BY <2>1 DEF UpdatesInFlight
    <2> QED  BY <1>0, <2>1, <2>4, <2>5, QuietPublic
  <1> QED  BY <1>1, <1>2, <1>3, <1>4

(* Creation, and that there is an article.                                 *)
LEMMA CreationPublic ==
    ASSUME PublicInv, Types', NEW w \in Workers, Creation(w) \/ Continue(w)
    PROVE  PublicInv'
  <1>0. /\ Types /\ generation \in Nat
        /\ {"bound", "create", "creating", "lookup"} \subseteq Pcs
    BY Numbers DEF PublicInv, Pcs, Creating, AtArticle
  <1>1. ASSUME NEW pc \in {"bound", "create", "creating", "lookup"}, Go(w, pc),
               UNCHANGED lease, UNCHANGED generation, UpdatesInFlight' = UpdatesInFlight,
               UNCHANGED <<articles, synced, publish>>, UNCHANGED bound \/ bound = 0
        PROVE  PublicInv'
    <2>1. \A v \in Workers : Same(v)
      BY <1>0, <1>1, MoveSame
    <2> QED  BY <1>0, <1>1, <2>1, QuietPublic, BindPublic
  <1>2. CASE Continue(w) \/ StartCreate(w) \/ \E outcome \in {"failed", "uncertain"} : FailCreate(w, outcome)
    <2>1. /\ UNCHANGED <<generation, lease, articles, inflight, bound, synced, publish>>
          /\ \E pc \in {"bound", "create", "lookup"} : Go(w, pc)
      BY <1>2 DEF Continue, StartCreate, FailCreate, work, document, evidence, remote
    <2>2. UpdatesInFlight' = UpdatesInFlight
      BY <2>1 DEF UpdatesInFlight
    <2> QED  BY <1>1, <2>1, <2>2
  <1>3. CASE SendCreate(w)
    <2>1. /\ UNCHANGED <<generation, lease, articles, bound, synced, publish>>
          /\ Go(w, "creating")
          /\ inflight' = inflight \cup
               {[type |-> "create", of |-> create.token, article |-> 0, by |-> w]}
      BY <1>3 DEF SendCreate, work, document, evidence
    <2>2. UpdatesInFlight' = UpdatesInFlight
      BY <2>1 DEF UpdatesInFlight
    <2> QED  BY <1>1, <2>1, <2>2
  <1>4. CASE ConfirmCreate(w)
    <2>1. /\ UNCHANGED <<generation, lease, articles, inflight, synced, publish>>
          /\ Go(w, "bound") /\ Holds(w) /\ run[w].pc = "created"
      BY <1>4 DEF ConfirmCreate, work, document, evidence, remote
    <2>2. bound = 0
      BY <1>0, <2>1 DEF Types, RunInv, Creating
    <2>3. UpdatesInFlight' = UpdatesInFlight
      BY <2>1 DEF UpdatesInFlight
    <2> QED  BY <1>1, <2>1, <2>2, <2>3
  <1>5. CASE CreateNotFound(w) \/ RefuseCreate(w)
    <2>1. /\ UNCHANGED <<articles, bound, synced, publish>>
          /\ Wait(w) \/ RequireRepair(w)
      BY <1>5 DEF CreateNotFound, RefuseCreate, document, evidence
    <2> QED  BY <2>1, StopPublic
  <1>6. CASE (\E i \in Candidates : RecoverCreate(w, i)) \/ LookUpCreate(w)
    <2>1. /\ UNCHANGED <<articles, synced, publish>>
          /\ bound = 0 \/ (run[w].pc = "lookup" /\ Holds(w))
          /\ Fail(w) \/ (Go(w, "bound") /\ UNCHANGED <<work, lease, inflight>>)
      BY <1>6 DEF RecoverCreate, LookUpCreate, evidence
    <2>2. bound = 0
      BY <1>0, <2>1 DEF Types, RunInv, Creating
    <2>3. CASE Fail(w)
      BY <1>0, <2>1, <2>2, <2>3, StopOver, BindPublic
    <2>4. CASE Go(w, "bound") /\ UNCHANGED <<work, lease, inflight>>
      <3>1. UpdatesInFlight' = UpdatesInFlight /\ UNCHANGED generation
        BY <2>4 DEF UpdatesInFlight, work
      <3> QED  BY <1>1, <2>1, <2>2, <2>4, <3>1
    <2> QED  BY <2>1, <2>3, <2>4
  <1> QED  BY <1>2, <1>3, <1>4, <1>5, <1>6 DEF Creation

(* What is recorded of a publication besides its outcome stays.            *)
LEMMA OutcomeFacts ==
    ASSUME Types, NEW outcome \in {"accepted", "rejected", "uncertain", "observed"},
           publish' = [publish EXCEPT !.outcome = outcome]
    PROVE  /\ publish'.content = publish.content /\ publish'.outcome = outcome
           /\ publish'.previousVersion = publish.previousVersion
  <1>1. publish \in PublishForms
    BY EvidenceForms
  <1> QED  BY <1>1 DEF PublishForms

(* The outcome of a publication is checkpointed.                           *)
LEMMA OutcomePublic ==
    ASSUME PublicInv, Types', UNCHANGED <<articles, bound, synced>>, bound # 0,
           generation <= generation', UpdatesInFlight' \subseteq UpdatesInFlight,
           \A v \in Workers : Same(v) \/ Over(v),
           \/ publish' \in {publish, NoPublish}
           \/ \E outcome \in {"accepted", "rejected", "uncertain"} :
                 publish' = [publish EXCEPT !.outcome = outcome]
           \/ /\ publish' = [publish EXCEPT !.outcome = "observed"]
              /\ articles[bound].version > publish.previousVersion
    PROVE  PublicInv'
  <1>0. /\ Types /\ ArticleCovers /\ ObservedIsPublic
        /\ articles[bound].content \in Nat /\ articles[bound].published \in Nat
    BY Numbers DEF PublicInv
  <1>1. /\ publish'.content <= articles[bound].content
        /\ articles[bound].version > publish'.previousVersion
              => articles[bound].published >= publish'.content
        /\ ObservedIsPublic'
    <2>1. CASE publish' = publish
      BY <1>0, <2>1 DEF ArticleCovers, ObservedIsPublic
    <2>2. CASE publish' = NoPublish
      <3>1. publish'.content = 0 /\ publish'.outcome = "none"
        BY <2>2 DEF NoPublish
      <3> QED  BY <1>0, <3>1 DEF ObservedIsPublic
    <2>3. CASE \E outcome \in {"accepted", "rejected", "uncertain"} :
                 publish' = [publish EXCEPT !.outcome = outcome]
      BY <1>0, <2>3, OutcomeFacts DEF ArticleCovers, ObservedIsPublic
    <2>4. CASE /\ publish' = [publish EXCEPT !.outcome = "observed"]
               /\ articles[bound].version > publish.previousVersion
      BY <1>0, <2>4, OutcomeFacts DEF ArticleCovers, ObservedIsPublic
    <2> QED  BY <2>1, <2>2, <2>3, <2>4
  <1> QED  BY <1>0, <1>1, CheckpointPublic DEF ArticleCovers

(* What the article showed confirms the publication.                       *)
LEMMA ConfirmedVersion ==
    ASSUME PublicInv, NEW w \in Workers,
           \/ run[w].pc = "reconcile" /\ Confirms(run[w].seen)
           \/ run[w].pc = "observe" /\ Confirms(Seen(bound))
    PROVE  bound # 0 /\ articles[bound].version > publish.previousVersion
  <1>1. bound # 0
    BY Numbers DEF PublicInv, AtArticle
  <1>2. /\ articles[bound].version \in Nat /\ run[w].seen.version \in Nat
        /\ publish.previousVersion \in Nat
    BY <1>1, Numbers DEF PublicInv
  <1> QED  BY <1>1, <1>2 DEF PublicInv, RunCovered, Confirms, Seen

(* Content and reconciliation.                                             *)
LEMMA ContentPublic ==
    ASSUME PublicInv, Types', UpdatesInTime', NEW w \in Workers,
           \/ ReadArticle(w) \/ ReconcileDone(w) \/ Supersede(w)
           \/ AwaitPublication(w) \/ SkipLocked(w) \/ SkipEqual(w)
           \/ SendUpdate(w) \/ FailUpdate(w) \/ ConfirmUpdate(w) \/ Decide(w)
    PROVE  PublicInv'
  <1>0. /\ Types /\ generation \in Nat
        /\ {"update", "updated", "updating"} \subseteq Pcs
        /\ run[w].pc \in AtArticle => bound # 0
        /\ AtArticle = {"bound", "reconcile", "update", "updating", "sent", "updated",
                        "deciding", "publish", "publishing", "published", "refused",
                        "finish", "observe"}
    BY Numbers DEF PublicInv, Pcs, AtArticle
  <1>1. CASE ReadArticle(w) \/ Decide(w)
    <2>1. PICK pc \in {"reconcile", "deciding"} :
             /\ run' = [run EXCEPT ![w].pc = pc, ![w].seen = Seen(bound)]
             /\ run[w].pc \in AtArticle
             /\ UNCHANGED <<work, lease, document, remote, aside>>
      BY <1>0, <1>1 DEF ReadArticle, Decide
    <2>2. /\ run'[w].pc = pc /\ run'[w].seen = Seen(bound)
          /\ run'[w].content = run[w].content
          /\ \A v \in Workers \ {w} : run'[v] = run[v]
      BY <1>0, <2>1, ReadTypes
    <2>3. /\ UNCHANGED <<generation, leaseOwner, leaseLive, articles, inflight, bound, synced, publish>>
          /\ UpdatesInFlight' = UpdatesInFlight
      BY <2>1 DEF work, lease, document, evidence, remote, UpdatesInFlight
    <2>4. \A v \in Workers \ {w} : Same(v)
      BY <2>2, <2>3 DEF Same, Holds
    <2>5. Seen(bound).version = articles[bound].version /\ articles[bound].version \in Nat
      BY <1>0, <2>1, Numbers DEF Seen
    <2>6. RunCovered(w)'
      BY <2>2, <2>3, <2>5 DEF RunCovered, PublicInv, Holds
    <2> QED  BY <1>0, <2>3, <2>4, <2>6, QuietPublic
  <1>2. CASE ReconcileDone(w)
    <2>1. /\ run[w].pc = "reconcile" /\ bound # 0
          /\ Outstanding => Confirms(run[w].seen)
          /\ publish' = IF Outstanding THEN [publish EXCEPT !.outcome = "observed"] ELSE publish
          /\ UNCHANGED <<articles, bound, synced>>
          /\ Wait(w) \/ (Go(w, "update") /\ UNCHANGED <<work, lease, inflight>>)
      BY <1>0, <1>2 DEF ReconcileDone
    <2>2. \/ publish' = publish
          \/ /\ publish' = [publish EXCEPT !.outcome = "observed"]
             /\ articles[bound].version > publish.previousVersion
      BY <2>1, ConfirmedVersion
    <2>3. /\ generation' = generation /\ UpdatesInFlight' \subseteq UpdatesInFlight
          /\ \A v \in Workers : Same(v) \/ Over(v)
      <3>1. CASE Wait(w)
        BY <1>0, <3>1, StopOver
      <3>2. CASE Go(w, "update") /\ UNCHANGED <<work, lease, inflight>>
        BY <1>0, <3>2, MoveSame DEF work, UpdatesInFlight
      <3> QED  BY <2>1, <3>1, <3>2
    <2> QED  BY <1>0, <2>1, <2>2, <2>3, OutcomePublic
  <1>3. CASE Supersede(w)
    <2>1. /\ bound # 0 /\ publish' = NoPublish /\ Go(w, "update")
          /\ UNCHANGED <<generation, lease, articles, inflight, bound, synced>>
      BY <1>0, <1>3 DEF Supersede, work, remote
    <2>2. \A v \in Workers : Same(v)
      BY <1>0, <2>1, MoveSame
    <2>3. UpdatesInFlight' = UpdatesInFlight
      BY <2>1 DEF UpdatesInFlight
    <2> QED  BY <1>0, <2>1, <2>2, <2>3, OutcomePublic
  <1>4. CASE AwaitPublication(w) \/ FailUpdate(w)
    <2>1. /\ UNCHANGED <<articles, bound, synced, publish>>
          /\ Wait(w) \/ Fail(w) \/ RequireRepair(w)
      BY <1>4 DEF AwaitPublication, FailUpdate, document, evidence
    <2> QED  BY <2>1, StopPublic
  <1>5. CASE SkipLocked(w)
    <2>1. /\ UNCHANGED <<generation, lease, articles, inflight, bound, synced, publish>>
          /\ Go(w, "updated")
      BY <1>5 DEF SkipLocked, work, document, evidence, remote
    <2>2. \A v \in Workers : Same(v)
      BY <1>0, <2>1, MoveSame
    <2>3. UpdatesInFlight' = UpdatesInFlight
      BY <2>1 DEF UpdatesInFlight
    <2> QED  BY <1>0, <2>1, <2>2, <2>3, QuietPublic
  <1>6. CASE SkipEqual(w) \/ ConfirmUpdate(w)
    <2>1. /\ run[w].pc \in {"update", "sent"} /\ Holds(w) /\ Go(w, "updated")
          /\ synced' = run[w].content
          /\ run[w].pc = "sent" \/ articles[bound].content = run[w].content
          /\ UNCHANGED <<generation, lease, articles, inflight, bound, publish>>
      BY <1>6 DEF SkipEqual, ConfirmUpdate, work, evidence, remote
    <2>2. \A v \in Workers : Same(v)
      BY <1>0, <2>1, MoveSame
    <2>3. UpdatesInFlight' = UpdatesInFlight
      BY <2>1 DEF UpdatesInFlight
    <2>4. bound # 0 /\ synced' <= articles[bound].content
      <3>1. bound # 0 /\ run[w].content \in Nat
        BY <1>0, <2>1, Numbers
      <3> QED  BY <2>1, <3>1 DEF PublicInv, RunCovered
    <2>5. \A v \in Workers : Holds(v)' => run[v].pc # "deciding"
      BY <2>1 DEF Holds, lease
    <2>6. ArticleCovers /\ ObservedIsPublic'
      BY <2>1 DEF PublicInv, ObservedIsPublic
    <2> QED  BY <1>0, <2>1, <2>2, <2>3, <2>4, <2>5, <2>6, CheckpointPublic DEF ArticleCovers
  <1>7. CASE SendUpdate(w)
    <2> DEFINE r == [type |-> "update", of |-> run[w].content, article |-> bound, by |-> w]
    <2>1. /\ run[w].pc = "update" /\ Holds(w) /\ IsCurrent(w)
          /\ inflight' = inflight \cup {r}
          /\ run' = [run EXCEPT ![w].pc = "updating", ![w].changed = TRUE]
          /\ UNCHANGED <<generation, leaseOwner, leaseLive, articles, bound, synced, publish>>
      BY <1>7 DEF SendUpdate, work, lease, document, evidence
    <2>2. run'[w].content = run[w].content /\ run'[w].seen = run[w].seen /\ run'[w].pc = "updating"
          /\ \A v \in Workers \ {w} : run'[v] = run[v]
      BY <1>0, <2>1 DEF Types, RunForms
    <2>3. \A v \in Workers : Same(v)
      BY <2>1, <2>2 DEF Same, Holds
    <2>4. \A v \in Workers : RunCovered(v)'
      BY <2>1, <2>3, QuietRun
    <2>5. r.of = run[w].content /\ run[w].content = generation /\ r.type = "update"
      BY <2>1 DEF IsCurrent
    <2>6. UpdatesInFlight' = UpdatesInFlight \cup {r} /\ Holds(w)'
      BY <2>1, <2>5 DEF UpdatesInFlight, Holds
    <2> HIDE DEF r
    <2>7. \A q \in UpdatesInFlight' : q.of = run[w].content
      BY <2>2, <2>6 DEF UpdatesInTime
    <2>8. \A i \in DOMAIN articles : articles[i].content <= run[w].content
      BY <2>1 DEF PublicInv, RunCovered
    <2>9. UpdatesAhead'
      BY <1>0, <2>1, <2>5, <2>7, <2>8 DEF PublicInv, UpdatesAhead
    <2>10. ArticleCovers' /\ ObservedIsPublic'
      BY <2>1 DEF PublicInv, ArticleCovers, ObservedIsPublic
    <2> QED  BY <2>4, <2>9, <2>10 DEF PublicInv
  <1> QED  BY <1>1, <1>2, <1>3, <1>4, <1>5, <1>6, <1>7

(* Publication, and the ends of runs.                                      *)
LEMMA PublicationPublic ==
    ASSUME PublicInv, Types', NEW w \in Workers,
           Publication(w) \/ FinishSync(w) \/ Observe(w)
    PROVE  PublicInv'
  <1>0. /\ Types /\ generation \in Nat
        /\ {"publish", "publishing", "finish"} \subseteq Pcs
        /\ run[w].pc \in AtArticle => bound # 0
        /\ AtArticle = {"bound", "reconcile", "update", "updating", "sent", "updated",
                        "deciding", "publish", "publishing", "published", "refused",
                        "finish", "observe"}
    BY Numbers DEF PublicInv, Pcs, AtArticle
  <1>1. CASE StartPublish(w)
    <2>1. /\ run[w].pc = "deciding" /\ Holds(w) /\ Go(w, "publish")
          /\ publish' = [id |-> Len(submissions) + 1, generation |-> run[w].content,
                         content |-> synced, outcome |-> "submitted",
                         previousVersion |-> run[w].seen.version]
          /\ UNCHANGED <<generation, lease, articles, inflight, bound, synced>>
      BY <1>1 DEF StartPublish, work, remote
    <2>2. \A v \in Workers : Same(v)
      BY <1>0, <2>1, MoveSame
    <2>3. UpdatesInFlight' = UpdatesInFlight
      BY <2>1 DEF UpdatesInFlight
    <2>4. bound # 0 /\ RunCovered(w) /\ ArticleCovers
      BY <1>0, <2>1 DEF PublicInv
    <2>5. /\ publish'.content = synced /\ publish'.outcome = "submitted"
          /\ publish'.previousVersion = run[w].seen.version
      BY <2>1
    <2>6. /\ synced' <= articles[bound].content
          /\ publish'.content <= articles[bound].content
          /\ articles[bound].version > publish'.previousVersion
                => articles[bound].published >= publish'.content
      BY <2>1, <2>4, <2>5 DEF RunCovered, ArticleCovers
    <2>7. ObservedIsPublic'
      BY <2>5 DEF ObservedIsPublic
    <2> QED  BY <1>0, <2>1, <2>2, <2>3, <2>6, <2>7, CheckpointPublic
  <1>2. CASE SkipPublish(w)
    <2>1. /\ UNCHANGED <<generation, lease, articles, inflight, bound, synced, publish>>
          /\ Go(w, "finish")
      BY <1>2 DEF SkipPublish, work, document, evidence, remote
    <2>2. \A v \in Workers : Same(v)
      BY <1>0, <2>1, MoveSame
    <2>3. UpdatesInFlight' = UpdatesInFlight
      BY <2>1 DEF UpdatesInFlight
    <2> QED  BY <1>0, <2>1, <2>2, <2>3, QuietPublic
  <1>3. CASE SendPublish(w)
    <2>1. /\ UNCHANGED <<generation, lease, articles, bound, synced, publish>>
          /\ Go(w, "publishing")
          /\ inflight' = inflight \cup
                {[type |-> "publish", of |-> publish.id, article |-> bound, by |-> w]}
      BY <1>3 DEF SendPublish, work, document, evidence
    <2>2. \A v \in Workers : Same(v)
      BY <1>0, <2>1, MoveSame
    <2>3. UpdatesInFlight' = UpdatesInFlight
      BY <2>1 DEF UpdatesInFlight
    <2> QED  BY <1>0, <2>1, <2>2, <2>3, QuietPublic
  <1>4. CASE FailPublish(w) \/ RejectPublish(w)
    <2>1. /\ Fail(w) \/ RequireRepair(w)
          /\ UNCHANGED <<articles, bound, synced>>
          /\ \E outcome \in {"uncertain", "rejected"} :
                publish' = [publish EXCEPT !.outcome = outcome]
      BY <1>0, <1>4 DEF FailPublish, RejectPublish
    <2>2. bound # 0
      BY <1>0, <1>4 DEF FailPublish, RejectPublish
    <2>3. /\ generation' = generation /\ UpdatesInFlight' \subseteq UpdatesInFlight
          /\ \A v \in Workers : Same(v) \/ Over(v)
      BY <1>0, <2>1, StopOver
    <2> QED  BY <1>0, <2>1, <2>2, <2>3, OutcomePublic
  <1>5. CASE AcceptPublish(w)
    <2>1. /\ bound # 0 /\ Go(w, "finish")
          /\ publish' = [publish EXCEPT !.outcome = "accepted"]
          /\ UNCHANGED <<generation, lease, articles, inflight, bound, synced>>
      BY <1>0, <1>5 DEF AcceptPublish, work, remote
    <2>2. \A v \in Workers : Same(v)
      BY <1>0, <2>1, MoveSame
    <2>3. UpdatesInFlight' = UpdatesInFlight
      BY <2>1 DEF UpdatesInFlight
    <2> QED  BY <1>0, <2>1, <2>2, <2>3, OutcomePublic
  <1>6. CASE FinishSync(w)
    <2>1. /\ EndRun(w, FALSE) /\ UNCHANGED <<articles, bound, synced, publish>>
      BY <1>6 DEF FinishSync, document, evidence
    <2>2. /\ generation' = generation /\ UpdatesInFlight' \subseteq UpdatesInFlight
          /\ \A v \in Workers : Same(v) \/ Over(v)
      BY <1>0, <2>1, EndOver
    <2> QED  BY <1>0, <2>1, <2>2, QuietPublic
  <1>7. CASE Observe(w)
    <2> DEFINE seen == Outstanding /\ Confirms(Seen(bound))
    <2>1. /\ run[w].pc = "observe" /\ bound # 0 /\ Wait(w)
          /\ publish' = IF seen THEN [publish EXCEPT !.outcome = "observed"] ELSE publish
          /\ UNCHANGED <<articles, bound, synced>>
      BY <1>0, <1>7 DEF Observe
    <2>2. \/ publish' = publish
          \/ /\ publish' = [publish EXCEPT !.outcome = "observed"]
             /\ articles[bound].version > publish.previousVersion
      BY <2>1, ConfirmedVersion
    <2>3. /\ generation' = generation /\ UpdatesInFlight' \subseteq UpdatesInFlight
          /\ \A v \in Workers : Same(v) \/ Over(v)
      BY <1>0, <2>1, StopOver
    <2> QED  BY <1>0, <2>1, <2>2, <2>3, OutcomePublic
  <1> QED  BY <1>1, <1>2, <1>3, <1>4, <1>5, <1>6, <1>7 DEF Publication

\* What Figshare makes of an article: content stays or grows, and a new version has
\* the content that was there.
Grows(a, b) ==
    /\ a.content <= b.content
    /\ \/ b.version = a.version /\ b.published = a.published
       \/ b.version = a.version + 1 /\ b.published = a.content

(* A step of Figshare that changes the bound article.                      *)
LEMMA GrownArticle ==
    ASSUME PublicInv, Types', UNCHANGED <<generation, lease, bound, synced, publish>>,
           UpdatesInFlight' \subseteq UpdatesInFlight,
           DOMAIN articles' = DOMAIN articles, NEW i \in DOMAIN articles,
           NEW a \in ArticleForms, Grows(articles[i], a),
           \A j \in DOMAIN articles : articles'[j] = IF j = i THEN a ELSE articles[j],
           \/ a.content = articles[i].content
           \/ i = bound /\ \E r \in UpdatesInFlight : r.of = a.content,
           UpdatesInTime,
           \A v \in Workers : /\ run'[v].content = run[v].content
                              /\ run'[v].seen = run[v].seen
                              /\ run'[v].pc \in {"reconcile", "deciding"} => run'[v].pc = run[v].pc
                              /\ \/ run'[v].pc = "sent" => run[v].pc = "sent"
                                 \/ i = bound /\ a.content = run[v].content
    PROVE  PublicInv'
  <1>0. /\ Types /\ generation \in Nat
        /\ \A j \in DOMAIN articles :
              /\ articles[j].content \in Nat /\ articles[j].version \in Nat
              /\ articles[j].published \in Nat
        /\ a.content \in Nat /\ a.version \in Nat /\ a.published \in Nat
        /\ publish.content \in Nat /\ publish.previousVersion \in Nat /\ synced \in Nat
        /\ \A v \in Workers : run[v].content \in Nat /\ run[v].seen.version \in Nat
        /\ bound # 0 => bound \in DOMAIN articles
        /\ \A r \in UpdatesInFlight : r.of \in Nat
    BY Numbers DEF PublicInv, ArticleForms, UpdatesInFlight
  <1>1. UpdatesAhead'
    <2>1. \A r, q \in UpdatesInFlight' : r.of = q.of /\ r.of <= generation
      BY DEF PublicInv, UpdatesAhead
    <2>2. ASSUME NEW j \in DOMAIN articles
          PROVE  /\ j # bound => articles'[j].content = 0
                 /\ articles'[j].content <= generation
                 /\ \A r \in UpdatesInFlight' : articles'[j].content <= r.of
      <3>1. CASE articles'[j].content = articles[j].content
        BY <2>2, <3>1 DEF PublicInv, UpdatesAhead
      <3>2. CASE j = bound /\ \E r \in UpdatesInFlight : r.of = articles'[j].content
        BY <1>0, <3>2 DEF PublicInv, UpdatesAhead
      <3> QED  BY <3>1, <3>2
    <2> QED  BY <2>1, <2>2 DEF UpdatesAhead
  <1>2. bound # 0 => Grows(articles[bound], articles'[bound])
    BY <1>0 DEF Grows
  <1>3. ArticleCovers'
    BY <1>0, <1>2 DEF PublicInv, ArticleCovers, Grows
  <1>4. ObservedIsPublic'
    <2>1. SUFFICES ASSUME publish.outcome = "observed"
                   PROVE  articles'[bound].published >= publish.content
      BY DEF ObservedIsPublic
    <2>2. bound # 0
      BY <2>1, Numbers DEF PublicInv, NoPublish
    <2> QED  BY <1>0, <1>2, <2>1, <2>2 DEF PublicInv, ArticleCovers, ObservedIsPublic, Grows
  <1>5. ASSUME NEW v \in Workers
        PROVE  RunCovered(v)'
    <2>1. Holds(v)' = Holds(v)
      BY DEF Holds, lease
    <2>2. Holds(v) => \A j \in DOMAIN articles' : articles'[j].content <= run'[v].content
      BY <1>0 DEF PublicInv, RunCovered, UpdatesInTime
    <2>3. run[v].pc \in {"sent", "reconcile", "deciding"} => bound # 0
      BY Numbers DEF PublicInv, AtArticle
    <2>4. run'[v].pc = "sent" => run'[v].content <= articles'[bound].content
      <3>1. CASE run[v].pc = "sent"
        BY <1>0, <1>2, <2>3, <3>1 DEF PublicInv, RunCovered, Grows
      <3>2. CASE i = bound /\ a.content = run[v].content
        BY <1>0, <3>2
      <3> QED  BY <3>1, <3>2
    <2>5. run'[v].pc = "reconcile" => run'[v].seen.version <= articles'[bound].version
      BY <1>0, <1>2, <2>3 DEF PublicInv, RunCovered, Grows
    <2>6. Holds(v) /\ run'[v].pc = "deciding" /\ articles'[bound].version > run'[v].seen.version
             => articles'[bound].published >= synced
      BY <1>0, <1>2, <2>3 DEF PublicInv, RunCovered, ArticleCovers, Grows
    <2> QED  BY <2>1, <2>2, <2>4, <2>5, <2>6 DEF RunCovered
  <1> QED  BY <1>1, <1>3, <1>4, <1>5 DEF PublicInv

(* What Figshare does.                                                     *)
LEMMA FigsharePublic ==
    ASSUME PublicInv, Types', UpdatesInTime,
           \/ \E r \in inflight : Perform(r) \/ Refuse(r)
           \/ \E approve \in BOOLEAN : Review(approve)
           \/ SubmitByHand
    PROVE  PublicInv'
  <1>0. /\ Types /\ generation \in Nat
        /\ bound # 0 => bound \in DOMAIN articles
        /\ \A i \in DOMAIN articles : articles[i] \in ArticleForms
        /\ \A i \in DOMAIN articles :
              articles[i].content \in Nat /\ articles[i].version \in Nat
              /\ articles[i].published \in Nat
        /\ 0 \notin DOMAIN articles
    BY Numbers DEF PublicInv
  <1>1. ASSUME NEW i \in DOMAIN articles, NEW a \in Changes(articles[i])
        PROVE  a \in ArticleForms /\ a.content = articles[i].content /\ Grows(articles[i], a)
    BY <1>0, ChangedForms DEF Grows
  <1>2. ASSUME NEW r \in inflight, Perform(r)
        PROVE  PublicInv'
    <2>1. /\ inflight' = inflight \ {r}
          /\ UNCHANGED <<generation, lease, bound, synced, publish>>
      BY <1>2 DEF Perform, work, document, evidence
    <2>2. UpdatesInFlight' \subseteq UpdatesInFlight
      BY <2>1 DEF UpdatesInFlight
    <2>3. \A v \in Workers : Holds(v)' = Holds(v)
      BY <2>1 DEF Holds, lease
    <2>4. Len(articles') \in Nat
      BY LenProperties DEF Types, TypeOK
    <2>5. \A v \in Workers :
             \/ run'[v] = run[v]
             \/ /\ WaitsFor(v, r)
                /\ run'[v].content = run[v].content /\ run'[v].seen = run[v].seen
                /\ run'[v].pc \notin {"reconcile", "deciding"}
                /\ run'[v].pc = "sent" <=> r.type = "update"
      <3>1. CASE UNCHANGED run
        BY <3>1
      <3>2. ASSUME NEW w \in Workers, NEW q \in RunForms, Answered(w, r, q)
            PROVE  \A v \in Workers :
                     \/ run'[v] = run[v]
                     \/ /\ WaitsFor(v, r)
                        /\ run'[v].content = run[v].content /\ run'[v].seen = run[v].seen
                        /\ run'[v].pc \notin {"reconcile", "deciding"}
                        /\ run'[v].pc = "sent" <=> r.type = "update"
        <4>1. /\ run'[w] = q /\ \A v \in Workers \ {w} : run'[v] = run[v]
          BY <1>0, <3>2 DEF Answered, Types
        <4> QED  BY <3>2, <4>1 DEF Answered, WaitsFor
      <3> QED  BY <1>0, <1>2, <2>4, <3>1, <3>2, AnswerForms
    <2>6. CASE r.type = "create" /\ articles' = Append(articles, NewArticle(r.of))
      <3>1. /\ articles \in Seq(ArticleForms) /\ DOMAIN articles = 1 .. Len(articles)
            /\ Len(articles) \in Nat
        BY <1>0, LenProperties DEF Types, TypeOK, ArticleForms
      <3>2. articles' \in Seq(ArticleForms)
        BY DEF Types, TypeOK, ArticleForms
      <3>3. /\ DOMAIN articles' = 1 .. Len(articles) + 1
            /\ \A i \in DOMAIN articles : articles'[i] = articles[i]
            /\ articles'[Len(articles) + 1] = NewArticle(r.of)
        BY <2>6, <3>1
      <3>4. \A i \in DOMAIN articles' :
               \/ i \in DOMAIN articles /\ articles'[i] = articles[i]
               \/ articles'[i].content = 0
        BY <3>1, <3>3 DEF NewArticle
      <3>5. UpdatesAhead'
        <4>1. \A q \in UpdatesInFlight : q.of \in Nat
          BY <1>0, Numbers DEF UpdatesInFlight
        <4> QED  BY <1>0, <2>1, <2>2, <3>4, <4>1 DEF PublicInv, UpdatesAhead
      <3>6. bound # 0 => articles'[bound] = articles[bound]
        BY <1>0, <3>3
      <3>7. bound = 0 => publish.outcome # "observed"
        BY <1>0, Numbers DEF NoPublish
      <3>8. ArticleCovers' /\ ObservedIsPublic'
        BY <2>1, <3>6, <3>7 DEF PublicInv, ArticleCovers, ObservedIsPublic
      <3>9. ASSUME NEW v \in Workers
            PROVE  RunCovered(v)'
        <4>1. run[v].pc \in {"sent", "reconcile", "deciding"} => bound # 0
          BY <1>0, Numbers DEF AtArticle
        <4>2. /\ run'[v].content = run[v].content /\ run'[v].seen = run[v].seen
              /\ run'[v].pc \in {"sent", "reconcile", "deciding"} => run'[v].pc = run[v].pc
          BY <2>5, <2>6
        <4>3. Holds(v) => \A i \in DOMAIN articles' : articles'[i].content <= run[v].content
          <5>1. run[v].content \in Nat
            BY <1>0, Numbers
          <5> QED  BY <3>4, <5>1 DEF PublicInv, RunCovered
        <4> QED  BY <2>1, <2>3, <3>6, <4>1, <4>2, <4>3 DEF PublicInv, RunCovered
      <3> QED  BY <3>5, <3>8, <3>9 DEF PublicInv
    <2>7. CASE /\ r.type \in {"update", "publish"} /\ r.article = bound
               /\ bound \in DOMAIN articles /\ articles[bound] \in ArticleForms
               /\ \E a \in ArticleForms :
                    /\ articles' = [articles EXCEPT ![bound] = a]
                    /\ \/ /\ r.type = "update" /\ a.content = r.of
                          /\ a.version = articles[bound].version
                          /\ a.published = articles[bound].published
                       \/ r.type = "publish" /\ a \in Changes(articles[bound])
      <3>1. PICK a \in ArticleForms :
                    /\ articles' = [articles EXCEPT ![bound] = a]
                    /\ \/ /\ r.type = "update" /\ a.content = r.of
                          /\ a.version = articles[bound].version
                          /\ a.published = articles[bound].published
                       \/ r.type = "publish" /\ a \in Changes(articles[bound])
        BY <2>7
      <3>2. /\ DOMAIN articles' = DOMAIN articles
            /\ \A j \in DOMAIN articles : articles'[j] = IF j = bound THEN a ELSE articles[j]
        BY <1>0, <3>1, ArticleTypes
      <3>3. CASE r.type = "update"
        <4>1. /\ a.content = r.of /\ r \in UpdatesInFlight
              /\ a.version = articles[bound].version
              /\ a.published = articles[bound].published
          BY <3>1, <3>3 DEF UpdatesInFlight
        <4>2. articles[bound].content <= a.content
          BY <2>7, <4>1 DEF PublicInv, UpdatesAhead
        <4>3. Grows(articles[bound], a)
          BY <4>1, <4>2 DEF Grows
        <4>4. \A v \in Workers :
                /\ run'[v].content = run[v].content /\ run'[v].seen = run[v].seen
                /\ run'[v].pc \in {"reconcile", "deciding"} => run'[v].pc = run[v].pc
                /\ \/ run'[v].pc = "sent" => run[v].pc = "sent"
                   \/ a.content = run[v].content
          BY <2>5, <3>3, <4>1 DEF WaitsFor
        <4> QED  BY <2>1, <2>2, <2>7, <3>2, <4>1, <4>3, <4>4, GrownArticle
      <3>4. CASE r.type = "publish"
        <4>1. a.content = articles[bound].content /\ Grows(articles[bound], a)
          BY <1>1, <2>7, <3>1, <3>4
        <4>2. \A v \in Workers :
                /\ run'[v].content = run[v].content /\ run'[v].seen = run[v].seen
                /\ run'[v].pc \in {"reconcile", "deciding"} => run'[v].pc = run[v].pc
                /\ run'[v].pc = "sent" => run[v].pc = "sent"
          BY <2>5, <3>4
        <4> QED  BY <2>1, <2>2, <2>7, <3>2, <4>1, <4>2, GrownArticle
      <3> QED  BY <2>7, <3>3, <3>4
    <2> QED  BY <1>0, <1>2, <2>6, <2>7, PerformedArticles
  <1>3. ASSUME NEW r \in inflight, Refuse(r)
        PROVE  PublicInv'
    <2>1. PICK w \in Workers : run' = [run EXCEPT ![w].pc = "refused"]
      BY <1>3 DEF Refuse
    <2>2. /\ Go(w, "refused") /\ inflight' = inflight \ {r}
          /\ UNCHANGED <<generation, lease, articles, bound, synced, publish>>
      BY <1>3, <2>1 DEF Refuse, Go, work, document, evidence
    <2>3. "refused" \in Pcs
      BY DEF Pcs, AtArticle
    <2>4. \A v \in Workers : Same(v)
      BY <1>0, <2>2, <2>3, MoveSame
    <2>5. UpdatesInFlight' \subseteq UpdatesInFlight
      BY <2>2 DEF UpdatesInFlight
    <2> QED  BY <1>0, <2>2, <2>4, <2>5, QuietPublic
  <1>4. CASE (\E approve \in BOOLEAN : Review(approve)) \/ SubmitByHand
    <2>1. /\ UNCHANGED <<generation, lease, bound, synced, publish, inflight, run>>
          /\ UpdatesInFlight' \subseteq UpdatesInFlight
      BY <1>4 DEF Review, SubmitByHand, work, document, evidence, UpdatesInFlight
    <2>2. \E i \in DOMAIN articles : \E a \in Changes(articles[i]) :
             articles' = [articles EXCEPT ![i] = a]
      <3>1. CASE \E approve \in BOOLEAN : Review(approve)
        <4>1. PICK i \in DOMAIN articles :
                 \E approve \in BOOLEAN : articles' = [articles EXCEPT ![i] =
                    IF approve THEN Released(@) ELSE [@ EXCEPT !.review = FALSE]]
          BY <3>1 DEF Review
        <4> QED  BY <1>0, <4>1, ChangedArticle
      <3>2. CASE SubmitByHand
        <4>1. bound \in DOMAIN articles /\ Submit(bound)
          BY <1>0, <3>2 DEF SubmitByHand
        <4> QED  BY <1>0, <4>1, ChangedArticle
      <3> QED  BY <1>4, <3>1, <3>2
    <2>21. PICK i \in DOMAIN articles : \E a \in Changes(articles[i]) :
             articles' = [articles EXCEPT ![i] = a]
      BY <2>2
    <2>3. PICK a \in Changes(articles[i]) : articles' = [articles EXCEPT ![i] = a]
      BY <2>21
    <2>4. a \in ArticleForms /\ a.content = articles[i].content /\ Grows(articles[i], a)
      BY <1>1
    <2>5. /\ DOMAIN articles' = DOMAIN articles
          /\ \A j \in DOMAIN articles : articles'[j] = IF j = i THEN a ELSE articles[j]
      BY <1>0, <2>3, <2>4, ArticleTypes
    <2> QED  BY <2>1, <2>4, <2>5, GrownArticle
  <1> QED  BY <1>2, <1>3, <1>4

(* What operators do, and a save.                                          *)
LEMMA AsidePublic ==
    ASSUME PublicInv, Types', (\E o \in Operators : AdminStep(o)) \/ Save \/ UNCHANGED vars
    PROVE  PublicInv'
  <1>1. /\ UNCHANGED <<leaseLive, bound, synced, articles, inflight, run>>
        /\ generation' \in {generation, generation + 1}
        /\ leaseOwner' \in {leaseOwner, Nobody} /\ publish' \in {publish, NoPublish}
    BY DEF AdminStep, VerifyAbandon, VerifyReset, AbandonCreate, ResetPublish, GiveUpRepair,
           Resume, Save, vars, work, lease, document, evidence, remote, aside, history
  <1>2. /\ Types /\ generation \in Nat
        /\ bound = 0 => publish = NoPublish
    BY Numbers DEF PublicInv
  <1>3. \A v \in Workers : Same(v)
    BY <1>1, NobodyAssumption DEF Same, Holds
  <1>4. UpdatesInFlight' = UpdatesInFlight
    BY <1>1 DEF UpdatesInFlight
  <1>5. generation <= generation'
    BY <1>1, <1>2
  <1>6. CASE bound = 0
    <2>1. publish' = publish
      BY <1>1, <1>2, <1>6
    <2> QED  BY <1>1, <1>3, <1>4, <1>5, <2>1, QuietPublic
  <1>7. CASE bound # 0
    BY <1>1, <1>3, <1>4, <1>5, <1>7, OutcomePublic
  <1> QED  BY <1>6, <1>7

LEMMA PublicInTime == Spec /\ []UpdatesInTime => []PublicInv
  <1>1. Init /\ Types => PublicInv
    <2> SUFFICES ASSUME Init, Types PROVE PublicInv
      OBVIOUS
    <2>1. UpdatesAhead /\ ArticleCovers /\ ObservedIsPublic
      BY DEF Init, UpdatesAhead, UpdatesInFlight, ArticleCovers, ObservedIsPublic, NoPublish
    <2>2. \A w \in Workers : RunCovered(w)
      BY DEF Init, RunCovered, NoRun, Holds
    <2> QED  BY <2>1, <2>2 DEF PublicInv
  <1>2. PublicInv /\ Types' /\ UpdatesInTime /\ UpdatesInTime' /\ [Next]_vars => PublicInv'
    <2> SUFFICES ASSUME PublicInv, Types', UpdatesInTime, UpdatesInTime', [Next]_vars
                 PROVE  PublicInv'
      OBVIOUS
    <2>1. CASE Save \/ UNCHANGED vars \/ \E o \in Operators : AdminStep(o)
      BY <2>1, AsidePublic
    <2>2. CASE \/ \E r \in inflight : Perform(r) \/ Refuse(r)
               \/ \E approve \in BOOLEAN : Review(approve)
               \/ SubmitByHand
      BY <2>2, FigsharePublic
    <2>3. CASE \E w \in Workers : RunStep(w) \/ LoseLease(w) \/ Crash(w)
      BY <2>3, BoundaryPublic, CreationPublic, ContentPublic, PublicationPublic DEF RunStep
    <2> QED  BY <2>1, <2>2, <2>3 DEF Next
  <1> QED  BY <1>1, <1>2, RemoteTypes, PTL DEF Spec

(* What was observed is public, as long as no content update is in flight  *)
(* that brings other content than the run that holds the lease has: for    *)
(* any number of workers, and whatever takes effect late.                  *)
THEOREM ObservedInTime == Spec /\ []UpdatesInTime => []ObservedIsPublic
  <1>1. PublicInv => ObservedIsPublic
    BY DEF PublicInv
  <1> QED  BY <1>1, PublicInTime, PTL

(* Under the same condition the article has content at least as new as the *)
(* one the document has as its checkpoint, whichever runs were locked out, *)
(* stopped or lost their lease on the way.                                 *)
THEOREM CheckpointInTime == Spec /\ []UpdatesInTime => []CheckpointIsAtFigshare
  <1>1. PublicInv => CheckpointIsAtFigshare
    BY Numbers DEF PublicInv, ArticleCovers, CheckpointIsAtFigshare
  <1> QED  BY <1>1, PublicInTime, PTL

=============================================================================
