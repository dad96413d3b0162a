----------------------- MODULE FigshareCreationProofs -----------------------
(***************************************************************************)
(* That a record has one article, and the types, for every number of       *)
(* workers, operators and saves and every setting of FigshareRemote.       *)
(***************************************************************************)
EXTENDS FigshareRemote, TLAPS, FiniteSetTheorems, SequenceTheorems

-----------------------------------------------------------------------------
(* What makes the types inductive.                                         *)

Creating == {"create", "creating", "created", "lookup"}
AtArticle == {"bound", "reconcile", "update", "updating", "sent", "updated", "deciding",
              "publish", "publishing", "published", "refused", "finish", "observe"}
RunForms == [pc : {"idle", "start"} \cup Creating \cup AtArticle, content : Nat,
             requested : Nat, changed : BOOLEAN, made : Nat,
             seen : [version : Nat, public : BOOLEAN, locked : BOOLEAN]]

\* A run began with the record and the requests as they were, and is at the article
\* once there is one.  Nobody else binds an article while a holder creates it.
RunInv(w) ==
    /\ run[w].content <= generation /\ run[w].requested <= requested
    /\ run[w].pc = "created" => run[w].made \in DOMAIN articles
    /\ run[w].pc \in AtArticle => bound # 0
    /\ Holds(w) /\ run[w].pc \in Creating => bound = 0

\* Nothing is sent to an article, checkpointed of it or asked for before it is bound.
BoundFirst ==
    /\ bound = 0 => synced = 0 /\ publish = NoPublish
    /\ \A r \in inflight : r.type # "create" => bound # 0 /\ r.article = bound

Types ==
    /\ TypeOK
    /\ submissions \in Seq(Nat) /\ tokens \in Nat
    /\ run \in [Workers -> RunForms]
    /\ \A w \in Workers : RunInv(w)
    /\ BoundFirst

-----------------------------------------------------------------------------
(* What makes the number of articles inductive.                            *)

CreatesInFlight == {r \in inflight : r.type = "create"}

\* Somebody may send the creation whose evidence is written.
Sending == \E w \in Workers : Holds(w) /\ run[w].pc = "create"

\* Why there is one article: every creation that happened, may happen or may
\* still be sent belongs to the present evidence or was abandoned.
CreationsAccounted ==
    Len(articles) + Cardinality(CreatesInFlight) + (IF Sending THEN 1 ELSE 0)
        <= abandoned + (IF create = NoCreate THEN 0 ELSE 1)

\* The articles are a sequence, of whatever.
ArticlesShape == \E S : articles \in Seq(S)

RunShape == DOMAIN run = Workers /\ \A w \in Workers : "pc" \in DOMAIN run[w]

\* What the counting of creations needs of the state.
Shape ==
    /\ ArticlesShape
    /\ RunShape
    /\ DOMAIN create = DOMAIN NoCreate
    /\ IsFiniteSet(inflight)
    /\ \A r \in inflight : r.type \in {"create", "update", "publish"}
    /\ abandoned \in Nat

CreateInv == Shape /\ CreationsAccounted

(* Replacing an element keeps a sequence a sequence of that length.        *)
LEMMA ReplaceFacts ==
    ASSUME NEW S, NEW s \in Seq(S), NEW i, NEW e
    PROVE  /\ [s EXCEPT ![i] = e] \in Seq(S \cup {e})
           /\ Len([s EXCEPT ![i] = e]) = Len(s)
  <1>1. s \in Seq(S \cup {e}) /\ DOMAIN s = 1 .. Len(s)
    BY SeqMonotonic, LenProperties
  <1>2. CASE i \in 1 .. Len(s)
    BY <1>1, <1>2, ExceptSeq
  <1>3. CASE i \notin 1 .. Len(s)
    <2>1. [s EXCEPT ![i] = e] = s
      BY <1>1, <1>3, LenProperties
    <2> QED  BY <1>1, <2>1
  <1> QED  BY <1>2, <1>3

(* A new element makes it longer by one.                                   *)
LEMMA AppendFacts ==
    ASSUME NEW S, NEW s \in Seq(S), NEW e
    PROVE  /\ Append(s, e) \in Seq(S \cup {e})
           /\ Len(Append(s, e)) = Len(s) + 1
  OBVIOUS

(* Creations in flight are finitely many, and no more when requests go.    *)
LEMMA InFlightFacts ==
    ASSUME IsFiniteSet(inflight)
    PROVE  /\ IsFiniteSet(CreatesInFlight)
           /\ Cardinality(CreatesInFlight) \in Nat
           /\ inflight' \subseteq inflight =>
                 /\ IsFiniteSet(inflight')
                 /\ Cardinality(CreatesInFlight') \in Nat
                 /\ Cardinality(CreatesInFlight') <= Cardinality(CreatesInFlight)
  <1>1. IsFiniteSet(CreatesInFlight)
    BY FS_Subset DEF CreatesInFlight
  <1>2. ASSUME inflight' \subseteq inflight
        PROVE  /\ IsFiniteSet(inflight')
               /\ Cardinality(CreatesInFlight') \in Nat
               /\ Cardinality(CreatesInFlight') <= Cardinality(CreatesInFlight)
    <2>1. CreatesInFlight' \subseteq CreatesInFlight
      BY <1>2 DEF CreatesInFlight
    <2>2. IsFiniteSet(inflight')
      BY <1>2, FS_Subset
    <2>3. IsFiniteSet(CreatesInFlight')
      BY <1>1, <2>1, FS_Subset
    <2> QED  BY <1>1, <2>1, <2>2, <2>3, FS_Subset, FS_CardinalityType
  <1> QED  BY <1>1, <1>2, FS_CardinalityType

(* A step that sends no creation, forgets none and lets none happen.       *)
LEMMA QuietStep ==
    ASSUME CreateInv,
           ArticlesShape', Len(articles') = Len(articles),
           RunShape', Sending' => Sending,
           DOMAIN create' = DOMAIN create,
           create # NoCreate => create' # NoCreate,
           inflight' \subseteq inflight,
           abandoned' = abandoned
    PROVE  CreateInv'
  <1>1. Len(articles) \in Nat
    BY DEF CreateInv, Shape, ArticlesShape
  <1>2. Shape'
    BY InFlightFacts DEF CreateInv, Shape
  <1>3. CreationsAccounted'
    BY <1>1, InFlightFacts DEF CreateInv, Shape, CreationsAccounted
  <1> QED  BY <1>2, <1>3 DEF CreateInv

(* A run that moves on, but not to sending a creation.                     *)
LEMMA GoFacts ==
    ASSUME RunShape, NEW w \in Workers, NEW pc, Go(w, pc), pc # "create",
           UNCHANGED lease
    PROVE  RunShape' /\ (Sending' => Sending)
  <1>1. RunShape'
    BY DEF RunShape, Go
  <1>2. \A v \in Workers : run'[v].pc = "create" => run[v].pc = "create"
    BY DEF RunShape, Go
  <1> QED  BY <1>1, <1>2 DEF Sending, Holds, lease

(* A run that ends.                                                        *)
LEMMA EndRunFacts ==
    ASSUME RunShape, NEW w \in Workers, NEW again, EndRun(w, again)
    PROVE  RunShape' /\ ~Sending' /\ inflight' \subseteq inflight
  BY DEF RunShape, EndRun, NoRun, Withdraw, Sending, Holds

(* The actions of a run that end it.                                       *)
LEMMA EndingFacts ==
    ASSUME RunShape, NEW w \in Workers, Wait(w) \/ Fail(w) \/ RequireRepair(w)
    PROVE  RunShape' /\ ~Sending' /\ inflight' \subseteq inflight
  BY EndRunFacts DEF Wait, Fail, RequireRepair

(* Begin, the loss of a lease, and the ends of runs.                       *)
LEMMA BoundaryCreateInv ==
    ASSUME CreateInv, NEW w \in Workers,
           \/ Begin(w) \/ RaiseError(w) \/ FindNewerSave(w) \/ LoseLease(w)
           \/ AbandonRun(w) \/ Crash(w)
    PROVE  CreateInv'
  <1> USE DEF CreateInv, Shape
  <1>1. CASE Begin(w)
    <2>1. RunShape' /\ ~Sending'
      BY <1>1, NobodyAssumption DEF Begin, RunShape, NoRun, Sending, Holds
    <2> QED  BY <1>1, <2>1, QuietStep DEF Begin, document, evidence, remote, aside,
                history, ArticlesShape
  <1>2. CASE RaiseError(w) \/ FindNewerSave(w)
    <2>1. RunShape' /\ ~Sending' /\ inflight' \subseteq inflight
      BY <1>2, EndingFacts DEF RaiseError, FindNewerSave
    <2> QED  BY <1>2, <2>1, QuietStep DEF RaiseError, FindNewerSave, document,
                evidence, aside, history, ArticlesShape
  <1>3. CASE LoseLease(w)
    <2>1. RunShape' /\ ~Sending'
      BY <1>3 DEF LoseLease, RunShape, Sending, Holds
    <2> QED  BY <1>3, <2>1, QuietStep DEF LoseLease, document, evidence, remote,
                history, ArticlesShape
  <1>4. CASE AbandonRun(w)
    <2>1. RunShape'
      BY <1>4 DEF AbandonRun, RunShape, NoRun
    <2>2. \A v \in Workers : run'[v].pc = "create" => run[v].pc = "create"
      BY <1>4 DEF AbandonRun, RunShape, NoRun
    <2>3. \A v \in Workers : Holds(v)' => Holds(v)
      BY <1>4, NobodyAssumption DEF AbandonRun, Holds
    <2>4. inflight' \subseteq inflight
      BY <1>4 DEF AbandonRun, Withdraw
    <2> QED  BY <1>4, <2>1, <2>2, <2>3, <2>4, QuietStep DEF AbandonRun, Sending,
                document, evidence, aside, history, ArticlesShape
  <1>5. CASE Crash(w)
    <2>1. RunShape' /\ ~Sending' /\ inflight' \subseteq inflight
      BY <1>5 DEF Crash, RunShape, NoRun, Sending, Holds, Withdraw
    <2> QED  BY <1>5, <2>1, QuietStep DEF Crash, document, evidence, history,
                ArticlesShape
  <1> QED  BY <1>1, <1>2, <1>3, <1>4, <1>5

(* Only the worker that holds the lease counts.                            *)
LEMMA HolderFacts ==
    ASSUME NEW w \in Workers, Holds(w)
    PROVE  Sending <=> run[w].pc = "create"
  BY DEF Sending, Holds

(* A creation that fails or is confirmed leaves evidence.                  *)
LEMMA EvidenceFacts ==
    ASSUME DOMAIN create = DOMAIN NoCreate, NEW outcome, outcome # "none"
    PROVE  /\ DOMAIN [create EXCEPT !.outcome = outcome] = DOMAIN create
           /\ [create EXCEPT !.outcome = outcome] # NoCreate
  BY DEF NoCreate

(* The evidence comes first, then one request.                             *)
LEMMA CreationCreateInv ==
    ASSUME CreateInv, NEW w \in Workers, Creation(w) \/ Continue(w)
    PROVE  CreateInv'
  <1> USE DEF CreateInv, Shape
  <1> DEFINE L == Len(articles)
             C == Cardinality(CreatesInFlight)
  <1>0. L \in Nat /\ C \in Nat
    BY InFlightFacts DEF ArticlesShape
  <1>1. CASE Continue(w)
    <2>1. RunShape' /\ (Sending' => Sending)
      BY <1>1, GoFacts DEF Continue
    <2> QED  BY <1>1, <2>1, QuietStep DEF Continue, document, evidence, remote,
                aside, history, ArticlesShape
  <1>2. CASE \E i \in Candidates : RecoverCreate(w, i)
    <2>1. PICK i \in Candidates : RecoverCreate(w, i)
      BY <1>2
    <2>2. RunShape' /\ (Sending' => Sending) /\ inflight' \subseteq inflight
      <3>1. CASE Fail(w)
        BY <3>1, EndingFacts
      <3>2. CASE Go(w, "bound") /\ UNCHANGED <<work, lease, inflight>>
        BY <3>2, GoFacts
      <3> QED  BY <2>1, <3>1, <3>2 DEF RecoverCreate
    <2> QED  BY <2>1, <2>2, QuietStep DEF RecoverCreate, evidence, aside,
                history, ArticlesShape
  <1>3. CASE CreateNotFound(w)
    <2>1. RunShape' /\ ~Sending' /\ inflight' \subseteq inflight
      BY <1>3, EndingFacts DEF CreateNotFound
    <2> QED  BY <1>3, <2>1, QuietStep DEF CreateNotFound, document, evidence,
                aside, history, ArticlesShape
  <1>4. CASE StartCreate(w)
    <2>1. RunShape'
      BY <1>4 DEF StartCreate, Go, RunShape
    <2>2. ~Sending /\ create = NoCreate
      BY <1>4, HolderFacts DEF StartCreate
    <2>3. create' # NoCreate /\ DOMAIN create' = DOMAIN NoCreate
      BY <1>4 DEF StartCreate, NoCreate
    <2>4. UNCHANGED <<articles, inflight, abandoned>>
      BY <1>4 DEF StartCreate, remote
    <2>5. UNCHANGED CreatesInFlight
      BY <2>4 DEF CreatesInFlight
    <2>6. L + C <= abandoned
      BY <2>2, <1>0 DEF CreationsAccounted
    <2>7. CreationsAccounted'
      BY <2>3, <2>4, <2>5, <2>6, <1>0 DEF CreationsAccounted
    <2> QED  BY <2>1, <2>3, <2>4, <2>7 DEF ArticlesShape
  <1>5. CASE SendCreate(w)
    <2> DEFINE r == [type |-> "create", of |-> create.token, article |-> 0,
                     by |-> w]
    <2>1. RunShape'
      BY <1>5 DEF SendCreate, Go, RunShape
    <2>2. Sending
      BY <1>5, HolderFacts DEF SendCreate
    <2>3. ~Sending'
      BY <1>5 DEF SendCreate, Go, Sending, Holds, lease, RunShape
    <2>4. UNCHANGED <<articles, create, abandoned>>
      BY <1>5 DEF SendCreate, document, evidence, aside, history
    <2>5. inflight' = inflight \cup {r} /\ r.type = "create"
      BY <1>5 DEF SendCreate
    <2> HIDE DEF r
    <2>6. IsFiniteSet(inflight')
      BY <2>5, FS_AddElement
    <2>7. CreatesInFlight' = CreatesInFlight \cup {r}
      BY <2>5 DEF CreatesInFlight
    <2>8. /\ Cardinality(CreatesInFlight') \in Nat
          /\ Cardinality(CreatesInFlight') <= C + 1
      <3>1. IsFiniteSet(CreatesInFlight)
        BY InFlightFacts
      <3>2. Cardinality(CreatesInFlight \cup {r}) \in {C, C + 1}
        BY <3>1, FS_AddElement
      <3> QED  BY <2>7, <3>2, <1>0
    <2>9. L + C + 1 <= abandoned + (IF create = NoCreate THEN 0 ELSE 1)
      BY <2>2, <1>0 DEF CreationsAccounted
    <2>10. CreationsAccounted'
      BY <2>3, <2>4, <2>8, <2>9, <1>0 DEF CreationsAccounted
    <2>11. \A q \in inflight' : q.type \in {"create", "update", "publish"}
      BY <2>5
    <2> QED  BY <2>1, <2>4, <2>6, <2>10, <2>11 DEF ArticlesShape
  <1>6. CASE RefuseCreate(w)
    <2>1. RunShape' /\ ~Sending' /\ inflight' \subseteq inflight
      BY <1>6, EndingFacts DEF RefuseCreate
    <2>2. Sending
      BY <1>6, HolderFacts DEF RefuseCreate
    <2>3. create' = NoCreate /\ UNCHANGED <<articles, abandoned>>
      BY <1>6 DEF RefuseCreate, aside, history
    <2>4. /\ IsFiniteSet(inflight')
          /\ Cardinality(CreatesInFlight') \in Nat
          /\ Cardinality(CreatesInFlight') <= C
      BY <2>1, InFlightFacts
    <2>5. L + C <= abandoned
      BY <2>2, <1>0 DEF CreationsAccounted
    <2>6. CreationsAccounted'
      BY <2>1, <2>3, <2>4, <2>5, <1>0 DEF CreationsAccounted
    <2> QED  BY <2>1, <2>3, <2>4, <2>6 DEF ArticlesShape
  <1>7. CASE ConfirmCreate(w)
    <2>1. RunShape' /\ (Sending' => Sending)
      BY <1>7, GoFacts DEF ConfirmCreate
    <2>2. DOMAIN create' = DOMAIN create /\ create' # NoCreate
      BY <1>7, EvidenceFacts DEF ConfirmCreate
    <2> QED  BY <1>7, <2>1, <2>2, QuietStep DEF ConfirmCreate, remote, aside,
                history, ArticlesShape
  <1>8. CASE \E outcome \in {"failed", "uncertain"} : FailCreate(w, outcome)
    <2>1. PICK outcome \in {"failed", "uncertain"} : FailCreate(w, outcome)
      BY <1>8
    <2>2. RunShape' /\ (Sending' => Sending)
      BY <2>1, GoFacts DEF FailCreate
    <2>3. DOMAIN create' = DOMAIN create /\ create' # NoCreate
      BY <2>1, EvidenceFacts DEF FailCreate, CreateWithout
    <2> QED  BY <2>1, <2>2, <2>3, QuietStep DEF FailCreate, remote, aside,
                history, ArticlesShape
  <1>9. CASE LookUpCreate(w)
    <2>1. RunShape' /\ ~Sending' /\ inflight' \subseteq inflight
      BY <1>9, EndingFacts DEF LookUpCreate
    <2> QED  BY <1>9, <2>1, QuietStep DEF LookUpCreate, evidence, aside,
                history, ArticlesShape
  <1> QED  BY <1>1, <1>2, <1>3, <1>4, <1>5, <1>6, <1>7, <1>8, <1>9 DEF Creation

(* A step that sends something else than a creation.                       *)
LEMMA SendingStep ==
    ASSUME CreateInv, NEW w \in Workers, NEW r, r.type \in {"update", "publish"},
           inflight' = inflight \cup {r},
           RunShape', Sending' => Sending,
           UNCHANGED <<articles, create, abandoned>>
    PROVE  CreateInv'
  <1>1. /\ IsFiniteSet(inflight')
        /\ \A q \in inflight' : q.type \in {"create", "update", "publish"}
    BY FS_AddElement DEF CreateInv, Shape
  <1>2. CreatesInFlight' = CreatesInFlight
    BY DEF CreatesInFlight
  <1>3. Len(articles) \in Nat /\ Cardinality(CreatesInFlight) \in Nat
    BY InFlightFacts DEF CreateInv, Shape, ArticlesShape
  <1>4. CreationsAccounted'
    BY <1>2, <1>3 DEF CreateInv, Shape, CreationsAccounted
  <1> QED  BY <1>1, <1>4 DEF CreateInv, Shape, ArticlesShape

(* An article that changes.                                                *)
LEMMA ArticleFacts ==
    ASSUME ArticlesShape, NEW i, NEW a, articles' = [articles EXCEPT ![i] = a]
    PROVE  ArticlesShape' /\ Len(articles') = Len(articles)
  BY ReplaceFacts DEF ArticlesShape

(* A step of Figshare that performs a request and may tell its worker.     *)
LEMMA AnswerFacts ==
    ASSUME RunShape, UNCHANGED lease, NEW w \in Workers, NEW pc, NEW made,
           pc # "create",
           run' = [run EXCEPT ![w].pc = pc, ![w].made = made]
    PROVE  RunShape' /\ (Sending' => Sending)
  <1>1. RunShape'
    BY DEF RunShape
  <1>2. \A v \in Workers : run'[v].pc = "create" => run[v].pc = "create"
    BY DEF RunShape
  <1> QED  BY <1>1, <1>2 DEF Sending, Holds, lease

(* What Figshare does: a creation in flight becomes an article.            *)
LEMMA PerformCreateInv ==
    ASSUME CreateInv, NEW r \in inflight, Perform(r)
    PROVE  CreateInv'
  <1> USE DEF CreateInv, Shape
  <1> DEFINE L == Len(articles)
             C == Cardinality(CreatesInFlight)
  <1>0. L \in Nat /\ C \in Nat
    BY InFlightFacts DEF ArticlesShape
  <1>1. RunShape' /\ (Sending' => Sending)
    <2>1. CASE UNCHANGED run
      BY <2>1 DEF Perform, RunShape, Sending, Holds, lease
    <2>2. CASE \E w \in Workers :
                  /\ WaitsFor(w, r)
                  /\ run' = [run EXCEPT
                        ![w].pc = CASE r.type = "create"  -> "created"
                                    [] r.type = "update"  -> "sent"
                                    [] r.type = "publish" -> "published",
                        ![w].made = IF r.type = "create" THEN Len(articles')
                                    ELSE @]
      <3>1. PICK w \in Workers :
                  /\ WaitsFor(w, r)
                  /\ run' = [run EXCEPT
                        ![w].pc = CASE r.type = "create"  -> "created"
                                    [] r.type = "update"  -> "sent"
                                    [] r.type = "publish" -> "published",
                        ![w].made = IF r.type = "create" THEN Len(articles')
                                    ELSE @]
        BY <2>2
      <3> DEFINE pc == CASE r.type = "create"  -> "created"
                         [] r.type = "update"  -> "sent"
                         [] r.type = "publish" -> "published"
                 made == IF r.type = "create" THEN Len(articles')
                         ELSE run[w].made
      <3>2. pc # "create"
        BY <3>1 DEF WaitsFor
      <3>3. run' = [run EXCEPT ![w].pc = pc, ![w].made = made]
        BY <3>1
      <3>4. UNCHANGED lease
        BY DEF Perform
      <3> HIDE DEF pc, made
      <3> QED  BY <3>2, <3>3, <3>4, AnswerFacts
    <2> QED  BY <2>1, <2>2 DEF Perform
  <1>2. inflight' = inflight \ {r} /\ UNCHANGED <<create, abandoned>>
    BY DEF Perform, document, evidence, aside, history
  <1>3. CASE r.type = "create"
    <2>1. articles' = Append(articles, NewArticle(r.of))
      BY <1>3 DEF Perform
    <2>2. ArticlesShape' /\ Len(articles') = L + 1
      BY <2>1, AppendFacts DEF ArticlesShape
    <2>3. CreatesInFlight' = CreatesInFlight \ {r} /\ r \in CreatesInFlight
      BY <1>2, <1>3 DEF CreatesInFlight
    <2>4. Cardinality(CreatesInFlight') = C - 1 /\ IsFiniteSet(inflight')
      BY <1>2, <2>3, InFlightFacts, FS_RemoveElement
    <2>5. CreationsAccounted'
      BY <1>0, <1>1, <1>2, <2>2, <2>4 DEF CreationsAccounted
    <2> QED  BY <1>1, <1>2, <2>2, <2>4, <2>5
  <1>4. CASE r.type # "create"
    <2>1. ArticlesShape' /\ Len(articles') = L
      <3>1. CASE r.type = "update"
        <4>1. articles' = [articles EXCEPT ![r.article].content = r.of,
                                           ![r.article].token = 0]
          BY <3>1, <1>4 DEF Perform
        <4>2. PICK a : articles' = [articles EXCEPT ![r.article] = a]
          <5>1. CASE r.article \in DOMAIN articles
            BY <4>1, <5>1
          <5>2. CASE r.article \notin DOMAIN articles
            BY <4>1, <5>2
          <5> QED  BY <5>1, <5>2
        <4> QED  BY <4>2, ArticleFacts
      <3>2. CASE r.type = "publish"
        <4>1. PICK a : articles' = [articles EXCEPT ![r.article] = a]
          BY <3>2, <1>4 DEF Perform, Submit
        <4> QED  BY <4>1, ArticleFacts
      <3> QED  BY <1>4, <3>1, <3>2 DEF Perform
    <2> QED  BY <1>1, <1>2, <2>1, QuietStep
  <1> QED  BY <1>3, <1>4

(* Whatever else Figshare does.                                            *)
LEMMA FigshareCreateInv ==
    ASSUME CreateInv,
           \/ \E r \in inflight : Perform(r) \/ Refuse(r)
           \/ \E approve \in BOOLEAN : Review(approve)
           \/ SubmitByHand
    PROVE  CreateInv'
  <1> USE DEF CreateInv, Shape
  <1>1. CASE \E r \in inflight : Perform(r)
    BY <1>1, PerformCreateInv
  <1>2. CASE \E r \in inflight : Refuse(r)
    <2>1. PICK r \in inflight : Refuse(r)
      BY <1>2
    <2>2. PICK w \in Workers : run' = [run EXCEPT ![w].pc = "refused"]
      BY <2>1 DEF Refuse
    <2>3. RunShape' /\ (Sending' => Sending)
      BY <2>1, <2>2, GoFacts DEF Refuse, Go
    <2> QED  BY <2>1, <2>3, QuietStep DEF Refuse, document, evidence, aside,
                history, ArticlesShape
  <1>3. CASE \E approve \in BOOLEAN : Review(approve)
    <2>1. \E i, a : articles' = [articles EXCEPT ![i] = a]
      BY <1>3 DEF Review
    <2>2. ArticlesShape' /\ Len(articles') = Len(articles)
      BY <2>1, ArticleFacts
    <2>3. RunShape' /\ (Sending' => Sending)
      BY <1>3 DEF Review, RunShape, Sending, Holds, lease
    <2> QED  BY <1>3, <2>2, <2>3, QuietStep DEF Review, document, evidence,
                aside, history
  <1>4. CASE SubmitByHand
    <2>1. \E i, a : articles' = [articles EXCEPT ![i] = a]
      BY <1>4 DEF SubmitByHand, Submit
    <2>2. ArticlesShape' /\ Len(articles') = Len(articles)
      BY <2>1, ArticleFacts
    <2>3. RunShape' /\ (Sending' => Sending)
      BY <1>4 DEF SubmitByHand, RunShape, Sending, Holds, lease
    <2> QED  BY <1>4, <2>2, <2>3, QuietStep DEF SubmitByHand, document,
                evidence, aside, history
  <1> QED  BY <1>1, <1>2, <1>3, <1>4

(* Content: the evidence of the creation stays.                            *)
LEMMA ContentCreateInv ==
    ASSUME CreateInv, NEW w \in Workers,
           \/ ReadArticle(w) \/ ReconcileDone(w) \/ Supersede(w)
           \/ AwaitPublication(w) \/ SkipLocked(w) \/ SkipEqual(w)
           \/ SendUpdate(w) \/ FailUpdate(w) \/ ConfirmUpdate(w)
    PROVE  CreateInv'
  <1> USE DEF CreateInv, Shape
  <1>1. CASE ReadArticle(w)
    <2>1. UNCHANGED lease
      BY <1>1 DEF ReadArticle
    <2>2. RunShape' /\ (\A v \in Workers : run'[v].pc = "create" => run[v].pc = "create")
      BY <1>1 DEF ReadArticle, RunShape
    <2>3. Sending' => Sending
      BY <2>1, <2>2 DEF Sending, Holds, lease
    <2> QED  BY <1>1, <2>2, <2>3, QuietStep DEF ReadArticle, document, evidence,
                remote, aside, history, ArticlesShape
  <1>2. CASE ReconcileDone(w)
    <2>1. RunShape' /\ (Sending' => Sending) /\ inflight' \subseteq inflight
      <3>1. CASE Wait(w)
        BY <3>1, EndingFacts
      <3>2. CASE Go(w, "update") /\ UNCHANGED <<work, lease, inflight>>
        BY <3>2, GoFacts
      <3> QED  BY <1>2, <3>1, <3>2 DEF ReconcileDone
    <2> QED  BY <1>2, <2>1, QuietStep DEF ReconcileDone, ArticlesShape
  <1>3. CASE Supersede(w)
    <2>1. RunShape' /\ (Sending' => Sending)
      BY <1>3, GoFacts DEF Supersede
    <2> QED  BY <1>3, <2>1, QuietStep DEF Supersede, remote, ArticlesShape
  <1>4. CASE AwaitPublication(w)
    <2>1. RunShape' /\ ~Sending' /\ inflight' \subseteq inflight
      BY <1>4, EndingFacts DEF AwaitPublication
    <2> QED  BY <1>4, <2>1, QuietStep DEF AwaitPublication, document, evidence,
                aside, history, ArticlesShape
  <1>5. CASE SkipLocked(w)
    <2>1. RunShape' /\ (Sending' => Sending)
      BY <1>5, GoFacts DEF SkipLocked
    <2> QED  BY <1>5, <2>1, QuietStep DEF SkipLocked, document, evidence,
                remote, aside, history, ArticlesShape
  <1>6. CASE SkipEqual(w) \/ ConfirmUpdate(w)
    <2>1. RunShape' /\ (Sending' => Sending)
      BY <1>6, GoFacts DEF SkipEqual, ConfirmUpdate
    <2> QED  BY <1>6, <2>1, QuietStep DEF SkipEqual, ConfirmUpdate, evidence,
                remote, aside, history, ArticlesShape
  <1>7. CASE SendUpdate(w)
    <2>1. UNCHANGED lease
      BY <1>7 DEF SendUpdate
    <2>2. RunShape' /\ (\A v \in Workers : run'[v].pc = "create" => run[v].pc = "create")
      BY <1>7 DEF SendUpdate, RunShape
    <2>3. Sending' => Sending
      BY <2>1, <2>2 DEF Sending, Holds, lease
    <2>4. PICK r : r.type = "update" /\ inflight' = inflight \cup {r}
      BY <1>7 DEF SendUpdate
    <2>5. UNCHANGED <<articles, create, abandoned>>
      BY <1>7 DEF SendUpdate, document, evidence, aside, history
    <2>6. r.type \in {"update", "publish"}
      BY <2>4
    <2> HIDE DEF CreateInv, Shape
    <2> QED  BY <2>2, <2>3, <2>4, <2>5, <2>6, SendingStep
  <1>8. CASE FailUpdate(w)
    <2>1. RunShape' /\ ~Sending' /\ inflight' \subseteq inflight
      BY <1>8, EndingFacts DEF FailUpdate
    <2> QED  BY <1>8, <2>1, QuietStep DEF FailUpdate, document, evidence,
                aside, history, ArticlesShape
  <1> QED  BY <1>1, <1>2, <1>3, <1>4, <1>5, <1>6, <1>7, <1>8

(* Publication, and the ends of a run.                                     *)
LEMMA PublicationCreateInv ==
    ASSUME CreateInv, NEW w \in Workers,
           Decide(w) \/ Publication(w) \/ FinishSync(w) \/ Observe(w)
    PROVE  CreateInv'
  <1> USE DEF CreateInv, Shape
  <1>1. CASE Decide(w)
    <2>1. UNCHANGED lease
      BY <1>1 DEF Decide
    <2>2. RunShape' /\ (\A v \in Workers : run'[v].pc = "create" => run[v].pc = "create")
      BY <1>1 DEF Decide, RunShape
    <2>3. Sending' => Sending
      BY <2>1, <2>2 DEF Sending, Holds, lease
    <2> QED  BY <1>1, <2>2, <2>3, QuietStep DEF Decide, document, evidence,
                remote, aside, history, ArticlesShape
  <1>2. CASE StartPublish(w)
    <2>1. RunShape' /\ (Sending' => Sending)
      BY <1>2, GoFacts DEF StartPublish
    <2> QED  BY <1>2, <2>1, QuietStep DEF StartPublish, remote, ArticlesShape
  <1>3. CASE SkipPublish(w)
    <2>1. RunShape' /\ (Sending' => Sending)
      BY <1>3, GoFacts DEF SkipPublish
    <2> QED  BY <1>3, <2>1, QuietStep DEF SkipPublish, document, evidence,
                remote, aside, history, ArticlesShape
  <1>4. CASE SendPublish(w)
    <2>1. RunShape' /\ (Sending' => Sending)
      BY <1>4, GoFacts DEF SendPublish
    <2>2. PICK r : r.type = "publish" /\ inflight' = inflight \cup {r}
      BY <1>4 DEF SendPublish
    <2>3. UNCHANGED <<articles, create, abandoned>>
      BY <1>4 DEF SendPublish, document, evidence, aside, history
    <2>4. r.type \in {"update", "publish"}
      BY <2>2
    <2> QED  BY <2>1, <2>2, <2>3, <2>4, SendingStep
  <1>5. CASE FailPublish(w) \/ RejectPublish(w)
    <2>1. RunShape' /\ ~Sending' /\ inflight' \subseteq inflight
      BY <1>5, EndingFacts DEF FailPublish, RejectPublish
    <2> QED  BY <1>5, <2>1, QuietStep DEF FailPublish, RejectPublish, aside,
                history, ArticlesShape
  <1>6. CASE AcceptPublish(w)
    <2>1. RunShape' /\ (Sending' => Sending)
      BY <1>6, GoFacts DEF AcceptPublish
    <2> QED  BY <1>6, <2>1, QuietStep DEF AcceptPublish, remote, aside, history,
                ArticlesShape
  <1>7. CASE FinishSync(w)
    <2>1. RunShape' /\ ~Sending' /\ inflight' \subseteq inflight
      BY <1>7, EndRunFacts DEF FinishSync
    <2> QED  BY <1>7, <2>1, QuietStep DEF FinishSync, document, evidence, aside,
                history, ArticlesShape
  <1>8. CASE Observe(w)
    <2>1. RunShape' /\ ~Sending' /\ inflight' \subseteq inflight
      BY <1>8, EndingFacts DEF Observe
    <2> QED  BY <1>8, <2>1, QuietStep DEF Observe, ArticlesShape
  <1> QED  BY <1>1, <1>2, <1>3, <1>4, <1>5, <1>6, <1>7, <1>8 DEF Publication

(* An operator abandons a creation only while nobody holds the lease.      *)
LEMMA AdminCreateInv ==
    ASSUME CreateInv, NEW o \in Operators, AdminStep(o)
    PROVE  CreateInv'
  <1> USE DEF CreateInv, Shape
  <1>1. CASE VerifyAbandon(o) \/ VerifyReset(o) \/ GiveUpRepair(o)
    <2>1. RunShape' /\ (Sending' => Sending)
      BY <1>1 DEF VerifyAbandon, VerifyReset, GiveUpRepair, RunShape, Sending,
                  Holds, lease
    <2> QED  BY <1>1, <2>1, QuietStep DEF VerifyAbandon, VerifyReset,
                GiveUpRepair, document, evidence, remote, history, ArticlesShape
  <1>2. CASE AbandonCreate(o)
    <2>1. RunShape' /\ ~Sending'
      BY <1>2 DEF AbandonCreate, RunShape, Sending, Holds
    <2>2. UNCHANGED <<articles, inflight>> /\ create' = NoCreate
          /\ abandoned' = abandoned + 1
      BY <1>2 DEF AbandonCreate, remote
    <2>3. UNCHANGED CreatesInFlight
      BY <2>2 DEF CreatesInFlight
    <2>4. Len(articles) \in Nat /\ Cardinality(CreatesInFlight) \in Nat
      BY InFlightFacts DEF ArticlesShape
    <2>5. Len(articles) + Cardinality(CreatesInFlight) <= abandoned + 1
      BY <2>4 DEF CreationsAccounted
    <2>6. CreationsAccounted'
      BY <2>1, <2>2, <2>3, <2>4, <2>5 DEF CreationsAccounted
    <2> QED  BY <2>1, <2>2, <2>6 DEF ArticlesShape
  <1>3. CASE ResetPublish(o) \/ Resume(o)
    <2>1. RunShape' /\ ~Sending'
      BY <1>3 DEF ResetPublish, Resume, RunShape, Sending, Holds
    <2> QED  BY <1>3, <2>1, QuietStep DEF ResetPublish, Resume, document,
                evidence, remote, aside, history, ArticlesShape
  <1> QED  BY <1>1, <1>2, <1>3 DEF AdminStep

(* The reason that there is one article is inductive: of all creations     *)
(* that happened, that are in flight or that are about to be sent, all but *)
(* the one of the present evidence were abandoned.                         *)
THEOREM CreationsAreAccounted == Spec => []CreateInv
  <1>1. Init => CreateInv
    <2> SUFFICES ASSUME Init PROVE CreateInv
      OBVIOUS
    <2>1. ArticlesShape /\ Len(articles) = 0
      BY EmptySeq DEF Init, ArticlesShape
    <2>2. RunShape /\ ~Sending
      BY DEF Init, RunShape, NoRun, Sending
    <2>3. CreatesInFlight = {} /\ inflight = {}
      BY DEF Init, CreatesInFlight
    <2>4. Cardinality(CreatesInFlight) = 0 /\ IsFiniteSet(inflight)
      BY <2>3, FS_EmptySet
    <2>5. create = NoCreate /\ abandoned = 0
      BY DEF Init
    <2>6. CreationsAccounted
      BY <2>1, <2>2, <2>4, <2>5 DEF CreationsAccounted
    <2> QED  BY <2>1, <2>2, <2>3, <2>4, <2>5, <2>6 DEF CreateInv, Shape
  <1>2. CreateInv /\ [Next]_vars => CreateInv'
    <2> SUFFICES ASSUME CreateInv, [Next]_vars PROVE CreateInv'
      OBVIOUS
    <2>1. CASE Save \/ UNCHANGED vars
      <3>1. UNCHANGED <<lease, document, remote, run, aside>>
        BY <2>1 DEF Save, vars
      <3>2. RunShape' /\ (Sending' => Sending)
        BY <3>1 DEF CreateInv, Shape, RunShape, Sending, Holds, lease
      <3> QED  BY <3>1, <3>2, QuietStep DEF CreateInv, Shape, document, evidence,
                  remote, aside, history, ArticlesShape
    <2>2. CASE \/ \E r \in inflight : Perform(r) \/ Refuse(r)
               \/ \E approve \in BOOLEAN : Review(approve)
               \/ SubmitByHand
      BY <2>2, FigshareCreateInv
    <2>3. CASE \E w \in Workers : RunStep(w) \/ LoseLease(w) \/ Crash(w)
      BY <2>3, BoundaryCreateInv, CreationCreateInv, ContentCreateInv,
         PublicationCreateInv DEF RunStep
    <2>4. CASE \E o \in Operators : AdminStep(o)
      BY <2>4, AdminCreateInv
    <2> QED  BY <2>1, <2>2, <2>3, <2>4 DEF Next
  <1> QED  BY <1>1, <1>2, PTL DEF Spec

(* One record has one article, plus one for each creation that an operator *)
(* abandoned: for any number of workers and operators, and however late a  *)
(* creation takes effect after its answer was lost.                        *)
THEOREM OneArticleAlways == Spec => []OneArticle
  <1>1. CreateInv => OneArticle
    <2> SUFFICES ASSUME CreateInv PROVE OneArticle
      OBVIOUS
    <2>1. Len(articles) \in Nat /\ Cardinality(CreatesInFlight) \in Nat
          /\ abandoned \in Nat
      BY InFlightFacts DEF CreateInv, Shape, ArticlesShape
    <2> QED  BY <2>1 DEF CreateInv, CreationsAccounted, OneArticle
  <1> QED  BY <1>1, CreationsAreAccounted, PTL

-----------------------------------------------------------------------------
(* The types.                                                              *)

ArticleForms == [token : Nat, content : Nat, version : Nat,
                 public : BOOLEAN, published : Nat, review : BOOLEAN]
CreateForms == [token : 0 .. tokens, request : Nat,
                outcome : {"none", "submitted", "confirmed", "failed", "uncertain"}]
PublishForms == [id : 0 .. Len(submissions), generation : Nat, content : Nat,
                 previousVersion : Nat,
                 outcome : {"none", "submitted", "accepted", "rejected",
                            "uncertain", "observed"}]
Pcs == {"idle", "start"} \cup Creating \cup AtArticle

(* The part of the state that a run does not own, before and after.        *)
Onward ==
    /\ generation <= generation' /\ requested <= requested'
    /\ DOMAIN articles \subseteq DOMAIN articles'
    /\ bound # 0 => bound' = bound

(* What a step does to a run that does not take it.                        *)
LEMMA OtherRun ==
    ASSUME Types, TypeOK', Onward, NEW v \in Workers, run'[v] = run[v],
           Holds(v)' => Holds(v) /\ bound' = bound
    PROVE  RunInv(v)'
  <1>1. RunInv(v)
    BY DEF Types
  <1>2. run[v] \in RunForms /\ generation \in Nat /\ requested \in Nat
        /\ generation' \in Nat /\ requested' \in Nat
    BY DEF Types, TypeOK
  <1>3. run[v].content \in Nat /\ run[v].requested \in Nat
    BY <1>2 DEF RunForms
  <1> QED  BY <1>1, <1>2, <1>3 DEF RunInv, Onward

(* A step of a run.                                                        *)
LEMMA TypesOfStep ==
    ASSUME Types, TypeOK', Onward, NEW w \in Workers,
           submissions' \in Seq(Nat), tokens' \in Nat, BoundFirst',
           run' \in [Workers -> RunForms], RunInv(w)',
           \A v \in Workers \ {w} :
                run'[v] = run[v] /\ (Holds(v)' => Holds(v) /\ bound' = bound)
    PROVE  Types'
  <1>1. \A v \in Workers : RunInv(v)'
    BY OtherRun
  <1> QED  BY <1>1 DEF Types

(* A step of somebody else.                                                *)
LEMMA TypesOfOthers ==
    ASSUME Types, TypeOK', Onward, UNCHANGED run, UNCHANGED bound,
           submissions' \in Seq(Nat), tokens' \in Nat, BoundFirst',
           \A v \in Workers : Holds(v)' => Holds(v)
    PROVE  Types'
  <1>1. \A v \in Workers : RunInv(v)'
    BY OtherRun
  <1> QED  BY <1>1 DEF Types

(* A run that moves on.                                                    *)
LEMMA MoveTypes ==
    ASSUME Types, NEW w \in Workers, NEW pc \in Pcs, Go(w, pc)
    PROVE  /\ run' \in [Workers -> RunForms]
           /\ run'[w] = [run[w] EXCEPT !.pc = pc]
           /\ run'[w] \in RunForms
           /\ run'[w].pc = pc
           /\ \A v \in Workers \ {w} : run'[v] = run[v]
  <1>1. run \in [Workers -> RunForms] /\ run[w] \in RunForms
    BY DEF Types
  <1>2. PICK q : q = [run[w] EXCEPT !.pc = pc]
    OBVIOUS
  <1>3. q \in RunForms /\ q.pc = pc
    BY <1>1, <1>2 DEF RunForms, Pcs
  <1>4. run' = [run EXCEPT ![w] = q]
    BY <1>2 DEF Go
  <1> QED  BY <1>1, <1>2, <1>3, <1>4

(* A move keeps what a run is about.                                       *)
LEMMA MoveRun ==
    ASSUME Types, TypeOK', Onward, NEW w \in Workers, NEW pc \in Pcs, Go(w, pc),
           pc # "created", pc \in AtArticle => bound' # 0,
           Holds(w)' /\ pc \in Creating => bound' = 0
    PROVE  RunInv(w)'
  <1>1. RunInv(w) /\ run[w] \in RunForms
    BY DEF Types
  <1>2. run'[w] = [run[w] EXCEPT !.pc = pc] /\ run'[w].pc = pc
    BY MoveTypes
  <1>3. run'[w].content = run[w].content /\ run'[w].requested = run[w].requested
    BY <1>1, <1>2 DEF RunForms
  <1>4. /\ run[w].content \in Nat /\ run[w].requested \in Nat
        /\ generation \in Nat /\ generation' \in Nat
        /\ requested \in Nat /\ requested' \in Nat
    BY <1>1 DEF RunForms, Types, TypeOK
  <1> QED  BY <1>1, <1>2, <1>3, <1>4 DEF RunInv, Onward

(* A run that does not run is of nothing.                                  *)
LEMMA IdleRun ==
    ASSUME Types, TypeOK', NEW w \in Workers, run' = [run EXCEPT ![w] = NoRun]
    PROVE  /\ run' \in [Workers -> RunForms] /\ RunInv(w)'
           /\ \A v \in Workers \ {w} : run'[v] = run[v]
  <1>1. NoRun \in RunForms
    BY DEF NoRun, Unseen, RunForms
  <1>2. run' \in [Workers -> RunForms] /\ run'[w] = NoRun
    BY <1>1 DEF Types
  <1>3. RunInv(w)'
    BY <1>2 DEF RunInv, NoRun, TypeOK, Creating, AtArticle
  <1> QED  BY <1>2, <1>3 DEF Types

(* The ends of runs, with whatever they have written before.               *)
LEMMA EndTypes ==
    ASSUME Types, NEW w \in Workers, NEW again, EndRun(w, again),
           UNCHANGED <<articles, submissions, tokens>>,
           bound # 0 => bound' = bound,
           bound' = 0 => synced' = 0 /\ publish' = NoPublish,
           processed' \in Nat, processed' <= requested,
           bound' \in {0} \cup DOMAIN articles, create' \in CreateForms,
           publish' \in PublishForms, synced' \in Nat
    PROVE  Types'
  <1>1. /\ UNCHANGED <<generation, requested>> /\ due' \in BOOLEAN
        /\ leaseOwner' = Nobody /\ leaseLive' = FALSE
        /\ run' = [run EXCEPT ![w] = NoRun]
        /\ inflight' \subseteq inflight
    BY DEF EndRun, Withdraw, Types, TypeOK
  <1>2. TypeOK'
    <2>1. inflight' \subseteq Requests
      BY <1>1 DEF Types, TypeOK
    <2>2. create' \in CreateForms' /\ publish' \in PublishForms'
      BY DEF CreateForms, PublishForms
    <2> QED  BY <1>1, <2>1, <2>2 DEF Types, TypeOK, CreateForms, PublishForms
  <1>3. run' \in [Workers -> RunForms] /\ RunInv(w)'
        /\ \A v \in Workers \ {w} : run'[v] = run[v]
    BY <1>1, <1>2, IdleRun
  <1>4. BoundFirst'
    BY <1>1 DEF Types, BoundFirst
  <1>5. Onward
    BY <1>1 DEF Onward, Types, TypeOK
  <1>6. submissions' \in Seq(Nat) /\ tokens' \in Nat
    BY DEF Types
  <1>7. \A v \in Workers : ~Holds(v)'
    BY <1>1 DEF Holds
  <1> QED  BY <1>2, <1>3, <1>4, <1>5, <1>6, <1>7, TypesOfStep

(* What the types say of the evidence.                                     *)
LEMMA EvidenceForms ==
    ASSUME Types
    PROVE  /\ create \in CreateForms /\ publish \in PublishForms
           /\ \A outcome \in {"submitted", "confirmed", "failed", "uncertain"} :
                 [create EXCEPT !.outcome = outcome] \in CreateForms
           /\ \A outcome \in {"accepted", "rejected", "uncertain", "observed"} :
                 [publish EXCEPT !.outcome = outcome] \in PublishForms
           /\ NoCreate \in CreateForms /\ NoPublish \in PublishForms
           /\ bound \in {0} \cup DOMAIN articles
           /\ synced \in Nat /\ processed \in Nat /\ processed <= requested
           /\ bound = 0 => synced = 0 /\ publish = NoPublish
           /\ submissions \in Seq(Nat) /\ tokens \in Nat
  <1>1. create \in CreateForms /\ publish \in PublishForms
    BY DEF Types, TypeOK, CreateForms, PublishForms
  <1>2. \A outcome \in {"submitted", "confirmed", "failed", "uncertain"} :
                 [create EXCEPT !.outcome = outcome] \in CreateForms
    BY <1>1 DEF CreateForms
  <1>3. \A outcome \in {"accepted", "rejected", "uncertain", "observed"} :
                 [publish EXCEPT !.outcome = outcome] \in PublishForms
    BY <1>1 DEF PublishForms
  <1>4. tokens \in Nat /\ Len(submissions) \in Nat
    BY LenProperties DEF Types
  <1>5. NoCreate \in CreateForms /\ NoPublish \in PublishForms
    BY <1>4 DEF NoCreate, NoPublish, CreateForms, PublishForms
  <1> QED  BY <1>1, <1>2, <1>3, <1>5 DEF Types, TypeOK, BoundFirst

(* A run ends and leaves work processed as it was.                         *)
LEMMA StopTypes ==
    ASSUME Types, NEW w \in Workers, Wait(w) \/ Fail(w) \/ RequireRepair(w),
           UNCHANGED <<articles, submissions, tokens, synced>>,
           bound # 0 => bound' = bound, bound' \in {0} \cup DOMAIN articles,
           bound' = 0 => publish' = NoPublish,
           create' \in CreateForms, publish' \in PublishForms
    PROVE  Types'
  <1>1. PICK again : EndRun(w, again)
    BY DEF Wait, Fail, RequireRepair
  <1>2. processed' = processed
    BY DEF Wait, Fail, RequireRepair
  <1>3. bound' = 0 => synced' = 0
    BY EvidenceForms
  <1> QED  BY <1>1, <1>2, <1>3, EvidenceForms, EndTypes

(* Begin, the loss of a lease, and the ends of runs.                       *)
LEMMA BoundaryTypes ==
    ASSUME Types, NEW w \in Workers,
           \/ Begin(w) \/ RaiseError(w) \/ FindNewerSave(w) \/ LoseLease(w)
           \/ AbandonRun(w) \/ Crash(w)
    PROVE  Types'
  <1>1. CASE Begin(w)
    <2> DEFINE q == [NoRun EXCEPT !.pc = IF due THEN "start" ELSE "observe",
                                  !.content = generation, !.requested = requested]
    <2>1. /\ run' = [run EXCEPT ![w] = q]
          /\ leaseOwner' = w /\ leaseLive' = TRUE
          /\ UNCHANGED <<work, document, remote, aside>>
          /\ due \/ bound # 0
      BY <1>1 DEF Begin
    <2> DEFINE pc == IF due THEN "start" ELSE "observe"
    <2>2. pc \in Pcs /\ generation \in Nat /\ requested \in Nat
      BY DEF Pcs, AtArticle, Types, TypeOK
    <2>3. /\ q \in RunForms
          /\ q.content = generation /\ q.requested = requested
          /\ q.pc = IF due THEN "start" ELSE "observe"
      <3> HIDE DEF pc
      <3>1. q = [NoRun EXCEPT !.pc = pc, !.content = generation, !.requested = requested]
        BY DEF pc
      <3> HIDE DEF q
      <3>2. q \in RunForms /\ q.content = generation /\ q.requested = requested /\ q.pc = pc
        <4>1. NoRun \in RunForms
          BY DEF NoRun, Unseen, RunForms
        <4> QED  BY <2>2, <3>1, <4>1 DEF RunForms, Pcs
      <3> QED  BY <3>2 DEF pc
    <2> HIDE DEF q
    <2>4. TypeOK'
      BY <2>1 DEF Types, TypeOK, work, document, evidence, remote, aside, history
    <2>5. /\ run' \in [Workers -> RunForms] /\ run'[w] = q
          /\ \A v \in Workers \ {w} : run'[v] = run[v] /\ ~Holds(v)'
      BY <2>1, <2>3 DEF Types, Holds
    <2>6. RunInv(w)'
      <3>1. UNCHANGED <<generation, requested, bound>> /\ (due \/ bound # 0)
        BY <2>1 DEF work, document
      <3>2. q.pc \notin Creating /\ q.pc # "created" /\ (q.pc \in AtArticle => bound # 0)
        BY <2>3, <3>1 DEF Creating, AtArticle
      <3>3. generation \in Nat /\ requested \in Nat
        BY DEF Types, TypeOK
      <3> QED  BY <2>3, <2>5, <3>1, <3>2, <3>3 DEF RunInv
    <2>7. Onward /\ BoundFirst'
      BY <2>1 DEF Onward, BoundFirst, Types, TypeOK, work, document, evidence, remote
    <2>8. submissions' \in Seq(Nat) /\ tokens' \in Nat
      BY <2>1 DEF Types, aside, history
    <2> QED  BY <2>4, <2>5, <2>6, <2>7, <2>8, TypesOfStep
  <1>2. CASE RaiseError(w) \/ FindNewerSave(w)
    <2>1. Wait(w) \/ Fail(w)
      BY <1>2 DEF RaiseError, FindNewerSave
    <2>2. UNCHANGED <<document, articles, aside>>
      BY <1>2 DEF RaiseError, FindNewerSave
    <2> QED  BY <2>1, <2>2, EvidenceForms, StopTypes DEF document, evidence, aside, history
  <1>3. CASE LoseLease(w)
    <2>1. UNCHANGED <<work, leaseOwner, document, remote, run, repair, history>>
          /\ leaseLive' = FALSE
      BY <1>3 DEF LoseLease
    <2>2. TypeOK'
      BY <2>1 DEF Types, TypeOK, work, document, evidence, remote, history
    <2>3. Onward /\ BoundFirst'
      BY <2>1 DEF Onward, BoundFirst, Types, TypeOK, work, document, evidence, remote
    <2>4. \A v \in Workers : ~Holds(v)'
      BY <2>1 DEF Holds
    <2> QED  BY <2>1, <2>2, <2>3, <2>4, TypesOfOthers DEF Types, document, history
  <1>4. CASE AbandonRun(w) \/ Crash(w)
    <2>1. /\ run' = [run EXCEPT ![w] = NoRun]
          /\ inflight' \subseteq inflight
          /\ UNCHANGED <<work, document, articles, history>>
          /\ leaseOwner' \in {leaseOwner, Nobody} /\ leaseLive' \in {leaseLive, FALSE}
      BY <1>4 DEF AbandonRun, Crash, Withdraw, aside
    <2>2. TypeOK'
      BY <2>1 DEF Types, TypeOK, work, document, evidence, history
    <2>3. Onward
      BY <2>1 DEF Onward, Types, TypeOK, work, document
    <2>31. BoundFirst'
      BY <2>1 DEF BoundFirst, Types, document, evidence
    <2>4. \A v \in Workers : Holds(v)' => Holds(v)
      BY <2>1, NobodyAssumption DEF Holds
    <2>5. run' \in [Workers -> RunForms] /\ RunInv(w)'
          /\ \A v \in Workers \ {w} : run'[v] = run[v]
      BY <2>1, <2>2, IdleRun
    <2>6. UNCHANGED bound /\ submissions' \in Seq(Nat) /\ tokens' \in Nat
      BY <2>1 DEF document, history, Types
    <2> QED  BY <2>2, <2>3, <2>31, <2>4, <2>5, <2>6, TypesOfStep
  <1> QED  BY <1>1, <1>2, <1>3, <1>4

(* A run that moves on and changes the document, or sends a request.       *)
LEMMA MovingTypes ==
    ASSUME Types, NEW w \in Workers, NEW pc \in Pcs, Go(w, pc), pc # "created",
           UNCHANGED <<work, lease, articles>>,
           bound # 0 => bound' = bound, bound' \in {0} \cup DOMAIN articles,
           pc \in AtArticle => bound' # 0, pc \in Creating => bound' = 0,
           bound' # bound => Holds(w),
           create' \in CreateForms', publish' \in PublishForms', synced' \in Nat,
           bound' = 0 => synced' = 0 /\ publish' = NoPublish,
           inflight' \subseteq Requests,
           \A r \in inflight' : \/ r \in inflight
                                \/ r.type = "create"
                                \/ bound' # 0 /\ r.article = bound',
           submissions' \in Seq(Nat), tokens' \in Nat
    PROVE  Types'
  <1>1. TypeOK'
    BY DEF Types, TypeOK, work, lease, CreateForms, PublishForms
  <1>2. Onward
    BY DEF Onward, Types, TypeOK, work
  <1>3. BoundFirst'
    BY DEF BoundFirst, Types
  <1>4. \A v \in Workers : Holds(v)' = Holds(v)
    BY DEF Holds, lease
  <1>5. \A v \in Workers \ {w} : Holds(v)' => Holds(v) /\ bound' = bound
    BY <1>4 DEF Holds
  <1>6. RunInv(w)'
    BY <1>1, <1>2, MoveRun
  <1> QED  BY <1>1, <1>2, <1>3, <1>5, <1>6, MoveTypes, TypesOfStep

(* A run that moves on and changes at most the document.                   *)
LEMMA CheckpointTypes ==
    ASSUME Types, NEW w \in Workers, NEW pc \in Pcs, Go(w, pc), pc # "created",
           UNCHANGED <<work, lease, remote, submissions, tokens>>,
           bound # 0 => bound' = bound, bound' \in {0} \cup DOMAIN articles,
           pc \in AtArticle => bound' # 0, pc \in Creating => bound' = 0,
           bound' # bound => Holds(w),
           create' \in CreateForms, publish' \in PublishForms, synced' \in Nat,
           bound' = 0 => synced' = 0 /\ publish' = NoPublish
    PROVE  Types'
  <1>1. create' \in CreateForms' /\ publish' \in PublishForms'
    BY DEF CreateForms, PublishForms
  <1>2. inflight' = inflight /\ inflight \subseteq Requests /\ articles' = articles
    BY DEF remote, Types, TypeOK
  <1>3. submissions' \in Seq(Nat) /\ tokens' \in Nat
    BY DEF Types
  <1> QED  BY <1>1, <1>2, <1>3, MovingTypes

(* Creation, and that there is an article.                                 *)
LEMMA CreationTypes ==
    ASSUME Types, NEW w \in Workers, Creation(w) \/ Continue(w)
    PROVE  Types'
  <1>0. /\ RunInv(w) /\ run[w] \in RunForms
        /\ "bound" \in Pcs /\ "bound" \in AtArticle /\ "bound" \notin Creating
        /\ \A pc \in Creating : pc \in Pcs /\ pc \notin AtArticle
        /\ Creating = {"create", "creating", "created", "lookup"}
    BY DEF Types, Pcs, AtArticle, Creating
  <1>1. CASE Continue(w)
    <2>1. Go(w, "bound") /\ bound # 0
      BY <1>1 DEF Continue
    <2>2. UNCHANGED <<work, lease, remote, submissions, tokens, bound, create, publish, synced>>
      BY <1>1 DEF Continue, document, evidence, aside, history
    <2> QED  BY <1>0, <2>1, <2>2, EvidenceForms, CheckpointTypes
  <1>2. CASE \E i \in Candidates : RecoverCreate(w, i)
    <2>1. PICK i \in Candidates : RecoverCreate(w, i)
      BY <1>2
    <2>2. /\ bound = 0 /\ bound' = i /\ Holds(w)
          /\ UNCHANGED <<create, publish, synced, articles, submissions, tokens>>
      BY <2>1 DEF RecoverCreate, evidence, aside, history
    <2>3. i \in DOMAIN articles /\ i # 0
      BY DEF Candidates, Types, TypeOK
    <2>4. CASE Fail(w)
      BY <2>2, <2>3, <2>4, EvidenceForms, StopTypes
    <2>5. CASE Go(w, "bound") /\ UNCHANGED <<work, lease, inflight>>
      <3>1. UNCHANGED remote
        BY <2>2, <2>5 DEF remote
      <3> QED  BY <1>0, <2>2, <2>3, <2>5, <3>1, EvidenceForms, CheckpointTypes
    <2> QED  BY <2>1, <2>4, <2>5 DEF RecoverCreate
  <1>3. CASE CreateNotFound(w)
    <2>1. RequireRepair(w)
      BY <1>3 DEF CreateNotFound
    <2>2. UNCHANGED <<bound, create, publish, synced, articles, submissions, tokens>>
      BY <1>3 DEF CreateNotFound, document, evidence, aside, history
    <2> QED  BY <2>1, <2>2, EvidenceForms, StopTypes
  <1>4. CASE StartCreate(w)
    <2>1. /\ Go(w, "create") /\ bound = 0 /\ tokens' = tokens + 1
          /\ create' = [token |-> tokens + 1, outcome |-> "submitted",
                        request |-> run[w].requested]
          /\ UNCHANGED <<work, lease, bound, publish, synced, remote, submissions>>
      BY <1>4 DEF StartCreate
    <2>2. create' \in CreateForms' /\ tokens' \in Nat
      <3>1. run[w].requested \in Nat
        BY <1>0 DEF RunForms
      <3>2. tokens' \in Nat /\ tokens + 1 \in 0 .. tokens'
        BY <2>1, EvidenceForms
      <3> QED  BY <2>1, <3>1, <3>2 DEF CreateForms
    <2>3. publish' \in PublishForms'
      BY <2>1, EvidenceForms DEF PublishForms
    <2>4. UNCHANGED articles /\ inflight' = inflight /\ inflight \subseteq Requests
      BY <2>1 DEF remote, Types, TypeOK
    <2> QED  BY <1>0, <2>1, <2>2, <2>3, <2>4, EvidenceForms, MovingTypes
  <1>5. CASE SendCreate(w)
    <2> DEFINE r == [type |-> "create", of |-> create.token, article |-> 0, by |-> w]
    <2>1. /\ Go(w, "creating") /\ Holds(w) /\ run[w].pc = "create"
          /\ inflight' = inflight \cup {r}
          /\ UNCHANGED <<work, lease, bound, create, publish, synced, articles,
                         submissions, tokens>>
      BY <1>5 DEF SendCreate, document, evidence, aside, history
    <2>2. r \in Requests /\ r.type = "create"
      BY EvidenceForms DEF CreateForms, Requests
    <2> HIDE DEF r
    <2>3. bound = 0
      BY <1>0, <2>1 DEF RunInv
    <2>4. create' \in CreateForms' /\ publish' \in PublishForms'
      BY <2>1, EvidenceForms DEF CreateForms, PublishForms
    <2>5. inflight' \subseteq Requests
      BY <2>1, <2>2 DEF Types, TypeOK
    <2> QED  BY <1>0, <2>1, <2>2, <2>3, <2>4, <2>5, EvidenceForms, MovingTypes
  <1>6. CASE RefuseCreate(w)
    <2>1. Wait(w) /\ create' = NoCreate
      BY <1>6 DEF RefuseCreate
    <2>2. UNCHANGED <<bound, publish, synced, articles, submissions, tokens>>
      BY <1>6 DEF RefuseCreate, aside, history
    <2> QED  BY <2>1, <2>2, EvidenceForms, StopTypes
  <1>7. CASE ConfirmCreate(w)
    <2>1. /\ run[w].pc = "created" /\ Holds(w) /\ bound' = run[w].made
          /\ create' = [create EXCEPT !.outcome = "confirmed"] /\ Go(w, "bound")
          /\ UNCHANGED <<work, lease, publish, synced, remote, submissions, tokens>>
      BY <1>7 DEF ConfirmCreate, aside, history
    <2>2. bound = 0 /\ run[w].made \in DOMAIN articles
      BY <1>0, <2>1 DEF RunInv
    <2>3. 0 \notin DOMAIN articles
      BY DEF Types, TypeOK
    <2>4. create' \in CreateForms
      BY <2>1, EvidenceForms
    <2> QED  BY <1>0, <2>1, <2>2, <2>3, <2>4, EvidenceForms, CheckpointTypes
  <1>8. CASE \E outcome \in {"failed", "uncertain"} : FailCreate(w, outcome)
    <2>1. PICK outcome \in {"failed", "uncertain"} : FailCreate(w, outcome)
      BY <1>8
    <2>2. /\ run[w].pc \in {"create", "creating", "created"} /\ Holds(w)
          /\ create' = [create EXCEPT !.outcome = outcome] /\ Go(w, "lookup")
          /\ UNCHANGED <<work, lease, bound, publish, synced, remote, submissions, tokens>>
      BY <2>1 DEF FailCreate, CreateWithout, aside, history
    <2>3. bound = 0
      BY <1>0, <2>2 DEF RunInv
    <2>4. create' \in CreateForms
      BY <2>2, EvidenceForms
    <2> QED  BY <1>0, <2>2, <2>3, <2>4, EvidenceForms, CheckpointTypes
  <1>9. CASE LookUpCreate(w)
    <2>1. /\ run[w].pc = "lookup" /\ Holds(w) /\ Fail(w)
          /\ UNCHANGED bound \/ bound' \in Candidates
          /\ UNCHANGED <<create, publish, synced, articles, submissions, tokens>>
      BY <1>9 DEF LookUpCreate, evidence, aside, history
    <2>2. bound = 0
      BY <1>0, <2>1 DEF RunInv
    <2>3. bound' \in {0} \cup DOMAIN articles
      BY <2>1, <2>2 DEF Candidates
    <2> QED  BY <2>1, <2>2, <2>3, EvidenceForms, StopTypes
  <1> QED  BY <1>1, <1>2, <1>3, <1>4, <1>5, <1>6, <1>7, <1>8, <1>9 DEF Creation

(* A run that reads the article.                                           *)
LEMMA ReadTypes ==
    ASSUME Types, NEW w \in Workers, NEW pc \in {"reconcile", "deciding"},
           run' = [run EXCEPT ![w].pc = pc, ![w].seen = Seen(bound)],
           run[w].pc \in AtArticle,
           UNCHANGED <<work, lease, document, remote, aside>>
    PROVE  /\ Types'
           /\ run'[w] \in RunForms /\ run'[w].pc = pc /\ run'[w].seen = Seen(bound)
           /\ run'[w].content = run[w].content
           /\ \A v \in Workers \ {w} : run'[v] = run[v]
  <1>1. RunInv(w) /\ run[w] \in RunForms /\ bound # 0
    BY DEF Types, RunInv
  <1>2. bound \in DOMAIN articles /\ articles[bound] \in ArticleForms
    <2>1. bound \in DOMAIN articles /\ articles \in Seq(ArticleForms)
      BY <1>1 DEF Types, TypeOK, ArticleForms
    <2> QED  BY <2>1, ElementOfSeq, LenProperties
  <1>3. Seen(bound) \in [version : Nat, public : BOOLEAN, locked : BOOLEAN]
    BY <1>2 DEF Seen, Locked, ArticleForms
  <1>4. PICK q : q = [run[w] EXCEPT !.pc = pc, !.seen = Seen(bound)]
    OBVIOUS
  <1>5. /\ q \in RunForms /\ q.pc = pc /\ q.seen = Seen(bound)
        /\ q.content = run[w].content /\ q.requested = run[w].requested
    <2> DEFINE view == Seen(bound)
    <2>1. view \in [version : Nat, public : BOOLEAN, locked : BOOLEAN]
      BY <1>3
    <2> HIDE DEF view
    <2>2. q = [run[w] EXCEPT !.pc = pc, !.seen = view]
      BY <1>4 DEF view
    <2>3. /\ q \in RunForms /\ q.pc = pc /\ q.seen = view
          /\ q.content = run[w].content /\ q.requested = run[w].requested
      BY <1>1, <2>1, <2>2 DEF RunForms, AtArticle
    <2> QED  BY <2>3 DEF view
  <1>6. run' = [run EXCEPT ![w] = q]
    BY <1>4
  <1>7. /\ run' \in [Workers -> RunForms] /\ run'[w] = q
        /\ \A v \in Workers \ {w} : run'[v] = run[v]
    BY <1>5, <1>6 DEF Types
  <1>8. /\ UNCHANGED <<generation, requested, processed, due, lease, bound, create, publish,
                       synced, articles, inflight, submissions, tokens>>
    BY DEF work, document, evidence, remote, aside, history
  <1>9. TypeOK' /\ Onward
    BY <1>8 DEF Types, TypeOK, Onward, lease
  <1>10. BoundFirst' /\ submissions' \in Seq(Nat) /\ tokens' \in Nat
    BY <1>8 DEF Types, BoundFirst
  <1>11. \A v \in Workers : Holds(v)' = Holds(v)
    BY <1>8 DEF Holds, lease
  <1>12. RunInv(w)'
    BY <1>1, <1>5, <1>7, <1>8 DEF RunInv, Creating
  <1> QED  BY <1>5, <1>7, <1>8, <1>9, <1>10, <1>11, <1>12, TypesOfStep

(* A run that sends something to the article.                              *)
LEMMA SendingTypes ==
    ASSUME Types, NEW w \in Workers, NEW r \in Requests, r.type # "create",
           r.article = bound, run[w].pc \in AtArticle,
           inflight' = inflight \cup {r},
           run' \in [Workers -> RunForms], run'[w].pc \in AtArticle,
           run'[w].content = run[w].content, run'[w].requested = run[w].requested,
           \A v \in Workers \ {w} : run'[v] = run[v],
           UNCHANGED <<work, lease, document, articles, aside>>
    PROVE  Types'
  <1>1. RunInv(w) /\ bound # 0
    BY DEF Types, RunInv
  <1>2. UNCHANGED <<generation, requested, processed, due, lease, bound, create, publish,
                    synced, articles, submissions, tokens>>
    BY DEF work, document, evidence, aside, history
  <1>3. TypeOK' /\ Onward
    BY <1>2 DEF Types, TypeOK, Onward, lease
  <1>4. BoundFirst' /\ submissions' \in Seq(Nat) /\ tokens' \in Nat
    BY <1>1, <1>2 DEF Types, BoundFirst
  <1>5. \A v \in Workers : Holds(v)' = Holds(v)
    BY <1>2 DEF Holds, lease
  <1>6. RunInv(w)'
    BY <1>1, <1>2 DEF RunInv, Creating, AtArticle
  <1> QED  BY <1>2, <1>3, <1>4, <1>5, <1>6, TypesOfStep

(* Content and reconciliation.                                             *)
LEMMA ContentTypes ==
    ASSUME Types, NEW w \in Workers,
           \/ ReadArticle(w) \/ ReconcileDone(w) \/ Supersede(w)
           \/ AwaitPublication(w) \/ SkipLocked(w) \/ SkipEqual(w)
           \/ SendUpdate(w) \/ FailUpdate(w) \/ ConfirmUpdate(w) \/ Decide(w)
    PROVE  Types'
  <1>0. /\ RunInv(w) /\ run[w] \in RunForms /\ run[w].content \in Nat
        /\ \A pc \in AtArticle : pc \in Pcs /\ pc \notin Creating /\ pc # "created"
        /\ AtArticle = {"bound", "reconcile", "update", "updating", "sent", "updated",
                        "deciding", "publish", "publishing", "published", "refused",
                        "finish", "observe"}
        /\ run[w].pc \in AtArticle => bound # 0
    BY DEF Types, RunInv, RunForms, Pcs, AtArticle, Creating
  <1>1. CASE ReadArticle(w) \/ Decide(w)
    BY <1>0, <1>1, ReadTypes DEF ReadArticle, Decide
  <1>2. CASE ReconcileDone(w)
    <2>1. /\ run[w].pc = "reconcile"
          /\ publish' = IF Outstanding THEN [publish EXCEPT !.outcome = "observed"] ELSE publish
          /\ UNCHANGED <<bound, create, synced, articles, submissions, tokens>>
          /\ Wait(w) \/ (Go(w, "update") /\ UNCHANGED <<work, lease, inflight>>)
      BY <1>2 DEF ReconcileDone
    <2>2. publish' \in PublishForms /\ bound # 0
      BY <1>0, <2>1, EvidenceForms
    <2>3. CASE Wait(w)
      BY <2>1, <2>2, <2>3, EvidenceForms, StopTypes
    <2>4. CASE Go(w, "update") /\ UNCHANGED <<work, lease, inflight>>
      <3>1. UNCHANGED remote
        BY <2>1, <2>4 DEF remote
      <3> QED  BY <1>0, <2>1, <2>2, <2>4, <3>1, EvidenceForms, CheckpointTypes
    <2> QED  BY <2>1, <2>3, <2>4
  <1>3. CASE Supersede(w)
    <2>1. /\ run[w].pc = "reconcile" /\ publish' = NoPublish /\ Go(w, "update")
          /\ UNCHANGED <<work, lease, bound, create, synced, remote, submissions, tokens>>
      BY <1>3 DEF Supersede
    <2> QED  BY <1>0, <2>1, EvidenceForms, CheckpointTypes
  <1>4. CASE AwaitPublication(w) \/ FailUpdate(w)
    <2>1. Wait(w) \/ Fail(w) \/ RequireRepair(w)
      BY <1>4 DEF AwaitPublication, FailUpdate
    <2>2. UNCHANGED <<bound, create, publish, synced, articles, submissions, tokens>>
      BY <1>4 DEF AwaitPublication, FailUpdate, document, evidence, aside, history
    <2> QED  BY <2>1, <2>2, EvidenceForms, StopTypes
  <1>5. CASE SkipLocked(w)
    <2>1. /\ run[w].pc = "update" /\ Go(w, "updated")
          /\ UNCHANGED <<work, lease, remote, submissions, tokens, bound, create, publish, synced>>
      BY <1>5 DEF SkipLocked, document, evidence, aside, history
    <2> QED  BY <1>0, <2>1, EvidenceForms, CheckpointTypes
  <1>6. CASE SkipEqual(w) \/ ConfirmUpdate(w)
    <2>1. /\ run[w].pc \in {"update", "sent"} /\ Go(w, "updated")
          /\ synced' = run[w].content
          /\ UNCHANGED <<work, lease, remote, submissions, tokens, bound, create, publish>>
      BY <1>6 DEF SkipEqual, ConfirmUpdate, evidence, aside, history
    <2> QED  BY <1>0, <2>1, EvidenceForms, CheckpointTypes
  <1>7. CASE SendUpdate(w)
    <2> DEFINE r == [type |-> "update", of |-> run[w].content, article |-> bound, by |-> w]
    <2>1. /\ run[w].pc = "update" /\ inflight' = inflight \cup {r}
          /\ run' = [run EXCEPT ![w].pc = "updating", ![w].changed = TRUE]
          /\ UNCHANGED <<work, lease, document, articles, aside>>
      BY <1>7 DEF SendUpdate
    <2>2. r \in Requests /\ r.type # "create" /\ r.article = bound
      BY <1>0 DEF Requests, Types, TypeOK
    <2> HIDE DEF r
    <2>3. PICK q : q = [run[w] EXCEPT !.pc = "updating", !.changed = TRUE]
      OBVIOUS
    <2>4. /\ q \in RunForms /\ q.pc = "updating"
          /\ q.content = run[w].content /\ q.requested = run[w].requested
      BY <1>0, <2>3 DEF RunForms, AtArticle
    <2>5. run' = [run EXCEPT ![w] = q]
      BY <2>1, <2>3
    <2>6. /\ run' \in [Workers -> RunForms] /\ run'[w] = q
          /\ \A v \in Workers \ {w} : run'[v] = run[v]
      BY <2>4, <2>5 DEF Types
    <2> QED  BY <1>0, <2>1, <2>2, <2>4, <2>6, SendingTypes
  <1> QED  BY <1>1, <1>2, <1>3, <1>4, <1>5, <1>6, <1>7

(* Publication, and the ends of runs.                                      *)
LEMMA PublicationTypes ==
    ASSUME Types, NEW w \in Workers, Publication(w) \/ FinishSync(w) \/ Observe(w)
    PROVE  Types'
  <1>0. /\ RunInv(w) /\ run[w] \in RunForms /\ run[w].content \in Nat
        /\ run[w].requested \in Nat /\ run[w].seen.version \in Nat
        /\ \A pc \in AtArticle : pc \in Pcs /\ pc \notin Creating /\ pc # "created"
        /\ AtArticle = {"bound", "reconcile", "update", "updating", "sent", "updated",
                        "deciding", "publish", "publishing", "published", "refused",
                        "finish", "observe"}
        /\ run[w].pc \in AtArticle => bound # 0
    BY DEF Types, RunInv, RunForms, Pcs, AtArticle, Creating
  <1>1. CASE StartPublish(w)
    <2>1. /\ run[w].pc = "deciding" /\ Go(w, "publish")
          /\ publish' = [id |-> Len(submissions) + 1, generation |-> run[w].content,
                         content |-> synced, outcome |-> "submitted",
                         previousVersion |-> run[w].seen.version]
          /\ submissions' = Append(submissions, run[w].content)
          /\ UNCHANGED <<work, lease, bound, create, synced, remote, tokens>>
      BY <1>1 DEF StartPublish
    <2>2. /\ submissions' \in Seq(Nat) /\ Len(submissions) \in Nat
          /\ Len(submissions') = Len(submissions) + 1
      BY <1>0, <2>1, EvidenceForms, AppendProperties, LenProperties
    <2>3. publish' \in PublishForms'
      <3>1. Len(submissions) + 1 \in 0 .. Len(submissions')
        BY <2>2
      <3>2. synced \in Nat
        BY EvidenceForms
      <3> QED  BY <1>0, <2>1, <3>1, <3>2 DEF PublishForms
    <2>4. create' \in CreateForms' /\ tokens' \in Nat
      BY <2>1, EvidenceForms DEF CreateForms
    <2>5. UNCHANGED articles /\ inflight' = inflight /\ inflight \subseteq Requests
      BY <2>1 DEF remote, Types, TypeOK
    <2> QED  BY <1>0, <2>1, <2>2, <2>3, <2>4, <2>5, EvidenceForms, MovingTypes
  <1>2. CASE SkipPublish(w)
    <2>1. /\ run[w].pc = "deciding" /\ Go(w, "finish")
          /\ UNCHANGED <<work, lease, remote, submissions, tokens, bound, create, publish, synced>>
      BY <1>2 DEF SkipPublish, document, evidence, aside, history
    <2> QED  BY <1>0, <2>1, EvidenceForms, CheckpointTypes
  <1>3. CASE SendPublish(w)
    <2> DEFINE r == [type |-> "publish", of |-> publish.id, article |-> bound, by |-> w]
    <2>1. /\ run[w].pc = "publish" /\ inflight' = inflight \cup {r} /\ Go(w, "publishing")
          /\ UNCHANGED <<work, lease, document, articles, aside>>
      BY <1>3 DEF SendPublish
    <2>2. r \in Requests /\ r.type # "create" /\ r.article = bound
      <3>1. Len(submissions) \in Nat
        BY EvidenceForms, LenProperties
      <3>2. publish.id \in Nat
        BY <3>1, EvidenceForms DEF PublishForms
      <3>3. bound \in Nat
        BY DEF Types, TypeOK
      <3> QED  BY <3>2, <3>3 DEF Requests
    <2> HIDE DEF r
    <2>3. "publishing" \in Pcs
      BY <1>0
    <2>4. run'[w] = [run[w] EXCEPT !.pc = "publishing"] /\ run'[w].pc = "publishing"
          /\ run' \in [Workers -> RunForms]
          /\ \A v \in Workers \ {w} : run'[v] = run[v]
      BY <2>1, <2>3, MoveTypes
    <2>5. run'[w].content = run[w].content /\ run'[w].requested = run[w].requested
      BY <1>0, <2>4 DEF RunForms
    <2> QED  BY <1>0, <2>1, <2>2, <2>4, <2>5, SendingTypes
  <1>4. CASE FailPublish(w) \/ RejectPublish(w)
    <2>1. /\ run[w].pc \in {"publish", "publishing", "published", "refused"}
          /\ Fail(w) \/ RequireRepair(w)
          /\ UNCHANGED <<bound, create, synced, articles, submissions, tokens>>
          /\ \/ publish' = [publish EXCEPT !.outcome = "uncertain"]
             \/ publish' = [publish EXCEPT !.outcome = "rejected"]
      BY <1>4 DEF FailPublish, RejectPublish, aside, history
    <2>2. publish' \in PublishForms /\ bound # 0
      BY <1>0, <2>1, EvidenceForms
    <2> QED  BY <2>1, <2>2, EvidenceForms, StopTypes
  <1>5. CASE AcceptPublish(w)
    <2>1. /\ run[w].pc = "published" /\ Go(w, "finish")
          /\ publish' = [publish EXCEPT !.outcome = "accepted"]
          /\ UNCHANGED <<work, lease, remote, submissions, tokens, bound, create, synced>>
      BY <1>5 DEF AcceptPublish, aside, history
    <2>2. publish' \in PublishForms
      BY <2>1, EvidenceForms
    <2> QED  BY <1>0, <2>1, <2>2, EvidenceForms, CheckpointTypes
  <1>6. CASE FinishSync(w)
    <2>1. /\ EndRun(w, FALSE) /\ processed' = ProcessedBy(w)
          /\ UNCHANGED <<bound, create, publish, synced, articles, submissions, tokens>>
      BY <1>6 DEF FinishSync, document, evidence, aside, history
    <2>2. processed' \in Nat /\ processed' <= requested
      <3>1. run[w].requested <= requested /\ requested \in Nat
        BY <1>0 DEF RunInv, Types, TypeOK
      <3> QED  BY <1>0, <2>1, <3>1, EvidenceForms DEF ProcessedBy, Max2
    <2> QED  BY <2>1, <2>2, EvidenceForms, EndTypes
  <1>7. CASE Observe(w)
    <2>1. /\ run[w].pc = "observe" /\ Wait(w)
          /\ UNCHANGED <<bound, create, synced, articles, submissions, tokens>>
          /\ publish' \in {publish, [publish EXCEPT !.outcome = "observed"]}
      BY <1>7 DEF Observe
    <2>2. publish' \in PublishForms /\ bound # 0
      BY <1>0, <2>1, EvidenceForms
    <2> QED  BY <2>1, <2>2, EvidenceForms, StopTypes
  <1> QED  BY <1>1, <1>2, <1>3, <1>4, <1>5, <1>6, <1>7 DEF Publication

(* An article changes into another.                                        *)
LEMMA ArticleTypes ==
    ASSUME Types, NEW i, NEW a \in ArticleForms, articles' = [articles EXCEPT ![i] = a]
    PROVE  /\ articles' \in Seq(ArticleForms) /\ DOMAIN articles' = DOMAIN articles
           /\ \A j \in DOMAIN articles : articles'[j] = IF j = i THEN a ELSE articles[j]
  <1>1. articles \in Seq(ArticleForms) /\ DOMAIN articles = 1 .. Len(articles)
    BY LenProperties DEF Types, TypeOK, ArticleForms
  <1>2. CASE i \in DOMAIN articles
    BY <1>1, <1>2, ExceptSeq, LenProperties
  <1>3. CASE i \notin DOMAIN articles
    <2>1. articles' = articles
      BY <1>1, <1>3
    <2> QED  BY <1>1, <1>3, <2>1
  <1> QED  BY <1>2, <1>3

(* The article that is released, reviewed or returned.                     *)
LEMMA ReleasedForms ==
    ASSUME NEW a \in ArticleForms
    PROVE  /\ Released(a) \in ArticleForms /\ Released(a).content = a.content
           /\ Released(a).version = a.version + 1 /\ Released(a).published = a.content
           /\ \A review \in BOOLEAN :
                 LET b == [a EXCEPT !.review = review]
                 IN  b \in ArticleForms /\ b.content = a.content
                     /\ b.version = a.version /\ b.published = a.published
  <1>1. PICK b : b = Released(a)
    OBVIOUS
  <1>2. /\ b \in ArticleForms /\ b.content = a.content
        /\ b.version = a.version + 1 /\ b.published = a.content
    <2>1. PICK v : v = a.version + 1
      OBVIOUS
    <2>2. PICK c : c = a.content
      OBVIOUS
    <2>3. b = [a EXCEPT !.version = v, !.public = TRUE, !.published = c, !.review = FALSE]
      BY <1>1, <2>1, <2>2 DEF Released
    <2>4. v \in Nat /\ c \in Nat
      BY <2>1, <2>2 DEF ArticleForms
    <2>5. /\ b \in ArticleForms /\ b.content = a.content
          /\ b.version = v /\ b.published = c
      BY <2>3, <2>4 DEF ArticleForms
    <2> QED  BY <2>1, <2>2, <2>5
  <1>3. \A review \in BOOLEAN :
                 LET c == [a EXCEPT !.review = review]
                 IN  c \in ArticleForms /\ c.content = a.content
                     /\ c.version = a.version /\ c.published = a.published
    BY DEF ArticleForms
  <1> QED  BY <1>1, <1>2, <1>3

\* What a submission or a review makes of an article.
Changes(a) == {Released(a), [a EXCEPT !.review = TRUE], [a EXCEPT !.review = FALSE]}

(* What Figshare does to the article it is asked to publish.               *)
LEMMA ChangedArticle ==
    ASSUME Types, NEW i \in DOMAIN articles,
           \/ Submit(i)
           \/ \E approve \in BOOLEAN : articles' = [articles EXCEPT ![i] =
                 IF approve THEN Released(@) ELSE [@ EXCEPT !.review = FALSE]]
    PROVE  /\ articles[i] \in ArticleForms
           /\ \E a \in Changes(articles[i]) : articles' = [articles EXCEPT ![i] = a]
  <1>1. articles \in Seq(ArticleForms)
    BY DEF Types, TypeOK, ArticleForms
  <1>2. articles[i] \in ArticleForms
    BY <1>1, ElementOfSeq, LenProperties
  <1>3. CASE Submit(i)
    BY <1>3, <1>2 DEF Submit, Changes
  <1>4. CASE \E approve \in BOOLEAN : articles' = [articles EXCEPT ![i] =
                 IF approve THEN Released(@) ELSE [@ EXCEPT !.review = FALSE]]
    BY <1>4, <1>2 DEF Changes
  <1> QED  BY <1>2, <1>3, <1>4

(* A change of an article while the runs wait, or hear of it.              *)
LEMMA ChangedForms ==
    ASSUME NEW a \in ArticleForms, NEW b \in Changes(a)
    PROVE  /\ b \in ArticleForms /\ b.content = a.content
           /\ \/ b.version = a.version + 1 /\ b.published = a.content
              \/ b.version = a.version /\ b.published = a.published
  BY ReleasedForms DEF Changes

(* A request that is performed.                                            *)
LEMMA PerformedArticles ==
    ASSUME Types, NEW r \in inflight, Perform(r)
    PROVE  \/ /\ r.type = "create"
              /\ NewArticle(r.of) \in ArticleForms
              /\ articles' = Append(articles, NewArticle(r.of))
           \/ /\ r.type \in {"update", "publish"} /\ r.article = bound
              /\ bound \in DOMAIN articles /\ articles[bound] \in ArticleForms
              /\ \E a \in ArticleForms :
                    /\ articles' = [articles EXCEPT ![bound] = a]
                    /\ \/ /\ r.type = "update" /\ a.content = r.of
                          /\ a.version = articles[bound].version
                          /\ a.published = articles[bound].published
                       \/ r.type = "publish" /\ a \in Changes(articles[bound])
  <1>1. /\ r \in Requests /\ articles \in Seq(ArticleForms)
        /\ r.type # "create" => bound # 0 /\ r.article = bound
        /\ bound # 0 => bound \in DOMAIN articles
    BY DEF Types, TypeOK, BoundFirst, ArticleForms
  <1>2. r.of \in Nat /\ r.type \in {"create", "update", "publish"}
    BY <1>1 DEF Requests
  <1>3. CASE r.type = "create"
    BY <1>2, <1>3 DEF Perform, NewArticle, ArticleForms
  <1>4. CASE r.type = "update"
    <2>1. bound \in DOMAIN articles /\ articles[bound] \in ArticleForms /\ r.article = bound
      BY <1>1, <1>4, ElementOfSeq, LenProperties
    <2>2. articles' = [articles EXCEPT ![bound].content = r.of, ![bound].token = 0]
      BY <1>4, <2>1 DEF Perform
    <2>3. PICK a : a = [articles[bound] EXCEPT !.content = r.of, !.token = 0]
      OBVIOUS
    <2>4. /\ a \in ArticleForms /\ a.content = r.of
          /\ a.version = articles[bound].version /\ a.published = articles[bound].published
      BY <1>2, <2>1, <2>3 DEF ArticleForms
    <2>5. articles' = [articles EXCEPT ![bound] = a]
      BY <1>1, <2>1, <2>2, <2>3
    <2> QED  BY <1>4, <2>1, <2>4, <2>5
  <1>5. CASE r.type = "publish"
    <2>1. bound \in DOMAIN articles /\ r.article = bound /\ Submit(bound)
      BY <1>1, <1>5 DEF Perform
    <2>2. /\ articles[bound] \in ArticleForms
          /\ \E a \in Changes(articles[bound]) : articles' = [articles EXCEPT ![bound] = a]
      BY <2>1, ChangedArticle
    <2> QED  BY <1>5, <2>1, <2>2, ChangedForms
  <1> QED  BY <1>2, <1>3, <1>4, <1>5

\* What the worker that waits for the answer to r knows from it.
Answered(w, r, q) ==
    /\ WaitsFor(w, r) /\ run' = [run EXCEPT ![w] = q]
    /\ q.content = run[w].content /\ q.requested = run[w].requested
    /\ q.seen = run[w].seen
    /\ r.type = "create" => q.pc = "created" /\ q.made = Len(articles')
    /\ r.type = "update" => q.pc = "sent"
    /\ r.type = "publish" => q.pc = "published"

(* The answer to a request.                                                *)
LEMMA AnswerForms ==
    ASSUME Types, NEW r \in inflight, Perform(r), Len(articles') \in Nat
    PROVE  UNCHANGED run \/ \E w \in Workers, q \in RunForms : Answered(w, r, q)
  <1>1. SUFFICES ASSUME NEW w \in Workers, WaitsFor(w, r),
                        run' = [run EXCEPT
                           ![w].pc = CASE r.type = "create"  -> "created"
                                       [] r.type = "update"  -> "sent"
                                       [] r.type = "publish" -> "published",
                           ![w].made = IF r.type = "create" THEN Len(articles') ELSE @]
                 PROVE  \E q \in RunForms : Answered(w, r, q)
    BY DEF Perform
  <1>2. run \in [Workers -> RunForms] /\ run[w] \in RunForms
    BY DEF Types
  <1>3. r.type \in {"create", "update", "publish"}
    BY <1>1 DEF WaitsFor
  <1>4. PICK pc : pc = (CASE r.type = "create"  -> "created"
                          [] r.type = "update"  -> "sent"
                          [] r.type = "publish" -> "published")
    OBVIOUS
  <1>5. PICK made : made = IF r.type = "create" THEN Len(articles') ELSE run[w].made
    OBVIOUS
  <1>6. PICK q : q = [run[w] EXCEPT !.pc = pc, !.made = made]
    OBVIOUS
  <1>7. run' = [run EXCEPT ![w].pc = pc, ![w].made = made]
    BY <1>1, <1>4, <1>5
  <1>8. run' = [run EXCEPT ![w] = q]
    BY <1>2, <1>6, <1>7
  <1>9. /\ r.type = "create" => pc = "created" /\ made = Len(articles')
        /\ r.type = "update" => pc = "sent"
        /\ r.type = "publish" => pc = "published"
    BY <1>4, <1>5
  <1>10. pc \in {"created", "sent", "published"} /\ made \in Nat
    BY <1>2, <1>3, <1>5, <1>9 DEF RunForms
  <1>11. /\ q \in RunForms /\ q.pc = pc /\ q.made = made
         /\ q.content = run[w].content /\ q.requested = run[w].requested
         /\ q.seen = run[w].seen
    BY <1>2, <1>6, <1>10 DEF RunForms, Creating, AtArticle
  <1> QED  BY <1>1, <1>8, <1>9, <1>11 DEF Answered

(* What Figshare does.                                                     *)
LEMMA FigshareTypes ==
    ASSUME Types,
           \/ \E r \in inflight : Perform(r) \/ Refuse(r)
           \/ \E approve \in BOOLEAN : Review(approve)
           \/ SubmitByHand
    PROVE  Types'
  <1>0. /\ articles \in Seq(ArticleForms) /\ Len(articles) \in Nat
        /\ DOMAIN articles = 1 .. Len(articles)
        /\ submissions \in Seq(Nat) /\ tokens \in Nat
    BY LenProperties DEF Types, TypeOK, ArticleForms
  <1>1. ASSUME NEW r \in inflight, Perform(r)
        PROVE  Types'
    <2>1. /\ inflight' = inflight \ {r}
          /\ UNCHANGED <<generation, requested, processed, due, lease, bound, create, publish,
                         synced, submissions, tokens>>
      BY <1>1 DEF Perform, work, document, evidence, aside, history
    <2>2. /\ articles' \in Seq(ArticleForms) /\ Len(articles') \in Nat
          /\ DOMAIN articles \subseteq DOMAIN articles'
          /\ r.type = "create" => Len(articles') \in DOMAIN articles'
      <3>1. CASE /\ r.type = "create" /\ NewArticle(r.of) \in ArticleForms
                 /\ articles' = Append(articles, NewArticle(r.of))
        <4>1. articles' \in Seq(ArticleForms) /\ Len(articles') = Len(articles) + 1
          BY <1>0, <3>1, AppendProperties
        <4>2. DOMAIN articles' = 1 .. Len(articles')
          BY <4>1, LenProperties
        <4> QED  BY <1>0, <4>1, <4>2
      <3>2. CASE r.type # "create" /\ \E a \in ArticleForms : articles' = [articles EXCEPT ![bound] = a]
        <4>1. articles' \in Seq(ArticleForms) /\ DOMAIN articles' = DOMAIN articles
          BY <3>2, ArticleTypes
        <4> QED  BY <3>2, <4>1, LenProperties
      <3> QED  BY <1>1, <3>1, <3>2, PerformedArticles
    <2>3. TypeOK' /\ Onward /\ BoundFirst'
      <3>1. TypeOK'
        BY <2>1, <2>2 DEF Types, TypeOK, ArticleForms, lease
      <3>2. Onward
        BY <2>1, <2>2 DEF Onward, Types, TypeOK
      <3>3. BoundFirst'
        BY <2>1 DEF BoundFirst, Types
      <3> QED  BY <3>1, <3>2, <3>3
    <2>4. \A v \in Workers : Holds(v)' = Holds(v)
      BY <2>1 DEF Holds, lease
    <2>5. CASE UNCHANGED run
      BY <1>0, <2>1, <2>3, <2>4, <2>5, TypesOfOthers
    <2>6. ASSUME NEW w \in Workers, NEW q \in RunForms, Answered(w, r, q)
          PROVE  Types'
      <3>1. /\ run' \in [Workers -> RunForms] /\ run'[w] = q
            /\ \A v \in Workers \ {w} : run'[v] = run[v]
        BY <2>6 DEF Answered, Types
      <3>2. /\ RunInv(w) /\ q.content = run[w].content /\ q.requested = run[w].requested
            /\ r.type = "create" => q.pc = "created" /\ q.made = Len(articles')
            /\ r.type = "update" => q.pc = "sent"
            /\ r.type = "publish" => q.pc = "published"
            /\ \/ r.type = "create" /\ run[w].pc = "creating"
               \/ r.type = "update" /\ run[w].pc = "updating"
               \/ r.type = "publish" /\ run[w].pc = "publishing"
        BY <2>6 DEF Answered, WaitsFor, Types
      <3>3. RunInv(w)'
        BY <2>1, <2>2, <2>4, <3>1, <3>2 DEF RunInv, Creating, AtArticle
      <3> QED  BY <1>0, <2>1, <2>3, <2>4, <3>1, <3>3, TypesOfStep
    <2> QED  BY <1>1, <2>2, <2>5, <2>6, AnswerForms
  <1>2. ASSUME NEW r \in inflight, Refuse(r)
        PROVE  Types'
    <2>1. PICK w \in Workers : WaitsFor(w, r) /\ run' = [run EXCEPT ![w].pc = "refused"]
      BY <1>2 DEF Refuse
    <2>2. /\ Go(w, "refused") /\ run[w].pc = "publishing"
          /\ inflight' = inflight \ {r}
          /\ UNCHANGED <<work, lease, articles, bound, create, publish, synced, submissions, tokens>>
      BY <1>2, <2>1 DEF Refuse, Go, WaitsFor, document, evidence, aside, history
    <2>3. "refused" \in Pcs /\ "refused" \in AtArticle /\ "refused" \notin Creating /\ bound # 0
      BY <2>2 DEF Pcs, AtArticle, Creating, Types, RunInv
    <2>4. create' \in CreateForms' /\ publish' \in PublishForms'
      BY <2>2, EvidenceForms DEF CreateForms, PublishForms
    <2>5. inflight' \subseteq Requests /\ inflight' \subseteq inflight
      BY <2>2 DEF Types, TypeOK
    <2> QED  BY <1>0, <2>2, <2>3, <2>4, <2>5, EvidenceForms, MovingTypes
  <1>3. CASE (\E approve \in BOOLEAN : Review(approve)) \/ SubmitByHand
    <2>1. UNCHANGED <<work, lease, document, inflight, run, aside>>
      BY <1>3 DEF Review, SubmitByHand
    <2>2. \E i \in DOMAIN articles : \E a \in ArticleForms : articles' = [articles EXCEPT ![i] = a]
      <3>1. CASE \E approve \in BOOLEAN : Review(approve)
        <4>1. PICK i \in DOMAIN articles :
                 \E approve \in BOOLEAN : articles' = [articles EXCEPT ![i] =
                    IF approve THEN Released(@) ELSE [@ EXCEPT !.review = FALSE]]
          BY <3>1 DEF Review
        <4> QED  BY <4>1, ChangedArticle, ChangedForms
      <3>2. CASE SubmitByHand
        <4>1. bound \in DOMAIN articles /\ Submit(bound)
          BY <3>2 DEF SubmitByHand, Types, TypeOK
        <4> QED  BY <4>1, ChangedArticle, ChangedForms
      <3> QED  BY <1>3, <3>1, <3>2
    <2>3. articles' \in Seq(ArticleForms) /\ DOMAIN articles' = DOMAIN articles
      BY <2>2, ArticleTypes
    <2>4. UNCHANGED <<generation, requested, processed, due, lease, bound, create, publish,
                      synced, inflight, submissions, tokens>>
      BY <2>1 DEF work, document, evidence, aside, history
    <2>5. TypeOK'
      BY <2>3, <2>4 DEF Types, TypeOK, ArticleForms, lease
    <2>6. Onward /\ BoundFirst'
      BY <2>3, <2>4 DEF Onward, BoundFirst, Types, TypeOK
    <2>7. \A v \in Workers : Holds(v)' = Holds(v)
      BY <2>4 DEF Holds, lease
    <2> QED  BY <1>0, <2>1, <2>4, <2>5, <2>6, <2>7, TypesOfOthers
  <1> QED  BY <1>1, <1>2, <1>3

(* What operators do.                                                      *)
LEMMA AdminTypes ==
    ASSUME Types, NEW o \in Operators, AdminStep(o)
    PROVE  Types'
  <1>1. /\ UNCHANGED <<generation, processed, leaseLive, bound, synced, articles, inflight,
                       run, submissions, tokens>>
        /\ leaseOwner' \in {leaseOwner, Nobody}
        /\ requested' \in {requested, requested + 1} /\ due' \in {due, TRUE}
        /\ create' \in {create, NoCreate} /\ publish' \in {publish, NoPublish}
    <2>1. CASE VerifyAbandon(o) \/ VerifyReset(o) \/ GiveUpRepair(o)
      BY <2>1 DEF VerifyAbandon, VerifyReset, GiveUpRepair, work, lease, document, evidence,
                  remote, history
    <2>2. CASE AbandonCreate(o)
      BY <2>2 DEF AbandonCreate, work, remote
    <2>3. CASE ResetPublish(o)
      BY <2>3 DEF ResetPublish, work, remote
    <2>4. CASE Resume(o)
      BY <2>4 DEF Resume, document, evidence, remote, aside, history
    <2> QED  BY <2>1, <2>2, <2>3, <2>4 DEF AdminStep
  <1>2. create' \in CreateForms' /\ publish' \in PublishForms'
    BY <1>1, EvidenceForms DEF CreateForms, PublishForms
  <1>3. TypeOK'
    <2>1. due' \in BOOLEAN /\ leaseOwner' \in Workers \cup {Nobody}
      BY <1>1 DEF Types, TypeOK
    <2>2. requested' \in Nat /\ processed' <= requested'
      BY <1>1 DEF Types, TypeOK
    <2> QED  BY <1>1, <1>2, <2>1, <2>2 DEF Types, TypeOK, CreateForms, PublishForms
  <1>4. Onward
    BY <1>1 DEF Onward, Types, TypeOK
  <1>5. BoundFirst'
    BY <1>1 DEF BoundFirst, Types
  <1>6. \A v \in Workers : Holds(v)' => Holds(v)
    BY <1>1, NobodyAssumption DEF Holds
  <1> QED  BY <1>1, <1>3, <1>4, <1>5, <1>6, TypesOfOthers DEF Types

(* The types are inductive together with what each run knows and that      *)
(* nothing is done for an article before the record is bound to it.        *)
THEOREM RemoteTypes == Spec => []Types
  <1>1. Init => Types
    <2> SUFFICES ASSUME Init PROVE Types
      OBVIOUS
    <2>1. NoRun \in RunForms
      BY DEF NoRun, Unseen, RunForms
    <2>2. articles \in Seq(ArticleForms) /\ submissions \in Seq(Nat) /\ Len(submissions) = 0
      BY EmptySeq DEF Init
    <2>3. TypeOK
      <3>1. /\ create = NoCreate /\ publish = NoPublish /\ tokens = 0
            /\ 0 \in 0 .. tokens /\ 0 \in 0 .. Len(submissions)
        BY <2>2 DEF Init
      <3>2. create \in CreateForms /\ publish \in PublishForms
        BY <3>1 DEF CreateForms, PublishForms, NoCreate, NoPublish
      <3>3. /\ generation = 1 /\ requested = 1 /\ processed = 0 /\ bound = 0 /\ synced = 0
            /\ due \in BOOLEAN /\ leaseOwner = Nobody /\ leaseLive \in BOOLEAN /\ inflight = {}
        BY DEF Init
      <3> QED  BY <2>2, <3>2, <3>3 DEF TypeOK, ArticleForms, CreateForms, PublishForms
    <2>4. run \in [Workers -> RunForms] /\ \A w \in Workers : run[w] = NoRun
      BY <2>1 DEF Init
    <2>5. \A w \in Workers : RunInv(w)
      BY <2>4 DEF Init, RunInv, NoRun, Creating, AtArticle
    <2> QED  BY <2>2, <2>3, <2>4, <2>5 DEF Init, Types, BoundFirst
  <1>2. Types /\ [Next]_vars => Types'
    <2> SUFFICES ASSUME Types, [Next]_vars PROVE Types'
      OBVIOUS
    <2>1. CASE Save \/ UNCHANGED vars
      <3>1. /\ UNCHANGED <<processed, lease, bound, create, publish, synced, articles, inflight,
                           run, submissions, tokens>>
            /\ generation' \in {generation, generation + 1}
            /\ requested' \in {requested, requested + 1} /\ due' \in {due, TRUE}
        BY <2>1 DEF Save, vars, work, document, evidence, remote, aside, history
      <3>2. TypeOK' /\ Onward
        <4>1. due' \in BOOLEAN
          BY <3>1 DEF Types, TypeOK
        <4>2. /\ generation' \in Nat /\ requested' \in Nat /\ processed' <= requested'
              /\ generation <= generation' /\ requested <= requested'
          BY <3>1 DEF Types, TypeOK
        <4> QED  BY <3>1, <4>1, <4>2 DEF Types, TypeOK, Onward, lease
      <3>3. BoundFirst'
        BY <3>1 DEF BoundFirst, Types
      <3>4. \A v \in Workers : Holds(v)' = Holds(v)
        BY <3>1 DEF Holds, lease
      <3> QED  BY <3>1, <3>2, <3>3, <3>4, TypesOfOthers DEF Types
    <2>2. CASE \/ \E r \in inflight : Perform(r) \/ Refuse(r)
               \/ \E approve \in BOOLEAN : Review(approve)
               \/ SubmitByHand
      BY <2>2, FigshareTypes
    <2>3. CASE \E w \in Workers : RunStep(w) \/ LoseLease(w) \/ Crash(w)
      BY <2>3, BoundaryTypes, CreationTypes, ContentTypes, PublicationTypes DEF RunStep
    <2>4. CASE \E o \in Operators : AdminStep(o)
      BY <2>4, AdminTypes
    <2> QED  BY <2>1, <2>2, <2>3, <2>4 DEF Next
  <1> QED  BY <1>1, <1>2, PTL DEF Spec

(* Types, and that what the document is bound to or has submitted exists.  *)
THEOREM RemoteTypesHold == Spec => []TypeOK
  BY RemoteTypes, PTL DEF Types

=============================================================================
