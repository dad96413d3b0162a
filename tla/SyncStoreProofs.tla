--------------------------- MODULE SyncStoreProofs ---------------------------
(***************************************************************************)
(* Theorems of SyncStore, for any number of callers, any number of rounds, *)
(* any lease time: the inductive invariant IndInv (a snapshot at the       *)
(* document's revision is the document), what follows from it, and that    *)
(* the store implements the atomic document of module SyncDocument.        *)
(***************************************************************************)
EXTENDS SyncStore, TLAPS

USE BoundsAssumption, ClientsAssumption, MissingAssumption

-----------------------------------------------------------------------------
(* The inductive invariant.                                                *)

\* A document still at the revision of a snapshot is that snapshot.
Fresh(c) ==
    LET snap == snapshot[c]
    IN  /\ doc # Missing /\ snap # Missing
        /\ snap.revision <= doc.revision
        /\ snap.revision = doc.revision => snap = doc
        /\ c \in Holders => snap.owner = c
        /\ snap.revision - began[c] >= rounds[c]

Contended(c) ==
    rounds[c] > 0 => doc # Missing /\ doc.revision - began[c] >= rounds[c]

StartedIsRequested ==
    IF doc = Missing
    THEN beating = {} /\ \A h \in Holders : pc[h] = "idle" /\ started[h] = {}
    ELSE \A h \in Holders : started[h] \subseteq doc.requests

IndInv ==
    /\ TypeOK
    /\ StartedIsRequested
    /\ \A c \in Clients :
          /\ Contended(c)
          /\ pc[c] = "write" => Fresh(c)
          /\ pc[c] \in {"idle", "read", "write"} => answer[c] = "open"

-----------------------------------------------------------------------------

(* A bumped document differs from its original in the revision only.       *)
LEMMA BumpedDocument ==
    ASSUME NEW d \in Documents
    PROVE  /\ Bumped(d) \in Documents /\ Bumped(d) # Missing
           /\ Bumped(d).revision = d.revision + 1
           /\ Bumped(d).brand = d.brand /\ Bumped(d).requests = d.requests
           /\ Bumped(d).handled = d.handled /\ Bumped(d).owner = d.owner
           /\ Bumped(d).until = d.until
  <1>1. d.revision \in Nat
    BY DEF Documents
  <1>2. Bumped(d) \in Documents
    BY <1>1 DEF Bumped, Documents
  <1>3. Bumped(d) # Missing
    BY <1>2
  <1>4. /\ Bumped(d).revision = d.revision + 1
        /\ Bumped(d).brand = d.brand /\ Bumped(d).requests = d.requests
        /\ Bumped(d).handled = d.handled /\ Bumped(d).owner = d.owner
        /\ Bumped(d).until = d.until
    BY DEF Bumped, Documents
  <1> QED BY <1>2, <1>3, <1>4

LEMMA InitEstablishes == Init => IndInv
  <1> SUFFICES ASSUME Init PROVE IndInv
    OBVIOUS
  <1>1. TypeOK
    BY DEF Init, TypeOK
  <1>2. StartedIsRequested
    BY DEF Init, StartedIsRequested, Holders, Clients
  <1>3. \A c \in Clients : rounds[c] = 0 /\ pc[c] # "write" /\ answer[c] = "open"
    BY DEF Init
  <1> QED BY <1>1, <1>2, <1>3 DEF IndInv, Contended

(* What a step on the lease fields does to the document: it leaves it, or  *)
(* bumps it with another lease and the same work.                          *)
Leases ==
    \/ doc' = doc
    \/ /\ doc # Missing /\ doc' # Missing /\ doc' \in Documents
       /\ doc'.revision = doc.revision + 1
       /\ doc'.requests = doc.requests /\ doc'.handled = doc.handled

(* A step on the lease fields that touches no change between its read and  *)
(* its write preserves the invariant.                                      *)
LEMMA LeaseStep ==
    ASSUME IndInv, Leases, now' \in Nat,
           rounds' = rounds, began' = began, snapshot' = snapshot,
           answer' = answer,
           pc' \in [Clients -> {"idle", "read", "write", "ended", "gone"}],
           \A c \in Clients : pc'[c] # pc[c] =>
               doc # Missing
               /\ (pc'[c] = "gone" \/ (pc[c] = "idle" /\ pc'[c] = "read")),
           doc = Missing => beating' = {},
           beat' \in [Holders -> Nat], beating' \subseteq Runs,
           started' \in [Holders -> SUBSET Clients],
           \A h \in Holders : started'[h] = started[h] \/ 
               (doc # Missing /\ started'[h] = doc.requests)
    PROVE  IndInv'
<1>1. TypeOK'
  BY DEF IndInv, TypeOK, Leases
<1>2. StartedIsRequested'
  <2>1. CASE doc = Missing
    BY <2>1 DEF IndInv, TypeOK, StartedIsRequested, Leases, Holders, Clients
  <2>2. CASE doc # Missing
    BY <2>2 DEF IndInv, TypeOK, StartedIsRequested, Leases
  <2> QED BY <2>1, <2>2
<1>3. ASSUME NEW c \in Clients PROVE Contended(c)' /\ (pc'[c] = "write" => Fresh(c)')
  <2>1. doc # Missing => doc.revision \in Nat
    BY DEF IndInv, TypeOK, Documents
  <2>2. doc' # Missing => doc'.revision \in Nat
    BY <1>1 DEF TypeOK, Documents
  <2>3. rounds[c] \in Nat /\ began[c] \in Nat
    BY DEF IndInv, TypeOK
  <2>4. Contended(c)'
    BY <2>1, <2>2, <2>3 DEF IndInv, Contended, Leases
  <2>5. ASSUME pc'[c] = "write" PROVE Fresh(c)'
    <3>1. Fresh(c)
      BY <2>5 DEF IndInv
    <3>2. snapshot[c] \in Documents /\ snapshot[c].revision \in Nat
      BY <3>1 DEF IndInv, TypeOK, Fresh, Documents
    <3> QED BY <2>1, <2>2, <2>3, <3>1, <3>2 DEF Fresh, Leases
  <2> QED BY <2>4, <2>5
<1>4. ASSUME NEW c \in Clients, pc'[c] \in {"idle", "read", "write"}
      PROVE  answer'[c] = "open"
  BY <1>4 DEF IndInv
<1> QED BY <1>1, <1>2, <1>3, <1>4 DEF IndInv

LEMMA NextPreserves ==
    ASSUME IndInv, [Next]_vars
    PROVE  IndInv'
<1>1. ASSUME NEW c \in Importers, Initialise(c) PROVE IndInv'
  <2>1. c \in Clients /\ BrandOf[c] \in {BrandOf[i] : i \in Importers}
    BY DEF Clients
  <2>2. doc' \in Documents /\ (doc # Missing => doc' = doc)
        /\ (doc = Missing => doc'.revision = 0 /\ doc'.handled = {})
    BY <1>1, <2>1 DEF Initialise, IndInv, TypeOK, Documents
  <2>3. doc' # Missing
    BY <2>2
  <2>4. TypeOK'
    BY <1>1, <2>1, <2>2, <2>3
       DEF Initialise, IndInv, TypeOK, Goto, End, Failures
  <2>5. StartedIsRequested'
    BY <1>1, <2>2, <2>3 DEF Initialise, IndInv, TypeOK, StartedIsRequested
  <2>6. ASSUME NEW k \in Clients
        PROVE  /\ Contended(k)' /\ (pc'[k] = "write" => Fresh(k)')
               /\ pc'[k] \in {"idle", "read", "write"} => answer'[k] = "open"
    <3>1. CASE doc = Missing
      <4>1. rounds[k] = 0 \/ ~(rounds[k] > 0)
        BY <3>1 DEF IndInv, Contended
      <4>2. pc[k] # "write"
        BY <3>1 DEF IndInv, Fresh
      <4> QED BY <1>1, <2>1, <4>1, <4>2
              DEF Initialise, IndInv, TypeOK, Goto, End, Contended
    <3>2. CASE doc # Missing
      BY <1>1, <2>1, <2>2, <3>2
         DEF Initialise, IndInv, TypeOK, Goto, End, Contended, Fresh
    <3> QED BY <3>1, <3>2
  <2> QED BY <2>4, <2>5, <2>6 DEF IndInv
<1>2. ASSUME NEW c \in Clients, Read(c) PROVE IndInv'
  <2>1. TypeOK'
    BY <1>2 DEF Read, IndInv, TypeOK, Goto, End, Failures, Documents
  <2>2. StartedIsRequested'
    <3>1. c \in Holders => doc # Missing
      BY <1>2 DEF Read, IndInv, StartedIsRequested
    <3>2. \A h \in Holders : h # c => pc'[h] = pc[h]
      BY <1>2 DEF Read, IndInv, TypeOK, Goto, End, Clients
    <3> QED BY <1>2, <3>1, <3>2 DEF Read, IndInv, StartedIsRequested
  <2>3. ASSUME NEW k \in Clients
        PROVE  Contended(k)' /\ (pc'[k] = "write" => Fresh(k)')
    <3>1. doc # Missing => doc.revision \in Nat
      BY DEF IndInv, TypeOK, Documents
    <3>2. rounds[k] \in Nat /\ began[k] \in Nat
      BY DEF IndInv, TypeOK
    <3>3. CASE k = c
      BY <1>2, <3>1, <3>2, <3>3
         DEF Read, IndInv, TypeOK, Goto, End, Contended, Fresh
    <3>4. CASE k # c
      <4>1. pc'[k] = pc[k] /\ rounds' = rounds /\ began'[k] = began[k]
            /\ snapshot'[k] = snapshot[k] /\ doc' = doc
        BY <1>2, <3>4 DEF Read, IndInv, TypeOK, Goto, End
      <4> QED BY <4>1 DEF IndInv, Contended, Fresh
    <3> QED BY <3>3, <3>4
  <2>4. ASSUME NEW k \in Clients, pc'[k] \in {"idle", "read", "write"}
        PROVE  answer'[k] = "open"
    BY <1>2, <2>4 DEF Read, IndInv, TypeOK, Goto, End
  <2> QED BY <2>1, <2>2, <2>3, <2>4 DEF IndInv
<1>3. ASSUME NEW c \in Clients, Write(c) PROVE IndInv'
  <2>1. Fresh(c) /\ snapshot[c] \in Documents /\ doc \in Documents
    BY <1>3 DEF Write, IndInv, TypeOK, Fresh
  <2>2. doc.revision \in Nat /\ snapshot[c].revision \in Nat
        /\ rounds[c] \in Nat /\ began[c] \in Nat
    BY <2>1 DEF Documents, IndInv, TypeOK
  <2>3. CASE Matches(c)
    <3> DEFINE d == IF c \in Runs
                    THEN [doc EXCEPT !.handled = @ \cup started[c]]
                    ELSE [doc EXCEPT !.requests = @ \cup {c}]
    <3>1. d \in Documents /\ d.revision = doc.revision
          /\ doc.requests \subseteq d.requests /\ d.handled \subseteq d.requests
      BY <2>1 DEF Documents, IndInv, TypeOK, StartedIsRequested, Holders
    <3>2. doc' = Bumped(d) /\ rounds' = rounds
      BY <1>3, <2>1, <2>2, <2>3 DEF Write, Matches, Changed, Fresh
    <3> HIDE DEF d
    <3>3. doc' \in Documents /\ doc' # Missing
          /\ doc'.revision = doc.revision + 1
          /\ doc.requests \subseteq doc'.requests
          /\ doc'.handled \subseteq doc'.requests
      BY <3>1, <3>2, BumpedDocument
    <3>4. TypeOK'
      BY <1>3, <2>3, <3>2, <3>3 DEF Write, IndInv, TypeOK, End, Failures
    <3>5. StartedIsRequested'
      BY <1>3, <2>1, <2>3, <3>3 DEF Write, IndInv, TypeOK, StartedIsRequested, Fresh
    <3>6. ASSUME NEW k \in Clients
          PROVE  /\ Contended(k)' /\ (pc'[k] = "write" => Fresh(k)')
                 /\ pc'[k] \in {"idle", "read", "write"} => answer'[k] = "open"
      <4>1. rounds[k] \in Nat /\ began[k] \in Nat
        BY DEF IndInv, TypeOK
      <4>2. Contended(k)'
        BY <1>3, <2>2, <3>2, <3>3, <4>1 DEF Write, IndInv, Contended
      <4>3. k = c => pc'[k] = "ended"
        BY <1>3, <2>3 DEF Write, End, IndInv, TypeOK
      <4>4. k # c => pc'[k] = pc[k] /\ answer'[k] = answer[k]
                     /\ snapshot'[k] = snapshot[k] /\ began'[k] = began[k]
        BY <1>3, <2>3 DEF Write, End, IndInv, TypeOK
      <4>5. ASSUME pc'[k] = "write" PROVE Fresh(k)'
        <5>1. Fresh(k) /\ k # c
          BY <4>3, <4>4, <4>5 DEF IndInv
        <5>2. snapshot[k].revision \in Nat
          BY <5>1 DEF IndInv, TypeOK, Fresh, Documents
        <5> QED BY <2>2, <3>2, <3>3, <4>1, <4>4, <5>1, <5>2 DEF Fresh
      <4> QED BY <4>2, <4>3, <4>4, <4>5 DEF IndInv
    <3> QED BY <3>4, <3>5, <3>6 DEF IndInv
  <2>4. CASE ~Matches(c)
    <3>1. doc' = doc /\ rounds' = [rounds EXCEPT ![c] = @ + 1]
          /\ doc.revision > snapshot[c].revision
      BY <1>3, <2>1, <2>2, <2>4 DEF Write, Matches, Fresh
    <3>2. TypeOK'
      BY <1>3, <2>2, <2>4, <3>1
         DEF Write, IndInv, TypeOK, Goto, End, Failures
    <3>3. StartedIsRequested'
      BY <1>3, <2>1, <3>1 DEF Write, IndInv, StartedIsRequested, Fresh
    <3>4. ASSUME NEW k \in Clients
          PROVE  /\ Contended(k)' /\ (pc'[k] = "write" => Fresh(k)')
                 /\ pc'[k] \in {"idle", "read", "write"} => answer'[k] = "open"
      <4>1. CASE k = c
        <5>1. Contended(c)'
          BY <1>3, <2>1, <2>2, <3>1 DEF Write, IndInv, TypeOK, Contended, Fresh
        <5>2. pc'[c] \in {"read", "ended"}
              /\ (pc'[c] = "read" => answer'[c] = "open")
          BY <1>3, <2>4 DEF Write, IndInv, TypeOK, Goto, End
        <5> QED BY <4>1, <5>1, <5>2
      <4>2. CASE k # c
        <5>1. pc'[k] = pc[k] /\ answer'[k] = answer[k] /\ rounds'[k] = rounds[k]
              /\ snapshot'[k] = snapshot[k] /\ began'[k] = began[k]
          BY <1>3, <2>4, <3>1, <4>2 DEF Write, IndInv, TypeOK, Goto, End
        <5> QED BY <3>1, <5>1 DEF IndInv, Contended, Fresh
      <4> QED BY <4>1, <4>2
    <3> QED BY <3>2, <3>3, <3>4 DEF IndInv
  <2> QED BY <2>3, <2>4
<1>4. ASSUME NEW h \in Holders, Claim(h) PROVE IndInv'
  <2> DEFINE d == [doc EXCEPT !.owner = h, !.until = now + LeaseTime]
  <2>1. doc # Missing /\ doc \in Documents /\ now \in Nat
    BY <1>4 DEF Claim, IndInv, TypeOK
  <2>2. d \in Documents /\ d.revision = doc.revision
        /\ d.requests = doc.requests /\ d.handled = doc.handled
    <3> DEFINE t == now + LeaseTime
    <3>1. t \in Nat
      BY <2>1
    <3> HIDE DEF t
    <3>2. [doc EXCEPT !.owner = h, !.until = t] \in Documents
      BY <2>1, <3>1 DEF Documents
    <3>3. d \in Documents
      BY <3>2 DEF t
    <3> QED BY <2>1, <3>3 DEF Documents
  <2>3. doc' = Bumped(d)
    BY <1>4 DEF Claim
  <2> HIDE DEF d
  <2>4. Leases
    BY <2>1, <2>2, <2>3, BumpedDocument DEF Leases
  <2>5. doc.requests \in SUBSET Clients
    BY <2>1 DEF Documents
  <2> QED BY <1>4, <2>1, <2>4, <2>5, LeaseStep
          DEF Claim, Goto, IndInv, TypeOK, Clients
<1>5. ASSUME NEW h \in Holders, Release(h) PROVE IndInv'
  <2> DEFINE d == [doc EXCEPT !.owner = Nobody, !.until = 0]
  <2>1. doc # Missing /\ doc \in Documents /\ h \in Clients
    BY <1>5 DEF Release, IndInv, TypeOK, StartedIsRequested, Clients
  <2>2. d \in Documents /\ d.revision = doc.revision
        /\ d.requests = doc.requests /\ d.handled = doc.handled
    BY <2>1 DEF Documents
  <2>3. doc' = doc \/ doc' = Bumped(d)
    BY <1>5 DEF Release
  <2> HIDE DEF d
  <2>4. Leases
    BY <2>1, <2>2, <2>3, BumpedDocument DEF Leases
  <2>5. pc' \in [Clients -> {"idle", "read", "write", "ended", "gone"}]
    BY <1>5, <2>1 DEF Release, Goto, IndInv, TypeOK
  <2>6. \A c \in Clients : pc'[c] # pc[c] =>
          doc # Missing /\ (pc'[c] = "gone" \/ (pc[c] = "idle" /\ pc'[c] = "read"))
    <3>1. pc' = [pc EXCEPT ![h] = "gone"]
      BY <1>5 DEF Release, Goto
    <3>2. pc \in [Clients -> {"idle", "read", "write", "ended", "gone"}]
      BY DEF IndInv, TypeOK
    <3> QED BY <2>1, <3>1, <3>2
  <2>7. now' \in Nat /\ rounds' = rounds /\ began' = began
        /\ snapshot' = snapshot /\ answer' = answer
        /\ beat' \in [Holders -> Nat] /\ beating' \subseteq Runs
        /\ started' = started /\ started' \in [Holders -> SUBSET Clients]
    BY <1>5 DEF Release, IndInv, TypeOK
  <2> QED BY <2>1, <2>4, <2>5, <2>6, <2>7, LeaseStep
<1>6. ASSUME NEW h \in Holders, Stop(h) PROVE IndInv'
  <2>1. doc # Missing /\ h \in Clients
    BY <1>6 DEF Stop, IndInv, TypeOK, StartedIsRequested, Clients
  <2>2. Leases /\ beating' \subseteq Runs
    BY <1>6 DEF Stop, Leases, IndInv, TypeOK
  <2>3. pc' \in [Clients -> {"idle", "read", "write", "ended", "gone"}]
    BY <1>6, <2>1 DEF Stop, Goto, IndInv, TypeOK
  <2>4. \A c \in Clients : pc'[c] # pc[c] =>
          doc # Missing /\ (pc'[c] = "gone" \/ (pc[c] = "idle" /\ pc'[c] = "read"))
    <3>1. pc' = [pc EXCEPT ![h] = "gone"]
      BY <1>6 DEF Stop, Goto
    <3>2. pc \in [Clients -> {"idle", "read", "write", "ended", "gone"}]
      BY DEF IndInv, TypeOK
    <3> QED BY <2>1, <3>1, <3>2
  <2>5. now' \in Nat /\ rounds' = rounds /\ began' = began
        /\ snapshot' = snapshot /\ answer' = answer
        /\ beat' \in [Holders -> Nat]
        /\ started' = started /\ started' \in [Holders -> SUBSET Clients]
    BY <1>6 DEF Stop, IndInv, TypeOK
  <2> QED BY <2>1, <2>2, <2>3, <2>4, <2>5, LeaseStep
<1>7. ASSUME NEW r \in Runs, SendRenew(r) PROVE IndInv'
  <2>1. doc # Missing
    BY <1>7 DEF SendRenew, IndInv, TypeOK, StartedIsRequested, Holders
  <2>2. beating' \subseteq Runs /\ beat' \in [Holders -> Nat] /\ Leases
    BY <1>7 DEF SendRenew, IndInv, TypeOK, Leases
  <2> QED BY <1>7, <2>1, <2>2, LeaseStep DEF SendRenew, IndInv, TypeOK
<1>8. ASSUME NEW r \in Runs, Renew(r) PROVE IndInv'
  <2> DEFINE d == [doc EXCEPT !.until = beat[r] + LeaseTime]
  <2>1. doc # Missing /\ doc \in Documents /\ beat[r] \in Nat
    BY <1>8 DEF Renew, IndInv, TypeOK, StartedIsRequested, Holders
  <2>2. d \in Documents /\ d.revision = doc.revision
        /\ d.requests = doc.requests /\ d.handled = doc.handled
    BY <2>1 DEF Documents
  <2>3. doc' = doc \/ doc' = Bumped(d)
    BY <1>8 DEF Renew
  <2> HIDE DEF d
  <2>4. Leases
    BY <2>1, <2>2, <2>3, BumpedDocument DEF Leases
  <2> QED BY <1>8, <2>1, <2>4, LeaseStep DEF Renew, IndInv, TypeOK
<1>9. ASSUME DispatchClaim PROVE IndInv'
  <2> DEFINE d == [doc EXCEPT !.dispatchUntil = now + LeaseTime]
  <2>1. doc # Missing /\ doc \in Documents /\ now \in Nat
    BY <1>9 DEF DispatchClaim, IndInv, TypeOK
  <2>2. d \in Documents /\ d.revision = doc.revision
        /\ d.requests = doc.requests /\ d.handled = doc.handled
    BY <2>1 DEF Documents
  <2>3. doc' = Bumped(d)
    BY <1>9 DEF DispatchClaim
  <2> HIDE DEF d
  <2>4. Leases
    BY <2>1, <2>2, <2>3, BumpedDocument DEF Leases
  <2> QED BY <1>9, <2>1, <2>4, LeaseStep DEF DispatchClaim, IndInv, TypeOK
<1>10. ASSUME Tick PROVE IndInv'
  BY <1>10, LeaseStep DEF Tick, IndInv, TypeOK, StartedIsRequested, Leases
<1>11. CASE UNCHANGED vars
  BY <1>11, LeaseStep DEF vars, IndInv, TypeOK, StartedIsRequested, Leases
<1> QED BY <1>1, <1>2, <1>3, <1>4, <1>5, <1>6, <1>7, <1>8, <1>9, <1>10, <1>11
        DEF Next

(* Types are preserved; contention is real, for any number of rounds.      *)
THEOREM TypeCorrect == Spec => []TypeOK
  <1>1. IndInv => TypeOK
    BY DEF IndInv
  <1> QED BY <1>1, InitEstablishes, NextPreserves, PTL DEF Spec

THEOREM ContentionIsAlwaysReal == Spec => []ContentionIsReal
  <1>1. IndInv => ContentionIsReal
    BY DEF IndInv, Contended, ContentionIsReal
  <1> QED BY <1>1, InitEstablishes, NextPreserves, PTL DEF Spec

-----------------------------------------------------------------------------
(* The refinement.  Only a matching Write and the lease updates change the *)
(* abstract document; everything else is a stutter, a failure or a lapse.  *)

LEMMA InitRefines == Init => Promise!Init
  BY DEF Init, Promise!Init, Promise!Holders, Promise!Clients, Holders, Clients

LEMMA Viewed ==
    ASSUME NEW d \in Documents
    PROVE  d # Missing /\ View(d) # Missing
  <1>1. View(d) \in Views
    BY DEF View, Views, Documents
  <1> QED BY <1>1

LEMMA NextRefines ==
    ASSUME IndInv, IndInv', [Next]_vars
    PROVE  [Promise!Next]_(Promise!vars)
<1> DEFINE Quiet == doc' = doc /\ now' = now /\ started' = started
<1>0. ASSUME Quiet, answer' = answer PROVE UNCHANGED Promise!vars
  BY <1>0 DEF Promise!vars
<1>1. ASSUME NEW c \in Clients, Quiet, answer[c] = "open", NEW f \in Failures,
             answer' = [answer EXCEPT ![c] = f]
      PROVE  Promise!Next
  BY <1>1 DEF Promise!Next, Promise!Fail, Promise!Answer, Promise!Failures,
              Failures, Promise!Clients, Promise!Holders, Clients, Holders
<1>2. ASSUME NEW c \in Importers, Initialise(c)
      PROVE  [Promise!Next]_(Promise!vars)
  <2>1. CASE doc = Missing
    <3> DEFINE d == [brand |-> BrandOf[c], requests |-> {}, handled |-> {},
                     owner |-> Nobody, until |-> 0, dispatchUntil |-> 0,
                     revision |-> 0]
    <3>1. doc' = d /\ UNCHANGED <<now, started, answer>>
      BY <1>2, <2>1 DEF Initialise
    <3>2. d \in Documents
      BY DEF Documents
    <3>3. doc' # Missing /\ now' \in Nat
      BY <3>1, <3>2 DEF IndInv, TypeOK
    <3>4. View(doc') = [brand |-> BrandOf[c], requests |-> {}, handled |-> {},
                        owner |-> Nobody] /\ doc'.until = 0
      BY <3>1 DEF View
    <3>5. Promise!Create(c)
      BY <2>1, <3>1, <3>3, <3>4 DEF Promise!Create
    <3> QED BY <3>5 DEF Promise!Next
  <2>2. CASE doc # Missing
    <3>1. c \in Clients /\ Quiet /\ answer[c] = "open"
      BY <1>2, <2>2 DEF Initialise, IndInv, Clients
    <3>2. answer' = answer \/ answer' = [answer EXCEPT ![c] = "brand"]
      BY <1>2 DEF Initialise, End
    <3> QED BY <1>0, <1>1, <3>1, <3>2 DEF Failures
  <2> QED BY <2>1, <2>2
<1>3. ASSUME NEW c \in Clients, Read(c)
      PROVE  [Promise!Next]_(Promise!vars)
  <2>1. Quiet /\ answer[c] = "open"
    BY <1>3 DEF Read, IndInv
  <2>2. answer' = answer \/ \E f \in Failures : answer' = [answer EXCEPT ![c] = f]
    BY <1>3 DEF Read, End, Goto, Failures
  <2> QED BY <1>0, <1>1, <2>1, <2>2
<1>4. ASSUME NEW c \in Clients, Write(c)
      PROVE  [Promise!Next]_(Promise!vars)
  <2>1. Fresh(c) /\ snapshot[c] \in Documents /\ doc \in Documents
        /\ answer[c] = "open" /\ now' = now /\ started' = started
    BY <1>4 DEF Write, IndInv, TypeOK, Fresh
  <2>2. CASE ~Matches(c)
    <3>1. Quiet
      BY <1>4, <2>2 DEF Write
    <3>2. answer' = answer \/ answer' = [answer EXCEPT ![c] = "contended"]
      BY <1>4, <2>2 DEF Write, End, Goto
    <3> QED BY <1>0, <1>1, <2>1, <3>1, <3>2 DEF Failures
  <2>3. CASE Matches(c)
    <3>1. doc' = Changed(c) /\ answer' = [answer EXCEPT ![c] = "done"]
          /\ snapshot[c] = doc /\ (c \in Holders => doc.owner = c)
      BY <1>4, <2>1, <2>3 DEF Write, End, Matches, Fresh
    <3>2. CASE c \in Runs
      <4> DEFINE d == [doc EXCEPT !.handled = @ \cup started[c]]
      <4>1. d \in Documents /\ d.requests = doc.requests /\ d.owner = doc.owner
            /\ d.handled = doc.handled \cup started[c] /\ d.brand = doc.brand
            /\ d.until = doc.until
        BY <2>1, <3>2 DEF Documents, IndInv, TypeOK, Holders
      <4>2. doc' = Bumped(d)
        BY <3>1, <3>2 DEF Changed
      <4> HIDE DEF d
      <4>3. doc' # Missing /\ doc'.requests = doc.requests
            /\ doc'.owner = doc.owner /\ doc'.brand = doc.brand
            /\ doc'.handled = doc.handled \cup started[c]
            /\ doc'.until = doc.until
        BY <4>1, <4>2, BumpedDocument
      <4>4. View(doc') = [View(doc) EXCEPT !.handled = @ \cup started[c]]
            /\ View(doc).owner = c /\ View(doc) # Missing
        <5>1. View(doc') = [View(doc) EXCEPT !.handled = @ \cup started[c]]
          BY <4>3 DEF View
        <5> QED BY <2>1, <3>1, <3>2, <5>1, Viewed DEF View, Holders
      <4>5. Promise!Finish(c)
        BY <2>1, <3>1, <4>3, <4>4, Viewed DEF Promise!Finish, Promise!Answer
      <4> QED BY <3>2, <4>5 DEF Promise!Next
    <3>3. CASE c \notin Runs
      <4> DEFINE d == [doc EXCEPT !.requests = @ \cup {c}]
      <4>1. d \in Documents /\ d.requests = doc.requests \cup {c}
            /\ d.owner = doc.owner /\ d.handled = doc.handled
            /\ d.brand = doc.brand /\ d.until = doc.until
        BY <2>1, <3>3 DEF Documents
      <4>2. doc' = Bumped(d)
        BY <3>1, <3>3 DEF Changed
      <4> HIDE DEF d
      <4>3. doc' # Missing /\ doc'.requests = doc.requests \cup {c}
            /\ doc'.owner = doc.owner /\ doc'.brand = doc.brand
            /\ doc'.handled = doc.handled /\ doc'.until = doc.until
        BY <4>1, <4>2, BumpedDocument
      <4>4. View(doc') = [View(doc) EXCEPT !.requests = @ \cup {c}]
            /\ (c \in Holders => View(doc).owner = c) /\ View(doc) # Missing
        <5>1. View(doc') = [View(doc) EXCEPT !.requests = @ \cup {c}]
          BY <4>3 DEF View
        <5>2. c \in Holders => View(doc).owner = c
          BY <3>1 DEF View
        <5> QED BY <2>1, <5>1, <5>2, Viewed
      <4>5. Promise!Request(c)
        BY <2>1, <3>1, <4>3, <4>4, Viewed
           DEF Promise!Request, Promise!Answer, Holders
      <4> QED BY <3>3, <4>5 DEF Promise!Next, Clients, Holders
    <3> QED BY <3>2, <3>3
  <2> QED BY <2>2, <2>3
<1>5. ASSUME NEW h \in Holders, Claim(h)
      PROVE  [Promise!Next]_(Promise!vars)
  <2> DEFINE d == [doc EXCEPT !.owner = h, !.until = now + LeaseTime]
  <2>1. doc # Missing /\ doc \in Documents /\ now \in Nat /\ now' = now
    BY <1>5 DEF Claim, IndInv, TypeOK
  <2>2. d \in Documents /\ d.brand = doc.brand /\ d.requests = doc.requests
        /\ d.handled = doc.handled /\ d.owner = h /\ d.until = now + LeaseTime
    <3> DEFINE t == now + LeaseTime
    <3>1. t \in Nat
      BY <2>1
    <3> HIDE DEF t
    <3>2. [doc EXCEPT !.owner = h, !.until = t] \in Documents
      BY <2>1, <3>1 DEF Documents
    <3>3. d \in Documents
      BY <3>2 DEF t
    <3> QED BY <2>1, <3>3 DEF Documents
  <2>3. doc' = Bumped(d)
    BY <1>5 DEF Claim
  <2> HIDE DEF d
  <2>4. doc' # Missing /\ doc'.until = now + LeaseTime /\ ~(doc'.until <= now)
    BY <2>1, <2>2, <2>3, BumpedDocument
  <2>5. View(doc') = [View(doc) EXCEPT !.owner = h]
    BY <2>2, <2>3, BumpedDocument DEF View
  <2>6. View(doc).requests = doc.requests /\ View(doc).handled = doc.handled
    BY DEF View
  <2>7. Promise!Take(h)
    BY <1>5, <2>1, <2>4, <2>5, <2>6, Viewed
       DEF Claim, Due, Promise!Take, Promise!Due
  <2> QED BY <2>7 DEF Promise!Next, Promise!Holders, Holders
<1>6. ASSUME NEW h \in Holders, Release(h)
      PROVE  [Promise!Next]_(Promise!vars)
  <2> DEFINE d == [doc EXCEPT !.owner = Nobody, !.until = 0]
  <2>1. doc # Missing /\ doc \in Documents /\ now \in Nat
        /\ UNCHANGED <<now, started, answer>>
    BY <1>6 DEF Release, IndInv, TypeOK, StartedIsRequested
  <2>2. CASE doc.owner # h
    BY <1>0, <1>6, <2>1, <2>2 DEF Release
  <2>3. CASE doc.owner = h
    <3>1. d \in Documents /\ d.brand = doc.brand /\ d.requests = doc.requests
          /\ d.handled = doc.handled /\ d.owner = Nobody /\ d.until = 0
      BY <2>1 DEF Documents
    <3>2. doc' = Bumped(d)
      BY <1>6, <2>3 DEF Release
    <3> HIDE DEF d
    <3>3. doc' # Missing /\ doc'.until = 0
      BY <3>1, <3>2, BumpedDocument
    <3>4. View(doc') = [View(doc) EXCEPT !.owner = Nobody]
      BY <3>1, <3>2, BumpedDocument DEF View
    <3>5. View(doc).owner = h
      BY <2>3 DEF View
    <3>6. Promise!Release(h)
      BY <2>1, <3>3, <3>4, <3>5, Viewed DEF Promise!Release
    <3> QED BY <3>6 DEF Promise!Next, Promise!Holders, Holders
  <2> QED BY <2>2, <2>3
<1>7. ASSUME NEW r \in Runs, Renew(r)
      PROVE  [Promise!Next]_(Promise!vars)
  <2> DEFINE d == [doc EXCEPT !.until = beat[r] + LeaseTime]
  <2>1. doc # Missing /\ doc \in Documents /\ beat[r] \in Nat
        /\ UNCHANGED <<now, started, answer>>
    BY <1>7 DEF Renew, IndInv, TypeOK, StartedIsRequested, Holders
  <2>2. CASE doc' = doc
    BY <1>0, <2>1, <2>2
  <2>3. CASE doc' # doc
    <3>1. d \in Documents /\ d.brand = doc.brand /\ d.requests = doc.requests
          /\ d.handled = doc.handled /\ d.owner = doc.owner
      BY <2>1 DEF Documents
    <3>2. doc' = Bumped(d) /\ doc.owner = r
      BY <1>7, <2>3 DEF Renew
    <3> HIDE DEF d
    <3>3. doc' # Missing /\ View(doc') = View(doc) /\ View(doc).owner = r
      BY <3>1, <3>2, BumpedDocument DEF View
    <3>4. CASE doc'.until <= now'
      <4>1. CASE doc.until <= now
        BY <2>1, <3>3, <3>4, <4>1 DEF Promise!vars
      <4>2. CASE ~(doc.until <= now)
        <5>1. Promise!Lapse
          BY <2>1, <3>3, <3>4, <4>2 DEF Promise!Lapse
        <5> QED BY <5>1 DEF Promise!Next
      <4> QED BY <4>1, <4>2
    <3>5. CASE ~(doc'.until <= now')
      <4>1. Promise!Prolong(r)
        BY <2>1, <3>3, <3>5, Viewed DEF Promise!Prolong
      <4> QED BY <4>1 DEF Promise!Next, Promise!Holders
    <3> QED BY <3>4, <3>5
  <2> QED BY <2>2, <2>3
<1>8. ASSUME DispatchClaim
      PROVE  [Promise!Next]_(Promise!vars)
  <2> DEFINE d == [doc EXCEPT !.dispatchUntil = now + LeaseTime]
  <2>1. doc # Missing /\ doc \in Documents /\ now \in Nat
        /\ UNCHANGED <<now, started, answer>>
    BY <1>8 DEF DispatchClaim, IndInv, TypeOK
  <2>2. d \in Documents /\ d.brand = doc.brand /\ d.requests = doc.requests
        /\ d.handled = doc.handled /\ d.owner = doc.owner /\ d.until = doc.until
    BY <2>1 DEF Documents
  <2>3. doc' = Bumped(d)
    BY <1>8 DEF DispatchClaim
  <2> HIDE DEF d
  <2>4. doc' # Missing /\ View(doc') = View(doc) /\ doc'.until = doc.until
    BY <2>2, <2>3, BumpedDocument DEF View
  <2> QED BY <2>1, <2>4 DEF Promise!vars
<1>9. ASSUME Tick
      PROVE  [Promise!Next]_(Promise!vars)
  <2>1. UNCHANGED <<doc, started, answer>> /\ now' = now + 1 /\ now \in Nat
        /\ (doc # Missing => doc.until \in Nat)
    BY <1>9 DEF Tick, IndInv, TypeOK, Documents
  <2>2. CASE doc = Missing \/ doc.until <= now \/ ~(doc.until <= now')
    BY <2>1, <2>2 DEF Promise!vars
  <2>3. CASE doc # Missing /\ ~(doc.until <= now) /\ doc.until <= now'
    <3>1. Promise!Lapse
      BY <2>1, <2>3 DEF Promise!Lapse
    <3> QED BY <3>1 DEF Promise!Next
  <2> QED BY <2>2, <2>3
<1>10. ASSUME NEW h \in Holders, Stop(h) PROVE UNCHANGED Promise!vars
  BY <1>0, <1>10 DEF Stop
<1>11. ASSUME NEW r \in Runs, SendRenew(r) PROVE UNCHANGED Promise!vars
  BY <1>0, <1>11 DEF SendRenew
<1>12. CASE UNCHANGED vars
  BY <1>0, <1>12 DEF vars
<1> QED BY <1>2, <1>3, <1>4, <1>5, <1>6, <1>7, <1>8, <1>9, <1>10, <1>11, <1>12
        DEF Next

(* The store implements the atomic document, for every number of callers,  *)
(* rounds and lease times: no update is lost or applied twice, a failed    *)
(* call leaves no trace, a replaced holder changes nothing.                *)
THEOREM StoreImplementsDocument == Spec => ImplementsDocument
  <1>1. IndInv /\ IndInv' /\ [Next]_vars => [Promise!Next]_(Promise!vars)
    BY NextRefines
  <1> QED BY <1>1, InitEstablishes, NextPreserves, InitRefines, PTL
          DEF Spec, ImplementsDocument, Promise!Spec
=============================================================================
