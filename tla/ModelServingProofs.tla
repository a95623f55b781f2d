-------------------------- MODULE ModelServingProofs --------------------------
(***************************************************************************)
(* Every invariant of the serving model holds for any number of requests,  *)
(* workers, trainings and promotions.  The proofs are in two halves: the   *)
(* requests, about which loads change nothing, and the loads, about which  *)
(* the requests change nothing.                                            *)
(***************************************************************************)
EXTENDS ModelServing, TLAPS

Row == [model : Int, explained : Int]

\* The types without what rows and answers hold.
Types ==
  /\ served \in Nat /\ swapping \in BOOLEAN /\ raced \in BOOLEAN
  /\ cached \in Requests \cup {None}
  /\ pc \in [Requests -> Pcs]
  /\ size \in [Requests -> Nat] /\ began \in [Requests -> Nat]
  /\ got \in [Requests -> Int] /\ built \in [Requests -> Int]
  /\ holds \in [Requests -> Requests \cup {None}]
  /\ \A r \in Requests : Len(rows[r]) \in Nat

LEMMA TypesHold ==
  /\ ProviderTypeOK => Types
  /\ ProviderTypeOK' => Types'
  BY DEF ProviderTypeOK, Types

LEMMA AppendRow ==
  ASSUME NEW s \in Seq(Row), NEW e \in Row
  PROVE  /\ Append(s, e) \in Seq(Row)
         /\ Len(Append(s, e)) = Len(s) + 1
         /\ \A i \in 1..Len(Append(s, e)) :
              Append(s, e)[i] = e \/ (i \in 1..Len(s) /\ Append(s, e)[i] = s[i])
  OBVIOUS

LEMMA EmptySeq ==
  ASSUME NEW s \in Seq(Row), Len(s) = 0
  PROVE  s = <<>>
  OBVIOUS

-----------------------------------------------------------------------------
(* The requests.                                                           *)

\* What a request holds at each point of its way.
OnItsWay(r) ==
  /\ pc[r] # "idle" => began[r] <= served
  /\ swapping /\ pc[r] \notin {"idle", "done"} => began[r] < served
  /\ pc[r] \notin {"score", "done"} => rows[r] = <<>> /\ taken[r] = 0 /\ size[r] >= 1
  /\ pc[r] = "load" => kind[r] = "job"
  /\ pc[r] \notin {"bundle", "score", "done"} => holds[r] = None
  /\ pc[r] = "score" =>
       /\ taken[r] < size[r]
       /\ kind[r] # "job" => Len(rows[r]) = taken[r]
       /\ Oversized(r) => taken[r] = 0
       /\ got[r] = File \/ got[r] \in began[r]..served

\* What becomes of an explainer that is built, cached, held and used.
Fetched == {"fetch", "bundle", "score", "done"}

Explainers ==
  /\ cached # None => pc[cached] \in Fetched
  /\ \A r \in Requests : holds[r] # None => pc[holds[r]] \in Fetched
  /\ ~raced =>
       /\ \A r \in Requests : pc[r] = "store" => built[r] = served
       /\ cached # None =>
            built[cached] = served \/ (swapping /\ built[cached] = served - 1)
       /\ \A r \in Requests : holds[r] # None =>
            /\ pc[r] = "bundle" => built[holds[r]] \in began[r]..served
            /\ pc[r] = "score" /\ got[r] # File => built[holds[r]] \in began[r]..got[r]

ProviderInv ==
  /\ ProviderTypeOK
  /\ \A r \in Requests : OnItsWay(r)
  /\ Explainers
  /\ OneFreshModel
  /\ ExplainsServedModel
  /\ AnswerTellsRows

USE DEF File, Unknown, work, Oversized

LEMMA ProviderStarts == ProviderInit => ProviderInv
<1> SUFFICES ASSUME ProviderInit PROVE ProviderInv
  OBVIOUS
<1> USE NoneAssumption DEF ProviderInit
<1>1. ProviderTypeOK
  <2>1. shap \in BOOLEAN /\ backend \in {"inprocess", "redis"}
    BY DeploymentsAssumption
  <2>2. rows \in [Requests -> Seq([model : Int, explained : Int])]
    OBVIOUS
  <2>3. raced \in BOOLEAN /\ swapping \in BOOLEAN
    OBVIOUS
  <2> QED
    BY <2>1, <2>2, <2>3 DEF ProviderTypeOK, Pcs
<1>2. \A r \in Requests : OnItsWay(r)
  BY DEF OnItsWay
<1>3. Explainers
  BY DEF Explainers
<1>4. OneFreshModel /\ ExplainsServedModel /\ AnswerTellsRows
  BY DEF OneFreshModel, ExplainsServedModel, AnswerTellsRows
<1> QED
  BY <1>1, <1>2, <1>3, <1>4 DEF ProviderInv

\* A step of the swap changes no request.
LEMMA SwapKeeps == ProviderInv /\ (SwapBundle \/ DropExplainer) => ProviderInv'
<1> SUFFICES ASSUME ProviderInv, SwapBundle \/ DropExplainer PROVE ProviderInv'
  OBVIOUS
<1> USE DEF ProviderInv
<1>1. /\ pc' = pc /\ kind' = kind /\ size' = size /\ began' = began /\ got' = got
      /\ built' = built /\ holds' = holds /\ rows' = rows /\ taken' = taken /\ answer' = answer
      /\ broken' = broken /\ shap' = shap /\ backend' = backend
  BY DEF SwapBundle, DropExplainer, settings, provider, arrival, service
<1>2. /\ served \in Nat /\ served' \in Nat /\ served <= served' /\ swapping' \in BOOLEAN
      /\ cached' \in {cached, None}
      /\ swapping' => served < served' /\ served' = served + 1 /\ ~swapping /\ cached' = cached
      /\ ~swapping' => cached' = None /\ served' = served
  <2>1. CASE SwapBundle
    BY <2>1 DEF SwapBundle, ProviderTypeOK, provider
  <2>2. CASE DropExplainer
    <3>1. served' = served /\ served \in Nat /\ swapping' = FALSE /\ cached' = None
      BY <2>2 DEF DropExplainer, ProviderTypeOK
    <3>2. served <= served'
      BY <3>1
    <3> QED
      BY <3>1, <3>2, Zenon
  <2> QED
    BY <2>1, <2>2
<1>9. /\ raced' \in BOOLEAN
      /\ ~raced' => ~raced
      /\ ~raced' /\ swapping' => \A r \in Requests : pc[r] # "store"
  BY Zenon DEF SwapBundle, DropExplainer, ProviderTypeOK
<1>3. ProviderTypeOK'
  BY <1>1, <1>2, <1>9 DEF ProviderTypeOK
<1>4. \A r \in Requests : OnItsWay(r)'
  BY <1>1, <1>2 DEF OnItsWay, ProviderTypeOK
<1>5. Explainers'
  BY <1>1, <1>2, <1>9, NoneAssumption DEF Explainers, ProviderTypeOK, ExplainsServedModel
<1>6. OneFreshModel' /\ AnswerTellsRows'
  <2>1. OneFreshModel'
    <3>1. \A r \in Requests : got[r] \in began[r]..served => got[r] \in began[r]..served'
      BY <1>2 DEF ProviderTypeOK
    <3> QED
      BY <3>1, <1>1 DEF OneFreshModel
  <2>2. AnswerTellsRows'
    BY <1>1 DEF AnswerTellsRows
  <2> QED
    BY <2>1, <2>2
<1>7. ExplainsServedModel'
  BY <1>1, <1>2, <1>9 DEF ExplainsServedModel
<1> QED
  BY <1>3, <1>4, <1>5, <1>6, <1>7

\* The steps of a request before it scores write no row.
LEMMA PrepareKeeps ==
  ASSUME ProviderInv, NEW r \in Requests,
         \/ ClientArrives(r) \/ CheckCache(r) \/ BuildExplainer(r) \/ StoreExplainer(r)
         \/ FetchExplainer(r) \/ TakeBundle(r) \/ TakeFileBundle(r) \/ LoadRaises(r)
  PROVE  ProviderInv'
<1> USE DEF ProviderInv, settings, provider, arrival, service, Goto, Ends
<1>a. ProviderTypeOK /\ Types
  BY TypesHold
<1>b. \A q \in Requests : OnItsWay(q)
  OBVIOUS
<1>c. Explainers
  OBVIOUS
<1>d. OneFreshModel /\ ExplainsServedModel /\ AnswerTellsRows
  OBVIOUS
<1> HIDE DEF ProviderInv
<1>1. CASE ClientArrives(r)
  <2>1. PICK a \in Arrivals[backend] : Arrive(r, a[1], a[2])
    BY <1>1 DEF ClientArrives
  <2>2. a[1] \in {"score", "batch", "job"} /\ a[2] \in Nat \ {0}
    BY <1>a, ArrivalsAssumption DEF ProviderTypeOK
  <2>3. pc[r] = "idle" /\ ~swapping
    BY <2>1 DEF Arrive
  <2>4. ProviderTypeOK'
    BY <1>a, <2>1, <2>2 DEF Arrive, ProviderTypeOK, Pcs
  <2>5. Types'
    BY <2>4, TypesHold
  <2>6. /\ got' = got /\ built' = built /\ holds' = holds /\ rows' = rows /\ taken' = taken /\ answer' = answer
        /\ served' = served /\ swapping' = swapping /\ cached' = cached /\ raced' = raced
        /\ kind'[r] = a[1] /\ size'[r] = a[2] /\ began'[r] = served
        /\ pc'[r] \in {"check", "load", "bundle"}
        /\ pc'[r] = "load" => a[1] = "job"
        /\ \A q \in Requests \ {r} : /\ kind'[q] = kind[q] /\ size'[q] = size[q]
                                       /\ began'[q] = began[q] /\ pc'[q] = pc[q]
    BY <2>1, <1>a DEF Arrive, Types, ProviderTypeOK
  <2>7. \A q \in Requests : OnItsWay(q)'
    <3> SUFFICES ASSUME NEW q \in Requests PROVE OnItsWay(q)'
      OBVIOUS
    <3>1. CASE q = r
      <4>1. rows[r] = <<>> /\ taken[r] = 0 /\ holds[r] = None
        BY <1>b, <2>3 DEF OnItsWay
      <4>2. served \in Nat
        BY <1>a DEF Types
      <4> QED
        BY <3>1, <4>1, <4>2, <2>2, <2>3, <2>6 DEF OnItsWay
    <3>2. CASE q # r
      BY <1>b, <3>2, <2>6 DEF OnItsWay
    <3> QED
      BY <3>1, <3>2
  <2>8. Explainers'
    <3>1. holds[r] = None /\ \A q \in Requests : pc[q] \in Fetched => q # r
      BY <1>b, <2>3 DEF OnItsWay, Fetched
    <3> QED
      BY <3>1, <2>3, <2>6, <1>a, <1>c DEF Explainers, Fetched, Types
  <2>9. OneFreshModel' /\ ExplainsServedModel' /\ AnswerTellsRows'
    <3>1. rows[r] = <<>>
      BY <1>b, <2>3 DEF OnItsWay
    <3>2. OneFreshModel'
      BY <3>1, <2>6, <1>d DEF OneFreshModel
    <3>3. ExplainsServedModel'
      BY <3>1, <2>6, <1>d DEF ExplainsServedModel
    <3>4. AnswerTellsRows'
      BY <2>6, <1>d DEF AnswerTellsRows
    <3> QED
      BY <3>2, <3>3, <3>4
  <2> QED
    BY <2>4, <2>7, <2>8, <2>9 DEF ProviderInv
<1>2. CASE CheckCache(r) \/ BuildExplainer(r) \/ StoreExplainer(r) \/ FetchExplainer(r)
  <2>1. /\ kind' = kind /\ size' = size /\ began' = began /\ got' = got /\ rows' = rows /\ taken' = taken
        /\ answer' = answer /\ served' = served /\ swapping' = swapping /\ raced' = raced
        /\ broken' = broken /\ shap' = shap /\ backend' = backend
    BY <1>2 DEF CheckCache, BuildExplainer, StoreExplainer, FetchExplainer
  <2>2. /\ pc[r] \in {"check", "build", "store", "fetch"}
        /\ \/ pc[r] = "check" /\ pc' = [pc EXCEPT ![r] = IF cached = None THEN "build" ELSE "fetch"]
              /\ built' = built /\ holds' = holds /\ cached' = cached
           \/ pc[r] = "build" /\ pc' = [pc EXCEPT ![r] = "store"]
              /\ built' = [built EXCEPT ![r] = served] /\ holds' = holds /\ cached' = cached
           \/ pc[r] = "store" /\ pc' = [pc EXCEPT ![r] = "fetch"]
              /\ built' = built /\ holds' = holds /\ cached' = r
           \/ pc[r] = "fetch" /\ pc' = [pc EXCEPT ![r] = "bundle"]
              /\ built' = built /\ holds' = [holds EXCEPT ![r] = cached] /\ cached' = cached
    BY <1>2 DEF CheckCache, BuildExplainer, StoreExplainer, FetchExplainer
  <2>3. /\ pc' \in [Requests -> Pcs] /\ built' \in [Requests -> Int]
        /\ holds' \in [Requests -> Requests \cup {None}] /\ cached' \in Requests \cup {None}
    <3>1. pc' \in [Requests -> Pcs]
      BY <2>2, <1>a DEF Types, Pcs
    <3>2. built' \in [Requests -> Int]
      BY <2>2, <1>a DEF Types
    <3>3. holds' \in [Requests -> Requests \cup {None}] /\ cached' \in Requests \cup {None}
      BY <2>2, <1>a DEF Types
    <3> QED
      BY <3>1, <3>2, <3>3
  <2>4. ProviderTypeOK'
    BY <1>a, <2>1, <2>3 DEF ProviderTypeOK
  <2>5. /\ \A q \in Requests \ {r} :
             pc'[q] = pc[q] /\ built'[q] = built[q] /\ holds'[q] = holds[q]
        /\ pc'[r] \in {"build", "store", "fetch", "bundle"}
        /\ holds'[r] = holds[r] \/ pc'[r] = "bundle"
        /\ pc'[r] = "bundle" => pc[r] = "fetch"
    BY <2>2, <1>a DEF Types
  <2>6. \A q \in Requests : OnItsWay(q)'
    BY <2>1, <2>2, <2>5, <1>b DEF OnItsWay
  <2>7. Explainers'
    <3>1. CASE pc[r] = "check"
      <4>1. built' = built /\ holds' = holds /\ cached' = cached /\ pc'[r] \in {"build", "fetch"}
        BY <3>1, <2>2, <2>5, <1>a DEF Types
      <4>2. cached # r /\ \A q \in Requests : holds[q] # r
        BY <3>1, <1>a, <1>c, NoneAssumption DEF Explainers, Fetched
      <4> QED
        BY <3>1, <4>1, <4>2, <2>1, <2>5, <1>a, <1>c DEF Explainers, Types
    <3>2. CASE pc[r] = "build"
      <4>1. /\ pc'[r] = "store" /\ built'[r] = served /\ holds' = holds /\ cached' = cached
        BY <3>2, <2>2, <1>a DEF Types
      <4>2. cached # r /\ \A q \in Requests : holds[q] # r
        BY <3>2, <1>a, <1>c, NoneAssumption DEF Explainers, Fetched, Types
      <4>3. /\ cached # None => built'[cached] = built[cached] /\ pc'[cached] = pc[cached]
            /\ \A q \in Requests : holds[q] # None =>
                 built'[holds[q]] = built[holds[q]] /\ pc'[holds[q]] = pc[holds[q]]
        BY <4>2, <2>5, <1>a DEF Types
      <4> QED
        BY <3>2, <4>1, <4>3, <2>1, <2>5, <1>c DEF Explainers
    <3>3. CASE pc[r] = "store"
      BY <3>3, <2>1, <2>2, <2>5, <1>a, <1>c DEF Explainers, Fetched, Types
    <3>4. CASE pc[r] = "fetch"
      <4>1. /\ holds'[r] = cached /\ pc'[r] = "bundle" /\ built' = built /\ cached' = cached
        BY <3>4, <2>2, <1>a DEF Types
      <4>2. began[r] <= served /\ (swapping => began[r] < served)
        BY <3>4, <1>b DEF OnItsWay
      <4>3. ~raced /\ cached # None => built[cached] \in began[r]..served
        BY <4>2, <1>a, <1>c DEF Explainers, Types
      <4> QED
        BY <3>4, <4>1, <4>3, <2>1, <2>5, <1>a, <1>c DEF Explainers, Fetched, Types
    <3> QED
      BY <3>1, <3>2, <3>3, <3>4, <2>2
  <2>8. OneFreshModel' /\ AnswerTellsRows'
    BY <2>1, <2>2, <2>5, <1>d DEF OneFreshModel, AnswerTellsRows
  <2>9. ExplainsServedModel'
    BY <2>1, <2>7, <1>d DEF ExplainsServedModel, Explainers
  <2> QED
    BY <2>4, <2>6, <2>7, <2>8, <2>9 DEF ProviderInv
<1>3. CASE TakeBundle(r) \/ TakeFileBundle(r)
  <2>1. /\ kind' = kind /\ size' = size /\ began' = began /\ rows' = rows /\ taken' = taken /\ built' = built
        /\ answer' = answer /\ served' = served /\ swapping' = swapping /\ raced' = raced
        /\ cached' = cached /\ holds' = holds /\ broken' = broken /\ shap' = shap
        /\ backend' = backend
        /\ pc' = [pc EXCEPT ![r] = "score"]
        /\ \/ pc[r] = "bundle" /\ got' = [got EXCEPT ![r] = served]
           \/ pc[r] = "load" /\ got' = [got EXCEPT ![r] = File]
    BY <1>3 DEF TakeBundle, TakeFileBundle
  <2>2. pc' \in [Requests -> Pcs] /\ got' \in [Requests -> Int]
    BY <2>1, <1>a DEF Types, Pcs
  <2>3. ProviderTypeOK'
    BY <1>a, <2>1, <2>2 DEF ProviderTypeOK
  <2>4. /\ pc[r] \in {"bundle", "load"} /\ pc'[r] = "score"
        /\ \A q \in Requests \ {r} : pc'[q] = pc[q] /\ got'[q] = got[q]
        /\ pc[r] = "bundle" => got'[r] = served
        /\ pc[r] = "load" => got'[r] = File
    BY <2>1, <1>a DEF Types
  <2>5. rows[r] = <<>> /\ taken[r] = 0 /\ size[r] >= 1 /\ began[r] <= served /\ (pc[r] = "load" => holds[r] = None)
    BY <2>4, <1>b DEF OnItsWay
  <2>6. \A q \in Requests : OnItsWay(q)'
    <3>1. taken[r] < size[r] /\ Len(rows[r]) = 0 /\ (got'[r] = File \/ got'[r] \in began[r]..served)
      BY <2>4, <2>5, <1>a DEF Types
    <3> QED
      BY <3>1, <2>1, <2>4, <2>5, <1>b DEF OnItsWay
  <2>7. Explainers'
    BY <2>1, <2>4, <2>5, <1>a, <1>c DEF Explainers, Fetched, Types
  <2>8. OneFreshModel' /\ AnswerTellsRows' /\ ExplainsServedModel'
    <3>1. \A q \in Requests : \A i \in 1..Len(rows[q]) : q # r
      BY <2>5
    <3>2. OneFreshModel'
      BY <3>1, <2>1, <2>4, <1>d DEF OneFreshModel
    <3>3. ExplainsServedModel'
      BY <3>1, <2>1, <2>4, <1>d DEF ExplainsServedModel
    <3>4. AnswerTellsRows'
      BY <2>1, <2>4, <1>d DEF AnswerTellsRows
    <3> QED
      BY <3>2, <3>3, <3>4
  <2> QED
    BY <2>3, <2>6, <2>7, <2>8 DEF ProviderInv
<1>4. CASE LoadRaises(r)
  <2>1. /\ kind' = kind /\ size' = size /\ began' = began /\ rows' = rows /\ taken' = taken /\ built' = built
        /\ served' = served /\ swapping' = swapping /\ raced' = raced /\ got' = got
        /\ cached' = cached /\ holds' = holds /\ broken' = broken /\ shap' = shap
        /\ backend' = backend
        /\ pc[r] = "load" /\ pc' = [pc EXCEPT ![r] = "done"]
        /\ answer' = [answer EXCEPT ![r] = "failed"]
    BY <1>4 DEF LoadRaises
  <2>2. /\ pc' \in [Requests -> Pcs] /\ pc'[r] = "done" /\ answer'[r] = "failed"
        /\ \A q \in Requests \ {r} : pc'[q] = pc[q] /\ answer'[q] = answer[q]
    BY <2>1, <1>a DEF ProviderTypeOK, Pcs
  <2>3. ProviderTypeOK'
    BY <2>1, <2>2, <1>a DEF ProviderTypeOK
  <2>4. kind[r] = "job"
    BY <2>1, <1>b DEF OnItsWay
  <2>5. \A q \in Requests : OnItsWay(q)'
    BY <2>1, <2>2, <1>b DEF OnItsWay
  <2>6. Explainers'
    BY <2>1, <2>2, <1>a, <1>c DEF Explainers, Fetched, Types
  <2>7. OneFreshModel' /\ ExplainsServedModel'
    BY <2>1, <1>d DEF OneFreshModel, ExplainsServedModel
  <2>8. AnswerTellsRows'
    BY <2>1, <2>2, <2>4, <1>d DEF AnswerTellsRows
  <2> QED
    BY <2>3, <2>5, <2>6, <2>7, <2>8 DEF ProviderInv
<1> QED
  BY <1>1, <1>2, <1>3, <1>4

\* What _process_job or a request does with the transaction at hand, whether create
\* returns or raises: at most one row is added, of the request's bundle.
LEMMA RowKeeps ==
  ASSUME ProviderTypeOK, Explainers, OneFreshModel, ExplainsServedModel,
         NEW r \in Requests, pc[r] = "score", ~swapping,
         got[r] = File \/ got[r] \in began[r]..served,
         Insert(r, TRUE) \/ Raising(r),
         UNCHANGED <<settings, served, swapping, cached, arrival, service, raced>>
  PROVE  /\ rows' \in [Requests -> Seq(Row)] /\ broken' \subseteq Requests
         /\ Len(rows'[r]) - Len(rows[r]) \in {0, 1}
         /\ Insert(r, TRUE) => Len(rows'[r]) = Len(rows[r]) + 1
         /\ \A q \in Requests \ {r} : rows'[q] = rows[q]
         /\ OneFreshModel' /\ ExplainsServedModel'
<1> USE DEF settings, arrival, service
<1>a. Types
  BY TypesHold
<1>0. /\ got' = got /\ began' = began /\ built' = built /\ holds' = holds
      /\ served' = served /\ swapping' = swapping /\ cached' = cached /\ raced' = raced
  OBVIOUS
<1>9. Len(rows[r]) \in Nat /\ served \in Nat /\ rows[r] \in Seq(Row) /\ rows \in [Requests -> Seq(Row)]
  BY <1>a DEF Types, ProviderTypeOK, Row
<1>1. ASSUME rows' = rows, broken' \subseteq Requests, ~Insert(r, TRUE)
      PROVE  /\ rows' \in [Requests -> Seq(Row)] /\ broken' \subseteq Requests
             /\ Len(rows'[r]) - Len(rows[r]) \in {0, 1}
             /\ Insert(r, TRUE) => Len(rows'[r]) = Len(rows[r]) + 1
             /\ \A q \in Requests \ {r} : rows'[q] = rows[q]
             /\ OneFreshModel' /\ ExplainsServedModel'
  <2>1. OneFreshModel'
    BY <1>0, <1>1 DEF OneFreshModel
  <2>2. ExplainsServedModel'
    BY <1>0, <1>1 DEF ExplainsServedModel
  <2>3. Len(rows'[r]) - Len(rows[r]) \in {0, 1}
    BY <1>1, <1>9
  <2> QED
    BY <2>1, <2>2, <2>3, <1>1, <1>9
<1>2. ASSUME NEW committed \in BOOLEAN, Insert(r, committed), Insert(r, TRUE) => committed
      PROVE  /\ rows' \in [Requests -> Seq(Row)] /\ broken' \subseteq Requests
             /\ Len(rows'[r]) - Len(rows[r]) \in {0, 1}
             /\ Insert(r, TRUE) => Len(rows'[r]) = Len(rows[r]) + 1
             /\ \A q \in Requests \ {r} : rows'[q] = rows[q]
             /\ OneFreshModel' /\ ExplainsServedModel'
  <2>1. PICK by \in -1..served :
          /\ Explained(r, by)
          /\ rows' = IF committed
                       THEN [rows EXCEPT ![r] = Append(@, [model |-> got[r], explained |-> by])]
                       ELSE rows
    BY <1>2 DEF Insert
  <2> DEFINE row == [model |-> got[r], explained |-> by]
  <2>2. served \in Nat /\ row \in Row /\ rows[r] \in Seq(Row)
    BY <1>9, <2>1 DEF ProviderTypeOK, Row
  <2>3. broken' \subseteq Requests
    BY <2>1 DEF Explained, ProviderTypeOK
  <2>4. CASE ~committed
    <3>1. rows' = rows /\ ~Insert(r, TRUE)
      BY <2>1, <2>4, <1>2
    <3> QED
      BY <3>1, <2>3, <1>1
  <2>5. CASE committed
    <3>1. rows'[r] = Append(rows[r], row) /\ \A q \in Requests \ {r} : rows'[q] = rows[q]
      BY <2>1, <2>5 DEF ProviderTypeOK
    <3>2. rows' \in [Requests -> Seq(Row)]
      BY <2>1, <2>2, <2>5, AppendRow DEF ProviderTypeOK, Row
    <3>3. /\ Len(rows'[r]) = Len(rows[r]) + 1
          /\ \A i \in 1..Len(rows'[r]) :
               rows'[r][i] = row \/ (i \in 1..Len(rows[r]) /\ rows'[r][i] = rows[r][i])
      BY <3>1, <2>2, AppendRow
    <3>4. OneFreshModel'
      <4> SUFFICES ASSUME NEW q \in Requests, NEW i \in 1..Len(rows'[q])
                   PROVE  /\ rows'[q][i].model = got[q]
                          /\ got[q] # File => got[q] \in began[q]..served
        BY <1>0 DEF OneFreshModel
      <4>1. CASE q = r
        BY <4>1, <3>3 DEF OneFreshModel
      <4>2. CASE q # r
        BY <4>2, <3>1 DEF OneFreshModel
      <4> QED
        BY <4>1, <4>2
    <3>5. ~raced /\ got[r] # File => by \in began[r]..got[r]
      <4>1. by = got[r] \/ (holds[r] # None /\ by = built[holds[r]])
        BY <2>1 DEF Explained
      <4> QED
        <5>1. CASE by = got[r]
          BY <5>1, <1>a DEF Types
        <5>2. CASE by # got[r]
          BY <5>2, <4>1 DEF Explainers
        <5> QED
          BY <5>1, <5>2
    <3>6. ExplainsServedModel'
      <4> SUFFICES ASSUME ~raced, NEW q \in Requests, NEW i \in 1..Len(rows'[q]), got[q] # File
                   PROVE  rows'[q][i].explained \in began[q]..got[q]
        BY <1>0 DEF ExplainsServedModel
      <4>1. CASE q = r
        <5>1. rows'[r][i] = row => rows'[r][i].explained \in began[r]..got[r]
          BY <4>1, <3>5
        <5>2. i \in 1..Len(rows[r]) => rows[r][i].explained \in began[r]..got[r]
          BY <4>1 DEF ExplainsServedModel
        <5>3. rows'[r][i] = row \/ (i \in 1..Len(rows[r]) /\ rows'[r][i] = rows[r][i])
          BY <4>1, <3>3
        <5> QED
          BY <4>1, <5>1, <5>2, <5>3
      <4>2. CASE q # r
        BY <4>2, <3>1 DEF ExplainsServedModel
      <4> QED
        BY <4>1, <4>2
    <3>7. Len(rows'[r]) - Len(rows[r]) \in {0, 1}
      BY <3>3, <1>9
    <3> QED
      BY <2>3, <3>1, <3>2, <3>3, <3>4, <3>6, <3>7
  <2> QED
    BY <2>4, <2>5
<1>3. CASE Insert(r, TRUE)
  BY <1>2, <1>3
<1>4. CASE ~Insert(r, TRUE)
  <2>1. CASE rows' = rows /\ broken' = broken
    <3>1. broken' \subseteq Requests
      BY <2>1 DEF ProviderTypeOK
    <3> QED
      BY <2>1, <3>1, <1>1, <1>4
  <2>2. CASE \E committed \in BOOLEAN : Insert(r, committed)
    BY <2>2, <1>2, <1>4
  <2> QED
    BY <2>1, <2>2, <1>4 DEF Raising
<1> QED
  BY <1>3, <1>4

\* A transaction is scored, raises or is dead-lettered, or a batch is refused.
LEMMA ScoreKeeps ==
  ASSUME ProviderInv, NEW r \in Requests,
         ScoreTransaction(r) \/ ScoringRaises(r) \/ DeadLetter(r) \/ RefuseBatch(r)
  PROVE  /\ ProviderInv'
         /\ pc[r] = "score" /\ got' = got
         /\ pc'[r] \in {"score", "done"}
         /\ \A q \in Requests \ {r} : rows'[q] = rows[q] /\ pc'[q] = pc[q]
<1> USE DEF settings, provider, arrival, service, Goto, Ends
<1>a. ProviderTypeOK /\ Types
  BY TypesHold DEF ProviderInv
<1>b. \A q \in Requests : OnItsWay(q)
  BY DEF ProviderInv
<1>c. Explainers
  BY DEF ProviderInv
<1>d. OneFreshModel /\ ExplainsServedModel /\ AnswerTellsRows
  BY DEF ProviderInv
<1>1. /\ kind' = kind /\ size' = size /\ began' = began /\ built' = built /\ got' = got
      /\ served' = served /\ swapping' = swapping /\ raced' = raced /\ shap' = shap
      /\ backend' = backend /\ cached' = cached /\ holds' = holds
      /\ pc[r] = "score" /\ ~swapping
  BY DEF ScoreTransaction, ScoringRaises, DeadLetter, RefuseBatch, Scoring
<1>2. /\ taken[r] \in Nat /\ size[r] \in Nat /\ Len(rows[r]) \in Nat /\ taken[r] < size[r]
      /\ kind[r] # "job" => Len(rows[r]) = taken[r]
      /\ Oversized(r) => taken[r] = 0
      /\ got[r] = File \/ got[r] \in began[r]..served
  BY <1>1, <1>a, <1>b DEF OnItsWay, Types, ProviderTypeOK
<1>3. /\ rows' \in [Requests -> Seq(Row)] /\ broken' \subseteq Requests
      /\ Len(rows'[r]) - Len(rows[r]) \in {0, 1}
      /\ ScoreTransaction(r) => Len(rows'[r]) = Len(rows[r]) + 1
      /\ Oversized(r) => rows' = rows
      /\ \A q \in Requests \ {r} : rows'[q] = rows[q]
      /\ OneFreshModel' /\ ExplainsServedModel'
  <2>1. CASE UNCHANGED <<rows, broken>> /\ ~ScoreTransaction(r)
    <3>1. rows' = rows /\ broken' = broken /\ rows \in [Requests -> Seq(Row)] /\ broken \subseteq Requests
      BY <2>1, <1>a DEF ProviderTypeOK, Row
    <3>2. OneFreshModel'
      BY <3>1, <1>1, <1>d DEF OneFreshModel
    <3>3. ExplainsServedModel'
      BY <3>1, <1>1, <1>d DEF ExplainsServedModel
    <3>4. Len(rows'[r]) - Len(rows[r]) \in {0, 1}
      BY <3>1, <1>2
    <3> QED
      BY <3>1, <3>2, <3>3, <3>4, <2>1
  <2>2. CASE ScoreTransaction(r) \/ ((ScoringRaises(r) \/ DeadLetter(r)) /\ Raising(r))
    <3>1. ~Oversized(r)
      BY <2>2 DEF ScoreTransaction, ScoringRaises, DeadLetter, Scoring
    <3>2. UNCHANGED <<settings, served, swapping, cached, arrival, service, raced>>
      BY <1>1
    <3>3. Insert(r, TRUE) \/ Raising(r)
      BY <2>2 DEF ScoreTransaction
    <3>4. ScoreTransaction(r) => Insert(r, TRUE)
      BY DEF ScoreTransaction
    <3> QED
      BY <3>1, <3>2, <3>3, <3>4, <1>1, <1>2, <1>a, <1>c, <1>d, RowKeeps
  <2>3. RefuseBatch(r) => UNCHANGED <<rows, broken>> /\ ~ScoreTransaction(r)
    BY DEF RefuseBatch, ScoreTransaction, Scoring
  <2>4. ScoringRaises(r) \/ DeadLetter(r) => Raising(r) \/ UNCHANGED <<rows, broken>>
    BY DEF ScoringRaises, DeadLetter
  <2> QED
    BY <2>1, <2>2, <2>3, <2>4
\* How the transaction at hand leaves the loop.
<1>4. \/ /\ taken' = [taken EXCEPT ![r] = @ + 1]
         /\ ScoreTransaction(r) \/ kind[r] = "job"
         /\ ~Oversized(r)
         /\ \/ /\ taken'[r] = size[r] /\ pc' = [pc EXCEPT ![r] = "done"]
               /\ answer' = [answer EXCEPT ![r] = "created"]
            \/ taken'[r] # size[r] /\ pc' = pc /\ answer' = answer
      \/ /\ taken' = taken /\ pc' = [pc EXCEPT ![r] = "done"]
         /\ \/ Oversized(r) /\ answer' = [answer EXCEPT ![r] = "refused"]
            \/ ~Oversized(r) /\ \E how \in {"refused", "failed"} : answer' = [answer EXCEPT ![r] = how]
  BY DEF ScoreTransaction, ScoringRaises, DeadLetter, RefuseBatch, Scoring, NextTransaction
<1>5. /\ taken' \in [Requests -> Nat] /\ pc' \in [Requests -> Pcs]
      /\ answer' \in [Requests -> {"none", "created", "refused", "failed"}]
      /\ \A q \in Requests \ {r} : taken'[q] = taken[q] /\ answer'[q] = answer[q] /\ pc'[q] = pc[q]
      /\ pc'[r] \in {"score", "done"}
  <2>1. taken \in [Requests -> Nat] /\ pc \in [Requests -> Pcs]
        /\ answer \in [Requests -> {"none", "created", "refused", "failed"}]
    BY <1>a DEF ProviderTypeOK
  <2>2. taken' \in [Requests -> Nat] /\ \A q \in Requests \ {r} : taken'[q] = taken[q]
    BY <2>1, <1>2, <1>4
  <2>3. /\ pc' \in [Requests -> Pcs] /\ pc'[r] \in {"score", "done"}
        /\ \A q \in Requests \ {r} : pc'[q] = pc[q]
    BY <2>1, <1>1, <1>4 DEF Pcs
  <2>4. /\ answer' \in [Requests -> {"none", "created", "refused", "failed"}]
        /\ \A q \in Requests \ {r} : answer'[q] = answer[q]
    BY <2>1, <1>4
  <2> QED
    BY <2>2, <2>3, <2>4
<1>6. /\ pc'[r] = "score" =>
           /\ taken'[r] = taken[r] + 1 /\ taken'[r] < size[r] /\ ~Oversized(r)
           /\ ScoreTransaction(r) \/ kind[r] = "job"
      /\ pc'[r] = "done" =>
           \/ /\ answer'[r] = "created" /\ taken'[r] = size[r] /\ taken'[r] = taken[r] + 1
              /\ ScoreTransaction(r) \/ kind[r] = "job"
              /\ ~Oversized(r)
           \/ /\ answer'[r] # "created" /\ taken'[r] = taken[r]
              /\ Oversized(r) => answer'[r] = "refused"
  <2>1. /\ DOMAIN taken = Requests /\ DOMAIN pc = Requests /\ DOMAIN answer = Requests
        /\ taken \in [Requests -> Nat]
        /\ pc \in [Requests -> Pcs]
        /\ answer \in [Requests -> {"none", "created", "refused", "failed"}]
    BY <1>a DEF ProviderTypeOK
  <2>2. CASE taken' = taken
    <3>1. /\ pc' = [pc EXCEPT ![r] = "done"]
          /\ \/ Oversized(r) /\ answer' = [answer EXCEPT ![r] = "refused"]
             \/ /\ ~Oversized(r)
                /\ \E how \in {"refused", "failed"} : answer' = [answer EXCEPT ![r] = how]
      BY <2>1, <2>2, <1>2, <1>4
    <3> QED
      BY <3>1, <2>1, <2>2
  <2>3. CASE taken' # taken
    BY <2>1, <2>3, <1>1, <1>2, <1>4
  <2> QED
    BY <2>2, <2>3
<1>7. ProviderTypeOK'
  BY <1>a, <1>1, <1>3, <1>5 DEF ProviderTypeOK, Row
<1>8. \A q \in Requests : OnItsWay(q)'
  <2> SUFFICES ASSUME NEW q \in Requests PROVE OnItsWay(q)'
    OBVIOUS
  <2>1. CASE q = r
    BY <2>1, <1>1, <1>2, <1>3, <1>5, <1>6, <1>b DEF OnItsWay
  <2>2. CASE q # r
    BY <2>2, <1>1, <1>3, <1>5, <1>b DEF OnItsWay
  <2> QED
    BY <2>1, <2>2
<1>9. Explainers'
  BY <1>1, <1>5, <1>a, <1>c DEF Explainers, Fetched, Types
<1>10. AnswerTellsRows'
  <2> SUFFICES ASSUME NEW q \in Requests, pc'[q] = "done", kind[q] # "job"
               PROVE  /\ answer'[q] = "created" => Len(rows'[q]) = size[q]
                      /\ answer'[q] # "created" =>
                           taken'[q] < size[q] /\ Len(rows'[q]) - taken'[q] \in {0, 1}
                      /\ Oversized(q) => answer'[q] = "refused" /\ rows'[q] = <<>>
    BY <1>1 DEF AnswerTellsRows
  <2>1. CASE q = r
    <3>1. Oversized(r) => rows'[r] = <<>>
      BY <1>2, <1>3, <1>a, EmptySeq DEF ProviderTypeOK, Row
    <3> QED
      BY <3>1, <2>1, <1>2, <1>3, <1>6
  <2>2. CASE q # r
    BY <2>2, <1>1, <1>3, <1>5, <1>d DEF AnswerTellsRows
  <2> QED
    BY <2>1, <2>2
<1> QED
  BY <1>1, <1>3, <1>5, <1>7, <1>8, <1>9, <1>10 DEF ProviderInv

LEMMA ProviderStutter == ProviderInv /\ UNCHANGED providerVars => ProviderInv'
<1> SUFFICES ASSUME ProviderInv, UNCHANGED providerVars PROVE ProviderInv'
  OBVIOUS
<1> USE DEF ProviderInv, providerVars, settings, provider, arrival, service
<1>1. ProviderTypeOK'
  BY DEF ProviderTypeOK
<1>2. (\A r \in Requests : OnItsWay(r)') /\ Explainers'
  BY DEF OnItsWay, Explainers
<1>3. OneFreshModel' /\ ExplainsServedModel' /\ AnswerTellsRows'
  BY DEF OneFreshModel, ExplainsServedModel, AnswerTellsRows
<1> QED
  BY <1>1, <1>2, <1>3

-----------------------------------------------------------------------------
(* The loads.                                                              *)

\* What the files tell a load that no other training disturbs.
ReadOf(file) == IF file \in Nat THEN file ELSE Fallback

OnItsLoad(l) ==
  l \notin disturbed /\ at[l] # "idle" => \A p \in Processes : at[p] \in Training => p = l

\* How far the metadata may be from the artifact, and a load from both.
Labelled ==
  /\ artifact \in Nat => artifact = trainings
  /\ metadata \in Nat =>
       /\ metadata >= trainings - faults - 1 /\ metadata <= trainings
       /\ (\A p \in Processes : at[p] # "describe") => metadata >= trainings - faults
  /\ \A l \in Loaders :
       /\ at[l] \in {"load", "train", "reload"} \cup Training => model[l] = Fallback
       /\ model[l] \in Nat => model[l] <= trainings
       /\ l \notin disturbed /\ at[l] \in {"metadata", "ready"} /\ model[l] \in Nat =>
            model[l] = trainings
  /\ LabelsMatch

\* Without failures.
Writing == {"dumping", "describe", "describing"}

Undamaged ==
  /\ \A p \in Processes : at[p] \in {"describe", "describing"} => artifact = trainings
  /\ (\A p \in Processes : at[p] \notin Writing) => metadata \in {artifact, Missing}
  /\ \A l \in Loaders :
       at[l] \in {"load", "train", "reload"} \cup Training => model[l] = Fallback
  /\ \A l \in Loaders \ disturbed :
       /\ at[l] \in {"metadata", "ready"} => model[l] = ReadOf(artifact)
       /\ at[l] = "ready" =>
            label[l] = IF model[l] = Fallback THEN Fallback ELSE metadata

LoaderInv ==
  /\ LoaderTypeOK
  /\ \A p, q \in Processes : at[p] \in Training /\ at[q] \in Training => p = q
  /\ \A l \in Loaders : OnItsLoad(l)
  /\ Labelled
  /\ faults = 0 => Undamaged

LEMMA LoaderStarts == LoaderInit \/ LoadedInit => LoaderInv
<1> SUFFICES ASSUME LoaderInit \/ LoadedInit PROVE LoaderInv
  OBVIOUS
<1>1. /\ at \in [Processes -> {"idle", "ready"}] /\ faults = 0 /\ disturbed = {}
      /\ metadata \in {artifact, Missing}
      /\ trainIfMissing \in BOOLEAN /\ trainings \in Nat
      /\ artifact \in Nat \cup {Missing, Damaged} /\ metadata \in Nat \cup {Missing, Damaged}
      /\ model \in [Loaders -> Nat \cup {Fallback}] /\ label = model
      /\ \A l \in Loaders : at[l] = "ready" =>
           model[l] = ReadOf(artifact) /\ label[l] = metadata
  <2>1. CASE LoaderInit
    BY <2>1, ProcessesAssumption DEF LoaderInit, ReadOf, Loaders, Processes
  <2>2. CASE LoadedInit
    BY <2>2, ProcessesAssumption DEF LoadedInit, ReadOf, Loaders, Processes
  <2> QED
    BY <2>1, <2>2
<1>2. LoaderTypeOK
  BY <1>1 DEF LoaderTypeOK, Training
<1>3. \A p \in Processes : at[p] \notin Training \cup Writing \cup {"load", "train", "reload", "failed", "metadata"}
  BY <1>1 DEF Training, Writing
<1>4. \A l \in Loaders : OnItsLoad(l)
  BY <1>3 DEF OnItsLoad, Loaders, Processes
<1>5. Undamaged
  BY <1>1, <1>3 DEF Undamaged, Writing, Loaders, Processes
<1>6. Labelled
  <2>1. /\ artifact \in Nat => artifact = trainings
        /\ metadata \in Nat => metadata = trainings
        /\ \A l \in Loaders : model[l] \in Nat => at[l] = "ready" /\ model[l] = trainings
    <3>1. CASE LoaderInit
      BY <3>1, ProcessesAssumption DEF LoaderInit, Loaders, Processes
    <3>2. CASE LoadedInit
      BY <3>2, ProcessesAssumption DEF LoadedInit, Loaders, Processes
    <3> QED
      BY <3>1, <3>2
  <2>2. \A l \in Loaders : at[l] \in {"load", "train", "reload"} \cup Training => model[l] = Fallback
    BY <1>3 DEF Loaders, Processes
  <2>3. LabelsMatch
    BY <1>1, <2>1 DEF LabelsMatch
  <2> QED
    BY <1>1, <2>1, <2>2, <2>3 DEF Labelled
<1> QED
  BY <1>2, <1>3, <1>4, <1>5, <1>6 DEF LoaderInv

LEMMA LoaderTypes ==
  ASSUME LoaderTypeOK, NEW p \in Processes, LoaderStep(p) \/ BeginLoad(p)
  PROVE  LoaderTypeOK'
<1> USE DEF LoaderTypeOK, Move, Disturb, files, bundles, Training
<1>1. CASE BeginTraining(p) \/ BeginDump(p) \/ EndDump(p) \/ BeginDescribe(p)
  BY <1>1 DEF BeginTraining, BeginDump, EndDump, BeginDescribe
<1>2. CASE EndDescribe(p) \/ TrainingFails(p) \/ Dies(p)
  BY <1>2 DEF EndDescribe, TrainingFails, Dies
<1>3. CASE p \in Loaders /\ LoadArtifact(p)
  BY <1>3 DEF LoadArtifact
<1>4. CASE p \in Loaders /\ ReadMetadata(p)
  BY <1>4 DEF ReadMetadata
<1>5. CASE BeginLoad(p)
  <2>1. CASE p = Script
    BY <1>5, <2>1 DEF BeginLoad
  <2>2. CASE p # Script
    BY <1>5, <2>2 DEF BeginLoad, Loaders, Processes
  <2> QED
    BY <2>1, <2>2
<1> QED
  BY <1>1, <1>2, <1>3, <1>4, <1>5 DEF LoaderStep

\* A training disturbs the loads of all others, and takes the artifact at most one
\* training ahead of the metadata.
LEMMA TrainingLabels ==
  ASSUME LoaderInv, NEW p \in Processes,
         \/ BeginTraining(p) \/ BeginDump(p) \/ EndDump(p) \/ BeginDescribe(p) \/ EndDescribe(p)
  PROVE  Labelled'
<1> USE DEF files, bundles
<1>a. LoaderTypeOK /\ Labelled
  BY DEF LoaderInv
<1>1. /\ model' = model /\ label' = label /\ faults' = faults
      /\ disturbed' = disturbed \cup (Loaders \ {p})
  BY DEF BeginTraining, BeginDump, EndDump, BeginDescribe, EndDescribe, Disturb
<1>2. /\ \A q \in Processes \ {p} : at'[q] = at[q]
      /\ at[p] \in Training \cup {"train"}
      /\ at[p] = "train" => \A q \in Processes : at[q] \notin Training
      /\ at'[p] \in Training \cup {"idle", "reload"}
      /\ at'[p] = "idle" => p = Script
  BY <1>a DEF BeginTraining, BeginDump, EndDump, BeginDescribe, EndDescribe, Move, Training,
              LoaderTypeOK
<1>3. \A q \in Processes \ {p} : at[q] \notin Training
  BY <1>2 DEF LoaderInv
<1>4. /\ trainings \in Nat /\ faults \in Nat /\ trainings' \in {trainings, trainings + 1}
      /\ artifact' \in Nat => artifact' = trainings'
      /\ metadata' \in Nat =>
           \/ metadata' = trainings' /\ trainings' = trainings
           \/ metadata' = metadata /\ trainings' = trainings + 1 /\ at'[p] = "describe"
              /\ at[p] # "describe"
           \/ metadata' = metadata /\ trainings' = trainings /\ at[p] # "describe"
  BY <1>a, ProcessesAssumption
  DEF BeginTraining, BeginDump, EndDump, BeginDescribe, EndDescribe, Move, LoaderTypeOK, Labelled
<1>5. metadata' \in Nat =>
        /\ metadata' >= trainings' - faults' - 1 /\ metadata' <= trainings'
        /\ (\A q \in Processes : at'[q] # "describe") => metadata' >= trainings' - faults'
  <2>1. at[p] # "describe" => \A q \in Processes : at[q] # "describe"
    BY <1>3 DEF Training
  <2> QED
    BY <2>1, <1>1, <1>4, <1>a DEF Labelled
<1>6. \A l \in Loaders :
        /\ at'[l] \in {"load", "train", "reload"} \cup Training => model'[l] = Fallback
        /\ model'[l] \in Nat => model'[l] <= trainings'
        /\ l \notin disturbed' => at'[l] \notin {"metadata", "ready"}
  <2> SUFFICES ASSUME NEW l \in Loaders
               PROVE  /\ at'[l] \in {"load", "train", "reload"} \cup Training => model[l] = Fallback
                      /\ model[l] \in Nat => model[l] <= trainings'
                      /\ l \notin disturbed' => at'[l] \notin {"metadata", "ready"}
    BY <1>1
  <2>1. at'[l] \in {"load", "train", "reload"} \cup Training =>
          at[l] \in {"load", "train", "reload"} \cup Training
    BY <1>2 DEF Loaders, Processes
  <2>2. l \notin disturbed' => at'[l] \notin {"metadata", "ready"}
    BY <1>1, <1>2 DEF Training
  <2>3. model[l] \in Nat => model[l] <= trainings'
    BY <1>4, <1>a DEF Labelled
  <2> QED
    BY <2>1, <2>2, <2>3, <1>a DEF Labelled
<1>7. LabelsMatch'
  <2>1. \A l \in Loaders : at'[l] = "ready" => at[l] = "ready"
    BY <1>2 DEF Loaders, Processes, Training
  <2> SUFFICES ASSUME NEW l \in Loaders, at'[l] = "ready", model[l] \in Nat, label[l] \in Nat
               PROVE  l \in disturbed' /\ label[l] >= model[l] - faults - 1
    BY <1>1 DEF LabelsMatch
  <2> QED
    BY <2>1, <1>4, <1>6, <1>a DEF Labelled, LabelsMatch
<1> QED
  BY <1>4, <1>5, <1>6, <1>7 DEF Labelled

LEMMA TrainingKeeps ==
  ASSUME LoaderInv, NEW p \in Processes,
         \/ BeginTraining(p) \/ BeginDump(p) \/ EndDump(p) \/ BeginDescribe(p) \/ EndDescribe(p)
  PROVE  LoaderInv'
<1> USE DEF files, bundles
<1>a. LoaderTypeOK /\ LoaderTypeOK'
  BY LoaderTypes DEF LoaderInv, LoaderStep
<1>1. /\ model' = model /\ label' = label /\ faults' = faults
      /\ disturbed' = disturbed \cup (Loaders \ {p})
  BY DEF BeginTraining, BeginDump, EndDump, BeginDescribe, EndDescribe, Disturb
<1>2. /\ \A q \in Processes \ {p} : at'[q] = at[q]
      /\ at[p] \in Training \cup {"train"}
      /\ at[p] = "train" => at'[p] = "dump" /\ \A q \in Processes : at[q] \notin Training
      /\ at'[p] \in Training \cup {"idle", "reload"}
      /\ at'[p] = "idle" => p = Script
  BY <1>a DEF BeginTraining, BeginDump, EndDump, BeginDescribe, EndDescribe, Move, Training,
              LoaderTypeOK
<1>3. \A q \in Processes \ {p} : at[q] \notin Training
  BY <1>2 DEF LoaderInv
<1>4. \A q, r \in Processes : at'[q] \in Training /\ at'[r] \in Training => q = r
  BY <1>2, <1>3
<1>5. \A l \in Loaders : OnItsLoad(l)'
  <2> SUFFICES ASSUME NEW l \in Loaders, l \notin disturbed' PROVE OnItsLoad(l)'
    BY DEF OnItsLoad
  <2>1. l = p
    BY <1>1
  <2> QED
    BY <2>1, <1>2, <1>3 DEF OnItsLoad, Training
<1>6. faults' = 0 => Undamaged'
  <2> SUFFICES ASSUME faults = 0, Undamaged PROVE Undamaged'
    BY <1>1 DEF LoaderInv
  <2>1. /\ at'[p] \in {"describe", "describing"} => artifact' = trainings'
        /\ at'[p] \notin Writing =>
             \/ artifact' = artifact /\ metadata' = metadata /\ at[p] = "train"
             \/ artifact' = trainings /\ metadata' = trainings
    BY <1>a DEF BeginTraining, BeginDump, EndDump, BeginDescribe, EndDescribe, Move, Training,
                LoaderTypeOK, Undamaged, Writing
  <2>2. Writing \subseteq Training
    BY DEF Writing, Training
  <2>3. (\A q \in Processes : at'[q] \notin Writing) => metadata' \in {artifact', Missing}
    <3>1. CASE at[p] = "train"
      BY <3>1, <1>2, <1>3, <2>1, <2>2 DEF Undamaged, Writing
    <3>2. CASE at[p] # "train"
      BY <3>2, <2>1
    <3> QED
      BY <3>1, <3>2
  <2>4. \A l \in Loaders :
          at'[l] \in {"load", "train", "reload"} \cup Training => model'[l] = Fallback
    <3> SUFFICES ASSUME NEW l \in Loaders, at'[l] \in {"load", "train", "reload"} \cup Training
                 PROVE  model[l] = Fallback
      BY <1>1
    <3>1. at[l] \in {"load", "train", "reload"} \cup Training
      BY <1>2 DEF Loaders, Processes
    <3> QED
      BY <3>1 DEF Undamaged
  <2>5. \A l \in Loaders \ disturbed' : at'[l] \notin {"metadata", "ready"}
    BY <1>1, <1>2 DEF Training
  <2>6. \A q \in Processes : at'[q] \in {"describe", "describing"} => artifact' = trainings'
    BY <1>2, <1>3, <2>1 DEF Training
  <2> QED
    BY <2>3, <2>4, <2>5, <2>6 DEF Undamaged
<1>7. Labelled'
  BY TrainingLabels
<1> QED
  BY <1>a, <1>4, <1>5, <1>6, <1>7 DEF LoaderInv

\* A load reads its metadata once it has read its model; a failure lets the metadata
\* fall one training behind.
LEMMA LoadLabels ==
  ASSUME LoaderInv, NEW p \in Processes,
         \/ TrainingFails(p) \/ Dies(p) \/ BeginLoad(p)
         \/ p \in Loaders /\ (LoadArtifact(p) \/ ReadMetadata(p))
  PROVE  Labelled'
<1> USE DEF files, bundles
<1>a. LoaderTypeOK /\ Labelled
  BY DEF LoaderInv
<1>1. /\ artifact' = artifact /\ metadata' = metadata /\ trainings' = trainings
      /\ \A q \in Processes \ {p} : at'[q] = at[q] /\ (q \in disturbed' <=> q \in disturbed)
      /\ \A l \in Loaders \ {p} : model'[l] = model[l] /\ label'[l] = label[l]
      /\ at'[p] # "describe"
      /\ faults' \in {faults, faults + 1}
      /\ at[p] = "describe" => faults' = faults + 1
      /\ trainings \in Nat /\ faults \in Nat
  <2>1. CASE BeginLoad(p)
    BY <2>1, <1>a DEF BeginLoad, Move, LoaderTypeOK
  <2>2. CASE TrainingFails(p) \/ Dies(p)
    BY <2>2, <1>a DEF TrainingFails, Dies, Move, LoaderTypeOK
  <2>3. CASE p \in Loaders /\ (LoadArtifact(p) \/ ReadMetadata(p))
    BY <2>3, <1>a DEF LoadArtifact, ReadMetadata, Move, LoaderTypeOK
  <2> QED
    BY <2>1, <2>2, <2>3
<1>2. metadata' \in Nat =>
        /\ metadata' >= trainings' - faults' - 1 /\ metadata' <= trainings'
        /\ (\A q \in Processes : at'[q] # "describe") => metadata' >= trainings' - faults'
  <2> SUFFICES ASSUME metadata \in Nat
               PROVE  /\ metadata >= trainings - faults' - 1 /\ metadata <= trainings
                      /\ (\A q \in Processes : at'[q] # "describe") => metadata >= trainings - faults'
    BY <1>1
  <2>1. /\ metadata >= trainings - faults - 1 /\ metadata <= trainings
        /\ (\A q \in Processes : at[q] # "describe") => metadata >= trainings - faults
    BY <1>a DEF Labelled
  <2>4. /\ trainings \in Nat /\ faults \in Nat /\ faults' \in {faults, faults + 1}
        /\ at[p] = "describe" => faults' = faults + 1
    BY <1>1
  <2>2. CASE at[p] = "describe"
    BY <2>1, <2>2, <2>4
  <2>3. CASE at[p] # "describe"
    <3>1. (\A q \in Processes : at'[q] # "describe") => \A q \in Processes : at[q] # "describe"
      BY <2>3, <1>1
    <3>2. CASE faults' = faults
      BY <3>1, <3>2, <2>1
    <3>3. CASE faults' = faults + 1
      BY <3>1, <3>3, <2>1, <2>4
    <3> QED
      BY <3>2, <3>3, <2>4
  <2> QED
    BY <2>2, <2>3
<1>3. ASSUME p \in Loaders
      PROVE  /\ at'[p] \in {"load", "train", "reload"} \cup Training => model'[p] = Fallback
             /\ model'[p] \in Nat => model'[p] <= trainings
             /\ p \notin disturbed' /\ at'[p] \in {"metadata", "ready"} /\ model'[p] \in Nat =>
                  model'[p] = trainings
             /\ at'[p] = "ready" /\ model'[p] \in Nat /\ label'[p] \in Nat =>
                  /\ p \notin disturbed' => label'[p] >= model'[p] - faults' /\ label'[p] <= model'[p]
                  /\ p \in disturbed' => label'[p] >= model'[p] - faults' - 1
  <2> USE <1>3
  <2>0. Fallback \notin Nat /\ p # Script
    BY ProcessesAssumption DEF Loaders
  <2>8. trainings \in Nat /\ faults \in Nat
    BY <1>a DEF LoaderTypeOK
  <2>9. /\ at[p] \in {"load", "train", "reload"} \cup Training => model[p] = Fallback
        /\ model[p] \in Nat => model[p] <= trainings
        /\ artifact \in Nat => artifact = trainings
    BY <1>a DEF Labelled
  <2>1. CASE BeginLoad(p)
    <3>1. at'[p] = "load" /\ model'[p] = Fallback
      BY <2>0, <2>1, <1>a DEF BeginLoad, Move, LoaderTypeOK
    <3> QED
      BY <3>1, <2>0
  <2>2. CASE TrainingFails(p) \/ Dies(p)
    <3>1. /\ at'[p] \in {"idle", "metadata"} /\ model' = model
          /\ at'[p] = "metadata" => at[p] \in Training \cup {"train"}
      BY <2>2, <1>a DEF TrainingFails, Dies, Move, LoaderTypeOK
    <3>2. at'[p] \notin {"load", "train", "reload", "ready"} \cup Training
      BY <3>1 DEF Training
    <3> QED
      BY <3>1, <3>2, <2>0, <2>9
  <2>3. CASE LoadArtifact(p)
    <3>1. /\ model[p] = Fallback
          /\ model'[p] = model[p] \/ (model'[p] = artifact /\ artifact \in Nat /\ at'[p] = "metadata")
          /\ at'[p] \in {"train", "metadata", "failed"}
      BY <2>3, <1>a DEF LoadArtifact, Move, LoaderTypeOK, Labelled
    <3>2. at'[p] = "train" => model'[p] = Fallback
      BY <3>1, <2>3, <1>a DEF LoadArtifact, Move, LoaderTypeOK
    <3>3. at'[p] \notin {"load", "reload", "ready"} \cup Training
      BY <3>1 DEF Training
    <3> QED
      BY <3>1, <3>2, <3>3, <2>0, <2>9
  <2>4. CASE ReadMetadata(p)
    <3>1. /\ model' = model /\ disturbed' = disturbed /\ faults' = faults /\ at[p] = "metadata"
          /\ at'[p] \in {"failed", "ready"}
          /\ at'[p] = "ready" /\ label'[p] \in Nat => label'[p] = metadata /\ metadata \in Nat
      BY <2>4, <2>0, <1>a DEF ReadMetadata, Move, LoaderTypeOK
    <3>2. p \notin disturbed => \A q \in Processes : at[q] # "describe"
      BY <3>1 DEF LoaderInv, OnItsLoad, Training
    <3>3. model[p] \in Nat =>
            model[p] <= trainings /\ (p \notin disturbed => model[p] = trainings)
      BY <3>1, <1>a DEF Labelled
    <3>4. metadata \in Nat => /\ metadata >= trainings - faults - 1 /\ metadata <= trainings
                              /\ p \notin disturbed => metadata >= trainings - faults
      BY <3>2, <1>a DEF Labelled
    <3>5. at'[p] \notin {"load", "train", "reload", "metadata"} \cup Training
      BY <3>1 DEF Training
    <3>6. ASSUME model[p] \in Nat, metadata \in Nat
          PROVE  /\ p \notin disturbed => metadata >= model[p] - faults /\ metadata <= model[p]
                 /\ p \in disturbed => metadata >= model[p] - faults - 1
      <4>1. /\ metadata >= trainings - faults - 1 /\ metadata <= trainings
            /\ p \notin disturbed => metadata >= trainings - faults
        BY <3>4, <3>6
      <4>2. CASE p \notin disturbed
        BY <4>1, <4>2, <3>3, <3>6, <2>8
      <4>3. CASE p \in disturbed
        <5>1. model[p] <= trainings
          BY <3>3, <3>6
        <5> QED
          BY <4>1, <4>3, <5>1, <3>6, <2>8
      <4> QED
        BY <4>2, <4>3
    <3> QED
      BY <3>1, <3>3, <3>5, <3>6
  <2> QED
    BY <2>1, <2>2, <2>3, <2>4
<1>4. \A l \in Loaders \ {p} :
        at'[l] = at[l] /\ model'[l] = model[l] /\ label'[l] = label[l]
        /\ (l \in disturbed' <=> l \in disturbed)
  BY <1>1 DEF Loaders, Processes
<1>5. \A l \in Loaders :
        /\ at'[l] \in {"load", "train", "reload"} \cup Training => model'[l] = Fallback
        /\ model'[l] \in Nat => model'[l] <= trainings'
        /\ l \notin disturbed' /\ at'[l] \in {"metadata", "ready"} /\ model'[l] \in Nat =>
             model'[l] = trainings'
  BY <1>1, <1>3, <1>4, <1>a DEF Labelled
<1>6. LabelsMatch'
  <2> SUFFICES ASSUME NEW l \in Loaders, at'[l] = "ready", model'[l] \in Nat, label'[l] \in Nat
               PROVE  /\ l \notin disturbed' => label'[l] >= model'[l] - faults' /\ label'[l] <= model'[l]
                      /\ l \in disturbed' => label'[l] >= model'[l] - faults' - 1
    BY DEF LabelsMatch
  <2>1. CASE l = p
    BY <2>1, <1>3
  <2>2. CASE l # p
    BY <2>2, <1>1, <1>4, <1>a DEF Labelled, LabelsMatch
  <2> QED
    BY <2>1, <2>2
<1> QED
  BY <1>1, <1>2, <1>5, <1>6, <1>a DEF Labelled

\* A load moves on alone; a failure ends what is claimed without failures.
LEMMA LoadKeeps ==
  ASSUME LoaderInv, NEW p \in Processes,
         \/ TrainingFails(p) \/ Dies(p) \/ BeginLoad(p)
         \/ p \in Loaders /\ (LoadArtifact(p) \/ ReadMetadata(p))
  PROVE  LoaderInv'
<1> USE DEF files, bundles
<1>a. LoaderTypeOK /\ LoaderTypeOK'
  BY LoaderTypes DEF LoaderInv, LoaderStep
<1>b. \A l \in Loaders : OnItsLoad(l)
  BY DEF LoaderInv
<1>1. /\ artifact' = artifact /\ metadata' = metadata /\ trainings' = trainings
      /\ \A q \in Processes \ {p} : at'[q] = at[q] /\ (q \in disturbed' <=> q \in disturbed)
      /\ at'[p] \notin Training
  <2>1. CASE BeginLoad(p)
    BY <2>1, <1>a DEF BeginLoad, Move, Training, LoaderTypeOK
  <2>2. CASE TrainingFails(p) \/ Dies(p)
    BY <2>2, <1>a DEF TrainingFails, Dies, Move, Training, LoaderTypeOK
  <2>3. CASE LoadArtifact(p) \/ ReadMetadata(p)
    BY <2>3, <1>a DEF LoadArtifact, ReadMetadata, Move, Training, LoaderTypeOK
  <2> QED
    BY <2>1, <2>2, <2>3
<1>2. \A q, r \in Processes : at'[q] \in Training /\ at'[r] \in Training => q = r
  BY <1>1 DEF LoaderInv
<1>3. \A l \in Loaders : OnItsLoad(l)'
  <2> SUFFICES ASSUME NEW l \in Loaders PROVE OnItsLoad(l)'
    OBVIOUS
  <2>1. CASE l # p
    BY <2>1, <1>1, <1>b DEF OnItsLoad, Loaders, Processes
  <2>2. CASE l = p /\ BeginLoad(p)
    <3>1. /\ at'[p] = "load"
          /\ p \notin disturbed' => \A q \in Processes : at[q] \notin Training
      BY <2>2, <1>a, ProcessesAssumption DEF BeginLoad, Move, LoaderTypeOK, Loaders
    <3> QED
      BY <3>1, <2>2, <1>1 DEF OnItsLoad, Training
  <2>3. CASE l = p /\ (TrainingFails(p) \/ Dies(p))
    <3>1. at'[p] \in {"idle", "metadata"} /\ disturbed' = disturbed /\ at[p] # "idle"
      BY <2>3, <1>a DEF TrainingFails, Dies, Move, LoaderTypeOK, Training
    <3> QED
      BY <3>1, <2>3, <1>1, <1>b DEF OnItsLoad
  <2>4. CASE l = p /\ (LoadArtifact(p) \/ ReadMetadata(p))
    <3>1. disturbed' = disturbed /\ at[p] # "idle"
      BY <2>4, <1>a DEF LoadArtifact, ReadMetadata
    <3> QED
      BY <3>1, <2>4, <1>1, <1>b DEF OnItsLoad
  <2> QED
    BY <2>1, <2>2, <2>3, <2>4
<1>4. faults' = 0 => Undamaged'
  <2>1. CASE TrainingFails(p) \/ Dies(p)
    BY <2>1, <1>a DEF TrainingFails, Dies, LoaderTypeOK
  <2> SUFFICES ASSUME BeginLoad(p) \/ (p \in Loaders /\ (LoadArtifact(p) \/ ReadMetadata(p))),
                      Undamaged
               PROVE  Undamaged'
    BY <2>1 DEF LoaderInv, BeginLoad, LoadArtifact, ReadMetadata
  <2>2. at[p] \notin Writing /\ at'[p] \notin Writing
    BY <1>a DEF BeginLoad, LoadArtifact, ReadMetadata, Move, Writing, LoaderTypeOK
  <2>3. \A q \in Loaders \ {p} : model'[q] = model[q] /\ label'[q] = label[q]
    BY <1>a DEF BeginLoad, LoadArtifact, ReadMetadata, LoaderTypeOK
  <2>4. p \in Loaders =>
          /\ at'[p] \in {"load", "train", "reload"} \cup Training => model'[p] = Fallback
          /\ p \notin disturbed' =>
               /\ at'[p] \in {"metadata", "ready"} => model'[p] = ReadOf(artifact)
               /\ at'[p] = "ready" =>
                    label'[p] = IF model'[p] = Fallback THEN Fallback ELSE metadata
    <3>1. CASE BeginLoad(p)
      BY <3>1, <1>a, ProcessesAssumption DEF BeginLoad, Move, LoaderTypeOK, Loaders
    <3>2. CASE LoadArtifact(p) /\ p \in Loaders
      <4>1. model[p] = Fallback
        BY <3>2 DEF LoadArtifact, Undamaged
      <4> QED
        BY <3>2, <4>1, <1>a, <1>1, ProcessesAssumption
        DEF LoadArtifact, Move, LoaderTypeOK, ReadOf
    <3>3. CASE ReadMetadata(p) /\ p \in Loaders
      BY <3>3, <1>a DEF ReadMetadata, Move, LoaderTypeOK, Undamaged, Training
    <3> QED
      BY <3>1, <3>2, <3>3
  <2>5. (\A q \in Processes : at'[q] \notin Writing) => (\A q \in Processes : at[q] \notin Writing)
    BY <1>1, <2>2
  <2>6. \A q \in Processes : at'[q] \in {"describe", "describing"} => at[q] = at'[q]
    BY <1>1 DEF Training
  <2>7. \A l \in Loaders : l # p =>
          at'[l] = at[l] /\ (l \in disturbed' <=> l \in disturbed)
    BY <1>1 DEF Loaders, Processes
  <2> QED
    BY <1>1, <2>3, <2>4, <2>5, <2>6, <2>7 DEF Undamaged
<1>5. Labelled'
  BY LoadLabels
<1> QED
  BY <1>a, <1>2, <1>3, <1>4, <1>5 DEF LoaderInv

LEMMA LoaderStutter == LoaderInv /\ UNCHANGED loaderVars => LoaderInv'
  BY DEF LoaderInv, loaderVars, files, bundles, LoaderTypeOK, OnItsLoad, Labelled, LabelsMatch, Undamaged

-----------------------------------------------------------------------------
(* The system.                                                             *)

\* Nothing is asked before the API is up; what a worker scores with it has loaded.
Loaded ==
  \A r \in Requests :
    /\ pc[r] # "idle" => Up
    /\ rows[r] # <<>> => pc[r] # "idle"
    /\ got[r] = File => at[r] = "ready"

IInv == ProviderInv /\ LoaderInv /\ Loaded

THEOREM InductiveInvariant == Spec => []IInv
<1>1. Init => IInv
  <2> SUFFICES ASSUME Init PROVE Loaded /\ LoaderInv
    BY ProviderStarts DEF Init, IInv
  <2>1. LoaderInv
    BY LoaderStarts DEF Init
  <2>2. Loaded
    BY DEF Init, ProviderInit, Loaded
  <2> QED
    BY <2>1, <2>2
<1>2. IInv /\ [Next]_vars => IInv'
  <2> SUFFICES ASSUME IInv, [Next]_vars PROVE LoaderInv' /\ Loaded' /\ ProviderInv'
    BY DEF IInv
  <2> USE DEF IInv
  <2>a. /\ Api \in Processes /\ Script \in Processes /\ Requests \subseteq Processes
        /\ Api \notin Requests
    BY WorkersAssumption, ProcessesAssumption DEF Processes, Loaders
  <2>b. Types
    BY TypesHold DEF ProviderInv
  <2>1. CASE Load
    <3>1. PICK p \in Processes : LoaderStep(p) \/ (BeginLoad(p) /\ p \in {Api, Script})
      BY <2>1, <2>a DEF Load, LoaderNext
    <3>2. LoaderInv'
      BY <3>1, TrainingKeeps, LoadKeeps DEF LoaderStep
    <3>3. ProviderInv'
      BY <2>1, ProviderStutter DEF Load
    <3>4. \A q \in Processes : at[q] = "ready" => at'[q] = "ready"
      BY <3>1 DEF LoaderInv, LoaderTypeOK, LoaderStep, BeginTraining, BeginDump, EndDump,
                  BeginDescribe, EndDescribe, TrainingFails, Dies, LoadArtifact, ReadMetadata,
                  BeginLoad, Move, Training
    <3>5. Loaded'
      BY <2>1, <2>a, <3>4 DEF Load, Loaded, Up, providerVars, service
    <3> QED
      BY <3>2, <3>3, <3>5
  <2>2. CASE Promote \/ UNCHANGED vars
    <3>1. LoaderInv'
      BY <2>2, LoaderStutter DEF Promote, vars
    <3>2. ProviderInv'
      BY <2>2, ProviderStutter, SwapKeeps DEF Promote, vars
    <3>3. pc' = pc /\ rows' = rows /\ got' = got /\ at' = at
      BY <2>2 DEF Promote, vars, loaderVars, providerVars, service, SwapBundle, DropExplainer
    <3> QED
      BY <3>1, <3>2, <3>3 DEF Loaded, Up
  <2>3. CASE Request
    <3>1. PICK r \in Requests : ClientArrives(r) \/ RequestStep(r)
      BY <2>3 DEF Request
    <3>2. LoaderInv' /\ at' = at /\ Up
      BY <2>3, LoaderStutter DEF Request, loaderVars
    <3>3. ProviderInv'
      BY <3>1, PrepareKeeps, ScoreKeeps DEF RequestStep
    <3>4. /\ pc'[r] # "idle"
          /\ got' = got \/ got' = [got EXCEPT ![r] = served]
          /\ \A q \in Requests \ {r} : rows'[q] = rows[q] /\ pc'[q] = pc[q]
      <4>1. CASE ClientArrives(r)
        BY <4>1, <2>b DEF ClientArrives, Arrive, Goto, service, Types
      <4>2. CASE CheckCache(r) \/ BuildExplainer(r) \/ StoreExplainer(r) \/ FetchExplainer(r)
        <5>1. /\ rows' = rows /\ got' = got
              /\ \E next \in {"build", "fetch", "store", "bundle"} : pc' = [pc EXCEPT ![r] = next]
          BY <4>2 DEF CheckCache, BuildExplainer, StoreExplainer, FetchExplainer, Goto, service
        <5> QED
          BY <5>1, <2>b DEF Types
      <4>3. CASE TakeBundle(r)
        BY <4>3, <2>b DEF TakeBundle, Goto, Types
      <4>4. CASE ScoreTransaction(r) \/ ScoringRaises(r) \/ DeadLetter(r) \/ RefuseBatch(r)
        BY <4>4, ScoreKeeps
      <4> QED
        BY <3>1, <4>1, <4>2, <4>3, <4>4 DEF RequestStep
    <3>5. \A q \in Requests : got'[q] = File => got[q] = File
      <4>1. served # File
        BY <2>b DEF Types
      <4>2. \A q \in Requests : got'[q] = got[q] \/ got'[q] = served
        BY <3>4, <2>b DEF Types
      <4> QED
        BY <4>1, <4>2
    <3> QED
      BY <3>2, <3>3, <3>4, <3>5 DEF Loaded, Up
  <2>4. ASSUME NEW r \in Requests, WorkerStarts(r)
        PROVE  LoaderInv' /\ Loaded' /\ ProviderInv'
    <3>1. LoaderInv' /\ ProviderInv'
      BY <2>4, <2>a, LoadKeeps, ProviderStutter DEF WorkerStarts
    <3>2. \A q \in Processes : at[q] = "ready" => at'[q] = "ready"
      BY <2>4, <2>a DEF WorkerStarts, BeginLoad, Move, LoaderInv, LoaderTypeOK
    <3> QED
      BY <2>4, <2>a, <3>1, <3>2 DEF WorkerStarts, Loaded, Up, providerVars, service
  <2>5. ASSUME NEW r \in Requests, WorkerLoaded(r) \/ WorkerFails(r)
        PROVE  LoaderInv' /\ Loaded' /\ ProviderInv'
    <3>1. LoaderInv' /\ ProviderInv'
      BY <2>5, PrepareKeeps, LoaderStutter DEF WorkerLoaded, WorkerFails
    <3>2. /\ at' = at /\ rows' = rows /\ pc[r] = "load"
          /\ \A q \in Requests \ {r} : got'[q] = got[q] /\ pc'[q] = pc[q]
          /\ pc'[r] # "idle"
          /\ got'[r] = got[r] \/ at[r] = "ready"
      BY <2>5, <2>b DEF WorkerLoaded, WorkerFails, TakeFileBundle, LoadRaises, loaderVars, Goto,
                        Ends, service, Types
    <3> QED
      BY <3>1, <3>2 DEF Loaded, Up
  <2> QED
    BY <2>1, <2>2, <2>3, <2>4, <2>5 DEF Next
<1> QED
  BY <1>1, <1>2, PTL DEF Spec

-----------------------------------------------------------------------------
(* What a reader should know of.                                           *)

\* Every variable stays in its type.
THEOREM TypeCorrect == Spec => []TypeOK
  BY InductiveInvariant, PTL DEF IInv, ProviderInv, LoaderInv, TypeOK

\* A request or in-process job is scored by one bundle, no older than the last
\* promotion before it arrived, whatever is promoted meanwhile.
THEOREM ScoredByOneBundle == Spec => []OneFreshModel
  BY InductiveInvariant, PTL DEF IInv, ProviderInv

\* SHAP explains by a model served during the request, while no promotion has
\* come between the two halves of building an explainer.
THEOREM ExplainedByServed == Spec => []ExplainsServedModel
  BY InductiveInvariant, PTL DEF IInv, ProviderInv

\* 201 is answered only when each transaction has its row; an error leaves the rows of
\* the transactions before the one that raised, and at most that one's besides.
THEOREM AnswersTell == Spec => []AnswerTellsRows
  BY InductiveInvariant, PTL DEF IInv, ProviderInv

\* A load that no other training overlapped names the training of its model, or an
\* earlier one by no more than the failures; an overlapped one lags by at most one more.
THEOREM LabelsTell == Spec => []LabelsMatch
  BY InductiveInvariant, PTL DEF IInv, LoaderInv, Labelled

\* Unless the files changed, something failed or a model was promoted, a worker
\* scores with the model the API process serves.
THEOREM WorkersAgree == Spec => []BackendsAgree
<1>1. IInv => BackendsAgree
  <2> SUFFICES ASSUME IInv, NEW r \in Requests, rows[r] # <<>>, got[r] = File, faults = 0,
                      Api \notin disturbed, r \notin disturbed
               PROVE  model[r] = model[Api] /\ label[r] = label[Api]
    BY DEF BackendsAgree
  <2>1. at[r] = "ready" /\ at[Api] = "ready" /\ Undamaged
    BY DEF IInv, Loaded, Up, LoaderInv
  <2> QED
    BY <2>1, WorkersAssumption DEF Undamaged, Loaders
<1> QED
  BY <1>1, InductiveInvariant, PTL
================================================================================
