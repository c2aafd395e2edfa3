------------------------ MODULE WarmPoolSafetyProofs ------------------------
(* The safety properties of WarmPool, for every value of its constants.    *)
EXTENDS WarmPoolInv, WarmPoolProofs

\* The initial state satisfies the invariant.
LEMMA InvInit == Init => IInv
<1> SUFFICES ASSUME Init PROVE IInv
  OBVIOUS
<1>1. TypeOK
  BY TypeInit
<1>2. \A p \in Pods : ~Exists(p) /\ handed[p] = 0
  BY DEF Init, Exists, Absent
<1>3. \A r \in Requests : req[r].pc = "idle" /\ req[r].cand = {}
  BY DEF Init, IdleReq
<1>4. \A p \in Pods : Holders(p) = {}
  BY <1>3 DEF Holders
<1>5. rec.prepare = {} /\ jan = {}
  BY DEF Init, IdleRec
<1>6. AbsentIsBlank
  BY DEF Init, AbsentIsBlank
<1> QED
  BY <1>1, <1>2, <1>3, <1>4, <1>5, <1>6
     DEF IInv, ListedClaimable, WarmUnowned, AtMostOneTaker, TakenIsClaimed,
         TakenByOwner, Prepared, PrepareTemplate, DeleteAuthorized, SweptExpired

\* Pods are not added or removed, and change only by running, by failing or by
\* being marked.
PodsKept == \A p \in Pods : /\ Exists(p)' <=> Exists(p)
                            /\ pods'[p].pool = pods[p].pool
                            /\ pods'[p].owner = pods[p].owner
                            /\ pods'[p].tmpl = pods[p].tmpl

\* No request gets hold of a box: each goes on, gives up candidates or ends.
RequestsKept ==
  \A r \in Requests :
    \/ req'[r] = IdleReq
    \/ /\ req'[r].box = req[r].box
       /\ req'[r].owner = req[r].owner
       /\ req'[r].tmpl = req[r].tmpl
       /\ req'[r].cand \subseteq req[r].cand
       /\ \/ req'[r].pc = req[r].pc
          \/ req[r].pc = "prepare" /\ req'[r].pc = "reply"

\* What IInv says about requests and the boxes they work on.
Takers == /\ ListedClaimable /\ WarmUnowned /\ AtMostOneTaker
          /\ TakenIsClaimed /\ TakenByOwner /\ DeleteAuthorized

\* Steps that leave claims, requests and answers alone keep Takers.
LEMMA KeptTakers ==
  ASSUME IInv, PodsKept, RequestsKept, UNCHANGED handed,
         \A p \in Pods : "expires" \in pods[p].meta => "expires" \in pods'[p].meta
  PROVE  Takers'
<1> USE DEF IdleReq
<1>1. ListedClaimable'
  BY DEF IInv, ListedClaimable, RequestsKept
<1>2. WarmUnowned'
  BY DEF IInv, WarmUnowned, PodsKept
<1>3. \A p \in Pods : Holders(p)' \subseteq Holders(p)
  BY DEF Holders, RequestsKept
<1>4. AtMostOneTaker'
  <2> SUFFICES ASSUME NEW p \in Pods
               PROVE  /\ handed'[p] \in {0, 1}
                      /\ \A r \in Holders(p)' : handed'[p] = 0 /\ Holders(p)' = {r}
    BY DEF AtMostOneTaker
  <2> QED BY <1>3 DEF IInv, AtMostOneTaker
<1>5. TakenIsClaimed'
  BY <1>3 DEF IInv, TakenIsClaimed, PodsKept
<1>6. TakenByOwner'
  BY <1>3 DEF IInv, TakenByOwner, PodsKept, RequestsKept, Holders
<1>7. DeleteAuthorized'
  <2> SUFFICES ASSUME NEW r \in Requests, req'[r].pc = "delete",
                      Exists(req[r].box)'
               PROVE  req'[r].owner \in {None, pods'[req'[r].box].owner}
    BY DEF DeleteAuthorized
  <2>1. req[r].pc = "delete" /\ req'[r].box = req[r].box /\ req'[r].owner = req[r].owner
    BY DEF RequestsKept
  <2>2. req[r].box \in Pods
    BY <2>1, BoxTyped DEF IInv
  <2> QED BY <2>1, <2>2 DEF IInv, DeleteAuthorized, PodsKept, Exists
<1> QED BY <1>1, <1>2, <1>4, <1>5, <1>6, <1>7 DEF Takers

\* What IInv says about setup and about the two background loops.
Loops == Prepared /\ PrepareTemplate /\ SweptExpired

\* What marking a pod for deletion changes.
LEMMA MarkKeeps ==
  ASSUME TypeOK, NEW p \in Pods, MarkDeleted(p)
  PROVE  /\ PodsKept
         /\ \A q \in Pods : /\ pods[q].meta \subseteq pods'[q].meta
                            /\ IsReady(q)' <=> IsReady(q)
<1>1. CASE Exists(p)
  <2>1. pods' = [pods EXCEPT ![p] = [pods[p] EXCEPT !.meta = @ \cup {"deletion"}]]
    BY <1>1 DEF MarkDeleted, Write
  <2> QED BY <1>1, <2>1 DEF TypeOK, Pod, PodsKept, Exists, IsReady
<1>2. CASE ~Exists(p)
  BY <1>2 DEF MarkDeleted, PodsKept, Exists, IsReady
<1> QED BY <1>1, <1>2

\* Loops is kept by what neither readies a pod nor adds one, nor gives the
\* loops more to do.
LEMMA KeptLoops ==
  ASSUME IInv, PodsKept, \A q \in Pods : IsReady(q)' => IsReady(q),
         setup \subseteq setup', expired \subseteq expired',
         \A q \in Pods : prep'[q] = "patch" => prep[q] = "patch",
         rec'.prepare \subseteq rec.prepare,
         rec'.prepare = {} \/ rec'.tmpl = rec.tmpl,
         jan' \subseteq jan
  PROVE  Loops'
<1>0. TypeOK
  BY DEF IInv
<1>1. Prepared'
  BY DEF IInv, Prepared, PodsKept
<1>2. PrepareTemplate'
  <2> SUFFICES ASSUME NEW p \in rec'.prepare, Exists(p)'
               PROVE  pods'[p].tmpl = rec'.tmpl
    BY DEF PrepareTemplate
  <2>1. p \in Pods
    BY <1>0 DEF TypeOK, Reconcile
  <2> QED BY <2>1 DEF IInv, PrepareTemplate, PodsKept
<1>3. SweptExpired'
  <2> SUFFICES ASSUME NEW p \in jan', Exists(p)'
               PROVE  p \in expired'
    BY DEF SweptExpired
  <2>1. p \in Pods
    BY <1>0 DEF TypeOK
  <2> QED BY <2>1 DEF IInv, SweptExpired, PodsKept
<1> QED BY <1>1, <1>2, <1>3 DEF Loops

\* A new pod is nobody's yet.
LEMMA FreshTaken ==
  ASSUME NEW p \in Pods, Fresh(p)
  PROVE  Holders(p) = {}
  BY DEF Fresh, Holders

\* A new box, whose id no loop knows, disturbs none of the loops.
LEMMA AddLoops ==
  ASSUME IInv, NEW p \in Pods, NEW pool, NEW o, NEW t,
         AddPod(p, NewPod(pool, o, t)), UNCHANGED <<prep, jan>>,
         rec'.prepare = rec.prepare, rec'.tmpl = rec.tmpl
  PROVE  Loops'
<1>0. TypeOK
  BY DEF IInv
<1>1. \A q \in Pods \ {p} : pods'[q] = pods[q]
  BY <1>0 DEF AddPod, TypeOK
<1>2. pods'[p] = NewPod(pool, o, t)
  BY <1>0 DEF AddPod, TypeOK
<1>3. /\ pods'[p].tmpl \in Scripted \ Labelled => ~IsReady(p)'
      /\ prep[p] = "none" /\ p \notin rec.prepare /\ p \notin jan
  BY <1>2 DEF IsReady, NewPod, AddPod, Fresh
<1>4. Prepared'
  BY <1>1, <1>3 DEF IInv, Prepared, Exists, IsReady, AddPod
<1>5. PrepareTemplate'
  BY <1>0, <1>1, <1>3 DEF IInv, PrepareTemplate, Exists, TypeOK, Reconcile
<1>6. SweptExpired'
  BY <1>0, <1>1, <1>3 DEF IInv, SweptExpired, Exists, AddPod, TypeOK
<1> QED BY <1>4, <1>5, <1>6 DEF Loops

(* ------------------ The steps that change who holds what ---------------- *)

\* A new create request knows claimable boxes only, and holds none.
LEMMA CreateBeginTakers ==
  ASSUME IInv, NEW r \in Requests, NEW o \in Owners, NEW t \in Templates,
         CreateBegin(r, o, t)
  PROVE  Takers'
<1>0. TypeOK
  BY DEF IInv
<1> DEFINE C == {[id |-> p, pod |-> pods[p]] : p \in {q \in Pods : Claimable(q, t)}}
<1>1. /\ req'[r] = [pc |-> "claim", owner |-> o, tmpl |-> t, box |-> None, cand |-> C]
      /\ \A q \in Requests \ {r} : req'[q] = req[q]
      /\ UNCHANGED <<pods, handed>>
  BY <1>0 DEF CreateBegin, TypeOK
<1>2. ListedClaimable'
  <2>1. \A c \in C : /\ c.pod.phase = "Running" /\ c.pod.pool = "warm"
                     /\ c.pod.tmpl = t /\ "ready" \in c.pod.meta
                     /\ "deletion" \notin c.pod.meta
    BY DEF Claimable, IsWarm, IsReady, Deleting
  <2> QED BY <1>1, <2>1 DEF IInv, ListedClaimable
<1>3. \A p \in Pods : Holders(p)' = Holders(p)
  BY <1>1 DEF CreateBegin, IdleReq, Holders
<1>4. WarmUnowned' /\ AtMostOneTaker' /\ TakenIsClaimed'
  BY <1>1, <1>3 DEF IInv, WarmUnowned, AtMostOneTaker, TakenIsClaimed, Exists
<1>5. TakenByOwner'
  BY <1>1, <1>3 DEF IInv, TakenByOwner, Exists, Holders
<1>6. DeleteAuthorized'
  BY <1>1 DEF IInv, DeleteAuthorized, Exists
<1> QED BY <1>2, <1>4, <1>5, <1>6 DEF Takers

\* Update's comparison makes the difference here: the pod is still warm, so
\* nobody holds it.
LEMMA ClaimedPod ==
  ASSUME IInv, NEW r \in Requests, NEW c \in req[r].cand, ClaimWins(r, c)
  PROVE  /\ c.id \in Pods
         /\ Exists(c.id) /\ pods[c.id].pool = "warm"
         /\ pods[c.id] = c.pod
         /\ Holders(c.id) = {} /\ handed[c.id] = 0
         /\ pods' = [pods EXCEPT ![c.id] =
                       [pods[c.id] EXCEPT !.pool = "claimed",
                                          !.owner = req[r].owner,
                                          !.meta = @ \cup {"expires"}]]
<1>1. c \in Listed
  BY DEF IInv, TypeOK, Request
<1>2. c.id \in Pods /\ pods[c.id] = c.pod
  BY <1>1 DEF Listed, ClaimWins, UpToDate
<1>3. Exists(c.id) /\ pods[c.id].pool = "warm"
  BY <1>2 DEF IInv, ListedClaimable, Exists
<1>4. Holders(c.id) = {} /\ ~(handed[c.id] > 0)
  BY <1>2, <1>3 DEF IInv, TakenIsClaimed
<1>5. handed[c.id] = 0
  BY <1>2, <1>4 DEF IInv, AtMostOneTaker
<1> QED BY <1>2, <1>3, <1>4, <1>5 DEF ClaimWins, Write

\* The claimed box was warm up to now, so nobody else holds it.
LEMMA ClaimWinsTakers ==
  ASSUME IInv, NEW r \in Requests, NEW c \in req[r].cand, ClaimWins(r, c)
  PROVE  Takers'
<1> DEFINE b == c.id
<1>0. TypeOK /\ b \in Pods /\ req[r].pc = "claim"
  BY ClaimedPod DEF IInv, ClaimWins
<1>1. /\ req'[r].pc = "reply" /\ req'[r].box = b /\ req'[r].cand = {}
      /\ req'[r].owner = req[r].owner
      /\ \A q \in Requests \ {r} : req'[q] = req[q]
  BY <1>0 DEF ClaimWins, TypeOK, Request
<1>2. /\ \A q \in Pods \ {b} : pods'[q] = pods[q]
      /\ pods'[b].pool = "claimed" /\ pods'[b].owner = req[r].owner
      /\ pods'[b].phase = pods[b].phase
      /\ "expires" \in pods'[b].meta
  <2>1. pods[b] \in Pod /\ pods \in [Pods -> Pod]
    BY <1>0 DEF TypeOK
  <2>2. pods' = [pods EXCEPT ![b] = [pods[b] EXCEPT !.pool = "claimed",
                                                   !.owner = req[r].owner,
                                                   !.meta = @ \cup {"expires"}]]
    BY ClaimedPod
  <2> QED BY <1>0, <2>1, <2>2 DEF Pod
<1>3. Holders(b)' = {r} /\ \A q \in Pods \ {b} : Holders(q)' = Holders(q)
  <2>1. Holders(b) = {} /\ req[r].pc \notin {"prepare", "reply"}
    BY <1>0, ClaimedPod
  <2>2. Holders(b)' = {r}
    BY <1>1, <2>1 DEF Holders
  <2>3. ASSUME NEW q \in Pods \ {b} PROVE Holders(q)' = Holders(q)
    BY <1>1, <2>1 DEF Holders
  <2> QED BY <2>2, <2>3
<1>4. handed' = handed /\ handed[b] = 0
  BY ClaimedPod DEF ClaimWins
<1>5. ListedClaimable'
  <2> SUFFICES ASSUME NEW q \in Requests, NEW d \in req'[q].cand
               PROVE  q # r
    BY <1>1 DEF IInv, ListedClaimable
  <2> QED BY <1>1
<1>6. WarmUnowned'
  BY <1>2 DEF IInv, WarmUnowned, Exists
<1>7. AtMostOneTaker'
  BY <1>3, <1>4 DEF IInv, AtMostOneTaker
<1>8. TakenIsClaimed'
  BY <1>2, <1>3, <1>4 DEF IInv, TakenIsClaimed, Exists
<1>9. TakenByOwner'
  <2> SUFFICES ASSUME NEW q \in Requests, NEW p \in Pods, q \in Holders(p)',
                      Exists(p)'
               PROVE  pods'[p].owner = req'[q].owner
    BY DEF TakenByOwner
  <2>1. CASE p = b
    BY <1>1, <1>2, <1>3, <2>1
  <2>2. CASE p # b
    <3>1. q \in Holders(p) /\ q # r /\ Exists(p)
      BY <1>0, <1>2, <1>3, <2>2 DEF Holders, Exists
    <3> QED BY <1>1, <1>2, <2>2, <3>1 DEF IInv, TakenByOwner
  <2> QED BY <2>1, <2>2
<1>10. DeleteAuthorized'
  <2> SUFFICES ASSUME NEW q \in Requests, req'[q].pc = "delete",
                      Exists(req[q].box)'
               PROVE  req'[q].owner \in {None, pods'[req'[q].box].owner}
    BY <1>1 DEF DeleteAuthorized
  <2>1. q # r /\ req'[q] = req[q]
    BY <1>1
  <2>2. req[q].box \in Pods
    BY <1>0, <2>1, BoxTyped
  <2>3. CASE req[q].box = b
    <3>1. pods[b].owner = None /\ Exists(b)
      BY <1>0, ClaimedPod DEF IInv, WarmUnowned
    <3> QED BY <2>1, <2>3, <3>1 DEF IInv, DeleteAuthorized
  <2>4. CASE req[q].box # b
    BY <1>2, <2>1, <2>2, <2>4 DEF IInv, DeleteAuthorized, Exists
  <2> QED BY <2>3, <2>4
<1> QED BY <1>5, <1>6, <1>7, <1>8, <1>9, <1>10 DEF Takers

\* A new box has the request that created it as its only holder.
LEMMA ColdCreateTakers ==
  ASSUME IInv, NEW r \in Requests, NEW b \in Pods, ColdCreate(r, b)
  PROVE  Takers'
<1>0. TypeOK /\ req[r].pc = "claim" /\ ~Exists(b) /\ Holders(b) = {}
  BY FreshTaken DEF IInv, ColdCreate, AddPod, Fresh
<1>1. /\ req'[r].pc \in {"prepare", "reply"} /\ req'[r].box = b
      /\ req'[r].cand = {} /\ req'[r].owner = req[r].owner
      /\ \A q \in Requests \ {r} : req'[q] = req[q]
  BY <1>0 DEF ColdCreate, TypeOK, Request
<1>2. /\ \A q \in Pods \ {b} : pods'[q] = pods[q] /\ handed'[q] = handed[q]
      /\ pods'[b] = NewPod("claimed", req[r].owner, req[r].tmpl)
      /\ handed'[b] = 0
  BY <1>0 DEF ColdCreate, AddPod, TypeOK
<1>3. /\ pods'[b].pool = "claimed" /\ pods'[b].owner = req[r].owner
      /\ "expires" \in pods'[b].meta
  BY <1>2 DEF NewPod
<1>4. Holders(b)' = {r} /\ \A q \in Pods \ {b} : Holders(q)' = Holders(q)
  <2>1. Holders(b)' = {r}
    BY <1>0, <1>1 DEF Holders
  <2>2. ASSUME NEW q \in Pods \ {b} PROVE Holders(q)' = Holders(q)
    BY <1>0, <1>1 DEF Holders
  <2> QED BY <2>1, <2>2
<1>5. ListedClaimable'
  <2> SUFFICES ASSUME NEW q \in Requests, NEW d \in req'[q].cand
               PROVE  q # r
    BY <1>1 DEF IInv, ListedClaimable
  <2> QED BY <1>1
<1>6. WarmUnowned'
  BY <1>2, <1>3 DEF IInv, WarmUnowned, Exists
<1>7. AtMostOneTaker'
  BY <1>2, <1>4 DEF IInv, AtMostOneTaker
<1>8. TakenIsClaimed'
  BY <1>2, <1>3, <1>4 DEF IInv, TakenIsClaimed, Exists
<1>9. TakenByOwner'
  <2> SUFFICES ASSUME NEW q \in Requests, NEW p \in Pods, q \in Holders(p)',
                      Exists(p)'
               PROVE  pods'[p].owner = req'[q].owner
    BY DEF TakenByOwner
  <2>1. CASE p = b
    BY <1>1, <1>3, <1>4, <2>1
  <2>2. CASE p # b
    <3>1. q \in Holders(p) /\ q # r /\ Exists(p)
      BY <1>0, <1>2, <1>4, <2>2 DEF Holders, Exists
    <3> QED BY <1>1, <1>2, <2>2, <3>1 DEF IInv, TakenByOwner
  <2> QED BY <2>1, <2>2
<1>10. DeleteAuthorized'
  <2> SUFFICES ASSUME NEW q \in Requests, req'[q].pc = "delete",
                      Exists(req[q].box)'
               PROVE  req'[q].owner \in {None, pods'[req'[q].box].owner}
    BY <1>1 DEF DeleteAuthorized
  <2>1. q # r /\ req'[q] = req[q]
    BY <1>1
  <2>2. req[q].box \in Pods /\ req[q].box # b
    BY <1>0, <2>1, BoxTyped DEF ColdCreate, AddPod, Fresh
  <2> QED BY <1>2, <2>1, <2>2 DEF IInv, DeleteAuthorized, Exists
<1> QED BY <1>5, <1>6, <1>7, <1>8, <1>9, <1>10 DEF Takers

\* A new warm box has no holder.
LEMMA CreateWarmTakers ==
  ASSUME IInv, NEW b \in Pods, CreateWarm(b)
  PROVE  Takers'
<1>0. TypeOK /\ ~Exists(b) /\ Holders(b) = {}
  BY FreshTaken DEF IInv, CreateWarm, AddPod, Fresh
<1>1. /\ \A q \in Pods \ {b} : pods'[q] = pods[q] /\ handed'[q] = handed[q]
      /\ pods'[b] = NewPod("warm", None, rec.tmpl)
      /\ handed'[b] = 0 /\ req' = req
  BY <1>0 DEF CreateWarm, AddPod, TypeOK
<1>2. \A q \in Pods : Holders(q)' = Holders(q)
  BY <1>1 DEF Holders
<1>3. ListedClaimable'
  BY <1>1 DEF IInv, ListedClaimable
<1>4. WarmUnowned'
  <2>1. pods'[b].owner = None
    BY <1>1 DEF NewPod
  <2> QED BY <1>1, <2>1 DEF IInv, WarmUnowned, Exists
<1>5. AtMostOneTaker' /\ TakenIsClaimed'
  BY <1>0, <1>1, <1>2 DEF IInv, AtMostOneTaker, TakenIsClaimed, Exists
<1>6. TakenByOwner'
  BY <1>0, <1>1, <1>2 DEF IInv, TakenByOwner, Exists
<1>7. DeleteAuthorized'
  <2> SUFFICES ASSUME NEW q \in Requests, req[q].pc = "delete",
                      Exists(req[q].box)'
               PROVE  req[q].owner \in {None, pods'[req[q].box].owner}
    BY <1>1 DEF DeleteAuthorized
  <2>1. req[q].box \in Pods /\ req[q].box # b
    BY <1>0, BoxTyped DEF CreateWarm, AddPod, Fresh
  <2> QED BY <1>1, <2>1 DEF IInv, DeleteAuthorized, Exists
<1> QED BY <1>3, <1>4, <1>5, <1>6, <1>7 DEF Takers

\* The holder becomes the answer.
LEMMA ReplyTakers ==
  ASSUME IInv, NEW r \in Requests, Reply(r)
  PROVE  Takers'
<1> DEFINE b == req[r].box
<1>0. TypeOK /\ b \in Pods /\ r \in Holders(b)
  BY BoxTyped DEF IInv, Reply, Holders
<1>1. Holders(b) = {r} /\ handed[b] = 0
  BY <1>0 DEF IInv, AtMostOneTaker
<1>2. /\ handed'[b] = 1 /\ \A p \in Pods \ {b} : handed'[p] = handed[p]
      /\ req'[r] = IdleReq /\ \A q \in Requests \ {r} : req'[q] = req[q]
      /\ pods' = pods
  BY <1>0, <1>1 DEF Reply, TypeOK
<1>3. ASSUME NEW p \in Pods
      PROVE  Holders(p)' = IF p = b THEN {} ELSE Holders(p)
  <2>1. ASSUME NEW q \in Requests \ {r} PROVE q \in Holders(p)' <=> q \in Holders(p)
    BY <1>2 DEF Holders
  <2>2. r \notin Holders(p)' /\ (p # b => r \notin Holders(p))
    BY <1>2 DEF Holders, IdleReq
  <2> QED BY <1>1, <2>1, <2>2 DEF Holders
<1>4. ListedClaimable' /\ WarmUnowned'
  BY <1>2 DEF IInv, ListedClaimable, WarmUnowned, Exists, IdleReq
<1>5. AtMostOneTaker'
  BY <1>2, <1>3 DEF IInv, AtMostOneTaker
<1>6. TakenIsClaimed'
  BY <1>0, <1>2, <1>3 DEF IInv, TakenIsClaimed, Exists
<1>7. TakenByOwner'
  <2> SUFFICES ASSUME NEW q \in Requests, NEW p \in Pods, q \in Holders(p)',
                      Exists(p)
               PROVE  pods[p].owner = req'[q].owner
    BY <1>2 DEF TakenByOwner, Exists
  <2>1. q \in Holders(p) /\ q # r
    BY <1>2, <1>3 DEF Holders, IdleReq
  <2> QED BY <1>2, <2>1 DEF IInv, TakenByOwner
<1>8. DeleteAuthorized'
  BY <1>2 DEF IInv, DeleteAuthorized, Exists, IdleReq
<1> QED BY <1>4, <1>5, <1>6, <1>7, <1>8 DEF Takers

\* A delete is no holder; it begins authorized.
LEMMA DeleteBeginTakers ==
  ASSUME IInv, NEW r \in Requests, NEW o \in Owners \cup {None}, NEW b \in Pods,
         DeleteBegin(r, o, b)
  PROVE  Takers'
<1>0. TypeOK
  BY DEF IInv
<1>1. /\ req'[r].pc = "delete" /\ req'[r].box = b /\ req'[r].owner = o
      /\ req'[r].cand = {}
      /\ \A q \in Requests \ {r} : req'[q] = req[q]
      /\ UNCHANGED <<pods, handed>>
  BY <1>0 DEF DeleteBegin, IdleReq, TypeOK
<1>2. \A p \in Pods : Holders(p)' = Holders(p)
  BY <1>1 DEF DeleteBegin, IdleReq, Holders
<1>3. ListedClaimable'
  <2> SUFFICES ASSUME NEW q \in Requests, NEW d \in req'[q].cand
               PROVE  q # r
    BY <1>1 DEF IInv, ListedClaimable
  <2> QED BY <1>1
<1>4. WarmUnowned' /\ AtMostOneTaker' /\ TakenIsClaimed'
  BY <1>1, <1>2 DEF IInv, WarmUnowned, AtMostOneTaker, TakenIsClaimed, Exists
<1>5. TakenByOwner'
  BY <1>1, <1>2 DEF IInv, TakenByOwner, Exists, Holders
<1>6. DeleteAuthorized'
  BY <1>1 DEF IInv, DeleteAuthorized, Exists, DeleteBegin, Authorized
<1> QED BY <1>3, <1>4, <1>5, <1>6 DEF Takers

\* A box that is gone makes no claims; its answers are forgotten.
LEMMA PodGoneTakers ==
  ASSUME IInv, NEW b \in Pods, PodGone(b)
  PROVE  Takers'
<1>0. TypeOK
  BY DEF IInv
<1>1. /\ \A q \in Pods \ {b} : pods'[q] = pods[q] /\ handed'[q] = handed[q]
      /\ ~Exists(b)' /\ handed'[b] = 0 /\ req' = req
  BY <1>0 DEF PodGone, TypeOK, Exists, Absent
<1>2. \A q \in Pods : Holders(q)' = Holders(q)
  BY <1>1 DEF Holders
<1>3. ListedClaimable' /\ WarmUnowned'
  BY <1>1 DEF IInv, ListedClaimable, WarmUnowned, Exists
<1>4. AtMostOneTaker' /\ TakenIsClaimed'
  BY <1>1, <1>2 DEF IInv, AtMostOneTaker, TakenIsClaimed, Exists
<1>5. TakenByOwner'
  BY <1>1, <1>2 DEF IInv, TakenByOwner, Exists
<1>6. DeleteAuthorized'
  <2> SUFFICES ASSUME NEW q \in Requests, req[q].pc = "delete",
                      Exists(req[q].box)'
               PROVE  req[q].owner \in {None, pods'[req[q].box].owner}
    BY <1>1 DEF DeleteAuthorized
  <2>1. req[q].box \in Pods /\ req[q].box # b
    BY <1>0, <1>1, BoxTyped
  <2> QED BY <1>1, <2>1 DEF IInv, DeleteAuthorized, Exists
<1> QED BY <1>3, <1>4, <1>5, <1>6 DEF Takers

(* --------------------------- The invariant ----------------------------- *)

\* A pod that goes leaves nothing behind, and nothing is written to a pod that
\* is not there but a new one.
LEMMA AbsentNext == IInv /\ [Next]_vars => AbsentIsBlank'
<1> SUFFICES ASSUME IInv, [Next]_vars, NEW p \in Pods, ~Exists(p)'
             PROVE  pods'[p] = Absent
  BY DEF AbsentIsBlank
<1>0. TypeOK /\ (~Exists(p) => pods[p] = Absent)
  BY DEF IInv, AbsentIsBlank
<1>1. ASSUME UNCHANGED pods PROVE pods'[p] = Absent
  BY <1>0, <1>1 DEF Exists
<1>2. ASSUME NEW r \in Requests, NEW c \in req[r].cand, ClaimWins(r, c)
      PROVE  pods'[p] = Absent
  <2>1. /\ c.id \in Pods /\ Exists(c.id)
        /\ pods' = [pods EXCEPT ![c.id] =
                      [pods[c.id] EXCEPT !.pool = "claimed",
                                         !.owner = req[r].owner,
                                         !.meta = @ \cup {"expires"}]]
    BY <1>2, ClaimedPod
  <2>2. pods'[c.id].phase = pods[c.id].phase
    BY <1>0, <2>1 DEF TypeOK, Pod
  <2>3. p # c.id
    BY <2>1, <2>2 DEF Exists
  <2> QED BY <1>0, <2>1, <2>3 DEF Exists, TypeOK
<1>3. ASSUME NEW q \in Pods, NEW pool, NEW o, NEW t, AddPod(q, NewPod(pool, o, t))
      PROVE  pods'[p] = Absent
  BY <1>0, <1>3 DEF AddPod, NewPod, Exists, TypeOK
<1>4. ASSUME NEW q \in Pods, MarkDeleted(q)
      PROVE  pods'[p] = Absent
  <2>1. ~Exists(p)
    BY <1>0, <1>4, MarkKeeps DEF PodsKept
  <2> QED BY <1>0, <1>4, <2>1 DEF MarkDeleted, Write, TypeOK
<1>5. ASSUME NEW r \in Requests, DeletePod(r) PROVE pods'[p] = Absent
  BY <1>0, <1>4, <1>5, BoxTyped DEF DeletePod
<1>6. ASSUME NEW q \in Pods, PodRuns(q) \/ PodFails(q) \/ PreparePatch(q)
      PROVE  pods'[p] = Absent
  <2>1. pods[q] \in Pod /\ Exists(q)
    BY <1>0, <1>6 DEF TypeOK, PodRuns, PodFails, PreparePatch, Exists
  <2>2. Exists(q)'
    BY <1>0, <1>6, <2>1
       DEF PodRuns, PodFails, PreparePatch, Write, Pod, TypeOK, Exists
  <2>3. p # q
    BY <2>2
  <2> QED BY <1>0, <1>6, <2>3
          DEF PodRuns, PodFails, PreparePatch, Write, TypeOK, Exists
<1>7. ASSUME NEW q \in Pods, PodGone(q) PROVE pods'[p] = Absent
  BY <1>0, <1>7 DEF PodGone, TypeOK, Exists
<1>8. CASE UNCHANGED vars
  BY <1>1, <1>8 DEF vars
<1>9. ASSUME NEW r \in Requests, Handler(r) PROVE pods'[p] = Absent
  <2>1. ASSUME NEW q \in Pods, ColdCreate(r, q) PROVE pods'[p] = Absent
    BY <1>3, <2>1 DEF ColdCreate
  <2> QED BY <1>1, <1>2, <1>5, <1>9, <2>1
          DEF Handler, CreateBegin, ClaimConflicts, ColdPrepare, Reply, Abandon,
              DeleteBegin
<1>10. CASE Janitor
  BY <1>1, <1>4, <1>10 DEF Janitor, JanitorList, JanitorDelete, JanitorSkip
<1>11. CASE Reconciler
  <2>1. ASSUME NEW q \in Pods, CreateWarm(q) PROVE pods'[p] = Absent
    BY <1>3, <2>1 DEF CreateWarm
  <2> QED BY <1>1, <1>4, <1>11, <2>1
          DEF Reconciler, ReconcileList, CreateWarmFails, ReconcilePrepare,
              DeleteSurplus, DeleteSurplusFails
<1>12. ASSUME NEW q \in Pods, Setup(q) \/ Cluster(q) PROVE pods'[p] = Absent
  BY <1>1, <1>6, <1>7, <1>12
     DEF Setup, Cluster, PrepareExec, PrepareFails, Expire
<1>13. CASE Crash \/ Recover
  BY <1>1, <1>13 DEF Crash, Recover
<1> QED BY <1>8, <1>9, <1>10, <1>11, <1>12, <1>13 DEF Next

\* The invariant is typing, what requests hold, and what loops know.
LEMMA IInvParts ==
  ASSUME TypeOK', AbsentIsBlank', Takers', Loops'
  PROVE  IInv'
  BY DEF IInv, Takers, Loops

\* Every step, one action after the other, keeps the invariant.
LEMMA InvNext == IInv /\ [Next]_vars => IInv'
<1> SUFFICES ASSUME IInv, [Next]_vars PROVE IInv'
  OBVIOUS
<1>0. TypeOK /\ TypeOK'
  BY TypeNext DEF IInv
<1> SUFFICES Takers' /\ Loops'
  BY <1>0, AbsentNext, IInvParts
<1>a. ASSUME UNCHANGED pods
      PROVE  /\ PodsKept
             /\ \A q \in Pods : /\ pods[q].meta \subseteq pods'[q].meta
                                /\ IsReady(q)' <=> IsReady(q)
  BY <1>a DEF PodsKept, Exists, IsReady
<1>b. UNCHANGED req => RequestsKept
  BY DEF RequestsKept
<1>1. ASSUME NEW r \in Requests, NEW o \in Owners, NEW t \in Templates,
             CreateBegin(r, o, t)
      PROVE  Takers' /\ Loops'
  BY <1>1, <1>a, CreateBeginTakers, KeptLoops DEF CreateBegin
<1>2. ASSUME NEW r \in Requests, NEW c \in req[r].cand, ClaimWins(r, c)
      PROVE  Takers' /\ Loops'
  <2>1. Takers'
    BY <1>2, ClaimWinsTakers
  <2>2. ASSUME NEW q \in Pods
        PROVE  /\ IsReady(q)' <=> IsReady(q)
               /\ Exists(q)' <=> Exists(q)
               /\ pods'[q].tmpl = pods[q].tmpl
    <3>1. c.id \in Pods /\ pods' = [pods EXCEPT ![c.id] =
                       [pods[c.id] EXCEPT !.pool = "claimed",
                                          !.owner = req[r].owner,
                                          !.meta = @ \cup {"expires"}]]
      BY <1>2, ClaimedPod
    <3>2. CASE q = c.id
      BY <1>0, <3>1, <3>2 DEF TypeOK, Pod, IsReady, Exists
    <3>3. CASE q # c.id
      BY <1>0, <3>1, <3>3 DEF TypeOK, IsReady, Exists
    <3> QED BY <3>2, <3>3
  <2>3. UNCHANGED <<setup, expired, rec, prep, jan>>
    BY <1>2 DEF ClaimWins
  <2>4. Prepared'
    BY <2>2, <2>3 DEF IInv, Prepared
  <2>5. PrepareTemplate' /\ SweptExpired'
    BY <1>0, <2>2, <2>3
       DEF IInv, PrepareTemplate, SweptExpired, TypeOK, Reconcile
  <2> QED BY <2>1, <2>4, <2>5 DEF Loops
<1>3. ASSUME NEW r \in Requests, NEW c \in req[r].cand, ClaimConflicts(r, c)
      PROVE  Takers' /\ Loops'
  <2>1. RequestsKept
    BY <1>0, <1>3 DEF ClaimConflicts, RequestsKept, TypeOK, Request
  <2> QED BY <1>3, <1>a, <2>1, KeptTakers, KeptLoops DEF ClaimConflicts
<1>4. ASSUME NEW r \in Requests, NEW p \in Pods, ColdCreate(r, p)
      PROVE  Takers' /\ Loops'
  BY <1>4, ColdCreateTakers, AddLoops DEF ColdCreate
<1>5. ASSUME NEW r \in Requests, ColdPrepare(r)
      PROVE  Takers' /\ Loops'
  <2>1. RequestsKept
    BY <1>0, <1>5 DEF ColdPrepare, RequestsKept, TypeOK, Request
  <2> QED BY <1>5, <1>a, <2>1, KeptTakers, KeptLoops DEF ColdPrepare
<1>6. ASSUME NEW r \in Requests, Reply(r)
      PROVE  Takers' /\ Loops'
  BY <1>6, <1>a, ReplyTakers, KeptLoops DEF Reply
<1>7. ASSUME NEW r \in Requests, Abandon(r)
      PROVE  Takers' /\ Loops'
  <2>1. RequestsKept
    BY <1>0, <1>7 DEF Abandon, RequestsKept, TypeOK
  <2> QED BY <1>7, <1>a, <2>1, KeptTakers, KeptLoops DEF Abandon
<1>8. ASSUME NEW r \in Requests, NEW o \in Owners \cup {None}, NEW p \in Pods,
             DeleteBegin(r, o, p)
      PROVE  Takers' /\ Loops'
  BY <1>8, <1>a, DeleteBeginTakers, KeptLoops DEF DeleteBegin
<1>9. ASSUME NEW r \in Requests, DeletePod(r)
      PROVE  Takers' /\ Loops'
  <2>1. RequestsKept
    BY <1>0, <1>9 DEF DeletePod, RequestsKept, TypeOK
  <2>2. req[r].box \in Pods /\ MarkDeleted(req[r].box)
    BY <1>0, <1>9, BoxTyped DEF DeletePod
  <2> QED BY <1>0, <1>9, <2>1, <2>2, MarkKeeps, KeptTakers, KeptLoops DEF DeletePod
<1>10. CASE JanitorList
  <2>1. Takers'
    BY <1>10, <1>a, <1>b, KeptTakers DEF JanitorList
  <2>2. Prepared' /\ PrepareTemplate'
    BY <1>10 DEF JanitorList, IInv, Prepared, PrepareTemplate, Exists, IsReady
  <2>3. SweptExpired'
    BY <1>10 DEF JanitorList, SweptExpired
  <2> QED BY <2>1, <2>2, <2>3 DEF Loops
<1>11. ASSUME NEW p \in Pods, JanitorDelete(p)
       PROVE  Takers' /\ Loops'
  BY <1>0, <1>11, <1>b, MarkKeeps, KeptTakers, KeptLoops DEF JanitorDelete
<1>12. ASSUME NEW p \in Pods, JanitorSkip(p)
       PROVE  Takers' /\ Loops'
  BY <1>12, <1>a, <1>b, KeptTakers, KeptLoops DEF JanitorSkip
<1>13. ASSUME NEW t \in Templates, ReconcileList(t)
       PROVE  Takers' /\ Loops'
  <2>1. UNCHANGED <<pods, setup, expired, req, handed, prep, jan>>
    BY <1>13 DEF ReconcileList
  <2>2. Takers'
    BY <2>1, <1>a, <1>b, KeptTakers
  <2>3. Prepared' /\ SweptExpired'
    BY <2>1 DEF IInv, Prepared, SweptExpired, Exists, IsReady
  <2>4. rec'.tmpl = t /\ rec'.prepare \subseteq Live(t)
    BY <1>13 DEF ReconcileList
  <2>5. PrepareTemplate'
    BY <2>1, <2>4 DEF PrepareTemplate, Live, IsWarm
  <2> QED BY <2>2, <2>3, <2>5 DEF Loops
<1>14. ASSUME NEW p \in Pods, ReconcilePrepare(p)
       PROVE  Takers' /\ Loops'
  <2>1. UNCHANGED <<pods, setup, expired, req, handed, jan>>
    BY <1>14 DEF ReconcilePrepare
  <2>2. Takers'
    BY <2>1, <1>a, <1>b, KeptTakers
  <2>3. rec'.tmpl = rec.tmpl /\ rec'.prepare \subseteq rec.prepare
    BY <1>0, <1>14 DEF ReconcilePrepare, TypeOK, Reconcile
  <2>4. PrepareTemplate' /\ SweptExpired'
    BY <2>1, <2>3 DEF IInv, PrepareTemplate, SweptExpired, Exists
  <2>5. Prepared'
    <3> SUFFICES ASSUME NEW q \in Pods, Exists(q),
                        pods[q].tmpl \in Scripted \ Labelled,
                        IsReady(q) \/ prep'[q] = "patch"
                 PROVE  q \in setup
      BY <2>1 DEF Prepared, Exists, IsReady
    <3>1. CASE IsReady(q) \/ prep[q] = "patch"
      BY <3>1 DEF IInv, Prepared
    <3>2. CASE prep[q] # "patch" /\ prep'[q] = "patch"
      <4>1. q = p /\ p \in rec.prepare /\ rec.tmpl \notin Scripted
        BY <1>0, <1>14, <3>2 DEF ReconcilePrepare, TypeOK
      <4>2. pods[q].tmpl = rec.tmpl
        BY <4>1 DEF IInv, PrepareTemplate
      <4> QED BY <4>1, <4>2
    <3> QED BY <3>1, <3>2
  <2> QED BY <2>2, <2>4, <2>5 DEF Loops
<1>15. ASSUME NEW p \in Pods, CreateWarm(p)
       PROVE  Takers' /\ Loops'
  <2>1. rec'.prepare = rec.prepare /\ rec'.tmpl = rec.tmpl
    BY <1>0, <1>15 DEF CreateWarm, TypeOK, Reconcile
  <2> QED BY <1>15, <2>1, CreateWarmTakers, AddLoops DEF CreateWarm
<1>16. CASE CreateWarmFails
  <2>1. rec'.prepare = rec.prepare /\ rec'.tmpl = rec.tmpl
    BY <1>0, <1>16 DEF CreateWarmFails, TypeOK, Reconcile
  <2> QED BY <1>16, <1>a, <1>b, <2>1, KeptTakers, KeptLoops DEF CreateWarmFails
<1>17. ASSUME NEW p \in Pods, DeleteSurplus(p) \/ DeleteSurplusFails(p)
       PROVE  Takers' /\ Loops'
  <2>1. rec'.prepare = rec.prepare /\ rec'.tmpl = rec.tmpl
    BY <1>0, <1>17
       DEF DeleteSurplus, DeleteSurplusFails, DropVictim, TypeOK, Reconcile
  <2>2. CASE DeleteSurplus(p)
    BY <1>0, <1>b, <2>1, <2>2, MarkKeeps, KeptTakers, KeptLoops DEF DeleteSurplus
  <2>3. CASE DeleteSurplusFails(p)
    BY <1>a, <1>b, <2>1, <2>3, KeptTakers, KeptLoops DEF DeleteSurplusFails
  <2> QED BY <1>17, <2>2, <2>3
<1>18. ASSUME NEW p \in Pods, PrepareExec(p)
       PROVE  Takers' /\ Loops'
  <2>1. UNCHANGED <<pods, expired, req, handed, rec, jan>>
    BY <1>18 DEF PrepareExec
  <2>2. Takers'
    BY <2>1, <1>a, <1>b, KeptTakers
  <2>3. PrepareTemplate' /\ SweptExpired'
    BY <2>1 DEF IInv, PrepareTemplate, SweptExpired, Exists
  <2>4. Prepared'
    BY <1>0, <1>18 DEF PrepareExec, IInv, Prepared, Exists, IsReady, TypeOK
  <2> QED BY <2>2, <2>3, <2>4 DEF Loops
<1>19. ASSUME NEW p \in Pods, PreparePatch(p)
       PROVE  Takers' /\ Loops'
  <2>1. pods' = [pods EXCEPT ![p] = [pods[p] EXCEPT !.meta = @ \cup {"ready"}]]
    BY <1>19 DEF PreparePatch, Write
  <2>2. PodsKept /\ \A q \in Pods : pods[q].meta \subseteq pods'[q].meta
    BY <1>0, <2>1 DEF TypeOK, Pod, PodsKept, Exists
  <2>3. UNCHANGED <<setup, expired, req, handed, rec, jan>>
    BY <1>19 DEF PreparePatch
  <2>4. Takers'
    BY <2>2, <2>3, <1>b, KeptTakers
  <2>5. PrepareTemplate' /\ SweptExpired'
    BY <1>0, <2>2, <2>3
       DEF IInv, PrepareTemplate, SweptExpired, PodsKept, TypeOK, Reconcile
  <2>6. Prepared'
    <3> SUFFICES ASSUME NEW q \in Pods, Exists(q)',
                        pods'[q].tmpl \in Scripted \ Labelled,
                        IsReady(q)' \/ prep'[q] = "patch"
                 PROVE  q \in setup
      BY <2>3 DEF Prepared
    <3>1. Exists(q) /\ pods[q].tmpl \in Scripted \ Labelled
      BY <2>2 DEF PodsKept
    <3>2. CASE q = p
      BY <1>19, <3>1, <3>2 DEF PreparePatch, IInv, Prepared
    <3>3. CASE q # p
      <4>1. IsReady(q) \/ prep[q] = "patch"
        BY <1>0, <1>19, <2>1, <3>3 DEF PreparePatch, IsReady, TypeOK
      <4> QED BY <3>1, <4>1 DEF IInv, Prepared
    <3> QED BY <3>2, <3>3
  <2> QED BY <2>4, <2>5, <2>6 DEF Loops
<1>20. ASSUME NEW p \in Pods, PrepareFails(p)
       PROVE  Takers' /\ Loops'
  <2>1. \A q \in Pods : prep'[q] = "patch" => prep[q] = "patch"
    BY <1>0, <1>20 DEF PrepareFails, TypeOK
  <2> QED BY <1>20, <1>a, <1>b, <2>1, KeptTakers, KeptLoops DEF PrepareFails
<1>21. ASSUME NEW p \in Pods, PodRuns(p) \/ PodFails(p)
       PROVE  Takers' /\ Loops'
  <2>1. PICK ph \in {"Running", "Failed"} :
          pods' = [pods EXCEPT ![p] = [pods[p] EXCEPT !.phase = ph]]
    BY <1>21 DEF PodRuns, PodFails, Write
  <2>2. /\ PodsKept
        /\ \A q \in Pods : /\ pods[q].meta \subseteq pods'[q].meta
                           /\ IsReady(q)' <=> IsReady(q)
    BY <1>0, <1>21, <2>1
       DEF TypeOK, Pod, PodsKept, Exists, IsReady, PodRuns, PodFails
  <2>3. UNCHANGED <<setup, expired, req, handed, rec, prep, jan>>
    BY <1>21 DEF PodRuns, PodFails
  <2> QED BY <1>b, <2>2, <2>3, KeptTakers, KeptLoops
<1>22. ASSUME NEW p \in Pods, PodGone(p)
       PROVE  Takers' /\ Loops'
  <2>1. /\ \A q \in Pods \ {p} : /\ pods'[q] = pods[q]
                                 /\ q \in setup <=> q \in setup'
                                 /\ q \in expired <=> q \in expired'
        /\ ~Exists(p)'
        /\ UNCHANGED <<rec, prep, jan>>
    BY <1>0, <1>22 DEF PodGone, TypeOK, Exists, Absent
  <2>2. Prepared'
    BY <2>1 DEF IInv, Prepared, Exists, IsReady
  <2>3. PrepareTemplate' /\ SweptExpired'
    BY <1>0, <2>1
       DEF IInv, PrepareTemplate, SweptExpired, Exists, TypeOK, Reconcile
  <2> QED BY <1>22, <2>2, <2>3, PodGoneTakers DEF Loops
<1>23. ASSUME NEW p \in Pods, Expire(p)
       PROVE  Takers' /\ Loops'
  BY <1>23, <1>a, <1>b, KeptTakers, KeptLoops DEF Expire
<1>24. CASE Crash
  <2>1. RequestsKept
    BY <1>24 DEF Crash, RequestsKept
  <2>2. /\ rec'.prepare = {} /\ jan' = {}
        /\ \A q \in Pods : prep'[q] # "patch"
    BY <1>24 DEF Crash, IdleRec
  <2> QED BY <1>24, <1>a, <2>1, <2>2, KeptTakers, KeptLoops DEF Crash
<1>25. CASE Recover
  BY <1>25, <1>a, <1>b, KeptTakers, KeptLoops DEF Recover
<1>26. CASE UNCHANGED vars
  BY <1>26, <1>a, <1>b, KeptTakers, KeptLoops DEF vars
<1> QED
  BY <1>1, <1>2, <1>3, <1>4, <1>5, <1>6, <1>7, <1>8, <1>9, <1>10, <1>11, <1>12,
     <1>13, <1>14, <1>15, <1>16, <1>17, <1>18, <1>19, <1>20, <1>21, <1>22,
     <1>23, <1>24, <1>25, <1>26
     DEF Next, Handler, Janitor, Reconciler, Setup, Cluster

\* The invariant holds in every reachable state.
THEOREM InvariantHolds == Spec => []IInv
<1> QED BY InvInit, InvNext, PTL DEF Spec

(* -------------------------- Its consequences --------------------------- *)

\* The invariant bounds the takers of a box by one.
LEMMA InvOneTaker == IInv => OneTaker
<1> SUFFICES ASSUME IInv, NEW p \in Pods
             PROVE  Cardinality(Holders(p)) + handed[p] <= 1
  BY DEF OneTaker
<1>1. CASE Holders(p) = {}
  <2>1. Cardinality(Holders(p)) = 0
    BY <1>1, FS_EmptySet
  <2>2. handed[p] \in {0, 1}
    BY DEF IInv, AtMostOneTaker
  <2> QED BY <2>1, <2>2
<1>2. ASSUME NEW r \in Holders(p)
      PROVE  Cardinality(Holders(p)) + handed[p] <= 1
  <2>1. Holders(p) = {r} /\ handed[p] = 0
    BY DEF IInv, AtMostOneTaker
  <2>2. Cardinality(Holders(p)) = 1
    BY <2>1, FS_Singleton
  <2> QED BY <2>1, <2>2
<1> QED BY <1>1, <1>2

\* However many requests race for a box, one of them gets it.
THEOREM OneTakerHolds == Spec => []OneTaker
<1> QED BY InvariantHolds, InvOneTaker, PTL

\* A box somebody was told of, or is about to be told of, left the pool.
THEOREM TakenIsClaimedHolds == Spec => []TakenIsClaimed
<1>1. IInv => TakenIsClaimed
  BY DEF IInv
<1> QED BY <1>1, InvariantHolds, PTL

\* Nobody is given a box that is labelled with another owner.
THEOREM TakenByOwnerHolds == Spec => []TakenByOwner
<1>1. IInv => TakenByOwner
  BY DEF IInv
<1> QED BY <1>1, InvariantHolds, PTL

\* The ready label is never ahead of the setup script.
THEOREM ReadyMeansPreparedHolds == Spec => []ReadyMeansPrepared
<1>1. IInv => ReadyMeansPrepared
  BY DEF IInv, Prepared, ReadyMeansPrepared
<1> QED BY <1>1, InvariantHolds, PTL

\* What a step makes of a pod that exists before and after it.
LEMMA PodStep ==
  ASSUME IInv, [Next]_vars, NEW p \in Pods, Exists(p), Exists(p)'
  PROVE  \/ /\ pods'[p].pool = pods[p].pool
            /\ pods'[p].owner = pods[p].owner
            /\ pods'[p].tmpl = pods[p].tmpl
         \/ pods[p].pool = "warm"
<1>0. TypeOK
  BY DEF IInv
<1> DEFINE Goal == \/ /\ pods'[p].pool = pods[p].pool
                      /\ pods'[p].owner = pods[p].owner
                      /\ pods'[p].tmpl = pods[p].tmpl
                   \/ pods[p].pool = "warm"
<1>1. ASSUME NEW r \in Requests, NEW c \in req[r].cand, ClaimWins(r, c)
      PROVE  Goal
  <2>1. c.id \in Pods /\ pods[c.id].pool = "warm"
    BY <1>1, ClaimedPod
  <2>2. CASE p = c.id
    BY <2>1, <2>2
  <2>3. CASE p # c.id
    BY <1>0, <1>1, <2>3, ClaimedPod DEF TypeOK
  <2> QED BY <2>2, <2>3
<1>2. ASSUME NEW q \in Pods, NEW pod, AddPod(q, pod)
      PROVE  Goal
  BY <1>0, <1>2 DEF AddPod, Fresh, TypeOK
<1>3. ASSUME NEW q \in Pods, MarkDeleted(q)
      PROVE  Goal
  BY <1>0, <1>3, MarkKeeps DEF PodsKept
<1>4. ASSUME NEW r \in Requests, DeletePod(r)
      PROVE  Goal
  BY <1>0, <1>3, <1>4, BoxTyped DEF DeletePod
<1>5. ASSUME NEW q \in Pods, PodRuns(q) \/ PodFails(q) \/ PreparePatch(q)
      PROVE  Goal
  <2>1. pods[q] \in Pod
    BY <1>0 DEF TypeOK
  <2>2. CASE p = q
    BY <1>0, <1>5, <2>1, <2>2
       DEF PodRuns, PodFails, PreparePatch, Write, Pod, TypeOK
  <2>3. CASE p # q
    BY <1>0, <1>5, <2>3 DEF PodRuns, PodFails, PreparePatch, Write, TypeOK
  <2> QED BY <2>2, <2>3
<1>6. ASSUME NEW q \in Pods, PodGone(q)
      PROVE  Goal
  <2>1. p # q
    BY <1>0, <1>6 DEF PodGone, Exists, Absent, TypeOK
  <2> QED BY <1>0, <1>6, <2>1 DEF PodGone, TypeOK
<1>7. CASE UNCHANGED pods
  BY <1>7
<1>8. CASE UNCHANGED vars
  BY <1>7, <1>8 DEF vars
<1>9. ASSUME NEW r \in Requests, Handler(r)
      PROVE  Goal
  BY <1>1, <1>2, <1>4, <1>7, <1>9
     DEF Handler, CreateBegin, ClaimConflicts, ColdCreate, ColdPrepare, Reply,
         Abandon, DeleteBegin
<1>10. CASE Janitor
  BY <1>3, <1>7, <1>10 DEF Janitor, JanitorList, JanitorDelete, JanitorSkip
<1>11. CASE Reconciler
  BY <1>2, <1>3, <1>7, <1>11
     DEF Reconciler, ReconcileList, CreateWarmFails, ReconcilePrepare, CreateWarm,
         DeleteSurplus, DeleteSurplusFails
<1>12. ASSUME NEW q \in Pods, Setup(q) \/ Cluster(q)
       PROVE  Goal
  BY <1>5, <1>6, <1>7, <1>12
     DEF Setup, Cluster, PrepareExec, PrepareFails, Expire
<1>13. CASE Crash \/ Recover
  BY <1>7, <1>13 DEF Crash, Recover
<1> QED BY <1>8, <1>9, <1>10, <1>11, <1>12, <1>13 DEF Next

\* A claimed box keeps its owner and its type until it is gone.
THEOREM ClaimIsFinalHolds == Spec => ClaimIsFinal
<1>1. IInv /\ [Next]_vars =>
        [\A p \in Pods : Claimed(p) /\ Exists(p)' =>
           /\ Claimed(p)'
           /\ pods'[p].owner = pods[p].owner
           /\ pods'[p].tmpl = pods[p].tmpl]_vars
  BY PodStep DEF Claimed
<1> QED BY <1>1, InvariantHolds, PTL DEF Spec, ClaimIsFinal

\* A pod that starts being deleted was marked by one of three callers.
LEMMA MarkedBy ==
  ASSUME IInv, [Next]_vars, NEW p \in Pods, Exists(p), ~Deleting(p),
         Exists(p)', Deleting(p)'
  PROVE  \/ \E r \in Requests : req[r].pc = "delete" /\ req[r].box = p
         \/ p \in jan
         \/ p \in NextVictims
<1>0. TypeOK
  BY DEF IInv
<1> DEFINE Goal == \/ \E r \in Requests : req[r].pc = "delete" /\ req[r].box = p
                   \/ p \in jan
                   \/ p \in NextVictims
<1>1. ASSUME NEW r \in Requests, NEW c \in req[r].cand, ClaimWins(r, c)
      PROVE  Goal
  <2>1. c.id \in Pods
    BY <1>1, ClaimedPod
  <2>2. CASE p = c.id
    <3>1. pods' = [pods EXCEPT ![p] =
                     [pods[p] EXCEPT !.pool = "claimed", !.owner = req[r].owner,
                                     !.meta = @ \cup {"expires"}]]
      BY <1>1, <2>2, ClaimedPod
    <3>2. pods[p] \in Pod /\ pods \in [Pods -> Pod]
      BY <1>0 DEF TypeOK
    <3>3. pods'[p].meta = pods[p].meta \cup {"expires"}
      BY <3>1, <3>2 DEF Pod
    <3> QED BY <3>3 DEF Deleting
  <2>3. CASE p # c.id
    <3>1. pods' = [pods EXCEPT ![c.id] =
                     [pods[c.id] EXCEPT !.pool = "claimed", !.owner = req[r].owner,
                                        !.meta = @ \cup {"expires"}]]
      BY <1>1, ClaimedPod
    <3>2. pods'[p] = pods[p]
      BY <1>0, <2>3, <3>1 DEF TypeOK
    <3> QED BY <3>2 DEF Deleting
  <2> QED BY <2>2, <2>3
<1>2. ASSUME NEW q \in Pods, NEW pod, AddPod(q, pod)
      PROVE  Goal
  BY <1>0, <1>2 DEF AddPod, Fresh, TypeOK, Deleting
<1>3. ASSUME NEW q \in Pods, MarkDeleted(q), p # q
      PROVE  Goal
  BY <1>0, <1>3 DEF MarkDeleted, Write, TypeOK, Deleting
<1>4. ASSUME NEW r \in Requests, DeletePod(r)
      PROVE  Goal
  BY <1>0, <1>3, <1>4, BoxTyped DEF DeletePod
<1>5. ASSUME NEW q \in Pods, PodRuns(q) \/ PodFails(q) \/ PreparePatch(q)
      PROVE  Goal
  <2>1. pods[q] \in Pod
    BY <1>0 DEF TypeOK
  <2>2. CASE p = q
    BY <1>0, <1>5, <2>1, <2>2
       DEF PodRuns, PodFails, PreparePatch, Write, Pod, TypeOK, Deleting
  <2>3. CASE p # q
    BY <1>0, <1>5, <2>3
       DEF PodRuns, PodFails, PreparePatch, Write, TypeOK, Deleting
  <2> QED BY <2>2, <2>3
<1>6. ASSUME NEW q \in Pods, PodGone(q)
      PROVE  Goal
  BY <1>0, <1>6 DEF PodGone, Exists, Absent, TypeOK, Deleting
<1>7. CASE UNCHANGED pods
  BY <1>7 DEF Deleting
<1>8. CASE UNCHANGED vars
  BY <1>7, <1>8 DEF vars
<1>9. ASSUME NEW r \in Requests, Handler(r)
      PROVE  Goal
  BY <1>1, <1>2, <1>4, <1>7, <1>9
     DEF Handler, CreateBegin, ClaimConflicts, ColdCreate, ColdPrepare, Reply,
         Abandon, DeleteBegin
<1>10. CASE Janitor
  BY <1>3, <1>7, <1>10 DEF Janitor, JanitorList, JanitorDelete, JanitorSkip
<1>11. CASE Reconciler
  BY <1>2, <1>3, <1>7, <1>11
     DEF Reconciler, ReconcileList, CreateWarmFails, ReconcilePrepare, CreateWarm,
         DeleteSurplus, DeleteSurplusFails
<1>12. ASSUME NEW q \in Pods, Setup(q) \/ Cluster(q)
       PROVE  Goal
  BY <1>5, <1>6, <1>7, <1>12
     DEF Setup, Cluster, PrepareExec, PrepareFails, Expire
<1>13. CASE Crash \/ Recover
  BY <1>7, <1>13 DEF Crash, Recover
<1> QED BY <1>8, <1>9, <1>10, <1>11, <1>12, <1>13 DEF Next

\* A claimed box is deleted on behalf of its owner or the admin, after its
\* expiry, or as a victim the reconciler chose while it was warm.
THEOREM DeletedForCauseHolds == Spec => DeletedForCause
<1>1. IInv /\ [Next]_vars =>
        [\A p \in Pods :
           Claimed(p) /\ ~Deleting(p) /\ Exists(p)' /\ Deleting(p)' =>
             \/ DeleteRequested(p)
             \/ p \in expired
             \/ p \in rec.unready \cup rec.ready]_vars
  <2> SUFFICES ASSUME IInv, [Next]_vars, NEW p \in Pods,
                      Claimed(p), ~Deleting(p), Exists(p)', Deleting(p)'
               PROVE  \/ DeleteRequested(p)
                      \/ p \in expired
                      \/ p \in rec.unready \cup rec.ready
    OBVIOUS
  <2>1. CASE \E r \in Requests : req[r].pc = "delete" /\ req[r].box = p
    BY <2>1 DEF IInv, DeleteAuthorized, DeleteRequested, Claimed
  <2>2. CASE p \in jan
    BY <2>2 DEF IInv, SweptExpired, Claimed
  <2>3. CASE p \in NextVictims
    BY <2>3 DEF NextVictims
  <2> QED BY <2>1, <2>2, <2>3, MarkedBy DEF Claimed
<1> QED BY <1>1, InvariantHolds, PTL DEF Spec, DeletedForCause

(* ------------------------- The size of the pool ------------------------- *)

\* A pool is finite: it has a size.
LEMMA PoolSize ==
  ASSUME NEW t
  PROVE  IsFiniteSet(InPool(t)) /\ Cardinality(InPool(t)) \in Nat
<1>1. InPool(t) \subseteq Pods
  BY DEF InPool
<1> QED BY <1>1, WarmPoolAssumption, FS_Subset, FS_CardinalityType

\* Only the reconciler's create adds a box to a pool; whatever else happens to
\* a pod keeps it where it is or takes it out.
LEMMA PoolShrinks ==
  ASSUME IInv, [Next]_vars, NEW p \in Pods, NEW t \in Templates, p \in InPool(t)'
  PROVE  p \in InPool(t) \/ CreateWarm(p)
<1>0. TypeOK
  BY DEF IInv
<1> DEFINE Goal == p \in InPool(t) \/ CreateWarm(p)
<1>1. ASSUME NEW r \in Requests, NEW c \in req[r].cand, ClaimWins(r, c)
      PROVE  Goal
  <2>1. /\ c.id \in Pods
        /\ pods' = [pods EXCEPT ![c.id] =
                      [pods[c.id] EXCEPT !.pool = "claimed",
                                         !.owner = req[r].owner,
                                         !.meta = @ \cup {"expires"}]]
    BY <1>1, ClaimedPod
  <2>2. pods[c.id] \in Pod /\ pods \in [Pods -> Pod]
    BY <1>0, <2>1 DEF TypeOK
  <2>3. pods'[c.id].pool = "claimed"
    BY <2>1, <2>2 DEF Pod
  <2>4. p # c.id
    BY <2>3 DEF InPool, IsWarm
  <2> QED BY <2>1, <2>2, <2>4 DEF InPool, IsWarm, Exists, Deleting
<1>2. ASSUME NEW r \in Requests, NEW q \in Pods, ColdCreate(r, q)
      PROVE  Goal
  <2>1. pods' = [pods EXCEPT ![q] = NewPod("claimed", req[r].owner, req[r].tmpl)]
    BY <1>2 DEF ColdCreate, AddPod
  <2>2. p # q
    BY <1>0, <2>1 DEF NewPod, InPool, IsWarm, TypeOK
  <2> QED BY <1>0, <2>1, <2>2 DEF InPool, IsWarm, Exists, Deleting, TypeOK
<1>3. ASSUME NEW q \in Pods, CreateWarm(q)
      PROVE  Goal
  <2>1. CASE p = q
    BY <1>3, <2>1
  <2>2. CASE p # q
    BY <1>0, <1>3, <2>2
       DEF CreateWarm, AddPod, InPool, IsWarm, Exists, Deleting, TypeOK
  <2> QED BY <2>1, <2>2
<1>4. ASSUME NEW q \in Pods, MarkDeleted(q)
      PROVE  Goal
  <2>1. /\ PodsKept
        /\ \A x \in Pods : pods[x].meta \subseteq pods'[x].meta
    BY <1>0, <1>4, MarkKeeps
  <2> QED BY <2>1 DEF PodsKept, InPool, IsWarm, Deleting
<1>5. ASSUME NEW r \in Requests, DeletePod(r)
      PROVE  Goal
  BY <1>0, <1>4, <1>5, BoxTyped DEF DeletePod
<1>6. ASSUME NEW q \in Pods, PodRuns(q) \/ PodFails(q) \/ PreparePatch(q)
      PROVE  Goal
  <2>1. pods[q] \in Pod
    BY <1>0 DEF TypeOK
  <2>2. CASE p = q
    BY <1>0, <1>6, <2>1, <2>2
       DEF PodRuns, PodFails, PreparePatch, Write, Pod, TypeOK, InPool, IsWarm,
           Exists, Deleting
  <2>3. CASE p # q
    BY <1>0, <1>6, <2>3
       DEF PodRuns, PodFails, PreparePatch, Write, TypeOK, InPool, IsWarm,
           Exists, Deleting
  <2> QED BY <2>2, <2>3
<1>7. ASSUME NEW q \in Pods, PodGone(q)
      PROVE  Goal
  <2>1. p # q
    BY <1>0, <1>7 DEF PodGone, InPool, IsWarm, Exists, Absent, TypeOK
  <2> QED BY <1>0, <1>7, <2>1 DEF PodGone, InPool, IsWarm, Exists, Deleting, TypeOK
<1>8. CASE UNCHANGED pods
  BY <1>8 DEF InPool, IsWarm, Exists, Deleting
<1>9. CASE UNCHANGED vars
  BY <1>8, <1>9 DEF vars
<1>10. ASSUME NEW r \in Requests, Handler(r)
       PROVE  Goal
  BY <1>1, <1>2, <1>5, <1>8, <1>10
     DEF Handler, CreateBegin, ClaimConflicts, ColdPrepare, Reply, Abandon,
         DeleteBegin
<1>11. CASE Janitor
  BY <1>4, <1>8, <1>11 DEF Janitor, JanitorList, JanitorDelete, JanitorSkip
<1>12. CASE Reconciler
  BY <1>3, <1>4, <1>8, <1>12
     DEF Reconciler, ReconcileList, CreateWarmFails, ReconcilePrepare,
         DeleteSurplus, DeleteSurplusFails
<1>13. ASSUME NEW q \in Pods, Setup(q) \/ Cluster(q)
       PROVE  Goal
  BY <1>6, <1>7, <1>8, <1>13
     DEF Setup, Cluster, PrepareExec, PrepareFails, Expire
<1>14. CASE Crash \/ Recover
  BY <1>8, <1>14 DEF Crash, Recover
<1> QED BY <1>9, <1>10, <1>11, <1>12, <1>13, <1>14 DEF Next

\* The creates the reconciler still owes the pool of t.
Owed(t) == IF rec.tmpl = t THEN rec.create ELSE 0

\* Apart from a listing, only a create changes what is owed without lowering
\* it: it pays one box of it.
LEMMA OwedStep ==
  ASSUME IInv, [Next]_vars, NEW t \in Templates, ~ReconcileList(rec'.tmpl)
  PROVE  \/ Owed(t)' <= Owed(t) /\ \A p \in Pods : ~CreateWarm(p)
         \/ \E p \in Pods : /\ CreateWarm(p)
                            /\ rec'.tmpl = rec.tmpl /\ rec.create > 0
                            /\ rec'.create = rec.create - 1
<1>0. TypeOK /\ rec.create \in Nat
  BY DEF IInv, TypeOK, Reconcile
<1>1. ASSUME NEW p \in Pods, CreateWarm(p)
      PROVE  /\ rec'.tmpl = rec.tmpl /\ rec.create > 0
             /\ rec'.create = rec.create - 1
  BY <1>0, <1>1 DEF CreateWarm, TypeOK, Reconcile
<1>2. CASE rec' = rec \/ rec' = IdleRec
  BY <1>0, <1>1, <1>2 DEF Owed, IdleRec
<1>3. CASE UNCHANGED vars
  BY <1>2, <1>3 DEF vars
<1>4. ASSUME NEW r \in Requests, Handler(r)
      PROVE  rec' = rec
  BY <1>4 DEF Handler, CreateBegin, ClaimWins, ClaimConflicts, ColdCreate,
              ColdPrepare, Reply, Abandon, DeleteBegin, DeletePod
<1>5. ASSUME Janitor PROVE rec' = rec
  BY <1>5 DEF Janitor, JanitorList, JanitorDelete, JanitorSkip
<1>6. ASSUME NEW u \in Templates PROVE ~ReconcileList(u)
  <2> SUFFICES ASSUME ReconcileList(u) PROVE rec'.tmpl = u
    OBVIOUS
  <2> QED BY DEF ReconcileList
<1>7. ASSUME \/ CreateWarmFails
             \/ \E p \in Pods : \/ ReconcilePrepare(p)
                                \/ DeleteSurplus(p) \/ DeleteSurplusFails(p)
      PROVE  rec'.tmpl = rec.tmpl /\ rec'.create <= rec.create
  <2>1. CASE CreateWarmFails
    BY <1>0, <2>1 DEF CreateWarmFails, TypeOK, Reconcile
  <2>2. ASSUME NEW p \in Pods, ReconcilePrepare(p)
        PROVE  rec'.tmpl = rec.tmpl /\ rec'.create <= rec.create
    <3>1. rec' = [rec EXCEPT !.prepare = @ \ {p}]
      BY <2>2 DEF ReconcilePrepare
    <3> QED BY <1>0, <3>1 DEF TypeOK, Reconcile
  <2>3. ASSUME NEW p \in Pods, DeleteSurplus(p) \/ DeleteSurplusFails(p)
        PROVE  rec'.tmpl = rec.tmpl /\ rec'.create <= rec.create
    <3>1. DropVictim(p)
      BY <2>3 DEF DeleteSurplus, DeleteSurplusFails
    <3> QED BY <1>0, <3>1 DEF DropVictim, TypeOK, Reconcile
  <2> QED BY <1>7, <2>1, <2>2, <2>3
<1>8. ASSUME NEW p \in Pods, Setup(p) \/ Cluster(p) PROVE rec' = rec
  BY <1>8 DEF Setup, Cluster, PrepareExec, PreparePatch, PrepareFails, PodRuns,
              PodFails, PodGone, Expire
<1>9. Crash \/ Recover => rec' = rec \/ rec' = IdleRec
  BY DEF Crash, Recover
<1> QED
  BY <1>0, <1>1, <1>2, <1>3, <1>4, <1>5, <1>6, <1>7, <1>8, <1>9
     DEF Next, Reconciler, Owed

\* The bound on a pool and what is owed to it holds from one listing to the
\* next: a create only moves a box from the second to the first.
LEMMA TargetNext == IInv /\ WarmWithinTarget /\ [Next]_vars => WarmWithinTarget'
<1> SUFFICES ASSUME IInv, WarmWithinTarget, [Next]_vars, NEW t \in Templates
             PROVE  \E d \in Desired[t] : Cardinality(InPool(t)') + Owed(t)' <= d
  BY DEF WarmWithinTarget, Owed
<1>0. /\ TypeOK /\ TypeOK' /\ rec.create \in Nat /\ rec'.create \in Nat
      /\ Desired[t] \subseteq Nat
  BY TypeNext, WarmPoolAssumption DEF IInv, TypeOK, Reconcile
<1>1. /\ IsFiniteSet(InPool(t)) /\ Cardinality(InPool(t)) \in Nat
      /\ IsFiniteSet(InPool(t)') /\ Cardinality(InPool(t)') \in Nat
  <2>1. InPool(t)' \subseteq Pods
    BY DEF InPool
  <2> QED BY <2>1, PoolSize, WarmPoolAssumption, FS_Subset, FS_CardinalityType
<1>2. PICK d \in Desired[t] : Cardinality(InPool(t)) + Owed(t) <= d
  BY DEF WarmWithinTarget, Owed
<1>3. CASE ReconcileList(rec'.tmpl)
  <2>1. InPool(t)' = InPool(t)
    BY <1>3 DEF ReconcileList, InPool, IsWarm, Exists, Deleting
  <2>2. CASE rec'.tmpl # t \/ rec'.create = 0
    BY <1>0, <1>1, <1>2, <2>1, <2>2 DEF Owed
  <2>3. CASE rec'.tmpl = t /\ rec'.create # 0
    <3>1. PICK e \in Desired[t] :
            rec'.create = IF Cardinality(Live(t)) < e
                            THEN e - Cardinality(Live(t)) ELSE 0
      BY <1>3, <2>3 DEF ReconcileList
    <3>2. Live(t) = InPool(t)
      BY DEF Live, InPool
    <3>3. Cardinality(InPool(t)) + rec'.create = e
      BY <1>0, <1>1, <2>3, <3>1, <3>2
    <3> QED BY <1>0, <2>1, <2>3, <3>3 DEF Owed
  <2> QED BY <2>2, <2>3
<1>4. CASE ~ReconcileList(rec'.tmpl) /\ \A p \in Pods : ~CreateWarm(p)
  <2>1. InPool(t)' \subseteq InPool(t)
    BY <1>4, PoolShrinks DEF InPool
  <2>2. Cardinality(InPool(t)') <= Cardinality(InPool(t))
    BY <1>1, <2>1, FS_Subset
  <2>3. Owed(t)' <= Owed(t) /\ Owed(t) \in Nat /\ Owed(t)' \in Nat
    BY <1>0, <1>4, OwedStep DEF Owed
  <2> QED BY <1>0, <1>1, <1>2, <2>2, <2>3
<1>5. ASSUME NEW p \in Pods, CreateWarm(p)
      PROVE  \E e \in Desired[t] : Cardinality(InPool(t)') + Owed(t)' <= e
  <2>1. /\ rec'.tmpl = rec.tmpl /\ rec.create > 0 /\ rec'.create = rec.create - 1
        /\ pods' = [pods EXCEPT ![p] = NewPod("warm", None, rec.tmpl)]
    BY <1>0, <1>5 DEF CreateWarm, AddPod, TypeOK, Reconcile
  <2>2. pods'[p].tmpl = rec.tmpl /\ \A q \in Pods \ {p} : pods'[q] = pods[q]
    BY <1>0, <2>1 DEF NewPod, TypeOK
  <2>3. CASE rec.tmpl = t
    <3>1. InPool(t)' \subseteq InPool(t) \cup {p}
      BY <2>2 DEF InPool, IsWarm, Exists, Deleting
    <3>2. /\ IsFiniteSet(InPool(t) \cup {p})
          /\ Cardinality(InPool(t) \cup {p}) \in Nat
          /\ Cardinality(InPool(t) \cup {p}) <= Cardinality(InPool(t)) + 1
      <4>1. /\ IsFiniteSet(InPool(t) \cup {p})
            /\ \/ Cardinality(InPool(t) \cup {p}) = Cardinality(InPool(t))
               \/ Cardinality(InPool(t) \cup {p}) = Cardinality(InPool(t)) + 1
        BY <1>1, FS_AddElement
      <4> QED BY <1>1, <4>1
    <3>3. Cardinality(InPool(t)') <= Cardinality(InPool(t) \cup {p})
      BY <3>1, <3>2, FS_Subset
    <3> QED BY <1>0, <1>1, <1>2, <2>1, <2>3, <3>2, <3>3 DEF Owed
  <2>4. CASE rec.tmpl # t
    <3>1. InPool(t)' \subseteq InPool(t)
      BY <2>2, <2>4 DEF InPool, IsWarm, Exists, Deleting
    <3>2. Cardinality(InPool(t)') <= Cardinality(InPool(t))
      BY <1>1, <3>1, FS_Subset
    <3> QED BY <1>0, <1>1, <1>2, <2>1, <2>4, <3>2 DEF Owed
  <2> QED BY <2>3, <2>4
<1> QED BY <1>3, <1>4, <1>5

\* The pools start empty and nothing is owed to them.
LEMMA TargetInit == Init => WarmWithinTarget
<1> SUFFICES ASSUME Init, NEW t \in Templates
             PROVE  \E d \in Desired[t] : Cardinality(InPool(t)) + Owed(t) <= d
  BY DEF WarmWithinTarget, Owed
<1>1. InPool(t) = {} /\ Owed(t) = 0
  BY DEF Init, InPool, IsWarm, Exists, Absent, Owed, IdleRec
<1>2. Cardinality(InPool(t)) = 0
  BY <1>1, FS_EmptySet
<1>3. PICK d \in Desired[t] : d \in Nat
  <2>1. Desired[t] \in SUBSET Nat /\ Desired[t] # {}
    BY WarmPoolAssumption
  <2> QED BY <2>1
<1> QED BY <1>1, <1>2, <1>3

\* The reconciler never overshoots the largest target it was given, however
\* stale its listing.
THEOREM WarmWithinTargetHolds == Spec => []WarmWithinTarget
<1> QED BY TargetInit, TargetNext, InvariantHolds, PTL DEF Spec

=============================================================================
