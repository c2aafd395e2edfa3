------------------------- MODULE WarmPoolLeaseProofs -------------------------
(* The warm pool implements BoxLease, for every value of its constants.    *)
(* Each step of the handlers, the loops and the cluster is a step of the   *)
(* lessor on one box, the loss of answers, or none.                        *)
EXTENDS WarmPoolLease, WarmPoolSafetyProofs

(* ------------------- What leaves a box's lease alone -------------------- *)

\* The lease of a box depends on these parts of its pod only.
LEMMA SamePod ==
  ASSUME NEW p, Exists(p)' <=> Exists(p), Deleting(p)' <=> Deleting(p),
         pods'[p].pool = pods[p].pool, pods'[p].owner = pods[p].owner
  PROVE  LeaseState(p)' = LeaseState(p) /\ pods'[p].owner = pods[p].owner
  BY DEF LeaseState

\* The answers owed for a box depend on its holders and on what was handed out.
LEMMA SameAnswer ==
  ASSUME NEW p, Holders(p)' = Holders(p), handed'[p] = handed[p]
  PROVE  LeaseAnswer(p)' = LeaseAnswer(p)
  BY DEF LeaseAnswer

\* A request that no step touches is a holder before iff after.
LEMMA SameHolder ==
  ASSUME NEW r \in Requests, NEW p, req'[r] = req[r]
  PROVE  r \in Holders(p)' <=> r \in Holders(p)
  BY DEF Holders

\* What the abstract variables are.
LEMMA LeaseVars ==
  ASSUME \A p \in Pods : /\ LeaseState(p)' = LeaseState(p)
                         /\ pods'[p].owner = pods[p].owner
                         /\ LeaseAnswer(p)' = LeaseAnswer(p)
  PROVE  UNCHANGED Lease!leaseVars
  BY DEF Lease!leaseVars

\* A step that changes none of pods, req and handed is no step of the lessor.
LEMMA QuietStep ==
  ASSUME UNCHANGED <<pods, req, handed>>
  PROVE  UNCHANGED Lease!leaseVars
<1>1. ASSUME NEW p \in Pods
      PROVE  /\ LeaseState(p)' = LeaseState(p)
             /\ LeaseAnswer(p)' = LeaseAnswer(p)
  BY DEF LeaseState, LeaseAnswer, Holders, Exists, Deleting
<1> QED BY <1>1, LeaseVars

\* A request of which neither the old nor the new state owns a box changes
\* nobody's lease.
LEMMA QuietRequest ==
  ASSUME TypeOK, NEW r \in Requests, NEW new, req' = [req EXCEPT ![r] = new],
         UNCHANGED <<pods, handed>>,
         \/ new.pc \notin {"prepare", "reply"} /\ req[r].pc \notin {"prepare", "reply"}
         \/ /\ new.pc \in {"prepare", "reply"} /\ req[r].pc \in {"prepare", "reply"}
            /\ new.box = req[r].box
  PROVE  UNCHANGED Lease!leaseVars
<1>1. req'[r] = new /\ \A q \in Requests \ {r} : req'[q] = req[q]
  BY DEF TypeOK
<1>2. ASSUME NEW p \in Pods PROVE Holders(p)' = Holders(p)
  <2>1. r \in Holders(p)' <=> r \in Holders(p)
    BY <1>1 DEF Holders
  <2>2. \A q \in Requests \ {r} : q \in Holders(p)' <=> q \in Holders(p)
    BY <1>1, SameHolder
  <2> QED BY <2>1, <2>2 DEF Holders
<1>3. ASSUME NEW p \in Pods
      PROVE  LeaseState(p)' = LeaseState(p) /\ LeaseAnswer(p)' = LeaseAnswer(p)
  BY <1>2 DEF LeaseState, LeaseAnswer, Exists, Deleting
<1> QED BY <1>3, LeaseVars

\* A step that only moves a pod through its phases, or labels it, is no step of
\* the lessor.
LEMMA QuietPod ==
  ASSUME UNCHANGED <<req, handed>>, PodsKept,
         \A q \in Pods : Deleting(q)' <=> Deleting(q)
  PROVE  UNCHANGED Lease!leaseVars
<1>1. ASSUME NEW p \in Pods
      PROVE  /\ LeaseState(p)' = LeaseState(p)
             /\ pods'[p].owner = pods[p].owner
             /\ LeaseAnswer(p)' = LeaseAnswer(p)
  BY DEF PodsKept, LeaseState, LeaseAnswer, Holders
<1> QED BY <1>1, LeaseVars

(* ------------------------ The steps of the lessor ----------------------- *)

\* What happened to one box b of the lessor, and to no other.
OneBox(b, s, o, a) ==
  /\ LeaseState(b)' = s /\ pods'[b].owner = o /\ LeaseAnswer(b)' = a
  /\ \A p \in Pods \ {b} : /\ LeaseState(p)' = LeaseState(p)
                           /\ pods'[p].owner = pods[p].owner
                           /\ LeaseAnswer(p)' = LeaseAnswer(p)

\* A change of one box as a change of the lessor's variables.
LEMMA OneBoxVars ==
  ASSUME NEW b \in Pods, NEW s, NEW o, NEW a, OneBox(b, s, o, a)
  PROVE  /\ [p \in Pods |-> LeaseState(p)]' =
              [[p \in Pods |-> LeaseState(p)] EXCEPT ![b] = s]
         /\ [p \in Pods |-> pods[p].owner]' =
              [[p \in Pods |-> pods[p].owner] EXCEPT ![b] = o]
         /\ [p \in Pods |-> LeaseAnswer(p)]' =
              [[p \in Pods |-> LeaseAnswer(p)] EXCEPT ![b] = a]
  BY DEF OneBox

\* A claim that wins grants a box of the pool.
LEMMA ClaimGrants ==
  ASSUME IInv, NEW r \in Requests, NEW c \in req[r].cand, ClaimWins(r, c)
  PROVE  Lease!Next
<1>0. /\ TypeOK /\ c.id \in Pods /\ req[r].pc = "claim"
      /\ req[r].owner \in Owners
  BY ClaimedPod DEF IInv, ClaimWins, TypeOK, Request
<1> PICK b \in Pods, o \in Owners : b = c.id /\ o = req[r].owner
  BY <1>0
<1>a. /\ Exists(b) /\ pods[b].pool = "warm" /\ pods[b] = c.pod
      /\ Holders(b) = {} /\ handed[b] = 0
      /\ pods' = [pods EXCEPT ![b] = [pods[b] EXCEPT !.pool = "claimed",
                                                     !.owner = o,
                                                     !.meta = @ \cup {"expires"}]]
  BY ClaimedPod
<1>1. /\ req'[r].pc = "reply" /\ req'[r].box = b
      /\ \A q \in Requests \ {r} : req'[q] = req[q]
  BY <1>0 DEF ClaimWins, TypeOK, Request
<1>2. LeaseState(b) = "warm" /\ LeaseAnswer(b) = "none"
  <2>1. "deletion" \notin pods[b].meta
    BY <1>a DEF IInv, ListedClaimable
  <2> QED BY <1>a, <2>1 DEF LeaseState, LeaseAnswer, Deleting
<1>3. /\ \A p \in Pods \ {b} : pods'[p] = pods[p]
      /\ pods'[b].pool = "claimed" /\ pods'[b].owner = o
      /\ pods'[b].phase = pods[b].phase
      /\ pods'[b].meta = pods[b].meta \cup {"expires"}
  <2>1. pods[b] \in Pod /\ pods \in [Pods -> Pod]
    BY <1>0 DEF TypeOK
  <2> QED BY <1>a, <2>1 DEF Pod
<1>4. LeaseState(b)' = "leased"
  BY <1>2, <1>3 DEF LeaseState, Exists, Deleting
<1>5. r \in Holders(b)' /\ \A p \in Pods \ {b} : Holders(p)' = Holders(p)
  <2>1. ASSUME NEW p \in Pods \ {b} PROVE Holders(p)' = Holders(p)
    BY <1>0, <1>1 DEF Holders
  <2> QED BY <1>1, <2>1 DEF Holders
<1>6. OneBox(b, "leased", o, "due")
  <2>1. LeaseAnswer(b)' = "due"
    BY <1>5 DEF LeaseAnswer
  <2>2. ASSUME NEW p \in Pods \ {b}
        PROVE  LeaseState(p)' = LeaseState(p) /\ LeaseAnswer(p)' = LeaseAnswer(p)
    BY <1>3, <1>5 DEF ClaimWins, LeaseState, LeaseAnswer, Exists, Deleting
  <2> QED BY <1>3, <1>4, <2>1, <2>2 DEF OneBox
<1>7. Lease!Grant(b, o)
  BY <1>2, <1>6 DEF OneBox, Lease!Grant
<1> QED BY <1>0, <1>7 DEF Lease!Next

\* The state of a new box, and of the others, after a create.
LEMMA AddBox ==
  ASSUME TypeOK, NEW b \in Pods, NEW pool \in {"warm", "claimed"}, NEW o, NEW t,
         AddPod(b, NewPod(pool, o, t))
  PROVE  /\ LeaseState(b) = "free" /\ Holders(b) = {}
         /\ LeaseState(b)' = IF pool = "claimed" THEN "leased" ELSE "warm"
         /\ pods'[b].owner = o /\ handed'[b] = 0
         /\ \A p \in Pods \ {b} : /\ LeaseState(p)' = LeaseState(p)
                                  /\ pods'[p].owner = pods[p].owner
                                  /\ handed'[p] = handed[p]
<1>1. ~Exists(b) /\ Holders(b) = {}
  BY FreshTaken DEF AddPod, Fresh
<1>2. /\ pods'[b] = NewPod(pool, o, t) /\ handed'[b] = 0
      /\ \A p \in Pods \ {b} : pods'[p] = pods[p] /\ handed'[p] = handed[p]
  BY DEF AddPod, TypeOK
<1>3. /\ pods'[b].phase = "Pending" /\ "deletion" \notin pods'[b].meta
      /\ pods'[b].pool = pool /\ pods'[b].owner = o
  BY <1>2 DEF NewPod
<1>4. LeaseState(b)' = IF pool = "claimed" THEN "leased" ELSE "warm"
  BY <1>3 DEF LeaseState, Exists, Deleting
<1>5. ASSUME NEW p \in Pods \ {b} PROVE LeaseState(p)' = LeaseState(p)
  BY <1>2 DEF LeaseState, Exists, Deleting
<1> QED BY <1>1, <1>2, <1>3, <1>4, <1>5 DEF LeaseState

\* A cold create grants a new box.
LEMMA ColdGrants ==
  ASSUME IInv, NEW r \in Requests, NEW b \in Pods, ColdCreate(r, b)
  PROVE  Lease!Next
<1>0. TypeOK /\ req[r].pc = "claim" /\ req[r].owner \in Owners
  BY DEF IInv, ColdCreate, TypeOK, Request
<1> PICK o \in Owners : o = req[r].owner
  BY <1>0
<1>1. /\ req'[r].pc \in {"prepare", "reply"} /\ req'[r].box = b
      /\ \A q \in Requests \ {r} : req'[q] = req[q]
  BY <1>0 DEF ColdCreate, TypeOK, Request
<1>2. /\ LeaseState(b) = "free" /\ Holders(b) = {}
      /\ LeaseState(b)' = "leased"
      /\ pods'[b].owner = o
      /\ \A p \in Pods \ {b} : /\ LeaseState(p)' = LeaseState(p)
                               /\ pods'[p].owner = pods[p].owner
                               /\ handed'[p] = handed[p]
  BY <1>0, AddBox DEF ColdCreate
<1>3. r \in Holders(b)' /\ \A p \in Pods \ {b} : Holders(p)' = Holders(p)
  <2>1. ASSUME NEW p \in Pods \ {b} PROVE Holders(p)' = Holders(p)
    BY <1>0, <1>1 DEF Holders
  <2> QED BY <1>1, <2>1 DEF Holders
<1>4. OneBox(b, "leased", o, "due")
  BY <1>2, <1>3 DEF OneBox, LeaseAnswer
<1>5. LeaseAnswer(b) # "due"
  BY <1>2 DEF LeaseAnswer
<1>6. Lease!Grant(b, o)
  BY <1>2, <1>4, <1>5, OneBoxVars DEF Lease!Grant
<1> QED BY <1>0, <1>6 DEF Lease!Next

\* A warm create offers a new box.
LEMMA WarmOffers ==
  ASSUME IInv, NEW b \in Pods, CreateWarm(b)
  PROVE  Lease!Next
<1>0. TypeOK /\ pods[b].owner = None
  BY DEF IInv, AbsentIsBlank, Absent, CreateWarm, AddPod, Fresh
<1>1. /\ LeaseState(b) = "free" /\ Holders(b) = {}
      /\ LeaseState(b)' = "warm"
      /\ pods'[b].owner = None /\ handed'[b] = 0
      /\ \A p \in Pods \ {b} : /\ LeaseState(p)' = LeaseState(p)
                               /\ pods'[p].owner = pods[p].owner
                               /\ handed'[p] = handed[p]
  BY <1>0, AddBox DEF CreateWarm
<1>2. \A p \in Pods : Holders(p)' = Holders(p)
  BY DEF CreateWarm, Holders
<1>3. OneBox(b, "warm", None, "none") /\ LeaseAnswer(b) # "due"
  BY <1>1, <1>2 DEF OneBox, LeaseAnswer
<1>4. Lease!Offer(b)
  BY <1>0, <1>1, <1>3, OneBoxVars DEF Lease!Offer
<1> QED BY <1>4 DEF Lease!Next

\* The response to the client is the answer: the request was its only holder.
LEMMA ReplyAnswers ==
  ASSUME IInv, NEW r \in Requests, Reply(r)
  PROVE  Lease!Next
<1>0. TypeOK /\ req[r].box \in Pods /\ r \in Holders(req[r].box)
  BY BoxTyped DEF IInv, Reply, Holders
<1> PICK b \in Pods : b = req[r].box
  BY <1>0
<1>1. Holders(b) = {r} /\ handed[b] = 0
  BY <1>0 DEF IInv, AtMostOneTaker
<1>2. /\ handed'[b] = 1 /\ \A p \in Pods \ {b} : handed'[p] = handed[p]
      /\ req'[r] = IdleReq /\ \A q \in Requests \ {r} : req'[q] = req[q]
      /\ pods' = pods
  BY <1>0, <1>1 DEF Reply, TypeOK
<1>3. Holders(b)' = {} /\ \A p \in Pods \ {b} : Holders(p)' = Holders(p)
  <2>1. ASSUME NEW p \in Pods, NEW q \in Requests \ {r}
        PROVE  q \in Holders(p)' <=> q \in Holders(p)
    BY <1>2 DEF Holders
  <2>2. \A p \in Pods : r \notin Holders(p)' /\ (p # b => r \notin Holders(p))
    BY <1>2 DEF Holders, IdleReq
  <2> QED BY <1>1, <2>1, <2>2 DEF Holders
<1>4. OneBox(b, LeaseState(b), pods[b].owner, "told") /\ LeaseAnswer(b) = "due"
  BY <1>1, <1>2, <1>3 DEF OneBox, LeaseState, LeaseAnswer, Exists, Deleting
<1>5. Lease!Answer(b)
  BY <1>4 DEF OneBox, Lease!Answer
<1> QED BY <1>0, <1>5 DEF Lease!Next

\* Requests that end without an answer lose the answers they owed.
LEMMA EndedRequestsLose ==
  ASSUME IInv, UNCHANGED <<pods, handed>>,
         \A r \in Requests : req'[r] = req[r] \/ req'[r] = IdleReq
  PROVE  Lease!Next
<1> DEFINE B == {p \in Pods : Holders(p) # {} /\ Holders(p)' = {}}
<1>1. ASSUME NEW p \in Pods PROVE Holders(p)' \subseteq Holders(p)
  BY DEF Holders, IdleReq
<1>2. ASSUME NEW p \in Pods
      PROVE  /\ LeaseState(p)' = LeaseState(p)
             /\ LeaseAnswer(p)' = IF p \in B THEN "none" ELSE LeaseAnswer(p)
             /\ p \in B => LeaseAnswer(p) = "due"
  <2>1. LeaseState(p)' = LeaseState(p)
    BY DEF LeaseState, Exists, Deleting
  <2>2. Holders(p) # {} => handed[p] = 0
    BY DEF IInv, AtMostOneTaker
  <2> QED BY <1>1, <2>1, <2>2 DEF LeaseAnswer
<1>3. Lease!Lose
  BY <1>2 DEF Lease!Lose
<1> QED BY <1>3 DEF Lease!Next

\* Whoever deletes a pod closes its box, if it was open.
LEMMA MarkCloses ==
  ASSUME IInv, NEW b \in Pods, MarkDeleted(b),
         \A p \in Pods : Holders(p)' = Holders(p), UNCHANGED handed
  PROVE  Lease!Next \/ UNCHANGED Lease!leaseVars
<1>0. TypeOK /\ PodsKept
  BY MarkKeeps DEF IInv
<1>1. \A p \in Pods : LeaseAnswer(p)' = LeaseAnswer(p)
  BY DEF LeaseAnswer
<1>2. \A p \in Pods \ {b} : Deleting(p)' <=> Deleting(p)
  BY <1>0 DEF MarkDeleted, Write, Deleting, TypeOK
<1>3. ASSUME Exists(b), ~Deleting(b)
      PROVE  Lease!Next
  <2>1. Deleting(b)'
    BY <1>0, <1>3 DEF MarkDeleted, Write, Deleting, TypeOK, Pod
  <2>2. LeaseState(b) \in {"warm", "leased"} /\ LeaseState(b)' = "closing"
    BY <1>0, <1>3, <2>1 DEF LeaseState, PodsKept
  <2>3. OneBox(b, "closing", pods[b].owner, LeaseAnswer(b))
    BY <1>0, <1>1, <1>2, <2>2 DEF OneBox, LeaseState, PodsKept
  <2>4. Lease!Close(b)
    BY <2>2, <2>3 DEF OneBox, Lease!Close
  <2> QED BY <2>4 DEF Lease!Next
<1>4. ASSUME ~Exists(b) \/ Deleting(b)
      PROVE  UNCHANGED Lease!leaseVars
  <2>1. Exists(b) => (Deleting(b)' <=> Deleting(b))
    BY <1>0, <1>4 DEF MarkDeleted, Write, Deleting, TypeOK, Pod
  <2>2. \A p \in Pods : LeaseState(p)' = LeaseState(p)
    BY <1>0, <1>2, <2>1 DEF LeaseState, PodsKept
  <2> QED BY <1>0, <1>1, <2>2, LeaseVars DEF PodsKept
<1> QED BY <1>3, <1>4

\* A pod that is gone frees its box; an answer owed for it stays owed.
LEMMA GoneFrees ==
  ASSUME IInv, NEW b \in Pods, PodGone(b)
  PROVE  Lease!Next
<1>0. TypeOK /\ Exists(b) /\ Deleting(b)
  BY DEF IInv, AbsentIsBlank, Absent, PodGone, Deleting
<1>1. /\ pods'[b] = Absent /\ handed'[b] = 0
      /\ \A p \in Pods \ {b} : pods'[p] = pods[p] /\ handed'[p] = handed[p]
  BY <1>0 DEF PodGone, TypeOK
<1>2. \A p \in Pods : Holders(p)' = Holders(p)
  BY DEF PodGone, Holders
<1>3. LeaseState(b) = "closing" /\ LeaseState(b)' = "free" /\ pods'[b].owner = None
  BY <1>0, <1>1 DEF LeaseState, Exists, Absent
<1>4. LeaseAnswer(b)' = IF LeaseAnswer(b) = "told" THEN "none" ELSE LeaseAnswer(b)
  BY <1>1, <1>2 DEF LeaseAnswer
<1>5. OneBox(b, "free", None,
             IF LeaseAnswer(b) = "told" THEN "none" ELSE LeaseAnswer(b))
  BY <1>1, <1>2, <1>3, <1>4 DEF OneBox, LeaseState, LeaseAnswer, Exists, Deleting
<1>6. Lease!Free(b)
  BY <1>3, <1>5, OneBoxVars DEF Lease!Free
<1> QED BY <1>6 DEF Lease!Next

(* ----------------------------- The theorem ------------------------------ *)

\* No pod, no request: every box is free.
LEMMA LeaseInit == Init => Lease!Init
<1> SUFFICES ASSUME Init PROVE Lease!Init
  OBVIOUS
<1>1. ASSUME NEW p \in Pods
      PROVE  /\ LeaseState(p) = "free" /\ pods[p].owner = None
             /\ LeaseAnswer(p) = "none"
  BY DEF Init, LeaseState, LeaseAnswer, Exists, Absent, Holders, IdleReq
<1> QED BY <1>1 DEF Lease!Init

\* Every step of the warm pool is a step of the lessor, or none.
LEMMA LeaseStep == IInv /\ [Next]_vars => [Lease!Next]_Lease!leaseVars
<1> DEFINE Goal == Lease!Next \/ UNCHANGED Lease!leaseVars
<1> SUFFICES ASSUME IInv, [Next]_vars PROVE Goal
  OBVIOUS
<1>0. TypeOK
  BY DEF IInv
<1>1. ASSUME NEW r \in Requests, NEW o \in Owners, NEW t \in Templates,
             CreateBegin(r, o, t)
      PROVE  Goal
  BY <1>0, <1>1, QuietRequest DEF CreateBegin, IdleReq
<1>2. ASSUME NEW r \in Requests, NEW c \in req[r].cand, ClaimWins(r, c)
      PROVE  Goal
  BY <1>2, ClaimGrants
<1>3. ASSUME NEW r \in Requests, NEW c \in req[r].cand, ClaimConflicts(r, c)
      PROVE  Goal
  <2>1. [req[r] EXCEPT !.cand = @ \ {c}].pc = "claim"
    BY <1>0, <1>3 DEF ClaimConflicts, TypeOK, Request
  <2> QED BY <1>0, <1>3, <2>1, QuietRequest DEF ClaimConflicts
<1>4. ASSUME NEW r \in Requests, NEW p \in Pods, ColdCreate(r, p)
      PROVE  Goal
  BY <1>4, ColdGrants
<1>5. ASSUME NEW r \in Requests, ColdPrepare(r)
      PROVE  Goal
  <2>1. /\ [req[r] EXCEPT !.pc = "reply"].pc = "reply"
        /\ [req[r] EXCEPT !.pc = "reply"].box = req[r].box
    BY <1>0 DEF TypeOK, Request
  <2> QED BY <1>0, <1>5, <2>1, QuietRequest DEF ColdPrepare
<1>6. ASSUME NEW r \in Requests, Reply(r)
      PROVE  Goal
  BY <1>6, ReplyAnswers
<1>7. ASSUME NEW r \in Requests, Abandon(r)
      PROVE  Goal
  <2>1. \A q \in Requests : req'[q] = req[q] \/ req'[q] = IdleReq
    BY <1>0, <1>7 DEF Abandon, TypeOK
  <2> QED BY <1>7, <2>1, EndedRequestsLose DEF Abandon
<1>8. ASSUME NEW r \in Requests, NEW o \in Owners \cup {None}, NEW p \in Pods,
             DeleteBegin(r, o, p)
      PROVE  Goal
  <2>1. /\ req[r].pc = "idle"
        /\ [IdleReq EXCEPT !.pc = "delete", !.owner = o, !.box = p].pc = "delete"
    BY <1>8 DEF DeleteBegin, IdleReq
  <2> QED BY <1>0, <1>8, <2>1, QuietRequest DEF DeleteBegin
<1>9. ASSUME NEW r \in Requests, DeletePod(r)
      PROVE  Goal
  <2>1. req[r].box \in Pods /\ MarkDeleted(req[r].box)
    BY <1>0, <1>9, BoxTyped DEF DeletePod
  <2>2. ASSUME NEW p \in Pods PROVE Holders(p)' = Holders(p)
    BY <1>0, <1>9 DEF DeletePod, TypeOK, IdleReq, Holders
  <2> QED BY <1>9, <2>1, <2>2, MarkCloses DEF DeletePod
<1>10. ASSUME NEW p \in Pods, JanitorDelete(p) \/ DeleteSurplus(p)
       PROVE  Goal
  <2>1. MarkDeleted(p) /\ UNCHANGED <<req, handed>>
    BY <1>10 DEF JanitorDelete, DeleteSurplus
  <2>2. \A q \in Pods : Holders(q)' = Holders(q)
    BY <2>1 DEF Holders
  <2> QED BY <2>1, <2>2, MarkCloses
<1>11. ASSUME NEW p \in Pods, CreateWarm(p)
       PROVE  Goal
  BY <1>11, WarmOffers
<1>12. ASSUME NEW p \in Pods, PodRuns(p) \/ PodFails(p) \/ PreparePatch(p)
       PROVE  Goal
  <2>1. pods[p] \in Pod /\ UNCHANGED <<req, handed>>
    BY <1>0, <1>12 DEF TypeOK, PodRuns, PodFails, PreparePatch
  <2>2. ASSUME NEW q \in Pods
        PROVE  /\ Exists(q)' <=> Exists(q)
               /\ pods'[q].pool = pods[q].pool
               /\ pods'[q].owner = pods[q].owner
               /\ pods'[q].tmpl = pods[q].tmpl
               /\ Deleting(q)' <=> Deleting(q)
    BY <1>0, <1>12, <2>1
       DEF PodRuns, PodFails, PreparePatch, Write, Exists, Deleting, Pod, TypeOK
  <2> QED BY <2>1, <2>2, QuietPod DEF PodsKept
<1>13. ASSUME NEW p \in Pods, PodGone(p)
       PROVE  Goal
  BY <1>13, GoneFrees
<1>14. CASE Crash
  BY <1>14, EndedRequestsLose DEF Crash
<1>15. CASE UNCHANGED <<pods, req, handed>>
  BY <1>15, QuietStep
<1>16. CASE UNCHANGED vars
  BY <1>15, <1>16 DEF vars
<1>17. ASSUME NEW r \in Requests, Handler(r)
       PROVE  Goal
  BY <1>1, <1>2, <1>3, <1>4, <1>5, <1>6, <1>7, <1>8, <1>9, <1>17 DEF Handler
<1>18. CASE Janitor
  BY <1>10, <1>15, <1>18 DEF Janitor, JanitorList, JanitorSkip
<1>19. CASE Reconciler
  BY <1>10, <1>11, <1>15, <1>19
     DEF Reconciler, ReconcileList, CreateWarmFails, ReconcilePrepare,
         DeleteSurplusFails
<1>20. ASSUME NEW p \in Pods, Setup(p) \/ Cluster(p)
       PROVE  Goal
  BY <1>12, <1>13, <1>15, <1>20
     DEF Setup, Cluster, PrepareExec, PrepareFails, Expire
<1>21. CASE Recover
  BY <1>15, <1>21 DEF Recover
<1> QED BY <1>14, <1>16, <1>17, <1>18, <1>19, <1>20, <1>21 DEF Next

\* The handlers, the loops and the cluster together are a lessor of boxes: each
\* box is granted to one user at most once, never returns to the pool, and its
\* grant is answered at most once.
THEOREM BoxesAreLeasedHolds == Spec => BoxesAreLeased
<1> QED
  BY LeaseInit, LeaseStep, InvariantHolds, PTL DEF Spec, BoxesAreLeased, Lease!Spec

=============================================================================
