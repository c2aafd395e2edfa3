--------------------------- MODULE WarmPoolProofs ---------------------------
(* Proofs about WarmPool, for every value of its constants.                *)
EXTENDS WarmPool, FiniteSetTheorems, TLAPS

USE DEF Phases, Marks

(* ------------------------- Type correctness ---------------------------- *)

\* The record of a pod that is not there is a pod record.
LEMMA AbsentTyped == Absent \in Pod
  BY DEF Absent, Pod

\* New pods have the right type.
LEMMA NewPodTyped ==
  ASSUME NEW pool \in {"warm", "claimed"}, NEW o \in Owners \cup {None},
         NEW t \in Templates \cup {None}
  PROVE  NewPod(pool, o, t) \in Pod
  BY DEF NewPod, Pod

\* A request and a reconciler at rest are well-typed.
LEMMA IdleTyped == IdleReq \in Request /\ IdleRec \in Reconcile
<1>1. IdleReq \in Request
  BY DEF IdleReq, Request
<1>2. IdleRec \in Reconcile
  BY DEF IdleRec, Reconcile
<1> QED BY <1>1, <1>2

\* A request that works on a box works on one of Pods.
LEMMA BoxTyped ==
  ASSUME TypeOK, NEW r \in Requests, req[r].pc \notin {"idle", "claim"}
  PROVE  req[r].box \in Pods
  BY DEF TypeOK, Request

\* The initial state is well-typed.
LEMMA TypeInit == Init => TypeOK
  BY AbsentTyped, IdleTyped DEF Init, TypeOK

\* Deleting keeps the type of the pods.
LEMMA MarkTyped ==
  ASSUME TypeOK, NEW p \in Pods, MarkDeleted(p)
  PROVE  pods' \in [Pods -> Pod]
  BY DEF TypeOK, MarkDeleted, Write, Pod

\* Every step, one action after the other, keeps states well-typed.
LEMMA TypeNext == TypeOK /\ [Next]_vars => TypeOK'
<1> SUFFICES ASSUME TypeOK, [Next]_vars PROVE TypeOK'
  OBVIOUS
<1>1. ASSUME NEW r \in Requests, NEW o \in Owners, NEW t \in Templates,
             CreateBegin(r, o, t)
      PROVE  TypeOK'
  <2> DEFINE C == {[id |-> p, pod |-> pods[p]] : p \in {q \in Pods : Claimable(q, t)}}
  <2>1. C \subseteq Listed
    BY DEF TypeOK, Listed
  <2>2. [pc |-> "claim", owner |-> o, tmpl |-> t, box |-> None, cand |-> C] \in Request
    BY <2>1 DEF Request
  <2>3. req' \in [Requests -> Request]
    BY <1>1, <2>2 DEF CreateBegin, TypeOK
  <2> QED BY <1>1, <2>3 DEF CreateBegin, TypeOK
<1>2. ASSUME NEW r \in Requests, NEW c \in req[r].cand, ClaimWins(r, c)
      PROVE  TypeOK'
  <2>1. c \in Listed /\ req[r].owner \in Owners \cup {None}
    BY DEF TypeOK, Request
  <2>2. [c.pod EXCEPT !.pool = "claimed", !.owner = req[r].owner,
                      !.meta = @ \cup {"expires"}] \in Pod
    BY <2>1 DEF Listed, Pod
  <2>3. pods' \in [Pods -> Pod]
    BY <1>2, <2>1, <2>2 DEF ClaimWins, Write, TypeOK, Listed
  <2>4. req' \in [Requests -> Request]
    BY <1>2, <2>1 DEF ClaimWins, TypeOK, Listed, Request
  <2> QED BY <1>2, <2>3, <2>4 DEF ClaimWins, TypeOK
<1>3. ASSUME NEW r \in Requests, NEW c \in req[r].cand, ClaimConflicts(r, c)
      PROVE  TypeOK'
  BY <1>3 DEF ClaimConflicts, TypeOK, Request
<1>4. ASSUME NEW r \in Requests, NEW p \in Pods, ColdCreate(r, p)
      PROVE  TypeOK'
  <2>1. NewPod("claimed", req[r].owner, req[r].tmpl) \in Pod
    BY NewPodTyped DEF TypeOK, Request
  <2>2. req' \in [Requests -> Request]
    <3>1. p # None
      BY WarmPoolAssumption
    <3>2. [req[r] EXCEPT !.pc = IF req[r].tmpl \in Scripted
                                  THEN "prepare" ELSE "reply",
                         !.box = p] \in Request
      BY <3>1 DEF TypeOK, Request
    <3> QED BY <1>4, <3>2 DEF ColdCreate, TypeOK
  <2> QED BY <1>4, <2>1, <2>2 DEF ColdCreate, AddPod, TypeOK
<1>5. ASSUME NEW r \in Requests, ColdPrepare(r) \/ Reply(r) \/ Abandon(r)
      PROVE  TypeOK'
  <2>1. CASE ColdPrepare(r)
    <3>1. req' \in [Requests -> Request]
      BY <2>1 DEF ColdPrepare, TypeOK, Request
    <3>2. setup' \subseteq Pods
      BY <2>1, BoxTyped DEF ColdPrepare, TypeOK
    <3> QED BY <2>1, <3>1, <3>2 DEF ColdPrepare, TypeOK
  <2>2. CASE Reply(r)
    <3>1. req[r].box \in Pods /\ handed[req[r].box] + 1 \in Nat
      BY <2>2, BoxTyped DEF Reply, TypeOK
    <3>2. handed' \in [Pods -> Nat]
      BY <2>2, <3>1 DEF Reply, TypeOK
    <3> QED BY <2>2, <3>2, IdleTyped DEF Reply, TypeOK
  <2>3. CASE Abandon(r)
    BY <2>3, IdleTyped DEF Abandon, TypeOK
  <2> QED BY <1>5, <2>1, <2>2, <2>3
<1>6. ASSUME NEW r \in Requests, NEW o \in Owners \cup {None}, NEW p \in Pods,
             DeleteBegin(r, o, p)
      PROVE  TypeOK'
  <2>1. [IdleReq EXCEPT !.pc = "delete", !.owner = o, !.box = p] \in Request
    BY WarmPoolAssumption, IdleTyped DEF Request, IdleReq
  <2> QED BY <1>6, <2>1 DEF DeleteBegin, TypeOK
<1>7. ASSUME NEW r \in Requests, DeletePod(r)
      PROVE  TypeOK'
  <2>1. pods' \in [Pods -> Pod]
    BY <1>7, BoxTyped, MarkTyped DEF DeletePod
  <2> QED BY <1>7, <2>1, IdleTyped DEF DeletePod, TypeOK
<1>8. CASE JanitorList
  BY <1>8 DEF JanitorList, TypeOK
<1>9. ASSUME NEW p \in Pods, JanitorDelete(p) \/ JanitorSkip(p)
      PROVE  TypeOK'
  BY <1>9, MarkTyped DEF JanitorDelete, JanitorSkip, TypeOK
<1>10. ASSUME NEW t \in Templates, ReconcileList(t)
       PROVE  TypeOK'
  <2>1. PICK d \in Desired[t], V \in SUBSET Live(t) :
          LET live    == Live(t)
              n       == Cardinality(live)
              unready == {p \in live : ~IsReady(p) /\ pods[p].phase = "Running"}
          IN rec' = [tmpl |-> t, prepare |-> unready,
                     create |-> IF n < d THEN d - n ELSE 0,
                     unready |-> {p \in V : ~IsReady(p)},
                     ready |-> {p \in V : IsReady(p)}]
    BY <1>10 DEF ReconcileList, Victims
  <2>2. Live(t) \subseteq Pods /\ d \in Nat
    BY WarmPoolAssumption DEF Live
  <2>3. (IF Cardinality(Live(t)) < d THEN d - Cardinality(Live(t)) ELSE 0) \in Nat
    <3>1. Cardinality(Live(t)) \in Nat
      BY <2>2, WarmPoolAssumption, FS_Subset, FS_CardinalityType
    <3> QED BY <2>2, <3>1
  <2>4. rec' \in Reconcile
    BY <2>1, <2>2, <2>3 DEF Reconcile
  <2> QED BY <1>10, <2>4 DEF ReconcileList, TypeOK
<1>11. ASSUME NEW p \in Pods, ReconcilePrepare(p)
       PROVE  TypeOK'
  BY <1>11 DEF ReconcilePrepare, TypeOK, Reconcile
<1>12. ASSUME NEW p \in Pods, CreateWarm(p)
       PROVE  TypeOK'
  <2>1. NewPod("warm", None, rec.tmpl) \in Pod
    BY NewPodTyped DEF TypeOK, Reconcile
  <2> QED BY <1>12, <2>1 DEF CreateWarm, AddPod, TypeOK, Reconcile
<1>13. CASE CreateWarmFails
  BY <1>13 DEF CreateWarmFails, TypeOK, Reconcile
<1>14. ASSUME NEW p \in Pods, DeleteSurplus(p) \/ DeleteSurplusFails(p)
       PROVE  TypeOK'
  <2>1. rec' \in Reconcile
    <3>1. rec' = [rec EXCEPT !.unready = @ \ {p}, !.ready = @ \ {p}]
      BY <1>14 DEF DeleteSurplus, DeleteSurplusFails, DropVictim
    <3> QED BY <3>1 DEF TypeOK, Reconcile
  <2> QED BY <1>14, <2>1, MarkTyped DEF DeleteSurplus, DeleteSurplusFails, TypeOK
<1>15. ASSUME NEW p \in Pods, Setup(p)
       PROVE  TypeOK'
  <2>1. [pods[p] EXCEPT !.meta = @ \cup {"ready"}] \in Pod
    BY DEF TypeOK, Pod
  <2> QED
    BY <1>15, <2>1 DEF Setup, PrepareExec, PreparePatch, PrepareFails, Write, TypeOK
<1>16. ASSUME NEW p \in Pods, Cluster(p)
       PROVE  TypeOK'
  <2>1. /\ [pods[p] EXCEPT !.phase = "Running"] \in Pod
        /\ [pods[p] EXCEPT !.phase = "Failed"] \in Pod
    <3>1. pods[p] \in Pod
      BY DEF TypeOK
    <3> QED BY <3>1 DEF Pod
  <2>2. CASE PodRuns(p) \/ PodFails(p)
    BY <2>1, <2>2 DEF PodRuns, PodFails, Write, TypeOK
  <2>3. CASE PodGone(p)
    BY <2>3, AbsentTyped DEF PodGone, TypeOK
  <2>4. CASE Expire(p)
    BY <2>4 DEF Expire, TypeOK
  <2> QED BY <1>16, <2>2, <2>3, <2>4 DEF Cluster
<1>17. CASE Crash \/ Recover
  BY <1>17, IdleTyped DEF Crash, Recover, TypeOK
<1>18. CASE UNCHANGED vars
  BY <1>18 DEF vars, TypeOK
<1> QED
  BY <1>1, <1>2, <1>3, <1>4, <1>5, <1>6, <1>7, <1>8, <1>9, <1>10, <1>11, <1>12,
     <1>13, <1>14, <1>15, <1>16, <1>17, <1>18
     DEF Next, Handler, Janitor, Reconciler

\* Every reachable state is well-typed, for any pods, requests and templates.
THEOREM TypeCorrect == Spec => []TypeOK
<1> QED BY TypeInit, TypeNext, PTL DEF Spec

=============================================================================
