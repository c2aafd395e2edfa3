------------------------ MODULE PersistentBoxesProofs ------------------------
(* Proofs about PersistentBoxes, for any boxes, users and requests: the     *)
(* inductive invariant is BInv, with one lemma per action.                  *)
EXTENDS PersistentBoxesInv, TLAPS

\* The first call of a create: the id is new, so no handler and nothing else knows it.
LEMMA CreateVolumeInv ==
  ASSUME BInv, NEW r \in Requests, NEW o \in Owners, NEW b \in Boxes, CreateVolume(r, o, b)
  PROVE  BInv'
<1>1. TypeOK'
  BY DEF BInv, TypeOK, Request, Fresh, IdleReq, Deployed, CreateVolume
<1>2. DeploymentHasVolume'
  BY DEF BInv, TypeOK, Request, DeploymentHasVolume, Deployed, Fresh, IdleReq,
         CreateVolume
<1>3. SoleIsAlone'
  BY DEF BInv, TypeOK, Request, SoleIsAlone, At, Sole, Fresh, IdleReq,
         Deployed, CreateVolume
<1>4. CreateOwnsVolume'
  BY DEF BInv, TypeOK, Request, CreateOwnsVolume, At, Deployed, Fresh,
         IdleReq, CreateVolume
<1>5. DeleteFollowsDeployment'
  BY DEF BInv, TypeOK, Request, DeleteFollowsDeployment, At, Deployed, Fresh,
         IdleReq, CreateVolume
<1>6. AckIsFinal'
  BY DEF BInv, TypeOK, Request, AckIsFinal, At, Sole, Deployed, Fresh,
         IdleReq, CreateVolume
<1>7. DeleteAuthorized'
  BY DEF BInv, TypeOK, Request, DeleteAuthorized, At, Deployed, Fresh,
         IdleReq, CreateVolume
<1>8. OrphanHasCause'
  BY DEF BInv, TypeOK, Request, OrphanHasCause, At, Deployed, Fresh, IdleReq,
         CreateVolume
<1> QED BY <1>1, <1>2, <1>3, <1>4, <1>5, <1>6, <1>7, <1>8 DEF BInv

\* The volume is there, and nobody else works on the box.
LEMMA CreateDeploymentInv ==
  ASSUME BInv, NEW r \in Requests, CreateDeployment(r)
  PROVE  BInv'
<1>1. TypeOK'
  BY DEF BInv, TypeOK, Request, CreateDeployment
<1>2. DeploymentHasVolume'
  BY DEF BInv, TypeOK, Request, DeploymentHasVolume, CreateOwnsVolume,
         Deployed, At, CreateDeployment
<1>3. SoleIsAlone'
  BY DEF BInv, TypeOK, Request, SoleIsAlone, At, Sole, CreateDeployment
<1>4. CreateOwnsVolume'
  BY DEF BInv, TypeOK, Request, CreateOwnsVolume, At, Deployed,
         CreateDeployment
<1>5. DeleteFollowsDeployment'
  BY DEF BInv, TypeOK, Request, DeleteFollowsDeployment, SoleIsAlone, At,
         Deployed, Sole, CreateDeployment
<1>6. AckIsFinal'
  BY DEF BInv, TypeOK, Request, AckIsFinal, At, Sole, Deployed,
         CreateDeployment
<1>7. DeleteAuthorized'
  BY DEF BInv, TypeOK, Request, DeleteAuthorized, CreateOwnsVolume, At,
         Deployed, CreateDeployment
<1>8. OrphanHasCause'
  BY PersistentBoxesAssumption DEF BInv, TypeOK, Request, OrphanHasCause,
         CreateOwnsVolume, At, Deployed, CreateDeployment
<1> QED BY <1>1, <1>2, <1>3, <1>4, <1>5, <1>6, <1>7, <1>8 DEF BInv

\* Preparing the box changes none of its objects.
LEMMA PrepareInv ==
  ASSUME BInv, NEW r \in Requests, Prepare(r)
  PROVE  BInv'
<1>1. TypeOK'
  BY DEF BInv, TypeOK, Request, Prepare
<1>2. DeploymentHasVolume'
  BY DEF BInv, TypeOK, Request, DeploymentHasVolume, Deployed, Prepare
<1>3. SoleIsAlone'
  BY DEF BInv, TypeOK, Request, SoleIsAlone, At, Sole, Prepare
<1>4. CreateOwnsVolume'
  BY DEF BInv, TypeOK, Request, CreateOwnsVolume, At, Deployed, Prepare
<1>5. DeleteFollowsDeployment'
  BY DEF BInv, TypeOK, Request, DeleteFollowsDeployment, At, Deployed, Prepare
<1>6. AckIsFinal'
  BY DEF BInv, TypeOK, Request, AckIsFinal, At, Sole, Deployed, Prepare
<1>7. DeleteAuthorized'
  BY DEF BInv, TypeOK, Request, DeleteAuthorized, At, Deployed, Prepare
<1>8. OrphanHasCause'
  BY DEF BInv, TypeOK, Request, OrphanHasCause, At, Deployed, Prepare
<1> QED BY <1>1, <1>2, <1>3, <1>4, <1>5, <1>6, <1>7, <1>8 DEF BInv

\* A handler that ends well owes the box nothing.
LEMMA ReplyInv ==
  ASSUME BInv, NEW r \in Requests, Reply(r)
  PROVE  BInv'
<1>1. TypeOK'
  BY DEF BInv, TypeOK, Request, IdleReq, Reply
<1>2. DeploymentHasVolume'
  BY DEF BInv, TypeOK, Request, DeploymentHasVolume, Deployed, IdleReq, Reply
<1>3. SoleIsAlone'
  BY DEF BInv, TypeOK, Request, SoleIsAlone, At, Sole, IdleReq, Reply
<1>4. CreateOwnsVolume'
  BY DEF BInv, TypeOK, Request, CreateOwnsVolume, At, Deployed, IdleReq, Reply
<1>5. DeleteFollowsDeployment'
  BY DEF BInv, TypeOK, Request, DeleteFollowsDeployment, At, Deployed,
         IdleReq, Reply
<1>6. AckIsFinal'
  BY DEF BInv, TypeOK, Request, AckIsFinal, At, Sole, Deployed, IdleReq, Reply
<1>7. DeleteAuthorized'
  BY DEF BInv, TypeOK, Request, DeleteAuthorized, At, Deployed, IdleReq, Reply
<1>8. OrphanHasCause'
  BY DEF BInv, TypeOK, Request, OrphanHasCause, At, Deployed, IdleReq, Reply
<1> QED BY <1>1, <1>2, <1>3, <1>4, <1>5, <1>6, <1>7, <1>8 DEF BInv

\* A handler that gives up between its two calls leaves a note.
LEMMA AbandonInv ==
  ASSUME BInv, NEW r \in Requests, Abandon(r)
  PROVE  BInv'
<1>1. TypeOK'
  <2>1. Halfway(r) \subseteq {"create", "delete"}
    BY DEF Halfway
  <2> QED BY <2>1 DEF BInv, TypeOK, Request, IdleReq, Abandon
<1>2. DeploymentHasVolume'
  BY DEF BInv, TypeOK, Request, DeploymentHasVolume, Deployed, IdleReq,
         Abandon
<1>3. SoleIsAlone'
  BY DEF BInv, TypeOK, Request, SoleIsAlone, At, Sole, IdleReq, Abandon
<1>4. CreateOwnsVolume'
  BY DEF BInv, TypeOK, Request, CreateOwnsVolume, At, Deployed, IdleReq,
         Abandon
<1>5. DeleteFollowsDeployment'
  BY DEF BInv, TypeOK, Request, DeleteFollowsDeployment, At, Deployed,
         IdleReq, Abandon
<1>6. AckIsFinal'
  BY DEF BInv, TypeOK, Request, AckIsFinal, At, Sole, Deployed, IdleReq,
         Abandon
<1>7. DeleteAuthorized'
  BY DEF BInv, TypeOK, Request, DeleteAuthorized, At, Deployed, IdleReq,
         Abandon
<1>8. OrphanHasCause'
  <2> SUFFICES ASSUME NEW b \in Boxes, pvc'[b] = "present", ~Deployed(b)',
                      left'[b] = {}
               PROVE  \E s \in Requests : At(s, b, {"deploy", "delpvc"})'
    BY DEF OrphanHasCause
  <2>1. pvc[b] = "present" /\ ~Deployed(b) /\ left[b] = {}
    BY DEF BInv, TypeOK, Abandon, Deployed
  <2>2. PICK s \in Requests : At(s, b, {"deploy", "delpvc"})
    BY <2>1 DEF BInv, OrphanHasCause
  <2>3. s # r
    <3> SUFFICES ASSUME s = r PROVE FALSE
      OBVIOUS
    <3>1. req[r].box = b /\ Halfway(r) # {}
      BY <2>2 DEF At, Halfway
    <3>2. left'[b] = left[b] \cup Halfway(r)
      BY <3>1 DEF BInv, TypeOK, Abandon
    <3> QED BY <3>1, <3>2
  <2>4. req'[s] = req[s]
    BY <2>3 DEF BInv, TypeOK, Abandon
  <2> QED BY <2>2, <2>4 DEF At
<1> QED BY <1>1, <1>2, <1>3, <1>4, <1>5, <1>6, <1>7, <1>8 DEF BInv

\* A delete starts on a box that has a Deployment, so that no create is halfway.
LEMMA DeleteBeginInv ==
  ASSUME BInv, NEW r \in Requests, NEW o \in Owners \cup {None}, NEW b \in Boxes, DeleteBegin(r, o, b)
  PROVE  BInv'
<1>1. TypeOK'
  BY PersistentBoxesAssumption DEF BInv, TypeOK, Request, IdleReq, Authorized,
         Deployed, DeleteBegin
<1>2. DeploymentHasVolume'
  BY DEF BInv, TypeOK, Request, DeploymentHasVolume, Deployed, IdleReq,
         Authorized, DeleteBegin
<1>3. SoleIsAlone'
  BY DEF BInv, TypeOK, Request, SoleIsAlone, At, Sole, IdleReq, Authorized,
         Deployed, DeleteBegin
<1>4. CreateOwnsVolume'
  BY DEF BInv, TypeOK, Request, CreateOwnsVolume, At, Deployed, IdleReq,
         Authorized, DeleteBegin
<1>5. DeleteFollowsDeployment'
  BY DEF BInv, TypeOK, Request, DeleteFollowsDeployment, At, Deployed,
         IdleReq, Authorized, DeleteBegin
<1>6. AckIsFinal'
  BY DEF BInv, TypeOK, Request, AckIsFinal, At, Sole, Deployed, IdleReq,
         Authorized, DeleteBegin
<1>7. DeleteAuthorized'
  BY DEF BInv, TypeOK, Request, DeleteAuthorized, At, Deployed, IdleReq,
         Authorized, DeleteBegin
<1>8. OrphanHasCause'
  BY DEF BInv, TypeOK, Request, OrphanHasCause, At, Deployed, IdleReq,
         Authorized, DeleteBegin
<1> QED BY <1>1, <1>2, <1>3, <1>4, <1>5, <1>6, <1>7, <1>8 DEF BInv

\* Only one of several deletes finds the Deployment.
LEMMA DeleteDeploymentInv ==
  ASSUME BInv, NEW r \in Requests, DeleteDeployment(r)
  PROVE  BInv'
<1>1. TypeOK'
  BY DEF BInv, TypeOK, Request, IdleReq, Deployed, DeleteDeployment
<1>2. DeploymentHasVolume'
  BY DEF BInv, TypeOK, Request, DeploymentHasVolume, Deployed, IdleReq,
         DeleteDeployment
<1>3. SoleIsAlone'
  BY DEF BInv, TypeOK, Request, SoleIsAlone, CreateOwnsVolume,
         DeleteFollowsDeployment, At, Sole, Deployed, IdleReq,
         DeleteDeployment
<1>4. CreateOwnsVolume'
  BY DEF BInv, TypeOK, Request, CreateOwnsVolume, At, Deployed, IdleReq,
         DeleteDeployment
<1>5. DeleteFollowsDeployment'
  BY DEF BInv, TypeOK, Request, DeleteFollowsDeployment, AckIsFinal, At,
         Deployed, Sole, IdleReq, DeleteDeployment
<1>6. AckIsFinal'
  BY DEF BInv, TypeOK, Request, AckIsFinal, At, Sole, Deployed, IdleReq,
         DeleteDeployment
<1>7. DeleteAuthorized'
  BY DEF BInv, TypeOK, Request, DeleteAuthorized, At, Deployed, IdleReq,
         DeleteDeployment
<1>8. OrphanHasCause'
  BY DEF BInv, TypeOK, Request, OrphanHasCause, At, Deployed, IdleReq,
         DeleteDeployment
<1> QED BY <1>1, <1>2, <1>3, <1>4, <1>5, <1>6, <1>7, <1>8 DEF BInv

\* The volume follows its Deployment.
LEMMA DeleteVolumeInv ==
  ASSUME BInv, NEW r \in Requests, DeleteVolume(r)
  PROVE  BInv'
<1>1. TypeOK'
  BY DEF BInv, TypeOK, Request, DeleteVolume
<1>2. DeploymentHasVolume'
  BY DEF BInv, TypeOK, Request, DeploymentHasVolume, DeleteFollowsDeployment,
         Deployed, At, DeleteVolume
<1>3. SoleIsAlone'
  BY DEF BInv, TypeOK, Request, SoleIsAlone, At, Sole, DeleteVolume
<1>4. CreateOwnsVolume'
  BY DEF BInv, TypeOK, Request, CreateOwnsVolume, At, Deployed, DeleteVolume
<1>5. DeleteFollowsDeployment'
  BY DEF BInv, TypeOK, Request, DeleteFollowsDeployment, At, Deployed,
         DeleteVolume
<1>6. AckIsFinal'
  BY DEF BInv, TypeOK, Request, AckIsFinal, At, Sole, Deployed, DeleteVolume
<1>7. DeleteAuthorized'
  BY DEF BInv, TypeOK, Request, DeleteAuthorized, At, Deployed, DeleteVolume
<1>8. OrphanHasCause'
  BY DEF BInv, TypeOK, Request, OrphanHasCause, At, Deployed, DeleteVolume
<1> QED BY <1>1, <1>2, <1>3, <1>4, <1>5, <1>6, <1>7, <1>8 DEF BInv

\* The delete that succeeded is the only one that is counted.
LEMMA AckInv ==
  ASSUME BInv, NEW r \in Requests, Ack(r)
  PROVE  BInv'
<1>1. TypeOK'
  BY DEF BInv, TypeOK, Request, IdleReq, Ack
<1>2. DeploymentHasVolume'
  BY DEF BInv, TypeOK, Request, DeploymentHasVolume, Deployed, IdleReq, Ack
<1>3. SoleIsAlone'
  BY DEF BInv, TypeOK, Request, SoleIsAlone, At, Sole, IdleReq, Ack
<1>4. CreateOwnsVolume'
  BY DEF BInv, TypeOK, Request, CreateOwnsVolume, At, Deployed, IdleReq, Ack
<1>5. DeleteFollowsDeployment'
  BY DEF BInv, TypeOK, Request, DeleteFollowsDeployment, SoleIsAlone, At,
         Deployed, Sole, IdleReq, Ack
<1>6. AckIsFinal'
  BY DEF BInv, TypeOK, Request, AckIsFinal, SoleIsAlone,
         DeleteFollowsDeployment, At, Sole, Deployed, IdleReq, Ack
<1>7. DeleteAuthorized'
  BY DEF BInv, TypeOK, Request, DeleteAuthorized, At, Deployed, IdleReq, Ack
<1>8. OrphanHasCause'
  BY DEF BInv, TypeOK, Request, OrphanHasCause, At, Deployed, IdleReq, Ack
<1> QED BY <1>1, <1>2, <1>3, <1>4, <1>5, <1>6, <1>7, <1>8 DEF BInv

\* Pods come and go without any effect on what handlers rely on.
LEMMA PodCreatedInv ==
  ASSUME BInv, NEW b \in Boxes, PodCreated(b)
  PROVE  BInv'
<1>1. TypeOK'
  BY DEF BInv, TypeOK, Request, Deployed, PodCreated
<1>2. DeploymentHasVolume'
  BY DEF BInv, TypeOK, Request, DeploymentHasVolume, Deployed, PodCreated
<1>3. SoleIsAlone'
  BY DEF BInv, TypeOK, Request, SoleIsAlone, At, Sole, Deployed, PodCreated
<1>4. CreateOwnsVolume'
  BY DEF BInv, TypeOK, Request, CreateOwnsVolume, At, Deployed, PodCreated
<1>5. DeleteFollowsDeployment'
  BY DEF BInv, TypeOK, Request, DeleteFollowsDeployment, At, Deployed,
         PodCreated
<1>6. AckIsFinal'
  BY DEF BInv, TypeOK, Request, AckIsFinal, At, Sole, Deployed, PodCreated
<1>7. DeleteAuthorized'
  BY DEF BInv, TypeOK, Request, DeleteAuthorized, At, Deployed, PodCreated
<1>8. OrphanHasCause'
  BY DEF BInv, TypeOK, Request, OrphanHasCause, At, Deployed, PodCreated
<1> QED BY <1>1, <1>2, <1>3, <1>4, <1>5, <1>6, <1>7, <1>8 DEF BInv

\* A pod that starts changes nothing the invariant speaks of.
LEMMA PodRunsInv ==
  ASSUME BInv, NEW b \in Boxes, PodRuns(b)
  PROVE  BInv'
<1>1. TypeOK'
  BY DEF BInv, TypeOK, Request, PodRuns
<1>2. DeploymentHasVolume'
  BY DEF BInv, TypeOK, Request, DeploymentHasVolume, Deployed, PodRuns
<1>3. SoleIsAlone'
  BY DEF BInv, TypeOK, Request, SoleIsAlone, At, Sole, PodRuns
<1>4. CreateOwnsVolume'
  BY DEF BInv, TypeOK, Request, CreateOwnsVolume, At, Deployed, PodRuns
<1>5. DeleteFollowsDeployment'
  BY DEF BInv, TypeOK, Request, DeleteFollowsDeployment, At, Deployed, PodRuns
<1>6. AckIsFinal'
  BY DEF BInv, TypeOK, Request, AckIsFinal, At, Sole, Deployed, PodRuns
<1>7. DeleteAuthorized'
  BY DEF BInv, TypeOK, Request, DeleteAuthorized, At, Deployed, PodRuns
<1>8. OrphanHasCause'
  BY DEF BInv, TypeOK, Request, OrphanHasCause, At, Deployed, PodRuns
<1> QED BY <1>1, <1>2, <1>3, <1>4, <1>5, <1>6, <1>7, <1>8 DEF BInv

\* Nor does a pod that is lost,
LEMMA PodLostInv ==
  ASSUME BInv, NEW b \in Boxes, PodLost(b)
  PROVE  BInv'
<1>1. TypeOK'
  BY DEF BInv, TypeOK, Request, PodLost
<1>2. DeploymentHasVolume'
  BY DEF BInv, TypeOK, Request, DeploymentHasVolume, Deployed, PodLost
<1>3. SoleIsAlone'
  BY DEF BInv, TypeOK, Request, SoleIsAlone, At, Sole, PodLost
<1>4. CreateOwnsVolume'
  BY DEF BInv, TypeOK, Request, CreateOwnsVolume, At, Deployed, PodLost
<1>5. DeleteFollowsDeployment'
  BY DEF BInv, TypeOK, Request, DeleteFollowsDeployment, At, Deployed, PodLost
<1>6. AckIsFinal'
  BY DEF BInv, TypeOK, Request, AckIsFinal, At, Sole, Deployed, PodLost
<1>7. DeleteAuthorized'
  BY DEF BInv, TypeOK, Request, DeleteAuthorized, At, Deployed, PodLost
<1>8. OrphanHasCause'
  BY DEF BInv, TypeOK, Request, OrphanHasCause, At, Deployed, PodLost
<1> QED BY <1>1, <1>2, <1>3, <1>4, <1>5, <1>6, <1>7, <1>8 DEF BInv

\* or collected.
LEMMA PodCollectedInv ==
  ASSUME BInv, NEW b \in Boxes, PodCollected(b)
  PROVE  BInv'
<1>1. TypeOK'
  BY DEF BInv, TypeOK, Request, Deployed, PodCollected
<1>2. DeploymentHasVolume'
  BY DEF BInv, TypeOK, Request, DeploymentHasVolume, Deployed, PodCollected
<1>3. SoleIsAlone'
  BY DEF BInv, TypeOK, Request, SoleIsAlone, At, Sole, Deployed, PodCollected
<1>4. CreateOwnsVolume'
  BY DEF BInv, TypeOK, Request, CreateOwnsVolume, At, Deployed, PodCollected
<1>5. DeleteFollowsDeployment'
  BY DEF BInv, TypeOK, Request, DeleteFollowsDeployment, At, Deployed,
         PodCollected
<1>6. AckIsFinal'
  BY DEF BInv, TypeOK, Request, AckIsFinal, At, Sole, Deployed, PodCollected
<1>7. DeleteAuthorized'
  BY DEF BInv, TypeOK, Request, DeleteAuthorized, At, Deployed, PodCollected
<1>8. OrphanHasCause'
  BY DEF BInv, TypeOK, Request, OrphanHasCause, At, Deployed, PodCollected
<1> QED BY <1>1, <1>2, <1>3, <1>4, <1>5, <1>6, <1>7, <1>8 DEF BInv

\* The volume that goes is one being deleted.
LEMMA VolumeReleasedInv ==
  ASSUME BInv, NEW b \in Boxes, VolumeReleased(b)
  PROVE  BInv'
<1>1. TypeOK'
  BY DEF BInv, TypeOK, Request, VolumeReleased
<1>2. DeploymentHasVolume'
  BY DEF BInv, TypeOK, Request, DeploymentHasVolume, Deployed, VolumeReleased
<1>3. SoleIsAlone'
  BY DEF BInv, TypeOK, Request, SoleIsAlone, At, Sole, VolumeReleased
<1>4. CreateOwnsVolume'
  BY DEF BInv, TypeOK, Request, CreateOwnsVolume, At, Deployed, VolumeReleased
<1>5. DeleteFollowsDeployment'
  BY DEF BInv, TypeOK, Request, DeleteFollowsDeployment, At, Deployed,
         VolumeReleased
<1>6. AckIsFinal'
  BY DEF BInv, TypeOK, Request, AckIsFinal, At, Sole, Deployed, VolumeReleased
<1>7. DeleteAuthorized'
  BY DEF BInv, TypeOK, Request, DeleteAuthorized, At, Deployed, VolumeReleased
<1>8. OrphanHasCause'
  BY DEF BInv, TypeOK, Request, OrphanHasCause, At, Deployed, VolumeReleased
<1> QED BY <1>1, <1>2, <1>3, <1>4, <1>5, <1>6, <1>7, <1>8 DEF BInv

\* A crash is every handler giving up at once.
LEMMA CrashInv ==
  ASSUME BInv, Crash
  PROVE  BInv'
<1>1. TypeOK'
  <2>1. \A r \in Requests : Halfway(r) \subseteq {"create", "delete"}
    BY DEF Halfway
  <2>2. left' \in [Boxes -> SUBSET {"create", "delete"}]
    BY <2>1 DEF BInv, TypeOK, Crash
  <2> QED BY <2>2 DEF BInv, TypeOK, Request, IdleReq, Crash
<1>2. DeploymentHasVolume'
  BY DEF BInv, TypeOK, Request, DeploymentHasVolume, Deployed, IdleReq, Crash
<1>3. SoleIsAlone'
  BY DEF BInv, TypeOK, Request, SoleIsAlone, At, Sole, IdleReq, Crash
<1>4. CreateOwnsVolume'
  BY DEF BInv, TypeOK, Request, CreateOwnsVolume, At, Deployed, IdleReq, Crash
<1>5. DeleteFollowsDeployment'
  BY DEF BInv, TypeOK, Request, DeleteFollowsDeployment, At, Deployed,
         IdleReq, Crash
<1>6. AckIsFinal'
  BY DEF BInv, TypeOK, Request, AckIsFinal, At, Sole, Deployed, IdleReq, Crash
<1>7. DeleteAuthorized'
  BY DEF BInv, TypeOK, Request, DeleteAuthorized, At, Deployed, IdleReq, Crash
<1>8. OrphanHasCause'
  <2> SUFFICES ASSUME NEW b \in Boxes, pvc'[b] = "present", ~Deployed(b)'
               PROVE  left'[b] # {}
    BY DEF OrphanHasCause
  <2>1. pvc[b] = "present" /\ ~Deployed(b)
    BY DEF Crash, Deployed
  <2>2. left'[b] = left[b] \cup UNION {Halfway(r) :
                     r \in {q \in Requests : req[q].box = b}}
    BY DEF Crash
  <2>3. CASE left[b] # {}
    BY <2>2, <2>3
  <2>4. CASE left[b] = {}
    <3>1. PICK s \in Requests : At(s, b, {"deploy", "delpvc"})
      BY <2>1, <2>4 DEF BInv, OrphanHasCause
    <3>2. req[s].box = b /\ Halfway(s) # {}
      BY <3>1 DEF At, Halfway
    <3> QED BY <2>2, <3>2
  <2> QED BY <2>3, <2>4
<1> QED BY <1>1, <1>2, <1>3, <1>4, <1>5, <1>6, <1>7, <1>8 DEF BInv

\* The API server starts empty.
LEMMA InitInv == Init => BInv
BY PersistentBoxesAssumption
   DEF Init, BInv, TypeOK, Request, IdleReq, DeploymentHasVolume, SoleIsAlone,
       CreateOwnsVolume, DeleteFollowsDeployment, AckIsFinal, DeleteAuthorized,
       OrphanHasCause, At, Sole, Deployed

\* A stuttering step, and the refusal of a delete, change nothing.
LEMMA StutterInv == BInv /\ UNCHANGED vars => BInv'
BY DEF vars, BInv, TypeOK, Request, DeploymentHasVolume, SoleIsAlone,
       CreateOwnsVolume, DeleteFollowsDeployment, AckIsFinal, DeleteAuthorized,
       OrphanHasCause, At, Deployed

\* Every step, a stuttering one included, keeps the invariant.
LEMMA NextInv == BInv /\ [Next]_vars => BInv'
<1> SUFFICES ASSUME BInv, [Next]_vars PROVE BInv'
  OBVIOUS
<1>1. CASE UNCHANGED vars
  BY <1>1, StutterInv
<1>2. ASSUME NEW r \in Requests, Handler(r) PROVE BInv'
  <2>1. CASE \E o \in Owners, b \in Boxes : CreateVolume(r, o, b)
    BY <2>1, CreateVolumeInv
  <2>2. CASE \E o \in Owners \cup {None}, b \in Boxes : DeleteBegin(r, o, b)
    BY <2>2, DeleteBeginInv
  <2>3. CASE \E o \in Owners \cup {None}, b \in Boxes : DeleteRefused(r, o, b)
    BY <2>3, StutterInv DEF DeleteRefused
  <2> QED BY <1>2, <2>1, <2>2, <2>3, CreateDeploymentInv, PrepareInv, ReplyInv,
             AbandonInv, DeleteDeploymentInv, DeleteVolumeInv, AckInv DEF Handler
<1>3. ASSUME NEW b \in Boxes, Cluster(b) PROVE BInv'
  BY <1>3, PodCreatedInv, PodRunsInv, PodLostInv, PodCollectedInv,
     VolumeReleasedInv DEF Cluster
<1> QED BY <1>1, <1>2, <1>3, CrashInv DEF Next

\* The invariant holds in every reachable state.
THEOREM BoxesInvariant == Spec => []BInv
<1> QED BY InitInv, NextInv, PTL DEF Spec

\* A box has its volume from its first moment to its last.
THEOREM DeploymentHasVolumeHolds == Spec => []DeploymentHasVolume
<1>1. BInv => DeploymentHasVolume
  BY DEF BInv
<1> QED BY <1>1, BoxesInvariant, PTL

\* Only a handler that gave up between two calls leaks a volume.
THEOREM OrphansAreAbandonedHolds == Spec => []OrphansAreAbandoned
<1>1. BInv => OrphansAreAbandoned
  BY DEF BInv, OrphanHasCause, OrphansAreAbandoned, Working, At
<1> QED BY <1>1, BoxesInvariant, PTL

\* Racing deletes of a box: one success at most.
THEOREM OneDeleteAckedHolds == Spec => []OneDeleteAcked
<1>1. BInv => OneDeleteAcked
  BY DEF BInv, TypeOK, AckIsFinal, OneDeleteAcked
<1> QED BY <1>1, BoxesInvariant, PTL

\* A delete takes effect on behalf of the owner or the admin only.
THEOREM DeletedByOwnerHolds == Spec => DeletedByOwner
<1> DEFINE ByOwner ==
      \A b \in Boxes : Deployed(b) /\ ~Deployed(b)' =>
        \E r \in Requests : /\ req[r].pc = "deldep"
                            /\ req[r].box = b
                            /\ req[r].owner \in {None, dep[b]}
<1>1. BInv /\ [Next]_vars => [ByOwner]_vars
  <2> SUFFICES ASSUME BInv, Next, NEW b \in Boxes, Deployed(b), ~Deployed(b)'
               PROVE  \E r \in Requests : /\ req[r].pc = "deldep"
                                          /\ req[r].box = b
                                          /\ req[r].owner \in {None, dep[b]}
    OBVIOUS
  <2>1. PICK r \in Requests : DeleteDeployment(r) \/ CreateDeployment(r)
    BY DEF Next, Handler, Cluster, CreateVolume, Prepare, Reply, Abandon,
           DeleteBegin, DeleteRefused, DeleteVolume, Ack, PodCreated, PodRuns,
           PodLost, PodCollected, VolumeReleased, Crash, Deployed, vars
  <2>2. CASE CreateDeployment(r)
    BY <2>2, PersistentBoxesAssumption
       DEF CreateDeployment, BInv, TypeOK, Request, CreateOwnsVolume, At, Deployed
  <2>3. CASE DeleteDeployment(r)
    <3>1. req[r].pc = "deldep" /\ req[r].box = b
      BY <2>3 DEF DeleteDeployment, BInv, TypeOK, Request, Deployed
    <3> QED BY <3>1 DEF BInv, DeleteAuthorized, At
  <2> QED BY <2>1, <2>2, <2>3
<1> QED BY <1>1, BoxesInvariant, PTL DEF Spec, DeletedByOwner

=============================================================================
