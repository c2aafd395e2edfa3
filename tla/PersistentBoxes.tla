--------------------------- MODULE PersistentBoxes ---------------------------
(***************************************************************************)
(* Persistent boxes: a Deployment and the volume claim it mounts, both     *)
(* named "boxly-" + id.  Manager.createPersistent and Manager.Delete make  *)
(* one API call after the other and undo nothing, while the cluster starts *)
(* and loses the box's pod and holds a volume back while a pod mounts it.  *)
(***************************************************************************)
EXTENDS Naturals, FiniteSets

CONSTANTS
  Boxes,     \* box ids
  Owners,    \* user names
  None,      \* the empty string: no owner, the admin's scope, no box
  Requests   \* concurrent API requests

ASSUME PersistentBoxesAssumption == None \notin Owners \cup Boxes

VARIABLES
  pvc,     \* the volume claims the API server stores
  dep,     \* the Deployments: None, or the owner label
  pod,     \* the pod of the Deployment
  req,     \* the API requests in progress
  acks,    \* per box, the deletes that were answered with success
  left     \* per box, what a handler gave up halfway

vars == <<pvc, dep, pod, req, acks, left>>

IdleReq == [pc |-> "idle", owner |-> None, box |-> None]

Request == [pc : {"idle", "deploy", "prepare", "reply",
                  "deldep", "delpvc", "ack"},
            owner : Owners \cup {None}, box : Boxes \cup {None}]

TypeOK ==
  /\ pvc \in [Boxes -> {"absent", "present", "terminating"}]
  /\ dep \in [Boxes -> Owners \cup {None}]
  /\ pod \in [Boxes -> {"absent", "pending", "running"}]
  /\ req \in [Requests -> Request]
  /\ \A r \in Requests : req[r].box = None <=> req[r].pc = "idle"
  /\ acks \in [Boxes -> Nat]
  /\ left \in [Boxes -> SUBSET {"create", "delete"}]

Init ==
  /\ pvc = [b \in Boxes |-> "absent"]
  /\ dep = [b \in Boxes |-> None]
  /\ pod = [b \in Boxes |-> "absent"]
  /\ req = [r \in Requests |-> IdleReq]
  /\ acks = [b \in Boxes |-> 0]
  /\ left = [b \in Boxes |-> {}]

Deployed(b) == dep[b] # None

\* genID draws 32 random bits: an id of which nothing is left stands for a
\* new one.
Fresh(b) ==
  /\ pvc[b] = "absent" /\ ~Deployed(b) /\ pod[b] = "absent"
  /\ \A r \in Requests : req[r].box # b

-----------------------------------------------------------------------------
(* Manager.createPersistent.                                               *)

\* The volume claim comes first.
CreateVolume(r, o, b) ==
  /\ req[r] = IdleReq
  /\ Fresh(b)
  /\ pvc' = [pvc EXCEPT ![b] = "present"]
  /\ req' = [req EXCEPT ![r] = [pc |-> "deploy", owner |-> o, box |-> b]]
  /\ acks' = [acks EXCEPT ![b] = 0]
  /\ left' = [left EXCEPT ![b] = {}]
  /\ UNCHANGED <<dep, pod>>

CreateDeployment(r) ==
  /\ req[r].pc = "deploy"
  /\ dep' = [dep EXCEPT ![req[r].box] = req[r].owner]
  /\ req' = [req EXCEPT ![r].pc = "prepare"]
  /\ UNCHANGED <<pvc, pod, acks, left>>

\* The setup script runs once a pod runs; without one within two minutes, or if
\* the script fails, the box is returned all the same.
Prepare(r) ==
  /\ req[r].pc = "prepare"
  /\ req' = [req EXCEPT ![r].pc = "reply"]
  /\ UNCHANGED <<pvc, dep, pod, acks, left>>

Reply(r) ==
  /\ req[r].pc = "reply"
  /\ req' = [req EXCEPT ![r] = IdleReq]
  /\ UNCHANGED <<pvc, dep, pod, acks, left>>

\* What ends halfway if r ends now: the Deployment or the volume is missing.
Halfway(r) ==
  (IF req[r].pc = "deploy" THEN {"create"} ELSE {})
    \cup (IF req[r].pc = "delpvc" THEN {"delete"} ELSE {})

\* A call of the handler fails, or the client hangs up and with it the context
\* of the handler's calls: it returns and leaves what it has done.
Abandon(r) ==
  /\ req[r].pc # "idle"
  /\ left' = [left EXCEPT ![req[r].box] = @ \cup Halfway(r)]
  /\ req' = [req EXCEPT ![r] = IdleReq]
  /\ UNCHANGED <<pvc, dep, pod, acks>>

-----------------------------------------------------------------------------
(* Manager.Delete.                                                         *)

\* Mutant: nobody is refused.
AuthorizedAll(b, o) == Deployed(b)

\* Get finds the Deployment, and authorize its owner or the admin.
Authorized(b, o) == Deployed(b) /\ (o = None \/ dep[b] = o)

\* There is no pod of the box's own name, so deleting one answers "not found".
DeleteBegin(r, o, b) ==
  /\ req[r] = IdleReq
  /\ Authorized(b, o)
  /\ req' = [req EXCEPT ![r] = [pc |-> "deldep", owner |-> o, box |-> b]]
  /\ UNCHANGED <<pvc, dep, pod, acks, left>>

\* Anything else is answered "not found" at once.
DeleteRefused(r, o, b) ==
  /\ req[r] = IdleReq
  /\ ~Authorized(b, o)
  /\ UNCHANGED vars

\* Mutant: a Deployment that is gone already counts as deleted.
DeleteDeploymentTwice(r) ==
  /\ req[r].pc = "deldep"
  /\ dep' = [dep EXCEPT ![req[r].box] = None]
  /\ req' = [req EXCEPT ![r].pc = "delpvc"]
  /\ UNCHANGED <<pvc, pod, acks, left>>

\* Mutant: the volume claim is deleted before the Deployment.
DeleteDeploymentLast(r) ==
  /\ req[r].pc = "deldep"
  /\ pvc' = [pvc EXCEPT ![req[r].box] = "terminating"]
  /\ req' = [req EXCEPT ![r].pc = "delpvc"]
  /\ UNCHANGED <<dep, pod, acks, left>>

\* Mutant: the handler answers once the Deployment is gone.
DeleteDeploymentOnly(r) ==
  /\ req[r].pc = "deldep"
  /\ dep' = [dep EXCEPT ![req[r].box] = None]
  /\ req' = [req EXCEPT ![r].pc = "ack"]
  /\ UNCHANGED <<pvc, pod, acks, left>>

\* The Deployment goes at once, its pod later; a concurrent delete that comes
\* second is answered "not found".
DeleteDeployment(r) ==
  /\ req[r].pc = "deldep"
  /\ dep' = [dep EXCEPT ![req[r].box] = None]
  /\ req' = [req EXCEPT ![r] = IF Deployed(req[r].box)
                                 THEN [@ EXCEPT !.pc = "delpvc"] ELSE IdleReq]
  /\ UNCHANGED <<pvc, pod, acks, left>>

\* A volume claim that is gone already counts as deleted.
DeleteVolume(r) ==
  /\ req[r].pc = "delpvc"
  /\ pvc' = [pvc EXCEPT ![req[r].box] = IF @ = "absent" THEN @ ELSE "terminating"]
  /\ req' = [req EXCEPT ![r].pc = "ack"]
  /\ UNCHANGED <<dep, pod, acks, left>>

Ack(r) ==
  /\ req[r].pc = "ack"
  /\ acks' = [acks EXCEPT ![req[r].box] = @ + 1]
  /\ req' = [req EXCEPT ![r] = IdleReq]
  /\ UNCHANGED <<pvc, dep, pod, left>>

-----------------------------------------------------------------------------
(* The cluster and boxlyd's process.                                       *)

\* The Deployment's controllers replace a missing pod.
PodCreated(b) ==
  /\ Deployed(b) /\ pod[b] = "absent"
  /\ pod' = [pod EXCEPT ![b] = "pending"]
  /\ UNCHANGED <<pvc, dep, req, acks, left>>

\* The scheduler starts no pod whose volume claim is missing or being deleted.
PodRuns(b) ==
  /\ pod[b] = "pending" /\ pvc[b] = "present"
  /\ pod' = [pod EXCEPT ![b] = "running"]
  /\ UNCHANGED <<pvc, dep, req, acks, left>>

\* The node goes, or the pod is evicted.
PodLost(b) ==
  /\ pod[b] = "running"
  /\ pod' = [pod EXCEPT ![b] = "absent"]
  /\ UNCHANGED <<pvc, dep, req, acks, left>>

\* The garbage collector follows the Deployment.
PodCollected(b) ==
  /\ ~Deployed(b) /\ pod[b] # "absent"
  /\ pod' = [pod EXCEPT ![b] = "absent"]
  /\ UNCHANGED <<pvc, dep, req, acks, left>>

\* A volume claim being deleted stays while a pod uses it.
VolumeReleased(b) ==
  /\ pvc[b] = "terminating" /\ pod[b] = "absent"
  /\ pvc' = [pvc EXCEPT ![b] = "absent"]
  /\ UNCHANGED <<dep, pod, req, acks, left>>

\* boxlyd restarts in the middle of its handlers; nothing takes them up again.
Crash ==
  /\ left' = [b \in Boxes |->
       left[b] \cup UNION {Halfway(r) : r \in {q \in Requests : req[q].box = b}}]
  /\ req' = [r \in Requests |-> IdleReq]
  /\ UNCHANGED <<pvc, dep, pod, acks>>

-----------------------------------------------------------------------------
Handler(r) ==
  \/ \E o \in Owners, b \in Boxes : CreateVolume(r, o, b)
  \/ CreateDeployment(r)
  \/ Prepare(r)
  \/ Reply(r)
  \/ Abandon(r)
  \/ \E o \in Owners \cup {None}, b \in Boxes :
       DeleteBegin(r, o, b) \/ DeleteRefused(r, o, b)
  \/ DeleteDeployment(r)
  \/ DeleteVolume(r)
  \/ Ack(r)

Cluster(b) ==
  \/ PodCreated(b) \/ PodRuns(b) \/ PodLost(b)
  \/ PodCollected(b) \/ VolumeReleased(b)

Next ==
  \/ \E r \in Requests : Handler(r)
  \/ \E b \in Boxes : Cluster(b)
  \/ Crash

Spec == Init /\ [][Next]_vars

\* The cluster's controllers keep working.  boxlyd may stop at any point.
Fairness ==
  \A b \in Boxes : /\ WF_vars(PodCreated(b)) /\ WF_vars(PodRuns(b))
                   /\ WF_vars(PodCollected(b)) /\ WF_vars(VolumeReleased(b))

FairSpec == Spec /\ Fairness

-----------------------------------------------------------------------------
(* Properties.                                                             *)

\* A box never loses its volume while it has a Deployment: the volume is
\* created first and deleted last, whatever deletes race with each other and
\* with the create.
DeploymentHasVolume == \A b \in Boxes : Deployed(b) => pvc[b] = "present"

Working(b) == \E r \in Requests : req[r].box = b

\* A volume is left without a Deployment only by a handler that gave up between
\* its two calls: neither a race nor a crash at any other point leaks one.
OrphansAreAbandoned ==
  \A b \in Boxes :
    pvc[b] = "present" /\ ~Deployed(b) /\ ~Working(b) => left[b] # {}

\* However many deletes of a box race, one of them is answered with success.
OneDeleteAcked == \A b \in Boxes : acks[b] <= 1

\* A Deployment goes only by a delete of its own owner or the admin, though
\* the check and the delete are separate calls.
DeletedByOwner ==
  [][\A b \in Boxes : Deployed(b) /\ ~Deployed(b)' =>
       \E r \in Requests : /\ req[r].pc = "deldep"
                           /\ req[r].box = b
                           /\ req[r].owner \in {None, dep[b]}]_vars

\* A box keeps coming back, whatever its pods go through, until it is deleted.
KeepsRunning == \A b \in Boxes : []<>(~Deployed(b) \/ pod[b] = "running")

\* A delete that was answered with success leaves nothing behind in the end.
AckedDeleteEnds ==
  \A b \in Boxes :
    acks[b] > 0 ~> ~Deployed(b) /\ pod[b] = "absent" /\ pvc[b] = "absent"

-----------------------------------------------------------------------------
(* What the code's comments say and its steps do not keep.                 *)

\* "Delete removes a VM and any backing PVC": once the Deployment was deleted,
\* no volume stays behind that nobody will delete.
DeleteTakesVolume ==
  \A b \in Boxes :
    "delete" \in left[b] /\ ~Deployed(b) /\ ~Working(b) => pvc[b] # "present"

=============================================================================
