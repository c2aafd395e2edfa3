------------------------------ MODULE WarmPool ------------------------------
(***************************************************************************)
(* Disposable boxes and the warm pool they are claimed from.               *)
(*                                                                         *)
(* A box is a Kubernetes pod.  Several actors of boxlyd work on the same   *)
(* pods through the API server, each with its own sequence of calls:       *)
(*   - the API handlers (Manager.Create, Manager.Delete), one goroutine    *)
(*     per request;                                                        *)
(*   - the pool reconciler, which lists, prepares, creates and deletes     *)
(*     warm pods, and the setup goroutines it starts;                      *)
(*   - the janitor, which deletes the boxes whose TTL has passed.          *)
(* Every call to the API server is one step, so what an actor does with a  *)
(* listing may be based on pods that have changed since.                   *)
(***************************************************************************)
EXTENDS Naturals, FiniteSets

CONSTANTS
  Pods,       \* box ids: the pod of box id is named "boxly-" + id
  Templates,  \* enabled box types
  Scripted,   \* the box types that have a setup script
  Labelled,   \* the box types whose free-hand manifest brings the ready label
  Owners,     \* user names
  None,       \* the empty string: no owner, the admin's scope, no box
  Requests,   \* concurrent API requests
  Desired,    \* per box type, the values Tracker.Desired may return
  Evictions,  \* whether a pod may fail (eviction, node loss)
  Recovers    \* whether faults come to an end (for liveness)

\* An id is four random bytes, so there are finitely many.  Tracker.Desired always
\* returns a number.
ASSUME WarmPoolAssumption ==
  /\ IsFiniteSet(Pods)
  /\ Scripted \cup Labelled \subseteq Templates
  /\ None \notin Owners \cup Templates \cup Pods
  /\ Desired \in [Templates -> (SUBSET Nat) \ {{}}]
  /\ Evictions \in BOOLEAN
  /\ Recovers \in BOOLEAN

VARIABLES
  pods,     \* the pod objects the API server stores
  setup,    \* boxes in which the whole setup script has run
  expired,  \* boxes whose expires-at annotation lies in the past
  req,      \* the API requests in progress
  handed,   \* per box, the create responses that named it
  rec,      \* the reconciler inside reconcileTemplate
  prep,     \* the setup goroutines, by pod: Reconciler.preparing
  jan,      \* the ids the janitor's sweep still has to delete
  faults    \* whether boxlyd may still crash and its calls may still fail

vars == <<pods, setup, expired, req, handed, rec, prep, jan, faults>>

-----------------------------------------------------------------------------
(* Pods as the API server stores them.                                     *)

Phases == {"Absent", "Pending", "Running", "Failed"}

\* The metadata a pod may carry: the ready label, the expires-at annotation, the
\* deletion timestamp.
Marks == {"ready", "expires", "deletion"}

\* The pool, owner and template labels are always there, possibly empty.
\* No write restores an earlier content of a pod, so comparing contents is
\* comparing resource versions.
Pod == [phase : Phases, pool : {"warm", "claimed"}, owner : Owners \cup {None},
        tmpl : Templates \cup {None}, meta : SUBSET Marks]

Absent == [phase |-> "Absent", pool |-> "warm", owner |-> None,
           tmpl |-> None, meta |-> {}]

Exists(p) == pods[p].phase # "Absent"
IsReady(p) == "ready" \in pods[p].meta
Deleting(p) == "deletion" \in pods[p].meta

\* Mutant: the new box carries no expires-at annotation.
NewPodUndated(pool, owner, t) ==
  [phase |-> "Pending", pool |-> pool, owner |-> owner, tmpl |-> t,
   meta |-> IF t \in Labelled THEN {"ready"} ELSE {}]

\* What BuildBox returns for a new box, with the annotation Create passes.  hardenPod
\* overwrites a manifest's labels but for the ready label, which it does not know.
NewPod(pool, owner, t) ==
  [phase |-> "Pending", pool |-> pool, owner |-> owner, tmpl |-> t,
   meta |-> (IF t \in Labelled THEN {"ready"} ELSE {})
            \cup (IF pool = "claimed" THEN {"expires"} ELSE {})]

Write(p, pod) == pods' = [pods EXCEPT ![p] = pod]

\* DELETE marks an existing pod; PodGone removes it after its grace period.
\* There is no precondition on version or labels, and deleting twice, or
\* deleting what is gone, changes nothing.
MarkDeleted(p) ==
  IF Exists(p)
    THEN Write(p, [pods[p] EXCEPT !.meta = @ \cup {"deletion"}])
    ELSE UNCHANGED pods

IsWarm(p, t) == Exists(p) /\ pods[p].pool = "warm" /\ pods[p].tmpl = t

\* Mutant: the listing does not select on the pool label.
ClaimableAnyPool(p, t) ==
  /\ Exists(p)
  /\ pods[p].tmpl = t
  /\ pods[p].phase = "Running"
  /\ IsReady(p)
  /\ ~Deleting(p)

\* The pods claimWarm's listing selects and its loop does not skip.
Claimable(p, t) ==
  /\ IsWarm(p, t)
  /\ pods[p].phase = "Running"
  /\ IsReady(p)
  /\ ~Deleting(p)

-----------------------------------------------------------------------------
(* Actors.                                                                 *)

\* A pod as claimWarm's listing returned it.
Listed == [id : Pods, pod : Pod]

IdleReq == [pc |-> "idle", owner |-> None, tmpl |-> None,
            cand |-> {}, box |-> None]

Request ==
  {q \in [pc : {"idle", "claim", "prepare", "reply", "delete"},
          owner : Owners \cup {None}, tmpl : Templates \cup {None},
          cand : SUBSET Listed, box : Pods \cup {None}] :
     /\ q.box = None <=> q.pc \in {"idle", "claim"}
     /\ q.pc = "claim" => q.owner \in Owners}

\* What reconcileTemplate still has to do: the pods to call prepareAsync for,
\* the pods to create, and its victims, not-ready ones first.
IdleRec == [tmpl |-> None, prepare |-> {}, create |-> 0,
            unready |-> {}, ready |-> {}]

Reconcile == [tmpl : Templates \cup {None}, prepare : SUBSET Pods,
              create : Nat, unready : SUBSET Pods, ready : SUBSET Pods]

TypeOK ==
  /\ pods \in [Pods -> Pod]
  /\ setup \subseteq Pods
  /\ expired \subseteq Pods
  /\ req \in [Requests -> Request]
  /\ handed \in [Pods -> Nat]
  /\ rec \in Reconcile
  /\ prep \in [Pods -> {"none", "exec", "patch"}]
  /\ jan \subseteq Pods
  /\ faults \in {"possible", "over"}

Init ==
  /\ pods = [p \in Pods |-> Absent]
  /\ setup = {}
  /\ expired = {}
  /\ req = [r \in Requests |-> IdleReq]
  /\ handed = [p \in Pods |-> 0]
  /\ rec = IdleRec
  /\ prep = [p \in Pods |-> "none"]
  /\ jan = {}
  /\ faults = "possible"

\* genID draws 32 random bits: a new id belongs to no pod and nobody still
\* works on it.  An id whose box is gone and forgotten stands for a new one.
Fresh(p) ==
  /\ ~Exists(p)
  /\ \A r \in Requests : /\ req[r].box # p
                         /\ \A c \in req[r].cand : c.id # p
  /\ p \notin rec.prepare \cup rec.unready \cup rec.ready \cup jan
  /\ prep[p] = "none"

AddPod(p, pod) ==
  /\ Fresh(p)
  /\ pods' = [pods EXCEPT ![p] = pod]
  /\ setup' = setup \ {p}
  /\ expired' = expired \ {p}
  /\ handed' = [handed EXCEPT ![p] = 0]

-----------------------------------------------------------------------------
(* Manager.Create for a sandbox, then the response.                        *)

\* Up to claimWarm's List: the request remembers the pods listed.
CreateBegin(r, o, t) ==
  /\ req[r] = IdleReq
  /\ req' = [req EXCEPT ![r] =
       [pc |-> "claim", owner |-> o, tmpl |-> t, box |-> None,
        cand |-> {[id |-> p, pod |-> pods[p]] :
                     p \in {q \in Pods : Claimable(q, t)}}]]
  /\ UNCHANGED <<pods, setup, expired, handed, rec, prep, jan, faults>>

\* Mutant: Update does not compare resource versions.
UpToDateIfThere(c) == Exists(c.id)

\* Whether Update is accepted: the object is still the one that was listed.
UpToDate(c) == pods[c.id] = c.pod

\* Update succeeds and stores the listed object with the new labels.
ClaimWins(r, c) ==
  /\ req[r].pc = "claim"
  /\ c \in req[r].cand
  /\ UpToDate(c)
  /\ Write(c.id, [c.pod EXCEPT !.pool = "claimed",
                              !.owner = req[r].owner,
                              !.meta = @ \cup {"expires"}])
  /\ req' = [req EXCEPT ![r].pc = "reply", ![r].box = c.id, ![r].cand = {}]
  /\ UNCHANGED <<setup, expired, handed, rec, prep, jan, faults>>

\* Update conflicts: try the next listed pod.  The kubelet's status writes, which
\* change nothing modelled here, may also cause a conflict.  A pod that is gone
\* is "not found", which ends the request like any other error: see Abandon.
ClaimConflicts(r, c) ==
  /\ req[r].pc = "claim"
  /\ c \in req[r].cand
  /\ Exists(c.id)
  /\ req' = [req EXCEPT ![r].cand = @ \ {c}]
  /\ UNCHANGED <<pods, setup, expired, handed, rec, prep, jan, faults>>

\* No warm box left: create one that is claimed from the start.
ColdCreate(r, p) ==
  /\ req[r].pc = "claim"
  /\ req[r].cand = {}
  /\ AddPod(p, NewPod("claimed", req[r].owner, req[r].tmpl))
  /\ req' = [req EXCEPT ![r].pc = IF req[r].tmpl \in Scripted
                                    THEN "prepare" ELSE "reply",
                        ![r].box = p]
  /\ UNCHANGED <<rec, prep, jan, faults>>

\* prepare waits for the box to run and executes the script in it; a timeout
\* or a failing script is logged and the box is returned all the same.
ColdPrepare(r) ==
  /\ req[r].pc = "prepare"
  /\ \/ /\ pods[req[r].box].phase = "Running"
        /\ setup' = setup \cup {req[r].box}
     \/ UNCHANGED setup
  /\ req' = [req EXCEPT ![r].pc = "reply"]
  /\ UNCHANGED <<pods, expired, handed, rec, prep, jan, faults>>

\* The client learns the id of its box.
Reply(r) ==
  /\ req[r].pc = "reply"
  /\ handed' = [handed EXCEPT ![req[r].box] = @ + 1]
  /\ req' = [req EXCEPT ![r] = IdleReq]
  /\ UNCHANGED <<pods, setup, expired, rec, prep, jan, faults>>

\* Any call of the handler may fail, and the client may hang up: the handler
\* returns.  From "reply" the call was applied and only its answer is lost.
Abandon(r) ==
  /\ req[r].pc # "idle"
  /\ req' = [req EXCEPT ![r] = IdleReq]
  /\ UNCHANGED <<pods, setup, expired, handed, rec, prep, jan, faults>>

-----------------------------------------------------------------------------
(* Manager.Delete.                                                         *)

\* Mutant: nobody is refused.
AuthorizedAll(p, o) == TRUE

\* authorize: the scope None is the admin's and fits every box.
Authorized(p, o) == o = None \/ pods[p].owner = o

\* Get and authorize; anything else answers "not found" and changes nothing.
DeleteBegin(r, o, p) ==
  /\ req[r] = IdleReq
  /\ Exists(p)
  /\ Authorized(p, o)
  /\ req' = [req EXCEPT ![r] = [IdleReq EXCEPT !.pc = "delete",
                                               !.owner = o, !.box = p]]
  /\ UNCHANGED <<pods, setup, expired, handed, rec, prep, jan, faults>>

\* The delete call, by name.
DeletePod(r) ==
  /\ req[r].pc = "delete"
  /\ MarkDeleted(req[r].box)
  /\ req' = [req EXCEPT ![r] = IdleReq]
  /\ UNCHANGED <<setup, expired, handed, rec, prep, jan, faults>>

-----------------------------------------------------------------------------
(* Janitor.sweep.                                                          *)

\* ExpiredSandboxIDs: claimed boxes past their expires-at, deleted ones too.
JanitorList ==
  /\ jan = {}
  /\ jan' = {p \in expired : Exists(p) /\ pods[p].pool = "claimed"}
  /\ jan' # {}
  /\ UNCHANGED <<pods, setup, expired, req, handed, rec, prep, faults>>

\* Manager.Delete in the admin's scope: its Get refuses no box.
JanitorDelete(p) ==
  /\ p \in jan
  /\ MarkDeleted(p)
  /\ jan' = jan \ {p}
  /\ UNCHANGED <<setup, expired, req, handed, rec, prep, faults>>

\* A failing delete is logged and the sweep goes on.
JanitorSkip(p) ==
  /\ faults = "possible"
  /\ p \in jan
  /\ jan' = jan \ {p}
  /\ UNCHANGED <<pods, setup, expired, req, handed, rec, prep, faults>>

-----------------------------------------------------------------------------
(* Reconciler.reconcileTemplate.                                           *)

RecIdle == /\ rec.prepare = {} /\ rec.create = 0
           /\ rec.unready = {} /\ rec.ready = {}

\* Mutant: only the boxes that could be claimed now are counted.
LiveIfReady(t) == {p \in Pods : IsWarm(p, t) /\ ~Deleting(p) /\ IsReady(p)}

\* The listed warm pods that are not being deleted: "live".
Live(t) == {p \in Pods : IsWarm(p, t) /\ ~Deleting(p)}

\* The first n of victims, the not-ready ones before the ready ones.
Victims(live, n) ==
  {V \in SUBSET live :
     /\ Cardinality(V) = n
     /\ (\E p \in V : IsReady(p)) => \A p \in live \ V : IsReady(p)}

\* Desired and ListWarm, and what the loop and the switch make of the listing.
ReconcileList(t) ==
  /\ RecIdle
  /\ \E d \in Desired[t] :
       LET live    == Live(t)
           n       == Cardinality(live)
           unready == {p \in live : ~IsReady(p) /\ pods[p].phase = "Running"}
       IN \E V \in Victims(live, IF n > d THEN n - d ELSE 0) :
            rec' = [tmpl |-> t, prepare |-> unready,
                    create |-> IF n < d THEN d - n ELSE 0,
                    unready |-> {p \in V : ~IsReady(p)},
                    ready |-> {p \in V : IsReady(p)}]
  /\ UNCHANGED <<pods, setup, expired, req, handed, prep, jan, faults>>

\* prepareAsync: a goroutine for the pod unless there is one.
ReconcilePrepare(p) ==
  /\ p \in rec.prepare
  /\ rec' = [rec EXCEPT !.prepare = @ \ {p}]
  /\ prep' = IF prep[p] # "none" THEN prep
             ELSE [prep EXCEPT ![p] = IF rec.tmpl \in Scripted
                                        THEN "exec" ELSE "patch"]
  /\ UNCHANGED <<pods, setup, expired, req, handed, jan, faults>>

CreateWarm(p) ==
  /\ rec.prepare = {}
  /\ rec.create > 0
  /\ AddPod(p, NewPod("warm", None, rec.tmpl))
  /\ rec' = [rec EXCEPT !.create = @ - 1]
  /\ UNCHANGED <<req, prep, jan, faults>>

\* The first error ends the loop.
CreateWarmFails ==
  /\ faults = "possible"
  /\ rec.prepare = {}
  /\ rec.create > 0
  /\ rec' = [rec EXCEPT !.create = 0]
  /\ UNCHANGED <<pods, setup, expired, req, handed, prep, jan, faults>>

\* The victims left to delete, the listing's not-ready pods first.
NextVictims ==
  IF rec.prepare # {} THEN {}
  ELSE IF rec.unready # {} THEN rec.unready ELSE rec.ready

DropVictim(p) ==
  rec' = [rec EXCEPT !.unready = @ \ {p}, !.ready = @ \ {p}]

\* DeleteWarmPod: by name, whatever the pod has become since the listing.
DeleteSurplus(p) ==
  /\ p \in NextVictims
  /\ MarkDeleted(p)
  /\ DropVictim(p)
  /\ UNCHANGED <<setup, expired, req, handed, prep, jan, faults>>

DeleteSurplusFails(p) ==
  /\ faults = "possible"
  /\ p \in NextVictims
  /\ DropVictim(p)
  /\ UNCHANGED <<pods, setup, expired, req, handed, prep, jan, faults>>

-----------------------------------------------------------------------------
(* Manager.PrepareWarm, in the goroutine of prepareAsync.                  *)

\* runScript returns without error.
PrepareExec(p) ==
  /\ prep[p] = "exec"
  /\ pods[p].phase = "Running"
  /\ setup' = setup \cup {p}
  /\ prep' = [prep EXCEPT ![p] = "patch"]
  /\ UNCHANGED <<pods, expired, req, handed, rec, jan, faults>>

\* The label patch names the pod only: no resource version, no selector.
PreparePatch(p) ==
  /\ prep[p] = "patch"
  /\ Exists(p)
  /\ Write(p, [pods[p] EXCEPT !.meta = @ \cup {"ready"}])
  /\ prep' = [prep EXCEPT ![p] = "none"]
  /\ UNCHANGED <<setup, expired, req, handed, rec, jan, faults>>

CannotPrepare(p) == IF prep[p] = "exec" THEN pods[p].phase # "Running"
                                       ELSE ~Exists(p)

\* Mutant: the pod is labelled ready although its script failed.
PrepareFailsReady(p) ==
  /\ prep[p] # "none"
  /\ faults = "possible" \/ CannotPrepare(p)
  /\ prep' = [prep EXCEPT ![p] = IF @ = "exec" THEN "patch" ELSE "none"]
  /\ UNCHANGED <<pods, setup, expired, req, handed, rec, jan, faults>>

\* Mutant: the goroutine ends without giving up its entry in preparing.
PrepareFailsBusy(p) ==
  /\ prep[p] # "none"
  /\ faults = "possible" \/ CannotPrepare(p)
  /\ prep' = [prep EXCEPT ![p] = "ended"]
  /\ UNCHANGED <<pods, setup, expired, req, handed, rec, jan, faults>>

\* A failing script or patch, or the two-minute timeout, ends the goroutine.
PrepareFails(p) ==
  /\ prep[p] # "none"
  /\ faults = "possible" \/ CannotPrepare(p)
  /\ prep' = [prep EXCEPT ![p] = "none"]
  /\ UNCHANGED <<pods, setup, expired, req, handed, rec, jan, faults>>

-----------------------------------------------------------------------------
(* The cluster, the clock and boxlyd's process.                            *)

PodRuns(p) ==
  /\ pods[p].phase = "Pending"
  /\ Write(p, [pods[p] EXCEPT !.phase = "Running"])
  /\ UNCHANGED <<setup, expired, req, handed, rec, prep, jan, faults>>

\* Eviction, node loss, or a container that exits under the restart policy of a
\* template's own manifest; by default restartPolicy Always keeps a pod running.
\* "Succeeded", which nothing in boxlyd tells from "Failed", is "Failed" here.
PodFails(p) ==
  /\ Evictions
  /\ pods[p].phase \in {"Pending", "Running"}
  /\ Write(p, [pods[p] EXCEPT !.phase = "Failed"])
  /\ UNCHANGED <<setup, expired, req, handed, rec, prep, jan, faults>>

PodGone(p) ==
  /\ Deleting(p)
  /\ pods' = [pods EXCEPT ![p] = Absent]
  /\ setup' = setup \ {p}
  /\ expired' = expired \ {p}
  /\ handed' = [handed EXCEPT ![p] = 0]
  /\ UNCHANGED <<req, rec, prep, jan, faults>>

\* The clock passes the box's expires-at, at any moment after the claim.
Expire(p) ==
  /\ Exists(p) /\ "expires" \in pods[p].meta /\ p \notin expired
  /\ expired' = expired \cup {p}
  /\ UNCHANGED <<pods, setup, req, handed, rec, prep, jan, faults>>

\* boxlyd restarts: all it knew is gone, the API server's objects are not.
Crash ==
  /\ faults = "possible"
  /\ req' = [r \in Requests |-> IdleReq]
  /\ rec' = IdleRec
  /\ prep' = [p \in Pods |-> "none"]
  /\ jan' = {}
  /\ UNCHANGED <<pods, setup, expired, handed, faults>>

\* The faults end, for good.
Recover ==
  /\ Recovers
  /\ faults = "possible"
  /\ faults' = "over"
  /\ UNCHANGED <<pods, setup, expired, req, handed, rec, prep, jan>>

-----------------------------------------------------------------------------
Handler(r) ==
  \/ \E o \in Owners, t \in Templates : CreateBegin(r, o, t)
  \/ \E c \in req[r].cand : ClaimWins(r, c) \/ ClaimConflicts(r, c)
  \/ \E p \in Pods : ColdCreate(r, p)
  \/ ColdPrepare(r)
  \/ Reply(r)
  \/ Abandon(r)
  \/ \E o \in Owners \cup {None}, p \in Pods : DeleteBegin(r, o, p)
  \/ DeletePod(r)

Janitor == JanitorList \/ \E p \in Pods : JanitorDelete(p) \/ JanitorSkip(p)

Reconciler ==
  \/ \E t \in Templates : ReconcileList(t)
  \/ CreateWarmFails
  \/ \E p \in Pods : \/ ReconcilePrepare(p)
                     \/ CreateWarm(p)
                     \/ DeleteSurplus(p)
                     \/ DeleteSurplusFails(p)

Setup(p) == PrepareExec(p) \/ PreparePatch(p) \/ PrepareFails(p)

Cluster(p) == PodRuns(p) \/ PodFails(p) \/ PodGone(p) \/ Expire(p)

Next ==
  \/ \E r \in Requests : Handler(r)
  \/ Janitor
  \/ Reconciler
  \/ \E p \in Pods : Setup(p) \/ Cluster(p)
  \/ Crash
  \/ Recover

Spec == Init /\ [][Next]_vars

\* The tickers keep firing, goroutines keep running, pods start, terminate and
\* expire, and faults end some day; each template has its turn in reconcile's
\* loop.  Users and clients are under no obligation.
Fairness ==
  /\ WF_vars(Recover)
  /\ WF_vars(JanitorList)
  /\ \A t \in Templates : SF_vars(ReconcileList(t))
  /\ WF_vars(\E p \in Pods : CreateWarm(p))
  /\ \A p \in Pods :
       /\ WF_vars(JanitorDelete(p))
       /\ WF_vars(ReconcilePrepare(p))
       /\ WF_vars(DeleteSurplus(p))
       /\ WF_vars(Setup(p))
       /\ WF_vars(PodRuns(p) \/ PodGone(p))
       /\ WF_vars(Expire(p))

FairSpec == Spec /\ Fairness

-----------------------------------------------------------------------------
(* Properties.                                                             *)

Claimed(p) == Exists(p) /\ pods[p].pool = "claimed"

\* The requests that own the box p and have not answered yet.
Holders(p) == {r \in Requests : /\ req[r].pc \in {"prepare", "reply"}
                                /\ req[r].box = p}

\* A box is given to one create request only: whatever requests raced for it,
\* the answers that named it and the requests about to name it are at most one
\* (claimWarm's "atomically claims", by Update's conflict).
OneTaker == \A p \in Pods : Cardinality(Holders(p)) + handed[p] <= 1

\* Whoever is about to be told, or has been told, of a box that still exists
\* has it to himself: it left the pool, and has an expiry for the janitor.
TakenIsClaimed ==
  \A p \in Pods :
    Exists(p) /\ (Holders(p) # {} \/ handed[p] > 0)
      => pods[p].pool = "claimed" /\ "expires" \in pods[p].meta

\* The box a request is about to return belongs to the user who asked for it.
TakenByOwner ==
  \A r \in Requests : \A p \in Pods :
    r \in Holders(p) /\ Exists(p) => pods[p].owner = req[r].owner

\* A box is labelled ready only after its template's setup script has run in it to the
\* end, so that a claim is "already prepared"; unless the template's manifest brings the
\* label.  The script is the one the template has had all along.
ReadyMeansPrepared ==
  \A p \in Pods :
    Exists(p) /\ IsReady(p) /\ pods[p].tmpl \in Scripted \ Labelled => p \in setup

\* The boxes in the pool of a template.
InPool(t) == {p \in Pods : IsWarm(p, t) /\ ~Deleting(p)}

\* The reconciler never overshoots: the live warm boxes of a template and those
\* it is about to create never exceed the largest target it was given, though
\* it works on stale listings while boxes are claimed under its feet.
WarmWithinTarget ==
  \A t \in Templates : \E d \in Desired[t] :
    Cardinality(InPool(t)) + (IF rec.tmpl = t THEN rec.create ELSE 0) <= d

\* A claimed box stays its owner's until it is gone: no step returns it to the
\* pool, gives it to another user or moves it to another template.
ClaimIsFinal ==
  [][\A p \in Pods : Claimed(p) /\ Exists(p)' =>
       /\ Claimed(p)'
       /\ pods'[p].owner = pods[p].owner
       /\ pods'[p].tmpl = pods[p].tmpl]_vars

\* A delete that was authorized for its owner or for the admin.
DeleteRequested(p) ==
  \E r \in Requests : /\ req[r].pc = "delete"
                      /\ req[r].box = p
                      /\ req[r].owner \in {None, pods[p].owner}

\* A user's box is deleted for a reason: its own owner or the admin asked for
\* it, it expired, or the reconciler chose it while it was still warm.  The
\* check and the delete are separate calls in all three cases.
DeletedForCause ==
  [][\A p \in Pods :
       Claimed(p) /\ ~Deleting(p) /\ Exists(p)' /\ Deleting(p)' =>
         \/ DeleteRequested(p)
         \/ p \in expired
         \/ p \in rec.unready \cup rec.ready]_vars

\* Disposable boxes do not leak (janitor.go): every claimed box is gone in the
\* end, also when its client never learned of it because the answer was lost,
\* the handler failed or boxlyd crashed.
ClaimedBoxEnds == \A p \in Pods : Claimed(p) ~> ~Exists(p)

\* Once users leave the pool alone, it settles at its target of ready boxes,
\* whatever failed, crashed or was claimed before.
PoolSettles ==
  \A t \in Templates :
    (<>[](\A r \in Requests : req[r] = IdleReq))
      => <>[](\E d \in Desired[t] :
                Cardinality({p \in Pods : Claimable(p, t)}) = d)

-----------------------------------------------------------------------------
(* What the code's comments say and its steps do not keep.                 *)

\* "DeleteWarmPod removes a surplus warm pod": the reconciler does not delete a
\* box that a user has claimed.
SurplusIsWarm ==
  [][\A p \in Pods :
       Claimed(p) /\ ~Deleting(p) /\ Exists(p)' /\ Deleting(p)' =>
         DeleteRequested(p) \/ p \in expired]_vars

\* "Keep one always-warm so the common case is instant": a template with a
\* target above zero always gets a claimable box again.
PoolRecovers ==
  \A t \in Templates : 0 \notin Desired[t] =>
    ((<>[](\A r \in Requests : req[r] = IdleReq))
      => []<>(\E p \in Pods : Claimable(p, t)))

=============================================================================
