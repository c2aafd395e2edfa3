----------------------------- MODULE WarmPoolInv -----------------------------
(* The inductive invariant behind the safety properties of WarmPool.       *)
EXTENDS WarmPool

\* What a request still tries to claim was claimable for it when it was listed.
ListedClaimable ==
  \A r \in Requests : \A c \in req[r].cand :
    /\ req[r].pc = "claim"
    /\ c.pod.phase = "Running"
    /\ c.pod.pool = "warm"
    /\ c.pod.tmpl = req[r].tmpl
    /\ "ready" \in c.pod.meta
    /\ "deletion" \notin c.pod.meta

\* Nothing is left of a pod that is not there.
AbsentIsBlank == \A p \in Pods : ~Exists(p) => pods[p] = Absent

WarmUnowned ==
  \A p \in Pods : Exists(p) /\ pods[p].pool = "warm" => pods[p].owner = None

\* OneTaker without cardinalities.
AtMostOneTaker ==
  \A p \in Pods :
    /\ handed[p] \in {0, 1}
    /\ \A r \in Holders(p) : handed[p] = 0 /\ Holders(p) = {r}

\* A pod about to be labelled ready is prepared as well.
Prepared ==
  \A p \in Pods :
    /\ Exists(p)
    /\ pods[p].tmpl \in Scripted \ Labelled
    /\ IsReady(p) \/ prep[p] = "patch"
    => p \in setup

\* The pods the reconciler is about to prepare are of the type it works on.
PrepareTemplate ==
  \A p \in rec.prepare : Exists(p) => pods[p].tmpl = rec.tmpl

\* A delete stays authorized until it is carried out.
DeleteAuthorized ==
  \A r \in Requests :
    req[r].pc = "delete" /\ Exists(req[r].box)
      => req[r].owner \in {None, pods[req[r].box].owner}

\* What the janitor is about to delete is still expired.
SweptExpired == \A p \in jan : Exists(p) => p \in expired

IInv ==
  /\ TypeOK
  /\ AbsentIsBlank
  /\ ListedClaimable
  /\ WarmUnowned
  /\ AtMostOneTaker
  /\ TakenIsClaimed
  /\ TakenByOwner
  /\ Prepared
  /\ PrepareTemplate
  /\ DeleteAuthorized
  /\ SweptExpired

=============================================================================
