-------------------------- MODULE PersistentBoxesInv --------------------------
(* The inductive invariant behind the safety properties of PersistentBoxes. *)
EXTENDS PersistentBoxes

\* The phases in which a handler owes the box its second call.
Sole == {"deploy", "delpvc", "ack"}

At(r, b, pcs) == req[r].box = b /\ req[r].pc \in pcs

\* One handler at a time is between a box's two calls.
SoleIsAlone ==
  \A r, s \in Requests : \A b \in Boxes :
    At(r, b, Sole) /\ At(s, b, Sole) => r = s

\* Nobody else knows the id of a box that has no Deployment yet.
CreateOwnsVolume ==
  \A r \in Requests : \A b \in Boxes :
    At(r, b, {"deploy"}) =>
      /\ pvc[b] = "present"
      /\ ~Deployed(b)
      /\ req[r].owner \in Owners
      /\ acks[b] = 0
      /\ \A s \in Requests : req[s].box = b => s = r

\* The handler that deletes the volume has deleted the Deployment.
DeleteFollowsDeployment ==
  \A r \in Requests : \A b \in Boxes :
    At(r, b, {"delpvc", "ack"}) =>
      /\ ~Deployed(b)
      /\ acks[b] = 0
      /\ req[r].pc = "ack" => pvc[b] # "present"

\* An acknowledged delete is final.
AckIsFinal ==
  \A b \in Boxes :
    acks[b] > 0 =>
      /\ acks[b] = 1
      /\ ~Deployed(b)
      /\ pvc[b] # "present"
      /\ \A r \in Requests : ~At(r, b, Sole)

\* A delete stays authorized until it is carried out.
DeleteAuthorized ==
  \A r \in Requests : \A b \in Boxes :
    At(r, b, {"deldep"}) /\ Deployed(b) => req[r].owner \in {None, dep[b]}

\* A lone volume is some handler's business, or was.
OrphanHasCause ==
  \A b \in Boxes :
    pvc[b] = "present" /\ ~Deployed(b) /\ left[b] = {}
      => \E r \in Requests : At(r, b, {"deploy", "delpvc"})

BInv ==
  /\ TypeOK
  /\ DeploymentHasVolume
  /\ SoleIsAlone
  /\ CreateOwnsVolume
  /\ DeleteFollowsDeployment
  /\ AckIsFinal
  /\ DeleteAuthorized
  /\ OrphanHasCause

=============================================================================
