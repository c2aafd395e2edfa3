---------------------------- MODULE WarmPoolLease ----------------------------
(* The warm pool implements BoxLease.                                      *)
EXTENDS WarmPoolInv

LeaseState(p) ==
  IF ~Exists(p) THEN "free"
  ELSE IF Deleting(p) THEN "closing"
  ELSE IF pods[p].pool = "claimed" THEN "leased" ELSE "warm"

LeaseAnswer(p) ==
  IF Holders(p) # {} THEN "due" ELSE IF handed[p] > 0 THEN "told" ELSE "none"

Lease == INSTANCE BoxLease WITH
           Boxes <- Pods,
           state <- [p \in Pods |-> LeaseState(p)],
           owner <- [p \in Pods |-> pods[p].owner],
           answer <- [p \in Pods |-> LeaseAnswer(p)]

\* The handlers, the reconciler, its goroutines, the janitor and the cluster
\* together behave as a lessor of boxes: each is granted to one user at most
\* once, never returns to the pool, and its grant is answered at most once.
BoxesAreLeased == Lease!Spec

=============================================================================
