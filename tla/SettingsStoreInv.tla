--------------------------- MODULE SettingsStoreInv ---------------------------
(* The inductive invariant behind the safety properties of SettingsStore.  *)
EXTENDS SettingsStore

Active(r) == put[r].pc # "idle"

InOrder(c) == 0 <= c.min /\ c.min <= c.max

\* What is stored, and so what is saved, has been normalized.
NextInOrder ==
  \A r \in Puts : put[r].pc \notin {"idle", "set"} => InOrder(put[r].next.conf)

\* A PUT that ran alone so far is the only one.
LoneIsAlone ==
  \A r \in lone : Active(r) /\ \A q \in Puts : Active(q) => q = r

\* Any other has been overlapped, and that is on record.
OthersOverlap ==
  \A r \in Puts : Active(r) /\ r \notin lone => "overlap" \in cause

Copies(s) == cur = s /\ saved = s

\* How far a PUT that runs alone has come.
LoneProgress ==
  \A r \in lone :
    /\ put[r].pc = "save" => cur = put[r].next
    /\ put[r].pc = "create" => cur = put[r].next /\ saved = None
    /\ put[r].pc = "registry" => Copies(put[r].next)
    /\ put[r].pc = "defaults" =>
         Copies(put[r].next) /\ reg = Registry(put[r].next.list)

\* The four copies hold the same settings.
InSync ==
  /\ cur = Stored
  /\ reg = Registry(cur.list)
  /\ cur.conf.image # None => image = cur.conf.image

\* They do until a PUT without any predecessor in trouble begins to store.
SyncedBefore ==
  cause = {} /\ (\A r \in Puts : put[r].pc \in {"idle", "set"}) => InSync

\* What such a PUT writes differs in its own half only.
LoneEdits ==
  \A r \in lone :
    cause = {} =>
      /\ OtherHalf(put[r].kind, put[r].next) = OtherHalf(put[r].kind, cur)
      /\ OtherHalf(put[r].kind, put[r].next) = OtherHalf(put[r].kind, Stored)

SInv ==
  /\ TypeOK
  /\ SavedInOrder
  /\ NextInOrder
  /\ LoneIsAlone
  /\ OthersOverlap
  /\ LoneProgress
  /\ SyncedBefore
  /\ LoneEdits

=============================================================================
