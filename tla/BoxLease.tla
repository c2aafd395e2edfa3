------------------------------ MODULE BoxLease ------------------------------
(***************************************************************************)
(* What boxlyd promises about disposable boxes, without saying how: a box  *)
(* is offered in the pool or granted directly, is granted to one user at   *)
(* most once in its life, is never taken back into the pool, and the       *)
(* grant is answered at most once.                                         *)
(***************************************************************************)

CONSTANTS
  Boxes,   \* box ids
  Owners,  \* user names
  None     \* no owner

VARIABLES
  state,   \* per box: free, warm, leased or closing
  owner,   \* per box: the user it was granted to
  answer   \* per box: whether its grant has an answer outstanding

leaseVars == <<state, owner, answer>>

LeaseTypeOK ==
  /\ state \in [Boxes -> {"free", "warm", "leased", "closing"}]
  /\ owner \in [Boxes -> Owners \cup {None}]
  /\ answer \in [Boxes -> {"none", "due", "told"}]

Init ==
  /\ state = [b \in Boxes |-> "free"]
  /\ owner = [b \in Boxes |-> None]
  /\ answer = [b \in Boxes |-> "none"]

\* A new box joins the pool.
Offer(b) ==
  /\ state[b] = "free" /\ answer[b] # "due"
  /\ state' = [state EXCEPT ![b] = "warm"]
  /\ answer' = [answer EXCEPT ![b] = "none"]
  /\ UNCHANGED owner

\* A user gets a box, from the pool or a new one.
Grant(b, o) ==
  /\ \/ state[b] = "warm" /\ answer[b] = "none"
     \/ state[b] = "free" /\ answer[b] # "due"
  /\ state' = [state EXCEPT ![b] = "leased"]
  /\ owner' = [owner EXCEPT ![b] = o]
  /\ answer' = [answer EXCEPT ![b] = "due"]

\* The user learns of the grant, even if the box has gone meanwhile.
Answer(b) ==
  /\ answer[b] = "due"
  /\ answer' = [answer EXCEPT ![b] = "told"]
  /\ UNCHANGED <<state, owner>>

\* Answers get lost, several at a time when boxlyd crashes.
Lose ==
  /\ UNCHANGED <<state, owner>>
  /\ \E B \in SUBSET {b \in Boxes : answer[b] = "due"} :
       answer' = [b \in Boxes |-> IF b \in B THEN "none" ELSE answer[b]]

Close(b) ==
  /\ state[b] \in {"warm", "leased"}
  /\ state' = [state EXCEPT ![b] = "closing"]
  /\ UNCHANGED <<owner, answer>>

\* A closed box ends; its id stands for a new box.
Free(b) ==
  /\ state[b] = "closing"
  /\ state' = [state EXCEPT ![b] = "free"]
  /\ owner' = [owner EXCEPT ![b] = None]
  /\ answer' = [answer EXCEPT ![b] = IF @ = "told" THEN "none" ELSE @]

Next ==
  \/ Lose
  \/ \E b \in Boxes : \/ Offer(b) \/ Answer(b) \/ Close(b) \/ Free(b)
                      \/ \E o \in Owners : Grant(b, o)

Spec == Init /\ [][Next]_leaseVars

=============================================================================
