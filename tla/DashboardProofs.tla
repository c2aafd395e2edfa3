---------------------------- MODULE DashboardProofs ----------------------------
(* Proofs about Dashboard, for any number of boxes, box types and commands  *)
(* in flight.  Typing needs the cursor in range, as d and Enter index the   *)
(* rows with it, so the three invariants are proved as one.                 *)
EXTENDS Dashboard, SequenceTheorems, TLAPS

DInv == TypeOK /\ SelectionInRange /\ BuildHasCreate

\* What a command or message carries.
LEMMA FlightFacts ==
  ASSUME NEW f \in Flights
  PROVE  /\ f.op = "boxes" => f.rows \in Seq(Ids)
         /\ f.op = "tmpls" => f.n \in Nat
         /\ f.op = "created" => f.id \in Ids \cup {NoBox}
         /\ f.op \in {"exec", "poll", "delete"} => f.id \in Ids
<1>1. \A rows \in Rows : rows \in Seq(Ids)
  BY DashboardAssumption, SeqDef DEF Rows
<1>2. CASE f \in {Idle, ErrMsg} \cup {Call(op) : op \in {"list", "templates", "create", "done"}}
  BY <1>2 DEF Idle, ErrMsg, Call
<1>3. CASE f \in {On(op, id) : op \in {"delete", "poll", "created", "exec"}, id \in Ids}
  BY <1>3 DEF On
<1>4. CASE f = On("created", NoBox)
  BY <1>4 DEF On
<1>5. CASE f \in {BoxesMsg(rows) : rows \in Rows}
  BY <1>1, <1>5 DEF BoxesMsg
<1>6. CASE f \in {TmplsMsg(n) : n \in TemplateCounts}
  BY <1>6, DashboardAssumption DEF TmplsMsg
<1> QED BY <1>2, <1>3, <1>4, <1>5, <1>6 DEF Flights

\* The commands and messages there are.
LEMMA FlightKinds ==
  /\ Idle \in Flights /\ ErrMsg \in Flights /\ On("created", NoBox) \in Flights
  /\ Call("list") \in Flights /\ Call("templates") \in Flights
  /\ Call("create") \in Flights /\ Call("done") \in Flights
  /\ \A id \in Ids : /\ On("delete", id) \in Flights /\ On("poll", id) \in Flights
                     /\ On("created", id) \in Flights /\ On("exec", id) \in Flights
  /\ \A rows \in Rows : BoxesMsg(rows) \in Flights
  /\ \A n \in TemplateCounts : TmplsMsg(n) \in Flights
BY DEF Flights

\* The clamp brings a cursor into n rows.
LEMMA ClampFacts ==
  ASSUME NEW c \in Nat, NEW n \in Nat
  PROVE  Clamp(c, n) \in Nat /\ Clamp(c, n) < Larger(1, n)
BY DEF Clamp, Larger

\* What kind of record each is.
LEMMA Kinds ==
  /\ Idle.op = "idle" /\ ErrMsg.op = "err" /\ On("created", NoBox).op = "created"
  /\ Call("list").op = "list" /\ Call("templates").op = "templates"
  /\ Call("create").op = "create" /\ Call("done").op = "done"
  /\ \A id \in Ids : On("poll", id).op = "poll" /\ On("created", id).op = "created"
BY DEF Idle, ErrMsg, Call, On

\* Starting a command in a free slot keeps a create that is at work.
LEMMA StartFacts ==
  ASSUME TypeOK, NEW f \in Flights, Start(f)
  PROVE  /\ flight' \in [Slots -> Flights]
         /\ Creating => Creating'
         /\ f.op = "create" => Creating'
<1> PICK s \in Slots : flight[s] = Idle /\ flight' = [flight EXCEPT ![s] = f]
  BY DEF Start
<1>1. flight' \in [Slots -> Flights]
  BY DEF TypeOK
<1>2. ASSUME Creating PROVE Creating'
  <2> PICK r \in Slots : flight[r].op \in {"create", "poll", "created"}
    BY <1>2 DEF Creating
  <2>1. r # s
    BY Kinds
  <2>2. flight'[r] = flight[r]
    BY <2>1 DEF TypeOK
  <2> QED BY <2>2 DEF Creating
<1>3. ASSUME f.op = "create" PROVE Creating'
  BY <1>3 DEF TypeOK, Creating
<1> QED BY <1>1, <1>2, <1>3

\* A slot that turns into something else takes the create away only if it held it.
LEMMA ReturnFacts ==
  ASSUME TypeOK, NEW s \in Slots, NEW f \in Flights, Return(s, f)
  PROVE  /\ flight' \in [Slots -> Flights]
         /\ /\ Creating
            /\ \/ f.op \in {"create", "poll", "created"}
               \/ flight[s].op \notin {"create", "poll", "created"}
            => Creating'
<1>1. flight' \in [Slots -> Flights]
  BY DEF TypeOK, Return
<1>2. ASSUME f.op \in {"create", "poll", "created"} PROVE Creating'
  BY <1>2 DEF TypeOK, Creating, Return
<1>3. ASSUME Creating, flight[s].op \notin {"create", "poll", "created"} PROVE Creating'
  <2> PICK r \in Slots : flight[r].op \in {"create", "poll", "created"}
    BY <1>3 DEF Creating
  <2>1. flight'[r] = flight[r]
    BY <1>3 DEF TypeOK, Return
  <2> QED BY <2>1 DEF Creating
<1> QED BY <1>1, <1>2, <1>3

-----------------------------------------------------------------------------
(* One lemma per action.                                                    *)

LEMMA InitInv == Init => DInv
<1> SUFFICES ASSUME Init PROVE DInv
  OBVIOUS
<1>1. TypeOK
  BY DashboardAssumption, FlightKinds, EmptySeq DEF Init, TypeOK
<1>2. SelectionInRange
  BY EmptySeq DEF Init, SelectionInRange, Larger
<1>3. BuildHasCreate
  BY DEF Init, BuildHasCreate
<1> QED BY <1>1, <1>2, <1>3 DEF DInv

\* A list answer may bring any rows; the cursor is brought into them.
LEMMA LoadedInv ==
  ASSUME DInv, NEW s \in Slots, Loaded(s), UNCHANGED <<timer, shell, world, calm>>
  PROVE  DInv'
<1>1. flight[s] \in Flights
  BY DEF DInv, TypeOK
<1>2. flight[s].rows \in Seq(Ids)
  BY <1>1, FlightFacts DEF Loaded
<1>3. Len(flight[s].rows) \in Nat
  BY <1>2
<1>4. cursor' \in Nat /\ cursor' < Larger(1, Len(boxes'))
  BY <1>2, <1>3, ClampFacts DEF DInv, TypeOK, Loaded
<1>5. flight' \in [Slots -> Flights] /\ (Creating => Creating')
  BY FlightKinds, Kinds, ReturnFacts DEF DInv, Loaded
<1>6. TypeOK'
  BY <1>2, <1>4, <1>5 DEF DInv, TypeOK, Loaded, pickVars
<1>7. SelectionInRange' /\ BuildHasCreate'
  BY <1>4, <1>5 DEF DInv, SelectionInRange, BuildHasCreate, Loaded, pickVars
<1> QED BY <1>6, <1>7 DEF DInv

LEMMA TemplatesLoadedInv ==
  ASSUME DInv, NEW s \in Slots, TemplatesLoaded(s), UNCHANGED <<timer, shell, world, calm>>
  PROVE  DInv'
<1>1. flight[s] \in Flights
  BY DEF DInv, TypeOK
<1>2. flight[s].n \in Nat
  BY <1>1, FlightFacts DEF TemplatesLoaded
<1>3. flight' \in [Slots -> Flights]
  BY FlightKinds, ReturnFacts DEF DInv, TemplatesLoaded
<1>4. TypeOK'
  BY <1>2, <1>3 DEF DInv, TypeOK, TemplatesLoaded, rowVars
<1>5. SelectionInRange'
  BY <1>2 DEF DInv, SelectionInRange, TemplatesLoaded, rowVars, Larger
<1>6. BuildHasCreate'
  BY DEF BuildHasCreate, TemplatesLoaded
<1> QED BY <1>4, <1>5, <1>6 DEF DInv

\* Messages that go back to the list.
LEMMA CreatedInv ==
  ASSUME DInv, NEW s \in Slots, Created(s), UNCHANGED <<timer, shell, world, calm>>
  PROVE  DInv'
<1>1. flight[s] \in Flights
  BY DEF DInv, TypeOK
<1>2. flight[s].id \in Ids \cup {NoBox}
  BY <1>1, FlightFacts DEF Created
<1>3. (IF flight[s].id = NoBox THEN Call("list") ELSE On("exec", flight[s].id)) \in Flights
  BY <1>2, FlightKinds
<1>4. flight' \in [Slots -> Flights]
  BY <1>3, ReturnFacts DEF DInv, Created
<1>5. TypeOK'
  BY <1>4 DEF DInv, TypeOK, Created, rowVars, pickVars
<1>6. SelectionInRange' /\ BuildHasCreate'
  BY DEF DInv, SelectionInRange, BuildHasCreate, Created, rowVars, pickVars
<1> QED BY <1>5, <1>6 DEF DInv

LEMMA FailedInv ==
  ASSUME DInv, NEW s \in Slots, Failed(s), UNCHANGED <<timer, shell, world, calm>>
  PROVE  DInv'
<1>1. flight' \in [Slots -> Flights]
  BY FlightKinds, ReturnFacts DEF DInv, Failed
<1>2. TypeOK'
  BY <1>1 DEF DInv, TypeOK, Failed, rowVars, pickVars
<1>3. SelectionInRange' /\ BuildHasCreate'
  BY DEF DInv, SelectionInRange, BuildHasCreate, Failed, rowVars, pickVars
<1> QED BY <1>2, <1>3 DEF DInv

\* What leaves the screens alone and the create at work keeps the invariant.
LEMMA SameScreens ==
  ASSUME DInv, UNCHANGED screenVars, timer' \in BOOLEAN, calm' \in BOOLEAN,
         shell' \in Ids \cup {NoBox}, world' \in [Ids -> {"none", "there", "gone"}],
         flight' \in [Slots -> Flights], Creating => Creating'
  PROVE  DInv'
<1>1. TypeOK'
  BY DEF DInv, TypeOK, screenVars, rowVars, pickVars
<1>2. SelectionInRange' /\ BuildHasCreate'
  BY DEF DInv, SelectionInRange, BuildHasCreate, screenVars, rowVars, pickVars
<1> QED BY <1>1, <1>2 DEF DInv

LEMMA DeliverInv ==
  ASSUME DInv, NEW s \in Slots, Deliver(s)
  PROVE  DInv'
<1>1. CASE Finished(s) /\ UNCHANGED shell
  <2>1. flight[s].op = "done" /\ Call("list") \in Flights
    BY <1>1, FlightKinds DEF Finished, Call
  <2>2. flight' \in [Slots -> Flights] /\ (Creating => Creating')
    BY <1>1, <2>1, ReturnFacts DEF DInv, Finished
  <2> QED BY <1>1, <2>2, SameScreens DEF DInv, TypeOK, Finished, Deliver
<1>2. CASE OpenShell(s)
  <2>1. flight[s] \in Flights
    BY DEF DInv, TypeOK
  <2>2. shell' \in Ids \cup {NoBox}
    BY <1>2, <2>1, FlightFacts DEF OpenShell
  <2>3. flight' \in [Slots -> Flights] /\ (Creating => Creating')
    BY <1>2, FlightKinds, Kinds, ReturnFacts DEF DInv, OpenShell
  <2> QED BY <1>2, <2>2, <2>3, SameScreens DEF DInv, TypeOK, OpenShell, Deliver
<1> QED BY <1>1, <1>2, LoadedInv, TemplatesLoadedInv, CreatedInv, FailedInv DEF Deliver, Handle

LEMMA TickInv ==
  ASSUME DInv, Tick
  PROVE  DInv'
<1>1. flight' \in [Slots -> Flights] /\ (Creating => Creating')
  BY FlightKinds, StartFacts DEF DInv, Tick
<1> QED BY <1>1, SameScreens DEF DInv, TypeOK, Tick

\* The row of the list that the cursor selects is a box; d takes it out.
LEMMA DeleteInv ==
  ASSUME DInv, Delete, UNCHANGED <<timer, shell, world, calm>>
  PROVE  DInv'
<1>1. boxes \in Seq(Ids) /\ cursor \in Nat /\ Len(boxes) \in Nat \ {0}
  BY EmptySeq DEF DInv, TypeOK, Delete
<1>2. cursor + 1 \in 1..Len(boxes)
  BY <1>1 DEF DInv, SelectionInRange, Larger
<1>3. boxes[cursor + 1] \in Ids
  BY <1>1, <1>2, ElementOfSeq
<1> DEFINE front == SubSeq(boxes, 1, cursor)
           back == SubSeq(boxes, cursor + 2, Len(boxes))
<1>4. front \in Seq(Ids) /\ Len(front) = cursor
  BY <1>1, <1>2, SubSeqProperties
<1>5. back \in Seq(Ids) /\ Len(back) = Len(boxes) - cursor - 1
  BY <1>1, <1>2, SubSeqProperties
<1>6. front \o back \in Seq(Ids) /\ Len(front \o back) = Len(boxes) - 1
  <2>1. front \o back \in Seq(Ids) /\ Len(front \o back) = Len(front) + Len(back)
    BY <1>4, <1>5, ConcatProperties
  <2> HIDE DEF front, back
  <2> QED BY <1>1, <1>2, <1>4, <1>5, <2>1
<1>7. boxes' \in Seq(Ids) /\ Len(boxes') = Len(boxes) - 1
  BY <1>6 DEF Delete
<1>8. cursor' \in Nat /\ cursor' < Larger(1, Len(boxes'))
  <2>1. Len(boxes) - 1 \in Nat
    BY <1>1
  <2> QED BY <1>1, <1>7, <2>1, ClampFacts DEF Delete
<1>9. On("delete", boxes[cursor + 1]) \in Flights
  BY <1>3, FlightKinds
<1>10. flight' \in [Slots -> Flights] /\ (Creating => Creating')
  BY <1>9, StartFacts DEF DInv, Delete
<1>11. TypeOK'
  BY <1>7, <1>8, <1>10 DEF DInv, TypeOK, Delete, pickVars
<1>12. SelectionInRange' /\ BuildHasCreate'
  BY <1>8, <1>10 DEF DInv, SelectionInRange, BuildHasCreate, Delete, pickVars
<1> QED BY <1>11, <1>12 DEF DInv

LEMMA UpdateListInv ==
  ASSUME DInv, UpdateList, UNCHANGED <<timer, shell, world, calm>>
  PROVE  DInv'
<1>1. CASE MoveRow
  <2>1. Len(boxes) \in Nat
    BY DEF DInv, TypeOK
  <2>2. cursor' \in Nat /\ cursor' < Len(boxes)
    BY <1>1, <2>1 DEF MoveRow, Moves
  <2>3. TypeOK'
    BY <1>1, <2>2 DEF DInv, TypeOK, MoveRow, pickVars
  <2>4. SelectionInRange' /\ BuildHasCreate'
    BY <1>1, <2>1, <2>2 DEF DInv, TypeOK, SelectionInRange, BuildHasCreate, Creating, Larger,
                            MoveRow, pickVars
  <2> QED BY <2>3, <2>4 DEF DInv
<1>2. CASE Refresh \/ New
  <2>1. flight' \in [Slots -> Flights] /\ (Creating => Creating')
    BY <1>2, FlightKinds, StartFacts DEF DInv, Refresh, New
  <2> QED BY <1>2, <2>1, SameScreens DEF DInv, TypeOK, Refresh, New
<1>3. CASE Open
  <2>1. boxes \in Seq(Ids) /\ cursor + 1 \in 1..Len(boxes)
    BY <1>3, EmptySeq DEF DInv, TypeOK, SelectionInRange, Larger, Open
  <2>2. On("exec", boxes[cursor + 1]) \in Flights
    BY <2>1, ElementOfSeq, FlightKinds
  <2>3. flight' \in [Slots -> Flights] /\ (Creating => Creating')
    BY <1>3, <2>2, StartFacts DEF DInv, Open
  <2> QED BY <1>3, <2>3, SameScreens DEF DInv, TypeOK, Open
<1> QED BY <1>1, <1>2, <1>3, DeleteInv DEF UpdateList

\* The dialogs.  Launch goes to the build screen and starts a create.
LEMMA KeyInv ==
  ASSUME DInv, Key
  PROVE  DInv'
<1>1. CASE UpdateList
  BY <1>1, UpdateListInv DEF Key
<1>2. CASE MovePick
  <2>1. pcur' \in Nat /\ pcur' < Larger(1, tmpls)
    BY <1>2 DEF DInv, TypeOK, MovePick, Moves, Larger
  <2>2. TypeOK'
    BY <1>2, <2>1 DEF DInv, TypeOK, Key, MovePick, rowVars
  <2>3. SelectionInRange' /\ BuildHasCreate'
    BY <1>2, <2>1 DEF DInv, SelectionInRange, BuildHasCreate, Creating, MovePick, rowVars
  <2> QED BY <2>2, <2>3 DEF DInv
<1>3. CASE Turn
  <2>1. mode' \in {"list", "pick", "kind", "name"}
    BY <1>3 DEF Turn, Back, Forward
  <2>2. TypeOK'
    BY <1>3, <2>1 DEF DInv, TypeOK, Key, Turn, rowVars, pickVars
  <2>3. SelectionInRange' /\ BuildHasCreate'
    BY <1>3, <2>1 DEF DInv, SelectionInRange, BuildHasCreate, Turn, rowVars, pickVars
  <2> QED BY <2>2, <2>3 DEF DInv
<1>4. CASE Launch
  <2>1. flight' \in [Slots -> Flights] /\ Creating'
    BY <1>4, FlightKinds, Kinds, StartFacts DEF DInv, Launch
  <2>2. TypeOK'
    BY <1>4, <2>1 DEF DInv, TypeOK, Key, Launch, rowVars, pickVars
  <2>3. SelectionInRange' /\ BuildHasCreate'
    BY <1>4, <2>1 DEF DInv, SelectionInRange, BuildHasCreate, Launch, rowVars, pickVars
  <2> QED BY <2>2, <2>3 DEF DInv
<1> QED BY <1>1, <1>2, <1>3, <1>4 DEF Key

LEMMA QuitInv ==
  ASSUME DInv, Quit
  PROVE  DInv'
<1>1. TypeOK'
  BY FlightKinds, EmptySeq DEF DInv, TypeOK, Quit
<1>2. SelectionInRange' /\ BuildHasCreate'
  BY EmptySeq DEF SelectionInRange, BuildHasCreate, Quit, Larger
<1> QED BY <1>1, <1>2 DEF DInv

\* A command's answer is typed, and a create ends in a createdMsg, also when it fails.
LEMMA CommandInv ==
  ASSUME DInv, NEW s \in Slots, Command(s)
  PROVE  DInv'
<1> USE DEF DInv
<1>1. flight[s] \in Flights
  BY DEF TypeOK
<1>2. world' \in [Ids -> {"none", "there", "gone"}]
  BY DEF TypeOK, Command, Answer, CallFails, AnswerList, AnswerTemplates, AnswerDelete,
         AnswerCreate, PollSeesRunning, PollDeadline
<1>3. flight' \in [Slots -> Flights] /\ (Creating => Creating')
  <2>1. CASE AnswerList(s)
    BY <2>1, FlightKinds, Kinds, ReturnFacts DEF AnswerList
  <2>2. CASE AnswerTemplates(s)
    BY <2>2, FlightKinds, Kinds, ReturnFacts DEF AnswerTemplates
  <2>3. CASE AnswerDelete(s)
    BY <2>3, FlightKinds, Kinds, ReturnFacts DEF AnswerDelete
  <2>4. CASE AnswerCreate(s)
    BY <2>4, FlightKinds, Kinds, ReturnFacts DEF AnswerCreate
  <2>5. CASE PollSeesRunning(s) \/ PollDeadline(s)
    <3>1. flight[s].id \in Ids
      BY <1>1, <2>5, FlightFacts DEF PollSeesRunning, PollDeadline
    <3> QED BY <2>5, <3>1, FlightKinds, Kinds, ReturnFacts DEF PollSeesRunning, PollDeadline
  <2>6. CASE CallFails(s)
    BY <2>6, FlightKinds, Kinds, ReturnFacts DEF CallFails
  <2> QED BY <2>1, <2>2, <2>3, <2>4, <2>5, <2>6 DEF Command, Answer
<1> QED BY <1>2, <1>3, SameScreens DEF TypeOK, Command

LEMMA NextInv ==
  ASSUME DInv, [Next]_vars
  PROVE  DInv'
<1>1. ASSUME NEW s \in Slots, Deliver(s) \/ Command(s) PROVE DInv'
  BY <1>1, DeliverInv, CommandInv
<1>2. CASE Tick \/ Key \/ Quit
  BY <1>2, TickInv, KeyInv, QuitInv
<1>3. CASE ShellEnds
  BY <1>3, SameScreens DEF DInv, TypeOK, ShellEnds, Creating
<1>4. CASE World
  <2>1. world' \in [Ids -> {"none", "there", "gone"}]
    BY <1>4 DEF DInv, TypeOK, World
  <2> QED BY <1>4, <2>1, SameScreens DEF DInv, TypeOK, World, Creating
<1>5. CASE Calm
  BY <1>5, SameScreens DEF DInv, TypeOK, Calm, Creating
<1>6. CASE UNCHANGED vars
  BY <1>6, SameScreens DEF DInv, TypeOK, vars, screenVars, rowVars, pickVars, Creating
<1> QED BY <1>1, <1>2, <1>3, <1>4, <1>5, <1>6 DEF Next

-----------------------------------------------------------------------------
(* The theorems.                                                            *)

\* The invariant holds, whatever messages arrive in whatever order.
THEOREM DashboardInvariant == Spec => []DInv
<1> QED BY InitInv, NextInv, PTL DEF Spec

\* The dashboard's state is well-formed (model, dashboard.go:97-117).
THEOREM DashboardTyped == Spec => []TypeOK
<1>1. DInv => TypeOK
  BY DEF DInv
<1> QED BY <1>1, DashboardInvariant, PTL

\* No key indexes past the rows or the box types (dashboard.go:244, 248, 274).
THEOREM SelectionInRangeHolds == Spec => []SelectionInRange
<1>1. DInv => SelectionInRange
  BY DEF DInv
<1> QED BY <1>1, DashboardInvariant, PTL

\* The build screen always has a create in flight that will end it (dashboard.go:184).
THEOREM BuildHasCreateHolds == Spec => []BuildHasCreate
<1>1. DInv => BuildHasCreate
  BY DEF DInv
<1> QED BY <1>1, DashboardInvariant, PTL

=============================================================================
