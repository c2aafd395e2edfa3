------------------------------ MODULE Dashboard ------------------------------
(***************************************************************************)
(* The full-screen dashboard: one event loop that handles keys, timers and *)
(* the answers of commands, which run next to it and finish in any order.  *)
(* While a shell has the terminal, the loop stands still.                  *)
(*                                                                         *)
(* A command in flight is a record, and so is the message it turns into.   *)
(* Names, owners, box types, the status line and the animation are left    *)
(* out.                                                                    *)
(***************************************************************************)
EXTENDS Integers, Sequences, FiniteSets

CONSTANTS
  MaxBoxes,        \* bound on the boxes that are ever created
  TemplateCounts,  \* how many box types the server may offer
  Slots            \* bound on the commands in flight

ASSUME DashboardAssumption ==
  /\ MaxBoxes \in Nat
  /\ TemplateCounts \subseteq Nat
  /\ Slots \subseteq Nat /\ 0 \in Slots

VARIABLES
  boxes,   \* the rows shown: box ids, in the order of the server's answer
  cursor,  \* the selected row, from 0
  mode,    \* the screen; "quit" once the program has ended
  tmpls,   \* how many box types the picker shows
  pcur,    \* the selected one, from 0
  timer,   \* whether the refresh timer is armed
  shell,   \* the box whose shell has the terminal, or NoBox
  flight,  \* per slot, a command at work or its message on the way
  world,   \* per box, whether the server has it
  calm     \* the user, other clients and failures have stopped

vars == <<boxes, cursor, mode, tmpls, pcur, timer, shell, flight, world, calm>>

rowVars == <<boxes, cursor>>
pickVars == <<tmpls, pcur>>
screenVars == <<rowVars, mode, pickVars>>

\* manager.List has sandboxes first and then persistent boxes, each by their random
\* names: an id stands for a place in that order.
Ids == 1..MaxBoxes
NoBox == 0

Larger(m, n) == IF m > n THEN m ELSE n

\* A page of the list: ids in order.
Rows == {rows \in UNION {[1..n -> Ids] : n \in 0..MaxBoxes} :
           \A i, j \in DOMAIN rows : i < j => rows[i] < rows[j]}

Visible == {i \in Ids : world[i] = "there"}

IsListing(rows) == {rows[i] : i \in DOMAIN rows} = Visible

\* What a slot may hold: nothing, a call, or a message.  A createdMsg without a
\* box is a failed one.
Idle == [op |-> "idle"]
Call(op) == [op |-> op]
On(op, id) == [op |-> op, id |-> id]
BoxesMsg(rows) == [op |-> "boxes", rows |-> rows]
TmplsMsg(n) == [op |-> "tmpls", n |-> n]
ErrMsg == [op |-> "err"]

Flights ==
  {Idle, ErrMsg} \cup {Call(op) : op \in {"list", "templates", "create", "done"}}
    \cup {On(op, id) : op \in {"delete", "poll", "created", "exec"}, id \in Ids}
    \cup {On("created", NoBox)}
    \cup {BoxesMsg(rows) : rows \in Rows} \cup {TmplsMsg(n) : n \in TemplateCounts}

\* The state is well-formed; the cursors are never negative.
TypeOK ==
  /\ boxes \in Seq(Ids) /\ cursor \in Nat
  /\ mode \in {"list", "pick", "kind", "name", "build", "quit"}
  /\ tmpls \in Nat /\ pcur \in Nat
  /\ timer \in BOOLEAN /\ calm \in BOOLEAN
  /\ shell \in Ids \cup {NoBox}
  /\ flight \in [Slots -> Flights]
  /\ world \in [Ids -> {"none", "there", "gone"}]

Init ==
  /\ boxes = <<>> /\ cursor = 0 /\ mode = "list" /\ tmpls = 0 /\ pcur = 0
  /\ timer = TRUE /\ shell = NoBox /\ calm = FALSE
  /\ flight = [s \in Slots |-> IF s = 0 THEN Call("list") ELSE Idle]
  /\ world = [i \in Ids |-> "none"]

-----------------------------------------------------------------------------
(* The event loop.                                                         *)

Listening == shell = NoBox /\ mode # "quit"

\* The command takes the first free slot.
Start(f) ==
  \E s \in Slots :
    /\ flight[s] = Idle
    /\ \A r \in Slots : flight[r] = Idle => s <= r
    /\ flight' = [flight EXCEPT ![s] = f]

\* Once the message of slot s is handled, the command it returns takes its place.
Return(s, f) == flight' = [flight EXCEPT ![s] = f]

\* Mutant: the clamp without its floor.
ClampNoFloor(c, n) == IF c >= n THEN n - 1 ELSE c

Clamp(c, n) == IF c >= n THEN Larger(0, n - 1) ELSE c

\* boxesMsg, on any screen.
Loaded(s) ==
  /\ flight[s].op = "boxes"
  /\ boxes' = flight[s].rows
  /\ cursor' = Clamp(cursor, Len(flight[s].rows))
  /\ Return(s, Idle)
  /\ UNCHANGED <<mode, pickVars>>

\* Mutant: the picker keeps its row.
TemplatesLoadedAtRow(s) ==
  /\ flight[s].op = "tmpls"
  /\ tmpls' = flight[s].n /\ mode' = "pick"
  /\ Return(s, Idle)
  /\ UNCHANGED <<rowVars, pcur>>

\* tmplsMsg opens the picker, whatever screen is shown.
TemplatesLoaded(s) ==
  /\ flight[s].op = "tmpls"
  /\ tmpls' = flight[s].n /\ pcur' = 0 /\ mode' = "pick"
  /\ Return(s, Idle)
  /\ UNCHANGED rowVars

\* Mutant: the screen stays until the shell has ended.
CreatedOnScreen(s) ==
  /\ flight[s].op = "created"
  /\ Return(s, IF flight[s].id = NoBox THEN Call("list") ELSE On("exec", flight[s].id))
  /\ UNCHANGED <<rowVars, mode, pickVars>>

\* createdMsg goes back to the list, and to the shell if there is a box.
Created(s) ==
  /\ flight[s].op = "created"
  /\ mode' = "list"
  /\ Return(s, IF flight[s].id = NoBox THEN Call("list") ELSE On("exec", flight[s].id))
  /\ UNCHANGED <<rowVars, pickVars>>

\* errMsg, of whatever command, ends every dialog and the build screen.
Failed(s) ==
  /\ flight[s] = ErrMsg
  /\ mode' = "list"
  /\ Return(s, Idle)
  /\ UNCHANGED <<rowVars, pickVars>>

\* doneMsg, after a delete or a shell.
Finished(s) ==
  /\ flight[s] = Call("done")
  /\ Return(s, Call("list"))
  /\ UNCHANGED screenVars

Handle(s) ==
  /\ Loaded(s) \/ TemplatesLoaded(s) \/ Created(s) \/ Failed(s) \/ Finished(s)
  /\ UNCHANGED shell

\* The message of ExecProcess: the loop gives the terminal away.  The slot waits for
\* the shell to end.
OpenShell(s) ==
  /\ flight[s].op = "exec"
  /\ shell' = flight[s].id
  /\ Return(s, Call("done"))
  /\ UNCHANGED screenVars

Deliver(s) ==
  /\ Listening
  /\ Handle(s) \/ OpenShell(s)
  /\ UNCHANGED <<timer, world, calm>>

ShellEnds ==
  /\ shell # NoBox
  /\ shell' = NoBox
  /\ UNCHANGED <<screenVars, timer, flight, world, calm>>

\* Mutant: the timer is not armed again.
TickOnce ==
  /\ Listening /\ timer
  /\ Start(Call("list"))
  /\ timer' = FALSE
  /\ UNCHANGED <<screenVars, shell, world, calm>>

\* tickMsg loads the list and arms the timer again.
Tick ==
  /\ Listening /\ timer
  /\ Start(Call("list"))
  /\ timer' = TRUE
  /\ UNCHANGED <<screenVars, shell, world, calm>>

-----------------------------------------------------------------------------
(* Keys.                                                                   *)

\* Up and down, in n rows.
Moves(c, n) == {c - 1, c + 1} \cap 0..(n - 1)

MoveRow ==
  /\ cursor' \in Moves(cursor, Len(boxes))
  /\ UNCHANGED <<boxes, mode, pickVars, flight>>

Refresh == Start(Call("list")) /\ UNCHANGED screenVars

New == Start(Call("templates")) /\ UNCHANGED screenVars

Open ==
  /\ boxes # <<>>
  /\ Start(On("exec", boxes[cursor + 1]))
  /\ UNCHANGED screenVars

\* The row goes at once, the box when the server has heard of it.
Delete ==
  /\ boxes # <<>>
  /\ boxes' = SubSeq(boxes, 1, cursor) \o SubSeq(boxes, cursor + 2, Len(boxes))
  /\ cursor' = Clamp(cursor, Len(boxes) - 1)
  /\ Start(On("delete", boxes[cursor + 1]))
  /\ UNCHANGED <<mode, pickVars>>

UpdateList == mode = "list" /\ (MoveRow \/ Refresh \/ New \/ Open \/ Delete)

MovePick ==
  /\ mode = "pick"
  /\ pcur' \in Moves(pcur, tmpls)
  /\ UNCHANGED <<rowVars, mode, tmpls, flight>>

\* Escape goes back a screen, Enter forward; choosing needs something to choose.
Back == [pick |-> "list", kind |-> "pick", name |-> "kind"]
Forward == [pick |-> "kind", kind |-> "name"]

Turn ==
  /\ \/ mode \in DOMAIN Back /\ mode' = Back[mode]
     \/ mode \in DOMAIN Forward /\ (mode = "pick" => tmpls > 0) /\ mode' = Forward[mode]
  /\ UNCHANGED <<rowVars, pickVars, flight>>

\* Enter on the last dialog.
Launch ==
  /\ mode = "name"
  /\ mode' = "build"
  /\ Start(Call("create"))
  /\ UNCHANGED <<rowVars, pickVars>>

\* The build screen ignores keys.
Key ==
  /\ Listening /\ ~calm
  /\ UpdateList \/ MovePick \/ Turn \/ Launch
  /\ UNCHANGED <<timer, shell, world, calm>>

\* q in the list, ctrl+c anywhere: the process ends, and its commands with it.
Quit ==
  /\ Listening /\ ~calm
  /\ mode' = "quit"
  /\ boxes' = <<>> /\ cursor' = 0 /\ tmpls' = 0 /\ pcur' = 0
  /\ flight' = [s \in Slots |-> Idle]
  /\ timer' = FALSE
  /\ UNCHANGED <<shell, world, calm>>

-----------------------------------------------------------------------------
(* Commands, each a goroutine with calls to boxlyd.                        *)

AnswerList(s) ==
  /\ flight[s] = Call("list")
  /\ \E rows \in Rows : IsListing(rows) /\ Return(s, BoxesMsg(rows))
  /\ UNCHANGED world

AnswerTemplates(s) ==
  /\ flight[s] = Call("templates")
  /\ \E n \in TemplateCounts : Return(s, TmplsMsg(n))
  /\ UNCHANGED world

\* A box that is on its way out is deleted again, one that is gone is not found.
AnswerDelete(s) ==
  /\ flight[s].op = "delete"
  /\ IF flight[s].id \in Visible
     THEN /\ world' = [world EXCEPT ![flight[s].id] = "gone"]
          /\ Return(s, Call("done"))
     ELSE UNCHANGED world /\ (Return(s, Call("done")) \/ Return(s, ErrMsg))

\* The new box may sort anywhere.  Without an id left to give, the call fails.
AnswerCreate(s) ==
  /\ flight[s] = Call("create")
  /\ \/ \E i \in Ids : /\ world[i] = "none"
                       /\ world' = [world EXCEPT ![i] = "there"]
                       /\ Return(s, On("poll", i))
     \/ /\ \A i \in Ids : world[i] # "none"
        /\ UNCHANGED world /\ Return(s, On("created", NoBox))

\* createBox asks until the box runs, which one that exists may do at any time, or its
\* two minutes are over, and then reports the box in either case.
PollSeesRunning(s) ==
  /\ flight[s].op = "poll" /\ flight[s].id \in Visible
  /\ Return(s, On("created", flight[s].id))
  /\ UNCHANGED world

\* Mutants: past the deadline the command returns no message, or an error.
PollDeadlineSilent(s) ==
  /\ flight[s].op = "poll"
  /\ Return(s, Idle)
  /\ UNCHANGED world

PollDeadlineError(s) ==
  /\ flight[s].op = "poll"
  /\ Return(s, On("created", NoBox))
  /\ UNCHANGED world

PollDeadline(s) ==
  /\ flight[s].op = "poll"
  /\ Return(s, On("created", flight[s].id))
  /\ UNCHANGED world

Answer(s) ==
  \/ AnswerList(s) \/ AnswerTemplates(s) \/ AnswerDelete(s) \/ AnswerCreate(s)
  \/ PollSeesRunning(s) \/ PollDeadline(s)

\* The call fails, before or after it took effect on the server.
CallFails(s) ==
  /\ ~calm
  /\ \/ flight[s].op \in {"list", "templates", "delete"} /\ UNCHANGED world
     \/ flight[s].op = "create" /\ UNCHANGED world
     \/ /\ flight[s].op = "delete" /\ flight[s].id \in Visible
        /\ world' = [world EXCEPT ![flight[s].id] = "gone"]
     \/ /\ flight[s].op = "create"
        /\ \E i \in Ids : world[i] = "none" /\ world' = [world EXCEPT ![i] = "there"]
  /\ Return(s, IF flight[s].op = "create" THEN On("created", NoBox) ELSE ErrMsg)

Command(s) ==
  /\ mode # "quit"
  /\ Answer(s) \/ CallFails(s)
  /\ UNCHANGED <<screenVars, timer, shell, calm>>

-----------------------------------------------------------------------------
(* The server's side, and the point from which on nothing more happens.    *)

\* Boxes are created and deleted by other clients, and expire.
World ==
  /\ ~calm /\ mode # "quit"
  /\ \E i \in Ids, w \in {"there", "gone"} :
       /\ <<world[i], w>> \in {<<"none", "there">>, <<"there", "gone">>}
       /\ world' = [world EXCEPT ![i] = w]
  /\ UNCHANGED <<screenVars, timer, shell, flight, calm>>

Calm ==
  /\ ~calm /\ mode # "quit"
  /\ calm' = TRUE
  /\ UNCHANGED <<screenVars, timer, shell, flight, world>>

Next ==
  \/ \E s \in Slots : Deliver(s) \/ Command(s)
  \/ Tick \/ Key \/ Quit \/ ShellEnds
  \/ World \/ Calm

Spec == Init /\ [][Next]_vars

\* The loop takes messages in the order in which they are offered, so none waits for
\* ever while it runs; calls time out; the timer fires; users leave their shells.
Fairness ==
  /\ \A s \in Slots : SF_vars(Deliver(s)) /\ WF_vars(Command(s))
  /\ WF_vars(Tick)
  /\ WF_vars(ShellEnds)

FairSpec == Spec /\ Fairness

-----------------------------------------------------------------------------
(* Properties.                                                             *)

\* Enter, d and the picker's Enter index a slice with the cursor: it stays within the
\* rows, whatever messages replace or empty them in the meantime
\* (dashboard.go:168, 181, 244, 248, 274).
SelectionInRange ==
  /\ cursor < Larger(1, Len(boxes))
  /\ pcur < Larger(1, tmpls)

\* The build screen ignores keys, so it must have a way out: some create is still at
\* work or its message on the way (dashboard.go:164, 184, 481).
Creating == \E s \in Slots : flight[s].op \in {"create", "poll", "created"}

BuildHasCreate == mode = "build" => Creating

\* Once nothing happens any more, the rows become and stay the server's list, although
\* answers from before may still arrive, in any order, and calls may have failed
\* (dashboard.go:177, 205, 208, 250); unless a shell keeps the terminal, or the user quit.
InSync == IsListing(boxes) \/ shell # NoBox \/ mode = "quit"

DashboardSettles == calm ~> []InSync

\* The build screen ends by itself, also if the box never runs (dashboard.go:493).
BuildEnds == mode = "build" ~> mode # "build"

\* A box that was created gets its shell, whatever else the user does meanwhile, also
\* if it is slow to start or was deleted (dashboard.go:190, 500).
CreatedBoxOpens ==
  \A i \in Ids :
    (\E s \in Slots : flight[s] = On("poll", i)) ~> (shell = i \/ mode = "quit")

=============================================================================
