----------------------------- MODULE ExecSession -----------------------------
(***************************************************************************)
(* What the exec bridge promises to a user and the command he runs: what   *)
(* is typed arrives in order, what the command writes arrives in order,    *)
(* and the session ends cleanly only when all of the output has arrived.   *)
(* Until something is cut, the command sees the end of its input only      *)
(* where the user put it.                                                  *)
(***************************************************************************)
EXTENDS Naturals, Sequences, FiniteSets

CONSTANT Streams   \* the command's output streams

VARIABLES
  typed,  \* how many chunks the user has typed
  closed, \* whether the user has ended the input
  read,   \* the chunks the command has read
  eof,    \* whether the command has seen the end of its input
  made,   \* per stream, how many chunks the command has written
  got,    \* the chunks the user has seen, of all streams
  state   \* open, cut (something broke or somebody left) or clean

sessionVars == <<typed, closed, read, eof, made, got, state>>

\* How many chunks of a stream the user has seen.
Shown(s) == Cardinality({i \in DOMAIN got : got[i][1] = s})

Init ==
  /\ typed = 0 /\ closed = FALSE
  /\ read = <<>> /\ eof = FALSE
  /\ made = [s \in Streams |-> 0] /\ got = <<>>
  /\ state = "open"

Type ==
  /\ ~closed
  /\ typed' = typed + 1
  /\ UNCHANGED <<closed, read, eof, made, got, state>>

CloseInput ==
  /\ closed' = TRUE
  /\ UNCHANGED <<typed, read, eof, made, got, state>>

Read ==
  /\ ~eof /\ Len(read) < typed
  /\ read' = Append(read, Len(read) + 1)
  /\ UNCHANGED <<typed, closed, eof, made, got, state>>

SeeEof ==
  /\ state = "open" => closed /\ Len(read) = typed
  /\ eof' = TRUE
  /\ UNCHANGED <<typed, closed, read, made, got, state>>

Write(s) ==
  /\ made' = [made EXCEPT ![s] = @ + 1]
  /\ UNCHANGED <<typed, closed, read, eof, got, state>>

Show(s) ==
  /\ state # "clean"
  /\ Shown(s) < made[s]
  /\ got' = Append(got, <<s, Shown(s) + 1>>)
  /\ UNCHANGED <<typed, closed, read, eof, made, state>>

EndCleanly ==
  /\ state # "clean"
  /\ \A s \in Streams : Shown(s) = made[s]
  /\ state' = "clean"
  /\ UNCHANGED <<typed, closed, read, eof, made, got>>

Cut ==
  /\ state = "open"
  /\ state' = "cut"
  /\ UNCHANGED <<typed, closed, read, eof, made, got>>

Next ==
  \/ Type \/ CloseInput \/ Read \/ SeeEof \/ EndCleanly \/ Cut
  \/ \E s \in Streams : Write(s) \/ Show(s)

Spec == Init /\ [][Next]_sessionVars

=============================================================================
