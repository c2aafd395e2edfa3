------------------------------ MODULE ExecBridge ------------------------------
(***************************************************************************)
(* A session of "boxly ssh" or "boxly exec": two goroutines in the client, *)
(* a websocket, and in boxlyd a pump that feeds a pipe and a queue of      *)
(* terminal sizes, next to the stream that copies between them and the     *)
(* command in the box.  Everything blocks on something: the pump on the    *)
(* pipe, the pipe on the command, the output on the websocket.             *)
(***************************************************************************)
EXTENDS Naturals, Sequences

CONSTANTS
  MaxIn, MaxOut,  \* bounds on what is typed, and written to each stream
  MaxSizes,       \* bound on the changes of the window size
  Wire,           \* frames on the wire, in each direction
  SizeCap         \* capacity of sizeCh

ASSUME ExecBridgeAssumption ==
  /\ MaxIn \in Nat /\ MaxOut \in Nat /\ MaxSizes \in Nat
  /\ Wire \in Nat \ {0} /\ SizeCap \in Nat \ {0}

VARIABLES
  mode,     \* what kind of session this is
  ws,       \* the websocket: open, or gone
  up, down, \* the frames on their way to boxlyd and to the client
  cin,      \* the client's stdin goroutine: open, or eof
  client,   \* the client: run, or how its pump ended
  typed,    \* how many chunks it sent
  got,      \* the chunks it has written to stdout
  pump,     \* boxlyd's pump, and the chunk it is writing to the pipe
  shut,     \* whether the pipe's write end is closed
  copy,     \* the stream's stdin goroutine, and the chunk it is writing
  input,    \* the command's standard input, and whether it has an end
  cmd,      \* the command: running, ok, failed, or lost
  read,     \* the chunks it has read
  eof,      \* whether it has read the end of its input
  made,     \* per output stream, how many chunks it has written
  taken,    \* per output stream, how many chunks the stream has copied
  handler,  \* handleExec: stream, or done
  sizes,    \* sizeCh
  win, term \* the window's size, and the size the remote terminal has

vars == <<mode, ws, up, down, cin, client, typed, got, pump, shut, copy, input,
          cmd, read, eof, made, taken, handler, sizes, win, term>>

clientVars == <<cin, client, typed, got, win>>
commandVars == <<cmd, read, eof, made>>

Streams == {"stdout", "stderr"}

\* A frame is a chunk or a size, with its number, the end of input, or the close
\* frame.
Frame(kind, n) == [kind |-> kind, n |-> n]

UpFrame == [kind : {"data", "eof", "size"}, n : Nat]
DownFrame == [kind : Streams \cup {"normal", "error"}, n : Nat]

Worker == [pc : {"read", "write", "done"}, n : 0..MaxIn]

Stdin == [chunks : Seq(1..MaxIn), end : BOOLEAN]

TypeOK ==
  /\ mode \in [tty : BOOLEAN, reads : BOOLEAN]
  /\ ws \in {"open", "gone"}
  /\ up \in Seq(UpFrame) /\ down \in Seq(DownFrame)
  /\ Len(up) <= Wire /\ Len(down) <= Wire
  /\ cin \in {"open", "eof"}
  /\ client \in {"run", "ok", "failed"}
  /\ typed \in 0..MaxIn /\ win \in 0..MaxSizes /\ term \in 0..MaxSizes
  /\ got \in Seq(Streams \X (1..MaxOut))
  /\ pump \in Worker /\ copy \in Worker
  /\ shut \in BOOLEAN
  /\ input \in Stdin
  /\ cmd \in {"running", "ok", "failed", "lost"}
  /\ read \in Seq(1..MaxIn) /\ eof \in BOOLEAN
  /\ made \in [Streams -> 0..MaxOut] /\ taken \in [Streams -> 0..MaxOut]
  /\ handler \in {"stream", "done"}
  /\ sizes \in Seq(1..MaxSizes) /\ Len(sizes) <= SizeCap

Init ==
  /\ mode \in [tty : BOOLEAN, reads : BOOLEAN]
  /\ ws = "open" /\ up = <<>> /\ down = <<>>
  /\ cin = "open" /\ client = "run" /\ typed = 0 /\ got = <<>>
  /\ pump = [pc |-> "read", n |-> 0] /\ shut = FALSE
  /\ copy = [pc |-> "read", n |-> 0]
  /\ input = [chunks |-> <<>>, end |-> FALSE]
  /\ cmd = "running" /\ read = <<>> /\ eof = FALSE
  /\ made = [s \in Streams |-> 0] /\ taken = [s \in Streams |-> 0]
  /\ handler = "stream"
  /\ sizes = <<>> /\ win = 0 /\ term = 0

-----------------------------------------------------------------------------
(* The client.                                                             *)

SendUp(frame) == ws = "open" /\ Len(up) < Wire /\ up' = Append(up, frame)

\* The stdin goroutine sends what it reads.
ClientSend ==
  /\ client = "run" /\ cin = "open" /\ typed < MaxIn
  /\ SendUp(Frame("data", typed + 1))
  /\ typed' = typed + 1
  /\ UNCHANGED <<mode, ws, down, cin, client, got, pump, shut, copy, input,
                 commandVars, taken, handler, sizes, win, term>>

\* At the end of stdin it says so, and the connection stays open.
ClientEof ==
  /\ client = "run" /\ cin = "open"
  /\ SendUp(Frame("eof", 0))
  /\ cin' = "eof"
  /\ UNCHANGED <<mode, ws, down, client, typed, got, pump, shut, copy, input,
                 commandVars, taken, handler, sizes, win, term>>

\* A terminal session forwards the size of its window.
ClientResize ==
  /\ mode.tty /\ client = "run" /\ win < MaxSizes
  /\ SendUp(Frame("size", win + 1))
  /\ win' = win + 1
  /\ UNCHANGED <<mode, ws, down, cin, client, typed, got, pump, shut, copy,
                 input, commandVars, taken, handler, sizes, term>>

\* The other goroutine writes what it receives to stdout.
ClientShow ==
  /\ client = "run" /\ down # <<>> /\ Head(down).kind \in Streams
  /\ got' = Append(got, <<Head(down).kind, Head(down).n>>)
  /\ down' = Tail(down)
  /\ UNCHANGED <<mode, ws, up, cin, client, typed, pump, shut, copy, input,
                 commandVars, taken, handler, sizes, win, term>>

\* The server's close ends pump; a normal one is success, unless the stdin
\* goroutine runs into the closed connection first.  The client then closes.
ClientClosed ==
  /\ client = "run" /\ down # <<>> /\ Head(down).kind \in {"normal", "error"}
  /\ \/ client' = IF Head(down).kind = "normal" THEN "ok" ELSE "failed"
     \/ cin = "open" /\ client' = "failed"
  /\ down' = Tail(down)
  /\ ws' = "gone"
  /\ UNCHANGED <<mode, up, cin, typed, got, pump, shut, copy, input,
                 commandVars, taken, handler, sizes, win, term>>

\* A goroutine finds the connection broken.
ClientFails ==
  /\ client = "run" /\ ws = "gone"
  /\ client' = "failed"
  /\ UNCHANGED <<mode, ws, up, down, cin, typed, got, pump, shut, copy, input,
                 commandVars, taken, handler, sizes, win, term>>

\* The network breaks, or the client is killed.
Break ==
  /\ ws = "open"
  /\ ws' = "gone"
  /\ UNCHANGED <<mode, up, down, clientVars, pump, shut, copy, input,
                 commandVars, taken, handler, sizes, term>>

-----------------------------------------------------------------------------
(* handleExec's pump.                                                      *)

Receive(kind) ==
  /\ pump.pc = "read" /\ up # <<>> /\ Head(up).kind = kind
  /\ up' = Tail(up)

\* A chunk goes to the pipe; once the pipe is closed, that ends the pump.
PumpData ==
  /\ Receive("data")
  /\ pump' = IF shut THEN [pump EXCEPT !.pc = "done"]
                     ELSE [pc |-> "write", n |-> Head(up).n]
  /\ UNCHANGED <<mode, ws, down, clientVars, shut, copy, input, commandVars,
                 taken, handler, sizes, term>>

\* Mutant: the end of input ends the pump.
PumpEofReturns ==
  /\ Receive("eof")
  /\ shut' = TRUE
  /\ pump' = [pump EXCEPT !.pc = "done"]
  /\ UNCHANGED <<mode, ws, down, clientVars, copy, input, commandVars, taken,
                 handler, sizes, term>>

\* The end of input closes the pipe, and the pump goes on.
PumpEof ==
  /\ Receive("eof")
  /\ shut' = TRUE
  /\ UNCHANGED <<mode, ws, down, clientVars, pump, copy, input, commandVars,
                 taken, handler, sizes, term>>

\* Mutant: a full queue ends the pump.
PumpSizeReturns ==
  /\ Receive("size")
  /\ IF Len(sizes) < SizeCap
     THEN sizes' = Append(sizes, Head(up).n) /\ UNCHANGED <<pump, shut>>
     ELSE /\ pump' = [pump EXCEPT !.pc = "done"] /\ shut' = TRUE
          /\ UNCHANGED sizes
  /\ UNCHANGED <<mode, ws, down, clientVars, copy, input, commandVars, taken,
                 handler, term>>

\* A size is dropped if the queue is full.
PumpSize ==
  /\ Receive("size")
  /\ sizes' = IF Len(sizes) < SizeCap THEN Append(sizes, Head(up).n) ELSE sizes
  /\ UNCHANGED <<mode, ws, down, clientVars, pump, shut, copy, input,
                 commandVars, taken, handler, term>>

\* Mutant: the pump ends without closing the pipe.
PumpEndsOpen ==
  /\ pump.pc = "read"
  /\ ws = "gone" \/ handler = "done"
  /\ pump' = [pump EXCEPT !.pc = "done"]
  /\ UNCHANGED <<mode, ws, up, down, clientVars, shut, copy, input, commandVars,
                 taken, handler, sizes, term>>

\* Without a connection the pump ends, and closes the pipe.
PumpEnds ==
  /\ pump.pc = "read"
  /\ ws = "gone" \/ handler = "done"
  /\ pump' = [pump EXCEPT !.pc = "done"]
  /\ shut' = TRUE
  /\ UNCHANGED <<mode, ws, up, down, clientVars, copy, input, commandVars,
                 taken, handler, sizes, term>>

-----------------------------------------------------------------------------
(* The stream to the command, which the handler waits for.                 *)

\* The pipe hands a chunk from the pump to the stream's stdin goroutine.
PipeRead ==
  /\ pump.pc = "write" /\ copy.pc = "read"
  /\ copy' = [pc |-> "write", n |-> pump.n]
  /\ pump' = [pump EXCEPT !.pc = "read"]
  /\ UNCHANGED <<mode, ws, up, down, clientVars, shut, input, commandVars,
                 taken, handler, sizes, term>>

\* It goes on to the command, which takes one chunk at a time.
CopyIn ==
  /\ copy.pc = "write" /\ cmd = "running" /\ input.chunks = <<>>
  /\ input' = [input EXCEPT !.chunks = Append(@, copy.n)]
  /\ copy' = [copy EXCEPT !.pc = "read"]
  /\ UNCHANGED <<mode, ws, up, down, clientVars, pump, shut, commandVars,
                 taken, handler, sizes, term>>

\* The closed pipe becomes the end of the command's input.
CopyEof ==
  /\ copy.pc = "read" /\ shut /\ pump.pc # "write"
  /\ input' = [input EXCEPT !.end = TRUE]
  /\ copy' = [copy EXCEPT !.pc = "done"]
  /\ UNCHANGED <<mode, ws, up, down, clientVars, pump, shut, commandVars,
                 taken, handler, sizes, term>>

\* Nobody reads any more what it writes.
CopyFails ==
  /\ copy.pc = "write" /\ cmd # "running"
  /\ copy' = [copy EXCEPT !.pc = "done"]
  /\ UNCHANGED <<mode, ws, up, down, clientVars, pump, shut, input,
                 commandVars, taken, handler, sizes, term>>

\* Mutant: output for a connection that is gone stays with the command.
CopyOutKeeps(s) ==
  /\ handler = "stream" /\ taken[s] < made[s]
  /\ ws = "open" /\ Len(down) < Wire
  /\ down' = Append(down, Frame(s, taken[s] + 1))
  /\ taken' = [taken EXCEPT ![s] = @ + 1]
  /\ UNCHANGED <<mode, ws, up, clientVars, pump, shut, copy, input,
                 commandVars, handler, sizes, term>>

\* Mutant: one goroutine carries input and output.
CopyOutInTurn(s) ==
  /\ handler = "stream" /\ taken[s] < made[s] /\ pump.pc # "write"
  /\ \/ /\ ws = "open" /\ Len(down) < Wire
        /\ down' = Append(down, Frame(s, taken[s] + 1))
     \/ ws = "gone" /\ UNCHANGED down
  /\ taken' = [taken EXCEPT ![s] = @ + 1]
  /\ UNCHANGED <<mode, ws, up, clientVars, pump, shut, copy, input,
                 commandVars, handler, sizes, term>>

\* Output becomes a frame.  When the connection is gone, it is discarded, so
\* that the command is not blocked.
CopyOut(s) ==
  /\ handler = "stream" /\ taken[s] < made[s]
  /\ \/ /\ ws = "open" /\ Len(down) < Wire
        /\ down' = Append(down, Frame(s, taken[s] + 1))
     \/ ws = "gone" /\ UNCHANGED down
  /\ taken' = [taken EXCEPT ![s] = @ + 1]
  /\ UNCHANGED <<mode, ws, up, clientVars, pump, shut, copy, input,
                 commandVars, handler, sizes, term>>

\* sizeQueue.Next.
ForwardSize ==
  /\ handler = "stream" /\ sizes # <<>>
  /\ term' = Head(sizes)
  /\ sizes' = Tail(sizes)
  /\ UNCHANGED <<mode, ws, up, down, clientVars, pump, shut, copy, input,
                 commandVars, taken, handler>>

\* The connection to the API server breaks: what the command does is lost, and
\* so is what it wrote and how it ended.
StreamBreaks ==
  /\ handler = "stream" /\ cmd # "lost"
  /\ cmd' = "lost"
  /\ UNCHANGED <<mode, ws, up, down, clientVars, pump, shut, copy, input, read,
                 eof, made, taken, handler, sizes, term>>

\* Mutant: the handler closes as soon as the command has ended.
HandlerClosesEarly ==
  /\ handler = "stream" /\ cmd # "running"
  /\ \/ /\ ws = "open" /\ Len(down) < Wire
        /\ down' = Append(down, Frame(IF cmd = "ok" THEN "normal" ELSE "error", 0))
     \/ ws = "gone" /\ UNCHANGED down
  /\ handler' = "done"
  /\ UNCHANGED <<mode, ws, up, clientVars, pump, shut, copy, input,
                 commandVars, taken, sizes, term>>

\* The stream ends with the command, when its output has been copied, or with
\* its connection; the handler closes the websocket and says how it went.
HandlerCloses ==
  /\ handler = "stream" /\ cmd # "running"
  /\ taken = made \/ cmd = "lost"
  /\ \/ /\ ws = "open" /\ Len(down) < Wire
        /\ down' = Append(down, Frame(IF cmd = "ok" THEN "normal" ELSE "error", 0))
     \/ ws = "gone" /\ UNCHANGED down
  /\ handler' = "done"
  /\ UNCHANGED <<mode, ws, up, clientVars, pump, shut, copy, input,
                 commandVars, taken, sizes, term>>

-----------------------------------------------------------------------------
(* The command.                                                            *)

CommandReads ==
  /\ cmd = "running" /\ input.chunks # <<>>
  /\ read' = Append(read, Head(input.chunks))
  /\ input' = [input EXCEPT !.chunks = Tail(@)]
  /\ UNCHANGED <<mode, ws, up, down, clientVars, pump, shut, copy, cmd, eof,
                 made, taken, handler, sizes, term>>

CommandReadsEof ==
  /\ cmd = "running" /\ input.chunks = <<>> /\ input.end /\ ~eof
  /\ eof' = TRUE
  /\ UNCHANGED <<mode, ws, up, down, clientVars, pump, shut, copy, input, cmd,
                 read, made, taken, handler, sizes, term>>

\* A terminal has one output stream.
CommandWrites(s) ==
  /\ cmd = "running" /\ made[s] < MaxOut
  /\ mode.tty => s = "stdout"
  /\ made' = [made EXCEPT ![s] = @ + 1]
  /\ UNCHANGED <<mode, ws, up, down, clientVars, pump, shut, copy, input, cmd,
                 read, eof, taken, handler, sizes, term>>

CommandExits ==
  /\ cmd = "running"
  /\ cmd' \in {"ok", "failed"}
  /\ UNCHANGED <<mode, ws, up, down, clientVars, pump, shut, copy, input, read,
                 eof, made, taken, handler, sizes, term>>

\* The session is over on both sides.
Over == client # "run" /\ handler = "done" /\ UNCHANGED vars

-----------------------------------------------------------------------------
Client == \/ ClientSend \/ ClientEof \/ ClientResize
          \/ ClientShow \/ ClientClosed \/ ClientFails

Pump == PumpData \/ PumpEof \/ PumpSize \/ PumpEnds

CopyStdin == PipeRead \/ CopyIn \/ CopyEof \/ CopyFails

Command == \/ CommandReads \/ CommandReadsEof \/ CommandExits
           \/ \E s \in Streams : CommandWrites(s)

Next ==
  \/ Client
  \/ Break
  \/ Pump
  \/ CopyStdin
  \/ \E s \in Streams : CopyOut(s)
  \/ ForwardSize
  \/ StreamBreaks
  \/ HandlerCloses
  \/ Command
  \/ Over

Spec == Init /\ [][Next]_vars

\* Goroutines go on, and the client's terminal takes its output.  The user is
\* under no obligation, and the command only if it is one that reads its input
\* and exits at its end, as a shell does.
Fairness ==
  /\ WF_vars(ClientShow \/ ClientClosed) /\ WF_vars(ClientFails)
  /\ WF_vars(Pump) /\ WF_vars(CopyStdin)
  /\ WF_vars(\E s \in Streams : CopyOut(s)) /\ WF_vars(HandlerCloses)
  /\ WF_vars(/\ mode.reads
             /\ CommandReads \/ CommandReadsEof \/ (eof /\ CommandExits))

FairSpec == Spec /\ Fairness

-----------------------------------------------------------------------------
(* Properties.                                                             *)

Session == INSTANCE ExecSession WITH
             closed <- cin = "eof",
             state <- IF client = "ok" THEN "clean"
                      ELSE IF ws = "gone" \/ handler = "done" THEN "cut"
                      ELSE "open"

\* The goroutines and buffers together behave as an ExecSession: nothing is
\* lost, repeated or reordered on the way, half-closing stdin loses neither
\* input nor output, and a session that ends well has shown all output.
SessionIsFaithful == Session!Spec

\* When the command ends, the handler and the client end, whoever is blocked on
\* whom at the time.
CommandEndsSession == cmd # "running" ~> handler = "done" /\ client # "run"

\* The user has always again seen all that the command wrote, also while the
\* command does not read its input and the pump is blocked in the pipe, unless
\* the session failed.
OutputArrives ==
  []<>(\/ \A s \in Streams : Session!Shown(s) = made[s]
       \/ client = "failed" \/ cmd = "lost")

\* A command that reads its input has always again read all that the user typed,
\* also behind any number of changes of the window size, unless it exits before
\* the end of its input, or the session failed.
InputArrives ==
  mode.reads =>
    []<>(\/ Len(read) = typed \/ (cmd # "running" /\ ~eof)
         \/ client = "failed")

\* When the client is gone, a command that ends with its input is not left
\* running, and the handler ends.
SocketEndsStream == mode.reads /\ ws = "gone" ~> handler = "done"

=============================================================================
