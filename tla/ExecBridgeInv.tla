---------------------------- MODULE ExecBridgeInv ----------------------------
(* The inductive invariant behind ExecBridge's typing and its refinement   *)
(* of ExecSession.                                                         *)
EXTENDS ExecBridge

\* The frames of a kind in a queue are numbered lo + 1 to hi, in this order.
Numbered(q, kind, lo, hi) ==
  /\ \A i \in DOMAIN q : q[i].kind = kind => q[i].n \in (lo + 1)..hi
  /\ \A i, j \in DOMAIN q :
       i < j /\ q[i].kind = kind /\ q[j].kind = kind => q[i].n < q[j].n
  /\ \A n \in (lo + 1)..hi : \E i \in DOMAIN q : q[i].kind = kind /\ q[i].n = n

\* How many of the chunks typed have got to the command's input, to the
\* stream's stdin goroutine, and to the pump.
ToCommand == Len(read) + Len(input.chunks)
ToCopy == ToCommand + (IF copy.pc = "write" THEN 1 ELSE 0)
ToPump == ToCopy + (IF pump.pc = "write" THEN 1 ELSE 0)

\* Neither side has closed and nothing is broken.
Open == ws = "open" /\ handler = "stream"

\* Each place on the way of the input holds the chunk after those ahead of it,
\* as long as what feeds it has not given up.
InputInOrder ==
  /\ \A i \in DOMAIN read : read[i] = i
  /\ input.chunks = <<>> \/ input.chunks = <<Len(read) + 1>>
  /\ ToCopy <= typed
  /\ copy.pc = "write" => copy.n = ToCopy
  /\ copy.pc # "done" => ToPump <= typed
  /\ copy.pc # "done" /\ pump.pc = "write" => pump.n = ToPump
  /\ copy.pc # "done" /\ pump.pc # "done" => Numbered(up, "data", ToPump, typed)

\* What the frames on their way to boxlyd may be.
UpFrames ==
  \A i \in DOMAIN up :
    /\ up[i].kind = "data" => up[i].n \in 1..typed
    /\ up[i].kind = "size" => up[i].n \in 1..MaxSizes
    /\ up[i].kind = "eof" =>
         /\ cin = "eof"
         /\ \A j \in DOMAIN up : i < j => up[j].kind # "data"

\* As long as the session is open, the pipe is closed and the command's input
\* ends only behind all that was typed.
EndInOrder ==
  /\ pump.pc = "done" => shut
  /\ shut /\ Open => /\ cin = "eof" /\ pump.pc # "done"
                     /\ \A i \in DOMAIN up : up[i].kind # "data"
  /\ input.end => shut /\ copy.pc = "done"
  /\ input.end /\ Open => ToCommand = typed
  /\ eof => input.end /\ input.chunks = <<>>

\* The close frame comes last, and a normal one says that everything was sent.
CloseComesLast ==
  \A i \in DOMAIN down :
    down[i].kind \in {"normal", "error"} =>
      /\ i = Len(down) /\ handler = "done"
      /\ down[i].kind = "normal" => cmd = "ok" /\ taken = made

Said(kind) == \E i \in DOMAIN down : down[i].kind = kind

\* Of each stream, the chunks on the wire follow those shown, and until the
\* connection is gone they are all that was taken from the command.
OutputInOrder ==
  \A s \in Streams :
    /\ taken[s] <= made[s]
    /\ \E h \in Session!Shown(s)..taken[s] :
         /\ Numbered(down, s, Session!Shown(s), h)
         /\ ws = "open" \/ Said("normal") => h = taken[s]

\* When the client reports success, the command has ended well, and all of its
\* output was shown.
CleanEnd ==
  client = "ok" =>
    /\ ws = "gone" /\ handler = "done" /\ cmd = "ok"
    /\ \A s \in Streams : Session!Shown(s) = made[s]

EInv ==
  /\ TypeOK
  /\ InputInOrder
  /\ UpFrames
  /\ EndInOrder
  /\ CloseComesLast
  /\ OutputInOrder
  /\ CleanEnd

=============================================================================
