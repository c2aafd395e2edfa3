--------------------------- MODULE ExecBridgeProofs ---------------------------
(* ExecBridge implements ExecSession, for any bounds on what is typed,     *)
(* written, resized and buffered.                                          *)
EXTENDS ExecBridgeInv, SequenceTheorems, FiniteSetTheorems, TLAPS

(* --------------------------- Numbered queues ---------------------------- *)

\* Where the elements of a queue are after an Append.
LEMMA AppendAt ==
  ASSUME NEW F, NEW q \in Seq(F), NEW f \in F
  PROVE  /\ Append(q, f) \in Seq(F)
         /\ Len(Append(q, f)) = Len(q) + 1
         /\ DOMAIN Append(q, f) = 1..(Len(q) + 1) /\ DOMAIN q = 1..Len(q)
         /\ \A i \in DOMAIN q : Append(q, f)[i] = q[i]
         /\ Append(q, f)[Len(q) + 1] = f
  BY AppendProperties

\* Where the elements of a queue are after a Tail.
LEMMA TailAt ==
  ASSUME NEW F, NEW q \in Seq(F), q # <<>>
  PROVE  /\ Tail(q) \in Seq(F) /\ Head(q) \in F /\ Head(q) = q[1]
         /\ Len(q) \in Nat \ {0} /\ Len(Tail(q)) = Len(q) - 1
         /\ DOMAIN q = 1..Len(q) /\ DOMAIN Tail(q) = 1..(Len(q) - 1)
         /\ \A i \in DOMAIN Tail(q) : Tail(q)[i] = q[i + 1]
         /\ Len(q) = 1 => Tail(q) = <<>>
<1>1. /\ Tail(q) \in Seq(F) /\ Head(q) \in F /\ Head(q) = q[1]
      /\ Len(q) \in Nat \ {0} /\ Len(Tail(q)) = Len(q) - 1
      /\ DOMAIN q = 1..Len(q) /\ DOMAIN Tail(q) = 1..(Len(q) - 1)
      /\ \A i \in DOMAIN Tail(q) : Tail(q)[i] = q[i + 1]
  BY HeadTailProperties, EmptySeq, LenProperties
<1>2. Len(q) = 1 => Len(Tail(q)) = 0
  BY <1>1
<1>3. Len(Tail(q)) # 0 \/ Tail(q) = <<>>
  BY <1>1, EmptySeq
<1> QED BY <1>1, <1>2, <1>3

\* A frame of the next number goes to the end; other frames do not matter.
LEMMA NumberedAppend ==
  ASSUME NEW F, NEW q \in Seq(F), NEW f \in F, NEW kind,
         NEW lo \in Nat, NEW hi \in Nat, lo <= hi, Numbered(q, kind, lo, hi)
  PROVE  /\ f.kind = kind /\ f.n = hi + 1 =>
              Numbered(Append(q, f), kind, lo, hi + 1)
         /\ f.kind # kind => Numbered(Append(q, f), kind, lo, hi)
<1> DEFINE r == Append(q, f)
           m == Len(q) + 1
<1>1. /\ Len(q) \in Nat /\ DOMAIN q = 1..Len(q) /\ DOMAIN r = 1..m
      /\ \A i \in 1..Len(q) : r[i] = q[i]
      /\ r[m] = f
  BY AppendAt, LenProperties
<1>2. ASSUME f.kind = kind, f.n = hi + 1
      PROVE  Numbered(r, kind, lo, hi + 1)
  <2>1. ASSUME NEW i \in DOMAIN r, r[i].kind = kind
        PROVE  r[i].n \in (lo + 1)..(hi + 1)
    BY <1>1, <1>2, <2>1 DEF Numbered
  <2>2. ASSUME NEW i \in DOMAIN r, NEW j \in DOMAIN r, i < j,
               r[i].kind = kind, r[j].kind = kind
        PROVE  r[i].n < r[j].n
    BY <1>1, <1>2, <2>2 DEF Numbered
  <2>3. ASSUME NEW n \in (lo + 1)..(hi + 1)
        PROVE  \E i \in DOMAIN r : r[i].kind = kind /\ r[i].n = n
    <3>1. CASE n = hi + 1
      BY <1>1, <1>2, <3>1
    <3>2. CASE n # hi + 1
      <4>1. PICK i \in DOMAIN q : q[i].kind = kind /\ q[i].n = n
        BY <3>2 DEF Numbered
      <4> QED BY <1>1, <4>1
    <3> QED BY <3>1, <3>2
  <2> QED BY <2>1, <2>2, <2>3 DEF Numbered
<1>3. ASSUME f.kind # kind
      PROVE  Numbered(r, kind, lo, hi)
  <2>1. \A i \in DOMAIN r : r[i].kind = kind => i \in DOMAIN q /\ r[i] = q[i]
    BY <1>1, <1>3
  <2>2. \A i \in DOMAIN q : i \in DOMAIN r /\ r[i] = q[i]
    BY <1>1
  <2> QED BY <2>1, <2>2 DEF Numbered
<1> QED BY <1>2, <1>3

\* The first frame of the kind has the first number.
LEMMA NumberedTail ==
  ASSUME NEW F, NEW q \in Seq(F), q # <<>>, NEW kind,
         NEW lo \in Nat, NEW hi \in Nat, Numbered(q, kind, lo, hi)
  PROVE  /\ Head(q).kind = kind =>
              /\ Head(q).n = lo + 1 /\ lo + 1 <= hi
              /\ Numbered(Tail(q), kind, lo + 1, hi)
         /\ Head(q).kind # kind => Numbered(Tail(q), kind, lo, hi)
<1> DEFINE r == Tail(q)
<1>1. /\ Len(q) \in Nat \ {0} /\ DOMAIN q = 1..Len(q)
      /\ DOMAIN r = 1..(Len(q) - 1) /\ Head(q) = q[1]
      /\ \A i \in DOMAIN r : r[i] = q[i + 1] /\ i + 1 \in DOMAIN q
      /\ \A i \in DOMAIN q : i # 1 => i - 1 \in DOMAIN r /\ r[i - 1] = q[i]
      /\ 1 \in DOMAIN q
  BY TailAt
<1>2. ASSUME q[1].kind = kind
      PROVE  /\ q[1].n = lo + 1 /\ lo + 1 <= hi
             /\ Numbered(r, kind, lo + 1, hi)
  <2>1. q[1].n \in (lo + 1)..hi
    BY <1>1, <1>2 DEF Numbered
  <2>2. PICK i \in DOMAIN q : q[i].kind = kind /\ q[i].n = lo + 1
    BY <2>1 DEF Numbered
  <2>3. q[1].n = lo + 1
    <3>1. CASE i = 1
      BY <2>2, <3>1
    <3>2. CASE i # 1
      <4>1. 1 < i
        BY <1>1, <3>2
      <4>2. q[1].n < q[i].n
        BY <1>1, <1>2, <2>2, <4>1 DEF Numbered
      <4> QED BY <2>1, <2>2, <4>2
    <3> QED BY <3>1, <3>2
  <2>4. ASSUME NEW j \in DOMAIN r, r[j].kind = kind
        PROVE  r[j].n \in (lo + 2)..hi
    <3>1. j + 1 \in DOMAIN q /\ q[j + 1].kind = kind /\ 1 < j + 1
      BY <1>1, <2>4
    <3>2. q[1].n < q[j + 1].n /\ q[j + 1].n \in (lo + 1)..hi
      BY <1>1, <1>2, <3>1 DEF Numbered
    <3> QED BY <1>1, <2>3, <3>2
  <2>5. ASSUME NEW a \in DOMAIN r, NEW b \in DOMAIN r, a < b,
               r[a].kind = kind, r[b].kind = kind
        PROVE  r[a].n < r[b].n
    <3>1. /\ a + 1 \in DOMAIN q /\ b + 1 \in DOMAIN q /\ a + 1 < b + 1
          /\ q[a + 1].kind = kind /\ q[b + 1].kind = kind
      BY <1>1, <2>5
    <3>2. q[a + 1].n < q[b + 1].n
      BY <3>1 DEF Numbered
    <3> QED BY <1>1, <3>2
  <2>6. ASSUME NEW n \in (lo + 2)..hi
        PROVE  \E j \in DOMAIN r : r[j].kind = kind /\ r[j].n = n
    <3>1. PICK k \in DOMAIN q : q[k].kind = kind /\ q[k].n = n
      BY <2>6 DEF Numbered
    <3>2. k # 1
      BY <2>3, <3>1
    <3> QED BY <1>1, <3>1, <3>2
  <2>7. (lo + 1) + 1 = lo + 2 /\ lo + 1 <= hi
    BY <2>1
  <2> QED BY <2>3, <2>4, <2>5, <2>6, <2>7 DEF Numbered
<1>3. ASSUME q[1].kind # kind
      PROVE  Numbered(r, kind, lo, hi)
  <2>1. ASSUME NEW a \in DOMAIN r, NEW b \in DOMAIN r, a < b,
               r[a].kind = kind, r[b].kind = kind
        PROVE  r[a].n < r[b].n
    <3>1. /\ a + 1 \in DOMAIN q /\ b + 1 \in DOMAIN q /\ a + 1 < b + 1
          /\ q[a + 1].kind = kind /\ q[b + 1].kind = kind
      BY <1>1, <2>1
    <3>2. q[a + 1].n < q[b + 1].n
      BY <3>1 DEF Numbered
    <3> QED BY <1>1, <3>2
  <2>2. ASSUME NEW n \in (lo + 1)..hi
        PROVE  \E j \in DOMAIN r : r[j].kind = kind /\ r[j].n = n
    <3>1. PICK k \in DOMAIN q : q[k].kind = kind /\ q[k].n = n
      BY <2>2 DEF Numbered
    <3> QED BY <1>1, <1>3, <3>1
  <2>3. \A j \in DOMAIN r : r[j].kind = kind => r[j].n \in (lo + 1)..hi
    BY <1>1 DEF Numbered
  <2> QED BY <2>1, <2>2, <2>3 DEF Numbered
<1> QED BY <1>1, <1>2, <1>3

\* A queue without frames of the kind has no numbers to hold.
LEMMA NumberedNone ==
  ASSUME NEW q, NEW kind, NEW lo \in Nat, NEW hi \in Nat, lo <= hi,
         \A i \in DOMAIN q : q[i].kind # kind
  PROVE  Numbered(q, kind, lo, hi) <=> lo = hi
<1>1. lo < hi => lo + 1 \in (lo + 1)..hi
  OBVIOUS
<1>2. lo = hi => (lo + 1)..hi = {}
  OBVIOUS
<1> QED BY <1>1, <1>2 DEF Numbered

\* The chunks shown of a stream, as a number of places in got.
Places(g, s) == {i \in DOMAIN g : g[i][1] = s}

\* ExecSession counts with the same cardinality.
LEMMA ShownIs ==
  ASSUME NEW s
  PROVE  /\ Session!Shown(s) = Cardinality(Places(got, s))
         /\ Session!Shown(s)' = Cardinality(Places(got', s))
<1>1. ASSUME NEW S PROVE Session!Cardinality(S) = Cardinality(S)
  BY DEF Session!Cardinality, Cardinality
<1>2. Session!Shown(s) = Cardinality(Places(got, s))
  BY <1>1 DEF Session!Shown, Places
<1>3. Session!Shown(s)' = Cardinality(Places(got', s))
  BY <1>1 DEF Session!Shown, Places
<1> QED BY <1>2, <1>3

\* A chunk more is shown of its stream, and of no other.
LEMMA ShownAppend ==
  ASSUME NEW S, got \in Seq(S), NEW s, NEW n, <<s, n>> \in S,
         got' = Append(got, <<s, n>>)
  PROVE  /\ Session!Shown(s)' = Session!Shown(s) + 1
         /\ \A u : u # s => Session!Shown(u)' = Session!Shown(u)
<1> DEFINE m == Len(got) + 1
<1>1. /\ DOMAIN got = 1..Len(got) /\ Len(got) \in Nat /\ DOMAIN got' = 1..m
      /\ \A i \in DOMAIN got : got'[i] = got[i]
      /\ got'[m] = <<s, n>>
  BY AppendAt, LenProperties
<1>2. IsFiniteSet(Places(got, s)) /\ m \notin Places(got, s)
  <2>1. Places(got, s) \subseteq 1..Len(got) /\ IsFiniteSet(1..Len(got))
    BY <1>1, FS_Interval DEF Places
  <2> QED BY <1>1, <2>1, FS_Subset
<1>3. Places(got', s) = Places(got, s) \cup {m}
  BY <1>1 DEF Places
<1>4. ASSUME NEW u, u # s PROVE Places(got', u) = Places(got, u)
  BY <1>1, <1>4 DEF Places
<1>5. Cardinality(Places(got', s)) = Cardinality(Places(got, s)) + 1
  BY <1>2, <1>3, FS_AddElement
<1> QED BY <1>4, <1>5, ShownIs

\* A count of chunks is a number.
LEMMA ShownNat ==
  ASSUME NEW S, got \in Seq(S), NEW s
  PROVE  Session!Shown(s) \in Nat
<1>1. Len(got) \in Nat /\ DOMAIN got = 1..Len(got)
  BY LenProperties
<1>2. IsFiniteSet(Places(got, s))
  <2>1. Places(got, s) \subseteq 1..Len(got) /\ IsFiniteSet(1..Len(got))
    BY <1>1, FS_Interval DEF Places
  <2> QED BY <2>1, FS_Subset
<1>3. Cardinality(Places(got, s)) \in Nat
  BY <1>2, FS_CardinalityType
<1> QED BY <1>3, ShownIs

(* ------------------------- The initial states --------------------------- *)

LEMMA EInvInit == Init => EInv
<1> SUFFICES ASSUME Init PROVE EInv
  OBVIOUS
<1> USE ExecBridgeAssumption DEF Init
<1>1. TypeOK
  <2>1. /\ up = <<>> /\ down = <<>> /\ got = <<>> /\ read = <<>>
        /\ sizes = <<>> /\ Len(<<>>) = 0
        /\ \A S : <<>> \in Seq(S)
    BY EmptySeq
  <2>2. /\ input \in Stdin
        /\ pump \in Worker /\ copy \in Worker
    BY <2>1 DEF Worker, Stdin
  <2>3. /\ made \in [Streams -> 0..MaxOut] /\ taken \in [Streams -> 0..MaxOut]
        /\ mode \in [tty : BOOLEAN, reads : BOOLEAN]
        /\ typed \in 0..MaxIn /\ win \in 0..MaxSizes /\ term \in 0..MaxSizes
    OBVIOUS
  <2>4. 0 <= Wire /\ 0 <= SizeCap
    OBVIOUS
  <2> HIDE DEF Init
  <2>5. /\ ws = "open" /\ cin = "open" /\ client = "run" /\ shut = FALSE
        /\ cmd = "running" /\ eof = FALSE /\ handler = "stream"
    BY DEF Init
  <2> QED BY <2>1, <2>2, <2>3, <2>4, <2>5 DEF TypeOK
<1>2. InputInOrder /\ UpFrames /\ EndInOrder
  <2>1. Numbered(up, "data", ToPump, typed)
    BY NumberedNone DEF ToPump, ToCopy, ToCommand
  <2> QED
    BY <2>1 DEF InputInOrder, UpFrames, EndInOrder, ToPump, ToCopy, ToCommand,
                Open
<1>3. CloseComesLast
  BY DEF CloseComesLast
<1>4. OutputInOrder
  <2> SUFFICES ASSUME NEW s \in Streams
               PROVE  /\ taken[s] <= made[s]
                      /\ \E h \in Session!Shown(s)..taken[s] :
                           /\ Numbered(down, s, Session!Shown(s), h)
                           /\ ws = "open" \/ Said("normal") => h = taken[s]
    BY DEF OutputInOrder
  <2>1. Places(got, s) = {}
    BY DEF Places
  <2>2. Session!Shown(s) = 0
    BY <2>1, ShownIs, FS_EmptySet
  <2>3. Numbered(down, s, 0, 0)
    BY NumberedNone
  <2> QED BY <2>2, <2>3
<1>5. CleanEnd
  BY DEF CleanEnd
<1> QED BY <1>1, <1>2, <1>3, <1>4, <1>5 DEF EInv

(* ---------------------------- The way out ------------------------------- *)

\* The chunk at the head of the wire is the next of its stream.
LEMMA HeadIsNext ==
  ASSUME EInv, down # <<>>, Head(down).kind \in Streams
  PROVE  /\ Session!Shown(Head(down).kind) \in Nat
         /\ Head(down).n = Session!Shown(Head(down).kind) + 1
         /\ Head(down).n <= taken[Head(down).kind]
         /\ taken[Head(down).kind] <= made[Head(down).kind]
<1> DEFINE s == Head(down).kind
<1>1. TypeOK /\ OutputInOrder
  BY DEF EInv
<1>2. Session!Shown(s) \in Nat
  BY <1>1, ShownNat DEF TypeOK
<1>3. PICK h \in Session!Shown(s)..taken[s] :
        Numbered(down, s, Session!Shown(s), h)
  BY <1>1 DEF OutputInOrder
<1>4. taken[s] \in Nat /\ taken[s] <= made[s]
  BY <1>1, ExecBridgeAssumption DEF OutputInOrder, TypeOK
<1>5. h \in Nat /\ h <= taken[s]
  BY <1>2, <1>3, <1>4
<1>6. down \in Seq(DownFrame)
  BY <1>1 DEF TypeOK
<1>7. Head(down).n = Session!Shown(s) + 1 /\ Session!Shown(s) + 1 <= h
  BY <1>2, <1>3, <1>5, <1>6, NumberedTail
<1> QED BY <1>2, <1>4, <1>5, <1>7

\* A close frame at the head of the wire is alone there.
LEMMA CloseIsAlone ==
  ASSUME EInv, down # <<>>, Head(down).kind \in {"normal", "error"}
  PROVE  /\ Tail(down) = <<>>
         /\ handler = "done"
         /\ Head(down).kind = "normal" =>
              cmd = "ok" /\ \A s \in Streams : Session!Shown(s) = made[s]
<1>1. TypeOK /\ CloseComesLast /\ OutputInOrder
  BY DEF EInv
<1>2. /\ DOMAIN down = 1..Len(down) /\ Len(down) \in Nat \ {0}
      /\ Head(down) = down[1] /\ Len(Tail(down)) = Len(down) - 1
      /\ Len(down) = 1 => Tail(down) = <<>>
  BY <1>1, TailAt DEF TypeOK
<1>3. /\ 1 = Len(down) /\ handler = "done"
      /\ down[1].kind = "normal" => cmd = "ok" /\ taken = made
  BY <1>1, <1>2 DEF CloseComesLast
<1>4. Tail(down) = <<>>
  BY <1>2, <1>3, Zenon
<1>5. ASSUME Head(down).kind = "normal", NEW s \in Streams
      PROVE  Session!Shown(s) = made[s]
  <2>1. Said("normal") /\ made = taken
    <3>1. 1 \in DOMAIN down /\ down[1].kind = "normal"
      BY <1>2, <1>5
    <3> QED BY <1>3, <3>1 DEF Said
  <2>2. Session!Shown(s) \in Nat /\ taken[s] \in Nat
    BY <1>1, ShownNat, ExecBridgeAssumption DEF TypeOK
  <2>3. Numbered(down, s, Session!Shown(s), taken[s]) /\ Session!Shown(s) <= taken[s]
    BY <1>1, <2>1, <2>2 DEF OutputInOrder
  <2>4. ASSUME NEW i \in DOMAIN down
        PROVE  down[i].kind # s
    <3>1. i = 1
      BY <1>2, <1>3, <2>4
    <3> QED BY <1>2, <1>5, <3>1 DEF Streams
  <2> QED BY <2>1, <2>2, <2>3, <2>4, NumberedNone
<1> QED BY <1>2, <1>3, <1>4, <1>5

(* ------------------------------- Typing --------------------------------- *)

\* A frame leaves or enters a queue that holds no more than its bound.
LEMMA QueueTyped ==
  ASSUME NEW F, NEW q \in Seq(F), NEW bound \in Nat, Len(q) <= bound
  PROVE  /\ q # <<>> => Tail(q) \in Seq(F) /\ Len(Tail(q)) <= bound
                        /\ Head(q) \in F
         /\ \A f \in F : /\ Append(q, f) \in Seq(F)
                         /\ Len(q) < bound => Len(Append(q, f)) <= bound
<1>1. Len(q) \in Nat
  BY LenProperties
<1> QED BY <1>1, TailAt, AppendAt

\* What the numbers of the frames at the head of the wire to boxlyd are.
LEMMA HeadTyped ==
  ASSUME EInv, up # <<>>
  PROVE  /\ Head(up).kind = "data" => Head(up).n \in 1..MaxIn
         /\ Head(up).kind = "size" => Head(up).n \in 1..MaxSizes
<1>1. Head(up) = up[1] /\ 1 \in DOMAIN up
  BY TailAt DEF EInv, TypeOK
<1>2. /\ up[1].kind = "data" => up[1].n \in 1..typed
      /\ up[1].kind = "size" => up[1].n \in 1..MaxSizes
  BY <1>1 DEF EInv, UpFrames
<1> QED BY <1>1, <1>2, ExecBridgeAssumption DEF EInv, TypeOK

\* A goroutine moves on with the chunk it has.
LEMMA WorkerMoves ==
  ASSUME NEW w \in Worker, NEW pc \in {"read", "write", "done"}
  PROVE  [w EXCEPT !.pc = pc] \in Worker
  BY DEF Worker

LEMMA ClientTyped ==
  ASSUME EInv, Client
  PROVE  TypeOK'
<1>1. /\ TypeOK
      /\ MaxIn \in Nat /\ MaxOut \in Nat /\ MaxSizes \in Nat
      /\ Wire \in Nat /\ SizeCap \in Nat
  BY ExecBridgeAssumption DEF EInv
<1>2. CASE ClientSend
  <2>1. Frame("data", typed + 1) \in UpFrame
    BY <1>1 DEF Frame, TypeOK, UpFrame
  <2>2. up' \in Seq(UpFrame) /\ Len(up') <= Wire
    BY <1>1, <1>2, <2>1, QueueTyped DEF ClientSend, SendUp, TypeOK
  <2>3. typed' \in 0..MaxIn
    BY <1>1, <1>2 DEF ClientSend, TypeOK
  <2> QED BY <1>1, <1>2, <2>2, <2>3 DEF ClientSend, TypeOK, commandVars
<1>3. CASE ClientEof
  <2>1. Frame("eof", 0) \in UpFrame
    BY DEF Frame, UpFrame
  <2>2. up' \in Seq(UpFrame) /\ Len(up') <= Wire
    BY <1>1, <1>3, <2>1, QueueTyped DEF ClientEof, SendUp, TypeOK
  <2> QED BY <1>1, <1>3, <2>2 DEF ClientEof, TypeOK, commandVars
<1>4. CASE ClientResize
  <2>1. Frame("size", win + 1) \in UpFrame
    BY <1>1 DEF Frame, TypeOK, UpFrame
  <2>2. up' \in Seq(UpFrame) /\ Len(up') <= Wire
    BY <1>1, <1>4, <2>1, QueueTyped DEF ClientResize, SendUp, TypeOK
  <2>3. win' \in 0..MaxSizes
    BY <1>1, <1>4 DEF ClientResize, TypeOK
  <2> QED BY <1>1, <1>4, <2>2, <2>3 DEF ClientResize, TypeOK, commandVars
<1>5. CASE ClientShow
  <2>1. down # <<>> /\ Head(down).kind \in Streams
    BY <1>5 DEF ClientShow
  <2>2. PICK s \in Streams : s = Head(down).kind
    BY <2>1
  <2>3. Head(down).n \in 1..MaxOut
    <3>1. taken[s] \in 0..MaxOut
      BY <1>1, <2>2 DEF TypeOK
    <3>2. /\ Session!Shown(s) \in Nat /\ Head(down).n = Session!Shown(s) + 1
          /\ Head(down).n <= taken[s]
      BY <2>1, <2>2, HeadIsNext
    <3> QED BY <1>1, <3>1, <3>2
  <2>4. got' \in Seq(Streams \X (1..MaxOut))
    BY <1>1, <1>5, <2>2, <2>3, AppendAt DEF ClientShow, TypeOK
  <2>5. /\ down' \in Seq(DownFrame)
        /\ Len(down') <= Wire
    BY <1>1, <1>5, <2>1, QueueTyped DEF ClientShow, TypeOK
  <2>6. UNCHANGED <<mode, ws, up, cin, client, typed, pump, shut, copy, input,
                    cmd, read, eof, made, taken, handler, sizes, win, term>>
    BY <1>5 DEF ClientShow, commandVars
  <2> QED BY <1>1, <2>4, <2>5, <2>6 DEF TypeOK
<1>6. CASE ClientClosed
  <2>1. /\ down' \in Seq(DownFrame)
        /\ Len(down') <= Wire
    BY <1>1, <1>6, QueueTyped DEF ClientClosed, TypeOK
  <2>2. client' \in {"run", "ok", "failed"}
    BY <1>6 DEF ClientClosed
  <2> QED BY <1>1, <1>6, <2>1, <2>2 DEF ClientClosed, TypeOK, commandVars
<1>7. CASE ClientFails
  BY <1>1, <1>7 DEF ClientFails, TypeOK, commandVars
<1> QED BY <1>2, <1>3, <1>4, <1>5, <1>6, <1>7 DEF Client

LEMMA PumpTyped ==
  ASSUME EInv, Pump
  PROVE  TypeOK'
<1>1. /\ TypeOK
      /\ MaxIn \in Nat /\ MaxOut \in Nat /\ MaxSizes \in Nat
      /\ Wire \in Nat /\ SizeCap \in Nat
  BY ExecBridgeAssumption DEF EInv
<1>2. ASSUME up # <<>>
      PROVE  /\ Tail(up) \in Seq(UpFrame)
             /\ Len(Tail(up)) <= Wire
  BY <1>1, <1>2, QueueTyped DEF TypeOK
<1>3. CASE PumpData
  <2>1. pump' \in Worker
    <3>1. up # <<>> /\ Head(up).kind = "data"
      BY <1>3 DEF PumpData, Receive
    <3>2. Head(up).n \in 1..MaxIn
      BY <3>1, HeadTyped
    <3>3. pump \in Worker /\ Head(up).n \in 0..MaxIn
      BY <1>1, <3>2 DEF TypeOK
    <3>4. pump' = [pump EXCEPT !.pc = "done"]
          \/ pump' = [pc |-> "write", n |-> Head(up).n]
      BY <1>3 DEF PumpData
    <3>5. [pump EXCEPT !.pc = "done"] \in Worker
      BY <3>3, WorkerMoves
    <3>6. [pc |-> "write", n |-> Head(up).n] \in Worker
      BY <3>3 DEF Worker
    <3> QED BY <3>4, <3>5, <3>6
  <2> QED
    BY <1>1, <1>2, <1>3, <2>1
    DEF PumpData, Receive, TypeOK, clientVars, commandVars
<1>4. CASE PumpEof
  BY <1>1, <1>2, <1>4 DEF PumpEof, Receive, TypeOK, clientVars, commandVars
<1>5. CASE PumpSize
  <2>1. sizes' \in Seq(1..MaxSizes) /\ Len(sizes') <= SizeCap
    BY <1>1, <1>5, HeadTyped, QueueTyped DEF PumpSize, Receive, TypeOK
  <2> QED
    BY <1>1, <1>2, <1>5, <2>1
    DEF PumpSize, Receive, TypeOK, clientVars, commandVars
<1>6. CASE PumpEnds
  <2>1. pump' \in Worker
    BY <1>1, <1>6, WorkerMoves DEF PumpEnds, TypeOK
  <2> QED BY <1>1, <1>6, <2>1 DEF PumpEnds, TypeOK, clientVars, commandVars
<1> QED BY <1>3, <1>4, <1>5, <1>6 DEF Pump

LEMMA CopyStdinTyped ==
  ASSUME EInv, CopyStdin
  PROVE  TypeOK'
<1>1. /\ TypeOK
      /\ MaxIn \in Nat /\ MaxOut \in Nat /\ MaxSizes \in Nat
      /\ Wire \in Nat /\ SizeCap \in Nat
  BY ExecBridgeAssumption DEF EInv
<1>2. CASE PipeRead
  <2>1. pump' \in Worker
    BY <1>1, <1>2, WorkerMoves DEF PipeRead, TypeOK
  <2>2. copy' \in Worker
    BY <1>1, <1>2 DEF PipeRead, Worker, TypeOK
  <2> QED BY <1>1, <1>2, <2>1, <2>2 DEF PipeRead, TypeOK, clientVars, commandVars
<1>3. CASE CopyIn
  <2>1. copy.n \in 1..MaxIn
    BY <1>1, <1>3
    DEF CopyIn, EInv, InputInOrder, ToCopy, ToCommand, Worker, TypeOK
  <2>2. input' \in Stdin
    BY <1>1, <1>3, <2>1, AppendAt DEF CopyIn, TypeOK, Stdin
  <2>3. copy' \in Worker
    BY <1>1, <1>3, WorkerMoves DEF CopyIn, TypeOK
  <2> QED
    BY <1>1, <1>3, <2>2, <2>3 DEF CopyIn, TypeOK, clientVars, commandVars
<1>4. CASE CopyEof
  <2>1. copy' \in Worker
    BY <1>1, <1>4, WorkerMoves DEF CopyEof, TypeOK
  <2>2. input' \in Stdin
    BY <1>1, <1>4 DEF CopyEof, TypeOK, Stdin
  <2> QED
    BY <1>1, <1>4, <2>1, <2>2 DEF CopyEof, TypeOK, clientVars, commandVars
<1>5. CASE CopyFails
  <2>1. copy' \in Worker
    BY <1>1, <1>5, WorkerMoves DEF CopyFails, TypeOK
  <2> QED BY <1>1, <1>5, <2>1 DEF CopyFails, TypeOK, clientVars, commandVars
<1> QED BY <1>2, <1>3, <1>4, <1>5 DEF CopyStdin

\* The stream and the handler send only when there is room on the wire.
LEMMA DownTyped ==
  ASSUME TypeOK, NEW f \in DownFrame,
         (Len(down) < Wire /\ down' = Append(down, f)) \/ UNCHANGED down
  PROVE  down' \in Seq(DownFrame) /\ Len(down') <= Wire
<1>1. down \in Seq(DownFrame) /\ Len(down) <= Wire /\ Wire \in Nat
  BY ExecBridgeAssumption DEF TypeOK
<1>2. Append(down, f) \in Seq(DownFrame)
      /\ (Len(down) < Wire => Len(Append(down, f)) <= Wire)
  BY <1>1, QueueTyped
<1> QED BY <1>1, <1>2

LEMMA TypeNext ==
  ASSUME EInv, [Next]_vars
  PROVE  TypeOK'
<1>1. /\ TypeOK
      /\ MaxIn \in Nat /\ MaxOut \in Nat /\ MaxSizes \in Nat
      /\ Wire \in Nat /\ SizeCap \in Nat
  BY ExecBridgeAssumption DEF EInv
<1>2. CASE Break
  BY <1>1, <1>2 DEF Break, TypeOK, clientVars, commandVars
<1>3. ASSUME NEW s \in Streams, CopyOut(s)
      PROVE  TypeOK'
  <2>1. /\ taken[s] + 1 \in 0..MaxOut
        /\ Frame(s, taken[s] + 1)
             \in DownFrame
    BY <1>1, <1>3 DEF CopyOut, TypeOK, Frame, DownFrame
  <2>2. /\ down' \in Seq(DownFrame)
        /\ Len(down') <= Wire
    BY <1>1, <1>3, <2>1, DownTyped DEF CopyOut
  <2>3. taken' \in [Streams -> 0..MaxOut]
    BY <1>1, <1>3, <2>1 DEF CopyOut, TypeOK
  <2>4. UNCHANGED <<mode, ws, up, cin, client, typed, got, win, pump, shut, copy,
                    input, cmd, read, eof, made, handler, sizes, term>>
    BY <1>3 DEF CopyOut, clientVars, commandVars
  <2> QED BY <1>1, <2>2, <2>3, <2>4 DEF TypeOK
<1>4. CASE ForwardSize
  <2>1. /\ sizes' \in Seq(1..MaxSizes) /\ Len(sizes') <= SizeCap
        /\ term' \in 0..MaxSizes
    <3>1. sizes \in Seq(1..MaxSizes) /\ Len(sizes) <= SizeCap
      BY <1>1 DEF TypeOK
    <3>2. sizes # <<>> /\ sizes' = Tail(sizes) /\ term' = Head(sizes)
      BY <1>4 DEF ForwardSize
    <3>3. term' \in 1..MaxSizes
      BY <3>1, <3>2, TailAt
    <3>4. sizes' \in Seq(1..MaxSizes) /\ Len(sizes') <= SizeCap
      BY <1>1, <3>1, <3>2, QueueTyped
    <3> QED BY <3>3, <3>4
  <2>2. UNCHANGED <<mode, ws, up, down, cin, client, typed, got, win, pump, shut,
                    copy, input, cmd, read, eof, made, taken, handler>>
    BY <1>4 DEF ForwardSize, clientVars, commandVars
  <2> QED BY <1>1, <2>1, <2>2 DEF TypeOK
<1>5. CASE StreamBreaks
  BY <1>1, <1>5 DEF StreamBreaks, TypeOK, clientVars
<1>6. CASE HandlerCloses
  <2>1. Frame(IF cmd = "ok" THEN "normal" ELSE "error", 0)
             \in DownFrame
    BY DEF Frame, DownFrame
  <2>2. /\ down' \in Seq(DownFrame)
        /\ Len(down') <= Wire
    BY <1>1, <1>6, <2>1, DownTyped DEF HandlerCloses
  <2> QED
    BY <1>1, <1>6, <2>2 DEF HandlerCloses, TypeOK, clientVars, commandVars
<1>7. CASE CommandReads
  <2>1. /\ read' \in Seq(1..MaxIn)
        /\ input' \in Stdin
    BY <1>1, <1>7, TailAt, AppendAt DEF CommandReads, TypeOK, Stdin
  <2> QED
    BY <1>1, <1>7, <2>1 DEF CommandReads, TypeOK, clientVars
<1>8. CASE CommandReadsEof
  BY <1>1, <1>8 DEF CommandReadsEof, TypeOK, clientVars
<1>9. ASSUME NEW s \in Streams, CommandWrites(s)
      PROVE  TypeOK'
  <2>1. made' \in [Streams -> 0..MaxOut]
    BY <1>1, <1>9 DEF CommandWrites, TypeOK
  <2>2. UNCHANGED <<mode, ws, up, down, cin, client, typed, got, win, pump, shut,
                    copy, input, cmd, read, eof, taken, handler, sizes, term>>
    BY <1>9 DEF CommandWrites, clientVars
  <2> QED BY <1>1, <2>1, <2>2 DEF TypeOK
<1>10. CASE CommandExits
  BY <1>1, <1>10 DEF CommandExits, TypeOK, clientVars
<1>11. CASE UNCHANGED vars
  BY <1>1, <1>11 DEF vars, TypeOK
<1> QED
  BY ClientTyped, PumpTyped, CopyStdinTyped, <1>2, <1>3, <1>4, <1>5, <1>6, <1>7,
     <1>8, <1>9, <1>10, <1>11
  DEF Next, Command, Over

(* ----------------------------- The way in ------------------------------- *)

Inputs == InputInOrder /\ UpFrames /\ EndInOrder

\* A step that leaves the input alone, and opens nothing that was closed.
LEMMA InputsKept ==
  ASSUME Inputs, Open' => Open,
         UNCHANGED <<up, cin, typed, pump, shut, copy, input, read, eof>>
  PROVE  Inputs'
<1>1. ToCommand' = ToCommand /\ ToCopy' = ToCopy /\ ToPump' = ToPump
  BY DEF ToCommand, ToCopy, ToPump
<1>2. Numbered(up, "data", ToPump, typed)
        => Numbered(up, "data", ToPump, typed)'
  BY <1>1 DEF Numbered
<1>3. InputInOrder'
  BY <1>1, <1>2 DEF Inputs, InputInOrder
<1>4. UpFrames'
  BY DEF Inputs, UpFrames
<1>5. EndInOrder'
  BY <1>1 DEF Inputs, EndInOrder
<1> QED BY <1>3, <1>4, <1>5 DEF Inputs

\* The counts of chunks are numbers.
LEMMA InputTyped ==
  ASSUME TypeOK
  PROVE  /\ up \in Seq(UpFrame)
         /\ Len(up) \in Nat /\ DOMAIN up = 1..Len(up)
         /\ typed \in Nat /\ Len(read) \in Nat /\ Len(input.chunks) \in Nat
         /\ ToCommand \in Nat /\ ToCopy \in Nat /\ ToPump \in Nat
<1>1. typed \in Nat /\ Len(read) \in Nat /\ Len(input.chunks) \in Nat
  BY LenProperties, ExecBridgeAssumption DEF TypeOK, Stdin
<1>2. up \in Seq(UpFrame)
  BY DEF TypeOK
<1>3. Len(up) \in Nat /\ DOMAIN up = 1..Len(up)
  BY <1>2, LenProperties
<1>4. ToCommand \in Nat
  BY <1>1 DEF ToCommand
<1>5. ToCopy \in Nat
  BY <1>4 DEF ToCopy
<1>6. ToPump \in Nat
  BY <1>5 DEF ToPump
<1> QED BY <1>1, <1>2, <1>3, <1>4, <1>5, <1>6

\* When a frame leaves the wire to boxlyd, what holds of those left still does.
LEMMA UpFramesTail ==
  ASSUME TypeOK, UpFrames, up # <<>>, up' = Tail(up), UNCHANGED <<typed, cin>>
  PROVE  /\ UpFrames'
         /\ Head(up).kind = "eof" =>
              cin = "eof" /\ \A i \in DOMAIN up' : up'[i].kind # "data"
         /\ \A i \in DOMAIN up' : \E j \in DOMAIN up : up'[i] = up[j]
<1>1. /\ Len(up) \in Nat \ {0} /\ DOMAIN up = 1..Len(up)
      /\ DOMAIN up' = 1..(Len(up) - 1) /\ Head(up) = up[1]
      /\ \A i \in DOMAIN up' : up'[i] = up[i + 1] /\ i + 1 \in DOMAIN up
  BY TailAt DEF TypeOK
<1>2. ASSUME NEW i \in DOMAIN up'
      PROVE  /\ up'[i].kind = "data" => up'[i].n \in 1..typed
             /\ up'[i].kind = "size" => up'[i].n \in 1..MaxSizes
             /\ up'[i].kind = "eof" =>
                  /\ cin = "eof"
                  /\ \A j \in DOMAIN up' : i < j => up'[j].kind # "data"
  <2>1. /\ up[i + 1].kind = "data" => up[i + 1].n \in 1..typed
        /\ up[i + 1].kind = "size" => up[i + 1].n \in 1..MaxSizes
        /\ up[i + 1].kind = "eof" =>
             /\ cin = "eof"
             /\ \A j \in DOMAIN up : i + 1 < j => up[j].kind # "data"
    BY <1>1, <1>2 DEF UpFrames
  <2>2. \A j \in DOMAIN up' : i < j => i + 1 < j + 1
    BY <1>1, <1>2
  <2> QED BY <1>1, <1>2, <2>1, <2>2
<1>3. UpFrames'
  BY <1>2 DEF UpFrames
<1>4. Head(up).kind = "eof" =>
        cin = "eof" /\ \A i \in DOMAIN up' : up'[i].kind # "data"
  <2>1. \A i \in DOMAIN up' : 1 < i + 1
    BY <1>1
  <2> QED BY <1>1, <2>1 DEF UpFrames
<1> QED BY <1>1, <1>3, <1>4

\* A frame that the client adds is well-formed if the client has not said that
\* its input has ended.
LEMMA UpFramesAppend ==
  ASSUME TypeOK, UpFrames, NEW f, f \in UpFrame,
         up' = Append(up, f), typed' \in Nat, typed <= typed',
         f.kind = "data" => f.n \in 1..typed',
         f.kind = "size" => f.n \in 1..MaxSizes,
         f.kind = "eof" => cin' = "eof",
         cin = "eof" => cin' = "eof",
         f.kind = "data" => cin = "open"
  PROVE  UpFrames'
<1>1. /\ Len(up) \in Nat /\ DOMAIN up = 1..Len(up)
      /\ DOMAIN up' = 1..(Len(up) + 1)
      /\ \A i \in DOMAIN up : up'[i] = up[i]
      /\ up'[Len(up) + 1] = f
  BY InputTyped, AppendAt
<1>2. ASSUME NEW i \in DOMAIN up'
      PROVE  /\ up'[i].kind = "data" => up'[i].n \in 1..typed'
             /\ up'[i].kind = "size" => up'[i].n \in 1..MaxSizes
             /\ up'[i].kind = "eof" =>
                  /\ cin' = "eof"
                  /\ \A j \in DOMAIN up' : i < j => up'[j].kind # "data"
  <2>1. CASE i = Len(up) + 1
    BY <1>1, <2>1
  <2>2. CASE i \in DOMAIN up
    <3>1. /\ up[i].kind = "data" => up[i].n \in 1..typed
          /\ up[i].kind = "size" => up[i].n \in 1..MaxSizes
          /\ up[i].kind = "eof" =>
               /\ cin = "eof"
               /\ \A j \in DOMAIN up : i < j => up[j].kind # "data"
      BY <2>2 DEF UpFrames
    <3>2. up'[i].kind = "data" => up'[i].n \in 1..typed'
      BY <1>1, <2>2, <3>1, InputTyped
    <3>3. ASSUME up'[i].kind = "eof", NEW j \in DOMAIN up', i < j
          PROVE  up'[j].kind # "data"
      <4>1. cin = "eof" /\ f.kind # "data"
        BY <1>1, <2>2, <3>1, <3>3
      <4> QED BY <1>1, <2>2, <3>1, <3>3, <4>1
    <3> QED BY <1>1, <2>2, <3>1, <3>2, <3>3
  <2> QED BY <1>1, <1>2, <2>1, <2>2
<1> QED BY <1>2 DEF UpFrames

LEMMA ClientInputs ==
  ASSUME TypeOK, Inputs, Client
  PROVE  Inputs'
<1> USE DEF Inputs
<1>0. /\ up \in Seq(UpFrame)
      /\ typed \in Nat /\ ToPump \in Nat /\ win \in Nat /\ MaxSizes \in Nat
      /\ win \in 0..MaxSizes
  BY InputTyped, ExecBridgeAssumption DEF TypeOK
<1>1. CASE ClientSend
  <2> DEFINE f == Frame("data", typed + 1)
  <2>1. /\ cin = "open" /\ ws = "open" /\ up' = Append(up, f)
        /\ typed' = typed + 1
        /\ UNCHANGED <<ws, handler, cin, pump, copy, shut, input, read, eof>>
    BY <1>1 DEF ClientSend, SendUp, commandVars
  <2>2. f \in UpFrame
        /\ f.kind = "data" /\ f.n = typed + 1
    BY <1>0 DEF Frame, UpFrame
  <2>3. UpFrames'
    BY <1>0, <2>1, <2>2, UpFramesAppend
  <2>4. ToCommand' = ToCommand /\ ToCopy' = ToCopy /\ ToPump' = ToPump
    BY <2>1 DEF ToCommand, ToCopy, ToPump
  <2>5. ASSUME copy.pc # "done", pump.pc # "done"
        PROVE  Numbered(up', "data", ToPump, typed + 1)
    BY <1>0, <2>1, <2>2, <2>5, NumberedAppend DEF InputInOrder
  <2>6. InputInOrder'
    BY <1>0, <2>1, <2>4, <2>5, InputTyped DEF InputInOrder
  <2>7. ~(shut /\ Open)
    BY <2>1 DEF EndInOrder
  <2>8. EndInOrder'
    BY <2>1, <2>7 DEF EndInOrder, Open
  <2> QED BY <2>3, <2>6, <2>8
<1>2. CASE ClientEof
  <2> DEFINE f == Frame("eof", 0)
  <2>1. /\ cin = "open" /\ ws = "open" /\ up' = Append(up, f) /\ cin' = "eof"
        /\ UNCHANGED <<ws, handler, typed, pump, copy, shut, input, read, eof>>
    BY <1>2 DEF ClientEof, SendUp, commandVars
  <2>2. f \in UpFrame /\ f.kind = "eof"
    BY DEF Frame, UpFrame
  <2>3. UpFrames'
    BY <1>0, <2>1, <2>2, UpFramesAppend
  <2>4. ToCommand' = ToCommand /\ ToCopy' = ToCopy /\ ToPump' = ToPump
    BY <2>1 DEF ToCommand, ToCopy, ToPump
  <2>5. ASSUME copy.pc # "done", pump.pc # "done"
        PROVE  Numbered(up', "data", ToPump, typed)
    BY <1>0, <2>1, <2>2, <2>5, NumberedAppend DEF InputInOrder
  <2>6. InputInOrder'
    BY <1>0, <2>1, <2>4, <2>5 DEF InputInOrder
  <2>7. ~(shut /\ Open)
    BY <2>1 DEF EndInOrder
  <2>8. EndInOrder'
    BY <2>1, <2>7 DEF EndInOrder, Open
  <2> QED BY <2>3, <2>6, <2>8
<1>3. CASE ClientResize
  <2> DEFINE f == Frame("size", win + 1)
  <2>1. /\ ws = "open" /\ up' = Append(up, f) /\ win < MaxSizes
        /\ UNCHANGED <<ws, handler, cin, typed, pump, copy, shut, input, read, eof>>
    BY <1>3 DEF ClientResize, SendUp, commandVars
  <2>2. f \in UpFrame
        /\ f.kind = "size" /\ f.n \in 1..MaxSizes
    BY <1>0, <2>1 DEF Frame, UpFrame
  <2>3. UpFrames'
    BY <1>0, <2>1, <2>2, UpFramesAppend
  <2>4. ToCommand' = ToCommand /\ ToCopy' = ToCopy /\ ToPump' = ToPump
    BY <2>1 DEF ToCommand, ToCopy, ToPump
  <2>5. ASSUME copy.pc # "done", pump.pc # "done"
        PROVE  Numbered(up', "data", ToPump, typed)
    BY <1>0, <2>1, <2>2, <2>5, NumberedAppend DEF InputInOrder
  <2>6. InputInOrder'
    BY <1>0, <2>1, <2>4, <2>5 DEF InputInOrder
  <2>7. \A i \in DOMAIN up' : up'[i] = f \/ \E j \in DOMAIN up : up'[i] = up[j]
    BY <1>0, <2>1, <2>2, AppendAt
  <2>8. (\A i \in DOMAIN up : up[i].kind # "data")
        => \A i \in DOMAIN up' : up'[i].kind # "data"
    BY <2>2, <2>7
  <2>9. EndInOrder'
    BY <2>1, <2>4, <2>8 DEF EndInOrder, Open
  <2> QED BY <2>3, <2>6, <2>9
<1>4. CASE ClientShow \/ ClientClosed \/ ClientFails
  <2>1. /\ UNCHANGED <<up, cin, typed, pump, shut, copy, input, read, eof>>
        /\ handler' = handler /\ (ws' = ws \/ ws' = "gone")
    BY <1>4 DEF ClientShow, ClientClosed, ClientFails, commandVars
  <2>2. Open' => Open
    BY <2>1 DEF Open
  <2> QED BY <2>1, <2>2, InputsKept
<1> QED BY <1>1, <1>2, <1>3, <1>4 DEF Client

LEMMA PumpInputs ==
  ASSUME TypeOK, Inputs, Pump
  PROVE  Inputs'
<1> USE DEF Inputs
<1>0. /\ up \in Seq(UpFrame)
      /\ typed \in Nat /\ ToPump \in Nat /\ ToCopy \in Nat
      /\ pump \in Worker
  BY InputTyped DEF TypeOK
<1>1. CASE PumpData
  <2>1. /\ pump.pc = "read" /\ up # <<>> /\ Head(up).kind = "data"
        /\ up' = Tail(up)
        /\ UNCHANGED <<ws, handler, cin, typed, shut, copy, input, read, eof>>
    BY <1>1 DEF PumpData, Receive, clientVars, commandVars
  <2>2. UpFrames'
    BY <2>1, UpFramesTail
  <2>3. ToCommand' = ToCommand /\ ToCopy' = ToCopy
    BY <2>1 DEF ToCommand, ToCopy
  <2>4. ToPump = ToCopy
    BY <1>0, <2>1 DEF ToPump
  <2>5. ASSUME copy.pc # "done"
        PROVE  /\ Head(up).n = ToPump + 1 /\ ToPump + 1 <= typed
               /\ Numbered(up', "data", ToPump + 1, typed)
    BY <1>0, <2>1, <2>5, NumberedTail DEF InputInOrder
  <2>6. CASE shut
    <3>1. pump' = [pump EXCEPT !.pc = "done"]
      BY <1>1, <2>6 DEF PumpData
    <3>2. pump'.pc = "done"
      BY <1>0, <3>1 DEF Worker
    <3>3. ToPump' = ToPump
      BY <1>0, <2>1, <2>3, <2>4, <3>2 DEF ToPump
    <3>4. InputInOrder'
      BY <2>1, <2>3, <3>2, <3>3 DEF InputInOrder
    <3>5. ~Open
      <4>1. Head(up) = up[1] /\ 1 \in DOMAIN up
        BY <1>0, <2>1, TailAt
      <4> QED BY <2>1, <2>6, <4>1 DEF EndInOrder
    <3>6. EndInOrder'
      BY <2>1, <2>6, <3>5 DEF EndInOrder, Open
    <3> QED BY <2>2, <3>4, <3>6
  <2>7. CASE ~shut
    <3>1. pump' = [pc |-> "write", n |-> Head(up).n]
      BY <1>1, <2>7 DEF PumpData
    <3>2. ToPump' = ToPump + 1
      BY <2>3, <2>4, <3>1 DEF ToPump
    <3>3. InputInOrder'
      BY <2>1, <2>3, <2>5, <3>1, <3>2 DEF InputInOrder
    <3>4. EndInOrder'
      BY <2>1, <2>3, <2>7, <3>1 DEF EndInOrder, Open
    <3> QED BY <2>2, <3>3, <3>4
  <2> QED BY <2>6, <2>7
<1>2. CASE PumpEof
  <2>1. /\ pump.pc = "read" /\ up # <<>> /\ Head(up).kind = "eof"
        /\ up' = Tail(up) /\ shut' = TRUE
        /\ UNCHANGED <<ws, handler, cin, typed, pump, copy, input, read, eof>>
    BY <1>2 DEF PumpEof, Receive, clientVars, commandVars
  <2>2. UpFrames' /\ cin = "eof" /\ \A i \in DOMAIN up' : up'[i].kind # "data"
    BY <2>1, UpFramesTail
  <2>3. ToCommand' = ToCommand /\ ToCopy' = ToCopy /\ ToPump' = ToPump
    BY <2>1 DEF ToCommand, ToCopy, ToPump
  <2>4. ASSUME copy.pc # "done"
        PROVE  Numbered(up', "data", ToPump, typed)
    BY <1>0, <2>1, <2>4, NumberedTail DEF InputInOrder
  <2>5. InputInOrder'
    BY <2>1, <2>3, <2>4 DEF InputInOrder
  <2>6. EndInOrder'
    BY <2>1, <2>2, <2>3 DEF EndInOrder, Open
  <2> QED BY <2>2, <2>5, <2>6
<1>3. CASE PumpSize
  <2>1. /\ pump.pc = "read" /\ up # <<>> /\ Head(up).kind = "size"
        /\ up' = Tail(up)
        /\ UNCHANGED <<ws, handler, cin, typed, pump, shut, copy, input, read, eof>>
    BY <1>3 DEF PumpSize, Receive, clientVars, commandVars
  <2>2. UpFrames' /\ \A i \in DOMAIN up' : \E j \in DOMAIN up : up'[i] = up[j]
    BY <2>1, UpFramesTail
  <2>3. ToCommand' = ToCommand /\ ToCopy' = ToCopy /\ ToPump' = ToPump
    BY <2>1 DEF ToCommand, ToCopy, ToPump
  <2>4. ASSUME copy.pc # "done"
        PROVE  Numbered(up', "data", ToPump, typed)
    BY <1>0, <2>1, <2>4, NumberedTail DEF InputInOrder
  <2>5. InputInOrder'
    BY <2>1, <2>3, <2>4 DEF InputInOrder
  <2>6. (\A i \in DOMAIN up : up[i].kind # "data")
        => \A i \in DOMAIN up' : up'[i].kind # "data"
    BY <2>2
  <2>7. EndInOrder'
    BY <2>1, <2>3, <2>6 DEF EndInOrder, Open
  <2> QED BY <2>2, <2>5, <2>7
<1>4. CASE PumpEnds
  <2>1. /\ pump.pc = "read" /\ (ws = "gone" \/ handler = "done")
        /\ pump' = [pump EXCEPT !.pc = "done"] /\ shut' = TRUE
        /\ UNCHANGED <<ws, handler, cin, up, typed, copy, input, read, eof>>
    BY <1>4 DEF PumpEnds, clientVars, commandVars
  <2>2. pump'.pc = "done" /\ ~Open'
    BY <1>0, <2>1 DEF Worker, Open
  <2>3. ToCommand' = ToCommand /\ ToCopy' = ToCopy /\ ToPump' = ToPump
    BY <1>0, <2>1, <2>2 DEF ToCommand, ToCopy, ToPump
  <2>4. InputInOrder'
    BY <2>1, <2>2, <2>3 DEF InputInOrder
  <2>5. UpFrames' /\ EndInOrder'
    BY <2>1, <2>2 DEF UpFrames, EndInOrder
  <2> QED BY <2>4, <2>5
<1> QED BY <1>1, <1>2, <1>3, <1>4 DEF Pump

LEMMA CopyStdinInputs ==
  ASSUME TypeOK, Inputs, CopyStdin
  PROVE  Inputs'
<1> USE DEF Inputs
<1>0. /\ Len(read) \in Nat /\ Len(input.chunks) \in Nat
      /\ typed \in Nat /\ ToCommand \in Nat
      /\ pump \in Worker /\ copy \in Worker
      /\ input \in Stdin
  BY InputTyped DEF TypeOK
<1>1. CASE PipeRead
  <2>1. /\ pump.pc = "write" /\ copy.pc = "read"
        /\ copy' = [pc |-> "write", n |-> pump.n]
        /\ pump' = [pump EXCEPT !.pc = "read"]
        /\ UNCHANGED <<ws, handler, cin, up, typed, shut, input, read, eof>>
    BY <1>1 DEF PipeRead, clientVars, commandVars
  <2>2. pump'.pc = "read" /\ copy'.pc = "write" /\ copy'.n = pump.n
    BY <1>0, <2>1 DEF Worker
  <2>3. ToCommand' = ToCommand
    BY <2>1 DEF ToCommand
  <2>4. ToCopy' = ToPump /\ ToPump' = ToPump
    BY <1>0, <2>1, <2>2, <2>3 DEF ToCopy, ToPump
  <2>5. InputInOrder'
    BY <2>1, <2>2, <2>4 DEF InputInOrder
  <2>6. UpFrames' /\ EndInOrder'
    BY <2>1, <2>2, <2>3 DEF UpFrames, EndInOrder, Open
  <2> QED BY <2>5, <2>6
<1>2. CASE CopyIn
  <2>1. /\ copy.pc = "write" /\ input.chunks = <<>>
        /\ input' = [input EXCEPT !.chunks = Append(@, copy.n)]
        /\ copy' = [copy EXCEPT !.pc = "read"]
        /\ UNCHANGED <<ws, handler, cin, up, typed, pump, shut, read, eof>>
    BY <1>2 DEF CopyIn, clientVars, commandVars
  <2>2. copy'.pc = "read"
    BY <1>0, <2>1 DEF Worker
  <2>3. ToCommand = Len(read) /\ ToCopy = Len(read) + 1
    BY <1>0, <2>1, EmptySeq DEF ToCommand, ToCopy
  <2>4. input'.chunks = <<copy.n>> /\ input'.end = input.end
    BY <1>0, <2>1
  <2>5. copy.n = Len(read) + 1
    BY <2>1, <2>3 DEF InputInOrder
  <2>6. Len(input'.chunks) = 1
    BY <2>4
  <2>7. ToCommand' = Len(read) + 1
    BY <2>1, <2>6 DEF ToCommand
  <2>8. ToCopy' = ToCopy
    BY <1>0, <2>2, <2>3, <2>7 DEF ToCopy
  <2>9. ToPump' = ToPump
    BY <2>1, <2>8 DEF ToPump
  <2>10. InputInOrder'
    BY <2>1, <2>2, <2>4, <2>5, <2>8, <2>9 DEF InputInOrder
  <2>11. ~input.end /\ ~eof
    BY <2>1 DEF EndInOrder
  <2>12. UpFrames' /\ EndInOrder'
    BY <2>1, <2>2, <2>4, <2>11 DEF UpFrames, EndInOrder, Open
  <2> QED BY <2>10, <2>12
<1>3. CASE CopyEof
  <2>1. /\ copy.pc = "read" /\ shut /\ pump.pc # "write"
        /\ input' = [input EXCEPT !.end = TRUE]
        /\ copy' = [copy EXCEPT !.pc = "done"]
        /\ UNCHANGED <<ws, handler, cin, up, typed, pump, shut, read, eof>>
    BY <1>3 DEF CopyEof, clientVars, commandVars
  <2>2. copy'.pc = "done" /\ input'.chunks = input.chunks /\ input'.end = TRUE
    BY <1>0, <2>1 DEF Worker
  <2>3. ToCommand' = ToCommand
    BY <2>1, <2>2 DEF ToCommand
  <2>4. ToCopy = ToCommand /\ ToPump = ToCommand
    BY <1>0, <2>1 DEF ToCopy, ToPump
  <2>5. ToCopy' = ToCommand /\ ToPump' = ToCommand
    BY <1>0, <2>1, <2>2, <2>3 DEF ToCopy, ToPump
  <2>6. InputInOrder'
    BY <2>1, <2>2, <2>4, <2>5 DEF InputInOrder
  <2>7. Open => ToCommand = typed
    <3> SUFFICES ASSUME Open PROVE ToCommand = typed
      OBVIOUS
    <3>1. pump.pc # "done" /\ \A i \in DOMAIN up : up[i].kind # "data"
      BY <2>1 DEF EndInOrder
    <3>2. Numbered(up, "data", ToCommand, typed) /\ ToCommand <= typed
      BY <2>1, <2>4, <3>1 DEF InputInOrder
    <3> QED BY <1>0, <3>1, <3>2, NumberedNone
  <2>8. ~eof
    BY <2>1 DEF EndInOrder
  <2>9. UpFrames' /\ EndInOrder'
    BY <2>1, <2>2, <2>3, <2>7, <2>8 DEF UpFrames, EndInOrder, Open
  <2> QED BY <2>6, <2>9
<1>4. CASE CopyFails
  <2>1. /\ copy.pc = "write"
        /\ copy' = [copy EXCEPT !.pc = "done"]
        /\ UNCHANGED <<ws, handler, cin, up, typed, pump, shut, input, read, eof>>
    BY <1>4 DEF CopyFails, clientVars, commandVars
  <2>2. copy'.pc = "done"
    BY <1>0, <2>1 DEF Worker
  <2>3. ToCommand' = ToCommand
    BY <2>1 DEF ToCommand
  <2>4. ToCopy' <= typed
    BY <1>0, <2>1, <2>2, <2>3 DEF ToCopy, InputInOrder
  <2>5. InputInOrder'
    BY <2>1, <2>2, <2>4 DEF InputInOrder
  <2>6. UpFrames' /\ EndInOrder'
    BY <2>1, <2>2, <2>3 DEF UpFrames, EndInOrder, Open
  <2> QED BY <2>5, <2>6
<1> QED BY <1>1, <1>2, <1>3, <1>4 DEF CopyStdin

\* What the command reads next, and that it is all there is in its input.
LEMMA NextToRead ==
  ASSUME TypeOK, InputInOrder, input.chunks # <<>>
  PROVE  /\ Head(input.chunks) = Len(read) + 1
         /\ Tail(input.chunks) = <<>>
         /\ Len(input.chunks) = 1
         /\ Len(read) + 1 <= typed
<1>1. input.chunks = <<Len(read) + 1>>
  BY DEF InputInOrder
<1>2. /\ Len(input.chunks) = 1 /\ Head(input.chunks) = Len(read) + 1
      /\ Tail(input.chunks) = <<>>
  BY <1>1
<1>3. ToCommand <= typed
  BY InputTyped DEF InputInOrder, ToCopy
<1> QED BY <1>2, <1>3, InputTyped DEF ToCommand

LEMMA CommandInputs ==
  ASSUME TypeOK, Inputs, Command
  PROVE  Inputs'
<1> USE DEF Inputs
<1>0. /\ Len(read) \in Nat /\ Len(input.chunks) \in Nat
      /\ read \in Seq(1..MaxIn)
      /\ input \in Stdin
  BY InputTyped DEF TypeOK
<1>1. CASE CommandReads
  <2>1. /\ input.chunks # <<>> /\ read' = Append(read, Head(input.chunks))
        /\ input' = [input EXCEPT !.chunks = Tail(@)]
        /\ UNCHANGED <<ws, handler, cin, up, typed, pump, copy, shut, eof>>
    BY <1>1 DEF CommandReads, clientVars
  <2>2. input'.chunks = <<>> /\ input'.end = input.end
    BY <1>0, <2>1, NextToRead
  <2>3. /\ Len(read') = Len(read) + 1 /\ DOMAIN read' = 1..(Len(read) + 1)
        /\ DOMAIN read = 1..Len(read)
        /\ \A i \in DOMAIN read : read'[i] = read[i]
        /\ read'[Len(read) + 1] = Len(read) + 1
    <3>1. Head(input.chunks) \in 1..MaxIn
      BY <1>0, <2>1, TailAt DEF Stdin
    <3> QED BY <1>0, <2>1, <3>1, AppendAt, NextToRead
  <2>4. \A i \in DOMAIN read' : read'[i] = i
    BY <1>0, <2>3 DEF InputInOrder
  <2>5. ToCommand' = ToCommand
    <3>1. Len(input.chunks) = 1 /\ Len(input'.chunks) = 0
      BY <2>1, <2>2, NextToRead, EmptySeq
    <3> QED BY <1>0, <2>3, <3>1 DEF ToCommand
  <2>6. ToCopy' = ToCopy /\ ToPump' = ToPump
    BY <2>1, <2>5 DEF ToCopy, ToPump
  <2>7. InputInOrder'
    BY <2>1, <2>2, <2>4, <2>6 DEF InputInOrder
  <2>8. UpFrames' /\ EndInOrder'
    BY <2>1, <2>2, <2>5 DEF UpFrames, EndInOrder, Open
  <2> QED BY <2>7, <2>8
<1>2. CASE CommandReadsEof
  <2>1. /\ input.chunks = <<>> /\ input.end /\ eof' = TRUE
        /\ UNCHANGED <<ws, handler, cin, up, typed, pump, copy, shut, input, read>>
    BY <1>2 DEF CommandReadsEof, clientVars
  <2>2. ToCommand' = ToCommand /\ ToCopy' = ToCopy /\ ToPump' = ToPump
    BY <2>1 DEF ToCommand, ToCopy, ToPump
  <2>3. InputInOrder' /\ UpFrames' /\ EndInOrder'
    BY <2>1, <2>2 DEF InputInOrder, UpFrames, EndInOrder, Open
  <2> QED BY <2>3
<1>3. CASE CommandExits \/ \E s \in Streams : CommandWrites(s)
  <2>1. /\ UNCHANGED <<up, cin, typed, pump, shut, copy, input, read, eof>>
        /\ UNCHANGED <<ws, handler>>
    BY <1>3 DEF CommandExits, CommandWrites, clientVars
  <2>2. Open' => Open
    BY <2>1 DEF Open
  <2> QED BY <2>1, <2>2, InputsKept
<1> QED BY <1>1, <1>2, <1>3 DEF Command

LEMMA InputsNext ==
  ASSUME TypeOK, Inputs, [Next]_vars
  PROVE  Inputs'
<1>1. CASE \/ Break \/ ForwardSize \/ StreamBreaks \/ HandlerCloses
           \/ (\E s \in Streams : CopyOut(s))
  <2>1. /\ UNCHANGED <<up, cin, typed, pump, shut, copy, input, read, eof>>
        /\ handler' = handler \/ handler' = "done"
        /\ ws' = ws \/ ws' = "gone"
    BY <1>1 DEF Break, ForwardSize, StreamBreaks, HandlerCloses, CopyOut,
                clientVars, commandVars
  <2>2. Open' => Open
    BY <2>1 DEF Open
  <2> QED BY <2>1, <2>2, InputsKept
<1>2. CASE UNCHANGED vars
  <2>1. /\ UNCHANGED <<up, cin, typed, pump, shut, copy, input, read, eof>>
        /\ UNCHANGED <<ws, handler>>
    BY <1>2 DEF vars
  <2>2. Open' => Open
    BY <2>1 DEF Open
  <2> QED BY <2>1, <2>2, InputsKept
<1> QED
  BY <1>1, <1>2, ClientInputs, PumpInputs, CopyStdinInputs, CommandInputs
  DEF Next, Over

(* -------------------------- The way out again --------------------------- *)

Outputs == CloseComesLast /\ OutputInOrder /\ CleanEnd

\* The types of what is on the way out.
LEMMA OutputTyped ==
  ASSUME TypeOK
  PROVE  /\ down \in Seq(DownFrame)
         /\ Len(down) \in Nat /\ DOMAIN down = 1..Len(down)
         /\ \A s \in Streams : /\ taken[s] \in Nat /\ made[s] \in Nat
                               /\ Session!Shown(s) \in Nat
         /\ "normal" \notin Streams /\ "error" \notin Streams
<1>1. Len(down) \in Nat /\ DOMAIN down = 1..Len(down)
  BY LenProperties DEF TypeOK
<1>2. ASSUME NEW s \in Streams
      PROVE  /\ taken[s] \in Nat /\ made[s] \in Nat
             /\ Session!Shown(s) \in Nat
  <2>1. taken[s] \in 0..MaxOut /\ made[s] \in 0..MaxOut
    BY DEF TypeOK
  <2>2. Session!Shown(s) \in Nat
    BY ShownNat DEF TypeOK
  <2> QED BY <2>1, <2>2, ExecBridgeAssumption
<1> QED BY <1>1, <1>2 DEF TypeOK, Streams

\* What nobody shows stays shown as it is.
LEMMA ShownKept ==
  ASSUME UNCHANGED got, NEW s
  PROVE  Session!Shown(s)' = Session!Shown(s)
<1>1. Places(got', s) = Places(got, s)
  OBVIOUS
<1> QED BY <1>1, ShownIs

\* How far the wire reaches for a stream.
LEMMA Reach ==
  ASSUME TypeOK, OutputInOrder, NEW s \in Streams
  PROVE  /\ taken[s] <= made[s]
         /\ \E h \in Nat :
              /\ Session!Shown(s) <= h /\ h <= taken[s]
              /\ Numbered(down, s, Session!Shown(s), h)
              /\ ws = "open" \/ Said("normal") => h = taken[s]
<1>1. taken[s] <= made[s]
  BY DEF OutputInOrder
<1>2. PICK h \in Session!Shown(s)..taken[s] :
        /\ Numbered(down, s, Session!Shown(s), h)
        /\ ws = "open" \/ Said("normal") => h = taken[s]
  BY DEF OutputInOrder
<1>3. h \in Nat /\ Session!Shown(s) <= h /\ h <= taken[s]
  BY OutputTyped
<1> QED BY <1>1, <1>2, <1>3

\* A step that leaves the wire and what was taken alone.
LEMMA OutputsKept ==
  ASSUME TypeOK, Outputs,
         UNCHANGED <<down, got, taken, handler>>,
         ws' = ws \/ ws' = "gone",
         client' = client \/ client' = "failed",
         \A s \in Streams : made'[s] \in Nat /\ made[s] <= made'[s],
         Said("normal") \/ client = "ok" => UNCHANGED <<cmd, made>>
  PROVE  Outputs'
<1>1. CloseComesLast'
  <2>1. ASSUME NEW i \in DOMAIN down, down[i].kind = "normal"
        PROVE  cmd' = "ok" /\ taken' = made'
    BY <2>1 DEF Outputs, CloseComesLast, Said
  <2> QED BY <2>1 DEF Outputs, CloseComesLast
<1>2. ASSUME NEW s \in Streams
      PROVE  /\ taken'[s] <= made'[s]
             /\ \E h \in Session!Shown(s)'..taken'[s] :
                  /\ Numbered(down', s, Session!Shown(s)', h)
                  /\ ws' = "open" \/ Said("normal")' => h = taken'[s]
  <2>1. taken[s] <= made[s] /\ \E h \in Nat :
              /\ Session!Shown(s) <= h /\ h <= taken[s]
              /\ Numbered(down, s, Session!Shown(s), h)
              /\ ws = "open" \/ Said("normal") => h = taken[s]
    BY Reach DEF Outputs
  <2>2. PICK h \in Nat :
              /\ Session!Shown(s) <= h /\ h <= taken[s]
              /\ Numbered(down, s, Session!Shown(s), h)
              /\ ws = "open" \/ Said("normal") => h = taken[s]
    BY <2>1
  <2>3. Session!Shown(s)' = Session!Shown(s) /\ Said("normal")' = Said("normal")
    BY ShownKept DEF Said
  <2>4. h \in Session!Shown(s)'..taken'[s]
    BY <2>2, <2>3, OutputTyped
  <2>5. taken'[s] <= made'[s]
    BY <2>1, OutputTyped
  <2>6. ws' = "open" => ws = "open"
    OBVIOUS
  <2> QED BY <2>2, <2>3, <2>4, <2>5, <2>6
<1>3. OutputInOrder'
  BY <1>2 DEF OutputInOrder
<1>4. CleanEnd'
  <2>1. ASSUME client' = "ok"
        PROVE  /\ ws' = "gone" /\ handler' = "done" /\ cmd' = "ok"
               /\ \A s \in Streams : Session!Shown(s)' = made'[s]
    <3>1. client = "ok"
      BY <2>1
    <3>2. /\ ws = "gone" /\ handler = "done" /\ cmd = "ok"
          /\ \A s \in Streams : Session!Shown(s) = made[s]
      BY <3>1 DEF Outputs, CleanEnd
    <3> QED BY <3>1, <3>2, ShownKept
  <2> QED BY <2>1 DEF CleanEnd
<1> QED BY <1>1, <1>3, <1>4 DEF Outputs

LEMMA ShowOutputs ==
  ASSUME EInv, ClientShow
  PROVE  Outputs'
<1> DEFINE u == Head(down).kind
<1>1. /\ down # <<>> /\ u \in Streams /\ down' = Tail(down)
      /\ got' = Append(got, <<u, Head(down).n>>)
      /\ UNCHANGED <<ws, client, taken, made, handler, cmd>>
      /\ client = "run"
  BY DEF ClientShow, commandVars
<1>2. TypeOK /\ CloseComesLast /\ OutputInOrder
  BY DEF EInv
<1>3. /\ Len(down) \in Nat \ {0} /\ DOMAIN down = 1..Len(down)
      /\ Len(down') = Len(down) - 1 /\ DOMAIN down' = 1..(Len(down) - 1)
      /\ \A i \in DOMAIN down' : down'[i] = down[i + 1] /\ i + 1 \in DOMAIN down
  BY <1>1, <1>2, TailAt, OutputTyped
<1>4. CloseComesLast'
  <2>1. ASSUME NEW i \in DOMAIN down', down'[i].kind \in {"normal", "error"}
        PROVE  /\ i = Len(down') /\ handler' = "done"
               /\ down'[i].kind = "normal" => cmd' = "ok" /\ taken' = made'
    BY <1>1, <1>2, <1>3, <2>1 DEF CloseComesLast
  <2> QED BY <2>1 DEF CloseComesLast
<1>5. Said("normal")' => Said("normal")
  BY <1>3 DEF Said
<1>6. PICK w \in Streams : w = u
  BY <1>1
<1>7. PICK m \in 1..MaxOut : m = Head(down).n
  <2>1. taken[w] \in 0..MaxOut
    BY <1>2, <1>6 DEF TypeOK
  <2>2. /\ Session!Shown(w) \in Nat /\ Head(down).n = Session!Shown(w) + 1
        /\ Head(down).n <= taken[w]
    BY <1>1, <1>6, HeadIsNext
  <2> QED BY <2>1, <2>2, ExecBridgeAssumption
<1>8. /\ Session!Shown(w)' = Session!Shown(w) + 1
      /\ \A v : v # w => Session!Shown(v)' = Session!Shown(v)
  <2>1. got \in Seq(Streams \X (1..MaxOut)) /\ <<w, m>> \in Streams \X (1..MaxOut)
    BY <1>2 DEF TypeOK
  <2>2. got' = Append(got, <<w, m>>)
    BY <1>1, <1>6, <1>7
  <2> QED BY <2>1, <2>2, ShownAppend
<1>9. ASSUME NEW s \in Streams
      PROVE  /\ taken'[s] <= made'[s]
             /\ \E h \in Session!Shown(s)'..taken'[s] :
                  /\ Numbered(down', s, Session!Shown(s)', h)
                  /\ ws' = "open" \/ Said("normal")' => h = taken'[s]
  <2>1. PICK h \in Nat :
              /\ Session!Shown(s) <= h /\ h <= taken[s]
              /\ Numbered(down, s, Session!Shown(s), h)
              /\ ws = "open" \/ Said("normal") => h = taken[s]
    BY <1>2, Reach
  <2>2. Session!Shown(s) \in Nat /\ taken[s] \in Nat
    BY <1>2, OutputTyped
  <2>3. Session!Shown(s)' <= h /\ Numbered(down', s, Session!Shown(s)', h)
        /\ Session!Shown(s)' \in Nat
    <3>1. CASE s = w
      <4>1. Numbered(Tail(down), s, Session!Shown(s) + 1, h)
            /\ Session!Shown(s) + 1 <= h
        <5>1. down \in Seq(DownFrame) /\ down # <<>> /\ Head(down).kind = s
          BY <1>1, <1>2, <1>6, <3>1 DEF TypeOK
        <5> QED BY <2>1, <2>2, <5>1, NumberedTail
      <4> QED BY <1>1, <1>8, <2>2, <3>1, <4>1
    <3>2. CASE s # w
      <4>1. Numbered(Tail(down), s, Session!Shown(s), h)
        <5>1. down \in Seq(DownFrame) /\ down # <<>> /\ Head(down).kind # s
          BY <1>1, <1>2, <1>6, <3>2 DEF TypeOK
        <5> QED BY <2>1, <2>2, <5>1, NumberedTail
      <4> QED BY <1>1, <1>8, <2>1, <2>2, <3>2, <4>1
    <3> QED BY <3>1, <3>2
  <2>4. taken'[s] <= made'[s]
    BY <1>1, <1>2, Reach
  <2>5. h \in Session!Shown(s)'..taken'[s]
    BY <1>1, <2>1, <2>2, <2>3
  <2> QED BY <1>1, <1>5, <2>1, <2>3, <2>4, <2>5
<1>10. OutputInOrder'
  BY <1>9 DEF OutputInOrder
<1>11. CleanEnd'
  BY <1>1 DEF CleanEnd
<1> QED BY <1>4, <1>10, <1>11 DEF Outputs

LEMMA ClosedOutputs ==
  ASSUME EInv, ClientClosed
  PROVE  Outputs'
<1>1. /\ down # <<>> /\ Head(down).kind \in {"normal", "error"}
      /\ down' = Tail(down) /\ ws' = "gone"
      /\ client' = "ok" => Head(down).kind = "normal"
      /\ UNCHANGED <<got, taken, made, handler, cmd>>
  BY DEF ClientClosed, commandVars
<1>2. TypeOK /\ OutputInOrder
  BY DEF EInv
<1>3. down' = <<>>
  BY <1>1, CloseIsAlone
<1>4. DOMAIN down' = {}
  BY <1>3
<1>5. CloseComesLast' /\ ~Said("normal")'
  BY <1>4 DEF CloseComesLast, Said
<1>6. ASSUME NEW s \in Streams
      PROVE  /\ taken'[s] <= made'[s]
             /\ \E h \in Session!Shown(s)'..taken'[s] :
                  /\ Numbered(down', s, Session!Shown(s)', h)
                  /\ ws' = "open" \/ Said("normal")' => h = taken'[s]
  <2>1. Session!Shown(s)' = Session!Shown(s) /\ Session!Shown(s) \in Nat
    BY <1>1, <1>2, ShownKept, OutputTyped
  <2>2. Session!Shown(s) <= taken[s] /\ taken[s] <= made[s] /\ taken[s] \in Nat
    BY <1>2, <2>1, Reach, OutputTyped
  <2>3. Numbered(down', s, Session!Shown(s), Session!Shown(s))
    BY <1>4, <2>1, NumberedNone
  <2>4. Session!Shown(s)' \in Session!Shown(s)'..taken'[s]
    BY <1>1, <2>1, <2>2
  <2> QED BY <1>1, <1>5, <2>1, <2>2, <2>3, <2>4
<1>7. OutputInOrder'
  BY <1>6 DEF OutputInOrder
<1>8. CleanEnd'
  <2>1. ASSUME client' = "ok"
        PROVE  /\ ws' = "gone" /\ handler' = "done" /\ cmd' = "ok"
               /\ \A s \in Streams : Session!Shown(s)' = made'[s]
    <3>1. handler = "done" /\ cmd = "ok"
          /\ \A s \in Streams : Session!Shown(s) = made[s]
      BY <1>1, <2>1, CloseIsAlone
    <3> QED BY <1>1, <3>1, ShownKept
  <2> QED BY <2>1 DEF CleanEnd
<1> QED BY <1>5, <1>7, <1>8 DEF Outputs

LEMMA CopyOutOutputs ==
  ASSUME EInv, NEW w \in Streams, CopyOut(w)
  PROVE  Outputs'
<1> DEFINE f == Frame(w, taken[w] + 1)
<1>1. /\ handler = "stream" /\ taken[w] < made[w]
      /\ taken' = [taken EXCEPT ![w] = @ + 1]
      /\ \/ ws = "open" /\ down' = Append(down, f)
         \/ ws = "gone" /\ UNCHANGED down
      /\ UNCHANGED <<ws, client, got, made, handler, cmd>>
  BY DEF CopyOut, clientVars, commandVars
<1>2. TypeOK /\ CloseComesLast /\ OutputInOrder /\ CleanEnd
  BY DEF EInv
<1>3. /\ f \in DownFrame
      /\ f.kind = w /\ f.n = taken[w] + 1
  BY <1>2, OutputTyped DEF Frame, DownFrame
<1>4. taken'[w] = taken[w] + 1 /\ \A s \in Streams : s # w => taken'[s] = taken[s]
  BY <1>1, <1>2 DEF TypeOK
<1>5. \A i \in DOMAIN down : down[i].kind \notin {"normal", "error"}
  BY <1>1, <1>2 DEF CloseComesLast
<1>6. \A i \in DOMAIN down' : down'[i] = f \/ \E j \in DOMAIN down : down'[i] = down[j]
  <2>1. CASE down' = Append(down, f)
    <3>1. /\ DOMAIN down' = 1..(Len(down) + 1) /\ DOMAIN down = 1..Len(down)
          /\ \A i \in DOMAIN down : down'[i] = down[i]
          /\ down'[Len(down) + 1] = f
      BY <1>2, <1>3, <2>1, AppendAt, OutputTyped
    <3> QED BY <1>2, <3>1, OutputTyped
  <2>2. CASE UNCHANGED down
    BY <2>2
  <2> QED BY <1>1, <2>1, <2>2
<1>7. \A i \in DOMAIN down' : down'[i].kind \notin {"normal", "error"}
  BY <1>2, <1>3, <1>5, <1>6, OutputTyped
<1>8. CloseComesLast' /\ ~Said("normal")'
  BY <1>7 DEF CloseComesLast, Said
<1>9. ASSUME NEW s \in Streams
      PROVE  /\ taken'[s] <= made'[s]
             /\ \E h \in Session!Shown(s)'..taken'[s] :
                  /\ Numbered(down', s, Session!Shown(s)', h)
                  /\ ws' = "open" \/ Said("normal")' => h = taken'[s]
  <2>1. PICK h \in Nat :
              /\ Session!Shown(s) <= h /\ h <= taken[s]
              /\ Numbered(down, s, Session!Shown(s), h)
              /\ ws = "open" \/ Said("normal") => h = taken[s]
    BY <1>2, Reach
  <2>2. /\ Session!Shown(s) \in Nat /\ taken[s] \in Nat /\ made[s] \in Nat
        /\ Session!Shown(s)' = Session!Shown(s) /\ taken[s] <= made[s]
    BY <1>1, <1>2, ShownKept, OutputTyped, Reach
  <2>3. taken'[s] <= made'[s] /\ taken[s] <= taken'[s] /\ taken'[s] \in Nat
    BY <1>1, <1>4, <2>2
  <2>4. CASE ws = "open"
    <3>1. down' = Append(down, f) /\ h = taken[s]
      BY <1>1, <2>1, <2>4
    <3>2. Numbered(down', s, Session!Shown(s), taken'[s])
      <4>1. CASE s = w
        BY <1>2, <1>3, <1>4, <2>1, <2>2, <3>1, <4>1, NumberedAppend, OutputTyped
      <4>2. CASE s # w
        BY <1>2, <1>3, <1>4, <2>1, <2>2, <3>1, <4>2, NumberedAppend, OutputTyped
      <4> QED BY <4>1, <4>2
    <3>3. taken'[s] \in Session!Shown(s)'..taken'[s]
      BY <2>1, <2>2, <2>3
    <3> QED BY <2>2, <2>3, <3>2, <3>3
  <2>5. CASE ws = "gone"
    <3>1. Numbered(down', s, Session!Shown(s)', h)
      BY <1>1, <2>1, <2>2, <2>5
    <3>2. h \in Session!Shown(s)'..taken'[s]
      BY <2>1, <2>2, <2>3
    <3>3. ws' # "open"
      BY <1>1, <2>5
    <3> QED BY <1>8, <2>3, <3>1, <3>2, <3>3
  <2> QED BY <1>1, <2>4, <2>5
<1>10. OutputInOrder'
  BY <1>9 DEF OutputInOrder
<1>11. CleanEnd'
  BY <1>1, <1>2 DEF CleanEnd
<1> QED BY <1>8, <1>10, <1>11 DEF Outputs

LEMMA HandlerClosesOutputs ==
  ASSUME EInv, HandlerCloses
  PROVE  Outputs'
<1> DEFINE f == Frame(IF cmd = "ok" THEN "normal" ELSE "error", 0)
<1>1. /\ handler = "stream" /\ handler' = "done"
      /\ taken = made \/ cmd = "lost"
      /\ \/ ws = "open" /\ down' = Append(down, f)
         \/ ws = "gone" /\ UNCHANGED down
      /\ UNCHANGED <<ws, client, got, made, taken, cmd>>
  BY DEF HandlerCloses, clientVars, commandVars
<1>2. TypeOK /\ CloseComesLast /\ OutputInOrder /\ CleanEnd
  BY DEF EInv
<1>3. /\ f \in DownFrame
      /\ f.kind \in {"normal", "error"} /\ (f.kind = "normal" => cmd = "ok")
  BY DEF Frame, DownFrame
<1>4. \A i \in DOMAIN down : down[i].kind \notin {"normal", "error"}
  BY <1>1, <1>2 DEF CloseComesLast
<1>5. CleanEnd'
  BY <1>1, <1>2 DEF CleanEnd
<1>6. CASE ws = "gone" /\ UNCHANGED down
  <2>1. CloseComesLast' /\ ~Said("normal") /\ ~Said("normal")'
    BY <1>4, <1>6 DEF CloseComesLast, Said
  <2>2. ASSUME NEW s \in Streams
        PROVE  /\ taken'[s] <= made'[s]
               /\ \E h \in Session!Shown(s)'..taken'[s] :
                    /\ Numbered(down', s, Session!Shown(s)', h)
                    /\ ws' = "open" \/ Said("normal")' => h = taken'[s]
    <3>1. PICK h \in Nat :
                /\ Session!Shown(s) <= h /\ h <= taken[s]
                /\ Numbered(down, s, Session!Shown(s), h)
                /\ ws = "open" \/ Said("normal") => h = taken[s]
      BY <1>2, Reach
    <3>2. /\ Session!Shown(s) \in Nat /\ taken[s] \in Nat
          /\ Session!Shown(s)' = Session!Shown(s) /\ taken[s] <= made[s]
      BY <1>1, <1>2, ShownKept, OutputTyped, Reach
    <3>3. h \in Session!Shown(s)'..taken'[s]
      BY <1>1, <3>1, <3>2
    <3>4. Numbered(down', s, Session!Shown(s)', h)
      BY <1>6, <3>1, <3>2
    <3> QED BY <1>1, <1>6, <2>1, <3>2, <3>3, <3>4
  <2>3. OutputInOrder'
    BY <2>2 DEF OutputInOrder
  <2> QED BY <1>5, <2>1, <2>3 DEF Outputs
<1>7. CASE ws = "open" /\ down' = Append(down, f)
  <2>1. /\ Len(down) \in Nat /\ Len(down') = Len(down) + 1
        /\ DOMAIN down' = 1..(Len(down) + 1) /\ DOMAIN down = 1..Len(down)
        /\ \A i \in DOMAIN down : down'[i] = down[i]
        /\ down'[Len(down) + 1] = f
    BY <1>2, <1>3, <1>7, AppendAt, OutputTyped
  <2>2. ASSUME NEW i \in DOMAIN down', down'[i].kind \in {"normal", "error"}
        PROVE  /\ i = Len(down') /\ down'[i] = f
    BY <1>4, <2>1, <2>2
  <2>3. CloseComesLast'
    BY <1>1, <1>3, <2>2 DEF CloseComesLast
  <2>4. ASSUME NEW s \in Streams
        PROVE  /\ taken'[s] <= made'[s]
               /\ \E h \in Session!Shown(s)'..taken'[s] :
                    /\ Numbered(down', s, Session!Shown(s)', h)
                    /\ ws' = "open" \/ Said("normal")' => h = taken'[s]
    <3>1. /\ Session!Shown(s) \in Nat /\ taken[s] \in Nat
          /\ Session!Shown(s)' = Session!Shown(s) /\ taken[s] <= made[s]
      BY <1>1, <1>2, ShownKept, OutputTyped, Reach
    <3>2. Session!Shown(s) <= taken[s] /\ Numbered(down, s, Session!Shown(s), taken[s])
      BY <1>2, <1>7, Reach
    <3>3. f.kind # s
      BY <1>2, <1>3, OutputTyped
    <3>4. Numbered(down', s, Session!Shown(s), taken[s])
      BY <1>2, <1>3, <1>7, <3>1, <3>2, <3>3, NumberedAppend, OutputTyped
    <3>5. taken'[s] \in Session!Shown(s)'..taken'[s]
      BY <1>1, <3>1, <3>2
    <3> QED BY <1>1, <3>1, <3>4, <3>5
  <2>5. OutputInOrder'
    BY <2>4 DEF OutputInOrder
  <2> QED BY <1>5, <2>3, <2>5 DEF Outputs
<1> QED BY <1>1, <1>6, <1>7

LEMMA OutputsNext ==
  ASSUME EInv, [Next]_vars
  PROVE  Outputs'
<1>1. TypeOK /\ Outputs
  BY DEF EInv, Outputs
<1>2. CASE \/ ClientSend \/ ClientEof \/ ClientResize \/ ClientFails \/ Break
           \/ Pump \/ CopyStdin \/ ForwardSize
           \/ CommandReads \/ CommandReadsEof \/ UNCHANGED vars
  <2>1. /\ UNCHANGED <<down, got, taken, handler, cmd, made>>
        /\ ws' = ws \/ ws' = "gone"
        /\ client' = client \/ client' = "failed"
    BY <1>2 DEF ClientSend, ClientEof, ClientResize, ClientFails, Break, Pump,
       PumpData, PumpEof, PumpSize, PumpEnds, CopyStdin, PipeRead, CopyIn,
       CopyEof, CopyFails, ForwardSize, CommandReads, CommandReadsEof, vars,
       clientVars, commandVars
  <2> QED BY <1>1, <2>1, OutputsKept, OutputTyped
<1>3. CASE StreamBreaks \/ CommandExits \/ \E s \in Streams : CommandWrites(s)
  <2>1. /\ UNCHANGED <<down, got, taken, handler, ws, client>>
        /\ handler = "stream" \/ cmd = "running"
    BY <1>3 DEF StreamBreaks, CommandExits, CommandWrites, clientVars
  <2>2. ~Said("normal") /\ client # "ok"
    BY <1>1, <2>1 DEF Outputs, CloseComesLast, CleanEnd, Said
  <2>3. ASSUME NEW s \in Streams
        PROVE  made'[s] \in Nat /\ made[s] <= made'[s]
    <3>1. CASE UNCHANGED made
      BY <1>1, <3>1, OutputTyped
    <3>2. ASSUME NEW u \in Streams, CommandWrites(u)
          PROVE  made'[s] \in Nat /\ made[s] <= made'[s]
      <4>1. made[s] \in Nat /\ made \in [Streams -> 0..MaxOut]
        BY <1>1, OutputTyped DEF TypeOK
      <4>2. made'[s] = made[s] \/ made'[s] = made[s] + 1
        BY <3>2, <4>1 DEF CommandWrites
      <4> QED BY <4>1, <4>2
    <3> QED BY <1>3, <3>1, <3>2 DEF StreamBreaks, CommandExits
  <2> QED BY <1>1, <2>1, <2>2, <2>3, OutputsKept
<1> QED
  BY <1>2, <1>3, ShowOutputs, ClosedOutputs, CopyOutOutputs, HandlerClosesOutputs
  DEF Next, Client, Command, Over

(* --------------------------- The invariant ------------------------------ *)

\* Input and output keep their order and their ends on the way through the
\* buffers: the invariant of every step of the bridge.
THEOREM ExecInvariant == Spec => []EInv
<1>1. EInv /\ [Next]_vars => EInv'
  <2> SUFFICES ASSUME EInv, [Next]_vars PROVE EInv'
    OBVIOUS
  <2>1. TypeOK /\ Inputs
    BY DEF EInv, Inputs
  <2>2. TypeOK' /\ Inputs' /\ Outputs'
    BY <2>1, TypeNext, InputsNext, OutputsNext
  <2> QED BY <2>2 DEF EInv, Inputs, Outputs
<1> QED BY EInvInit, <1>1, PTL DEF Spec

\* "boxly exec" ends with success only if the command did, and only after it has
\* shown all that the command wrote.
THEOREM SuccessIsComplete ==
  Spec => [](client = "ok" =>
               cmd = "ok" /\ \A s \in Streams : Session!Shown(s) = made[s])
<1>1. EInv => (client = "ok" =>
                 cmd = "ok" /\ \A s \in Streams : Session!Shown(s) = made[s])
  BY DEF EInv, CleanEnd
<1> QED BY ExecInvariant, <1>1, PTL

(* --------------------------- The refinement ----------------------------- *)

\* What a user sees of a step: nothing, or the end.
Unseen == UNCHANGED <<typed, cin, read, eof, made, got>>

\* A step that changes nothing of the session.
LEMMA StepUnseen ==
  ASSUME Unseen, UNCHANGED <<client, ws, handler>>
  PROVE  UNCHANGED Session!sessionVars
  BY DEF Unseen, Session!sessionVars

\* A step that breaks the session, or does so when it is already cut.
LEMMA StepCuts ==
  ASSUME TypeOK, Unseen, client # "ok", client' # "ok",
         ws' = "gone" \/ handler' = "done"
  PROVE  Session!Cut \/ UNCHANGED Session!sessionVars
  BY DEF TypeOK, Unseen, Session!Cut, Session!sessionVars

LEMMA SessionInit == Init => Session!Init
  BY DEF Init, Session!Init

LEMMA ClientSteps ==
  ASSUME EInv, Client
  PROVE  Session!Next \/ UNCHANGED Session!sessionVars
<1>1. TypeOK
  BY DEF EInv
<1>2. CASE ClientSend
  <2>1. Session!Type
    BY <1>2 DEF ClientSend, commandVars, SendUp, Session!Type
  <2> QED BY <2>1 DEF Session!Next
<1>3. CASE ClientEof
  <2>1. Session!CloseInput
    BY <1>3 DEF ClientEof, commandVars, SendUp, Session!CloseInput
  <2> QED BY <2>1 DEF Session!Next
<1>4. CASE ClientResize
  BY <1>4, StepUnseen DEF ClientResize, Unseen, commandVars, SendUp
<1>5. CASE ClientShow
  <2>1. /\ client = "run" /\ down # <<>> /\ Head(down).kind \in Streams
        /\ got' = Append(got, <<Head(down).kind, Head(down).n>>)
        /\ UNCHANGED <<ws, cin, client, typed, read, eof, made, handler>>
    BY <1>5 DEF ClientShow, commandVars
  <2>2. PICK s \in Streams : s = Head(down).kind
    BY <2>1
  <2>3. /\ Head(down).n = Session!Shown(s) + 1
        /\ Session!Shown(s) < made[s]
    BY <1>1, <2>1, <2>2, HeadIsNext, OutputTyped
  <2>4. Session!Show(s)
    BY <2>1, <2>2, <2>3 DEF Session!Show
  <2> QED BY <2>4 DEF Session!Next
<1>6. CASE ClientClosed
  <2>1. /\ client = "run" /\ down # <<>>
        /\ Head(down).kind \in {"normal", "error"} /\ ws' = "gone"
        /\ client' = "ok" => Head(down).kind = "normal"
        /\ Unseen
    BY <1>6 DEF ClientClosed, Unseen, commandVars
  <2>2. CASE client' = "ok"
    <3>1. \A s \in Streams : Session!Shown(s) = made[s]
      BY <2>1, <2>2, CloseIsAlone
    <3>2. Session!EndCleanly
      BY <2>1, <2>2, <3>1 DEF Session!EndCleanly, Unseen
    <3> QED BY <3>2 DEF Session!Next
  <2>3. CASE client' # "ok"
    BY <1>1, <2>1, <2>3, StepCuts DEF Session!Next
  <2> QED BY <2>2, <2>3
<1>7. CASE ClientFails
  BY <1>1, <1>7, StepCuts DEF ClientFails, Unseen, commandVars, Session!Next
<1> QED BY <1>2, <1>3, <1>4, <1>5, <1>6, <1>7 DEF Client

LEMMA CommandSteps ==
  ASSUME EInv, Command
  PROVE  Session!Next \/ UNCHANGED Session!sessionVars
<1>1. TypeOK /\ InputInOrder /\ EndInOrder
  BY DEF EInv
<1>2. CASE CommandReads
  <2>1. /\ input.chunks # <<>> /\ read' = Append(read, Head(input.chunks))
        /\ UNCHANGED <<ws, cin, client, typed, got, eof, made, handler>>
    BY <1>2 DEF CommandReads, clientVars
  <2>2. Head(input.chunks) = Len(read) + 1 /\ Len(read) < typed
    BY <1>1, <2>1, NextToRead, InputTyped
  <2>3. ~eof
    BY <1>1, <2>1 DEF EndInOrder
  <2>4. Session!Read
    BY <2>1, <2>2, <2>3 DEF Session!Read
  <2> QED BY <2>4 DEF Session!Next
<1>3. CASE CommandReadsEof
  <2>1. /\ input.chunks = <<>> /\ input.end /\ eof' = TRUE
        /\ UNCHANGED <<ws, cin, client, typed, got, read, made, handler>>
    BY <1>3 DEF CommandReadsEof, clientVars
  <2>2. ToCommand = Len(read)
    BY <1>1, <2>1, InputTyped, EmptySeq DEF ToCommand
  <2>3. Open => cin = "eof" /\ Len(read) = typed
    BY <1>1, <2>1, <2>2 DEF EndInOrder
  <2>4. Open \/ ws = "gone" \/ handler = "done"
    BY <1>1 DEF Open, TypeOK
  <2>5. Session!SeeEof
    BY <2>1, <2>3, <2>4 DEF Session!SeeEof
  <2> QED BY <2>5 DEF Session!Next
<1>4. CASE CommandExits
  BY <1>4, StepUnseen DEF CommandExits, Unseen, clientVars
<1>5. ASSUME NEW s \in Streams, CommandWrites(s)
      PROVE  Session!Next
  <2>1. Session!Write(s)
    BY <1>5 DEF CommandWrites, clientVars, Session!Write
  <2> QED BY <2>1 DEF Session!Next
<1> QED BY <1>2, <1>3, <1>4, <1>5 DEF Command

\* Each step of the bridge is one step of the session, or none.
LEMMA SessionNext ==
  ASSUME EInv, [Next]_vars
  PROVE  [Session!Next]_(Session!sessionVars)
<1>1. TypeOK /\ (client = "ok" => ws = "gone")
  BY DEF EInv, CleanEnd
<1>2. CASE \/ Pump \/ CopyStdin \/ ForwardSize \/ StreamBreaks
           \/ UNCHANGED vars \/ \E s \in Streams : CopyOut(s)
  <2>1. Unseen /\ UNCHANGED <<client, ws, handler>>
    BY <1>2 DEF Pump, PumpData, PumpEof, PumpSize, PumpEnds, CopyStdin,
       PipeRead, CopyIn, CopyEof, CopyFails, CopyOut, ForwardSize,
       StreamBreaks, vars, clientVars, commandVars, Unseen
  <2> QED BY <2>1, StepUnseen
<1>3. CASE Break
  BY <1>1, <1>3, StepCuts DEF Break, clientVars, commandVars, Unseen, Session!Next
<1>4. CASE HandlerCloses
  <2>1. Unseen /\ handler' = "done" /\ UNCHANGED <<client, ws>>
    BY <1>4 DEF HandlerCloses, clientVars, commandVars, Unseen
  <2>2. CASE client = "ok"
    BY <2>1, <2>2 DEF Unseen, Session!sessionVars
  <2>3. CASE client # "ok"
    BY <1>1, <2>1, <2>3, StepCuts DEF Session!Next
  <2> QED BY <2>2, <2>3
<1> QED BY <1>2, <1>3, <1>4, ClientSteps, CommandSteps DEF Next, Over

\* handleExec, its stream and the client together keep the promise of an
\* ExecSession: what is typed and written arrives once and in order, the
\* command sees the end of its input only behind all of it as long as nothing
\* is cut, and a session ends cleanly only when all output was shown.
THEOREM SessionIsFaithfulHolds == Spec => SessionIsFaithful
<1>1. EInv /\ [Next]_vars => [Session!Next]_(Session!sessionVars)
  BY SessionNext
<1> QED
  BY SessionInit, ExecInvariant, <1>1, PTL DEF Spec, SessionIsFaithful, Session!Spec

=============================================================================
