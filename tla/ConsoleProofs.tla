--------------------------- MODULE ConsoleProofs ---------------------------
(***************************************************************************)
(* Proofs about the console, for every FIFO size, every bound on received  *)
(* bytes and every bound on task switches.  The properties speak of        *)
(* Echoed(received) and SentBy(who, line), both concatenations computed by *)
(* recursion over a sequence (Flatten), so the module first establishes    *)
(* what Flatten does, by induction over the prefixes of its argument: its  *)
(* recursive function exists, is unique, and one more sequence adds its    *)
(* own elements at the end.  The inductive invariant ConsoleInv then says  *)
(* how far serial::init has come, which byte the echo task holds, that     *)
(* what was written, what is held and what is queued are together the echo *)
(* of what was received, and which byte of a log line comes next.          *)
(***************************************************************************)
EXTENDS Console, TLAPS, WellFoundedInduction

\* What a byte on the wire can be, and who put it there.
Char == Input \cup {"msg", "cr", "lf"}
Entry == [from : {"log", "kmain", "echo"}, byte : Char]

ConsoleTypeOK ==
  /\ line \in Seq(Entry) /\ tx \in Seq(Entry)
  /\ rx \in Seq(Input) /\ received \in Seq(Input)
  /\ at \in {"init", "start", "kmain", "log", "getc", "putc", "echo", "other"}
  /\ next \in {"start", "echo", "other"}
  /\ pc \in {"getc", "test", "putc", "cr_test", "newline"}

\* Before write k of serial::init: DLAB, IER and the divisor as the writes
\* before have left them, and nothing on the way out.
InitProgress ==
  /\ \E k \in 1..6 : /\ writes = SubSeq(InitWrites, k, 6)
                     /\ (DLAB <=> k \in {3, 4, 5})
                     /\ divisor = IF k <= 3 THEN <<0, 0>> ELSE <<1, 0>>
                     /\ k > 1 => IER = 0
  /\ tx = <<>> /\ line = <<>> /\ received = <<>> /\ pc = "getc"

UartInv ==
  /\ at = "init" => InitProgress
  /\ at # "init" => ~DLAB /\ fifo_on /\ divisor = <<1, 0>> /\ IER = 0
  /\ SentBy("init", line) = <<>>

\* The echo task writes only bytes it has read.
EchoTaskInv ==
  /\ at = "getc" => pc = "getc"
  /\ at = "putc" => pc \in {"putc", "newline"}
  /\ pc = "test" => byte \in Input \cup {"ff"}
  /\ pc \in {"putc", "cr_test"} => byte \in Input \ {"ff"}

\* What the echo task still has to write for the byte it holds.
Held ==
  CASE pc \in {"test", "putc"} -> EchoOf(byte)
    [] pc = "cr_test" -> IF byte = "cr" THEN <<"lf">> ELSE <<>>
    [] pc = "newline" -> <<"lf">>
    [] pc = "getc" -> <<>>

\* The bytes sent and those in the transmit FIFO, in order.
Wire == line \o tx

\* What has been written, what is held and what is queued is the echo of
\* what was received.
EchoInv ==
  at # "init" => (SentBy("echo", Wire) \o Held) \o Echoed(rx) = Echoed(received)

\* What puts sends for a line about a task switch.
Line == <<"msg", "cr", "lf">>

\* A line has been begun and not ended, and its byte before the rest `todo`.
InLine == at \in {"log", "kmain"} /\ todo \in {<<"cr", "lf">>, <<"lf">>}
Previous == Byte(at, IF todo = <<"lf">> THEN "cr" ELSE "msg")

\* A byte that ends no line: the rest of the line is to follow.
Open(e) == e.from \in {"log", "kmain"} /\ e.byte # "lf"

\* MIE is clear while a handler prints; before the rest of a line stands what it
\* is the rest of, and a line that is not ended is being printed, unless it was
\* kmain's and the first tick has come.
LogInv ==
  /\ MIE <=> at \in {"kmain", "echo", "other"}
  /\ at = "log" => todo \in {Line, <<"cr", "lf">>, <<"lf">>}
  /\ at = "kmain" => todo \in {Line, <<"cr", "lf">>, <<"lf">>, <<>>}
  /\ \A i \in 1..(Len(Wire) - 1) : Adjacent(Wire[i], Wire[i + 1])
  /\ InLine => Len(Wire) > 0 /\ Wire[Len(Wire)] = Previous
  /\ Len(Wire) > 0 /\ Open(Wire[Len(Wire)]) =>
       \/ InLine
       \/ at = "log" /\ todo = Line /\ Wire[Len(Wire)].from = "kmain"

ConsoleInv == ConsoleTypeOK /\ UartInv /\ EchoTaskInv /\ EchoInv /\ LogInv
-----------------------------------------------------------------------------
(* Sequences *)

\* Induction over the prefixes of a sequence, for a set of lengths: one that
\* holds 0 and with n - 1 also n holds them all.
LEMMA PrefixInduction ==
  ASSUME NEW k \in Nat, NEW G, 0 \in G,
         \A n \in 1..k : n - 1 \in G => n \in G
  PROVE  k \in G
<1> DEFINE T == {n \in Nat : n <= k /\ n \notin G}
<1>1. ASSUME T # {} PROVE FALSE
  <2>1. T \subseteq Nat
    OBVIOUS
  <2>2. PICK n \in T : \A m \in T : <<m, n>> \notin OpToRel(<, Nat)
    <3> HIDE DEF T
    <3>1. QED
      BY <1>1, <2>1, NatLessThanWellFounded, WFMin
  <2>3. n \in Nat /\ n <= k /\ n \notin G /\ n # 0
    OBVIOUS
  <2>4. <<n - 1, n>> \in OpToRel(<, Nat)
    BY <2>3 DEF OpToRel
  <2>5. n - 1 \notin T
    BY <2>2, <2>4
  <2>6. QED
    BY <2>3, <2>5
<1>2. QED
  BY <1>1

\* A function on 1..n is a sequence of length n.
LEMMA SeqFunction ==
  ASSUME NEW Q, NEW n \in Nat, NEW s \in [1..n -> Q]
  PROVE  s \in Seq(Q) /\ Len(s) = n
  OBVIOUS

\* Moving the head of t to the end of s leaves their concatenation alone.
LEMMA SeqMoves ==
  ASSUME NEW Q, NEW s \in Seq(Q), NEW t \in Seq(Q), t # <<>>
  PROVE  /\ Append(s, Head(t)) \o Tail(t) = s \o t
         /\ Head(t) \in Q /\ Tail(t) \in Seq(Q) /\ Append(s, Head(t)) \in Seq(Q)
  OBVIOUS

\* Append adds one element, at the end.
LEMMA SeqAppend ==
  ASSUME NEW Q, NEW s \in Seq(Q), NEW x \in Q
  PROVE  /\ Append(s, x) \in Seq(Q) /\ Len(Append(s, x)) = Len(s) + 1
         /\ \A i \in 1..Len(s) : Append(s, x)[i] = s[i]
         /\ Append(s, x)[Len(s) + 1] = x
  OBVIOUS

-----------------------------------------------------------------------------
(* Flatten *)

\* f is the recursive function in Flatten, on the first n sequences of ss.
IsFlatten(f, ss, n) == f[0] = <<>> /\ \A i \in 1..n : f[i] = f[i - 1] \o ss[i]

\* A set of sequences closed under concatenation, such as Seq(S).
Closed(Q) == <<>> \in Q /\ \A x, y \in Q : x \o y \in Q

\* The lengths of prefixes on which its equation has a solution.
Solvable(ss, Q) == {n \in Nat : \E f \in [0..n -> Q] : IsFlatten(f, ss, n)}

\* The equation has a solution on every prefix, so on the whole sequence.
LEMMA FlattenExists ==
  ASSUME NEW Q, Closed(Q), NEW ss \in Seq(Q)
  PROVE  \E f \in [0..Len(ss) -> Q] : IsFlatten(f, ss, Len(ss))
<1>1. 0 \in Solvable(ss, Q)
  <2>1. PICK e \in Q : e = <<>>
    BY DEF Closed
  <2>2. [i \in 0..0 |-> e] \in [0..0 -> Q]
    OBVIOUS
  <2>3. IsFlatten([i \in 0..0 |-> e], ss, 0)
    BY <2>1 DEF IsFlatten
  <2>4. QED
    BY <2>2, <2>3 DEF Solvable
<1>2. ASSUME NEW n \in 1..Len(ss), n - 1 \in Solvable(ss, Q)
      PROVE  n \in Solvable(ss, Q)
  <2>1. PICK g \in [0..(n - 1) -> Q] : IsFlatten(g, ss, n - 1)
    BY <1>2 DEF Solvable
  <2>2. ss[n] \in Q /\ g[n - 1] \in Q
    BY <1>2, <2>1
  <2>3. PICK y \in Q : y = g[n - 1] \o ss[n]
    BY <2>2 DEF Closed
  <2> DEFINE h == [i \in 0..n |-> IF i < n THEN g[i] ELSE y]
  <2>4. h[n] = y /\ \A i \in 0..(n - 1) : h[i] = g[i]
    BY <1>2
  <2>5. h \in [0..n -> Q]
    BY <1>2, <2>1, <2>3
  <2> HIDE DEF h
  <2>6. h[0] = <<>>
    <3>1. 0 \in 0..(n - 1) /\ g[0] = <<>>
      BY <1>2, <2>1 DEF IsFlatten
    <3>2. QED
      BY <2>4, <3>1, Zenon
  <2>7. ASSUME NEW i \in 1..n PROVE h[i] = h[i - 1] \o ss[i]
    <3>1. CASE i = n
      <4>1. h[n - 1] = g[n - 1]
        BY <1>2, <2>4
      <4>2. QED
        BY <2>3, <2>4, <3>1, <4>1, Zenon
    <3>2. CASE i # n
      <4>1. i \in 1..(n - 1) /\ h[i] = g[i] /\ h[i - 1] = g[i - 1]
        BY <1>2, <2>4, <3>2
      <4>2. g[i] = g[i - 1] \o ss[i]
        BY <2>1, <4>1 DEF IsFlatten
      <4>3. QED
        BY <4>1, <4>2
    <3>3. QED
      BY <3>1, <3>2
  <2>8. IsFlatten(h, ss, n)
    BY <2>6, <2>7, Zenon DEF IsFlatten
  <2>9. QED
    BY <1>2, <2>5, <2>8 DEF Solvable
<1>3. Len(ss) \in Solvable(ss, Q)
  BY <1>1, <1>2, PrefixInduction
<1>4. QED
  BY <1>3 DEF Solvable

\* Its solutions agree on a common prefix.
LEMMA FlattenAgree ==
  ASSUME NEW k \in Nat, NEW ss, NEW f, NEW g, IsFlatten(f, ss, k), IsFlatten(g, ss, k)
  PROVE  f[k] = g[k]
<1> DEFINE G == {n \in Nat : n <= k => f[n] = g[n]}
<1>1. 0 \in G
  BY DEF IsFlatten
<1>2. ASSUME NEW n \in 1..k, n - 1 \in G PROVE n \in G
  <2>1. n - 1 \in Nat /\ n - 1 <= k /\ n \in Nat
    OBVIOUS
  <2>2. f[n - 1] = g[n - 1]
    BY <1>2, <2>1
  <2>3. f[n] = f[n - 1] \o ss[n] /\ g[n] = g[n - 1] \o ss[n]
    BY <1>2, Zenon DEF IsFlatten
  <2>4. QED
    BY <2>1, <2>2, <2>3, Zenon
<1> HIDE DEF G
<1>3. k \in G
  BY <1>1, <1>2, PrefixInduction
<1>4. QED
  BY <1>3 DEF G

\* Flatten is the last value of a solution.
LEMMA FlattenIs ==
  ASSUME NEW Q, Closed(Q), NEW ss \in Seq(Q)
  PROVE  \E f \in [0..Len(ss) -> Q] :
           IsFlatten(f, ss, Len(ss)) /\ Flatten(ss) = f[Len(ss)]
<1> DEFINE Equation(f) ==
      f = [i \in 0..Len(ss) |-> IF i = 0 THEN <<>> ELSE f[i - 1] \o ss[i]]
<1>1. Flatten(ss) = (CHOOSE f : Equation(f))[Len(ss)]
  BY DEF Flatten
<1>2. PICK f \in [0..Len(ss) -> Q] : IsFlatten(f, ss, Len(ss))
  BY FlattenExists
<1>3. Equation(f)
  BY <1>2 DEF IsFlatten
<1>4. PICK c : c = (CHOOSE g : Equation(g)) /\ Equation(c)
  <2> HIDE DEF Equation
  <2>1. QED
    BY <1>3, Zenon
<1>5. IsFlatten(c, ss, Len(ss))
  <2>1. \A i \in 0..Len(ss) : c[i] = IF i = 0 THEN <<>> ELSE c[i - 1] \o ss[i]
    BY <1>4, Zenon
  <2>2. 0 \in 0..Len(ss) /\ \A i \in 1..Len(ss) : i \in 0..Len(ss) /\ i # 0
    OBVIOUS
  <2>3. QED
    BY <2>1, <2>2, Zenon DEF IsFlatten
<1>6. c[Len(ss)] = f[Len(ss)]
  BY <1>2, <1>5, FlattenAgree
<1>7. QED
  BY <1>1, <1>2, <1>4, <1>6

\* No sequence at all.
LEMMA FlattenEmpty ==
  ASSUME NEW Q, Closed(Q), NEW ss \in Seq(Q), Len(ss) = 0 PROVE Flatten(ss) = <<>>
<1>1. PICK f : IsFlatten(f, ss, Len(ss)) /\ Flatten(ss) = f[Len(ss)]
  BY FlattenIs, Zenon
<1>2. QED
  BY <1>1 DEF IsFlatten

\* The last sequence is put behind the others.
LEMMA FlattenSnoc ==
  ASSUME NEW Q, Closed(Q), NEW ss \in Seq(Q), NEW tt \in Seq(Q),
         Len(tt) = Len(ss) + 1, \A i \in 1..Len(ss) : ss[i] = tt[i]
  PROVE  Flatten(tt) = Flatten(ss) \o tt[Len(tt)]
<1>1. PICK g : IsFlatten(g, tt, Len(tt)) /\ Flatten(tt) = g[Len(tt)]
  BY FlattenIs, Zenon
<1>2. PICK f : IsFlatten(f, ss, Len(ss)) /\ Flatten(ss) = f[Len(ss)]
  BY FlattenIs, Zenon
<1>3. Len(ss) \in Nat /\ Len(tt) \in 1..Len(tt) /\ Len(tt) - 1 = Len(ss)
  OBVIOUS
<1>4. g[Len(tt)] = g[Len(ss)] \o tt[Len(tt)]
  BY <1>1, <1>3, Zenon DEF IsFlatten
<1>5. IsFlatten(g, ss, Len(ss))
  <2>1. \A i \in 1..Len(ss) : i \in 1..Len(tt)
    BY <1>3
  <2>2. QED
    BY <1>1, <2>1, Zenon DEF IsFlatten
<1>6. f[Len(ss)] = g[Len(ss)]
  BY <1>2, <1>3, <1>5, FlattenAgree
<1>7. QED
  BY <1>1, <1>2, <1>4, <1>6

\* The concatenation stays in the set.
LEMMA FlattenType ==
  ASSUME NEW Q, Closed(Q), NEW ss \in Seq(Q) PROVE Flatten(ss) \in Q
<1>1. PICK f \in [0..Len(ss) -> Q] : Flatten(ss) = f[Len(ss)]
  BY FlattenIs
<1>2. QED
  BY <1>1
-----------------------------------------------------------------------------
(* What was sent, and what is to be echoed *)

\* The sequences over a set are closed under concatenation.
LEMMA CharsClosed ==
  ASSUME NEW S PROVE Closed(Seq(S)) /\ \A x \in Seq(S) : <<>> \o x = x
  BY DEF Closed

\* FlattenSnoc for sequences of sequences over a set.
LEMMA FlattenLast ==
  ASSUME NEW S, NEW ss \in Seq(Seq(S)), NEW tt \in Seq(Seq(S)),
         Len(tt) = Len(ss) + 1, \A i \in 1..Len(ss) : ss[i] = tt[i]
  PROVE  Flatten(tt) = Flatten(ss) \o tt[Len(tt)]
<1>1. PICK Q : Q = Seq(S)
  OBVIOUS
<1>2. Closed(Q)
  BY <1>1, CharsClosed
<1>3. ss \in Seq(Q) /\ tt \in Seq(Q)
  BY <1>1
<1>4. QED
  BY <1>2, <1>3, FlattenSnoc, Zenon

\* The echo of each byte.
EchoSeqs(s) == [i \in DOMAIN s |-> EchoOf(s[i])]

\* The three branches of the echo task: no echo for 0xFF, a line feed after a
\* carriage return, and any other byte as it is.
LEMMA EchoOfCases ==
  ASSUME NEW b \in Input
  PROVE  /\ EchoOf(b) \in Seq(Char)
         /\ b = "ff" => EchoOf(b) = <<>>
         /\ b = "cr" => EchoOf(b) = <<"cr", "lf">>
         /\ b \notin {"ff", "cr"} => EchoOf(b) = <<b>>
<1>1. <<>> \in Seq(Char) /\ <<"cr", "lf">> \in Seq(Char) /\ <<b>> \in Seq(Char)
  BY DEF Char
<1>2. CASE b = "ff"
  BY <1>1, <1>2 DEF EchoOf
<1>3. CASE b = "cr"
  BY <1>1, <1>3 DEF EchoOf
<1>4. CASE b \notin {"ff", "cr"}
  BY <1>1, <1>4 DEF EchoOf
<1>5. QED
  BY <1>2, <1>3, <1>4

\* The echo of each byte is a sequence of bytes.
LEMMA EchoSeqsType ==
  ASSUME NEW s \in Seq(Input)
  PROVE  /\ EchoSeqs(s) \in Seq(Seq(Char)) /\ Len(EchoSeqs(s)) = Len(s)
         /\ \A i \in 1..Len(s) : EchoSeqs(s)[i] = EchoOf(s[i])
<1>1. ASSUME NEW b \in Input PROVE EchoOf(b) \in Seq(Char)
  BY EchoOfCases
<1>2. \A i \in 1..Len(s) : EchoOf(s[i]) \in Seq(Char)
  BY <1>1
<1>3. QED
  BY <1>2 DEF EchoSeqs

\* So is the echo of all of them.
LEMMA EchoedType ==
  ASSUME NEW s \in Seq(Input) PROVE Echoed(s) \in Seq(Char)
<1>1. Echoed(s) = Flatten(EchoSeqs(s))
  BY DEF Echoed, EchoSeqs
<1>2. QED
  BY <1>1, EchoSeqsType, CharsClosed, FlattenType, Zenon

\* Nothing received, nothing to echo.
LEMMA EchoedEmpty ==
  ASSUME NEW s \in Seq(Input), Len(s) = 0 PROVE Echoed(s) = <<>>
<1>1. EchoSeqs(s) \in Seq(Seq(Char)) /\ Len(EchoSeqs(s)) = 0
  BY EchoSeqsType, Zenon
<1>2. Flatten(EchoSeqs(s)) = <<>>
  BY <1>1, CharsClosed, FlattenEmpty, Zenon
<1>3. QED
  BY <1>2 DEF Echoed, EchoSeqs

\* One more byte received adds its echo at the end.
LEMMA EchoedAppend ==
  ASSUME NEW s \in Seq(Input), NEW b \in Input
  PROVE  Echoed(Append(s, b)) = Echoed(s) \o EchoOf(b)
<1>1. /\ Append(s, b) \in Seq(Input) /\ Len(Append(s, b)) = Len(s) + 1
      /\ \A i \in 1..Len(s) : Append(s, b)[i] = s[i]
      /\ Append(s, b)[Len(s) + 1] = b
  BY SeqAppend
<1>2. PICK t \in Seq(Input) :
        t = Append(s, b) /\ Len(t) = Len(s) + 1 /\ t[Len(t)] = b /\ \A i \in 1..Len(s) : t[i] = s[i]
  BY <1>1, Zenon
<1>3. Len(t) \in 1..Len(t) /\ \A i \in 1..Len(s) : i \in 1..Len(t)
  BY <1>2
<1>4. /\ Len(EchoSeqs(t)) = Len(EchoSeqs(s)) + 1
      /\ \A i \in 1..Len(EchoSeqs(s)) : EchoSeqs(s)[i] = EchoSeqs(t)[i]
      /\ EchoSeqs(t)[Len(EchoSeqs(t))] = EchoOf(b)
  <2>1. /\ Len(EchoSeqs(t)) = Len(t) /\ Len(EchoSeqs(s)) = Len(s)
        /\ \A i \in 1..Len(s) : EchoSeqs(s)[i] = EchoOf(s[i])
        /\ \A i \in 1..Len(t) : EchoSeqs(t)[i] = EchoOf(t[i])
    BY EchoSeqsType, Zenon
  <2>2. QED
    BY <1>2, <1>3, <2>1, Zenon
<1>5. Flatten(EchoSeqs(t)) = Flatten(EchoSeqs(s)) \o EchoOf(b)
  <2>1. EchoSeqs(s) \in Seq(Seq(Char)) /\ EchoSeqs(t) \in Seq(Seq(Char))
    BY EchoSeqsType
  <2>2. Flatten(EchoSeqs(t)) = Flatten(EchoSeqs(s)) \o EchoSeqs(t)[Len(EchoSeqs(t))]
    BY <1>4, <2>1, FlattenLast, Zenon
  <2>3. QED
    BY <1>4, <2>2
<1>6. QED
  BY <1>2, <1>5, Zenon DEF Echoed, EchoSeqs

\* Taking a byte from the front of the queue takes its echo from the front.
LEMMA EchoedHead ==
  ASSUME NEW s \in Seq(Input), s # <<>>
  PROVE  Echoed(s) = EchoOf(Head(s)) \o Echoed(Tail(s))
<1> DEFINE a(n) == SubSeq(s, 1, n)
           b(n) == SubSeq(Tail(s), 1, n)
           Good(n) == Echoed(a(n + 1)) = EchoOf(s[1]) \o Echoed(b(n))
           G == {n \in Nat : Good(n)}
<1>1. s[1] \in Input /\ Head(s) = s[1] /\ Tail(s) \in Seq(Input) /\ Len(s) = Len(Tail(s)) + 1
  OBVIOUS
<1>2. EchoOf(s[1]) \in Seq(Char)
  BY <1>1, EchoOfCases
<1>3. Good(0)
  <2>1. /\ a(0 + 1) = Append(b(0), s[1])
        /\ b(0) \in Seq(Input) /\ Len(b(0)) = 0
    BY <1>1
  <2> HIDE DEF a, b
  <2>2. Echoed(a(0 + 1)) = Echoed(b(0)) \o EchoOf(s[1])
    BY <1>1, <2>1, EchoedAppend, Zenon
  <2>3. Echoed(b(0)) = <<>>
    BY <2>1, EchoedEmpty
  <2>4. <<>> \o EchoOf(s[1]) = EchoOf(s[1]) /\ EchoOf(s[1]) \o <<>> = EchoOf(s[1])
    BY <1>2
  <2>5. QED
    BY <2>2, <2>3, <2>4
<1>4. ASSUME NEW n \in 1..Len(Tail(s)), Good(n - 1) PROVE Good(n)
  <2>1. /\ a(n) \in Seq(Input) /\ b(n - 1) \in Seq(Input)
        /\ a(n + 1) = Append(a(n), s[n + 1])
        /\ b(n) = Append(b(n - 1), Tail(s)[n])
    BY <1>1
  <2>2. Tail(s)[n] = s[n + 1] /\ s[n + 1] \in Input
    BY <1>1
  <2> HIDE DEF a, b
  <2>3. (n - 1) + 1 = n
    OBVIOUS
  <2>4. Echoed(a(n)) = EchoOf(s[1]) \o Echoed(b(n - 1))
    BY <1>4, <2>3
  <2>5. /\ Echoed(a(n + 1)) = Echoed(a(n)) \o EchoOf(s[n + 1])
        /\ Echoed(b(n)) = Echoed(b(n - 1)) \o EchoOf(s[n + 1])
    BY <2>1, <2>2, EchoedAppend, Zenon
  <2>6. Echoed(b(n - 1)) \in Seq(Char) /\ EchoOf(s[n + 1]) \in Seq(Char)
    BY <2>1, <2>2, EchoedType, EchoOfCases
  <2>7. (EchoOf(s[1]) \o Echoed(b(n - 1))) \o EchoOf(s[n + 1])
          = EchoOf(s[1]) \o (Echoed(b(n - 1)) \o EchoOf(s[n + 1]))
    BY <1>2, <2>6
  <2>8. QED
    BY <2>4, <2>5, <2>7, Zenon
<1>5. Len(Tail(s)) \in Nat /\ b(Len(Tail(s))) = Tail(s) /\ a(Len(Tail(s)) + 1) = s
  BY <1>1
<1>6. Good(Len(Tail(s)))
  <2> HIDE DEF Good
  <2>1. 0 \in G /\ \A n \in 1..Len(Tail(s)) : n - 1 \in G => n \in G
    BY <1>3, <1>4
  <2> HIDE DEF G
  <2>2. Len(Tail(s)) \in G
    BY <1>5, <2>1, PrefixInduction
  <2>3. QED
    BY <2>2 DEF G
<1>7. QED
  BY <1>1, <1>5, <1>6, Zenon

\* What each entry contributes.
SentSeqs(who, s) == [i \in DOMAIN s |-> SentOf(who, s[i])]

\* What an entry contributes to what `who` sent is a sequence of bytes.
LEMMA SentSeqsType ==
  ASSUME NEW who, NEW s \in Seq(Entry)
  PROVE  /\ SentSeqs(who, s) \in Seq(Seq(Char)) /\ Len(SentSeqs(who, s)) = Len(s)
         /\ \A i \in 1..Len(s) :
              SentSeqs(who, s)[i] = SentOf(who, s[i])
<1>1. ASSUME NEW i \in 1..Len(s) PROVE SentOf(who, s[i]) \in Seq(Char)
  <2>1. s[i] \in Entry
    OBVIOUS
  <2>2. s[i].byte \in Char
    BY <2>1 DEF Entry
  <2>3. QED
    BY <2>2 DEF SentOf
<1>2. QED
  BY <1>1 DEF SentSeqs

\* So is all that `who` sent.
LEMMA SentByType ==
  ASSUME NEW who, NEW s \in Seq(Entry) PROVE SentBy(who, s) \in Seq(Char)
<1>1. SentBy(who, s) = Flatten(SentSeqs(who, s))
  BY DEF SentBy, SentSeqs
<1>2. QED
  BY <1>1, SentSeqsType, CharsClosed, FlattenType, Zenon

\* Nothing is sent by a wire that is empty.
LEMMA SentByEmpty ==
  ASSUME NEW who, NEW s \in Seq(Entry), Len(s) = 0 PROVE SentBy(who, s) = <<>>
<1>1. SentSeqs(who, s) \in Seq(Seq(Char)) /\ Len(SentSeqs(who, s)) = 0
  BY SentSeqsType, Zenon
<1>2. Flatten(SentSeqs(who, s)) = <<>>
  BY <1>1, CharsClosed, FlattenEmpty, Zenon
<1>3. QED
  BY <1>2 DEF SentBy, SentSeqs

\* One more entry adds its byte at the end if `who` sent it, and nothing else.
LEMMA SentByAppend ==
  ASSUME NEW who, NEW s \in Seq(Entry), NEW e \in Entry
  PROVE  SentBy(who, Append(s, e)) =
           SentBy(who, s) \o SentOf(who, e)
<1>1. PICK t \in Seq(Entry) :
        t = Append(s, e) /\ Len(t) = Len(s) + 1 /\ t[Len(t)] = e /\ \A i \in 1..Len(s) : t[i] = s[i]
  <2>1. /\ Append(s, e) \in Seq(Entry) /\ Len(Append(s, e)) = Len(s) + 1
        /\ \A i \in 1..Len(s) : Append(s, e)[i] = s[i]
        /\ Append(s, e)[Len(s) + 1] = e
    BY SeqAppend
  <2>2. QED
    BY <2>1, Zenon
<1>2. Len(t) \in 1..Len(t) /\ \A i \in 1..Len(s) : i \in 1..Len(t)
  BY <1>1
<1>3. /\ Len(SentSeqs(who, t)) = Len(SentSeqs(who, s)) + 1
      /\ \A i \in 1..Len(SentSeqs(who, s)) : SentSeqs(who, s)[i] = SentSeqs(who, t)[i]
      /\ SentSeqs(who, t)[Len(SentSeqs(who, t))] = SentOf(who, e)
  <2>1. /\ Len(SentSeqs(who, t)) = Len(t) /\ Len(SentSeqs(who, s)) = Len(s)
        /\ \A i \in 1..Len(s) : SentSeqs(who, s)[i] = SentOf(who, s[i])
        /\ \A i \in 1..Len(t) : SentSeqs(who, t)[i] = SentOf(who, t[i])
    BY SentSeqsType
  <2>2. QED
    BY <1>1, <1>2, <2>1
<1>4. SentSeqs(who, s) \in Seq(Seq(Char)) /\ SentSeqs(who, t) \in Seq(Seq(Char))
  BY SentSeqsType
<1>5. Flatten(SentSeqs(who, t)) =
        Flatten(SentSeqs(who, s)) \o SentSeqs(who, t)[Len(SentSeqs(who, t))]
  BY <1>3, <1>4, FlattenLast, Zenon
<1>6. SentBy(who, t) = SentBy(who, s) \o SentOf(who, e)
  BY <1>3, <1>5, Zenon DEF SentBy, SentSeqs
<1>7. QED
  BY <1>1, <1>6
-----------------------------------------------------------------------------
(* One step *)

\* puts sends "\r\n" for the "\n" that ends a line.
LEMMA SwitchLineIs == puts(SwitchLine) = Line
<1> DEFINE m == [i \in DOMAIN SwitchLine |->
                   IF SwitchLine[i] = "lf" THEN <<"cr", "lf">> ELSE <<SwitchLine[i]>>]
           S == {"msg", "cr", "lf"}
<1>1. m \in Seq(Seq(S)) /\ Len(m) = 2 /\ m[1] = <<"msg">> /\ m[2] = <<"cr", "lf">>
  <2>1. DOMAIN SwitchLine = 1..2 /\ SwitchLine[1] = "msg" /\ SwitchLine[2] = "lf"
    BY DEF SwitchLine
  <2>2. m[1] = <<"msg">> /\ m[2] = <<"cr", "lf">>
    BY <2>1
  <2>3. <<"msg">> \in Seq(S) /\ <<"cr", "lf">> \in Seq(S)
    OBVIOUS
  <2>4. m \in [1..2 -> Seq(S)]
    BY <2>1, <2>3
  <2> HIDE DEF m
  <2>5. QED
    BY <2>2, <2>4, SeqFunction, Zenon
<1>2. puts(SwitchLine) = Flatten(m)
  BY DEF puts
<1> HIDE DEF m, S
<1>3. PICK Q : Q = Seq(S) /\ Closed(Q)
  BY CharsClosed
<1>4. m \in Seq(Q)
  BY <1>1, <1>3
<1>5. PICK f : IsFlatten(f, m, Len(m)) /\ Flatten(m) = f[Len(m)]
  BY <1>3, <1>4, FlattenIs, Zenon
<1>6. IsFlatten(f, m, 2) /\ Flatten(m) = f[2]
  BY <1>1, <1>5
<1>7. f[1] = <<>> \o m[1] /\ f[2] = f[1] \o m[2]
  <2>1. f[0] = <<>> /\ f[1] = f[1 - 1] \o m[1] /\ f[2] = f[2 - 1] \o m[2]
    BY <1>6, 1 \in 1..2, 2 \in 1..2, Zenon DEF IsFlatten
  <2>2. 1 - 1 = 0 /\ 2 - 1 = 1
    OBVIOUS
  <2>3. QED
    BY <2>1, <2>2, Zenon
<1>8. Flatten(m) = <<"msg">> \o <<"cr", "lf">>
  <2>1. <<>> \o m[1] = m[1]
    BY <1>1
  <2>2. QED
    BY <1>1, <1>6, <1>7, <2>1, Zenon
<1>9. <<"msg">> \o <<"cr", "lf">> = Line
  <2>1. <<"msg">> \in Seq(S) /\ <<"cr", "lf">> \in Seq(S) /\ Line \in Seq(S)
    BY DEF Line, S
  <2>2. Len(<<"msg">>) = 1 /\ Len(<<"cr", "lf">>) = 2 /\ Len(Line) = 3
    BY DEF Line
  <2>3. \A i \in 1..3 : (<<"msg">> \o <<"cr", "lf">>)[i] = Line[i]
    BY <2>1, <2>2 DEF Line
  <2>4. QED
    BY <2>1, <2>2, <2>3
<1>10. QED
  BY <1>2, <1>8, <1>9

\* The registers and FIFOs putc leaves alone.
UartFields == <<DLAB, divisor, IER, fifo_on, rx, line>>

\* A transmitted byte moves from the FIFO to the line: the wire, which is both,
\* does not change.
LEMMA WireTransmits ==
  ASSUME ConsoleTypeOK, Transmit
  PROVE  Wire' = Wire /\ line' \in Seq(Entry) /\ tx' \in Seq(Entry)
         /\ line' = Append(line, Head(tx)) /\ Head(tx) \in Entry
<1>1. line \in Seq(Entry) /\ tx \in Seq(Entry) /\ tx # <<>>
  BY DEF ConsoleTypeOK, Transmit
<1>2. line' = Append(line, Head(tx)) /\ tx' = Tail(tx)
  BY DEF Transmit
<1>3. QED
  BY <1>1, <1>2, SeqMoves DEF Wire

\* putc waits for an empty FIFO, so the byte is never dropped: it goes to the end
\* of the wire, whatever the size of the FIFO.
LEMMA WirePuts ==
  ASSUME ConsoleTypeOK, fifo_on, NEW e \in Entry, putc(e)
  PROVE  /\ Wire' = Append(Wire, e) /\ tx' \in Seq(Entry)
         /\ UNCHANGED UartFields
<1>1. tx = <<>> /\ UNCHANGED UartFields
  BY DEF putc, TxEmpty, UartFields
<1>2. Len(tx) < Capacity
  BY <1>1, ConsoleAssumption DEF Capacity
<1>3. tx' = Append(tx, e)
  BY <1>2 DEF putc, Queue
<1>4. QED
  BY <1>1, <1>3 DEF ConsoleTypeOK, Wire, UartFields

\* The writes of serial::init, in their order.
LEMMA InitWriteAt ==
  /\ InitWrites[1] = [reg |-> "1", val |-> 0]
  /\ InitWrites[2] = [reg |-> "LCR", val |-> "DLAB"]
  /\ InitWrites[3] = [reg |-> "0", val |-> 1]
  /\ InitWrites[4] = [reg |-> "1", val |-> 0]
  /\ InitWrites[5] = [reg |-> "LCR", val |-> "8BIT"]
  /\ InitWrites[6] = [reg |-> "FCR", val |-> 7]
  BY DEF InitWrites

\* What is left of the writes of serial::init after the k-th.
LEMMA InitRest ==
  ASSUME NEW k \in 1..6
  PROVE  /\ Head(SubSeq(InitWrites, k, 6)) = InitWrites[k]
         /\ Tail(SubSeq(InitWrites, k, 6)) = SubSeq(InitWrites, k + 1, 6)
         /\ Len(SubSeq(InitWrites, k, 6)) = 7 - k
<1> DEFINE S == {InitWrites[i] : i \in 1..6}
<1>1. InitWrites \in [1..6 -> S]
  BY DEF InitWrites
<1> HIDE DEF S
<1>2. InitWrites \in Seq(S) /\ Len(InitWrites) = 6
  BY <1>1, 6 \in Nat, SeqFunction, ZenonT(40)
<1>3. QED
  BY <1>2

\* The LCR sets or clears DLAB.
LEMMA WriteLCR ==
  ASSUME NEW v, WriteRegister([reg |-> "LCR", val |-> v])
  PROVE  (DLAB' <=> v = "DLAB") /\ UNCHANGED <<divisor, IER, fifo_on, rx, tx>>
  BY Zenon DEF WriteRegister

\* The FCR switches the FIFOs on and empties them.
LEMMA WriteFCR ==
  ASSUME NEW v, WriteRegister([reg |-> "FCR", val |-> v])
  PROVE  /\ fifo_on' = TRUE /\ rx' = <<>> /\ tx' = <<>>
         /\ UNCHANGED <<DLAB, divisor, IER>>
  BY DEF WriteRegister

\* With DLAB set register 0 is the low byte of the divisor.
LEMMA WriteLatch ==
  ASSUME NEW v, WriteRegister([reg |-> "0", val |-> v]), DLAB
  PROVE  divisor' = <<v, divisor[2]>> /\ UNCHANGED <<DLAB, IER, fifo_on, rx, tx>>
  BY DEF WriteRegister

\* Register 1 is its high byte with DLAB set, and the IER without.
LEMMA WriteIer ==
  ASSUME NEW v, WriteRegister([reg |-> "1", val |-> v])
  PROVE  /\ DLAB => divisor' = <<divisor[1], v>> /\ UNCHANGED IER
         /\ ~DLAB => IER' = v /\ UNCHANGED divisor
         /\ UNCHANGED <<DLAB, fifo_on, rx, tx>>
  BY DEF WriteRegister

\* One write of serial::init.
LEMMA InitStepIs ==
  ASSUME UartInv, InitUart
  PROVE  /\ line' = <<>> /\ tx' = <<>> /\ received' = <<>> /\ pc' = "getc"
         /\ next' = next /\ MIE' = MIE /\ rx' \in {rx, <<>>} /\ at = "init"
         /\ \/ at' = "init" /\ InitProgress'
            \/ /\ at' = "log" /\ todo' = Line
               /\ rx' = <<>> /\ ~DLAB' /\ fifo_on' /\ divisor' = <<1, 0>> /\ IER' = 0
<1>1. /\ at = "init" /\ writes' = Tail(writes)
      /\ IF Len(writes) > 1 THEN UNCHANGED <<at, todo>>
         ELSE at' = "log" /\ todo' = puts(SwitchLine)
      /\ UNCHANGED <<line, next, MIE, pc, received>>
  BY DEF InitUart, echo, host
<1>2. PICK k \in 1..6 : /\ writes = SubSeq(InitWrites, k, 6)
                        /\ (DLAB <=> k \in {3, 4, 5})
                        /\ divisor = IF k <= 3 THEN <<0, 0>> ELSE <<1, 0>>
                        /\ k > 1 => IER = 0
  BY <1>1 DEF UartInv, InitProgress
<1>3. tx = <<>> /\ line = <<>> /\ received = <<>> /\ pc = "getc"
  BY <1>1 DEF UartInv, InitProgress
<1>4. WriteRegister(InitWrites[k])
  BY <1>2, InitRest DEF InitUart
<1>5. CASE k < 6
  <2> DEFINE Goal == /\ DLAB' <=> k + 1 \in {3, 4, 5}
                     /\ divisor' = IF k + 1 <= 3 THEN <<0, 0>> ELSE <<1, 0>>
                     /\ IER' = 0
  <2>1. UNCHANGED <<rx, tx>>
    <3>1. CASE k \in {1, 4}
      BY <3>1, <1>4, InitWriteAt, WriteIer
    <3>2. CASE k \in {2, 5}
      BY <3>2, <1>4, InitWriteAt, WriteLCR
    <3>3. CASE k = 3
      BY <3>3, <1>2, <1>4, InitWriteAt, WriteLatch, Zenon
    <3>4. QED
      BY <1>5, <3>1, <3>2, <3>3
  <2>2. ASSUME k = 1 PROVE Goal
    <3>1. WriteRegister([reg |-> "1", val |-> 0]) /\ ~DLAB
      BY <2>2, <1>2, <1>4, InitWriteAt
    <3>2. UNCHANGED <<DLAB, divisor>> /\ IER' = 0
      BY <3>1, WriteIer, Zenon
    <3>3. QED
      BY <2>2, <3>1, <3>2, <1>2
  <2>3. ASSUME k \in {2, 5} PROVE Goal
    <3>1. k = 2 => WriteRegister([reg |-> "LCR", val |-> "DLAB"])
      BY <1>4, InitWriteAt
    <3>2. k = 5 => WriteRegister([reg |-> "LCR", val |-> "8BIT"])
      BY <1>4, InitWriteAt
    <3>3. UNCHANGED <<divisor, IER>> /\ (DLAB' <=> k = 2)
      BY <2>3, <3>1, <3>2, WriteLCR
    <3>4. QED
      BY <2>3, <3>3, <1>2
  <2>4. ASSUME k = 3 PROVE Goal
    <3>1. WriteRegister([reg |-> "0", val |-> 1]) /\ DLAB /\ divisor = <<0, 0>>
      BY <2>4, <1>2, <1>4, InitWriteAt
    <3>2. divisor' = <<1, divisor[2]>> /\ UNCHANGED <<DLAB, IER>>
      BY <3>1, WriteLatch, Zenon
    <3>3. QED
      BY <2>4, <3>1, <3>2, <1>2
  <2>5. ASSUME k = 4 PROVE Goal
    <3>1. WriteRegister([reg |-> "1", val |-> 0]) /\ DLAB /\ divisor = <<1, 0>>
      BY <2>5, <1>2, <1>4, InitWriteAt
    <3>2. divisor' = <<divisor[1], 0>> /\ UNCHANGED <<DLAB, IER>>
      BY <3>1, WriteIer, Zenon
    <3>3. QED
      BY <2>5, <3>1, <3>2, <1>2
  <2>6. Goal
    BY <2>2, <2>3, <2>4, <2>5, <1>5
  <2>7. writes' = SubSeq(InitWrites, k + 1, 6) /\ at' = "init" /\ k + 1 \in 1..6
    BY <1>1, <1>2, <1>5, InitRest
  <2>8. InitProgress'
    BY <2>1, <2>6, <2>7, <1>1, <1>3, Zenon DEF InitProgress
  <2>9. QED
    BY <2>1, <2>7, <2>8, <1>1, <1>3
<1>6. CASE k = 6
  <2>1. at' = "log" /\ todo' = Line
    BY <1>1, <1>2, <1>6, InitRest, SwitchLineIs
  <2>2. fifo_on' /\ rx' = <<>> /\ tx' = <<>> /\ UNCHANGED <<DLAB, divisor, IER>>
    BY <1>4, <1>6, InitWriteAt, WriteFCR, Zenon
  <2>3. ~DLAB' /\ divisor' = <<1, 0>> /\ IER' = 0
    BY <2>2, <1>2, <1>6
  <2>4. QED
    BY <2>1, <2>2, <2>3, <1>1, <1>3
<1>7. QED
  BY <1>5, <1>6

\* One byte of a line, from a handler or from kmain.
LEMMA LineStepIs ==
  ASSUME ConsoleTypeOK, UartInv, LogInv, Log \/ KmainPuts
  PROVE  /\ Byte(at, Head(todo)) \in Entry
         /\ Wire' = Append(Wire, Byte(at, Head(todo))) /\ tx' \in Seq(Entry)
         /\ UNCHANGED UartFields
<1>1. at \in {"log", "kmain"} /\ todo \in {Line, <<"cr", "lf">>, <<"lf">>}
  BY DEF Log, KmainPuts, LogInv
<1>2. Byte(at, Head(todo)) \in Entry
  BY <1>1 DEF Line, Byte, Entry, Char
<1>3. fifo_on /\ putc(Byte(at, Head(todo)))
  BY <1>1 DEF Log, KmainPuts, UartInv
<1>4. QED
  BY <1>2, <1>3, WirePuts

\* The byte SYS_PUTC writes for the echo task.
EchoByte == IF pc = "newline" THEN "lf" ELSE byte

\* SYS_PUTC adds the byte of the echo task to the wire.
LEMMA PutcStepIs ==
  ASSUME ConsoleTypeOK, UartInv, EchoTaskInv, SysPutc
  PROVE  /\ Byte("echo", EchoByte) \in Entry
         /\ Wire' = Append(Wire, Byte("echo", EchoByte)) /\ tx' \in Seq(Entry)
         /\ UNCHANGED UartFields
<1>1. Byte("echo", EchoByte) \in Entry
  BY DEF SysPutc, Mret, EchoTaskInv, Byte, Entry, Char, EchoByte
<1>2. fifo_on /\ putc(Byte("echo", EchoByte))
  BY DEF SysPutc, Mret, UartInv, EchoByte
<1>3. QED
  BY <1>1, <1>2, WirePuts

\* Every step keeps the types.
LEMMA ConsoleTypes ==
  ASSUME ConsoleTypeOK, UartInv, EchoTaskInv, LogInv, [Next]_vars
  PROVE  ConsoleTypeOK'
<1>1. CASE Transmit
  BY <1>1, WireTransmits DEF Transmit, ConsoleTypeOK, kernel, echo, host
<1>2. CASE Receive
  <2>1. PICK b \in Input :
          IF Len(rx) < Capacity
          THEN /\ rx' = Append(rx, b)
               /\ received' = IF at = "init" THEN received ELSE Append(received, b)
          ELSE UNCHANGED <<rx, received>>
    BY <1>2 DEF Receive
  <2>2. rx' \in Seq(Input) /\ received' \in Seq(Input)
    <3>1. rx \in Seq(Input) /\ received \in Seq(Input)
      BY DEF ConsoleTypeOK
    <3>2. Append(rx, b) \in Seq(Input) /\ Append(received, b) \in Seq(Input)
      BY <3>1
    <3>3. QED
      BY <2>1, <3>1, <3>2, Zenon
  <2>3. QED
    BY <1>2, <2>2 DEF Receive, ConsoleTypeOK, kernel, echo
<1>3. CASE InitUart
  <2>1. /\ line' = <<>> /\ tx' = <<>> /\ received' = <<>> /\ pc' = "getc"
        /\ next' = next /\ rx' \in {rx, <<>>} /\ at' \in {"init", "log"}
    BY <1>3, InitStepIs
  <2>2. <<>> \in Seq(Entry) /\ <<>> \in Seq(Input)
    OBVIOUS
  <2>3. QED
    BY <2>1, <2>2, Zenon DEF ConsoleTypeOK
<1>4. CASE Log \/ KmainPuts
  <2>1. tx' \in Seq(Entry) /\ UNCHANGED UartFields
    BY <1>4, LineStepIs
  <2>2. at' \in {"log", next, at} /\ UNCHANGED <<next, pc, received>>
    BY <1>4 DEF Log, KmainPuts, echo, host
  <2>3. QED
    BY <2>1, <2>2 DEF ConsoleTypeOK, UartFields
<1>5. CASE Switch
  BY <1>5 DEF Switch, ConsoleTypeOK, uart, echo, host
<1>6. CASE SysGetc
  <2>1. rx' \in Seq(Input)
    <3>1. rx \in Seq(Input) /\ rx' = IF rx # <<>> THEN Tail(rx) ELSE rx
      BY <1>6 DEF SysGetc, ConsoleTypeOK
    <3>2. rx # <<>> => Tail(rx) \in Seq(Input)
      BY <3>1, SeqMoves, Zenon
    <3>3. QED
      BY <3>1, <3>2, Zenon
  <2>2. UNCHANGED <<line, tx, received, next>> /\ at' = "echo" /\ pc' = "test"
    BY <1>6 DEF SysGetc, Mret, host
  <2>3. QED
    BY <2>1, <2>2 DEF ConsoleTypeOK
<1>7. CASE SysPutc
  BY <1>7, PutcStepIs DEF SysPutc, Mret, ConsoleTypeOK, UartFields, host
<1>8. CASE SysCall
  BY <1>8 DEF SysCall, Trap, ConsoleTypeOK, uart, echo, host
<1>9. CASE EchoBranch
  BY <1>9 DEF EchoBranch, ConsoleTypeOK, uart, kernel, host
<1>10. CASE UNCHANGED vars
  BY <1>10 DEF ConsoleTypeOK, vars, uart, kernel, echo, host
<1>11. CASE StartScheduler
  BY <1>11 DEF StartScheduler, ConsoleTypeOK, uart, echo, host
<1>12. QED
  BY <1>1, <1>2, <1>3, <1>4, <1>5, <1>6, <1>7, <1>8, <1>9, <1>10, <1>11
     DEF Next, KernelStep, EchoStep
-----------------------------------------------------------------------------
\* Nothing goes on the wire but the lines of the kernel and the echo.
LEMMA SentByInit ==
  ASSUME ConsoleTypeOK, SentBy("init", line) = <<>>, NEW e \in Entry
  PROVE  SentBy("init", Append(line, e)) = <<>>
<1>1. SentOf("init", e) = <<>>
  BY DEF SentOf, Entry
<1>2. SentBy("init", Append(line, e)) = <<>> \o <<>>
  BY <1>1, SentByAppend, Zenon DEF ConsoleTypeOK
<1>3. QED
  BY <1>2

\* serial::init proceeds write by write, and nothing after it touches DLAB, the
\* divisor, IER or the FIFO enable again.
LEMMA UartStays ==
  ASSUME ConsoleTypeOK, UartInv, EchoTaskInv, LogInv, [Next]_vars
  PROVE  UartInv'
<1>1. CASE InitUart
  <2>1. SentBy("init", line') = <<>>
    <3>1. line = <<>> /\ line' = <<>> /\ SentBy("init", line) = <<>>
      BY <1>1, InitStepIs DEF UartInv, InitProgress
    <3>2. QED
      BY <3>1, Zenon
  <2>2. QED
    BY <1>1, <2>1, InitStepIs DEF UartInv
<1>2. CASE Transmit
  <2>1. SentBy("init", line') = <<>>
    BY <1>2, WireTransmits, SentByInit, Zenon DEF UartInv
  <2>2. at # "init"
    BY <1>2 DEF Transmit, UartInv, InitProgress
  <2>3. QED
    BY <1>2, <2>1, <2>2 DEF Transmit, UartInv, kernel
<1>3. CASE Receive
  <2>1. at = "init" => UNCHANGED received
    BY <1>3 DEF Receive
  <2>2. UNCHANGED <<at, writes, DLAB, divisor, IER, fifo_on, tx, line, pc>>
    BY <1>3 DEF Receive, kernel, echo
  <2>3. at = "init" => InitProgress'
    BY <2>1, <2>2 DEF UartInv, InitProgress
  <2>4. QED
    BY <2>2, <2>3 DEF UartInv
<1>4. ASSUME at # "init", at' # "init", UNCHANGED <<DLAB, divisor, IER, fifo_on, line>>
      PROVE  UartInv'
  BY <1>4 DEF UartInv
<1>5. CASE Log \/ KmainPuts
  <2>1. UNCHANGED <<DLAB, divisor, IER, fifo_on, line>>
    BY <1>5, LineStepIs DEF UartFields
  <2>2. at # "init" /\ at' # "init"
    BY <1>5 DEF Log, KmainPuts, ConsoleTypeOK
  <2>3. QED
    BY <1>4, <2>1, <2>2
<1>6. CASE Switch \/ StartScheduler
  BY <1>6, <1>4 DEF Switch, StartScheduler, LogInv, uart
<1>7. CASE SysGetc
  BY <1>7, <1>4 DEF SysGetc, Mret
<1>8. CASE SysPutc
  BY <1>8, <1>4, PutcStepIs DEF SysPutc, Mret, UartFields
<1>9. CASE SysCall
  BY <1>9, <1>4 DEF SysCall, Trap, uart
<1>10. CASE EchoBranch
  BY <1>10, <1>4 DEF EchoBranch, uart, kernel
<1>11. CASE UNCHANGED vars
  BY <1>11 DEF vars, uart, kernel, echo, host, UartInv, InitProgress
<1>12. QED
  BY <1>1, <1>2, <1>3, <1>5, <1>6, <1>7, <1>8, <1>9, <1>10, <1>11
     DEF Next, KernelStep, EchoStep

\* The echo task holds a byte it has read when it writes one.
LEMMA EchoTaskStays ==
  ASSUME ConsoleTypeOK, UartInv, EchoTaskInv, [Next]_vars
  PROVE  EchoTaskInv'
<1>1. CASE InitUart
  BY <1>1, InitStepIs DEF EchoTaskInv
<1>2. CASE Transmit
  BY <1>2 DEF Transmit, EchoTaskInv, kernel, echo
<1>3. CASE Receive
  BY <1>3 DEF Receive, EchoTaskInv, kernel, echo
<1>4. CASE Log \/ KmainPuts
  BY <1>4 DEF Log, KmainPuts, EchoTaskInv, ConsoleTypeOK, echo
<1>5. CASE Switch \/ StartScheduler
  BY <1>5 DEF Switch, StartScheduler, EchoTaskInv, echo
<1>6. CASE SysGetc
  <2>1. byte' \in Input \cup {"ff"}
    BY <1>6 DEF SysGetc, ConsoleTypeOK
  <2>2. QED
    BY <1>6, <2>1 DEF SysGetc, Mret, EchoTaskInv
<1>7. CASE SysPutc
  BY <1>7 DEF SysPutc, Mret, EchoTaskInv
<1>8. CASE SysCall
  BY <1>8 DEF SysCall, Trap, EchoTaskInv, echo
<1>9. CASE EchoBranch
  BY <1>9 DEF EchoBranch, EchoTaskInv, kernel
<1>10. CASE UNCHANGED vars
  BY <1>10 DEF vars, kernel, echo, EchoTaskInv
<1>11. QED
  BY <1>1, <1>2, <1>3, <1>4, <1>5, <1>6, <1>7, <1>8, <1>9, <1>10
     DEF Next, KernelStep, EchoStep

\* A byte that may stand behind the last one keeps every pair of neighbours.
LEMMA AdjacentGrows ==
  ASSUME NEW w \in Seq(Entry), NEW e \in Entry,
         \A i \in 1..(Len(w) - 1) : Adjacent(w[i], w[i + 1]),
         Len(w) > 0 => Adjacent(w[Len(w)], e)
  PROVE  /\ \A i \in 1..(Len(Append(w, e)) - 1) :
              Adjacent(Append(w, e)[i], Append(w, e)[i + 1])
         /\ Len(Append(w, e)) > 0 /\ Append(w, e)[Len(Append(w, e))] = e
<1>1. PICK v : v = Append(w, e)
  OBVIOUS
<1>2. /\ Len(w) \in Nat /\ Len(v) = Len(w) + 1 /\ v[Len(w) + 1] = e
      /\ \A i \in 1..Len(w) : v[i] = w[i]
  BY <1>1
<1>3. ASSUME NEW i \in 1..(Len(v) - 1) PROVE Adjacent(v[i], v[i + 1])
  <2>1. CASE i < Len(w)
    <3>1. i \in 1..(Len(w) - 1) /\ v[i] = w[i] /\ v[i + 1] = w[i + 1]
      BY <1>2, <2>1
    <3>2. QED
      BY <3>1, Zenon
  <2>2. CASE i = Len(w)
    <3>1. Len(w) > 0 /\ v[i] = w[Len(w)] /\ v[i + 1] = e
      BY <1>2, <2>2
    <3>2. QED
      BY <3>1, Zenon
  <2>3. QED
    BY <1>2, <2>1, <2>2
<1>4. QED
  BY <1>1, <1>2, <1>3

\* A line stays whole when its next byte, or a byte outside a line, is added.
LEMMA LogStays ==
  ASSUME ConsoleTypeOK, UartInv, EchoTaskInv, LogInv, [Next]_vars
  PROVE  LogInv'
<1>1. ASSUME UNCHANGED <<Wire, at, todo, MIE>> PROVE LogInv'
  BY <1>1 DEF LogInv, InLine, Previous
<1>2. Wire \in Seq(Entry) /\ Len(Wire) \in Nat
  BY DEF Wire, ConsoleTypeOK
<1>3. CASE InitUart
  <2>1. /\ Len(Wire') = 0 /\ at' \in {"init", "log"} /\ (at' = "log" => todo' = Line)
        /\ ~MIE /\ ~MIE'
    BY <1>3, InitStepIs DEF Wire, LogInv
  <2>2. QED
    BY <2>1 DEF LogInv, InLine, Line
<1>4. CASE Transmit
  BY <1>4, <1>1, WireTransmits DEF Transmit, kernel
<1>5. CASE Receive
  BY <1>5, <1>1 DEF Receive, kernel, Wire
<1>6. CASE Log \/ KmainPuts
  <2> DEFINE e == Byte(at, Head(todo))
  <2>1. Wire' = Append(Wire, e) /\ e \in Entry
    BY <1>6, LineStepIs
  <2>2. /\ at \in {"log", "kmain"} /\ todo' = Tail(todo)
        /\ todo \in {Line, <<"cr", "lf">>, <<"lf">>}
        /\ Len(todo) # 1 => at' = at
        /\ Len(todo) = 1 => at' \in {"start", "echo", "other", "kmain"}
        /\ MIE' <=> at' \in {"kmain", "echo", "other"}
    <3>1. CASE Log
      <4>1. /\ at = "log" /\ todo \in {Line, <<"cr", "lf">>, <<"lf">>}
            /\ next \in {"start", "echo", "other"}
        BY <3>1 DEF Log, LogInv, ConsoleTypeOK
      <4>2. at' = (IF Len(todo) = 1 THEN next ELSE "log") /\ todo' = Tail(todo)
        BY <3>1 DEF Log
      <4>3. MIE' <=> at' \in {"echo", "other"}
        <5>1. ~MIE
          BY <4>1 DEF LogInv
        <5>2. MIE' = (at' \in {"echo", "other"} \/ MIE)
          BY <3>1, Zenon DEF Log
        <5>3. QED
          BY <5>1, <5>2, Zenon
      <4>4. QED
        BY <4>1, <4>2, <4>3
    <3>2. CASE KmainPuts
      <4>1. /\ at = "kmain" /\ todo \in {Line, <<"cr", "lf">>, <<"lf">>} /\ MIE
            /\ UNCHANGED <<at, MIE>> /\ todo' = Tail(todo)
        BY <3>2 DEF KmainPuts, LogInv
      <4>2. QED
        BY <4>1
    <3>3. QED
      BY <1>6, <3>1, <3>2
  <2>3. Len(Wire) > 0 => Adjacent(Wire[Len(Wire)], e)
    <3>1. CASE todo = Line
      <4>1. e = Byte(at, "msg") /\ ~InLine
        BY <3>1 DEF Line, InLine
      <4>2. QED
        BY <2>2, <3>1, <4>1 DEF LogInv, Open, Adjacent, Byte
    <3>2. CASE todo = <<"cr", "lf">>
      <4>1. e = Byte(at, "cr") /\ InLine /\ Previous = Byte(at, "msg")
        BY <2>2, <3>2 DEF InLine, Previous
      <4>2. QED
        BY <2>2, <4>1 DEF LogInv, Adjacent, Follows, Byte
    <3>3. CASE todo = <<"lf">>
      <4>1. e = Byte(at, "lf") /\ InLine /\ Previous = Byte(at, "cr")
        BY <2>2, <3>3 DEF InLine, Previous
      <4>2. QED
        BY <2>2, <4>1 DEF LogInv, Adjacent, Follows, Byte
    <3>4. QED
      BY <2>2, <3>1, <3>2, <3>3
  <2>4. /\ \A i \in 1..(Len(Wire') - 1) : Adjacent(Wire'[i], Wire'[i + 1])
        /\ Len(Wire') > 0 /\ Wire'[Len(Wire')] = e
    <3>1. \A i \in 1..(Len(Wire) - 1) : Adjacent(Wire[i], Wire[i + 1])
      BY DEF LogInv
    <3> HIDE DEF e
    <3>2. QED
      BY <1>2, <2>1, <2>3, <3>1, AdjacentGrows, Zenon
  <2>5. CASE todo = Line
    <3>1. todo' = <<"cr", "lf">> /\ at' = at /\ e = Byte(at, "msg")
      BY <2>2, <2>5 DEF Line
    <3>2. <<"cr", "lf">> # <<"lf">>
      OBVIOUS
    <3>3. InLine' /\ Previous' = e
      BY <2>2, <3>1, <3>2, Zenon DEF InLine, Previous
    <3>4. QED
      BY <2>2, <2>4, <3>1, <3>3 DEF LogInv
  <2>6. CASE todo = <<"cr", "lf">>
    <3>1. todo' = <<"lf">> /\ at' = at /\ e = Byte(at, "cr")
      BY <2>2, <2>6
    <3>2. InLine' /\ Previous' = e
      BY <2>2, <3>1 DEF InLine, Previous
    <3>3. QED
      BY <2>2, <2>4, <3>1, <3>2 DEF LogInv
  <2>7. CASE todo = <<"lf">>
    <3>1. todo' = <<>> /\ at' # "log" /\ ~Open(e)
      BY <2>2, <2>7 DEF Open, Byte
    <3>2. ~InLine'
      BY <3>1 DEF InLine
    <3>3. QED
      BY <2>2, <2>4, <3>1, <3>2 DEF LogInv
  <2>8. QED
    BY <2>2, <2>5, <2>6, <2>7
<1>7. CASE Switch
  <2>1. /\ at \in {"kmain", "echo", "other"} /\ at' = "log" /\ todo' = Line
        /\ ~MIE' /\ Wire' = Wire
    BY <1>7, SwitchLineIs DEF Switch, LogInv, uart, Wire
  <2>2. Len(Wire) > 0 /\ Open(Wire[Len(Wire)]) => Wire[Len(Wire)].from = "kmain"
    BY <2>1 DEF LogInv, InLine, Previous, Byte
  <2>3. ~InLine'
    BY <2>1 DEF InLine, Line
  <2>4. QED
    BY <2>1, <2>2, <2>3 DEF LogInv
<1>8. ASSUME at \notin {"log", "kmain"}, at' \notin {"log", "kmain"},
             UNCHANGED Wire, MIE' <=> at' \in {"echo", "other"}
      PROVE  LogInv'
  BY <1>8 DEF LogInv, InLine
<1>9. CASE SysGetc
  BY <1>9, <1>8 DEF SysGetc, Mret, Wire
<1>10. CASE SysPutc
  <2>1. /\ Wire' = Append(Wire, Byte("echo", EchoByte)) /\ Byte("echo", EchoByte) \in Entry
        /\ at = "putc" /\ at' = "echo" /\ MIE'
    BY <1>10, PutcStepIs DEF SysPutc, Mret
  <2>2. Len(Wire) > 0 => ~Open(Wire[Len(Wire)])
    BY <2>1 DEF LogInv, InLine
  <2>3. Len(Wire) > 0 => Adjacent(Wire[Len(Wire)], Byte("echo", EchoByte))
    BY <2>2 DEF Open, Adjacent, Byte
  <2>4. /\ \A i \in 1..(Len(Wire') - 1) : Adjacent(Wire'[i], Wire'[i + 1])
        /\ Wire'[Len(Wire')] = Byte("echo", EchoByte)
    <3>1. \A i \in 1..(Len(Wire) - 1) : Adjacent(Wire[i], Wire[i + 1])
      BY DEF LogInv
    <3>2. QED
      BY <1>2, <2>1, <2>3, <3>1, AdjacentGrows, Zenon
  <2>5. ~Open(Byte("echo", EchoByte))
    BY DEF Open, Byte
  <2>6. QED
    BY <2>1, <2>4, <2>5 DEF LogInv, InLine
<1>11. CASE SysCall
  BY <1>11, <1>8 DEF SysCall, Trap, uart, Wire
<1>12. CASE EchoBranch
  BY <1>12, <1>1 DEF EchoBranch, uart, kernel, Wire
<1>13. CASE UNCHANGED vars
  BY <1>13, <1>1 DEF vars, uart, kernel, Wire
<1>14. CASE StartScheduler
  <2>1. at = "start" /\ at' = "kmain" /\ MIE' /\ todo' = Line /\ Wire' = Wire
    BY <1>14, SwitchLineIs DEF StartScheduler, uart, Wire
  <2>2. ~InLine /\ ~InLine'
    BY <2>1 DEF InLine, Line
  <2>3. QED
    BY <2>1, <2>2 DEF LogInv
<1>15. QED
  BY <1>3, <1>4, <1>5, <1>6, <1>7, <1>9, <1>10, <1>11, <1>12, <1>13, <1>14
     DEF Next, KernelStep, EchoStep
-----------------------------------------------------------------------------
\* What the echo task has written.
Written == SentBy("echo", Wire)

\* What the echo task holds is a sequence of bytes.
LEMMA EchoTypes ==
  ASSUME ConsoleTypeOK, EchoTaskInv
  PROVE  /\ Written \in Seq(Char) /\ Held \in Seq(Char)
         /\ Echoed(rx) \in Seq(Char) /\ Echoed(received) \in Seq(Char)
<1>1. Wire \in Seq(Entry)
  BY DEF Wire, ConsoleTypeOK
<1>2. Written \in Seq(Char)
  BY <1>1, SentByType DEF Written
<1>3. EchoOf("ff") \in Seq(Char)
  BY DEF EchoOf
<1>4. pc \in {"test", "putc"} => EchoOf(byte) \in Seq(Char)
  BY <1>3, EchoOfCases DEF EchoTaskInv
<1>5. <<"lf">> \in Seq(Char) /\ <<>> \in Seq(Char)
  BY DEF Char
<1>6. Held \in Seq(Char)
  BY <1>4, <1>5 DEF Held, ConsoleTypeOK
<1>7. QED
  BY <1>2, <1>6, EchoedType DEF ConsoleTypeOK

\* The lines of the kernel add nothing to the echo.
LEMMA LogIsNoEcho ==
  ASSUME ConsoleTypeOK, NEW w \in {"log", "kmain"}, NEW b, Byte(w, b) \in Entry
  PROVE  SentBy("echo", Append(Wire, Byte(w, b))) = Written
<1>1. Wire \in Seq(Entry)
  BY DEF Wire, ConsoleTypeOK
<1>2. SentOf("echo", Byte(w, b)) = <<>>
  BY DEF SentOf, Byte
<1>3. SentBy("echo", Append(Wire, Byte(w, b))) = Written \o <<>>
  BY <1>1, <1>2, SentByAppend, Zenon DEF Written
<1>4. Written \in Seq(Char)
  BY <1>1, SentByType DEF Written
<1>5. QED
  BY <1>3, <1>4

\* A byte of the echo task adds itself.
LEMMA EchoAdds ==
  ASSUME ConsoleTypeOK, NEW b, Byte("echo", b) \in Entry
  PROVE  SentBy("echo", Append(Wire, Byte("echo", b))) = Written \o <<b>>
<1>1. Wire \in Seq(Entry)
  BY DEF Wire, ConsoleTypeOK
<1>2. SentOf("echo", Byte("echo", b)) = <<b>>
  BY DEF SentOf, Byte
<1>3. QED
  BY <1>1, <1>2, SentByAppend, Zenon DEF Written

\* Concatenation is associative and <<>> its unit, in the form EchoStays needs.
LEMMA Regroup ==
  ASSUME NEW S, NEW a \in Seq(S), NEW b \in Seq(S), NEW c \in Seq(S)
  PROVE  /\ (a \o <<>>) \o (b \o c) = (a \o b) \o c
         /\ <<>> \o a = a /\ <<>> \in Seq(S)
  OBVIOUS

\* Receiving a byte adds its echo to what is queued; SYS_GETC moves it from what
\* is queued to what is held; SYS_PUTC moves it from what is held to what is
\* written.
LEMMA EchoStays ==
  ASSUME ConsoleTypeOK, UartInv, EchoTaskInv, LogInv, EchoInv, [Next]_vars
  PROVE  EchoInv'
<1>0. /\ Written \in Seq(Char) /\ Held \in Seq(Char)
      /\ Echoed(rx) \in Seq(Char) /\ Echoed(received) \in Seq(Char)
  BY EchoTypes
<1>1. at # "init" => (Written \o Held) \o Echoed(rx) = Echoed(received)
  BY DEF EchoInv, Written
<1>2. SUFFICES at' # "init" =>
        (Written' \o Held') \o Echoed(rx') = Echoed(received')
  BY DEF EchoInv, Written
<1>3. ASSUME at # "init", Written' = Written, Held' = Held, UNCHANGED <<rx, received>>
      PROVE  (Written' \o Held') \o Echoed(rx') = Echoed(received')
  BY <1>1, <1>3, Zenon
<1>4. CASE InitUart
  <2>1. SUFFICES ASSUME at' = "log"
                 PROVE  (Written' \o Held') \o Echoed(rx') = Echoed(received')
    BY <1>4, InitStepIs
  <2>2. /\ line' = <<>> /\ tx' = <<>> /\ received' = <<>> /\ pc' = "getc" /\ rx' = <<>>
    BY <1>4, <2>1, InitStepIs
  <2>3. Held' = <<>>
    BY <2>2 DEF Held
  <2>4. <<>> \in Seq(Input) /\ <<>> \in Seq(Entry) /\ Len(<<>>) = 0
    OBVIOUS
  <2>5. Echoed(rx') = <<>> /\ Echoed(received') = <<>>
    BY <2>2, <2>4, EchoedEmpty, Zenon
  <2>6. Wire' \in Seq(Entry) /\ Len(Wire') = 0
    BY <2>2, <2>4 DEF Wire
  <2>7. Written' = <<>>
    BY <2>6, SentByEmpty, Zenon DEF Written
  <2>8. QED
    BY <2>3, <2>5, <2>7
<1>5. CASE Transmit
  <2>1. Written' = Written
    BY <1>5, WireTransmits, Zenon DEF Written
  <2>2. Held' = Held /\ UNCHANGED <<rx, received, at>>
    BY <1>5 DEF Transmit, Held, kernel, echo, host
  <2>3. QED
    BY <1>3, <2>1, <2>2
<1>6. CASE Receive
  <2>1. PICK b \in Input :
          IF Len(rx) < Capacity
          THEN /\ rx' = Append(rx, b)
               /\ received' = IF at = "init" THEN received ELSE Append(received, b)
          ELSE UNCHANGED <<rx, received>>
    BY <1>6 DEF Receive
  <2>2. UNCHANGED <<at, Wire, Held>>
    BY <1>6 DEF Receive, kernel, echo, Wire, Held
  <2>3. Written' = Written /\ Held' = Held
    BY <2>2, Zenon DEF Written
  <2>4. ASSUME at # "init", Len(rx) < Capacity
        PROVE  (Written' \o Held') \o Echoed(rx') = Echoed(received')
    <3>1. rx \in Seq(Input) /\ received \in Seq(Input)
      BY DEF ConsoleTypeOK
    <3>2. /\ Echoed(rx') = Echoed(rx) \o EchoOf(b)
          /\ Echoed(received') = Echoed(received) \o EchoOf(b)
      BY <2>1, <2>4, <3>1, EchoedAppend, Zenon
    <3>3. EchoOf(b) \in Seq(Char)
      BY EchoOfCases
    <3>4. (Written \o Held) \o (Echoed(rx) \o EchoOf(b))
            = ((Written \o Held) \o Echoed(rx)) \o EchoOf(b)
      BY <1>0, <3>3
    <3>5. QED
      BY <1>1, <2>3, <2>4, <3>2, <3>4, Zenon
  <2>5. QED
    BY <1>3, <2>1, <2>2, <2>3, <2>4
<1>7. CASE Log \/ KmainPuts
  <2>1. Written' = Written
    <3>1. /\ at \in {"log", "kmain"} /\ Byte(at, Head(todo)) \in Entry
          /\ Wire' = Append(Wire, Byte(at, Head(todo)))
      BY <1>7, LineStepIs DEF Log, KmainPuts
    <3>2. QED
      BY <3>1, LogIsNoEcho, Zenon DEF Written
  <2>2. Held' = Held /\ UNCHANGED <<rx, received>> /\ at # "init"
    BY <1>7, LineStepIs DEF Log, KmainPuts, UartFields, Held, echo, host
  <2>3. QED
    BY <1>3, <2>1, <2>2
<1>8. CASE Switch \/ StartScheduler
  <2>1. UNCHANGED <<Wire, Held, rx, received>> /\ at # "init"
    BY <1>8 DEF Switch, StartScheduler, LogInv, uart, echo, host, Wire, Held
  <2>2. Written' = Written
    BY <2>1, Zenon DEF Written
  <2>3. QED
    BY <1>3, <2>1, <2>2
<1>9. CASE SysGetc
  <2>1. UNCHANGED <<Wire, received>> /\ at # "init" /\ pc = "getc" /\ pc' = "test"
    BY <1>9 DEF SysGetc, Mret, host, Wire, EchoTaskInv
  <2>2. Written' = Written
    BY <2>1, Zenon DEF Written
  <2>3. Held = <<>> /\ Held' = EchoOf(byte')
    BY <2>1 DEF Held
  <2>4. Echoed(rx) = EchoOf(byte') \o Echoed(rx') /\ EchoOf(byte') \in Seq(Char)
        /\ Echoed(rx') \in Seq(Char)
    <3>1. rx \in Seq(Input)
      BY DEF ConsoleTypeOK
    <3>2. CASE rx # <<>>
      <4>1. byte' = Head(rx) /\ rx' = Tail(rx)
        BY <1>9, <3>2 DEF SysGetc
      <4>2. Head(rx) \in Input /\ Tail(rx) \in Seq(Input)
        BY <3>1, <3>2
      <4>3. QED
        BY <3>1, <3>2, <4>1, <4>2, EchoedHead, EchoOfCases, EchoedType, Zenon
    <3>3. CASE rx = <<>>
      <4>1. byte' = "ff" /\ rx' = rx
        BY <1>9, <3>3 DEF SysGetc
      <4>2. EchoOf(byte') = <<>>
        BY <4>1 DEF EchoOf
      <4>3. QED
        BY <1>0, <4>1, <4>2, Regroup, Zenon
    <3>4. QED
      BY <3>2, <3>3
  <2>5. (Written \o <<>>) \o (EchoOf(byte') \o Echoed(rx'))
          = (Written \o EchoOf(byte')) \o Echoed(rx')
    <3>1. /\ Written \in Seq(Char) /\ EchoOf(byte') \in Seq(Char)
          /\ Echoed(rx') \in Seq(Char)
      BY <1>0, <2>4
    <3>2. QED
      BY <3>1, Regroup
  <2>6. QED
    BY <1>1, <2>1, <2>2, <2>3, <2>4, <2>5, Zenon
<1>10. CASE SysPutc
  <2>1. /\ Byte("echo", EchoByte) \in Entry
        /\ Wire' = Append(Wire, Byte("echo", EchoByte))
        /\ UNCHANGED <<rx, received>> /\ at # "init"
    BY <1>10, PutcStepIs DEF SysPutc, Mret, UartFields, host
  <2>2. Written' = Written \o <<EchoByte>> /\ EchoByte \in Char
    <3>1. Written' = Written \o <<EchoByte>>
      BY <2>1, EchoAdds, Zenon DEF Written
    <3>2. QED
      BY <2>1, <3>1 DEF Byte, Entry
  <2>3. Held = <<EchoByte>> \o Held' /\ Held' \in Seq(Char)
    <3>1. CASE pc = "newline"
      BY <1>10, <3>1 DEF SysPutc, Held, EchoByte
    <3>2. CASE pc = "putc"
      <4>1. byte \in Input /\ byte # "ff" /\ UNCHANGED byte /\ pc' = "cr_test"
        BY <1>10, <3>2 DEF SysPutc, EchoTaskInv
      <4>2. Held = EchoOf(byte) /\ EchoByte = byte
            /\ Held' = IF byte = "cr" THEN <<"lf">> ELSE <<>>
        BY <3>2, <4>1 DEF Held, EchoByte
      <4>3. CASE byte = "cr"
        <5>1. EchoOf(byte) = <<"cr", "lf">> /\ Held' = <<"lf">>
          BY <4>1, <4>2, <4>3, EchoOfCases
        <5>2. <<"cr", "lf">> = <<"cr">> \o <<"lf">> /\ <<"lf">> \in Seq(Char)
          BY DEF Char
        <5>3. QED
          BY <4>2, <4>3, <5>1, <5>2
      <4>4. CASE byte # "cr"
        <5>1. EchoOf(byte) = <<byte>> /\ Held' = <<>>
          BY <4>1, <4>2, <4>4, EchoOfCases
        <5>2. <<byte>> = <<byte>> \o <<>> /\ <<>> \in Seq(Char)
          OBVIOUS
        <5>3. QED
          BY <4>2, <5>1, <5>2
      <4>5. QED
        BY <4>3, <4>4
    <3>3. QED
      BY <1>10, <3>1, <3>2 DEF SysPutc, Mret, EchoTaskInv
  <2>4. (Written \o <<EchoByte>>) \o Held' = Written \o (<<EchoByte>> \o Held')
    BY <1>0, <2>2, <2>3
  <2>5. (Written' \o Held') \o Echoed(rx') = (Written \o Held) \o Echoed(rx)
    BY <2>1, <2>2, <2>3, <2>4, Zenon
  <2>6. QED
    BY <1>1, <2>1, <2>5, Zenon
<1>11. CASE SysCall
  <2>1. UNCHANGED <<Wire, Held, rx, received>> /\ at # "init"
    BY <1>11 DEF SysCall, Trap, uart, echo, host, Wire, Held
  <2>2. Written' = Written
    BY <2>1, Zenon DEF Written
  <2>3. QED
    BY <1>3, <2>1, <2>2
<1>12. CASE EchoBranch
  <2>1. UNCHANGED <<Wire, rx, received, byte>> /\ at # "init"
    BY <1>12 DEF EchoBranch, uart, host, Wire
  <2>2. Written' = Written
    BY <2>1, Zenon DEF Written
  <2>3. Held' = Held
    <3>1. EchoOf("ff") = <<>>
      BY DEF EchoOf
    <3>2. QED
      BY <1>12, <2>1, <3>1 DEF EchoBranch, Held
  <2>4. QED
    BY <1>3, <2>1, <2>2, <2>3
<1>13. CASE UNCHANGED vars
  <2>1. UNCHANGED <<Wire, Held, rx, received, at>>
    BY <1>13 DEF vars, uart, kernel, echo, host, Wire, Held
  <2>2. Written' = Written
    BY <2>1, Zenon DEF Written
  <2>3. QED
    BY <1>3, <2>1, <2>2
<1>14. QED
  BY <1>4, <1>5, <1>6, <1>7, <1>8, <1>9, <1>10, <1>11, <1>12, <1>13
     DEF Next, KernelStep, EchoStep

\* Before the first write of serial::init.
LEMMA ConsoleStarts == Init => ConsoleInv
<1> SUFFICES ASSUME Init PROVE ConsoleInv
  OBVIOUS
<1>1. ConsoleTypeOK
  BY DEF Init, ConsoleTypeOK
<1>2. at = "init" /\ pc = "getc" /\ line = <<>> /\ Len(Wire) = 0
  BY DEF Init, Wire
<1>3. InitProgress
  <2>1. writes = SubSeq(InitWrites, 1, 6)
    <3>1. InitWrites = SubSeq(InitWrites, 1, 6)
      BY DEF InitWrites
    <3>2. QED
      BY <3>1 DEF Init
  <2>2. QED
    BY <2>1, 1 \in 1..6 DEF Init, InitProgress
<1>4. SentBy("init", line) = <<>>
  BY <1>1, <1>2, Len(<<>>) = 0, SentByEmpty, Zenon DEF ConsoleTypeOK
<1>5. UartInv
  BY <1>2, <1>3, <1>4 DEF UartInv
<1>6. EchoTaskInv /\ EchoInv /\ LogInv
  BY <1>2 DEF Init, EchoTaskInv, EchoInv, LogInv, InLine
<1>7. QED
  BY <1>1, <1>5, <1>6 DEF ConsoleInv

-----------------------------------------------------------------------------
\* The invariant holds in every reachable state.
THEOREM ConsoleInvariant == Spec => []ConsoleInv
<1>1. ConsoleInv /\ [Next]_vars => ConsoleInv'
  BY ConsoleTypes, UartStays, EchoTaskStays, EchoStays, LogStays DEF ConsoleInv
<1>2. QED
  BY <1>1, ConsoleStarts, PTL DEF Spec

\* Whenever a byte can be sent serial::init has finished: divisor 1, DLAB
\* clear, FIFOs on, and none of its register writes went out as a byte.
THEOREM UartIsConfigured == Spec => []UartConfigured
<1>1. ConsoleInv => UartConfigured
  BY DEF ConsoleInv, UartInv, UartConfigured
<1>2. QED
  BY <1>1, ConsoleInvariant, PTL

\* On the line the bytes of a log message stand together, its "\r\n" included:
\* the echo task's bytes fall before or after it, never inside.  Only kmain's
\* line can be cut, by the message of the first tick, and it is not resumed
\* (puts, start_scheduler, schedule).
THEOREM LogLinesAreWhole == Spec => []LogLinesWhole
<1>1. ConsoleInv => LogLinesWhole
  <2> SUFFICES ASSUME ConsoleInv, NEW i \in 1..(Len(line) - 1)
               PROVE  Adjacent(line[i], line[i + 1])
    BY DEF LogLinesWhole
  <2>1. line \in Seq(Entry) /\ tx \in Seq(Entry)
    BY DEF ConsoleInv, ConsoleTypeOK
  <2>2. i \in 1..(Len(Wire) - 1) /\ Wire[i] = line[i] /\ Wire[i + 1] = line[i + 1]
    BY <2>1 DEF Wire
  <2>3. QED
    BY <2>2 DEF ConsoleInv, LogInv
<1>2. QED
  BY <1>1, ConsoleInvariant, PTL

\* What the echo task has written is a beginning of the echo of what was
\* received: no byte lost, doubled, invented or out of order.
THEOREM EchoIsInOrder == Spec => []EchoInOrder
<1>1. ConsoleInv => EchoInOrder
  <2> SUFFICES ASSUME ConsoleInv PROVE Begins(Written, Echoed(received))
    BY DEF EchoInOrder, Written, Wire
  <2>1. /\ Written \in Seq(Char) /\ Held \in Seq(Char)
        /\ Echoed(rx) \in Seq(Char) /\ Echoed(received) \in Seq(Char)
    BY EchoTypes DEF ConsoleInv
  <2>2. CASE at # "init"
    <3>1. Echoed(received) = (Written \o Held) \o Echoed(rx)
      BY <2>2 DEF ConsoleInv, EchoInv, Written
    <3>2. QED
      BY <2>1, <3>1 DEF Begins
  <2>3. CASE at = "init"
    <3>1. Wire \in Seq(Entry) /\ Len(Wire) = 0
      BY <2>3 DEF ConsoleInv, UartInv, InitProgress, Wire
    <3>2. Written = <<>>
      BY <3>1, SentByEmpty, Zenon DEF Written
    <3>3. QED
      BY <2>1, <3>2 DEF Begins
  <2>4. QED
    BY <2>2, <2>3
<1>2. QED
  BY <1>1, ConsoleInvariant, PTL
=============================================================================
