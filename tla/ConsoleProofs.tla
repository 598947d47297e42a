---------------------------- MODULE ConsoleProofs ----------------------------
(***************************************************************************)
(* Proofs about the console, for every set of characters, size of the      *)
(* buffers and amount of input: that the bytes on their way from the       *)
(* handler to read are at any moment the lines on the screen, and when the *)
(* unwrap() in read can fail.                                              *)
(***************************************************************************)
EXTENDS Console, SequenceTheorems, WellFoundedInduction, TLAPS

-----------------------------------------------------------------------------
(* Induction over the bytes queued *)

\* A set of numbers has a least one: induction is done by the least exception.
LEMMA Least ==
    ASSUME NEW T, T \subseteq Nat, T # {}
    PROVE  \E x \in T : \A y \in T : x <= y
<1> DEFINE R == OpToRel(<, Nat)
<1>1. IsWellFoundedOn(R, Nat)
  BY NatLessThanWellFounded
<1>2. \A x, y \in Nat : y < x => <<y, x>> \in R
  BY DEF OpToRel
<1> HIDE DEF R
<1>3. PICK x \in T : \A y \in T : ~(<<y, x>> \in R)
  BY <1>1, WFMin
<1>4. ASSUME NEW y \in T PROVE x <= y
  <2>1. x \in Nat /\ y \in Nat /\ ~(y < x)
    BY <1>2, <1>3
  <2> QED BY <2>1
<1> QED BY <1>4

-----------------------------------------------------------------------------
(* Editing: what read makes of one byte *)

Line == Seq(Chars)

\* The lines read so far and the one being read.
Lines == Seq(Line) \ {<<>>}

\* All but the last.
LEMMA FrontFacts ==
    ASSUME NEW S, NEW seq \in Seq(S), seq # <<>>
    PROVE  /\ Len(seq) \in Nat \ {0}
           /\ Front(seq) \in Seq(S) /\ Len(Front(seq)) = Len(seq) - 1
           /\ \A i \in 1..(Len(seq) - 1) : Front(seq)[i] = seq[i]
<1>1. Len(seq) \in Nat \ {0}
  BY EmptySeq
<1> DEFINE n == Len(seq) - 1
<1>2. n \in Int /\ n >= 0 /\ 1 \in Int /\ \A i \in 1..n : seq[i] \in S
  BY <1>1
<1> HIDE DEF n
<1>3. /\ SubSeq(seq, 1, n) \in Seq(S)
      /\ Len(SubSeq(seq, 1, n)) = IF 1 <= n THEN n - 1 + 1 ELSE 0
      /\ \A i \in 1..(n - 1 + 1) : SubSeq(seq, 1, n)[i] = seq[1 + i - 1]
  BY <1>2, SubSeqProperties
<1>4. n - 1 + 1 = n /\ (IF 1 <= n THEN n - 1 + 1 ELSE 0) = n /\ \A i \in 1..n : 1 + i - 1 = i
  BY <1>2
<1>5. /\ SubSeq(seq, 1, n) \in Seq(S) /\ Len(SubSeq(seq, 1, n)) = n
      /\ \A i \in 1..n : SubSeq(seq, 1, n)[i] = seq[i]
  BY <1>3, <1>4
<1> QED BY <1>1, <1>5 DEF Front, n

\* Cut into the lines before and the last one.
LEMMA SplitLines ==
    ASSUME NEW lines \in Lines
    PROVE  /\ Len(lines) \in Nat \ {0}
           /\ Front(lines) \in Seq(Line) /\ Last(lines) \in Line
           /\ Len(Front(lines)) = Len(lines) - 1
           /\ \A i \in 1..(Len(lines) - 1) : Front(lines)[i] = lines[i]
<1>1. Len(lines) \in Nat \ {0} /\ lines \in Seq(Line)
  BY EmptySeq DEF Lines
<1>2. Last(lines) \in Line
  BY <1>1 DEF Last
<1>3. /\ Front(lines) \in Seq(Line) /\ Len(Front(lines)) = Len(lines) - 1
      /\ \A i \in 1..(Len(lines) - 1) : Front(lines)[i] = lines[i]
  BY <1>1, FrontFacts DEF Lines
<1> QED BY <1>1, <1>2, <1>3

\* A line loses its last character.
LEMMA ErasedIsLine ==
    ASSUME NEW line \in Line
    PROVE  Erased(line) \in Line /\ (line # <<>> => Len(Erased(line)) = Len(line) - 1)
<1>1. CASE line = <<>>
  BY <1>1 DEF Erased, Line
<1>2. CASE line # <<>>
  <2>1. Front(line) \in Line /\ Len(Front(line)) = Len(line) - 1
    BY <1>2, FrontFacts DEF Line
  <2> QED BY <1>2, <2>1 DEF Erased
<1> QED BY <1>1, <1>2

\* The bytes are told apart.
LEMMA ByteFacts ==
    /\ "\n" \notin Chars /\ "\r" \notin Chars /\ "bs" \notin Chars /\ "del" \notin Chars
    /\ "none" \notin Chars /\ "none" \notin Queued
    /\ "\n" \in Queued /\ "bs" \in Queued /\ Chars \subseteq Queued
BY ConsoleAssumption DEF Queued

\* What Edited does to the lines, byte by byte.
LEMMA EditedCases ==
    ASSUME NEW lines
    PROVE  /\ Edited(lines, "\n") = Append(lines, <<>>)
           /\ Edited(lines, "bs") = Append(Front(lines), Erased(Last(lines)))
           /\ \A v \in Chars : Edited(lines, v) = Append(Front(lines), Append(Last(lines), v))
           /\ Edited(lines, "none") = lines
BY ByteFacts DEF Edited

\* A byte adds a line or changes the last one.
LEMMA EditedFacts ==
    ASSUME NEW lines \in Lines, NEW v \in Queued
    PROVE  \/ /\ Edited(lines, v) = Append(lines, <<>>)
              /\ <<>> \in Line
           \/ \E line \in Line : Edited(lines, v) = Append(Front(lines), line)
<1>1. CASE v = "\n"
  BY <1>1, EditedCases DEF Line
<1>2. CASE v = "bs"
  BY <1>2, EditedCases, ErasedIsLine, SplitLines
<1>3. CASE v \in Chars
  <2>1. Append(Last(lines), v) \in Line
    BY <1>3, SplitLines DEF Line
  <2> QED BY <1>3, <2>1, EditedCases
<1> QED BY <1>1, <1>2, <1>3 DEF Queued

\* The lines before the last one stay.
LEMMA EditedKeeps ==
    ASSUME NEW lines \in Lines, NEW v \in Queued
    PROVE  /\ Edited(lines, v) \in Lines
           /\ Len(Edited(lines, v)) >= Len(lines)
           /\ \A i \in 1..(Len(lines) - 1) : Edited(lines, v)[i] = lines[i]
<1>1. CASE Edited(lines, v) = Append(lines, <<>>) /\ <<>> \in Line
  BY <1>1, AppendProperties DEF Lines
<1>2. ASSUME NEW line \in Line, Edited(lines, v) = Append(Front(lines), line)
      PROVE  /\ Edited(lines, v) \in Lines
             /\ Len(Edited(lines, v)) >= Len(lines)
             /\ \A i \in 1..(Len(lines) - 1) : Edited(lines, v)[i] = lines[i]
  BY <1>2, SplitLines, AppendProperties DEF Lines
<1> QED BY <1>1, <1>2, EditedFacts

\* Behind the first line, editing does not see it.
LEMMA EditedTail ==
    ASSUME NEW lines \in Lines, NEW v \in Queued, Len(lines) >= 2
    PROVE  /\ Tail(lines) \in Lines
           /\ Last(Tail(lines)) = Last(lines)
           /\ Tail(Edited(lines, v)) = Edited(Tail(lines), v)
<1>1. lines \in Seq(Line) /\ lines # <<>> /\ Len(lines) \in Nat
  BY DEF Lines
<1>2. Tail(lines) \in Lines /\ Len(Tail(lines)) = Len(lines) - 1
  <2>1. Tail(lines) \in Seq(Line) /\ Len(Tail(lines)) = Len(lines) - 1
    BY <1>1
  <2>2. Len(Tail(lines)) # 0
    BY <1>1, <2>1
  <2>3. Tail(lines) # <<>>
    BY <2>2, EmptySeq
  <2> QED BY <2>1, <2>3 DEF Lines
<1>3. Last(Tail(lines)) = Last(lines)
  BY <1>1, <1>2 DEF Last
<1>4. Tail(Front(lines)) = Front(Tail(lines)) /\ Front(lines) # <<>> /\ Front(lines) \in Seq(Line)
  <2>1. Front(lines) \in Seq(Line) /\ Len(Front(lines)) = Len(lines) - 1 /\ Front(lines) # <<>>
    BY <1>1, SplitLines, EmptySeq
  <2>2. /\ Tail(Front(lines)) \in Seq(Line) /\ Len(Tail(Front(lines))) = Len(lines) - 2
        /\ \A i \in 1..(Len(lines) - 2) : Tail(Front(lines))[i] = lines[i + 1]
    BY <1>1, <2>1, SplitLines, HeadTailProperties
  <2>3. /\ Front(Tail(lines)) \in Seq(Line) /\ Len(Front(Tail(lines))) = Len(lines) - 2
        /\ \A i \in 1..(Len(lines) - 2) : Front(Tail(lines))[i] = lines[i + 1]
    <3> DEFINE tail == Tail(lines)
    <3>1. \A i \in 1..(Len(lines) - 1) : tail[i] = lines[i + 1]
      BY <1>1, HeadTailProperties
    <3>2. tail \in Lines /\ Len(tail) = Len(lines) - 1
      BY <1>2
    <3> HIDE DEF tail
    <3>3. /\ Front(tail) \in Seq(Line) /\ Len(Front(tail)) = Len(tail) - 1
          /\ \A i \in 1..(Len(tail) - 1) : Front(tail)[i] = tail[i]
      BY <3>2, SplitLines
    <3>4. \A i \in 1..(Len(lines) - 2) : Front(tail)[i] = lines[i + 1]
      BY <1>1, <3>1, <3>2, <3>3
    <3>5. Len(Front(tail)) = Len(lines) - 2
      BY <1>1, <3>2, <3>3
    <3> QED BY <3>3, <3>4, <3>5, Zenon DEF tail
  <2>4. Tail(Front(lines)) = Front(Tail(lines))
    BY <1>1, <2>2, <2>3, SeqEqual
  <2> QED BY <2>1, <2>4
<1>5. \A x : /\ Tail(Append(lines, x)) = Append(Tail(lines), x)
             /\ Tail(Append(Front(lines), x)) = Append(Front(Tail(lines)), x)
  BY <1>1, <1>4, HeadTailAppend
<1>6. Tail(Edited(lines, v)) = Edited(Tail(lines), v)
  <2>1. CASE v = "\n"
    <3>1. Edited(lines, v) = Append(lines, <<>>) /\ Edited(Tail(lines), v) = Append(Tail(lines), <<>>)
      BY <2>1, EditedCases
    <3>2. Tail(Append(lines, <<>>)) = Append(Tail(lines), <<>>)
      BY <1>5
    <3> QED BY <3>1, <3>2
  <2>2. CASE v = "bs"
    <3> DEFINE x == Erased(Last(lines))
    <3>1. Edited(lines, v) = Append(Front(lines), x) /\ Edited(Tail(lines), v) = Append(Front(Tail(lines)), x)
      BY <1>3, <2>2, EditedCases
    <3> HIDE DEF x
    <3> QED BY <1>5, <3>1
  <2>3. CASE v \in Chars
    <3> DEFINE x == Append(Last(lines), v)
    <3>1. Edited(lines, v) = Append(Front(lines), x) /\ Edited(Tail(lines), v) = Append(Front(Tail(lines)), x)
      BY <1>3, <2>3, EditedCases
    <3> HIDE DEF x
    <3> QED BY <1>5, <3>1
  <2> QED BY <2>1, <2>2, <2>3 DEF Queued
<1> QED BY <1>2, <1>3, <1>6

\* Editing seen from the end: shown and screen.
LEMMA LastAppended ==
    ASSUME NEW lines \in Seq(Line), NEW line \in Line
    PROVE  /\ Append(lines, line) \in Lines
           /\ Last(Append(lines, line)) = line
           /\ Front(Append(lines, line)) = lines
<1> DEFINE both == Append(lines, line)
<1>1. /\ both \in Seq(Line) /\ both # <<>> /\ Len(both) = Len(lines) + 1 /\ Len(lines) \in Nat
      /\ \A i \in 1..Len(lines) : both[i] = lines[i]
      /\ both[Len(lines) + 1] = line
  BY AppendProperties
<1>2. both \in Lines /\ Last(both) = line
  BY <1>1 DEF Lines, Last
<1> HIDE DEF both
<1>3. /\ Front(both) \in Seq(Line) /\ Len(Front(both)) = Len(lines)
      /\ \A i \in 1..Len(lines) : Front(both)[i] = lines[i]
  BY <1>1, <1>2, SplitLines
<1>4. Front(both) = lines
  BY <1>3, SeqEqual
<1> QED BY <1>2, <1>4 DEF both

-----------------------------------------------------------------------------
(* The bytes on their way *)

\* g[i] are the lines once read has had the first i bytes of buffer.
Editing(g, first, buffer) ==
    /\ g \in [0..Len(buffer) -> Lines]
    /\ g[0] = first
    /\ \A i \in 1..Len(buffer) : g[i] = Edited(g[i - 1], buffer[i])

\* Some line is not empty.
Text(lines) == \E i \in 1..Len(lines) : lines[i] # <<>>

\* An erasure finds a character, or comes after a line of text: one of those in past,
\* or one still to be read.
Backed(g, buffer, past) ==
    \A i \in 1..Len(buffer) :
        buffer[i] = "bs" /\ Last(g[i - 1]) = <<>> => Text(past) \/ Text(g[i - 1])

\* From the lines first, buffer leads to the lines end.
Way(first, buffer, end, past) ==
    \E g : /\ Editing(g, first, buffer)
           /\ g[Len(buffer)] = end
           /\ Backed(g, buffer, past)

\* Nothing on its way.
LEMMA WayEmpty ==
    ASSUME NEW first \in Lines, NEW past
    PROVE  Way(first, <<>>, first, past)
<1> DEFINE g == [i \in 0..0 |-> first]
<1>1. Editing(g, first, <<>>)
  BY DEF Editing
<1>2. g[Len(<<>>)] = first /\ Backed(g, <<>>, past)
  BY DEF Backed
<1> HIDE DEF g
<1> QED BY <1>1, <1>2 DEF Way

\* The handler queues a byte.
LEMMA WayAppend ==
    ASSUME NEW buffer \in Seq(Queued), NEW v \in Queued, NEW first, NEW end \in Lines, NEW past,
           Way(first, buffer, end, past),
           v = "bs" /\ Last(end) = <<>> => Text(past) \/ Text(end)
    PROVE  Way(first, Append(buffer, v), Edited(end, v), past)
<1>1. PICK g : Editing(g, first, buffer) /\ g[Len(buffer)] = end /\ Backed(g, buffer, past)
  BY DEF Way
<1> DEFINE n == Len(buffer)
           b == Append(buffer, v)
           h == [i \in 0..(n + 1) |-> IF i = n + 1 THEN Edited(end, v) ELSE g[i]]
<1>2. /\ n \in Nat /\ Len(b) = n + 1 /\ b[n + 1] = v
      /\ \A i \in 1..n : b[i] = buffer[i]
  BY AppendProperties
<1>3. Edited(end, v) \in Lines
  BY EditedKeeps
<1> HIDE DEF b
<1>4. \A i \in 0..(n + 1) : i # n + 1 => i \in 0..n
  BY <1>2
<1>5. h \in [0..(n + 1) -> Lines] /\ h[0] = first /\ h[n + 1] = Edited(end, v)
  BY <1>1, <1>2, <1>3, <1>4 DEF Editing
<1>6. \A i \in 0..n : h[i] = g[i]
  BY <1>2
<1> HIDE DEF h
<1>7. ASSUME NEW i \in 1..(n + 1)
      PROVE  /\ h[i] = Edited(h[i - 1], b[i])
             /\ b[i] = "bs" /\ Last(h[i - 1]) = <<>> => Text(past) \/ Text(h[i - 1])
  <2>1. CASE i = n + 1
    <3>1. i - 1 = n /\ n \in 0..n
      BY <1>2, <2>1
    <3>2. h[i - 1] = end /\ b[i] = v /\ h[i] = Edited(end, v)
      BY <1>1, <1>2, <1>5, <1>6, <2>1, <3>1
    <3> QED BY <3>2
  <2>2. CASE i # n + 1
    <3>1. i \in 1..n /\ i \in 0..n /\ i - 1 \in 0..n
      BY <1>2, <2>2
    <3>2. h[i] = g[i] /\ h[i - 1] = g[i - 1] /\ b[i] = buffer[i]
      BY <1>2, <1>6, <3>1
    <3> QED BY <1>1, <3>1, <3>2 DEF Editing, Backed
  <2> QED BY <2>1, <2>2
<1> HIDE DEF n
<1>8. Editing(h, first, b) /\ h[Len(b)] = Edited(end, v) /\ Backed(h, b, past)
  BY <1>2, <1>5, <1>7 DEF Editing, Backed
<1> QED BY <1>8 DEF Way, b

\* The shell takes a byte.
LEMMA WayHead ==
    ASSUME NEW buffer \in Seq(Queued), buffer # <<>>, NEW line \in Line, NEW end, NEW past,
           Way(<<line>>, buffer, end, past)
    PROVE  /\ Way(Edited(<<line>>, Head(buffer)), Tail(buffer), end, past)
           /\ Head(buffer) = "bs" /\ line = <<>> => Text(past)
<1>1. PICK g : Editing(g, <<line>>, buffer) /\ g[Len(buffer)] = end /\ Backed(g, buffer, past)
  BY DEF Way
<1> DEFINE n == Len(buffer)
           b == Tail(buffer)
           h == [i \in 0..(n - 1) |-> g[i + 1]]
<1>2. /\ n \in Nat \ {0} /\ Len(b) = n - 1 /\ Head(buffer) = buffer[1]
      /\ \A i \in 1..(n - 1) : b[i] = buffer[i + 1]
  BY EmptySeq, HeadTailProperties
<1>3. g[0] = <<line>> /\ g[1] = Edited(<<line>>, buffer[1]) /\ 1 \in 1..n
  <2>1. 1 \in 1..n /\ 1 - 1 = 0
    BY <1>2
  <2> QED BY <1>1, <2>1 DEF Editing
<1>4. Head(buffer) = "bs" /\ line = <<>> => Text(past)
  <2>1. SUFFICES ASSUME Head(buffer) = "bs", line = <<>> PROVE Text(past)
    OBVIOUS
  <2>2. Last(<<line>>) = <<>> /\ ~Text(<<line>>)
    BY <2>1 DEF Last, Text
  <2>3. 1 - 1 = 0
    OBVIOUS
  <2> QED BY <1>1, <1>2, <1>3, <2>1, <2>2, <2>3 DEF Backed
<1>5. \A i \in 0..(n - 1) : i + 1 \in 0..n
  BY <1>2
<1>6. h \in [0..(n - 1) -> Lines] /\ h[0] = Edited(<<line>>, Head(buffer)) /\ h[n - 1] = end
  <2>1. 0 \in 0..(n - 1) /\ n - 1 \in 0..(n - 1) /\ 0 + 1 = 1 /\ n - 1 + 1 = n
    BY <1>2
  <2>2. h[0] = g[1] /\ h[n - 1] = g[n]
    BY <2>1
  <2>3. h \in [0..(n - 1) -> Lines]
    BY <1>1, <1>5 DEF Editing
  <2> QED BY <1>1, <1>2, <1>3, <2>2, <2>3
<1>7. ASSUME NEW i \in 1..(n - 1)
      PROVE  /\ h[i] = Edited(h[i - 1], b[i])
             /\ b[i] = "bs" /\ Last(h[i - 1]) = <<>> => Text(past) \/ Text(h[i - 1])
  <2>1. /\ i \in 0..(n - 1) /\ i - 1 \in 0..(n - 1) /\ i - 1 + 1 = i /\ i + 1 \in 1..n
        /\ i + 1 - 1 = i
    BY <1>2
  <2>2. h[i] = g[i + 1] /\ h[i - 1] = g[i] /\ b[i] = buffer[i + 1]
    BY <1>2, <2>1
  <2>3. /\ g[i + 1] = Edited(g[i], buffer[i + 1])
        /\ buffer[i + 1] = "bs" /\ Last(g[i]) = <<>> => Text(past) \/ Text(g[i])
    BY <1>1, <2>1 DEF Editing, Backed
  <2> QED BY <2>2, <2>3
<1> HIDE DEF n, h, b
<1>8. /\ Editing(h, Edited(<<line>>, Head(buffer)), b) /\ h[Len(b)] = end
      /\ Backed(h, b, past)
  BY <1>2, <1>6, <1>7 DEF Editing, Backed
<1> QED BY <1>4, <1>8 DEF Way, b

\* Until more is edited, the line just ended stays first.
LEMMA FirstStays ==
    ASSUME NEW buffer \in Seq(Queued), NEW line \in Line, NEW g,
           Editing(g, <<line, <<>>>>, buffer)
    PROVE  \A i \in 0..Len(buffer) : Len(g[i]) >= 2 /\ g[i][1] = line
<1> DEFINE Good(i) == Len(g[i]) >= 2 /\ g[i][1] = line
           Bad == {i \in 0..Len(buffer) : ~Good(i)}
<1>1. Len(buffer) \in Nat
  OBVIOUS
<1>2. Good(0)
  BY DEF Editing
<1>3. ASSUME Bad # {} PROVE FALSE
  <2>1. Bad \subseteq Nat
    BY <1>1
  <2>2. PICK i \in Bad : \A y \in Bad : i <= y
    BY <1>3, <2>1, Least
  <2>3. i \in 1..Len(buffer) /\ i - 1 \in 0..Len(buffer) /\ ~(i <= i - 1)
    BY <1>1, <1>2
  <2>4. Good(i - 1)
    BY <2>2, <2>3
  <2>5. g[i - 1] \in Lines /\ buffer[i] \in Queued /\ g[i] = Edited(g[i - 1], buffer[i])
    BY <2>3 DEF Editing
  <2>6. Len(g[i - 1]) \in Nat /\ Len(g[i]) \in Nat /\ Len(g[i]) >= Len(g[i - 1])
    BY <2>5, EditedKeeps, SplitLines
  <2>7. 1 \in 1..(Len(g[i - 1]) - 1)
    BY <2>4, <2>6
  <2>8. g[i][1] = g[i - 1][1]
    <3>1. PICK lines \in Lines : lines = g[i - 1]
      BY <2>5
    <3>2. PICK v \in Queued : v = buffer[i]
      BY <2>5
    <3>3. \A k \in 1..(Len(lines) - 1) : Edited(lines, v)[k] = lines[k]
      BY EditedKeeps
    <3> QED BY <2>5, <2>7, <3>1, <3>2, <3>3
  <2> QED BY <2>2, <2>4, <2>6, <2>8
<1> QED BY <1>3

\* read returns a line.
LEMMA WayReturn ==
    ASSUME NEW buffer \in Seq(Queued), NEW line \in Line, NEW end, NEW past \in Seq(Line),
           Way(<<line, <<>>>>, buffer, end, past)
    PROVE  /\ end \in Lines /\ Len(end) >= 2 /\ end[1] = line
           /\ Way(<<<<>>>>, buffer, Tail(end), Append(past, line))
<1>1. PICK g : Editing(g, <<line, <<>>>>, buffer) /\ g[Len(buffer)] = end /\ Backed(g, buffer, past)
  BY DEF Way
<1> DEFINE n == Len(buffer)
           h == [i \in 0..n |-> Tail(g[i])]
<1>2. n \in Nat /\ n \in 0..n
  OBVIOUS
<1>3. \A i \in 0..n : g[i] \in Lines /\ Len(g[i]) >= 2 /\ g[i][1] = line
  <2>1. \A i \in 0..n : g[i] \in Lines
    BY <1>1 DEF Editing
  <2>2. \A i \in 0..n : Len(g[i]) >= 2 /\ g[i][1] = line
    BY <1>1, FirstStays
  <2> QED BY <2>1, <2>2
<1>4. end \in Lines /\ Len(end) >= 2 /\ end[1] = line
  BY <1>1, <1>2, <1>3
<1>5. \A i \in 0..n : Tail(g[i]) \in Lines /\ Last(Tail(g[i])) = Last(g[i])
  BY <1>3, EditedTail, ByteFacts
<1>6. h \in [0..n -> Lines] /\ h[n] = Tail(end)
  BY <1>1, <1>2, <1>5
<1>7. h[0] = <<<<>>>>
  <2>1. g[0] = <<line, <<>>>> /\ 0 \in 0..n
    BY <1>1, <1>2 DEF Editing
  <2>2. Tail(<<line, <<>>>>) = <<<<>>>>
    OBVIOUS
  <2> QED BY <2>1, <2>2
<1>8. ASSUME NEW i \in 1..n PROVE h[i] = Edited(h[i - 1], buffer[i])
  <2>1. i \in 0..n /\ i - 1 \in 0..n /\ buffer[i] \in Queued
    BY <1>2
  <2>2. h[i] = Tail(g[i]) /\ h[i - 1] = Tail(g[i - 1]) /\ g[i] = Edited(g[i - 1], buffer[i])
    BY <1>1, <2>1 DEF Editing
  <2> QED BY <1>3, <2>1, <2>2, EditedTail
<1>9. ASSUME NEW i \in 1..n, buffer[i] = "bs", Last(h[i - 1]) = <<>>
      PROVE  Text(Append(past, line)) \/ Text(h[i - 1])
  <2>1. i - 1 \in 0..n
    BY <1>2
  <2> DEFINE lines == g[i - 1]
  <2>2. h[i - 1] = Tail(lines) /\ Last(h[i - 1]) = Last(lines)
    BY <1>5, <2>1
  <2>3. Text(past) \/ Text(lines)
    BY <1>1, <1>9, <2>2 DEF Backed
  <2>4. /\ Len(past) \in Nat /\ Len(Append(past, line)) = Len(past) + 1
        /\ \A j \in 1..Len(past) : Append(past, line)[j] = past[j]
        /\ Append(past, line)[Len(past) + 1] = line
    BY AppendProperties
  <2>5. CASE Text(past)
    BY <2>4, <2>5 DEF Text
  <2>6. CASE Text(lines)
    <3>1. PICK j \in 1..Len(lines) : lines[j] # <<>>
      BY <2>6 DEF Text
    <3>2. lines \in Seq(Line) /\ lines # <<>> /\ Len(lines) \in Nat /\ lines[1] = line
      BY <1>3, <2>1 DEF Lines
    <3> HIDE DEF lines
    <3>3. CASE j = 1
      <4>1. Append(past, line)[Len(past) + 1] # <<>> /\ Len(past) + 1 \in 1..Len(Append(past, line))
        BY <2>4, <3>1, <3>2, <3>3
      <4> QED BY <4>1 DEF Text
    <3>4. CASE j # 1
      <4>1. /\ Len(Tail(lines)) = Len(lines) - 1
            /\ \A k \in 1..Len(Tail(lines)) : Tail(lines)[k] = lines[k + 1]
        BY <3>2, HeadTailProperties
      <4>2. j - 1 \in 1..Len(Tail(lines)) /\ j - 1 + 1 = j
        BY <3>2, <3>4, <4>1
      <4>3. Tail(lines)[j - 1] # <<>>
        BY <3>1, <4>1, <4>2
      <4> QED BY <2>2, <4>2, <4>3 DEF Text
    <3> QED BY <3>3, <3>4
  <2> QED BY <2>3, <2>5, <2>6
<1> HIDE DEF h
<1>10. Editing(h, <<<<>>>>, buffer) /\ Backed(h, buffer, Append(past, line))
  BY <1>6, <1>7, <1>8, <1>9 DEF Editing, Backed
<1> QED BY <1>4, <1>6, <1>10 DEF Way

\* The recursive function of ToBeRead.
ReadForm(first, buffer, f) ==
    f = [i \in 0..Len(buffer) |-> IF i = 0 THEN first ELSE Edited(f[i - 1], buffer[i])]

\* What is on its way is what read will make of the bytes: there is one function
\* that edits them, byte by byte.
LEMMA WayIsRead ==
    ASSUME NEW buffer \in Seq(Queued), NEW first, NEW end, NEW past, Way(first, buffer, end, past)
    PROVE  (CHOOSE f : ReadForm(first, buffer, f))[Len(buffer)] = end
<1>1. PICK g : Editing(g, first, buffer) /\ g[Len(buffer)] = end
  BY DEF Way
<1> DEFINE n == Len(buffer)
           f == CHOOSE f : ReadForm(first, buffer, f)
           Bad == {i \in 0..n : f[i] # g[i]}
<1>2. n \in Nat /\ n \in 0..n /\ \A i \in 0..n : i # 0 => i \in 1..n
  OBVIOUS
<1>3. ReadForm(first, buffer, g)
  <2>1. ASSUME NEW i \in 0..n
        PROVE  g[i] = IF i = 0 THEN first ELSE Edited(g[i - 1], buffer[i])
    BY <1>1, <1>2 DEF Editing
  <2>2. g = [i \in 0..n |-> g[i]]
    BY <1>1 DEF Editing
  <2> QED BY <2>1, <2>2 DEF ReadForm
<1>4. ReadForm(first, buffer, f)
  BY <1>3
<1> HIDE DEF f
<1>5. f[0] = first /\ \A i \in 1..n : f[i] = Edited(f[i - 1], buffer[i])
  BY <1>2, <1>4 DEF ReadForm
<1>6. ASSUME Bad # {} PROVE FALSE
  <2>1. Bad \subseteq Nat
    OBVIOUS
  <2>2. PICK i \in Bad : \A y \in Bad : i <= y
    BY <1>6, <2>1, Least
  <2>3. i \in 1..n /\ i - 1 \in 0..n /\ ~(i <= i - 1)
    BY <1>1, <1>2, <1>5 DEF Editing
  <2>4. f[i - 1] = g[i - 1]
    BY <2>2, <2>3
  <2> QED BY <1>1, <1>5, <2>2, <2>3, <2>4 DEF Editing
<1> QED BY <1>1, <1>2, <1>6 DEF f

-----------------------------------------------------------------------------
(* The inductive invariant *)

\* What read has of the line, the byte it has not looked at included.
Begun == IF Reading THEN s ELSE <<>>
Held == Edited(<<Begun>>, ch)

\* The bytes queued lead from there to the screen.
OnItsWay == Way(Held, INPUT_BUFFER, Append(shown, screen), heard)

\* The erasure that read is about to do.
PendingInv == ch = "bs" /\ s = <<>> => Text(heard)

\* The handler's count is never behind the line on the screen, and ahead of it only
\* after a line of text.
CursorInv ==
    /\ CURSOR_POSITION >= Len(screen)
    /\ CURSOR_POSITION # Len(screen) => Text(heard) \/ Text(shown)

\* Until read ends the shell or a byte is dropped.
LineInv == shell # "popped" /\ ~overflowed => OnItsWay /\ PendingInv /\ CursorInv

\* read_char was called by read, which has not run before the shell starts.
ShellInv ==
    /\ ch # "none" => Reading
    /\ shell = "boot" => s = <<>>

\* TX_BUSY is seen taken only inside write_char, which the boot message and Write call; and
\* while Write prints, interrupts are off and no handler runs.
BusyInv ==
    /\ TX_BUSY => printing
    /\ printing => shell = "boot" \/ writing
    /\ writing => shell # "boot" /\ ~SIE /\ handling = "no"

PoppedInv == shell = "popped" /\ ~overflowed => Text(heard)

IInv ==
    /\ TypeOK
    /\ LineInv
    /\ ShellInv
    /\ BusyInv
    /\ PoppedInv

LEMMA InitInv == Init => IInv
<1> SUFFICES ASSUME Init PROVE IInv
  OBVIOUS
<1>1. <<>> \in Line /\ <<<<>>>> \in Lines
  BY DEF Line, Lines
<1>2. MaxInput \in Nat /\ FifoSize \in Nat /\ Capacity \in Nat
  BY ConsoleAssumption
<1>3. TypeOK
  <2>1. typed \in 0..MaxInput /\ CURSOR_POSITION \in Nat
    BY <1>2 DEF Init
  <2>2. fifo \in Seq(Keys) /\ Len(fifo) <= FifoSize
    BY <1>2 DEF Init
  <2>3. INPUT_BUFFER \in Seq(Queued) /\ Len(INPUT_BUFFER) <= Capacity
    BY <1>2 DEF Init
  <2>4. s \in Seq(Chars) /\ screen \in Seq(Chars)
    BY DEF Init
  <2>5. shown \in Seq(Seq(Chars)) /\ heard \in Seq(Seq(Chars))
    BY DEF Init
  <2>6. /\ claimed \in BOOLEAN /\ TX_BUSY \in BOOLEAN /\ printing \in BOOLEAN
        /\ writing \in BOOLEAN /\ SIE \in BOOLEAN /\ overflowed \in BOOLEAN
    BY Zenon DEF Init
  <2>7. handling \in {"no", "loop", "done"} /\ ch \in Queued \cup {"none"} /\ shell \in Shells
    BY DEF Init, Shells
  <2> QED BY <2>1, <2>2, <2>3, <2>4, <2>5, <2>6, <2>7 DEF TypeOK
<1>4. OnItsWay
  <2>1. Held = <<<<>>>>
    BY EditedCases DEF Init, Held, Begun, Reading
  <2>2. Append(shown, screen) = <<<<>>>>
    BY DEF Init
  <2>3. INPUT_BUFFER = <<>>
    BY DEF Init
  <2> QED BY <1>1, <2>1, <2>2, <2>3, WayEmpty DEF OnItsWay
<1>5. PendingInv /\ CursorInv /\ ShellInv /\ BusyInv /\ PoppedInv
  BY DEF Init, PendingInv, CursorInv, ShellInv, BusyInv, PoppedInv
<1> QED BY <1>3, <1>4, <1>5 DEF IInv, LineInv

-----------------------------------------------------------------------------
(* What the steps have in common *)

\* What the handler and the shell have and show.
LEMMA Typing ==
    ASSUME TypeOK
    PROVE  /\ INPUT_BUFFER \in Seq(Queued) /\ CURSOR_POSITION \in Nat
           /\ s \in Line /\ screen \in Line /\ Begun \in Line
           /\ shown \in Seq(Line) /\ heard \in Seq(Line)
           /\ Append(shown, screen) \in Lines
           /\ Len(screen) \in Nat
<1>1. /\ INPUT_BUFFER \in Seq(Queued) /\ CURSOR_POSITION \in Nat
      /\ s \in Line /\ screen \in Line
      /\ shown \in Seq(Line) /\ heard \in Seq(Line)
  BY DEF TypeOK, Line
<1>2. Begun \in Line /\ Len(screen) \in Nat
  BY <1>1 DEF Begun, Line
<1> QED BY <1>1, <1>2, LastAppended

\* A line of text more.
LEMMA TextAppend ==
    ASSUME NEW lines \in Seq(Line), NEW line \in Line
    PROVE  Text(Append(lines, line)) <=> Text(lines) \/ line # <<>>
<1> DEFINE both == Append(lines, line)
<1>1. /\ Len(lines) \in Nat /\ Len(both) = Len(lines) + 1
      /\ \A i \in 1..Len(lines) : both[i] = lines[i]
      /\ both[Len(lines) + 1] = line
  BY AppendProperties
<1> HIDE DEF both
<1>2. \A i \in 1..(Len(lines) + 1) : i \in 1..Len(lines) \/ i = Len(lines) + 1
  BY <1>1
<1>3. Len(lines) + 1 \in 1..(Len(lines) + 1) /\ \A i \in 1..Len(lines) : i \in 1..(Len(lines) + 1)
  BY <1>1
<1>4. Text(both) <=> Text(lines) \/ line # <<>>
  BY <1>1, <1>2, <1>3 DEF Text
<1> QED BY <1>4 DEF both

\* A line of text is the first one or behind it.
LEMMA TextTail ==
    ASSUME NEW lines \in Seq(Line), lines # <<>>, Text(lines)
    PROVE  Head(lines) # <<>> \/ Text(Tail(lines))
<1>1. PICK j \in 1..Len(lines) : lines[j] # <<>>
  BY DEF Text
<1>2. /\ Len(lines) \in Nat \ {0} /\ Len(Tail(lines)) = Len(lines) - 1 /\ Head(lines) = lines[1]
      /\ \A k \in 1..Len(Tail(lines)) : Tail(lines)[k] = lines[k + 1]
  BY EmptySeq, HeadTailProperties
<1>3. CASE j = 1
  BY <1>1, <1>2, <1>3
<1>4. CASE j # 1
  <2>1. j - 1 \in 1..Len(Tail(lines)) /\ j - 1 + 1 = j
    BY <1>2, <1>4
  <2>2. Tail(lines)[j - 1] # <<>>
    BY <1>1, <1>2, <2>1
  <2> QED BY <2>1, <2>2 DEF Text
<1> QED BY <1>3, <1>4

\* Steps that leave the bytes, the lines and what read has of them alone.
LEMMA LineKept ==
    ASSUME LineInv, UNCHANGED <<INPUT_BUFFER, CURSOR_POSITION, ch, seen, overflowed>>,
           Begun' = Begun, ch = "bs" => s' = s, shell' # "popped" => shell # "popped"
    PROVE  LineInv'
<1> SUFFICES ASSUME shell' # "popped", ~overflowed' PROVE (OnItsWay /\ PendingInv /\ CursorInv)'
  BY DEF LineInv
<1>1. OnItsWay /\ PendingInv /\ CursorInv
  BY DEF LineInv
<1>2. OnItsWay'
  BY <1>1 DEF OnItsWay, Held, seen
<1>3. PendingInv' /\ CursorInv'
  BY <1>1 DEF PendingInv, CursorInv, seen
<1> QED BY <1>2, <1>3

\* Steps of the device and of the output.
LEMMA Quiet ==
    ASSUME IInv, UNCHANGED <<kernel, ch, s, shell, seen, overflowed>>
    PROVE  LineInv' /\ ShellInv' /\ PoppedInv'
<1>1. LineInv'
  BY LineKept DEF IInv, kernel, Begun, Reading
<1>2. ShellInv' /\ PoppedInv'
  BY DEF IInv, ShellInv, PoppedInv, Reading, seen
<1> QED BY <1>1, <1>2

\* The handler queues a byte: the lines on the screen are edited as read will edit
\* them.
LEMMA Enqueues ==
    ASSUME TypeOK, LineInv, NEW v \in Queued, enqueue(v), UNCHANGED <<ch, s, shell, heard>>,
           Append(shown', screen') = Edited(Append(shown, screen), v),
           v = "bs" => CURSOR_POSITION > 0,
           TypeOK /\ CursorInv => CursorInv'
    PROVE  /\ LineInv'
           /\ INPUT_BUFFER' \in Seq(Queued) /\ Len(INPUT_BUFFER') <= Capacity
           /\ overflowed' \in BOOLEAN /\ (overflowed => overflowed')
<1>1. /\ INPUT_BUFFER \in Seq(Queued) /\ Len(INPUT_BUFFER) <= Capacity /\ Capacity \in Nat \ {0}
      /\ Len(INPUT_BUFFER) \in Nat
  BY ConsoleAssumption DEF TypeOK
<1>2. overflowed' = (overflowed \/ Len(INPUT_BUFFER) = Capacity)
  BY DEF enqueue
<1>3. CASE Len(INPUT_BUFFER) = Capacity
  <2>1. overflowed' = TRUE
    BY <1>2, <1>3
  <2>2. INPUT_BUFFER' = Append(Tail(INPUT_BUFFER), v) /\ INPUT_BUFFER # <<>>
    BY <1>1, <1>3 DEF enqueue
  <2>3. Tail(INPUT_BUFFER) \in Seq(Queued) /\ Len(Tail(INPUT_BUFFER)) = Len(INPUT_BUFFER) - 1
    BY <1>1, <2>2, HeadTailProperties
  <2>4. INPUT_BUFFER' \in Seq(Queued) /\ Len(INPUT_BUFFER') = Len(INPUT_BUFFER)
    BY <1>1, <2>2, <2>3, AppendProperties
  <2> QED BY <1>1, <2>1, <2>4 DEF LineInv
<1>4. CASE Len(INPUT_BUFFER) # Capacity
  <2>1. INPUT_BUFFER' = Append(INPUT_BUFFER, v) /\ (overflowed' <=> overflowed) /\ overflowed' \in BOOLEAN
    BY <1>2, <1>4 DEF enqueue, TypeOK
  <2>2. INPUT_BUFFER' \in Seq(Queued) /\ Len(INPUT_BUFFER') <= Capacity
    BY <1>1, <1>4, <2>1, AppendProperties
  <2>3. ASSUME shell' # "popped", ~overflowed' PROVE (OnItsWay /\ PendingInv /\ CursorInv)'
    <3>1. OnItsWay /\ PendingInv /\ CursorInv
      BY <2>1, <2>3 DEF LineInv
    <3> DEFINE end == Append(shown, screen)
    <3>2. end \in Lines /\ Last(end) = screen /\ (Text(shown) => Text(end))
      BY Typing, LastAppended, TextAppend
    <3>3. v = "bs" /\ Last(end) = <<>> => Text(heard) \/ Text(end)
      <4>1. ASSUME v = "bs", screen = <<>> PROVE Text(heard) \/ Text(shown)
        <5>1. Len(screen) = 0
          BY <4>1
        <5> QED BY <3>1, <4>1, <5>1, Typing DEF CursorInv
      <4> QED BY <3>2, <4>1
    <3>4. Way(Held, INPUT_BUFFER, end, heard)
      BY <3>1 DEF OnItsWay
    <3> HIDE DEF end
    <3>5. Way(Held, Append(INPUT_BUFFER, v), Edited(end, v), heard)
      BY <1>1, <3>2, <3>3, <3>4, WayAppend
    <3>6. Held' = Held
      BY DEF Held, Begun, Reading
    <3>7. OnItsWay'
      BY <2>1, <3>5, <3>6 DEF OnItsWay, end
    <3> QED BY <3>1, <3>7 DEF PendingInv
  <2> QED BY <2>1, <2>2, <2>3 DEF LineInv
<1> QED BY <1>3, <1>4

-----------------------------------------------------------------------------
(* The steps of the handler *)

\* A byte leaves the FIFO.
LEMMA ByteTaken ==
    ASSUME IInv, NEW v, NextByte(v), LineInv',
           CURSOR_POSITION' \in Nat,
           INPUT_BUFFER' \in Seq(Queued), Len(INPUT_BUFFER') <= Capacity,
           screen' \in Line, shown' \in Seq(Line),
           overflowed' \in BOOLEAN, overflowed => overflowed'
    PROVE  IInv'
<1>1. fifo' \in Seq(Keys) /\ Len(fifo') <= FifoSize
  <2>1. fifo \in Seq(Keys) /\ Len(fifo) <= FifoSize /\ fifo # <<>> /\ fifo' = Tail(fifo)
    BY DEF IInv, TypeOK, NextByte
  <2>2. fifo' \in Seq(Keys) /\ Len(fifo') = Len(fifo) - 1 /\ Len(fifo) \in Nat
    BY <2>1, HeadTailProperties
  <2> QED BY <2>1, <2>2, ConsoleAssumption
<1>2. TypeOK'
  BY <1>1 DEF IInv, TypeOK, NextByte, output, mode, Line
<1>3. ShellInv' /\ BusyInv' /\ PoppedInv'
  BY DEF IInv, ShellInv, BusyInv, PoppedInv, NextByte, Reading, output, mode
<1> QED BY <1>2, <1>3 DEF IInv

LEMMA HandleNewlineInv ==
    ASSUME IInv, NEW v \in Keys, HandleNewline(v)
    PROVE  IInv'
<1>1. /\ NextByte(v) /\ enqueue("\n") /\ shown' = Append(shown, screen) /\ screen' = <<>>
      /\ CURSOR_POSITION' = CURSOR_POSITION
  BY DEF HandleNewline, NewlineByte
<1>2. UNCHANGED <<ch, s, shell, heard>>
  BY <1>1 DEF NextByte
<1>3. TypeOK /\ LineInv /\ "\n" \in Queued
  BY ByteFacts DEF IInv
<1>4. Append(shown', screen') = Edited(Append(shown, screen), "\n")
  BY <1>1, EditedCases
<1>5. screen' \in Line /\ shown' \in Seq(Line)
  BY <1>1, <1>3, Typing, AppendProperties DEF Line
<1>6. ASSUME CursorInv PROVE CursorInv'
  <2>1. Len(screen') = 0
    BY <1>1
  <2>2. Text(shown') <=> Text(shown) \/ screen # <<>>
    BY <1>1, <1>3, Typing, TextAppend
  <2>3. screen = <<>> => Len(screen) = 0
    OBVIOUS
  <2> QED BY <1>1, <1>2, <1>3, <1>6, <2>1, <2>2, <2>3, Typing DEF CursorInv
<1>7. /\ LineInv'
      /\ INPUT_BUFFER' \in Seq(Queued) /\ Len(INPUT_BUFFER') <= Capacity
      /\ overflowed' \in BOOLEAN /\ (overflowed => overflowed')
  BY <1>1, <1>2, <1>3, <1>4, <1>6, Enqueues
<1> QED BY <1>1, <1>3, <1>5, <1>7, ByteTaken, Typing

LEMMA HandleEraseInv ==
    ASSUME IInv, NEW v \in Keys, HandleErase(v)
    PROVE  IInv'
<1>1. /\ NextByte(v) /\ enqueue("bs") /\ shown' = shown /\ screen' = Erased(screen)
      /\ CURSOR_POSITION > 0 /\ CURSOR_POSITION' = CURSOR_POSITION - 1
  BY DEF HandleErase, CanErase
<1>2. UNCHANGED <<ch, s, shell, heard>>
  BY <1>1 DEF NextByte
<1>3. TypeOK /\ LineInv /\ "bs" \in Queued
  BY ByteFacts DEF IInv
<1>4. Append(shown', screen') = Edited(Append(shown, screen), "bs")
  <2> DEFINE end == Append(shown, screen)
  <2>1. Last(end) = screen /\ Front(end) = shown
    BY <1>3, LastAppended, Typing
  <2> HIDE DEF end
  <2>2. Edited(end, "bs") = Append(shown, Erased(screen))
    BY <1>1, <2>1, EditedCases
  <2> QED BY <1>1, <2>2 DEF end
<1>5. screen' \in Line /\ shown' \in Seq(Line) /\ CURSOR_POSITION' \in Nat
  BY <1>1, <1>3, Typing, ErasedIsLine
<1>6. ASSUME CursorInv PROVE CursorInv'
  <2>1. CASE screen = <<>>
    <3>1. Len(screen) = 0 /\ Len(screen') = 0
      BY <1>1, <2>1 DEF Erased
    <3> QED BY <1>1, <1>2, <1>3, <1>6, <3>1, Typing DEF CursorInv
  <2>2. CASE screen # <<>>
    <3>1. Len(screen') = Len(screen) - 1
      BY <1>1, <1>3, <2>2, Typing, ErasedIsLine
    <3> QED BY <1>1, <1>2, <1>3, <1>6, <3>1, Typing DEF CursorInv
  <2> QED BY <2>1, <2>2
<1>7. /\ LineInv'
      /\ INPUT_BUFFER' \in Seq(Queued) /\ Len(INPUT_BUFFER') <= Capacity
      /\ overflowed' \in BOOLEAN /\ (overflowed => overflowed')
  BY <1>1, <1>2, <1>3, <1>4, <1>6, Enqueues
<1> QED BY <1>1, <1>5, <1>7, ByteTaken

LEMMA HandleEraseIgnoredInv ==
    ASSUME IInv, NEW v \in Keys, HandleEraseIgnored(v)
    PROVE  IInv'
<1>1. NextByte(v) /\ UNCHANGED <<kernel, screen, shown, overflowed>>
  BY DEF HandleEraseIgnored
<1>2. UNCHANGED <<ch, s, shell, seen>>
  BY <1>1 DEF NextByte, seen
<1>3. LineInv'
  BY <1>1, <1>2, Quiet
<1>4. /\ CURSOR_POSITION' \in Nat
      /\ INPUT_BUFFER' \in Seq(Queued) /\ Len(INPUT_BUFFER') <= Capacity
      /\ screen' \in Line /\ shown' \in Seq(Line)
      /\ overflowed' \in BOOLEAN /\ (overflowed => overflowed')
  BY <1>1 DEF kernel, IInv, TypeOK, Line
<1> QED BY <1>1, <1>3, <1>4, ByteTaken

LEMMA HandleCharInv ==
    ASSUME IInv, NEW v \in Keys, HandleChar(v)
    PROVE  IInv'
<1>1. /\ NextByte(v) /\ enqueue(v) /\ shown' = shown /\ screen' = Append(screen, v)
      /\ CURSOR_POSITION' = CURSOR_POSITION + 1 /\ v \in Chars
  BY DEF HandleChar, Keys, IsNewline, IsErase, Advanced
<1>2. UNCHANGED <<ch, s, shell, heard>>
  BY <1>1 DEF NextByte
<1>3. TypeOK /\ LineInv /\ v \in Queued /\ v # "bs"
  BY <1>1, ByteFacts DEF IInv
<1>4. Append(shown', screen') = Edited(Append(shown, screen), v)
  <2> DEFINE end == Append(shown, screen)
  <2>1. Last(end) = screen /\ Front(end) = shown
    BY <1>3, LastAppended, Typing
  <2> HIDE DEF end
  <2>2. Edited(end, v) = Append(shown, Append(screen, v))
    BY <1>1, <2>1, EditedCases
  <2> QED BY <1>1, <2>2 DEF end
<1>5. screen' \in Line /\ shown' \in Seq(Line) /\ CURSOR_POSITION' \in Nat /\ Len(screen') = Len(screen) + 1
  BY <1>1, <1>3, Typing, AppendProperties DEF Line
<1>6. ASSUME CursorInv PROVE CursorInv'
  BY <1>1, <1>2, <1>3, <1>5, <1>6, Typing DEF CursorInv
<1>7. /\ LineInv'
      /\ INPUT_BUFFER' \in Seq(Queued) /\ Len(INPUT_BUFFER') <= Capacity
      /\ overflowed' \in BOOLEAN /\ (overflowed => overflowed')
  BY <1>1, <1>2, <1>3, <1>4, <1>6, Enqueues
<1> QED BY <1>1, <1>5, <1>7, ByteTaken

\* Steps that change the device and the output only.
LEMMA DeviceInv ==
    ASSUME IInv, UNCHANGED <<kernel, ch, s, shell, seen, overflowed>>,
           \/ \E v \in Keys : Type(v)
           \/ handle_interrupt \/ HandlerReturns \/ complete
           \/ WriteCharTakes \/ WriteCharStores \/ SyscallWrite \/ WriteReturns
    PROVE  IInv'
<1>1. LineInv' /\ ShellInv' /\ PoppedInv'
  BY Quiet
<1>2. MaxInput \in Nat /\ FifoSize \in Nat
  BY ConsoleAssumption
<1>3. /\ typed \in 0..MaxInput /\ fifo \in Seq(Keys) /\ Len(fifo) <= FifoSize
      /\ TX_BUSY \in BOOLEAN /\ printing \in BOOLEAN /\ claimed \in BOOLEAN
      /\ writing \in BOOLEAN /\ SIE \in BOOLEAN
      /\ handling \in {"no", "loop", "done"}
  BY DEF IInv, TypeOK
<1>4. ASSUME typed' \in 0..MaxInput, fifo' \in Seq(Keys), Len(fifo') <= FifoSize,
             handling' \in {"no", "loop", "done"}, claimed' \in BOOLEAN,
             TX_BUSY' \in BOOLEAN, printing' \in BOOLEAN,
             writing' \in BOOLEAN, SIE' \in BOOLEAN
      PROVE  TypeOK'
  BY <1>4 DEF IInv, TypeOK, kernel, seen
<1>5. ASSUME NEW v \in Keys, Type(v) PROVE IInv'
  <2>1. typed' \in 0..MaxInput
    BY <1>2, <1>3, <1>5 DEF Type
  <2>2. fifo' \in Seq(Keys) /\ Len(fifo') <= FifoSize
    BY <1>2, <1>3, <1>5, AppendProperties DEF Type
  <2>3. TypeOK'
    BY <1>3, <1>4, <1>5, <2>1, <2>2 DEF Type, output, mode
  <2>4. BusyInv'
    BY <1>5 DEF IInv, BusyInv, Type, output, mode
  <2> QED BY <1>1, <2>3, <2>4 DEF IInv
<1>6. CASE handle_interrupt
  <2>1. TX_BUSY' \in BOOLEAN /\ (TX_BUSY' => TX_BUSY)
    <3>1. TX_BUSY' = TX_BUSY \/ TX_BUSY' = FALSE
      BY <1>6 DEF handle_interrupt
    <3>2. CASE TX_BUSY' = TX_BUSY
      BY <1>3, <3>2
    <3>3. CASE TX_BUSY' = FALSE
      BY <3>3
    <3> QED BY <3>1, <3>2, <3>3
  <2>2. TypeOK'
    BY <1>3, <1>4, <1>6, <2>1 DEF handle_interrupt
  <2>3. BusyInv'
    BY <1>6, <2>1 DEF IInv, BusyInv, handle_interrupt
  <2> QED BY <1>1, <2>2, <2>3 DEF IInv
<1>7. CASE HandlerReturns
  <2>1. TypeOK'
    BY <1>3, <1>4, <1>7 DEF HandlerReturns, output, mode
  <2>2. BusyInv'
    BY <1>7 DEF IInv, BusyInv, HandlerReturns, output, mode
  <2> QED BY <1>1, <2>1, <2>2 DEF IInv
<1>8. CASE complete
  <2>1. TypeOK'
    BY <1>3, <1>4, <1>8 DEF complete, Completed, output
  <2>2. BusyInv'
    BY <1>8 DEF IInv, BusyInv, complete, output
  <2> QED BY <1>1, <2>1, <2>2 DEF IInv
<1>9. CASE WriteCharTakes
  <2>1. TypeOK'
    BY <1>3, <1>4, <1>9 DEF WriteCharTakes, device, mode
  <2>2. BusyInv'
    BY <1>9 DEF IInv, BusyInv, WriteCharTakes, Prints, device, mode
  <2> QED BY <1>1, <2>1, <2>2 DEF IInv
<1>10. CASE WriteCharStores
  <2>1. TypeOK'
    BY <1>3, <1>4, <1>10 DEF WriteCharStores, Released, device, mode
  <2>2. BusyInv'
    BY <1>10 DEF IInv, BusyInv, WriteCharStores, Released, device, mode
  <2> QED BY <1>1, <2>1, <2>2 DEF IInv
<1>11. CASE SyscallWrite
  <2>1. TypeOK'
    BY <1>3, <1>4, <1>11 DEF SyscallWrite, SIEInSyscall, device, output
  <2>2. BusyInv'
    BY <1>11 DEF IInv, BusyInv, SyscallWrite, SIEInSyscall, UserMode, device, output
  <2> QED BY <1>1, <2>1, <2>2 DEF IInv
<1>12. CASE WriteReturns
  <2>1. TypeOK'
    BY <1>3, <1>4, <1>12 DEF WriteReturns, device, output
  <2>2. BusyInv'
    BY <1>12 DEF IInv, BusyInv, WriteReturns, device, output
  <2> QED BY <1>1, <2>1, <2>2 DEF IInv
<1> QED BY <1>5, <1>6, <1>7, <1>8, <1>9, <1>10, <1>11, <1>12

-----------------------------------------------------------------------------
(* The steps of the shell *)

\* The shell does nothing to the device and the output.
LEMMA ShellTypes ==
    ASSUME TypeOK, UNCHANGED <<device, output, mode, CURSOR_POSITION, screen, overflowed>>,
           INPUT_BUFFER' \in Seq(Queued), Len(INPUT_BUFFER') <= Capacity,
           ch' \in Queued \cup {"none"}, s' \in Line, shell' \in Shells,
           shown' \in Seq(Line), heard' \in Seq(Line)
    PROVE  TypeOK'
BY DEF TypeOK, device, output, mode, Line

\* In user mode, TX_BUSY is free.
LEMMA ShellBusy ==
    ASSUME BusyInv, UserMode, UNCHANGED <<device, output, mode>>
    PROVE  BusyInv'
BY DEF BusyInv, UserMode, output, mode

LEMMA BootDoneInv ==
    ASSUME IInv, BootDone
    PROVE  IInv'
<1>1. Begun' = Begun /\ ch' = ch /\ ch = "none"
  BY DEF IInv, ShellInv, BootDone, Begun, Reading
<1>2. LineInv'
  BY <1>1, ByteFacts, LineKept DEF IInv, BootDone, kernel
<1>3. TypeOK'
  BY ShellTypes DEF IInv, TypeOK, BootDone, kernel, seen, Shells, Line
<1>4. ShellInv' /\ BusyInv' /\ PoppedInv'
  BY <1>1 DEF IInv, ShellInv, BusyInv, PoppedInv, BootDone, device, output, mode
<1> QED BY <1>2, <1>3, <1>4 DEF IInv

LEMMA SyscallReadCharInv ==
    ASSUME IInv, SyscallReadChar
    PROVE  IInv'
<1>1. /\ Reading /\ UserMode /\ ch = "none" /\ INPUT_BUFFER # <<>>
      /\ ch' = Head(INPUT_BUFFER) /\ INPUT_BUFFER' = Tail(INPUT_BUFFER)
      /\ UNCHANGED <<device, output, mode, CURSOR_POSITION, s, shell, seen, overflowed>>
  BY DEF SyscallReadChar
<1>2. /\ INPUT_BUFFER \in Seq(Queued) /\ Len(INPUT_BUFFER) <= Capacity
      /\ Capacity \in Nat /\ s \in Line
  BY ConsoleAssumption DEF IInv, TypeOK, Line
<1>3. /\ ch' \in Queued /\ INPUT_BUFFER' \in Seq(Queued) /\ Len(INPUT_BUFFER') <= Capacity
  <2>1. /\ ch' \in Queued /\ INPUT_BUFFER' \in Seq(Queued)
        /\ Len(INPUT_BUFFER') = Len(INPUT_BUFFER) - 1 /\ Len(INPUT_BUFFER) \in Nat
    BY <1>1, <1>2, HeadTailProperties
  <2> QED BY <1>2, <2>1
<1>4. TypeOK'
  BY <1>1, <1>3, ShellTypes DEF IInv, TypeOK, seen, Line
<1>5. ShellInv' /\ BusyInv' /\ PoppedInv'
  BY <1>1, ShellBusy DEF IInv, ShellInv, PoppedInv, Reading, seen
<1>6. LineInv'
  <2> SUFFICES ASSUME shell' # "popped", ~overflowed' PROVE (OnItsWay /\ PendingInv /\ CursorInv)'
    BY DEF LineInv
  <2>1. OnItsWay /\ CursorInv
    BY <1>1 DEF IInv, LineInv
  <2>2. Held = <<s>> /\ Held' = Edited(<<s>>, Head(INPUT_BUFFER))
    BY <1>1, EditedCases DEF Held, Begun, Reading
  <2>3. Way(<<s>>, INPUT_BUFFER, Append(shown, screen), heard)
    BY <2>1, <2>2 DEF OnItsWay
  <2>4. /\ Way(Edited(<<s>>, Head(INPUT_BUFFER)), Tail(INPUT_BUFFER), Append(shown, screen), heard)
        /\ Head(INPUT_BUFFER) = "bs" /\ s = <<>> => Text(heard)
    BY <1>1, <1>2, <2>3, WayHead
  <2>5. OnItsWay'
    BY <1>1, <2>2, <2>4 DEF OnItsWay, seen
  <2>6. PendingInv' /\ CursorInv'
    BY <1>1, <2>1, <2>4 DEF PendingInv, CursorInv, seen
  <2> QED BY <2>5, <2>6
<1> QED BY <1>4, <1>5, <1>6 DEF IInv

\* read looks at a byte that leaves one line.
LEMMA ReadEdits ==
    ASSUME LineInv, Reading, Reading', ch' = "none", <<s'>> = Edited(<<s>>, ch),
           UNCHANGED <<kernel, shell, seen, overflowed>>
    PROVE  LineInv'
<1> SUFFICES ASSUME shell' # "popped", ~overflowed' PROVE (OnItsWay /\ PendingInv /\ CursorInv)'
  BY DEF LineInv
<1>1. OnItsWay /\ CursorInv
  BY DEF LineInv
<1>2. Held' = Held
  BY EditedCases DEF Held, Begun
<1>3. OnItsWay'
  BY <1>1, <1>2 DEF OnItsWay, kernel, seen
<1>4. PendingInv' /\ CursorInv'
  BY <1>1 DEF PendingInv, CursorInv, kernel, seen
<1> QED BY <1>3, <1>4

\* Edited on a single line.
LEMMA EditedOne ==
    ASSUME NEW line \in Line
    PROVE  /\ Edited(<<line>>, "\n") = <<line, <<>>>>
           /\ Edited(<<line>>, "bs") = <<Erased(line)>>
           /\ \A v \in Chars : Edited(<<line>>, v) = <<Append(line, v)>>
<1>1. Last(<<line>>) = line /\ Front(<<line>>) = <<>>
  <2>1. <<>> \in Seq(Line) /\ Append(<<>>, line) = <<line>>
    OBVIOUS
  <2> QED BY <2>1, LastAppended
<1>2. <<>> \in Line /\ Append(<<line>>, <<>>) = <<line, <<>>>>
  <2>1. <<>> \in Line
    BY DEF Line
  <2>2. ASSUME NEW x \in Line PROVE Append(<<line>>, x) = <<line, x>>
    <3>1. <<line>> \in Seq(Line) /\ Len(<<line>>) = 1
      OBVIOUS
    <3>2. <<line, x>> \in Seq(Line) /\ Len(<<line, x>>) = 2
      OBVIOUS
    <3> DEFINE both == Append(<<line>>, x)
    <3>3. both \in Seq(Line) /\ Len(both) = 2 /\ both[1] = line /\ both[2] = x
      BY <3>1, AppendProperties
    <3> HIDE DEF both
    <3>4. \A i \in 1..2 : both[i] = <<line, x>>[i]
      BY <3>3
    <3>5. both = <<line, x>>
      BY <3>2, <3>3, <3>4, SeqEqual
    <3> QED BY <3>5 DEF both
  <2> QED BY <2>1, <2>2
<1>3. ASSUME NEW x \in Line PROVE Append(<<>>, x) = <<x>>
  OBVIOUS
<1>4. Erased(line) \in Line
  BY ErasedIsLine
<1>5. ASSUME NEW v \in Chars PROVE Append(line, v) \in Line
  BY DEF Line
<1>6. Edited(<<line>>, "\n") = <<line, <<>>>>
  BY <1>2, EditedCases
<1>7. Edited(<<line>>, "bs") = <<Erased(line)>>
  <2>1. Edited(<<line>>, "bs") = Append(<<>>, Erased(line))
    BY <1>1, EditedCases
  <2> QED BY <1>3, <1>4, <2>1
<1>8. ASSUME NEW v \in Chars PROVE Edited(<<line>>, v) = <<Append(line, v)>>
  <2>1. Edited(<<line>>, v) = Append(<<>>, Append(line, v))
    BY <1>1, EditedCases
  <2> QED BY <1>3, <1>5, <2>1
<1> QED BY <1>6, <1>7, <1>8

LEMMA ReadPushesInv ==
    ASSUME IInv, ReadPushes
    PROVE  IInv'
<1>1. /\ Reading /\ UserMode /\ ch \in Chars /\ s' = Append(s, ch) /\ ch' = "none"
      /\ UNCHANGED <<device, output, mode, kernel, shell, seen, overflowed>>
  BY DEF ReadPushes
<1>2. s \in Line /\ s' \in Line
  BY <1>1 DEF IInv, TypeOK, Line
<1>3. TypeOK'
  BY <1>1, <1>2, ShellTypes DEF IInv, TypeOK, kernel, seen, Line
<1>4. ShellInv' /\ BusyInv' /\ PoppedInv'
  BY <1>1, ShellBusy DEF IInv, ShellInv, PoppedInv, Reading, seen
<1>5. <<s'>> = Edited(<<s>>, ch)
  BY <1>1, <1>2, EditedOne
<1>6. Reading'
  BY <1>1 DEF Reading
<1>7. LineInv'
  BY <1>1, <1>5, <1>6, ReadEdits DEF IInv
<1> QED BY <1>3, <1>4, <1>7 DEF IInv

LEMMA ReadPopsInv ==
    ASSUME IInv, ReadPops
    PROVE  IInv'
<1>1. /\ Reading /\ UserMode /\ ch = "bs" /\ s' = Erased(s) /\ ch' = "none"
      /\ shell' = IF s = <<>> THEN "popped" ELSE shell
      /\ UNCHANGED <<device, output, mode, kernel, seen, overflowed>>
  BY DEF ReadPops
<1>2. s \in Line /\ s' \in Line
  BY <1>1, ErasedIsLine DEF IInv, TypeOK, Line
<1>3. TypeOK'
  BY <1>1, <1>2, ShellTypes DEF IInv, TypeOK, kernel, seen, Line, Shells
<1>4. ShellInv' /\ BusyInv'
  BY <1>1, ShellBusy DEF IInv, ShellInv, Reading
<1>5. CASE s = <<>>
  <2>1. shell' = "popped" /\ shell # "popped"
    BY <1>1, <1>5 DEF Reading
  <2>2. LineInv'
    BY <2>1 DEF LineInv
  <2>3. PoppedInv'
    BY <1>1, <1>5, <2>1 DEF IInv, LineInv, PendingInv, PoppedInv, seen
  <2> QED BY <1>3, <1>4, <2>2, <2>3 DEF IInv
<1>6. CASE s # <<>>
  <2>1. shell' = shell /\ Reading'
    BY <1>1, <1>6 DEF Reading
  <2>2. <<s'>> = Edited(<<s>>, ch)
    BY <1>1, <1>2, EditedOne
  <2>3. LineInv'
    BY <1>1, <2>1, <2>2, ReadEdits DEF IInv
  <2>4. PoppedInv'
    BY <1>1, <2>1 DEF IInv, PoppedInv, seen
  <2> QED BY <1>3, <1>4, <2>3, <2>4 DEF IInv
<1> QED BY <1>5, <1>6

LEMMA ReadReturnsInv ==
    ASSUME IInv, ReadReturns
    PROVE  IInv'
<1>1. /\ Reading /\ UserMode /\ ch = "\n" /\ ch' = "none"
      /\ shell' = IF shell = "prompt" THEN (IF s = <<>> THEN "prompt" ELSE "process")
                  ELSE IF Confirms(s) THEN "off" ELSE "prompt"
      /\ heard' = IF shown = <<>> THEN heard ELSE Append(heard, Head(shown))
      /\ shown' = IF shown = <<>> THEN shown ELSE Tail(shown)
      /\ s' = IF shell = "prompt" THEN s ELSE <<>>
      /\ UNCHANGED <<device, output, mode, kernel, screen, overflowed>>
  BY DEF ReadReturns
<1>2. TypeOK
  BY DEF IInv
<1>3. s' \in Line /\ shell' \in {"prompt", "process", "off"}
  BY <1>1, <1>2, Typing DEF Line
<1>4. shown' \in Seq(Line) /\ heard' \in Seq(Line)
  <2>1. CASE shown = <<>>
    BY <1>1, <1>2, <2>1, Typing
  <2>2. CASE shown # <<>>
    <3>1. Head(shown) \in Line /\ Tail(shown) \in Seq(Line)
      BY <1>2, <2>2, Typing, HeadTailProperties
    <3> QED BY <1>1, <1>2, <2>2, <3>1, Typing, AppendProperties
  <2> QED BY <2>1, <2>2
<1>5. TypeOK'
  BY <1>1, <1>3, <1>4, ShellTypes DEF IInv, TypeOK, kernel, Shells
<1>6. ShellInv' /\ BusyInv' /\ PoppedInv'
  <2>1. shell # "boot" /\ shell' # "boot" /\ shell' # "popped"
    BY <1>1, <1>3 DEF Reading
  <2> QED BY <1>1, <2>1, ShellBusy DEF IInv, ShellInv, PoppedInv
<1>7. Held' = <<<<>>>>
  <2>1. Begun' = <<>>
    BY <1>1 DEF Begun, Reading
  <2> QED BY <1>1, <2>1, EditedCases DEF Held
<1>8. LineInv'
  <2> SUFFICES ASSUME shell' # "popped", ~overflowed' PROVE (OnItsWay /\ PendingInv /\ CursorInv)'
    BY DEF LineInv
  <2>1. OnItsWay /\ CursorInv
    BY <1>1 DEF IInv, LineInv, Reading
  <2>2. Held = <<s, <<>>>>
    BY <1>1, <1>2, EditedOne, Typing DEF Held, Begun
  <2> DEFINE end == Append(shown, screen)
  <2>3. Way(<<s, <<>>>>, INPUT_BUFFER, end, heard)
    BY <2>1, <2>2 DEF OnItsWay
  <2>4. shown \in Seq(Line) /\ heard \in Seq(Line) /\ s \in Line /\ INPUT_BUFFER \in Seq(Queued)
    BY <1>2, Typing
  <2> HIDE DEF end
  <2>5. /\ Len(end) >= 2 /\ end[1] = s
        /\ Way(<<<<>>>>, INPUT_BUFFER, Tail(end), Append(heard, s))
    BY <2>3, <2>4, WayReturn
  <2>6. shown # <<>> /\ Head(shown) = s /\ Tail(end) = Append(Tail(shown), screen)
    <3>1. Len(end) = Len(shown) + 1 /\ \A i \in 1..Len(shown) : end[i] = shown[i]
      BY <1>2, <2>4, Typing, AppendProperties DEF end
    <3>2. Len(shown) \in Nat \ {0} /\ shown # <<>>
      BY <2>4, <2>5, <3>1
    <3>3. Head(shown) = shown[1] /\ 1 \in 1..Len(shown)
      BY <2>4, <3>2
    <3>4. Tail(end) = Append(Tail(shown), screen)
      BY <2>4, <3>2, HeadTailAppend DEF end
    <3> QED BY <2>5, <3>1, <3>2, <3>3, <3>4
  <2>7. shown' = Tail(shown) /\ heard' = Append(heard, s) /\ UNCHANGED <<screen, INPUT_BUFFER, CURSOR_POSITION>>
    BY <1>1, <2>6 DEF kernel
  <2>8. OnItsWay'
    BY <1>7, <2>5, <2>6, <2>7 DEF OnItsWay
  <2>9. PendingInv'
    BY <1>1 DEF PendingInv
  <2>10. CursorInv'
    <3>1. Text(heard') <=> Text(heard) \/ s # <<>>
      BY <2>4, <2>7, TextAppend
    <3>2. Text(shown) => s # <<>> \/ Text(shown')
      BY <2>4, <2>6, <2>7, TextTail
    <3> QED BY <2>1, <2>7, <3>1, <3>2 DEF CursorInv
  <2> QED BY <2>8, <2>9, <2>10
<1> QED BY <1>5, <1>6, <1>8 DEF IInv

LEMMA ProcessInv ==
    ASSUME IInv, process
    PROVE  IInv'
<1>1. /\ shell = "process" /\ UserMode /\ shell' \in {"confirm", "prompt", "spawnless"} /\ s' = <<>>
      /\ UNCHANGED <<device, output, mode, kernel, ch, seen, overflowed>>
  BY DEF process
<1>2. Begun = <<>> /\ Begun' = <<>> /\ ch = "none"
  BY <1>1 DEF IInv, ShellInv, Begun, Reading
<1>3. LineInv'
  BY <1>1, <1>2, LineKept DEF IInv, kernel
<1>4. TypeOK'
  <2>1. s' \in Line
    BY <1>1 DEF Line
  <2> QED BY <1>1, <2>1, ShellTypes DEF IInv, TypeOK, kernel, seen, Shells, Line
<1>5. ShellInv' /\ BusyInv' /\ PoppedInv'
  BY <1>1, <1>2, ShellBusy DEF IInv, ShellInv, PoppedInv
<1> QED BY <1>3, <1>4, <1>5 DEF IInv

LEMMA NextInv ==
    ASSUME IInv, [Next]_vars
    PROVE  IInv'
<1>1. CASE UNCHANGED vars
  <2>1. UNCHANGED <<kernel, ch, s, shell, seen, overflowed>> /\ UNCHANGED <<device, output, mode>>
    BY <1>1 DEF vars
  <2>2. LineInv' /\ ShellInv' /\ PoppedInv'
    BY <2>1, Quiet
  <2>3. TypeOK' /\ BusyInv'
    BY <2>1 DEF IInv, TypeOK, BusyInv, kernel, device, output, mode, seen
  <2> QED BY <2>2, <2>3 DEF IInv
<1>2. ASSUME NEW v \in Keys, Type(v) PROVE IInv'
  BY <1>2, DeviceInv DEF Type
<1>6. CASE ReceiveInterrupt \/ TransmitInterrupt
  BY <1>6, DeviceInv DEF handle_interrupt, ReceiveInterrupt, TransmitInterrupt
<1>3. CASE HandlerSteps
  <2>2. CASE HandlerReturns
    BY <2>2, DeviceInv DEF HandlerReturns
  <2>3. CASE complete
    BY <2>3, DeviceInv DEF complete
  <2> QED BY <1>3, <2>2, <2>3, HandleNewlineInv, HandleEraseInv, HandleEraseIgnoredInv, HandleCharInv
          DEF HandlerSteps
<1>4. CASE ShellSteps
  BY <1>1, <1>4, SyscallReadCharInv, ReadPushesInv, ReadPopsInv, ReadReturnsInv, ProcessInv
     DEF ShellSteps, SyscallReadNothing
<1>5. CASE PrintSteps
  <2>1. CASE WriteCharTakes \/ WriteCharStores
    BY <2>1, DeviceInv DEF WriteCharTakes, WriteCharStores
  <2>2. CASE SyscallWrite \/ WriteReturns
    BY <2>2, DeviceInv DEF SyscallWrite, WriteReturns
  <2> QED BY <1>5, <2>1, <2>2, BootDoneInv DEF PrintSteps
<1> QED BY <1>1, <1>2, <1>3, <1>4, <1>5, <1>6 DEF Next, Ended

-----------------------------------------------------------------------------
(* The results *)

\* IInv holds in every reachable state.
THEOREM Invariant == Spec => []IInv
<1>1. Init => IInv
  BY InitInv
<1>2. IInv /\ [Next]_vars => IInv'
  BY NextInv
<1> QED BY <1>1, <1>2, PTL DEF Spec

\* The types: the ring buffer never holds more than its capacity, the FIFO neither, and
\* the cursor position never goes below zero.
THEOREM TypeCorrectness == Spec => []TypeOK
<1>1. IInv => TypeOK
  BY DEF IInv
<1> QED BY <1>1, Invariant, PTL

\* The shell reads the lines that the user saw: at any moment the bytes queued, edited
\* by read, are the lines on the screen, until a byte is dropped or the shell ends.
THEOREM ShellReadsWhatIsShown == Spec => []LineAsShown
<1>1. IInv => LineAsShown
  <2> SUFFICES ASSUME IInv, shell # "popped", ~overflowed PROVE ToBeRead = shown \o <<screen>>
    BY DEF LineAsShown
  <2>1. Way(Held, INPUT_BUFFER, Append(shown, screen), heard) /\ TypeOK
    BY DEF IInv, LineInv, OnItsWay
  <2>2. (CHOOSE f : ReadForm(Held, INPUT_BUFFER, f))[Len(INPUT_BUFFER)] = Append(shown, screen)
    BY <2>1, WayIsRead, Typing
  <2>3. ToBeRead = (CHOOSE f : ReadForm(Held, INPUT_BUFFER, f))[Len(INPUT_BUFFER)]
    BY DEF ToBeRead, ReadForm, Held, Begun
  <2>4. Append(shown, screen) = shown \o <<screen>>
    BY <2>1, Typing, AppendIsConcat
  <2> QED BY <2>2, <2>3, <2>4
<1> QED BY <1>1, Invariant, PTL

\* s.pop().unwrap() of read fails only after a line of text was entered or a byte was
\* dropped.
THEOREM UnwrapIsSafeAtFirst == Spec => []FirstLineSafe
<1>1. IInv => FirstLineSafe
  <2> SUFFICES ASSUME IInv, shell = "popped", ~overflowed
               PROVE  \E i \in DOMAIN heard : heard[i] # <<>>
    BY DEF FirstLineSafe
  <2>1. Text(heard) /\ TypeOK
    BY DEF IInv, PoppedInv
  <2>2. heard \in Seq(Line)
    BY <2>1, Typing
  <2>3. DOMAIN heard = 1..Len(heard)
    BY <2>2
  <2> QED BY <2>1, <2>3 DEF Text
<1> QED BY <1>1, Invariant, PTL

\* write_char spins for ever only when the handler came inside the boot message: whatever
\* programs print and users type, no echo and no Write finds TX_BUSY taken.
THEOREM NoHangAfterBoot == Spec => []HangsAtBootOnly
<1>1. IInv => HangsAtBootOnly
  BY DEF IInv, BusyInv, HangsAtBootOnly, Hung
<1> QED BY <1>1, Invariant, PTL

=============================================================================
