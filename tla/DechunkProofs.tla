---------------------------- MODULE DechunkProofs ----------------------------
(***************************************************************************)
(* What the notary reads out of a message, however the server framed it    *)
(* and wherever it was cut: the status of its status line, and the data of *)
(* the chunks that arrived whole.                                          *)
(***************************************************************************)
EXTENDS Dechunk, BytesProofs

Msg == Seq(Byte)

\* The digits, spelled out.
LEMMA DigitsAre ==
    Digits = {"0", "1", "2", "3", "4", "5", "6", "7", "8", "9",
              "a", "b", "c", "d", "e", "f"}
BY DEF Digits, Numerals

\* The elements of a concatenation, by where they come from.
LEMMA Joined ==
    ASSUME NEW s \in Msg, NEW t \in Msg
    PROVE  /\ s \o t \in Msg /\ Len(s \o t) = Len(s) + Len(t)
           /\ \A i \in 1 .. Len(s) : (s \o t)[i] = s[i]
           /\ \A i \in 1 .. Len(t) : (s \o t)[Len(s) + i] = t[i]
<1>1. Len(s) \in Nat /\ Len(t) \in Nat
  BY LenProperties DEF Msg
<1> DEFINE u == s \o t
<1>2. /\ u \in Msg /\ Len(u) = Len(s) + Len(t)
      /\ \A i \in 1 .. Len(s) + Len(t) : u[i] = IF i <= Len(s) THEN s[i] ELSE t[i - Len(s)]
  BY ConcatProperties DEF Msg
<1> HIDE DEF u
<1>3. ASSUME NEW i \in 1 .. Len(s) PROVE u[i] = s[i]
  BY <1>1, <1>2
<1>4. ASSUME NEW i \in 1 .. Len(t) PROVE u[Len(s) + i] = t[i]
  <2>1. Len(s) + i \in 1 .. Len(s) + Len(t) /\ ~(Len(s) + i <= Len(s))
        /\ Len(s) + i - Len(s) = i
    BY <1>1
  <2> QED
    BY <1>2, <2>1
<1> QED
  BY <1>2, <1>3, <1>4 DEF u

\* A first line of a word and spaces, and what follows from a line break on.
LEMMA NoCode ==
    ASSUME NEW v \in Msg, NEW g \in Msg, NEW m \in Msg,
           \A i \in 1 .. Len(v) : v[i] \notin White,
           \A i \in 1 .. Len(g) : g[i] = "SP",
           Len(m) > 0 => m[1] \in {"CR", "LF"}
    PROVE  Word((v \o g) \o m, 2) = << >>
<1> DEFINE x == v \o g
           s == x \o m
<1>1. /\ x \in Msg /\ Len(x) = Len(v) + Len(g)
      /\ \A i \in 1 .. Len(v) : x[i] = v[i]
      /\ \A i \in 1 .. Len(g) : x[Len(v) + i] = g[i]
  BY Joined
<1> HIDE DEF x
<1>2. /\ s \in Msg /\ Len(s) = Len(x) + Len(m)
      /\ \A i \in 1 .. Len(x) : s[i] = x[i]
      /\ \A i \in 1 .. Len(m) : s[Len(x) + i] = m[i]
  BY <1>1, Joined
<1> HIDE DEF s
<1>3. /\ Len(v) \in Nat /\ Len(g) \in Nat /\ Len(m) \in Nat
      /\ DOMAIN s = 1 .. Len(s)
  BY <1>2, LenProperties DEF Msg
<1>4. ASSUME NEW i \in WordStarts(s) PROVE i = 1
  <2>1. /\ i \in 1 .. Len(s) /\ s[i] \notin White /\ (i = 1 \/ s[i - 1] \in White)
        /\ \A j \in 1 .. i : s[j] \notin {"CR", "LF"}
    BY <1>3 DEF WordStarts
  <2>2. i <= Len(x)
    <3> SUFFICES ASSUME i > Len(x) PROVE FALSE
      BY <1>1, <1>3, <2>1
    <3>1. Len(m) > 0 /\ Len(x) + 1 \in 1 .. i /\ 1 \in 1 .. Len(m)
      BY <1>1, <1>2, <1>3, <2>1
    <3>2. s[Len(x) + 1] = m[1]
      BY <1>2, <3>1
    <3> QED
      BY <2>1, <3>1, <3>2
  <2>3. i <= Len(v)
    <3> SUFFICES ASSUME i > Len(v) PROVE FALSE
      BY <1>1, <1>3, <2>1
    <3>1. i - Len(v) \in 1 .. Len(g) /\ i = Len(v) + (i - Len(v))
          /\ i \in 1 .. Len(x)
      BY <1>1, <1>3, <2>1, <2>2
    <3>2. s[i] = g[i - Len(v)]
      BY <1>1, <1>2, <3>1
    <3>3. s[i] = "SP"
      BY <3>1, <3>2
    <3> QED
      BY <2>1, <3>3 DEF White
  <2> SUFFICES ASSUME i # 1 PROVE FALSE
    OBVIOUS
  <2>4. i - 1 \in 1 .. Len(v) /\ i - 1 \in 1 .. Len(x)
    BY <1>1, <1>3, <2>1, <2>3
  <2>5. s[i - 1] = v[i - 1]
    BY <1>1, <1>2, <2>4
  <2> QED
    BY <2>1, <2>4, <2>5
<1>5. WordStarts(s) \subseteq {1}
  BY <1>4
<1>6. Word(s, 2) = << >>
  BY <1>5, NoSecondWord
<1> QED
  BY <1>6 DEF s, x

\* A first line of a word, spaces and a code, and what follows from white space on.
LEMMA ACode ==
    ASSUME NEW v \in Msg, NEW g \in Msg, NEW c \in Msg, NEW m \in Msg,
           Len(v) > 0, Len(g) > 0, Len(c) > 0,
           \A i \in 1 .. Len(v) : v[i] \notin White,
           \A i \in 1 .. Len(g) : g[i] = "SP",
           \A i \in 1 .. Len(c) : c[i] \notin White,
           Len(m) > 0 => m[1] \in White
    PROVE  Word(((v \o g) \o c) \o m, 2) = c
<1> DEFINE x == v \o g
           y == x \o c
           s == y \o m
           a == Len(v)
           b == Len(v) + Len(g) + 1
           e == Len(v) + Len(g) + Len(c)
<1>1. /\ x \in Msg /\ Len(x) = Len(v) + Len(g)
      /\ \A i \in 1 .. Len(v) : x[i] = v[i]
      /\ \A i \in 1 .. Len(g) : x[Len(v) + i] = g[i]
  BY Joined
<1> HIDE DEF x
<1>2. /\ y \in Msg /\ Len(y) = Len(x) + Len(c)
      /\ \A i \in 1 .. Len(x) : y[i] = x[i]
      /\ \A i \in 1 .. Len(c) : y[Len(x) + i] = c[i]
  BY <1>1, Joined
<1> HIDE DEF y
<1>3. /\ s \in Msg /\ Len(s) = Len(y) + Len(m)
      /\ \A i \in 1 .. Len(y) : s[i] = y[i]
      /\ \A i \in 1 .. Len(m) : s[Len(y) + i] = m[i]
  BY <1>2, Joined
<1> HIDE DEF s
<1>4. /\ Len(v) \in Nat /\ Len(g) \in Nat /\ Len(c) \in Nat /\ Len(m) \in Nat
      /\ Len(s) \in Nat /\ DOMAIN s = 1 .. Len(s)
  BY <1>3, LenProperties DEF Msg
<1>5. ASSUME NEW k \in 1 .. a PROVE s[k] \notin White
  <2>1. k \in 1 .. Len(v) /\ k \in 1 .. Len(x) /\ k \in 1 .. Len(y)
    BY <1>1, <1>2, <1>4
  <2> QED
    BY <1>1, <1>2, <1>3, <2>1
<1>6. ASSUME NEW k \in a + 1 .. b - 1 PROVE s[k] = "SP"
  <2>1. /\ k - Len(v) \in 1 .. Len(g) /\ k = Len(v) + (k - Len(v))
        /\ k \in 1 .. Len(x) /\ k \in 1 .. Len(y)
    BY <1>1, <1>2, <1>4
  <2>2. x[k] = g[k - Len(v)] /\ g[k - Len(v)] = "SP"
    BY <1>1, <2>1
  <2> QED
    BY <1>2, <1>3, <2>1, <2>2
<1>7. ASSUME NEW j \in 1 .. Len(c) PROVE s[b + j - 1] = c[j]
  <2>1. b + j - 1 = Len(x) + j /\ Len(x) + j \in 1 .. Len(y)
    BY <1>1, <1>2, <1>4
  <2>2. y[Len(x) + j] = c[j]
    BY <1>2
  <2> QED
    BY <1>3, <2>1, <2>2
<1>8. ASSUME NEW k \in b .. e PROVE s[k] \notin White
  <2>1. k - b + 1 \in 1 .. Len(c) /\ k = b + (k - b + 1) - 1
    BY <1>4
  <2>2. s[k] = c[k - b + 1]
    BY <1>7, <2>1
  <2> QED
    BY <2>1, <2>2
<1>9. ASSUME e < Len(s) PROVE s[e + 1] \in White
  <2>1. e + 1 = Len(y) + 1 /\ 1 \in 1 .. Len(m) /\ Len(m) > 0
    BY <1>1, <1>2, <1>3, <1>4, <1>9
  <2> QED
    BY <1>3, <2>1
<1>10. /\ a \in Nat /\ b \in Nat /\ 1 <= a /\ a + 1 < b /\ e \in b .. Len(s)
       /\ e \in Nat /\ e - b + 1 = Len(c) /\ b <= e
  BY <1>1, <1>2, <1>3, <1>4
<1> HIDE DEF a, b, e
<1>11. Word(s, 2) = SubSeq(s, b, e)
  BY <1>4, <1>5, <1>6, <1>8, <1>9, <1>10, SecondWord
<1>12. SubSeq(s, b, e) = c
  <2> DEFINE w == SubSeq(s, b, e)
  <2>1. \A i \in b .. e : s[i] \in Byte
    <3>1. b .. e \subseteq 1 .. Len(s)
      BY <1>4, <1>10
    <3> QED
      BY <1>3, <3>1 DEF Msg
  <2>2. /\ w \in Seq(Byte) /\ Len(w) = (IF b <= e THEN e - b + 1 ELSE 0)
        /\ \A i \in 1 .. e - b + 1 : w[i] = s[b + i - 1]
    BY <1>10, <2>1, SubSeqProperties
  <2> HIDE DEF w
  <2>3. Len(w) = Len(c) /\ \A i \in 1 .. Len(c) : w[i] = c[i]
    BY <1>7, <1>10, <2>2
  <2>4. w = c
    BY <2>2, <2>3, SeqEqual DEF Msg
  <2> QED
    BY <2>4 DEF w
<1> QED
  BY <1>11, <1>12 DEF s, y, x

\* A chunk is made of bytes.
LEMMA FrameIsMsg ==
    ASSUME NEW c, c \in ChunkFrames
    PROVE  /\ c.digits \in Msg /\ c.pad \in Msg /\ c.ext \in Msg /\ CRLF \in Msg
           /\ c.data \in Msg /\ c.end \in Msg
           /\ c.digits \o c.pad \in Msg /\ SizeLine(c) \in Msg
           /\ SizeLine(c) \o CRLF \in Msg /\ SizeLine(c) \o CRLF \o c.data \in Msg
           /\ Frame(c) \in Msg
<1>1. /\ c.digits \in Seq(Digits) /\ c.pad \in Seq({"SP"})
      /\ c.ext \in Seq(Byte \ {"CR", "LF"}) /\ c.data \in Seq(Byte) /\ c.end \in Seq(Byte)
  BY DEF ChunkFrames
<1>2. Digits \subseteq Byte /\ {"SP"} \subseteq Byte /\ Byte \ {"CR", "LF"} \subseteq Byte
  BY DEF Byte
<1>3. c.digits \in Msg
  BY <1>1, <1>2, SeqMonotonic DEF Msg
<1>4. c.pad \in Msg
  BY <1>1, <1>2, SeqMonotonic DEF Msg
<1>5. c.ext \in Msg
  BY <1>1, <1>2, SeqMonotonic DEF Msg
<1>6. CRLF \in Msg
  BY DEF CRLF, Msg, Byte
<1>7. c.data \in Msg /\ c.end \in Msg
  BY <1>1 DEF Msg
<1>8. c.digits \o c.pad \in Msg
  BY <1>3, <1>4, Joined
<1>9. SizeLine(c) \in Msg
  BY <1>5, <1>8, Joined DEF SizeLine
<1>10. SizeLine(c) \o CRLF \in Msg
  BY <1>6, <1>9, Joined
<1>11. SizeLine(c) \o CRLF \o c.data \in Msg
  BY <1>7, <1>10, Joined
<1>12. Frame(c) \in Msg
  BY <1>7, <1>11, Joined DEF Frame
<1> QED
  BY <1>3, <1>4, <1>5, <1>6, <1>7, <1>8, <1>9, <1>10, <1>11, <1>12

\* What was received, chunk by chunk from the last.
Unfolds(f, d, n) ==
    f = [m \in 0 .. n |-> IF m = 0 THEN Beginning(d)
                          ELSE Before(d.chunks[Len(d.chunks) + 1 - m], f[m - 1])]

\* So many chunks can be prepended.
LEMMA UnfoldsExist ==
    ASSUME NEW d, NEW n \in Nat
    PROVE  \E f : Unfolds(f, d, n)
<1> DEFINE T == {k \in 0 .. n : \E f : Unfolds(f, d, k)}
           c(m) == d.chunks[Len(d.chunks) + 1 - m]
<1>1. 0 \in T
  <2> DEFINE f == [m \in 0 .. 0 |-> Beginning(d)]
  <2>1. Unfolds(f, d, 0)
    BY DEF Unfolds
  <2> QED
    BY <2>1
<1>2. ASSUME NEW k \in 1 .. n, k - 1 \in T PROVE k \in T
  <2>1. PICK f : Unfolds(f, d, k - 1)
    BY <1>2
  <2> DEFINE g == [m \in 0 .. k |-> IF m = k THEN Before(c(k), f[k - 1]) ELSE f[m]]
             h == [m \in 0 .. k |-> IF m = 0 THEN Beginning(d) ELSE Before(c(m), g[m - 1])]
  <2> HIDE DEF c
  <2>2. ASSUME NEW m \in 0 .. k PROVE g[m] = h[m]
    <3>1. CASE m = k
      BY <3>1
    <3>2. CASE m # k
      BY <2>1, <3>2 DEF Unfolds, c
    <3> QED
      BY <3>1, <3>2
  <2>3. g = h
    BY <2>2
  <2>4. Unfolds(g, d, k)
    BY <2>3 DEF Unfolds, c
  <2> QED
    BY <2>4
<1> HIDE DEF T
<1>3. 0 .. n \subseteq T
  BY <1>1, <1>2, UpTo
<1> QED
  BY <1>3 DEF T

\* Received is what it says.
LEMMA ReceivedIs ==
    ASSUME NEW d, Len(d.chunks) \in Nat
    PROVE  /\ Received(d)[0] = Beginning(d)
           /\ \A m \in 1 .. Len(d.chunks) :
                Received(d)[m] = Before(d.chunks[Len(d.chunks) + 1 - m], Received(d)[m - 1])
<1> DEFINE f == CHOOSE g : Unfolds(g, d, Len(d.chunks))
<1>1. Unfolds(f, d, Len(d.chunks))
  <2>1. \E g : Unfolds(g, d, Len(d.chunks))
    BY UnfoldsExist
  <2> QED
    BY <2>1
<1>2. Received(d) = f
  BY DEF Received, Unfolds
<1> HIDE DEF f
<1> QED
  BY <1>1, <1>2, SMTT(30) DEF Unfolds

\* Its bytes and data are bytes.
LEMMA ReceivedIsMsg ==
    ASSUME NEW d, IsChunkedBody(d)
    PROVE  \A m \in 0 .. Len(d.chunks) :
                Received(d)[m].wire \in Msg /\ Received(d)[m].data \in Msg
<1> DEFINE n == Len(d.chunks)
           f == Received(d)
           T == {m \in 0 .. n : f[m].wire \in Msg /\ f[m].data \in Msg}
<1>1. n \in Nat /\ \A k \in 1 .. n : d.chunks[k] \in ChunkFrames
  BY LenProperties DEF IsChunkedBody
<1>2. f[0] = Beginning(d) /\ \A m \in 1 .. n : f[m] = Before(d.chunks[n + 1 - m], f[m - 1])
  BY <1>1, ReceivedIs
<1> HIDE DEF n, f
<1>3. 0 \in T
  <2>1. d.next \in ChunkFrames /\ d.got \in 0 .. Len(Frame(d.next))
    BY DEF IsChunkedBody, IsChunk
  <2>2. Frame(d.next) \in Msg /\ d.next.data \in Msg
    BY <2>1, FrameIsMsg
  <2>3. Take(Frame(d.next), d.got) \in Msg
    BY <2>1, <2>2, TakeProperties DEF Msg
  <2>4. << >> \in Msg
    BY DEF Msg
  <2>5. /\ Beginning(d).wire = Take(Frame(d.next), d.got)
        /\ Beginning(d).data = << >> \/ Beginning(d).data = d.next.data
    BY DEF Beginning
  <2> QED
    BY <1>1, <1>2, <2>2, <2>3, <2>4, <2>5
<1>4. ASSUME NEW m \in 1 .. n, m - 1 \in T PROVE m \in T
  <2>1. n + 1 - m \in 1 .. n
    BY <1>1
  <2> DEFINE c == d.chunks[n + 1 - m]
  <2>2. c \in ChunkFrames
    BY <1>1, <2>1
  <2>3. f[m] = Before(c, f[m - 1]) /\ f[m - 1].wire \in Msg /\ f[m - 1].data \in Msg
    BY <1>2, <1>4
  <2> HIDE DEF c
  <2>4. Frame(c) \in Msg /\ c.data \in Msg
    BY <2>2, FrameIsMsg
  <2>5. Frame(c) \o f[m - 1].wire \in Msg /\ c.data \o f[m - 1].data \in Msg
    BY <2>3, <2>4, Joined
  <2>6. f[m].wire \in Msg /\ f[m].data \in Msg
    BY <2>3, <2>5 DEF Before
  <2> QED
    BY <2>6
<1> HIDE DEF T
<1>5. 0 .. n \subseteq T
  BY <1>1, <1>3, <1>4, UpTo
<1> QED
  BY <1>5 DEF T, n, f

\* A head is made of bytes.
LEMMA HeadIsMsg ==
    ASSUME NEW d, IsHead(d)
    PROVE  /\ d.line.version \in Msg /\ d.line.gap \in Msg /\ d.line.code \in Msg
           /\ d.line.reason \in Msg /\ d.fields \in Msg
           /\ d.line.version \o d.line.gap \in Msg
           /\ d.line.version \o d.line.gap \o d.line.code \in Msg
           /\ StatusLine(d.line) \in Msg /\ HeadOf(d) \in Msg
<1> DEFINE l == d.line
<1>1. /\ l.version \in Seq(Solid) /\ l.gap \in Seq({"SP"}) /\ l.code \in Seq(Solid)
      /\ l.reason \in Seq(Solid \cup {"SP"}) /\ d.fields \in Msg
  BY DEF IsHead, IsStatusLine, Msg
<1>2. Solid \subseteq Byte /\ {"SP"} \subseteq Byte /\ Solid \cup {"SP"} \subseteq Byte
  BY DEF Solid, Byte
<1> HIDE DEF l
<1>3. l.version \in Msg
  BY <1>1, <1>2, SeqMonotonic DEF Msg
<1>4. l.gap \in Msg
  BY <1>1, <1>2, SeqMonotonic DEF Msg
<1>5. l.code \in Msg
  BY <1>1, <1>2, SeqMonotonic DEF Msg
<1>6. l.reason \in Msg
  BY <1>1, <1>2, SeqMonotonic DEF Msg
<1>7. l.version \o l.gap \in Msg
  BY <1>3, <1>4, Joined
<1>8. l.version \o l.gap \o l.code \in Msg
  BY <1>5, <1>7, Joined
<1>9. StatusLine(l) \in Msg
  BY <1>6, <1>8, Joined DEF StatusLine
<1>10. StatusLine(l) \o d.fields \in Msg
  BY <1>1, <1>9, Joined
<1> QED
  BY <1>1, <1>3, <1>4, <1>5, <1>6, <1>7, <1>8, <1>9, <1>10 DEF HeadOf, l

\* What follows the head.
Rest(d) == IF Chunked(d) THEN AllReceived(d).wire ELSE d.payload

\* It is bytes, as the head is.
LEMMA RestIsMsg ==
    ASSUME NEW d, IsDelivery(d)
    PROVE  Rest(d) \in Msg /\ Content(d) \in Msg
<1>1. CASE Chunked(d)
  <2>1. IsChunkedBody(d)
    BY <1>1 DEF IsDelivery
  <2>2. Len(d.chunks) \in 0 .. Len(d.chunks)
    BY <2>1, LenProperties DEF IsChunkedBody
  <2>3. AllReceived(d).wire \in Msg /\ AllReceived(d).data \in Msg
    BY <2>1, <2>2, ReceivedIsMsg DEF AllReceived
  <2> QED
    BY <1>1, <2>3 DEF Rest, Content
<1>2. CASE ~Chunked(d)
  BY <1>2 DEF IsDelivery, Rest, Content, Msg
<1> QED
  BY <1>1, <1>2

\* The empty message.
LEMMA Empty ==
    /\ << >> \in Msg
    /\ \A s \in Msg : Len(s) \in Nat /\ (s = << >> <=> Len(s) = 0)
    /\ \A s \in Msg : << >> \o s = s /\ s \o << >> = s
<1>1. << >> \in Msg
  BY DEF Msg
<1>2. ASSUME NEW s \in Msg PROVE Len(s) \in Nat /\ (s = << >> <=> Len(s) = 0)
  BY EmptySeq, LenProperties DEF Msg
<1>3. ASSUME NEW s \in Msg PROVE << >> \o s = s /\ s \o << >> = s
  BY ConcatEmptySeq DEF Msg
<1> QED
  BY <1>1, <1>2, <1>3

\* Joining is associative.
LEMMA Assoc ==
    ASSUME NEW s \in Msg, NEW t \in Msg, NEW u \in Msg
    PROVE  (s \o t) \o u = s \o (t \o u)
BY ConcatAssociative DEF Msg

\* The second word of a message is its status code, if it has one.
LEMMA WordIsCode ==
    ASSUME NEW d, IsDelivery(d)
    PROVE  Word(Buf(d), 2) = d.line.code
<1> DEFINE v == d.line.version
           g == d.line.gap
           c == d.line.code
           r == d.line.reason
           f == d.fields
           t == Rest(d)
<1>0. IsHead(d) /\ IsStatusLine(d.line)
  BY DEF IsDelivery, IsHead
<1>1. v \in Msg /\ g \in Msg /\ c \in Msg /\ r \in Msg /\ f \in Msg /\ t \in Msg
  BY <1>0, HeadIsMsg, RestIsMsg
<1>2. /\ \A i \in 1 .. Len(v) : v[i] \notin White
      /\ \A i \in 1 .. Len(g) : g[i] = "SP"
      /\ \A i \in 1 .. Len(c) : c[i] \notin White
  <2>1. v \in Seq(Solid) /\ g \in Seq({"SP"}) /\ c \in Seq(Solid)
    BY <1>0 DEF IsStatusLine
  <2>2. \A x \in Solid : x \notin White
    BY DEF Solid
  <2> HIDE DEF v, g, c
  <2>3. \A i \in 1 .. Len(v) : v[i] \in Solid
    BY <2>1, ElementOfSeq
  <2>4. \A i \in 1 .. Len(g) : g[i] \in {"SP"}
    BY <2>1, ElementOfSeq
  <2>5. \A i \in 1 .. Len(c) : c[i] \in Solid
    BY <2>1, ElementOfSeq
  <2> QED
    BY <2>2, <2>3, <2>4, <2>5
<1>3. /\ r # << >> => r[1] = "SP" /\ c # << >>
      /\ c # << >> => g # << >>
      /\ g # << >> => v # << >>
  BY <1>0 DEF IsStatusLine
<1>4. Buf(d) = ((((v \o g) \o c) \o r) \o f) \o t
  BY DEF Buf, HeadOf, StatusLine, Rest
<1>5. (f # << >> /\ f[1] = "CR") \/ (HeadOf(d) = << >> /\ d.payload \in Seq(Solid))
  BY <1>0 DEF IsHead
<1>6. CASE HeadOf(d) = << >> /\ d.payload \in Seq(Solid)
  <2>1. StatusLine(d.line) = << >> /\ f = << >>
    <3>1. StatusLine(d.line) \in Msg
      BY <1>0, HeadIsMsg
    <3> QED
      BY <1>1, <1>6, <3>1, ConcatEqualIffEmpty DEF HeadOf, Msg
  <2>2. (v \o g) \o c = << >>
    <3>1. (v \o g) \o c \in Msg
      BY <1>0, HeadIsMsg
    <3> QED
      BY <1>1, <2>1, <3>1, ConcatEqualIffEmpty DEF StatusLine, Msg
  <2>3. c = << >>
    <3>1. v \o g \in Msg
      BY <1>0, HeadIsMsg
    <3> QED
      BY <1>1, <2>2, <3>1, ConcatEqualIffEmpty DEF Msg
  <2>4. ~Chunked(d)
    BY <2>1 DEF Chunked
  <2>5. Buf(d) = << >> \o d.payload /\ d.payload \in Msg
    <3>1. t = d.payload
      BY <2>4 DEF Rest
    <3> QED
      BY <1>1, <1>6, <2>4, <3>1 DEF Buf
  <2>6. Buf(d) = (d.payload \o << >>) \o << >>
    BY <2>5, Empty
  <2>7. \A i \in 1 .. Len(d.payload) : d.payload[i] \notin White
    <3>1. \A i \in 1 .. Len(d.payload) : d.payload[i] \in Solid
      BY <1>6, ElementOfSeq
    <3> QED
      BY <3>1 DEF Solid
  <2>8. Word((d.payload \o << >>) \o << >>, 2) = << >>
    <3>1. << >> \in Msg /\ Len(<< >>) = 0
      BY Empty
    <3>2. \A i \in 1 .. Len(<< >>) : << >>[i] = "SP"
      BY <3>1
    <3>3. ~(Len(<< >>) > 0)
      BY <3>1
    <3> QED
      BY <2>5, <2>7, <3>1, <3>2, <3>3, NoCode
  <2> QED
    BY <2>3, <2>6, <2>8
<1>7. CASE f # << >> /\ f[1] = "CR"
  <2> HIDE DEF v, g, c, r, f, t
  <2> DEFINE x == v \o g
             y == x \o c
             m == f \o t
  <2>1. x \in Msg /\ y \in Msg /\ m \in Msg
    <3>1. x \in Msg
      BY <1>1, Joined
    <3>2. y \in Msg
      BY <1>1, <3>1, Joined
    <3> QED
      BY <1>1, <3>1, <3>2, Joined
  <2>2. Len(m) > 0 /\ m[1] = "CR"
    <3>1. 1 \in 1 .. Len(f) /\ Len(f) \in Nat /\ Len(t) \in Nat
      BY <1>1, <1>7, Empty
    <3> QED
      BY <1>1, <1>7, <3>1, Joined
  <2> HIDE DEF x, y, m
  <2>3. CASE c = << >>
    <3>1. r = << >>
      BY <1>3, <2>3
    <3>2. y = x
      BY <2>1, <2>3, Empty DEF y
    <3>3. Buf(d) = (x \o f) \o t
      BY <1>4, <2>1, <3>1, <3>2, Empty DEF x, y
    <3>4. Buf(d) = x \o m
      <4>1. x \in Msg /\ f \in Msg /\ t \in Msg
        BY <1>1, <2>1
      <4>2. (x \o f) \o t = x \o (f \o t)
        BY <4>1, Assoc
      <4> QED
        BY <3>3, <4>2 DEF m
    <3>5. Word(x \o m, 2) = << >>
      BY <1>1, <1>2, <2>1, <2>2, NoCode DEF x
    <3> QED
      BY <2>3, <3>4, <3>5 DEF c
  <2>4. CASE c # << >>
    <3> DEFINE n == r \o m
    <3>1. Buf(d) = (y \o r) \o m
      <4>1. y \o r \in Msg
        BY <1>1, <2>1, Joined
      <4> QED
        BY <1>1, <1>4, <4>1, Assoc DEF m, x, y
    <3>2. Buf(d) = y \o n
      <4>1. y \in Msg /\ r \in Msg /\ m \in Msg
        BY <1>1, <2>1
      <4>2. (y \o r) \o m = y \o (r \o m)
        BY <4>1, Assoc
      <4> QED
        BY <3>1, <4>2
    <3>3. n \in Msg /\ n[1] \in White
      <4>1. CASE r = << >>
        <5>1. n = m
          BY <2>1, <4>1, Empty
        <5> QED
          BY <2>1, <2>2, <5>1 DEF White
      <4>2. CASE r # << >>
        <5>1. 1 \in 1 .. Len(r)
          BY <1>1, <4>2, Empty
        <5>2. n \in Msg /\ n[1] = r[1]
          BY <1>1, <2>1, <5>1, Joined
        <5> QED
          BY <1>3, <4>2, <5>2 DEF White
      <4> QED
        BY <4>1, <4>2
    <3> HIDE DEF n
    <3>4. Len(v) > 0 /\ Len(g) > 0 /\ Len(c) > 0
      BY <1>1, <1>3, <2>4, Empty
    <3>5. Word(((v \o g) \o c) \o n, 2) = c
      BY <1>1, <1>2, <3>3, <3>4, ACode
    <3> QED
      BY <3>2, <3>5 DEF x, y, c
  <2> QED
    BY <2>3, <2>4
<1> QED
  BY <1>5, <1>6, <1>7

\* So status_code reads the status that was sent.
LEMMA ReadsStatus ==
    ASSUME NEW d, IsDelivery(d)
    PROVE  StatusCode(StatusWord(Buf(d))) = d.line.status
<1>1. StatusWord(Buf(d)) = d.line.code
  BY WordIsCode DEF StatusWord
<1>2. d.line.status = IF Number(d.line.code, 10) < 2^16 THEN Number(d.line.code, 10) ELSE 0
  BY DEF IsDelivery, IsHead, IsStatusLine
<1> QED
  BY <1>1, <1>2 DEF StatusCode

\* status_code returns the status the server put in its status line, for every
\* message framed as HTTP prescribes, its body cut anywhere: whatever the version, the
\* spacing, the reason phrase and the header fields, and 0 when there is no code,
\* when it is no u16 and when the line was not disclosed.
THEOREM StatusSafe == Spec => []StatusAsSent
<1> DEFINE I == delivery \in Deliveries /\ StatusAsSent
<1>1. Init => I
  BY DEF Init, StatusAsSent
<1>2. I /\ [Next]_vars => I'
  <2> SUFFICES ASSUME I, [Next]_vars PROVE I'
    OBVIOUS
  <2>1. CASE ReadStatus
    <3>1. IsDelivery(delivery)
      BY DeliveriesAssumption
    <3>2. status' = delivery.line.status /\ delivery' = delivery
      BY <2>1, <3>1, ReadsStatus DEF ReadStatus
    <3> QED
      BY <3>2 DEF StatusAsSent
  <2>2. CASE Split \/ Chunk
    BY <2>2 DEF Split, Chunk, StatusAsSent
  <2>3. CASE Returned \/ UNCHANGED vars
    BY <2>3 DEF Returned, vars, StatusAsSent
  <2> QED
    BY <2>1, <2>2, <2>3 DEF Next
<1>3. I => StatusAsSent
  OBVIOUS
<1> QED
  BY <1>1, <1>2, <1>3, PTL DEF Spec
-----------------------------------------------------------------------------
\* Patterns the code looks for.
LEMMA Patterns ==
    /\ CRLF \in Msg
    /\ Len(CRLF) = 2 /\ DOMAIN CRLF = 1 .. 2 /\ CRLF[1] = "CR" /\ CRLF[2] = "LF"
    /\ Len(CRLF \o CRLF) = 4 /\ DOMAIN (CRLF \o CRLF) = 1 .. 4 /\ (CRLF \o CRLF)[1] = "CR"
<1>1. CRLF \in Msg /\ Len(CRLF) = 2 /\ CRLF[1] = "CR" /\ CRLF[2] = "LF"
  BY DEF CRLF, Msg, Byte
<1>2. DOMAIN CRLF = 1 .. 2
  BY <1>1, LenProperties DEF Msg
<1> DEFINE b == CRLF \o CRLF
<1>3. b \in Msg /\ Len(b) = 4 /\ b[1] = "CR"
  <2>1. /\ b \in Msg /\ Len(b) = Len(CRLF) + Len(CRLF)
        /\ \A i \in 1 .. Len(CRLF) : b[i] = CRLF[i]
    BY <1>1, Joined
  <2> HIDE DEF b
  <2> QED
    BY <1>1, <2>1
<1> HIDE DEF b
<1>4. DOMAIN b = 1 .. 4
  BY <1>3, LenProperties DEF Msg
<1> QED
  BY <1>1, <1>2, <1>3, <1>4 DEF b

\* Where there is no carriage return there is no line break and no blank line.
LEMMA NoReturn ==
    ASSUME NEW s \in Msg, \A i \in 1 .. Len(s) : s[i] # "CR"
    PROVE  Position(s, CRLF) = 0 /\ Position(s, CRLF \o CRLF) = 0
<1>1. DOMAIN s = 1 .. Len(s)
  BY LenProperties DEF Msg
<1> DEFINE b == CRLF \o CRLF
<1>2. 1 \in DOMAIN CRLF /\ CRLF[1] = "CR" /\ 1 \in DOMAIN b /\ b[1] = "CR"
  BY Patterns
<1> HIDE DEF b
<1>3. ASSUME NEW i \in DOMAIN s PROVE ~Occurs(s, CRLF, i) /\ ~Occurs(s, b, i)
  <2>1. i + 1 - 1 = i /\ s[i] # "CR"
    BY <1>1
  <2>2. Occurs(s, CRLF, i) => s[i + 1 - 1] = CRLF[1]
    BY <1>2 DEF Occurs
  <2>3. Occurs(s, b, i) => s[i + 1 - 1] = b[1]
    BY <1>2 DEF Occurs
  <2> QED
    BY <1>2, <2>1, <2>2, <2>3
<1>4. Places(s, CRLF) = {} /\ Places(s, b) = {}
  BY <1>3 DEF Places
<1> QED
  BY <1>4 DEF Position, b

\* decoded_body splits a message after its head.
LEMMA SplitsHead ==
    ASSUME NEW d, IsDelivery(d)
    PROVE  SplitAt(Buf(d)) = Len(HeadOf(d))
<1> DEFINE h == HeadOf(d)
           t == Rest(d)
           b == CRLF \o CRLF
<1>1. h \in Msg /\ t \in Msg /\ Len(h) \in Nat
  BY HeadIsMsg, RestIsMsg, Empty DEF IsDelivery
<1>2. Buf(d) = h \o t
  BY DEF Buf, Rest
<1>3. Places(h, b) = {Len(h) - 3} \/ (h = << >> /\ d.fields = << >> /\ d.payload \in Seq(Solid))
  <2>1. IsHead(d) /\ d.fields \in Msg
    BY DEF IsDelivery, IsHead, Msg
  <2>2. ASSUME h = << >> PROVE d.fields = << >>
    <3>1. StatusLine(d.line) \in Msg /\ d.fields \in Msg
      BY <2>1, HeadIsMsg
    <3> QED
      BY <2>2, <3>1, ConcatEqualIffEmpty DEF HeadOf, Msg
  <2> QED
    BY <2>1, <2>2 DEF IsHead
<1>4. CASE Places(h, b) = {Len(h) - 3}
  <2>1. Len(h) - 3 \in Places(h, b) /\ \A j \in Places(h, b) : Len(h) - 3 <= j
    BY <1>1, <1>4
  <2>2. Len(h) - 3 \in DOMAIN h /\ DOMAIN h = 1 .. Len(h)
    BY <1>1, <2>1, LenProperties DEF Places, Msg
  <2>3. Len(b) \in Nat /\ DOMAIN b = 1 .. Len(b)
    BY Patterns
  <2> HIDE DEF h, t, b
  <2>4. Position(h \o t, b) = Len(h) - 3
    BY <1>1, <2>1, <2>3, FirstInPrefix DEF Msg
  <2>5. Len(h) - 3 # 0 /\ Len(h) - 3 + 3 = Len(h)
    BY <1>1, <2>2
  <2> QED
    BY <1>2, <2>4, <2>5 DEF SplitAt, b, h
<1>5. CASE h = << >> /\ d.fields = << >> /\ d.payload \in Seq(Solid)
  <2>1. t = d.payload
    BY <1>5 DEF Rest, Chunked
  <2>2. Buf(d) = t
    BY <1>1, <1>2, <1>5, Empty
  <2>3. \A i \in 1 .. Len(t) : t[i] # "CR"
    <3>1. \A i \in 1 .. Len(t) : t[i] \in Solid
      BY <1>5, <2>1, ElementOfSeq
    <3> QED
      BY <3>1 DEF Solid, White
  <2>4. Position(t, CRLF \o CRLF) = 0
    BY <1>1, <2>3, NoReturn
  <2> QED
    BY <1>1, <1>5, <2>2, <2>4, Empty DEF SplitAt
<1> QED
  BY <1>3, <1>4, <1>5

\* header_is_chunked finds the header in the fields the server sent, and only there.
LEMMA FindsEncoding ==
    ASSUME NEW d, IsHead(d)
    PROVE  HeaderIsChunked(HeadOf(d)) <=> Chunked(d)
<1> DEFINE l == d.line
           N == Byte \ {"TE"}
           x == StatusLine(l)
           f == d.fields
<1>1. x \in Seq(N)
  <2>1. /\ l.version \in Seq(Solid) /\ l.gap \in Seq({"SP"}) /\ l.code \in Seq(Solid)
        /\ l.reason \in Seq(Solid \cup {"SP"})
    BY DEF IsHead, IsStatusLine
  <2>2. Solid \subseteq N /\ {"SP"} \subseteq N /\ Solid \cup {"SP"} \subseteq N
    BY DEF Solid, Byte
  <2> HIDE DEF N, l
  <2>3. l.version \in Seq(N)
    BY <2>1, <2>2, SeqMonotonic
  <2>4. l.gap \in Seq(N)
    BY <2>1, <2>2, SeqMonotonic
  <2>5. l.code \in Seq(N)
    BY <2>1, <2>2, SeqMonotonic
  <2>6. l.reason \in Seq(N)
    BY <2>1, <2>2, SeqMonotonic
  <2>7. l.version \o l.gap \in Seq(N)
    BY <2>3, <2>4, ConcatProperties
  <2>8. l.version \o l.gap \o l.code \in Seq(N)
    BY <2>5, <2>7, ConcatProperties
  <2> QED
    BY <2>6, <2>8, ConcatProperties DEF StatusLine
<1>2. \A i \in 1 .. Len(x) : x[i] # "TE"
  <2>1. \A i \in 1 .. Len(x) : x[i] \in N
    <3> HIDE DEF N, x
    <3> QED
      BY <1>1, ElementOfSeq
  <2> QED
    BY <2>1
<1>3. x \in Msg /\ f \in Msg /\ HeadOf(d) = x \o f
  BY HeadIsMsg DEF HeadOf
<1> HIDE DEF x, f
<1> DEFINE h == x \o f
<1>4. /\ h \in Msg /\ Len(h) = Len(x) + Len(f)
      /\ \A i \in 1 .. Len(x) : h[i] = x[i]
      /\ \A i \in 1 .. Len(f) : h[Len(x) + i] = f[i]
  BY <1>3, Joined
<1> HIDE DEF h
<1>5. /\ DOMAIN h = 1 .. Len(h) /\ DOMAIN f = 1 .. Len(f)
      /\ Len(x) \in Nat /\ Len(f) \in Nat
  BY <1>3, <1>4, LenProperties DEF Msg
<1>6. ASSUME NEW i \in DOMAIN h, h[i] = "TE" PROVE \E k \in DOMAIN f : f[k] = "TE"
  <2>1. i > Len(x)
    BY <1>2, <1>4, <1>5, <1>6
  <2>2. i - Len(x) \in 1 .. Len(f) /\ Len(x) + (i - Len(x)) = i
    BY <1>4, <1>5, <2>1
  <2>3. f[i - Len(x)] = "TE"
    BY <1>4, <1>6, <2>2
  <2> QED
    BY <1>5, <2>2, <2>3
<1>7. ASSUME NEW k \in DOMAIN f, f[k] = "TE" PROVE \E i \in DOMAIN h : h[i] = "TE"
  <2>1. Len(x) + k \in 1 .. Len(h) /\ h[Len(x) + k] = f[k]
    BY <1>4, <1>5
  <2> QED
    BY <1>5, <1>7, <2>1
<1> QED
  BY <1>3, <1>6, <1>7 DEF HeaderIsChunked, Chunked, f, h

\* Trimming the white space after digits leaves the digits.
LEMMA TrimsPad ==
    ASSUME NEW s \in Msg, NEW p \in Msg, Len(s) > 0,
           \A i \in 1 .. Len(s) : s[i] \notin White,
           \A i \in 1 .. Len(p) : p[i] = "SP"
    PROVE  Trim(s \o p) = s
<1> DEFINE x == s \o p
           n == Len(s)
           solid == {i \in DOMAIN x : x[i] \notin White}
<1>1. /\ x \in Msg /\ Len(x) = n + Len(p)
      /\ \A i \in 1 .. n : x[i] = s[i]
      /\ \A i \in 1 .. Len(p) : x[n + i] = p[i]
  BY Joined
<1>2. n \in Nat /\ n > 0 /\ Len(p) \in Nat
  BY Empty
<1>3. Take(x, n) = s
  BY CutConcat DEF Msg
<1> HIDE DEF x, n
<1>4. DOMAIN x = 1 .. Len(x)
  BY <1>1, LenProperties DEF Msg
<1>5. solid = 1 .. n
  <2>1. ASSUME NEW i \in 1 .. n PROVE i \in solid
    <3>1. i \in 1 .. Len(x) /\ x[i] = s[i]
      BY <1>1, <1>2
    <3> QED
      BY <1>4, <3>1 DEF n
  <2>2. ASSUME NEW i \in solid PROVE i \in 1 .. n
    <3>1. i \in 1 .. Len(x) /\ x[i] \notin White
      BY <1>4
    <3> SUFFICES ASSUME i > n PROVE FALSE
      BY <1>2, <3>1
    <3>2. i - n \in 1 .. Len(p) /\ n + (i - n) = i
      BY <1>1, <1>2, <3>1
    <3>3. x[i] = "SP"
      BY <1>1, <3>2
    <3> QED
      BY <3>1, <3>3 DEF White
  <2> QED
    BY <2>1, <2>2
<1> HIDE DEF solid
<1>6. (CHOOSE i \in solid : \A j \in solid : i <= j) = 1
  BY <1>2, <1>5
<1>7. (CHOOSE i \in solid : \A j \in solid : i >= j) = n
  BY <1>2, <1>5
<1>8. solid # {}
  BY <1>2, <1>5
<1>9. Trim(x) = SubSeq(x, 1, n)
  BY <1>6, <1>7, <1>8 DEF Trim, solid
<1> QED
  BY <1>3, <1>9 DEF Take, x

\* The byte before an extension.
Semi == ";"

\* The size dechunk reads in a size line is the size the server wrote there,
\* whatever the padding and the extensions.
LEMMA ReadsSize ==
    ASSUME NEW c, IsChunk(c)
    PROVE  Size(SizeLine(c)) = Len(c.data)
<1> DEFINE g == c.digits
           p == c.pad
           x == c.digits \o c.pad
           e == c.ext
           y == x \o e
           semi == <<Semi>>
<1>1. /\ c \in ChunkFrames /\ g # << >> /\ Number(g, 16) = Len(c.data)
      /\ e # << >> => e[1] = Semi
  BY DEF IsChunk, Semi
<1>2. /\ g \in Msg /\ p \in Msg /\ e \in Msg
  BY <1>1, FrameIsMsg
<1>3. /\ \A i \in 1 .. Len(g) : g[i] \in Digits
      /\ \A i \in 1 .. Len(p) : p[i] = "SP"
  <2>1. g \in Seq(Digits) /\ p \in Seq({"SP"})
    BY <1>1 DEF ChunkFrames
  <2> HIDE DEF g, p
  <2>2. \A i \in 1 .. Len(g) : g[i] \in Digits
    BY <2>1, ElementOfSeq
  <2>3. \A i \in 1 .. Len(p) : p[i] \in {"SP"}
    BY <2>1, ElementOfSeq
  <2> QED
    BY <2>2, <2>3
<1>4. Trim(x) = g
  <2>1. \A i \in 1 .. Len(g) : g[i] \notin White
    BY <1>3, DigitsAre DEF White
  <2>2. Len(g) > 0
    BY <1>1, <1>2, Empty
  <2> HIDE DEF g, p
  <2>3. Trim(g \o p) = g
    BY <1>2, <1>3, <2>1, <2>2, TrimsPad
  <2> QED
    BY <2>3 DEF g, p
<1>5. /\ x \in Msg /\ Len(x) = Len(g) + Len(p)
      /\ \A i \in 1 .. Len(g) : x[i] = g[i]
      /\ \A i \in 1 .. Len(p) : x[Len(g) + i] = p[i]
  BY <1>2, Joined
<1>6. SizeLine(c) = y
  BY DEF SizeLine
<1> HIDE DEF g, p, x, e
<1>7. \A i \in 1 .. Len(x) : x[i] # Semi
  <2> SUFFICES ASSUME NEW i \in 1 .. Len(x) PROVE x[i] # Semi
    OBVIOUS
  <2>1. Len(g) \in Nat /\ Len(p) \in Nat
    BY <1>2, Empty
  <2>2. CASE i <= Len(g)
    <3>1. i \in 1 .. Len(g)
      BY <1>5, <2>1, <2>2
    <3>2. x[i] \in Digits
      BY <1>3, <1>5, <3>1
    <3>3. Semi \notin Digits
      BY DigitsAre DEF Semi
    <3> QED
      BY <3>2, <3>3
  <2>3. CASE ~(i <= Len(g))
    <3>1. i - Len(g) \in 1 .. Len(p) /\ Len(g) + (i - Len(g)) = i
      BY <1>5, <2>1, <2>3
    <3>2. x[i] = "SP"
      BY <1>3, <1>5, <3>1
    <3>3. Semi # "SP"
      BY DEF Semi
    <3> QED
      BY <3>2, <3>3
  <2> QED
    BY <2>2, <2>3
<1>8. /\ y \in Msg /\ Len(y) = Len(x) + Len(e)
      /\ \A i \in 1 .. Len(x) : y[i] = x[i]
      /\ \A i \in 1 .. Len(e) : y[Len(x) + i] = e[i]
  BY <1>2, <1>5, Joined
<1>9. Take(y, Len(x)) = x
  BY <1>2, <1>5, CutConcat DEF Msg
<1>10. (e = << >>) => y = x
  BY <1>5, Empty
<1> HIDE DEF y
<1>11. Len(x) \in Nat /\ Len(e) \in Nat /\ Len(y) \in Nat
  BY <1>2, <1>5, <1>8, Empty
<1>16. DOMAIN y = 1 .. Len(y)
  BY <1>8, LenProperties DEF Msg
<1>12. ASSUME NEW i \in 1 .. Len(y) PROVE i \in Places(y, semi) <=> y[i] = Semi
  <2>1. Len(semi) = 1 /\ DOMAIN semi = {1} /\ semi[1] = Semi
    OBVIOUS
  <2> HIDE DEF semi
  <2>2. Occurs(y, semi, i) <=> i + 1 - 1 <= Len(y) /\ y[i + 1 - 1] = Semi
    BY <2>1 DEF Occurs
  <2>3. i + 1 - 1 = i /\ i <= Len(y)
    BY <1>11
  <2> QED
    BY <1>16, <2>2, <2>3 DEF Places
<1> HIDE DEF semi
<1>13. Places(y, semi) \subseteq 1 .. Len(y)
  BY <1>16 DEF Places
<1>14. CASE e = << >>
  <2>1. y = x
    BY <1>10, <1>14
  <2>2. Places(y, semi) = {}
    BY <1>7, <1>12, <1>13, <2>1
  <2>3. Position(y, semi) = 0
    BY <2>2 DEF Position
  <2>4. Size(y) = Number(Trim(y), 16)
    BY <2>3 DEF Size, semi, Semi
  <2> QED
    BY <1>1, <1>4, <1>6, <2>1, <2>4 DEF g
<1>15. CASE e # << >>
  <2>1. Len(x) + 1 \in 1 .. Len(y) /\ y[Len(x) + 1] = Semi
    <3>1. 1 \in 1 .. Len(e)
      BY <1>2, <1>15, Empty
    <3>2. e[1] = Semi
      BY <1>1, <1>15 DEF e
    <3> QED
      BY <1>8, <1>11, <3>1, <3>2
  <2>2. Len(x) + 1 \in Places(y, semi)
    BY <1>12, <2>1
  <2>3. ASSUME NEW j \in Places(y, semi) PROVE Len(x) + 1 <= j
    <3>1. j \in 1 .. Len(y) /\ y[j] = Semi
      BY <1>12, <1>13
    <3> SUFFICES ASSUME j <= Len(x) PROVE FALSE
      BY <1>8, <1>11, <3>1
    <3>2. j \in 1 .. Len(x)
      BY <1>11, <3>1
    <3> QED
      BY <1>7, <1>8, <3>1, <3>2
  <2>4. Position(y, semi) = Len(x) + 1
    <3>1. Places(y, semi) \subseteq Nat /\ Len(x) + 1 \in Nat
      BY <1>11, <1>13
    <3> QED
      BY <2>2, <2>3, <3>1, PositionIs
  <2>5. Len(x) + 1 # 0 /\ Len(x) + 1 - 1 = Len(x)
    BY <1>11
  <2>6. Size(y) = Number(Trim(IF Position(y, semi) = 0 THEN y
                              ELSE Take(y, Position(y, semi) - 1)), 16)
    BY DEF Size, semi, Semi
  <2>7. Size(y) = Number(Trim(Take(y, Len(x))), 16)
    BY <2>4, <2>5, <2>6
  <2> QED
    BY <1>1, <1>4, <1>6, <1>9, <2>7 DEF g
<1> QED
  BY <1>14, <1>15

\* A size line holds no carriage return.
LEMMA NoReturnInLine ==
    ASSUME NEW c, IsChunk(c)
    PROVE  \A i \in 1 .. Len(SizeLine(c)) : SizeLine(c)[i] # "CR"
<1> DEFINE N == Byte \ {"CR", "LF"}
<1>1. c.digits \in Seq(Digits) /\ c.pad \in Seq({"SP"}) /\ c.ext \in Seq(N)
  BY DEF IsChunk, ChunkFrames
<1>2. Digits \subseteq N /\ {"SP"} \subseteq N
  BY DigitsAre DEF Byte
<1>3. \A x \in N : x # "CR"
  OBVIOUS
<1> HIDE DEF N
<1>4. c.digits \in Seq(N)
  BY <1>1, <1>2, SeqMonotonic
<1>5. c.pad \in Seq(N)
  BY <1>1, <1>2, SeqMonotonic
<1>6. c.digits \o c.pad \in Seq(N)
  BY <1>4, <1>5, ConcatProperties
<1>7. SizeLine(c) \in Seq(N)
  BY <1>1, <1>6, ConcatProperties DEF SizeLine
<1>8. \A i \in 1 .. Len(SizeLine(c)) : SizeLine(c)[i] \in N
  BY <1>7, ElementOfSeq
<1> QED
  BY <1>3, <1>8

\* dechunk finds the end of the size line, and takes the line and what follows it.
LEMMA FindsLine ==
    ASSUME NEW c, IsChunk(c), NEW t \in Msg, NEW b, b = (SizeLine(c) \o CRLF) \o t
    PROVE  /\ Position(b, CRLF) = Len(SizeLine(c)) + 1
           /\ Take(b, Len(SizeLine(c))) = SizeLine(c)
           /\ Drop(b, Len(SizeLine(c)) + 2) = t
<1> DEFINE s == SizeLine(c)
           x == s \o CRLF
           n == Len(s)
<1>1. s \in Msg /\ CRLF \in Msg /\ x \in Msg
  BY FrameIsMsg DEF IsChunk
<1>2. \A i \in 1 .. n : s[i] # "CR"
  BY NoReturnInLine
<1> HIDE DEF s
<1>3. /\ x \in Msg /\ Len(x) = n + Len(CRLF)
      /\ \A i \in 1 .. n : x[i] = s[i]
      /\ \A i \in 1 .. Len(CRLF) : x[n + i] = CRLF[i]
  BY <1>1, Joined
<1>4. n \in Nat /\ Len(CRLF) = 2
  BY <1>1, Empty, Patterns
<1>5. Take(b, n) = s
  <2>1. b = s \o (CRLF \o t)
    BY <1>1, Assoc DEF s
  <2>2. CRLF \o t \in Msg
    BY <1>1, Joined
  <2> QED
    BY <1>1, <2>1, <2>2, CutConcat DEF Msg
<1>6. b = x \o t
  BY DEF s
<1> HIDE DEF x, n
<1>7. Len(x) = n + 2 /\ x[n + 1] = "CR" /\ x[n + 2] = "LF" /\ \A i \in 1 .. n : x[i] # "CR"
  <2>1. 1 \in 1 .. Len(CRLF) /\ 2 \in 1 .. Len(CRLF)
    BY <1>4
  <2>2. x[n + 1] = CRLF[1] /\ x[n + 2] = CRLF[2]
    BY <1>3, <2>1
  <2>3. \A i \in 1 .. n : x[i] # "CR"
    BY <1>2, <1>3
  <2> QED
    BY <1>3, <1>4, <2>2, <2>3, Patterns
<1>8. Drop(b, n + 2) = t
  BY <1>1, <1>6, <1>7, CutConcat DEF Msg
<1>9. DOMAIN x = 1 .. Len(x)
  BY <1>1, LenProperties DEF Msg
<1>10. n + 1 \in Places(x, CRLF)
  <2>1. n + 1 \in DOMAIN x /\ n + 1 + Len(CRLF) - 1 <= Len(x)
    BY <1>4, <1>7, <1>9
  <2>2. ASSUME NEW k \in DOMAIN CRLF PROVE x[n + 1 + k - 1] = CRLF[k]
    <3>1. (k = 1 \/ k = 2) /\ n + 1 + 1 - 1 = n + 1 /\ n + 1 + 2 - 1 = n + 2
      BY <1>4, Patterns
    <3>2. CASE k = 1
      BY <1>7, <3>1, <3>2, Patterns
    <3>3. CASE k = 2
      BY <1>7, <3>1, <3>3, Patterns
    <3> QED
      BY <3>1, <3>2, <3>3
  <2> QED
    BY <2>1, <2>2 DEF Places, Occurs
<1>11. ASSUME NEW j \in Places(x, CRLF) PROVE n + 1 <= j
  <2>1. j \in 1 .. Len(x) /\ x[j + 1 - 1] = CRLF[1]
    BY <1>9, Patterns DEF Places, Occurs
  <2>2. j + 1 - 1 = j /\ x[j] = "CR"
    BY <2>1, Patterns
  <2>3. CASE j <= n
    <3>1. j \in 1 .. n
      BY <1>4, <2>1, <2>3
    <3> QED
      BY <1>7, <2>2, <3>1
  <2> QED
    BY <1>4, <2>1, <2>3
<1>12. Position(x \o t, CRLF) = n + 1
  <2>1. Len(CRLF) \in Nat /\ DOMAIN CRLF = 1 .. Len(CRLF)
    BY Patterns
  <2> QED
    BY <1>1, <1>10, <1>11, <2>1, FirstInPrefix DEF Msg
<1> QED
  BY <1>5, <1>6, <1>8, <1>12 DEF s, n

\* The line break after a chunk's data is skipped.
LEMMA SkipsBreak ==
    ASSUME NEW w \in Msg
    PROVE  AfterChunk(CRLF \o w) = w
<1> DEFINE x == CRLF \o w
<1>0. CRLF \in Msg
  BY Patterns
<1>1. /\ x \in Msg /\ Len(x) = Len(CRLF) + Len(w)
      /\ \A i \in 1 .. Len(CRLF) : x[i] = CRLF[i]
  BY <1>0, Joined
<1>2. Drop(x, Len(CRLF)) = w
  BY <1>0, CutConcat DEF Msg
<1> HIDE DEF x
<1>3. Len(CRLF) = 2 /\ DOMAIN CRLF = 1 .. Len(CRLF) /\ Len(w) \in Nat
  BY Patterns, Empty
<1>4. Occurs(x, CRLF, 1)
  <2>1. 1 + Len(CRLF) - 1 <= Len(x)
    BY <1>1, <1>3
  <2>2. ASSUME NEW k \in DOMAIN CRLF PROVE x[1 + k - 1] = CRLF[k]
    <3>1. k \in 1 .. Len(CRLF) /\ 1 + k - 1 = k
      BY <1>3
    <3> QED
      BY <1>1, <3>1
  <2> QED
    BY <2>1, <2>2 DEF Occurs
<1> QED
  BY <1>2, <1>3, <1>4 DEF AfterChunk, x

\* Less than a line break holds none.
LEMMA TooShort ==
    ASSUME NEW s \in Msg, Len(s) <= 1
    PROVE  Position(s, CRLF) = 0 /\ ~Occurs(s, CRLF, 1)
<1>1. ASSUME NEW i \in Nat, i >= 1 PROVE ~Occurs(s, CRLF, i)
  <2>1. Len(CRLF) = 2 /\ Len(s) \in Nat
    BY Patterns, Empty
  <2> QED
    BY <1>1, <2>1 DEF Occurs
<1>2. DOMAIN s = 1 .. Len(s) /\ Len(s) \in Nat
  BY LenProperties DEF Msg
<1>3. Places(s, CRLF) = {}
  BY <1>1, <1>2 DEF Places
<1> QED
  BY <1>1, <1>3 DEF Position

\* A cut beyond the first part of a message.
LEMMA TakeBeyond ==
    ASSUME NEW s \in Msg, NEW t \in Msg, NEW n \in Nat, Len(s) <= n,
           n <= Len(s) + Len(t)
    PROVE  Take(s \o t, n) = s \o Take(t, n - Len(s))
<1> DEFINE u == s \o t
           k == n - Len(s)
           x == Take(u, n)
           z == Take(t, k)
           y == s \o z
<1>1. /\ u \in Msg /\ Len(u) = Len(s) + Len(t)
      /\ \A i \in 1 .. Len(s) : u[i] = s[i]
      /\ \A i \in 1 .. Len(t) : u[Len(s) + i] = t[i]
  BY Joined
<1>2. Len(s) \in Nat /\ Len(t) \in Nat
  BY Empty
<1> HIDE DEF u
<1>3. k \in 0 .. Len(t) /\ n \in 0 .. Len(u) /\ Len(s) + k = n
  BY <1>1, <1>2
<1> HIDE DEF k
<1>4. x \in Msg /\ Len(x) = n /\ \A i \in 1 .. n : x[i] = u[i]
  BY <1>1, <1>3, TakeProperties DEF Msg
<1>5. z \in Msg /\ Len(z) = k /\ \A i \in 1 .. k : z[i] = t[i]
  BY <1>3, TakeProperties DEF Msg
<1> HIDE DEF x, z
<1>6. /\ y \in Msg /\ Len(y) = Len(s) + Len(z)
      /\ \A i \in 1 .. Len(s) : y[i] = s[i]
      /\ \A i \in 1 .. Len(z) : y[Len(s) + i] = z[i]
  BY <1>5, Joined
<1> HIDE DEF y
<1>7. Len(x) = Len(y)
  BY <1>3, <1>4, <1>5, <1>6
<1>8. ASSUME NEW i \in 1 .. Len(x) PROVE x[i] = y[i]
  <2>0. i \in 1 .. n /\ i \in Nat
    BY <1>4
  <2>1. CASE i <= Len(s)
    <3>1. i \in 1 .. Len(s)
      BY <1>2, <2>0, <2>1
    <3> QED
      BY <1>1, <1>4, <1>6, <2>0, <3>1
  <2>2. CASE ~(i <= Len(s))
    <3>1. /\ i - Len(s) \in 1 .. k /\ i - Len(s) \in 1 .. Len(t)
          /\ Len(s) + (i - Len(s)) = i
      BY <1>2, <1>3, <2>0, <2>2
    <3>2. u[i] = t[i - Len(s)] /\ y[i] = z[i - Len(s)]
      BY <1>1, <1>5, <1>6, <3>1
    <3> QED
      BY <1>4, <1>5, <2>0, <3>1, <3>2
  <2> QED
    BY <2>1, <2>2
<1>9. x = y
  BY <1>4, <1>6, <1>7, <1>8, SeqEqual DEF Msg
<1> QED
  BY <1>9 DEF x, y, z, u, k

\* A chunk cut in its size line shows no end of line.
LEMMA CutInLine ==
    ASSUME NEW c, IsChunk(c), NEW n \in 0 .. Len(Frame(c)), n < Len(SizeLine(c)) + 2
    PROVE  Position(Take(Frame(c), n), CRLF) = 0
<1> DEFINE s == SizeLine(c)
           t == (CRLF \o c.data) \o c.end
           u == s \o t
           x == Take(u, n)
<1>1. s \in Msg /\ CRLF \in Msg /\ c.data \in Msg /\ c.end \in Msg /\ CRLF \o c.data \in Msg
  BY FrameIsMsg, Joined DEF IsChunk
<1>2. \A i \in 1 .. Len(s) : s[i] # "CR"
  BY NoReturnInLine
<1>3. Frame(c) = u
  <2>1. (s \o CRLF) \o c.data = s \o (CRLF \o c.data)
    BY <1>1, Assoc, ZenonT(40)
  <2>2. (s \o (CRLF \o c.data)) \o c.end = s \o ((CRLF \o c.data) \o c.end)
    BY <1>1, Assoc, ZenonT(40)
  <2> QED
    BY <2>1, <2>2 DEF Frame
<1>4. n < Len(s) + 2 /\ n \in Nat
  OBVIOUS
<1>5. t \in Msg
  BY <1>1, Joined
<1> HIDE DEF s, t
<1>6. /\ u \in Msg /\ Len(u) = Len(s) + Len(t)
      /\ \A i \in 1 .. Len(s) : u[i] = s[i]
  BY <1>1, <1>5, Joined
<1>7. n \in 0 .. Len(u)
  BY <1>3
<1> HIDE DEF u
<1>8. x \in Msg /\ Len(x) = n /\ \A i \in 1 .. n : x[i] = u[i]
  BY <1>6, <1>7, TakeProperties DEF Msg
<1> HIDE DEF x
<1>9. DOMAIN x = 1 .. Len(x) /\ Len(s) \in Nat
  BY <1>1, <1>8, LenProperties DEF Msg
<1>10. ASSUME NEW i \in Places(x, CRLF) PROVE FALSE
  <2>1. i \in 1 .. n /\ Occurs(x, CRLF, i)
    BY <1>8, <1>9 DEF Places
  <2>2. i + Len(CRLF) - 1 <= Len(x) /\ x[i + 1 - 1] = CRLF[1]
    BY <2>1, Patterns DEF Occurs
  <2>3. Len(CRLF) = 2 /\ CRLF[1] = "CR"
    BY Patterns
  <2>4. i \in 1 .. Len(s) /\ i + 1 - 1 = i
    BY <1>4, <1>8, <1>9, <2>1, <2>2, <2>3
  <2>5. x[i] = s[i]
    BY <1>6, <1>8, <2>1, <2>4
  <2> QED
    BY <1>2, <2>2, <2>3, <2>4, <2>5
<1>11. Position(x, CRLF) = 0
  BY <1>10 DEF Position
<1> QED
  BY <1>3, <1>11 DEF x, u

\* A chunk cut after its size line.
LEMMA CutAfterLine ==
    ASSUME NEW c, IsChunk(c), NEW n \in 0 .. Len(Frame(c)), Len(SizeLine(c)) + 2 <= n
    PROVE  \E k \in 0 .. Len(c.data \o c.end) :
             /\ n = Len(SizeLine(c)) + 2 + k
             /\ Take(Frame(c), n) = (SizeLine(c) \o CRLF) \o Take(c.data \o c.end, k)
<1> DEFINE s == SizeLine(c) \o CRLF
           t == c.data \o c.end
<1>1. /\ SizeLine(c) \in Msg /\ CRLF \in Msg /\ s \in Msg /\ c.data \in Msg
      /\ c.end \in Msg /\ t \in Msg
  BY FrameIsMsg, Joined DEF IsChunk
<1>2. Frame(c) = s \o t
  <2>1. (s \o c.data) \o c.end = s \o (c.data \o c.end)
    BY <1>1, Assoc, ZenonT(40)
  <2> QED
    BY <2>1 DEF Frame
<1>3. Len(s) = Len(SizeLine(c)) + 2
  BY <1>1, Joined, Patterns
<1>4. Len(s) \in Nat /\ Len(t) \in Nat /\ Len(SizeLine(c)) \in Nat
  BY <1>1, Empty
<1> HIDE DEF s, t
<1>5. Len(Frame(c)) = Len(s) + Len(t)
  BY <1>1, <1>2, Joined
<1>6. n \in Nat /\ Len(s) <= n /\ n <= Len(s) + Len(t)
  BY <1>3, <1>4, <1>5
<1>7. Take(Frame(c), n) = s \o Take(t, n - Len(s))
  BY <1>1, <1>2, <1>6, TakeBeyond
<1>8. n - Len(s) \in 0 .. Len(t) /\ n = Len(SizeLine(c)) + 2 + (n - Len(s))
  BY <1>3, <1>4, <1>6
<1> QED
  BY <1>7, <1>8 DEF s, t

\* One turn of the loop that finds no end of line returns.
LEMMA ChunkStops ==
    ASSUME Chunk, Position(body, CRLF) = 0
    PROVE  pc' = "done" /\ out' = out /\ delivery' = delivery
BY DEF Chunk

\* One turn of the loop on what begins with a chunk's size line.
LEMMA ChunkReads ==
    ASSUME Chunk, NEW c, IsChunk(c), NEW t \in Msg, body = (SizeLine(c) \o CRLF) \o t
    PROVE  /\ delivery' = delivery
           /\ c.data = << >> \/ Len(t) < Len(c.data) => pc' = "done" /\ out' = out
           /\ ~(c.data = << >> \/ Len(t) < Len(c.data)) =>
                /\ pc' = "chunks" /\ out' = out \o Take(t, Len(c.data))
                /\ body' = AfterChunk(Drop(t, Len(c.data)))
<1> DEFINE n == Len(SizeLine(c))
<1>1. n \in Nat /\ Len(c.data) \in Nat /\ (c.data = << >> <=> Len(c.data) = 0)
  BY FrameIsMsg, Empty DEF IsChunk
<1>2. Position(body, CRLF) = n + 1 /\ Take(body, n) = SizeLine(c) /\ Drop(body, n + 2) = t
  BY FindsLine
<1> HIDE DEF n
<1>4. Size(SizeLine(c)) = Len(c.data)
  BY ReadsSize
<1>5. /\ delivery' = delivery
      /\ IF IsLast(Len(c.data), t)
         THEN pc' = "done" /\ UNCHANGED <<body, out>>
         ELSE /\ out' = out \o Take(t, Len(c.data))
              /\ body' = AfterChunk(Drop(t, Len(c.data)))
              /\ UNCHANGED pc
  <2>1. PICK nl \in {Position(body, CRLF)} :
          \E line \in {Take(body, nl - 1)}, rest \in {Drop(body, nl + 1)} :
          \E size \in {Size(line)} :
            IF nl = 0 \/ IsLast(size, rest)
            THEN pc' = "done" /\ UNCHANGED <<body, out>>
            ELSE /\ out' = out \o Take(rest, size)
                 /\ body' = AfterChunk(Drop(rest, size))
                 /\ UNCHANGED pc
    BY DEF Chunk
  <2>2. nl # 0 /\ Take(body, nl - 1) = SizeLine(c) /\ Drop(body, nl + 1) = t
    <3>1. nl = n + 1
      BY <1>2, Zenon
    <3>2. nl # 0 /\ nl - 1 = n /\ nl + 1 = n + 2
      BY <1>1, <3>1
    <3> QED
      BY <1>2, <3>2, Zenon
  <2>3. delivery' = delivery
    BY DEF Chunk
  <2> QED
    BY <1>4, <2>1, <2>2, <2>3, Zenon
<1>6. pc = "chunks"
  BY DEF Chunk
<1> QED
  BY <1>1, <1>5, <1>6 DEF IsLast

\* One turn of the loop on what begins with a whole chunk.
LEMMA WholeChunk ==
    ASSUME Chunk, NEW c, IsChunk(c), c.data # << >>, NEW w \in Msg, body = Frame(c) \o w
    PROVE  /\ delivery' = delivery /\ pc' = "chunks"
           /\ out' = out \o c.data /\ body' = w
<1> DEFINE s == SizeLine(c) \o CRLF
           r == CRLF \o w
           t == c.data \o r
<1>1. s \in Msg /\ CRLF \in Msg /\ c.data \in Msg /\ r \in Msg /\ t \in Msg /\ s \o c.data \in Msg
  <2>1. s \in Msg /\ CRLF \in Msg /\ c.data \in Msg
    BY FrameIsMsg DEF IsChunk
  <2>2. r \in Msg
    BY <2>1, Joined
  <2> QED
    BY <2>1, <2>2, Joined
<1>2. c.end = CRLF
  BY DEF IsChunk
<1>3. body = s \o t
  <2>1. body = ((s \o c.data) \o CRLF) \o w
    BY <1>2 DEF Frame
  <2>2. ((s \o c.data) \o CRLF) \o w = (s \o c.data) \o (CRLF \o w)
    <3> HIDE DEF s
    <3> QED
      BY <1>1, Assoc, ZenonT(40)
  <2>3. (s \o c.data) \o r = s \o (c.data \o r)
    <3>1. s \in Msg /\ c.data \in Msg /\ r \in Msg
      BY <1>1
    <3> HIDE DEF s, r, t
    <3> QED
      BY <3>1, Assoc
  <2> QED
    BY <2>1, <2>2, <2>3
<1>4. Take(t, Len(c.data)) = c.data /\ Drop(t, Len(c.data)) = r
  <2> HIDE DEF r
  <2> QED
    BY <1>1, CutConcat DEF Msg
<1>5. Len(t) = Len(c.data) + Len(r) /\ Len(c.data) \in Nat /\ Len(r) \in Nat
  BY <1>1, Joined, Empty
<1>6. AfterChunk(r) = w
  BY SkipsBreak
<1> HIDE DEF s, t, r
<1>7. ~(Len(t) < Len(c.data))
  BY <1>5
<1>8. body = (SizeLine(c) \o CRLF) \o t
  BY <1>3 DEF s
<1>9. /\ delivery' = delivery /\ pc' = "chunks"
      /\ out' = out \o Take(t, Len(c.data)) /\ body' = AfterChunk(Drop(t, Len(c.data)))
  BY <1>1, <1>7, <1>8, ChunkReads
<1> QED
  BY <1>4, <1>6, <1>9

\* One turn of the loop on the beginning of a chunk: it returns, unless the data is
\* all there, and then what it leaves makes the next turn return.
LEMMA CutChunk ==
    ASSUME Chunk, NEW c, IsChunk(c), NEW n \in 0 .. Len(Frame(c)),
           body = Take(Frame(c), n)
    PROVE  /\ delivery' = delivery
           /\ \/ /\ pc' = "done" /\ out' = out
                 /\ c.data = << >> \/ n < Len(SizeLine(c) \o CRLF \o c.data)
              \/ /\ pc' = "chunks" /\ out' = out \o c.data /\ Position(body', CRLF) = 0
                 /\ ~(n < Len(SizeLine(c) \o CRLF \o c.data))
<1> DEFINE L == Len(SizeLine(c))
           D == Len(c.data)
           e == c.data \o c.end
<1>1. /\ SizeLine(c) \in Msg /\ SizeLine(c) \o CRLF \in Msg /\ c.data \in Msg
      /\ c.end \in Msg /\ CRLF \in Msg /\ e \in Msg
  BY FrameIsMsg, Joined DEF IsChunk
<1>2. L \in Nat /\ D \in Nat
  BY <1>1, Empty
<1>7. Len(e) = D + Len(c.end)
  BY <1>1, Joined
<1>6. n \in Nat
  OBVIOUS
<1>3. Len(SizeLine(c) \o CRLF \o c.data) = L + 2 + D
  <2>1. Len(SizeLine(c) \o CRLF) = L + 2
    BY <1>1, Joined, Patterns
  <2>2. Len(SizeLine(c) \o CRLF \o c.data) = Len(SizeLine(c) \o CRLF) + Len(c.data)
    BY <1>1, Joined
  <2> QED
    BY <2>1, <2>2
<1> HIDE DEF L, D
<1>4. CASE n < L + 2
  <2>1. Position(body, CRLF) = 0
    BY <1>4, CutInLine DEF L
  <2>2. n < L + 2 + D
    BY <1>2, <1>4
  <2> QED
    BY <1>3, <2>1, <2>2, ChunkStops
<1>5. CASE L + 2 <= n
  <2>1. PICK k \in 0 .. Len(e) :
          n = L + 2 + k /\ body = (SizeLine(c) \o CRLF) \o Take(e, k)
    BY <1>5, CutAfterLine DEF L
  <2> DEFINE t == Take(e, k)
  <2>2. t \in Msg /\ Len(t) = k
    BY <1>1, TakeProperties DEF Msg
  <2>3. body = (SizeLine(c) \o CRLF) \o t
    BY <2>1
  <2> HIDE DEF t, e
  <2>4. /\ delivery' = delivery
        /\ c.data = << >> \/ Len(t) < Len(c.data) => pc' = "done" /\ out' = out
        /\ ~(c.data = << >> \/ Len(t) < Len(c.data)) =>
             /\ pc' = "chunks" /\ out' = out \o Take(t, Len(c.data))
             /\ body' = AfterChunk(Drop(t, Len(c.data)))
    BY <2>2, <2>3, ChunkReads
  <2>5. CASE c.data = << >>
    BY <2>4, <2>5
  <2>8. n = L + 2 + k /\ k \in Int
    BY <2>1
  <2>6. CASE c.data # << >> /\ k < D
    <3>1. n < L + 2 + D
      BY <1>2, <2>6, <2>8
    <3> QED
      BY <1>3, <2>2, <2>4, <2>6, <3>1 DEF D
  <2>7. CASE c.data # << >> /\ ~(k < D)
    <3> DEFINE z == Take(CRLF, k - D)
    <3>1. c.end = CRLF /\ Len(CRLF) = 2
      BY <2>7, Patterns DEF IsChunk
    <3>0. k <= D + 2 /\ k >= 0
      BY <1>7, <3>1
    <3>2. /\ k \in Nat /\ D <= k /\ k - D \in 0 .. 2 /\ ~(n < L + 2 + D)
      BY <1>2, <2>7, <2>8, <3>0
    <3>3. t = c.data \o z
      BY <1>1, <3>0, <3>1, <3>2, TakeBeyond DEF t, e, D
    <3>4. z \in Msg /\ Len(z) = k - D
      <4>1. CRLF \in Seq(Byte) /\ k - D \in 0 .. Len(CRLF)
        BY <1>1, <3>1, <3>2 DEF Msg
      <4> QED
        BY <4>1, TakeProperties DEF Msg
    <3>5. k - D = 2 => z = CRLF
      <4>1. Take(CRLF, Len(CRLF)) = CRLF
        BY <1>1, SubSeqFull DEF Take, Msg
      <4> QED
        BY <3>1, <4>1
    <3> HIDE DEF z
    <3>6. Take(t, Len(c.data)) = c.data /\ Drop(t, Len(c.data)) = z
      BY <1>1, <3>3, <3>4, CutConcat DEF Msg
    <3>7. pc' = "chunks" /\ out' = out \o c.data /\ body' = AfterChunk(z)
      BY <2>2, <2>4, <2>7, <3>6 DEF D
    <3>8. Position(AfterChunk(z), CRLF) = 0
      <4>1. CASE Len(z) <= 1
        <5>1. Position(z, CRLF) = 0 /\ ~Occurs(z, CRLF, 1)
          BY <3>4, <4>1, TooShort
        <5> QED
          BY <5>1 DEF AfterChunk
      <4>2. CASE ~(Len(z) <= 1)
        <5>1. k - D = 2
          BY <3>2, <3>4, <4>2
        <5>2. z = CRLF \o << >> /\ << >> \in Msg /\ Len(<< >>) <= 1
          BY <1>1, <3>5, <5>1, Empty
        <5>3. AfterChunk(z) = << >>
          BY <5>2, SkipsBreak
        <5> QED
          BY <5>2, <5>3, TooShort
      <4> QED
        BY <4>1, <4>2
    <3>9. Position(body', CRLF) = 0
      BY <3>7, <3>8
    <3> QED
      BY <1>3, <2>4, <3>2, <3>7, <3>9
  <2> QED
    BY <2>5, <2>6, <2>7
<1>8. n < L + 2 \/ L + 2 <= n
  BY <1>2, <1>6
<1> QED
  BY <1>4, <1>5, <1>8

\* What dechunk has read so far and what it is still to read make up what was
\* received: the rest begins with a chunk, or holds none and the data is complete.
OnTrack(d) ==
    \/ \E m \in 0 .. Len(d.chunks) :
          /\ body = Received(d)[m].wire
          /\ out \o Received(d)[m].data = AllReceived(d).data
    \/ Position(body, CRLF) = 0 /\ out = AllReceived(d).data

Decoding ==
    /\ delivery \in Deliveries /\ pc \in {"status", "split", "chunks", "done"}
    /\ pc \in {"status", "split"} => out = << >>
    /\ pc = "chunks" => Chunked(delivery) /\ out \in Msg /\ OnTrack(delivery)
    /\ pc = "done" => out = Content(delivery)

\* The split leaves the body, whole if it is chunked and else as the result.
LEMMA SplitDecodes ==
    ASSUME Decoding, Split
    PROVE  Decoding'
<1> DEFINE d == delivery
           h == HeadOf(d)
           t == Rest(d)
<1>1. IsDelivery(d) /\ IsHead(d) /\ d \in Deliveries /\ delivery' = delivery
  BY DeliveriesAssumption DEF Decoding, IsDelivery, Split
<1>2. h \in Msg /\ t \in Msg /\ Buf(d) = h \o t
  BY <1>1, HeadIsMsg, RestIsMsg DEF Buf, Rest
<1>3. SplitAt(Buf(d)) = Len(h)
  BY <1>1, SplitsHead
<1>4. Take(Buf(d), Len(h)) = h /\ Drop(Buf(d), Len(h)) = t
  <2> HIDE DEF h, t
  <2> QED
    BY <1>2, CutConcat DEF Msg
<1>5. HeaderIsChunked(h) <=> Chunked(d)
  BY <1>1, FindsEncoding
<1>6. IF Chunked(d) THEN pc' = "chunks" /\ body' = t /\ out' = << >>
      ELSE pc' = "done" /\ body' = << >> /\ out' = t
  BY <1>3, <1>4, <1>5 DEF Split
<1>7. CASE Chunked(d)
  <2>1. IsChunkedBody(d)
    BY <1>1, <1>7 DEF IsDelivery
  <2> DEFINE n == Len(d.chunks)
  <2>2. n \in 0 .. n
    BY <2>1, LenProperties DEF IsChunkedBody
  <2>3. AllReceived(d).data \in Msg /\ AllReceived(d) = Received(d)[n]
    BY <2>1, <2>2, ReceivedIsMsg DEF AllReceived
  <2>4. body' = Received(d)[n].wire /\ out' = << >>
    BY <1>6, <1>7, <2>3 DEF Rest
  <2>5. out' \o Received(d)[n].data = AllReceived(d).data /\ out' \in Msg
    BY <2>3, <2>4, Empty
  <2> HIDE DEF n
  <2>6. OnTrack(delivery)'
    BY <1>1, <2>2, <2>4, <2>5 DEF OnTrack, n
  <2> QED
    BY <1>1, <1>6, <1>7, <2>5, <2>6 DEF Decoding
<1>8. CASE ~Chunked(d)
  BY <1>1, <1>6, <1>8 DEF Decoding, Content, Rest
<1> QED
  BY <1>7, <1>8

\* Each turn of the loop reads one whole chunk, or returns.
LEMMA ChunkDecodes ==
    ASSUME Decoding, Chunk
    PROVE  Decoding'
<1> DEFINE d == delivery
           n == Len(d.chunks)
           F == Received(d)
           all == AllReceived(d).data
<1>1. /\ IsDelivery(d) /\ d \in Deliveries /\ Chunked(d) /\ IsChunkedBody(d)
      /\ out \in Msg /\ OnTrack(d)
  BY DeliveriesAssumption DEF Decoding, IsDelivery, Chunk
<1>2. /\ n \in Nat /\ F[0] = Beginning(d)
      /\ \A m \in 1 .. n : F[m] = Before(d.chunks[n + 1 - m], F[m - 1])
  BY <1>1, ReceivedIs, LenProperties DEF IsChunkedBody
<1>3. \A m \in 0 .. n : F[m].wire \in Msg /\ F[m].data \in Msg
  BY <1>1, ReceivedIsMsg
<1>4. Content(d) = all
  BY <1>1 DEF Content
<1>5. IsChunk(d.next) /\ d.got \in 0 .. Len(Frame(d.next))
      /\ DOMAIN d.chunks = 1 .. n
      /\ \A k \in DOMAIN d.chunks : IsChunk(d.chunks[k]) /\ d.chunks[k].data # << >>
  BY <1>1, LenProperties DEF IsChunkedBody
<1>6. ASSUME delivery' = delivery, pc' = "done", out' = all PROVE Decoding'
  BY <1>1, <1>4, <1>6 DEF Decoding
<1>7. ASSUME delivery' = delivery, pc' = "chunks", out' \in Msg, OnTrack(d)' PROVE Decoding'
  BY <1>1, <1>7 DEF Decoding
<1>8. CASE Position(body, CRLF) = 0 /\ out = all
  BY <1>6, <1>8, ChunkStops
<1>9. ASSUME NEW m \in 0 .. n, body = F[m].wire, out \o F[m].data = all PROVE Decoding'
  <2>1. CASE m = 0
    <3> DEFINE c == d.next
               whole == Len(SizeLine(c) \o CRLF \o c.data)
    <3>1. /\ F[m].data = IF d.got < whole THEN << >> ELSE c.data
          /\ body = Take(Frame(c), d.got)
      <4>1. F[m] = Beginning(d)
        BY <1>2, <2>1
      <4>2. /\ Beginning(d).data = IF d.got < whole THEN << >> ELSE c.data
            /\ Beginning(d).wire = Take(Frame(c), d.got)
        BY DEF Beginning
      <4> HIDE DEF c, whole, F
      <4> QED
        BY <1>9, <4>1, <4>2
    <3>2. c.data \in Msg
      BY <1>5, FrameIsMsg DEF IsChunk
    <3>3. /\ delivery' = delivery
          /\ \/ pc' = "done" /\ out' = out /\ (c.data = << >> \/ d.got < whole)
             \/ /\ pc' = "chunks" /\ out' = out \o c.data /\ Position(body', CRLF) = 0
                /\ ~(d.got < whole)
      BY <1>5, <3>1, CutChunk
    <3> HIDE DEF whole, c, F, all
    <3>4. CASE pc' = "done" /\ out' = out /\ (c.data = << >> \/ d.got < whole)
      <4>1. F[m].data = << >>
        BY <3>1, <3>4
      <4>2. out = all
        BY <1>1, <1>9, <4>1, Empty
      <4> QED
        BY <1>6, <3>3, <3>4, <4>2
    <3>5. CASE /\ pc' = "chunks" /\ out' = out \o c.data /\ Position(body', CRLF) = 0
               /\ ~(d.got < whole)
      <4>1. out' = all
        BY <1>9, <3>1, <3>5
      <4>2. out' \in Msg
        BY <1>1, <3>2, <3>5, Joined
      <4>3. OnTrack(d)'
        BY <3>3, <3>5, <4>1 DEF OnTrack, all
      <4> QED
        BY <1>7, <3>3, <3>5, <4>2, <4>3
    <3> QED
      BY <3>3, <3>4, <3>5
  <2>2. CASE m # 0
    <3> DEFINE c == d.chunks[n + 1 - m]
               w == F[m - 1].wire
               x == F[m - 1].data
    <3>1. m \in 1 .. n /\ m - 1 \in 0 .. n /\ n + 1 - m \in 1 .. n
      BY <1>2, <2>2
    <3>2. IsChunk(c) /\ c.data # << >>
      BY <1>5, <3>1
    <3>3. w \in Msg /\ x \in Msg
      BY <1>3, <3>1
    <3>4. F[m] = Before(c, F[m - 1])
      BY <1>2, <3>1
    <3>5. F[m].wire = Frame(c) \o w /\ F[m].data = c.data \o x
      <4> HIDE DEF c, F
      <4>1. /\ Before(c, F[m - 1]).wire = Frame(c) \o F[m - 1].wire
            /\ Before(c, F[m - 1]).data = c.data \o F[m - 1].data
        BY DEF Before
      <4> QED
        BY <3>4, <4>1
    <3>6. c.data \in Msg
      BY <3>2, FrameIsMsg DEF IsChunk
    <3> HIDE DEF c, w, x
    <3>7. delivery' = delivery /\ pc' = "chunks" /\ out' = out \o c.data /\ body' = w
      BY <1>9, <3>2, <3>3, <3>5, WholeChunk
    <3>8. out' \o x = all /\ out' \in Msg
      <4>1. (out \o c.data) \o x = out \o (c.data \o x)
        BY <1>1, <3>3, <3>6, Assoc
      <4>2. out \o c.data \in Msg
        BY <1>1, <3>6, Joined
      <4> HIDE DEF F, all
      <4> QED
        BY <1>9, <3>5, <3>7, <4>1, <4>2
    <3>9. OnTrack(d)'
      <4>1. OnTrack(d)' <=>
              \/ \E k \in 0 .. n : body' = F[k].wire /\ out' \o F[k].data = all
              \/ Position(body', CRLF) = 0 /\ out' = all
        BY <3>7 DEF OnTrack
      <4> HIDE DEF F, all, n
      <4> QED
        BY <3>1, <3>7, <3>8, <4>1 DEF w, x
    <3> QED
      BY <1>7, <3>7, <3>8, <3>9
  <2> QED
    BY <2>1, <2>2
<1> QED
  BY <1>1, <1>8, <1>9 DEF OnTrack

\* dechunk has always collected a prefix of the content.
LEMMA DecodingPrefix == Decoding => DecodesContent
<1> SUFFICES ASSUME Decoding PROVE DecodesContent
  OBVIOUS
<1> DEFINE d == delivery
           c == Content(d)
<1>1. IsDelivery(d) /\ c \in Msg
  BY DeliveriesAssumption, RestIsMsg DEF Decoding
<1> SUFFICES /\ pc = "done" => out = c
             /\ Len(out) <= Len(c) /\ out = Take(c, Len(out))
  BY DEF DecodesContent
<1>2. CASE pc \in {"status", "split"}
  <2>1. out = << >> /\ Len(out) = 0 /\ Len(c) \in Nat
    BY <1>1, <1>2, Empty DEF Decoding
  <2>2. Take(c, 0) = << >>
    BY SubSeqEmpty DEF Take
  <2> QED
    BY <1>2, <2>1, <2>2
<1>3. CASE pc = "done"
  <2>1. out = c /\ Len(c) \in Nat
    BY <1>1, <1>3, Empty DEF Decoding
  <2>2. Take(c, Len(c)) = c
    <3> HIDE DEF c
    <3> QED
      BY <1>1, SubSeqFull DEF Take, Msg
  <2> QED
    BY <2>1, <2>2
<1>4. CASE pc = "chunks"
  <2>1. Chunked(d) /\ out \in Msg /\ OnTrack(d) /\ IsChunkedBody(d)
    BY <1>1, <1>4 DEF Decoding, IsDelivery
  <2>2. c = AllReceived(d).data
    BY <2>1 DEF Content
  <2>3. \E x \in Msg : out \o x = c
    <3>1. << >> \in Msg /\ out \o << >> = out
      BY <2>1, Empty
    <3> QED
      BY <2>1, <2>2, <3>1, ReceivedIsMsg DEF OnTrack
  <2>4. PICK x \in Msg : out \o x = c
    BY <2>3
  <2> HIDE DEF c
  <2>5. Take(c, Len(out)) = out
    BY <2>1, <2>4, CutConcat DEF Msg
  <2>6. Len(c) = Len(out) + Len(x) /\ Len(out) \in Nat /\ Len(x) \in Nat
    BY <2>1, <2>4, Joined, Empty
  <2> QED
    BY <1>4, <2>5, <2>6
<1> QED
  BY <1>2, <1>3, <1>4 DEF Decoding

\* decoded_body gives the content of the message, for every message framed as
\* HTTP prescribes, its body cut anywhere: all that follows the head, or if that says
\* chunked the data of the chunks that arrived whole, in order.  Data that looks
\* like framing is not read as framing, sizes may be padded and have extensions,
\* and a chunk that was cut short, a last chunk or a trailer adds nothing.
THEOREM DecodesSafe == Spec => []DecodesContent
<1>1. Init => Decoding
  BY DEF Init, Decoding
<1>2. Decoding /\ [Next]_vars => Decoding'
  <2> SUFFICES ASSUME Decoding, [Next]_vars PROVE Decoding'
    OBVIOUS
  <2>1. CASE ReadStatus
    BY <2>1 DEF ReadStatus, Decoding
  <2>2. CASE Split
    BY <2>2, SplitDecodes
  <2>3. CASE Chunk
    BY <2>3, ChunkDecodes
  <2>4. CASE Returned \/ UNCHANGED vars
    BY <2>4 DEF Returned, vars, Decoding, OnTrack
  <2> QED
    BY <2>1, <2>2, <2>3, <2>4 DEF Next
<1> QED
  BY <1>1, <1>2, DecodingPrefix, PTL DEF Spec
-----------------------------------------------------------------------------
\* A position is a place.
LEMMA PositionIsPlace ==
    ASSUME NEW s \in Msg, NEW p, Position(s, p) # 0
    PROVE  Position(s, p) \in 1 .. Len(s) /\ Occurs(s, p, Position(s, p))
<1> DEFINE P == Places(s, p)
<1>1. P \subseteq 1 .. Len(s) /\ \A i \in P : Occurs(s, p, i)
  <2>1. DOMAIN s = 1 .. Len(s)
    BY LenProperties DEF Msg
  <2> QED
    BY <2>1 DEF Places
<1>2. P # {}
  BY DEF Position
<1>3. Len(s) \in Nat
  BY Empty
<1> HIDE DEF P
<1>4. \E i \in P : \A j \in P : i <= j
  <2>1. P \in SUBSET Nat
    BY <1>1, <1>3
  <2> QED
    BY <1>2, <2>1, LeastNat
<1>5. (CHOOSE i \in P : \A j \in P : i <= j) \in P
  BY <1>4
<1>6. Position(s, p) \in P
  BY <1>2, <1>5 DEF Position, P
<1> QED
  BY <1>1, <1>6

\* Trimmed bytes are bytes.
LEMMA TrimIsMsg ==
    ASSUME NEW s \in Msg
    PROVE  Trim(s) \in Msg
<1> DEFINE P == {i \in DOMAIN s : s[i] \notin White}
           a == CHOOSE i \in P : \A j \in P : i <= j
           b == CHOOSE i \in P : \A j \in P : i >= j
<1>1. P \subseteq 1 .. Len(s) /\ Len(s) \in Nat
  BY LenProperties DEF Msg
<1>2. Trim(s) = IF P = {} THEN << >> ELSE SubSeq(s, a, b)
  BY DEF Trim
<1> HIDE DEF P
<1>3. CASE P # {}
  <2>1. a \in P
    <3>1. \E i \in P : \A j \in P : i <= j
      <4>1. P \in SUBSET Nat
        BY <1>1
      <4> QED
        BY <1>3, <4>1, LeastNat
    <3> QED
      BY <3>1
  <2>2. b \in P
    <3> DEFINE Q == {Len(s) - i : i \in P}
    <3>1. Q \in SUBSET Nat /\ Q # {}
      <4>1. ASSUME NEW i \in P PROVE Len(s) - i \in Nat
        BY <1>1
      <4> QED
        BY <1>3, <4>1
    <3>2. PICK q \in Q : \A r \in Q : q <= r
      <4> HIDE DEF Q
      <4> QED
        BY <3>1, LeastNat
    <3>3. PICK i \in P : q = Len(s) - i
      BY <3>2
    <3>4. ASSUME NEW j \in P PROVE i >= j
      <4>1. Len(s) - i <= Len(s) - j
        BY <3>2, <3>3
      <4>2. i \in Nat /\ j \in Nat
        BY <1>1
      <4> HIDE DEF Q
      <4> QED
        BY <1>1, <4>1, <4>2
    <3>5. \E k \in P : \A j \in P : k >= j
      BY <3>4
    <3> QED
      BY <3>5
  <2> HIDE DEF a, b
  <2>3. a \in 1 .. Len(s) /\ b \in 1 .. Len(s)
    BY <1>1, <2>1, <2>2
  <2>4. \A i \in a .. b : s[i] \in Byte
    <3>1. a .. b \subseteq 1 .. Len(s)
      BY <1>1, <2>3
    <3> QED
      BY <3>1 DEF Msg
  <2>5. SubSeq(s, a, b) \in Seq(Byte)
    BY <2>3, <2>4, SubSeqProperties
  <2> QED
    BY <1>2, <1>3, <2>5 DEF Msg
<1> QED
  BY <1>2, <1>3, Empty

\* The value of the first digits of a word.
Values(f, w, base, n) ==
    f = [i \in 0 .. n |-> IF i = 0 THEN 0 ELSE base * f[i - 1] + Digit[w[i]]]

\* The recursion of the number parser defines a value for every prefix.
LEMMA ValuesExist ==
    ASSUME NEW w, NEW base, NEW n \in Nat
    PROVE  \E f : Values(f, w, base, n)
<1> DEFINE T == {k \in 0 .. n : \E f : Values(f, w, base, k)}
<1>1. 0 \in T
  <2> DEFINE f == [i \in 0 .. 0 |-> 0]
  <2>1. Values(f, w, base, 0)
    BY DEF Values
  <2> QED
    BY <2>1
<1>2. ASSUME NEW k \in 1 .. n, k - 1 \in T PROVE k \in T
  <2>1. PICK f : Values(f, w, base, k - 1)
    BY <1>2
  <2> DEFINE g == [i \in 0 .. k |-> IF i = k THEN base * f[k - 1] + Digit[w[k]] ELSE f[i]]
             h == [i \in 0 .. k |-> IF i = 0 THEN 0 ELSE base * g[i - 1] + Digit[w[i]]]
  <2>2. ASSUME NEW i \in 0 .. k PROVE g[i] = h[i]
    <3>1. CASE i = k
      BY <3>1
    <3>2. CASE i # k
      BY <2>1, <3>2 DEF Values
    <3> QED
      BY <3>1, <3>2
  <2>3. g = h
    BY <2>2
  <2>4. Values(g, w, base, k)
    BY <2>3 DEF Values
  <2> QED
    BY <2>4
<1> HIDE DEF T
<1>3. 0 .. n \subseteq T
  BY <1>1, <1>2, UpTo
<1> QED
  BY <1>3 DEF T

\* Digits have a value.
LEMMA DigitIsNat ==
    ASSUME NEW d \in Digits
    PROVE  Digit[d] \in Nat
<1>1. PICK k \in 1 .. 16 : d = Numerals[k]
  BY DEF Digits
<1>2. k - 1 \in 0 .. 15 /\ Numerals[(k - 1) + 1] = d
  BY <1>1
<1> DEFINE v == CHOOSE x \in 0 .. 15 : Numerals[x + 1] = d
<1>3. v \in 0 .. 15
  BY <1>2
<1>4. Digit[d] = v
  BY DEF Digit
<1> HIDE DEF v
<1> QED
  BY <1>3, <1>4

\* The value of digits is a natural number.
LEMMA ValueIsNat ==
    ASSUME NEW w \in Msg, IsNumber(w, 16)
    PROVE  Value(w, 16) \in Nat
<1> DEFINE n == Len(w)
           f == CHOOSE g : Values(g, w, 16, n)
<1>1. n \in Nat /\ DOMAIN w = 1 .. n
  BY LenProperties DEF Msg
<1>2. Values(f, w, 16, n)
  <2>1. \E g : Values(g, w, 16, n)
    BY <1>1, ValuesExist
  <2> QED
    BY <2>1
<1>3. Value(w, 16) = f[n]
  BY DEF Value, Values
<1> HIDE DEF f, n
<1>4. f[n] \in Nat
  <2> DEFINE T == {i \in 0 .. n : f[i] \in Nat}
  <2>1. 0 \in T
    BY <1>1, <1>2 DEF Values
  <2>2. ASSUME NEW k \in 1 .. n, k - 1 \in T PROVE k \in T
    <3>1. w[k] \in Digits
      BY <1>1 DEF IsNumber
    <3>2. Digit[w[k]] \in Nat
      BY <3>1, DigitIsNat
    <3>3. f[k] = 16 * f[k - 1] + Digit[w[k]]
      BY <1>1, <1>2 DEF Values
    <3>4. f[k - 1] \in Nat
      BY <2>2
    <3>5. f[k] \in Nat
      BY <3>2, <3>3, <3>4
    <3> QED
      BY <3>5
  <2> HIDE DEF T
  <2>3. 0 .. n \subseteq T
    BY <1>1, <2>1, <2>2, UpTo
  <2> QED
    BY <1>1, <2>3 DEF T
<1> QED
  BY <1>3, <1>4

\* So is what the parser makes of any word.
LEMMA NumberIsNat ==
    ASSUME NEW w \in Msg
    PROVE  Number(w, 16) \in Nat
<1>1. Unsigned(w) \in Msg
  <2>1. CASE w # << >>
    <3>1. 1 \in 0 .. Len(w)
      BY <2>1, Empty, EmptySeq DEF Msg
    <3> QED
      BY <3>1, DropProperties DEF Unsigned, Msg
  <2> QED
    BY <2>1 DEF Unsigned
<1> QED
  BY <1>1, ValueIsNat DEF Number

\* dechunk terminates on any bytes at all, well framed or not: a turn of its loop
\* returns, or leaves less to read than it found, so that there are at most as many
\* turns as bytes.
THEOREM EveryTurnConsumes ==
    ASSUME body \in Msg, Chunk
    PROVE  \/ pc' = "done"
           \/ pc' = "chunks" /\ body' \in Msg /\ Len(body') < Len(body)
<1> DEFINE nl == Position(body, CRLF)
           line == Take(body, nl - 1)
           rest == Drop(body, nl + 1)
           size == Size(line)
<1>1. IF nl = 0 \/ IsLast(size, rest) THEN pc' = "done"
      ELSE pc' = "chunks" /\ body' = AfterChunk(Drop(rest, size))
  BY DEF Chunk
<1>2. CASE nl # 0 /\ ~IsLast(size, rest)
  <2>1. nl \in 1 .. Len(body) /\ nl + Len(CRLF) - 1 <= Len(body)
    BY <1>2, PositionIsPlace DEF Occurs
  <2>2. Len(CRLF) = 2 /\ Len(body) \in Nat
    BY Patterns, Empty
  <2>7. pc' = "chunks" /\ body' = AfterChunk(Drop(rest, size))
    BY <1>1, <1>2
  <2>8. ~(Len(rest) < size)
    BY <1>2 DEF IsLast
  <2> HIDE DEF nl
  <2>3. nl - 1 \in 0 .. Len(body) /\ nl + 1 \in 0 .. Len(body)
    BY <2>1, <2>2
  <2>4. line \in Msg
    BY <2>3, TakeProperties DEF Msg
  <2>5. rest \in Msg /\ Len(rest) = Len(body) - (nl + 1)
    BY <2>3, DropProperties DEF Msg
  <2> HIDE DEF line, rest
  <2>6. size \in Nat
    <3> DEFINE semi == Position(line, <<Semi>>)
               hex == IF semi = 0 THEN line ELSE Take(line, semi - 1)
    <3>1. size = Number(Trim(hex), 16)
      BY DEF Size, Semi
    <3>2. hex \in Msg
      <4>1. CASE semi # 0
        <5>1. semi \in 1 .. Len(line) /\ Len(line) \in Nat
          BY <2>4, <4>1, PositionIsPlace, Empty
        <5> HIDE DEF semi
        <5>2. semi - 1 \in 0 .. Len(line)
          BY <5>1
        <5>3. Take(line, semi - 1) \in Msg
          BY <2>4, <5>2, TakeProperties DEF Msg
        <5> QED
          BY <4>1, <5>3 DEF semi
      <4> QED
        BY <2>4, <4>1
    <3> HIDE DEF hex
    <3> QED
      BY <3>1, <3>2, TrimIsMsg, NumberIsNat
  <2> HIDE DEF size
  <2> DEFINE x == Drop(rest, size)
  <2>9. size \in 0 .. Len(rest) /\ Len(rest) \in Nat
    BY <2>5, <2>6, <2>8, Empty
  <2>10. x \in Msg /\ Len(x) = Len(rest) - size
    BY <2>5, <2>9, DropProperties DEF Msg
  <2> HIDE DEF x
  <2>11. Len(x) < Len(body)
    BY <2>1, <2>2, <2>5, <2>6, <2>9, <2>10
  <2>12. AfterChunk(x) \in Msg /\ Len(AfterChunk(x)) <= Len(x)
    <3>1. Len(x) \in Nat
      BY <2>10, Empty
    <3>2. CASE Occurs(x, CRLF, 1)
      <4>1. 2 \in 0 .. Len(x)
        BY <2>2, <3>1, <3>2 DEF Occurs
      <4>2. Drop(x, 2) \in Msg /\ Len(Drop(x, 2)) = Len(x) - 2
        BY <2>10, <4>1, DropProperties DEF Msg
      <4> QED
        BY <3>1, <3>2, <4>2 DEF AfterChunk
    <3>3. CASE ~Occurs(x, CRLF, 1)
      BY <2>10, <3>1, <3>3 DEF AfterChunk
    <3> QED
      BY <3>2, <3>3
  <2>13. Len(AfterChunk(x)) < Len(body)
    <3>1. Len(AfterChunk(x)) \in Nat /\ Len(x) \in Nat
      BY <2>10, <2>12, Empty
    <3> QED
      BY <2>2, <2>11, <2>12, <3>1
  <2> QED
    BY <2>7, <2>12, <2>13 DEF x
<1> QED
  BY <1>1, <1>2
=============================================================================
