--------------------------- MODULE RequestProofs ---------------------------
(***************************************************************************)
(* The upstream request, whatever headers and key are configured: bytes    *)
(* that begin with the request line, a head that ends at its only blank    *)
(* line, the api key before it, and what blanking the key leaves alone.    *)
(***************************************************************************)
EXTENDS Provably, BytesProofs

\* Any string, and what stands for the buyer's bytes; the strings the code writes
\* into a request are spelled out, as the provers do not know that a literal is
\* a string.
Token == STRING \cup Purchases
            \cup {"POST", "SP", "/v1/messages", "HTTP/1.1", "CR", "LF", ":", "host",
                  "x-api-key", "NUL", "request"}
Text == Seq(Token)

\* What an environment variable holds is text.
LEMMA StringsAreText ==
    ASSUME NEW s \in Seq(STRING)
    PROVE  s \in Text
<1>1. s \in [1 .. Len(s) -> STRING] /\ Len(s) \in Nat
  BY LenProperties
<1>2. s \in [1 .. Len(s) -> Token]
  BY <1>1 DEF Token
<1> QED
  BY <1>1, <1>2 DEF Text

\* A POST of /v1/messages, whatever follows its first line.
IsPost(s) ==
    /\ s \in Text /\ Len(s) >= 7
    /\ s[1] = "POST" /\ s[2] = "SP" /\ s[3] = "/v1/messages"
    /\ s[4] = "SP" /\ s[5] = "HTTP/1.1" /\ s[6] = "CR"

\* The notary splits the first line of such a head into the method and path the
\* reseller wrote.
LEMMA PostWords ==
    ASSUME NEW s, IsPost(s)
    PROVE  Word(s, 1) = <<"POST">> /\ Word(s, 2) = <<"/v1/messages">>
<1>0. /\ DOMAIN s = 1 .. Len(s) /\ Len(s) \in Nat /\ Len(s) >= 7
      /\ s[1] = "POST" /\ s[2] = "SP" /\ s[3] = "/v1/messages"
      /\ s[4] = "SP" /\ s[5] = "HTTP/1.1" /\ s[6] = "CR"
  BY LenProperties DEF IsPost, Text
<1>1. WordStarts(s) = {1, 3, 5}
  <2>1. \A i \in {1, 3, 5} : i \in WordStarts(s)
    BY <1>0 DEF WordStarts, White
  <2>2. ASSUME NEW i \in WordStarts(s) PROVE i \in {1, 3, 5}
    <3>1. i \in 1 .. Len(s) /\ (i >= 6 => s[6] \notin {"CR", "LF"})
      BY <1>0 DEF WordStarts
    <3>2. i # 2 /\ i # 4
      BY <1>0 DEF WordStarts, White
    <3> QED
      BY <1>0, <3>1, <3>2
  <2> QED
    BY <2>1, <2>2
<1> DEFINE W == {1, 3, 5}
           c(i) == Cardinality({j \in W : j <= i})
<1>2. c(1) = 1 /\ c(3) = 2 /\ c(5) = 3
  <2>1. /\ {j \in W : j <= 1} = {1} /\ {j \in W : j <= 3} = {1} \cup {3}
        /\ {j \in W : j <= 5} = ({1} \cup {3}) \cup {5}
    OBVIOUS
  <2>2. IsFiniteSet({1}) /\ Cardinality({1}) = 1
    BY FS_Singleton
  <2>3. IsFiniteSet({1} \cup {3}) /\ Cardinality({1} \cup {3}) = 2
    <3>1. 3 \notin {1}
      OBVIOUS
    <3> QED
      BY <2>2, <3>1, FS_AddElement
  <2>4. Cardinality(({1} \cup {3}) \cup {5}) = 3
    <3>1. 5 \notin {1} \cup {3}
      OBVIOUS
    <3> QED
      BY <2>3, <3>1, FS_AddElement
  <2> QED
    BY <2>1, <2>2, <2>3, <2>4
<1> HIDE DEF c
<1>3. {i \in W : c(i) = 1} = {1} /\ {i \in W : c(i) = 2} = {3}
  BY <1>2
<1>4. WordAt(s, 1) = <<"POST">> /\ WordAt(s, 3) = <<"/v1/messages">>
  <2>1. "POST" \notin White /\ "/v1/messages" \notin White /\ "SP" \in White
    BY DEF White
  <2> QED
    BY <1>0, <2>1, WordOfOneToken
<1>5. (CHOOSE i \in {1} : TRUE) = 1 /\ (CHOOSE i \in {3} : TRUE) = 3
  OBVIOUS
<1> QED
  BY <1>1, <1>3, <1>4, <1>5 DEF Word, c

Pairs == [name : Text, value : Text]
IsHeaders(hs) == hs \in Seq(Pairs)

\* One header is written as text.
LEMMA HeaderLineIsText ==
    ASSUME NEW h \in Pairs
    PROVE  HeaderLine(h) \in Text
<1>1. h.name \in Text /\ h.value \in Text
  BY DEF Pairs
<1>2. <<":", "SP">> \in Text /\ CRLF \in Text
  BY DEF CRLF, Text, Token
<1>3. h.name \o <<":", "SP">> \in Text
  BY <1>1, <1>2, ConcatProperties DEF Text
<1>4. h.name \o <<":", "SP">> \o h.value \in Text
  BY <1>1, <1>3, ConcatProperties DEF Text
<1> QED
  BY <1>2, <1>4, ConcatProperties DEF HeaderLine, Text

\* The head is written line by line.
Appends(f, hs, n) ==
    f = [k \in 0 .. n |-> IF k = 0 THEN << >> ELSE f[k - 1] \o HeaderLine(hs[k])]

\* So many lines can be written.
LEMMA LinesExist ==
    ASSUME NEW hs, IsHeaders(hs)
    PROVE  \E f : Appends(f, hs, Len(hs))
<1> DEFINE T == {n \in 0 .. Len(hs) : \E f : Appends(f, hs, n)}
<1>1. Len(hs) \in Nat
  BY DEF IsHeaders
<1>2. 0 \in T
  <2> DEFINE f == [k \in 0 .. 0 |-> << >>]
  <2>1. Appends(f, hs, 0)
    BY DEF Appends
  <2> QED
    BY <1>1, <2>1
<1>3. ASSUME NEW n \in 1 .. Len(hs), n - 1 \in T PROVE n \in T
  <2>1. PICK f : Appends(f, hs, n - 1)
    BY <1>3
  <2> DEFINE g == [k \in 0 .. n |-> IF k = n THEN f[n - 1] \o HeaderLine(hs[n])
                                    ELSE f[k]]
             h == [k \in 0 .. n |-> IF k = 0 THEN << >> ELSE g[k - 1] \o HeaderLine(hs[k])]
  <2>2. ASSUME NEW k \in 0 .. n PROVE g[k] = h[k]
    <3>1. CASE k = n
      BY <3>1
    <3>2. CASE k # n
      BY <2>1, <3>2 DEF Appends
    <3> QED
      BY <3>1, <3>2
  <2>3. g = h
    BY <2>2
  <2>4. Appends(g, hs, n)
    BY <2>3 DEF Appends
  <2> QED
    BY <1>1, <2>4
<1> HIDE DEF T
<1>4. 0 .. Len(hs) \subseteq T
  BY <1>1, <1>2, <1>3, UpTo
<1> QED
  BY <1>1, <1>4 DEF T

\* All of them are text, up to each.
LEMMA LinesAreText ==
    ASSUME NEW hs, IsHeaders(hs)
    PROVE  \E f : /\ Appends(f, hs, Len(hs)) /\ HeaderLines(hs) = f[Len(hs)]
                 /\ \A k \in 0 .. Len(hs) : f[k] \in Text
<1> DEFINE f == CHOOSE g : Appends(g, hs, Len(hs))
           T == {k \in 0 .. Len(hs) : f[k] \in Text}
<1>1. Appends(f, hs, Len(hs)) /\ Len(hs) \in Nat
  <2>1. \E g : Appends(g, hs, Len(hs))
    BY LinesExist
  <2>2. Appends(f, hs, Len(hs))
    BY <2>1
  <2> QED
    BY <2>2 DEF IsHeaders
<1>2. HeaderLines(hs) = f[Len(hs)]
  BY DEF HeaderLines, Appends
<1> HIDE DEF f
<1>3. 0 \in T
  BY <1>1 DEF Appends, Text
<1>4. ASSUME NEW k \in 1 .. Len(hs), k - 1 \in T PROVE k \in T
  <2>1. f[k] = f[k - 1] \o HeaderLine(hs[k])
    BY <1>1 DEF Appends
  <2>2. HeaderLine(hs[k]) \in Text
    <3>1. hs[k] \in Pairs
      BY <1>1 DEF IsHeaders
    <3> QED
      BY <3>1, HeaderLineIsText
  <2>3. f[k - 1] \in Text
    BY <1>4
  <2>4. f[k] \in Text
    BY <2>1, <2>2, <2>3, ConcatProperties DEF Text
  <2> QED
    BY <2>4
<1>5. 0 .. Len(hs) \subseteq T
  <2> HIDE DEF T
  <2> QED
    BY <1>1, <1>3, <1>4, UpTo
<1> QED
  BY <1>1, <1>2, <1>5

\* So the headers are text, and end with the line of the last.
LEMMA HeaderLinesAreText ==
    ASSUME NEW hs, IsHeaders(hs)
    PROVE  /\ HeaderLines(hs) \in Text
           /\ Len(hs) > 0 => \E before \in Text :
                    HeaderLines(hs) = before \o HeaderLine(hs[Len(hs)])
<1>1. PICK f : /\ Appends(f, hs, Len(hs)) /\ HeaderLines(hs) = f[Len(hs)]
               /\ \A k \in 0 .. Len(hs) : f[k] \in Text
  BY LinesAreText
<1>2. Len(hs) \in Nat
  BY DEF IsHeaders
<1>3. CASE Len(hs) > 0
  <2> DEFINE n == Len(hs)
  <2>1. n \in 0 .. n /\ n # 0 /\ n - 1 \in 0 .. n
    BY <1>2, <1>3
  <2>2. f[n] = f[n - 1] \o HeaderLine(hs[n])
    <3> HIDE DEF n
    <3> QED
      BY <1>1, <2>1 DEF Appends, n
  <2> QED
    BY <1>1, <2>1, <2>2
<1> QED
  BY <1>1, <1>2, <1>3

\* The headers of a request, the api key's last.
KeyHeaders(a) == IF a.api_key = None THEN << >>
                 ELSE <<Header("x-api-key", WrittenKey(a.api_key[1]))>>
RequestHeaders(a) == <<Header("host", <<a.upstream_host>>)>> \o a.upstream_headers
                        \o KeyHeaders(a)

\* They are headers, and the last line written is the key's.
LEMMA RequestHasHeaders ==
    ASSUME NEW a, IsApp(a), IsOption(env.key_on_wire, Seq(STRING))
    PROVE  /\ IsHeaders(RequestHeaders(a))
           /\ a.api_key # None => \E n \in {Len(RequestHeaders(a))} :
                    /\ n > 0
                    /\ RequestHeaders(a)[n] = Header("x-api-key", WrittenKey(a.api_key[1]))
                    /\ WrittenKey(a.api_key[1]) \in Text
<1> DEFINE key == KeyHeaders(a)
           host == <<Header("host", <<a.upstream_host>>)>>
           most == host \o a.upstream_headers
<1>1. IsHeaders(host)
  <2>1. Header("host", <<a.upstream_host>>) \in Pairs
    BY DEF IsApp, Header, Text, Token, Pairs
  <2> QED
    BY <2>1 DEF IsHeaders
<1>2. IsHeaders(a.upstream_headers)
  <2> DEFINE hds == a.upstream_headers
             S == [name : Seq(STRING), value : Seq(STRING)]
  <2>1. hds \in [1 .. Len(hds) -> S] /\ Len(hds) \in Nat
    BY LenProperties DEF IsApp
  <2>2. ASSUME NEW h \in S PROVE h \in Pairs
    <3>1. h.name \in Text /\ h.value \in Text
      BY StringsAreText
    <3> QED
      BY <3>1 DEF Pairs
  <2> HIDE DEF S
  <2>3. hds \in [1 .. Len(hds) -> Pairs]
    BY <2>1, <2>2
  <2> QED
    BY <2>1, <2>3 DEF IsHeaders
<1>3. IsHeaders(key) /\ (a.api_key # None => WrittenKey(a.api_key[1]) \in Text)
  <2>1. CASE a.api_key # None
    <3>1. WrittenKey(a.api_key[1]) \in Text
      BY <2>1, StringsAreText DEF IsApp, IsOption, WrittenKey, OrElse
    <3>2. Header("x-api-key", WrittenKey(a.api_key[1])) \in Pairs
      BY <3>1 DEF Header, Text, Token, Pairs
    <3> QED
      BY <2>1, <3>1, <3>2 DEF IsHeaders, KeyHeaders
  <2>2. CASE a.api_key = None
    BY <2>2 DEF IsHeaders, KeyHeaders
  <2> QED
    BY <2>1, <2>2
<1>4. a.api_key # None => Len(key) = 1 /\ key[1] = Header("x-api-key", WrittenKey(a.api_key[1]))
  BY DEF KeyHeaders
<1>5. RequestHeaders(a) = most \o key
  BY DEF RequestHeaders
<1> HIDE DEF key, host
<1>6. most \in Seq(Pairs)
  BY <1>1, <1>2, ConcatProperties DEF IsHeaders
<1> HIDE DEF most
<1>7. /\ most \o key \in Seq(Pairs) /\ Len(most \o key) = Len(most) + Len(key)
      /\ Len(most) \in Nat /\ Len(key) \in Nat
      /\ \A i \in 1 .. Len(most) + Len(key) :
            (most \o key)[i] = IF i <= Len(most) THEN most[i] ELSE key[i - Len(most)]
  <2>1. key \in Seq(Pairs)
    BY <1>3 DEF IsHeaders
  <2> QED
    BY <1>6, <2>1, ConcatProperties
<1>8. ASSUME a.api_key # None PROVE (most \o key)[Len(most) + 1] = key[1]
  <2>1. /\ Len(most) + 1 \in 1 .. Len(most) + Len(key) /\ ~(Len(most) + 1 <= Len(most))
        /\ (Len(most) + 1) - Len(most) = 1
    BY <1>4, <1>7, <1>8
  <2> QED
    BY <1>7, <2>1
<1> QED
  BY <1>3, <1>4, <1>5, <1>7, <1>8 DEF IsHeaders

\* run_prover builds a POST /v1/messages.
LEMMA RequestHeadIsPost ==
    ASSUME NEW a, IsApp(a), IsOption(env.key_on_wire, Seq(STRING))
    PROVE  IsPost(RequestHead(a))
<1> DEFINE hs == RequestHeaders(a)
           line == <<"POST", "SP", "/v1/messages", "SP", "HTTP/1.1">>
<1>1. HeaderLines(hs) \in Text
  BY RequestHasHeaders, HeaderLinesAreText
<1>2. RequestHead(a) = line \o CRLF \o HeaderLines(hs) \o CRLF
  BY DEF RequestHead, RequestHeaders, KeyHeaders
<1> HIDE DEF hs
<1>3. ASSUME NEW rest \in Text PROVE IsPost(line \o CRLF \o rest \o CRLF)
  <2> DEFINE first == line \o CRLF
             most  == first \o rest
  <2>1. line \in Text /\ CRLF \in Text /\ Len(line) = 5 /\ Len(CRLF) = 2
    BY DEF CRLF, Text, Token
  <2>2. /\ first \in Text /\ Len(first) = 7
        /\ \A i \in 1 .. 5 : first[i] = line[i]
        /\ first[6] = "CR"
    BY <2>1, ConcatProperties DEF CRLF, Text
  <2> HIDE DEF first
  <2>3. most \in Text /\ Len(most) >= 7 /\ \A i \in 1 .. 7 : most[i] = first[i]
    <3>1. rest \in Seq(Token) /\ Len(rest) \in Nat
      BY DEF Text
    <3>2. /\ most \in Seq(Token) /\ Len(most) = Len(first) + Len(rest)
          /\ \A i \in 1 .. Len(first) + Len(rest) :
                most[i] = IF i <= Len(first) THEN first[i] ELSE rest[i - Len(first)]
      BY <2>2, <3>1, ConcatProperties DEF Text
    <3> QED
      BY <2>2, <3>1, <3>2 DEF Text
  <2> HIDE DEF most
  <2>4. /\ most \o CRLF \in Text /\ Len(most \o CRLF) >= 7
        /\ \A i \in 1 .. 7 : (most \o CRLF)[i] = first[i]
    BY <2>1, <2>3, ConcatProperties, SMTT(30) DEF Text
  <2> QED
    BY <2>2, <2>4 DEF IsPost, Text, most, first
<1> QED
  BY <1>1, <1>2, <1>3

\* Blanks are bytes too.
LEMMA RedactedIsText ==
    ASSUME NEW head \in Text, NEW from, NEW length
    PROVE  Redacted(head, from, length) \in Text
<1>1. Len(head) \in Nat /\ DOMAIN head = 1 .. Len(head) /\ head \in [1 .. Len(head) -> Token]
  BY LenProperties DEF Text
<1>2. Redacted(head, from, length) \in [1 .. Len(head) -> Token]
  BY <1>1 DEF Redacted, Token
<1> QED
  BY <1>1, <1>2 DEF Text

\* What is found in a part of the text is found in the whole, as much further on.
LEMMA FoundWithin ==
    ASSUME NEW x \in Text, NEW s \in Text, NEW y \in Text, NEW v \in Text,
           NEW i \in Places(s, v)
    PROVE  /\ x \o s \o y \in Text /\ Len(x \o s \o y) = Len(x) + Len(s) + Len(y)
           /\ Len(x) + i \in Places(x \o s \o y, v)
<1> DEFINE xs == x \o s
           all == xs \o y
<1>1. /\ Len(x) \in Nat /\ Len(s) \in Nat /\ Len(y) \in Nat /\ Len(v) \in Nat
      /\ DOMAIN s = 1 .. Len(s) /\ DOMAIN v = 1 .. Len(v)
  BY DEF Text
<1>2. /\ xs \in Text /\ Len(xs) = Len(x) + Len(s)
      /\ \A j \in 1 .. Len(s) : xs[Len(x) + j] = s[j]
  <2>1. /\ xs \in Seq(Token) /\ Len(xs) = Len(x) + Len(s)
        /\ \A j \in 1 .. Len(x) + Len(s) :
                xs[j] = IF j <= Len(x) THEN x[j] ELSE s[j - Len(x)]
    BY ConcatProperties DEF Text
  <2> HIDE DEF xs
  <2>2. ASSUME NEW j \in 1 .. Len(s) PROVE xs[Len(x) + j] = s[j]
    <3>1. /\ Len(x) + j \in 1 .. Len(x) + Len(s) /\ ~(Len(x) + j <= Len(x))
          /\ (Len(x) + j) - Len(x) = j
      BY <1>1
    <3> QED
      BY <2>1, <3>1
  <2> QED
    BY <2>1, <2>2 DEF Text
<1> HIDE DEF xs
<1>3. /\ all \in Text /\ Len(all) = Len(xs) + Len(y) /\ DOMAIN all = 1 .. Len(all)
      /\ \A j \in 1 .. Len(xs) : all[j] = xs[j]
  <2>1. /\ all \in Seq(Token) /\ Len(all) = Len(xs) + Len(y)
        /\ \A j \in 1 .. Len(xs) + Len(y) :
                all[j] = IF j <= Len(xs) THEN xs[j] ELSE y[j - Len(xs)]
    <3>1. xs \in Seq(Token) /\ y \in Seq(Token)
      BY <1>2 DEF Text
    <3> QED
      BY <3>1, ConcatProperties
  <2> HIDE DEF all
  <2> QED
    BY <1>1, <1>2, <2>1 DEF Text
<1> HIDE DEF all
<1>4. i \in 1 .. Len(s) /\ Occurs(s, v, i)
  BY <1>1 DEF Places
<1>5. Len(x) + i \in DOMAIN all
  BY <1>1, <1>2, <1>3, <1>4
<1>6. i + Len(v) - 1 <= Len(s) /\ \A k \in 1 .. Len(v) : s[i + k - 1] = v[k]
  BY <1>1, <1>4 DEF Occurs
<1>7. ASSUME NEW k \in 1 .. Len(v) PROVE all[(Len(x) + i) + k - 1] = v[k]
  <2>1. i + k - 1 \in 1 .. Len(s)
    BY <1>1, <1>4, <1>6
  <2>2. Len(x) + (i + k - 1) \in 1 .. Len(xs)
    BY <1>1, <1>2, <2>1
  <2>3. all[Len(x) + (i + k - 1)] = s[i + k - 1]
    BY <1>2, <1>3, <2>1, <2>2
  <2>4. Len(x) + (i + k - 1) = (Len(x) + i) + k - 1
    BY <1>1, <1>4
  <2> QED
    BY <1>6, <2>3, <2>4
<1>8. (Len(x) + i) + Len(v) - 1 <= Len(all)
  BY <1>1, <1>2, <1>3, <1>4, <1>6
<1>9. Occurs(all, v, Len(x) + i)
  BY <1>1, <1>7, <1>8 DEF Occurs
<1> QED
  BY <1>2, <1>3, <1>5, <1>9 DEF Places, all, xs

\* The last header line ends the head with the key, at the place KeyAt says.
LEMMA KeyInHead ==
    ASSUME NEW a, IsApp(a), a.api_key # None, WrittenKey(a.api_key[1]) = a.api_key[1],
           a.api_key[1] # << >>, IsOption(env.key_on_wire, Seq(STRING))
    PROVE  /\ RequestHead(a) \in Text /\ a.api_key[1] \in Text
           /\ Len(RequestHead(a)) - 3 - Len(a.api_key[1])
                    \in Places(RequestHead(a), a.api_key[1])
<1> DEFINE hs == RequestHeaders(a)
           key == a.api_key[1]
           name == <<"x-api-key">> \o <<":", "SP">>
           line == <<"POST", "SP", "/v1/messages", "SP", "HTTP/1.1">> \o CRLF
<1>1. /\ IsHeaders(hs) /\ WrittenKey(key) = key /\ key \in Text
      /\ Len(hs) > 0 /\ hs[Len(hs)] = Header("x-api-key", key)
  BY RequestHasHeaders
<1>2. PICK before \in Text : HeaderLines(hs) = before \o HeaderLine(Header("x-api-key", key))
  BY <1>1, HeaderLinesAreText
<1>3. HeaderLine(Header("x-api-key", key)) = name \o key \o CRLF
  BY DEF HeaderLine, Header
<1>4. RequestHead(a) = line \o HeaderLines(hs) \o CRLF
  BY DEF RequestHead, RequestHeaders, KeyHeaders
<1> HIDE DEF hs
<1>5. key # << >>
  OBVIOUS
<1> HIDE DEF key
<1>6. 1 \in Places(key, key)
  <2>1. Len(key) \in Nat /\ DOMAIN key = 1 .. Len(key) /\ Len(key) # 0
    BY <1>1, <1>5, EmptySeq DEF Text
  <2>2. Occurs(key, key, 1)
    BY <2>1 DEF Occurs
  <2> QED
    BY <2>1, <2>2 DEF Places
<1>7. name \in Text /\ CRLF \in Text /\ << >> \in Text /\ Len(CRLF) = 2
  BY ConcatProperties DEF CRLF, Text, Token
<1>8. line \in Text
  BY ConcatProperties DEF CRLF, Text, Token
<1> HIDE DEF name, line
<1> DEFINE last == name \o key \o CRLF
<1>9. /\ last \in Text /\ Len(last) = Len(name) + Len(key) + Len(CRLF)
      /\ Len(name) + 1 \in Places(last, key)
  BY <1>1, <1>6, <1>7, FoundWithin
<1> HIDE DEF last
<1> DEFINE all == before \o last
<1>10. /\ all \in Text /\ Len(all) = Len(before) + Len(last)
       /\ Len(before) + (Len(name) + 1) \in Places(all, key)
  <2>1. before \o last \o << >> = before \o last
    <3>1. before \o last \in Seq(Token)
      BY <1>9, ConcatProperties DEF Text
    <3> QED
      BY <3>1
  <2>2. /\ before \o last \o << >> \in Text
        /\ Len(before \o last \o << >>) = Len(before) + Len(last) + Len(<< >>)
        /\ Len(before) + (Len(name) + 1) \in Places(before \o last \o << >>, key)
    <3> DEFINE i == Len(name) + 1
               none == << >>
    <3>1. i \in Places(last, key) /\ last \in Text /\ none \in Text /\ key \in Text
      BY <1>1, <1>7, <1>9
    <3> HIDE DEF i, none
    <3>2. /\ before \o last \o none \in Text
          /\ Len(before \o last \o none) = Len(before) + Len(last) + Len(none)
          /\ Len(before) + i \in Places(before \o last \o none, key)
      BY <3>1, FoundWithin
    <3> QED
      BY <3>2 DEF i, none
  <2>3. Len(before) \in Nat /\ Len(last) \in Nat /\ Len(<< >>) = 0
    BY <1>9 DEF Text
  <2> QED
    BY <2>1, <2>2, <2>3
<1>11. HeaderLines(hs) = all
  BY <1>2, <1>3 DEF last
<1> HIDE DEF all
<1>12. /\ line \o all \o CRLF \in Text
       /\ Len(line \o all \o CRLF) = Len(line) + Len(all) + Len(CRLF)
       /\ Len(line) + (Len(before) + (Len(name) + 1)) \in Places(line \o all \o CRLF, key)
  <2> DEFINE i == Len(before) + (Len(name) + 1)
  <2>1. i \in Places(all, key)
    BY <1>10
  <2> HIDE DEF i
  <2>2. /\ line \o all \o CRLF \in Text
        /\ Len(line \o all \o CRLF) = Len(line) + Len(all) + Len(CRLF)
        /\ Len(line) + i \in Places(line \o all \o CRLF, key)
    <3>1. line \in Text /\ all \in Text /\ CRLF \in Text /\ key \in Text
      BY <1>1, <1>7, <1>8, <1>10
    <3> DEFINE end == CRLF
    <3> HIDE DEF end
    <3>2. /\ line \o all \o end \in Text
          /\ Len(line \o all \o end) = Len(line) + Len(all) + Len(end)
          /\ Len(line) + i \in Places(line \o all \o end, key)
      <4>1. end \in Text
        BY <3>1 DEF end
      <4> QED
        BY <2>1, <3>1, <4>1, FoundWithin
    <3> QED
      BY <3>2 DEF end
  <2> QED
    BY <2>2 DEF i
<1>13. /\ Len(line) \in Nat /\ Len(before) \in Nat /\ Len(name) \in Nat
       /\ Len(key) \in Nat /\ Len(last) \in Nat /\ Len(all) \in Nat
  BY <1>1, <1>7, <1>8, <1>9, <1>10 DEF Text
<1>14. Len(line \o all \o CRLF) - 3 - Len(key) = Len(line) + (Len(before) + (Len(name) + 1))
  BY <1>7, <1>9, <1>10, <1>12, <1>13
<1>15. RequestHead(a) = line \o all \o CRLF
  BY <1>4, <1>11
<1> QED
  BY <1>1, <1>12, <1>14, <1>15 DEF key
-----------------------------------------------------------------------------
\* Where the head ends.

\* Lines of text, none of them blank.
Lines(s) ==
    /\ s \in Text /\ Len(s) >= 2
    /\ s[1] # "CR" /\ s[Len(s) - 1] = "CR" /\ s[Len(s)] = "LF"
    /\ \A i \in 1 .. Len(s) - 1 : s[i] = "LF" => s[i + 1] # "CR"

\* Lines after lines are lines.
LEMMA LinesConcat ==
    ASSUME NEW s, NEW t, Lines(s), Lines(t)
    PROVE  Lines(s \o t)
<1> DEFINE u == s \o t
           m == Len(s)
           n == Len(t)
<1>1. s \in Seq(Token) /\ t \in Seq(Token) /\ m \in Nat /\ n \in Nat /\ m >= 2 /\ n >= 2
  BY DEF Lines, Text
<1>2. /\ u \in Seq(Token) /\ Len(u) = m + n
      /\ \A i \in 1 .. m + n : u[i] = IF i <= m THEN s[i] ELSE t[i - m]
  BY <1>1, ConcatProperties
<1> HIDE DEF u, m, n
<1>3. \A i \in 1 .. m : u[i] = s[i]
  BY <1>1, <1>2
<1>4. ASSUME NEW j \in 1 .. n PROVE u[m + j] = t[j]
  <2>1. m + j \in 1 .. m + n /\ ~(m + j <= m) /\ (m + j) - m = j
    BY <1>1
  <2> QED
    BY <1>2, <2>1
<1>5. u[1] # "CR" /\ u[Len(u) - 1] = "CR" /\ u[Len(u)] = "LF"
  <2>1. u[1] = s[1] /\ u[m + (n - 1)] = t[n - 1] /\ u[m + n] = t[n]
    BY <1>1, <1>3, <1>4
  <2>2. Len(u) - 1 = m + (n - 1)
    BY <1>1, <1>2
  <2> QED
    BY <1>2, <2>1, <2>2 DEF Lines, m, n
<1>6. ASSUME NEW i \in 1 .. Len(u) - 1, u[i] = "LF" PROVE u[i + 1] # "CR"
  <2>1. CASE i < m
    <3>1. u[i] = s[i] /\ u[i + 1] = s[i + 1] /\ i \in 1 .. m - 1
      BY <1>1, <1>3, <2>1
    <3> QED
      BY <1>6, <3>1 DEF Lines, m
  <2>2. CASE i = m
    <3>1. u[i + 1] = t[1]
      BY <1>1, <1>4, <2>2
    <3> QED
      BY <3>1 DEF Lines
  <2>3. CASE i > m
    <3> DEFINE j == i - m
    <3>1. j \in 1 .. n - 1 /\ j + 1 \in 1 .. n /\ i = m + j /\ i + 1 = m + (j + 1)
      BY <1>1, <1>2, <2>3
    <3> HIDE DEF j
    <3>2. u[i] = t[j] /\ u[i + 1] = t[j + 1]
      <4>1. j \in 1 .. n
        BY <1>1, <3>1
      <4> QED
        BY <1>4, <3>1, <4>1
    <3> QED
      BY <1>6, <3>1, <3>2 DEF Lines, n
  <2>4. i \in Int
    OBVIOUS
  <2> QED
    BY <1>1, <2>1, <2>2, <2>3, <2>4
<1> QED
  BY <1>1, <1>2, <1>5, <1>6, SMTT(30) DEF Lines, Text, u

\* A line without line breaks in it, ended, is a line.
LEMMA OneLine ==
    ASSUME NEW s \in Text, Len(s) > 0, \A i \in 1 .. Len(s) : s[i] \notin {"CR", "LF"}
    PROVE  Lines(s \o CRLF)
<1> DEFINE u == s \o CRLF
<1>1. s \in Seq(Token) /\ CRLF \in Seq(Token) /\ Len(CRLF) = 2 /\ Len(s) \in Nat
      /\ CRLF[1] = "CR" /\ CRLF[2] = "LF"
  BY DEF CRLF, Text, Token
<1>2. /\ u \in Seq(Token) /\ Len(u) = Len(s) + Len(CRLF)
      /\ \A i \in 1 .. Len(s) + Len(CRLF) : u[i] = IF i <= Len(s) THEN s[i] ELSE CRLF[i - Len(s)]
  BY <1>1, ConcatProperties
<1> HIDE DEF u
<1>3. \A i \in 1 .. Len(s) : u[i] = s[i]
  BY <1>1, <1>2
<1>4. u[Len(s) + 1] = "CR" /\ u[Len(s) + 2] = "LF"
  <2>1. /\ Len(s) + 1 \in 1 .. Len(s) + Len(CRLF) /\ ~(Len(s) + 1 <= Len(s))
        /\ Len(s) + 2 \in 1 .. Len(s) + Len(CRLF) /\ ~(Len(s) + 2 <= Len(s))
        /\ (Len(s) + 1) - Len(s) = 1 /\ (Len(s) + 2) - Len(s) = 2
    BY <1>1
  <2> QED
    BY <1>1, <1>2, <2>1
<1>5. ASSUME NEW i \in 1 .. Len(u) - 1 PROVE u[i] # "LF"
  <2>1. i \in 1 .. Len(s) \/ i = Len(s) + 1
    BY <1>1, <1>2
  <2> QED
    BY <1>3, <1>4, <2>1
<1>6. u[1] # "CR"
  BY <1>1, <1>3
<1>7. Len(u) - 1 = Len(s) + 1 /\ Len(u) = Len(s) + 2
  BY <1>1, <1>2
<1> QED
  BY <1>1, <1>2, <1>4, <1>5, <1>6, <1>7 DEF Lines, Text, u

\* A header the request builder takes is a line.
LEMMA HeaderIsLine ==
    ASSUME NEW h \in Pairs, IsHeader(h)
    PROVE  Lines(HeaderLine(h))
<1> DEFINE x == h.name \o <<":", "SP">>
           y == x \o h.value
<1>1. /\ h.name \in Seq(Token) /\ h.value \in Seq(Token) /\ <<":", "SP">> \in Seq(Token)
      /\ Len(h.name) \in Nat /\ Len(h.value) \in Nat /\ Len(<<":", "SP">>) = 2
      /\ DOMAIN h.name = 1 .. Len(h.name) /\ DOMAIN h.value = 1 .. Len(h.value)
  BY DEF Pairs, Text, Token
<1>2. Len(h.name) > 0
  BY <1>1, EmptySeq DEF IsHeader
<1>3. /\ \A i \in 1 .. Len(h.name) : h.name[i] \notin {"CR", "LF"}
      /\ \A i \in 1 .. Len(h.value) : h.value[i] \notin {"CR", "LF"}
      /\ \A i \in 1 .. 2 : <<":", "SP">>[i] \notin {"CR", "LF"}
  BY <1>1 DEF IsHeader, IsHeaderValue, White
<1>4. ASSUME NEW s \in Seq(Token), NEW t \in Seq(Token),
             \A i \in 1 .. Len(s) : s[i] \notin {"CR", "LF"},
             \A i \in 1 .. Len(t) : t[i] \notin {"CR", "LF"}
      PROVE  /\ s \o t \in Seq(Token) /\ Len(s \o t) = Len(s) + Len(t)
             /\ \A i \in 1 .. Len(s \o t) : (s \o t)[i] \notin {"CR", "LF"}
  <2> DEFINE u == s \o t
  <2>1. /\ u \in Seq(Token) /\ Len(u) = Len(s) + Len(t)
        /\ \A i \in 1 .. Len(s) + Len(t) : u[i] = IF i <= Len(s) THEN s[i] ELSE t[i - Len(s)]
    BY ConcatProperties
  <2>2. Len(s) \in Nat /\ Len(t) \in Nat
    OBVIOUS
  <2> HIDE DEF u
  <2>3. ASSUME NEW i \in 1 .. Len(u) PROVE u[i] \notin {"CR", "LF"}
    <3>1. i \in 1 .. Len(s) \/ (~(i <= Len(s)) /\ i - Len(s) \in 1 .. Len(t))
      BY <2>1, <2>2
    <3>2. i \in 1 .. Len(s) + Len(t)
      BY <2>1
    <3>3. CASE i \in 1 .. Len(s)
      BY <1>4, <2>1, <2>2, <3>2, <3>3
    <3>4. CASE ~(i <= Len(s)) /\ i - Len(s) \in 1 .. Len(t)
      BY <1>4, <2>1, <3>2, <3>4
    <3> QED
      BY <3>1, <3>3, <3>4
  <2> QED
    BY <2>1, <2>3 DEF u
<1>5. /\ x \in Seq(Token) /\ Len(x) = Len(h.name) + 2
      /\ \A i \in 1 .. Len(x) : x[i] \notin {"CR", "LF"}
  BY <1>1, <1>3, <1>4
<1> HIDE DEF x
<1>6. /\ y \in Seq(Token) /\ Len(y) = Len(x) + Len(h.value)
      /\ \A i \in 1 .. Len(y) : y[i] \notin {"CR", "LF"}
  BY <1>1, <1>3, <1>4, <1>5
<1> HIDE DEF y
<1>7. Lines(y \o CRLF)
  <2>1. y \in Text /\ Len(y) > 0
    <3> DEFINE m == Len(h.name)
               n == Len(h.value)
    <3>1. m \in Nat /\ n \in Nat /\ m > 0 /\ Len(x) = m + 2 /\ Len(y) = Len(x) + n
      BY <1>1, <1>2, <1>5, <1>6
    <3> HIDE DEF m, n
    <3>2. Len(y) > 0
      BY <3>1
    <3> QED
      BY <1>6, <3>2 DEF Text
  <2> QED
    BY <1>6, <2>1, OneLine
<1> QED
  BY <1>7 DEF HeaderLine, x, y

\* So the request line and the headers are lines.
LEMMA HeadersAreLines ==
    ASSUME NEW hs, IsHeaders(hs), \A k \in 1 .. Len(hs) : IsHeader(hs[k]),
           NEW line, Lines(line)
    PROVE  Lines(line \o HeaderLines(hs))
<1>1. PICK f : /\ Appends(f, hs, Len(hs)) /\ HeaderLines(hs) = f[Len(hs)]
               /\ \A k \in 0 .. Len(hs) : f[k] \in Text
  BY LinesAreText
<1>2. Len(hs) \in Nat /\ line \in Seq(Token)
  BY DEF IsHeaders, Lines, Text
<1> DEFINE T == {k \in 0 .. Len(hs) : Lines(line \o f[k])}
<1>3. 0 \in T
  <2>1. f[0] = << >>
    BY <1>1, <1>2 DEF Appends
  <2>2. line \o << >> = line
    BY <1>2, ConcatEmptySeq
  <2>3. Lines(line \o f[0])
    BY <2>1, <2>2, Zenon
  <2> QED
    BY <1>2, <2>3
<1>4. ASSUME NEW k \in 1 .. Len(hs), k - 1 \in T PROVE k \in T
  <2> DEFINE new == HeaderLine(hs[k])
             old == f[k - 1]
  <2>1. f[k] = old \o new
    <3>1. k \in 0 .. Len(hs) /\ k # 0
      BY <1>2
    <3>2. f[k] = IF k = 0 THEN << >> ELSE f[k - 1] \o HeaderLine(hs[k])
      BY <1>1, <3>1, Zenon DEF Appends
    <3> QED
      BY <3>1, <3>2
  <2>2. Lines(new)
    <3>1. hs[k] \in Pairs
      BY <1>2 DEF IsHeaders
    <3> QED
      BY <3>1, HeaderIsLine
  <2>3. Lines(line \o old) /\ old \in Seq(Token)
    BY <1>1, <1>2, <1>4 DEF Text
  <2> HIDE DEF new, old
  <2>4. (line \o old) \o new = line \o (old \o new)
    <3>1. new \in Seq(Token)
      BY <2>2 DEF Lines, Text
    <3> QED
      BY <1>2, <2>3, <3>1, ConcatAssociative, SMTT(30)
  <2>5. Lines((line \o old) \o new)
    BY <2>2, <2>3, LinesConcat
  <2>6. Lines(line \o f[k])
    BY <2>1, <2>4, <2>5, Zenon
  <2> QED
    BY <1>2, <2>6
<1>5. 0 .. Len(hs) \subseteq T
  <2> HIDE DEF T
  <2> QED
    BY <1>2, <1>3, <1>4, UpTo
<1> QED
  BY <1>1, <1>2, <1>5

\* A blank line, byte by byte.
LEMMA BlankLine ==
    /\ CRLF \o CRLF \in Text /\ Len(CRLF \o CRLF) = 4 /\ DOMAIN (CRLF \o CRLF) = 1 .. 4
    /\ (CRLF \o CRLF)[1] = "CR" /\ (CRLF \o CRLF)[2] = "LF"
    /\ (CRLF \o CRLF)[3] = "CR" /\ (CRLF \o CRLF)[4] = "LF"
<1> DEFINE b == CRLF \o CRLF
<1>1. CRLF \in Seq(Token) /\ Len(CRLF) = 2 /\ CRLF[1] = "CR" /\ CRLF[2] = "LF"
  BY DEF CRLF, Text, Token
<1>2. /\ b \in Seq(Token) /\ Len(b) = Len(CRLF) + Len(CRLF)
      /\ \A i \in 1 .. Len(CRLF) + Len(CRLF) :
            b[i] = IF i <= Len(CRLF) THEN CRLF[i] ELSE CRLF[i - Len(CRLF)]
  BY <1>1, ConcatProperties
<1> HIDE DEF b
<1>3. Len(b) = 4 /\ DOMAIN b = 1 .. 4
  BY <1>1, <1>2
<1>4. b[1] = "CR" /\ b[2] = "LF" /\ b[3] = "CR" /\ b[4] = "LF"
  BY <1>1, <1>2
<1> QED
  BY <1>2, <1>3, <1>4 DEF b, Text

\* The blank line after lines is the first.
LEMMA BlankAfterLines ==
    ASSUME NEW s, Lines(s)
    PROVE  /\ s \o CRLF \in Text /\ Len(s \o CRLF) = Len(s) + 2
           /\ Places(s \o CRLF, CRLF \o CRLF) = {Len(s) - 1}
<1> DEFINE u == s \o CRLF
           n == Len(s)
           blank == CRLF \o CRLF
<1>1. s \in Seq(Token) /\ CRLF \in Seq(Token) /\ Len(CRLF) = 2 /\ n \in Nat /\ n >= 2
      /\ CRLF[1] = "CR" /\ CRLF[2] = "LF"
  BY DEF CRLF, Text, Token, Lines
<1>2. /\ u \in Seq(Token) /\ Len(u) = n + Len(CRLF)
      /\ \A i \in 1 .. n + Len(CRLF) : u[i] = IF i <= n THEN s[i] ELSE CRLF[i - n]
  BY <1>1, ConcatProperties
<1>3. /\ Len(blank) = 4 /\ DOMAIN blank = 1 .. 4
      /\ blank[1] = "CR" /\ blank[2] = "LF" /\ blank[3] = "CR" /\ blank[4] = "LF"
  BY BlankLine
<1> HIDE DEF u, n, blank
<1>4. \A i \in 1 .. n : u[i] = s[i]
  BY <1>1, <1>2
<1>5. u[n + 1] = "CR" /\ u[n + 2] = "LF"
  <2>1. /\ n + 1 \in 1 .. n + Len(CRLF) /\ ~(n + 1 <= n)
        /\ n + 2 \in 1 .. n + Len(CRLF) /\ ~(n + 2 <= n)
        /\ (n + 1) - n = 1 /\ (n + 2) - n = 2
    BY <1>1
  <2> QED
    BY <1>1, <1>2, <2>1
<1>6. u[n - 1] = "CR" /\ u[n] = "LF"
  BY <1>1, <1>4 DEF Lines, n
<1>7. DOMAIN u = 1 .. n + 2 /\ Len(u) = n + 2
  BY <1>1, <1>2
<1>8. n - 1 \in Places(u, blank)
  <2>1. n - 1 \in DOMAIN u /\ (n - 1) + Len(blank) - 1 <= Len(u)
    BY <1>1, <1>3, <1>7
  <2>2. ASSUME NEW k \in 1 .. 4 PROVE u[(n - 1) + k - 1] = blank[k]
    <3>1. k = 1 \/ k = 2 \/ k = 3 \/ k = 4
      OBVIOUS
    <3>2. /\ (n - 1) + 1 - 1 = n - 1 /\ (n - 1) + 2 - 1 = n /\ (n - 1) + 3 - 1 = n + 1
          /\ (n - 1) + 4 - 1 = n + 2
      BY <1>1
    <3> QED
      BY <1>3, <1>5, <1>6, <3>1, <3>2
  <2>3. Occurs(u, blank, n - 1)
    BY <1>3, <2>1, <2>2, Zenon DEF Occurs
  <2> QED
    BY <2>1, <2>3 DEF Places
<1>9. ASSUME NEW i \in Places(u, blank) PROVE i = n - 1
  <2>0. i \in DOMAIN u /\ Occurs(u, blank, i)
    BY DEF Places
  <2>1. i \in 1 .. n + 2 /\ i + 4 - 1 <= n + 2
    BY <1>3, <1>7, <2>0 DEF Occurs
  <2>2. u[i + 2 - 1] = "LF" /\ u[i + 3 - 1] = "CR"
    <3>1. \A k \in 1 .. 4 : u[i + k - 1] = blank[k]
      BY <1>3, <2>0, Zenon DEF Occurs
    <3>2. 2 \in 1 .. 4 /\ 3 \in 1 .. 4
      OBVIOUS
    <3> QED
      BY <1>3, <3>1, <3>2, Zenon
  <2>3. i + 2 - 1 = i + 1 /\ i + 3 - 1 = (i + 1) + 1
    BY <2>1
  <2>4. CASE i + 1 <= n - 1
    <3>1. i + 1 \in 1 .. n - 1 /\ i + 1 \in 1 .. n /\ (i + 1) + 1 \in 1 .. n
      BY <1>1, <2>1, <2>4
    <3>2. s[i + 1] = "LF" /\ s[(i + 1) + 1] = "CR"
      BY <1>4, <2>2, <2>3, <3>1
    <3> QED
      BY <3>1, <3>2 DEF Lines, n
  <2> QED
    BY <1>1, <2>1, <2>4
<1>10. Places(u, blank) = {n - 1}
  BY <1>8, <1>9
<1> QED
  BY <1>2, <1>7, <1>10 DEF u, n, blank, Text

\* The headers written before a request is sent are headers.
LEMMA HeadersFit ==
    ASSUME NEW a, IsApp(a), IsOption(env.key_on_wire, Seq(STRING)), Buildable(a),
           env.key_on_wire # None => IsHeaderValue(env.key_on_wire[1])
    PROVE  \A k \in 1 .. Len(RequestHeaders(a)) : IsHeader(RequestHeaders(a)[k])
<1> DEFINE host == <<Header("host", <<a.upstream_host>>)>>
           hs   == a.upstream_headers
           key  == KeyHeaders(a)
           most == host \o hs
           S    == [name : Seq(STRING), value : Seq(STRING)]
           Any  == S \cup {Header("host", <<a.upstream_host>>)}
                        \cup {Header("x-api-key", WrittenKey(a.api_key[1]))}
<1>1. host \in Seq(Any) /\ Len(host) = 1 /\ IsHeader(host[1])
  <2>1. IsHeader(Header("host", <<a.upstream_host>>))
    BY DEF Buildable, IsHeader, Header, White
  <2> QED
    BY <2>1
<1>2. hs \in Seq(Any) /\ Len(hs) \in Nat /\ \A i \in 1 .. Len(hs) : IsHeader(hs[i])
  <2>1. hs \in Seq(S)
    BY DEF IsApp
  <2>2. Len(hs) \in Nat /\ DOMAIN hs = 1 .. Len(hs) /\ hs \in [1 .. Len(hs) -> S]
    BY <2>1, LenProperties
  <2> HIDE DEF S
  <2>3. hs \in [1 .. Len(hs) -> Any]
    BY <2>2
  <2>4. \A i \in DOMAIN hs : IsHeader(hs[i])
    BY DEF Buildable, Range
  <2> QED
    BY <2>2, <2>3, <2>4
<1>3. key \in Seq(Any) /\ Len(key) \in {0, 1} /\ \A i \in 1 .. Len(key) : IsHeader(key[i])
  <2>1. CASE a.api_key = None
    BY <2>1 DEF KeyHeaders
  <2>2. CASE a.api_key # None
    <3>1. IsHeaderValue(WrittenKey(a.api_key[1]))
      BY <2>2 DEF Buildable, WrittenKey, OrElse
    <3>2. IsHeader(Header("x-api-key", WrittenKey(a.api_key[1])))
      BY <3>1 DEF IsHeader, Header, White
    <3>3. key = <<Header("x-api-key", WrittenKey(a.api_key[1]))>>
      BY <2>2 DEF KeyHeaders
    <3> QED
      BY <3>2, <3>3
  <2> QED
    BY <2>1, <2>2
<1> HIDE DEF host, hs, key, S, Any
<1>4. /\ most \in Seq(Any) /\ Len(most) = 1 + Len(hs)
      /\ \A i \in 1 .. 1 + Len(hs) : most[i] = IF i <= 1 THEN host[i] ELSE hs[i - 1]
  <2>1. /\ most \in Seq(Any) /\ Len(most) = Len(host) + Len(hs)
        /\ \A i \in 1 .. Len(host) + Len(hs) :
                most[i] = IF i <= Len(host) THEN host[i] ELSE hs[i - Len(host)]
    BY <1>1, <1>2, ConcatProperties
  <2> HIDE DEF most
  <2> QED
    BY <1>1, <2>1
<1> HIDE DEF most
<1>5. ASSUME NEW i \in 1 .. Len(most) PROVE IsHeader(most[i])
  <2>1. CASE i = 1
    BY <1>1, <1>2, <1>4, <2>1
  <2>2. CASE i # 1
    <3>1. i \in 1 .. 1 + Len(hs) /\ ~(i <= 1) /\ i - 1 \in 1 .. Len(hs)
      BY <1>2, <1>4, <2>2
    <3> QED
      BY <1>2, <1>4, <3>1
  <2> QED
    BY <2>1, <2>2
<1> DEFINE all == most \o key
<1>6. /\ Len(all) = Len(most) + Len(key) /\ Len(most) \in Nat /\ Len(key) \in Nat
      /\ \A i \in 1 .. Len(most) + Len(key) :
            all[i] = IF i <= Len(most) THEN most[i] ELSE key[i - Len(most)]
  <2>1. Len(most) \in Nat /\ Len(key) \in Nat
    BY <1>2, <1>3, <1>4
  <2> QED
    BY <1>3, <1>4, <2>1, ConcatProperties
<1>7. RequestHeaders(a) = all
  BY DEF RequestHeaders, most, host, hs, key
<1> HIDE DEF all
<1>8. ASSUME NEW i \in 1 .. Len(all) PROVE IsHeader(all[i])
  <2>1. i \in 1 .. Len(most) + Len(key)
    BY <1>6
  <2>2. CASE i <= Len(most)
    BY <1>5, <1>6, <2>1, <2>2
  <2>3. CASE ~(i <= Len(most))
    <3>1. i - Len(most) \in 1 .. Len(key)
      BY <1>6, <2>1, <2>3
    <3> QED
      BY <1>3, <1>6, <2>1, <2>3, <3>1
  <2> QED
    BY <2>2, <2>3
<1> QED
  BY <1>7, <1>8

\* The notary cuts a request where run_prover ended its head: the body it digests
\* is the buyer's.
LEMMA RequestIsCut ==
    ASSUME NEW a, IsApp(a), IsOption(env.key_on_wire, Seq(STRING)), Buildable(a),
           env.key_on_wire # None => IsHeaderValue(env.key_on_wire[1]),
           NEW body \in Text
    PROVE  /\ RequestHead(a) \in Text /\ IsPost(RequestHead(a) \o body)
           /\ SplitAt(RequestHead(a) \o body) = Len(RequestHead(a))
           /\ DecodedRequest(RequestHead(a) \o body) = body
<1> DEFINE hs == RequestHeaders(a)
           first == <<"POST", "SP", "/v1/messages", "SP", "HTTP/1.1">>
           line == first \o CRLF
           lines == line \o HeaderLines(hs)
           head == RequestHead(a)
           blank == CRLF \o CRLF
<1>1. head = lines \o CRLF
  BY DEF RequestHead, RequestHeaders, KeyHeaders
<1>2. Lines(line)
  <2>1. /\ first \in Text /\ Len(first) = 5
        /\ \A i \in 1 .. 5 : first[i] \notin {"CR", "LF"}
    BY DEF Text, Token
  <2> HIDE DEF first
  <2>2. Len(first) > 0 /\ \A i \in 1 .. Len(first) : first[i] \notin {"CR", "LF"}
    BY <2>1
  <2> QED
    BY <2>1, <2>2, OneLine, SMTT(30)
<1> HIDE DEF line
<1>3. Lines(lines)
  BY <1>2, RequestHasHeaders, HeadersFit, HeadersAreLines
<1> HIDE DEF lines
<1>4. /\ head \in Text /\ Len(head) = Len(lines) + 2 /\ Places(head, blank) = {Len(lines) - 1}
  BY <1>1, <1>3, BlankAfterLines
<1>5. Len(lines) \in Nat /\ Len(lines) >= 2
  BY <1>3 DEF Lines, Text
<1>6. IsPost(head)
  BY RequestHeadIsPost
<1>7. Len(blank) = 4 /\ DOMAIN blank = 1 .. 4
  BY BlankLine
<1> HIDE DEF head, blank
<1>8. Position(head \o body, blank) = Len(lines) - 1
  <2> DEFINE i == Len(lines) - 1
  <2>1. i \in Places(head, blank) /\ \A j \in Places(head, blank) : i <= j
    BY <1>4, <1>5
  <2> HIDE DEF i
  <2>2. head \in Seq(Token) /\ body \in Seq(Token) /\ Len(blank) \in Nat
    BY <1>4, <1>7 DEF Text
  <2>3. DOMAIN blank = 1 .. Len(blank)
    BY <1>7
  <2>4. Position(head \o body, blank) = i
    BY <2>1, <2>2, <2>3, FirstInPrefix
  <2> QED
    BY <2>4 DEF i
<1>9. SplitAt(head \o body) = Len(head)
  <2> DEFINE i == Position(head \o body, blank)
  <2>1. SplitAt(head \o body) = IF i = 0 THEN 0 ELSE i + 3
    BY Zenon DEF SplitAt, blank
  <2>2. i = Len(lines) - 1
    BY <1>8
  <2> HIDE DEF i
  <2>3. i # 0 /\ i + 3 = Len(head)
    BY <1>4, <1>5, <2>2
  <2> QED
    BY <2>1, <2>3
<1>10. DecodedRequest(head \o body) = body
  <2>1. head \in Seq(Token) /\ body \in Seq(Token)
    BY <1>4 DEF Text
  <2>2. Drop(head \o body, Len(head)) = body
    BY <2>1, CutConcat
  <2> QED
    BY <1>9, <2>2, Zenon DEF DecodedRequest
<1>11. IsPost(head \o body)
  <2> DEFINE u == head \o body
  <2>1. /\ u \in Seq(Token) /\ Len(u) = Len(head) + Len(body)
        /\ \A i \in 1 .. Len(head) + Len(body) :
                u[i] = IF i <= Len(head) THEN head[i] ELSE body[i - Len(head)]
    BY <1>4, ConcatProperties DEF Text
  <2>2. Len(body) \in Nat /\ Len(head) \in Nat /\ Len(head) >= 7
    BY <1>6 DEF IsPost, Text
  <2> HIDE DEF u
  <2>3. \A i \in 1 .. 6 : u[i] = head[i]
    BY <2>1, <2>2
  <2> QED
    BY <1>6, <2>1, <2>2, <2>3 DEF IsPost, Text, u
<1> QED
  BY <1>4, <1>9, <1>10, <1>11 DEF head

\* Blanking bytes that are no line breaks leaves the blank line where it was.
LEMMA RedactionKeepsCut ==
    ASSUME NEW sent \in Text, NEW key \in Text, IsHeaderValue(key),
           NEW at \in Places(sent, key)
    PROVE  \E shown \in {Redacted(sent, at, Len(key))} :
              /\ shown \in Text /\ DOMAIN shown = DOMAIN sent /\ Len(shown) = Len(sent)
              /\ \A i \in DOMAIN sent :
                    shown[i] = IF i \in at .. at + Len(key) - 1 THEN "NUL" ELSE sent[i]
              /\ SplitAt(shown) = SplitAt(sent)
<1> DEFINE shown == Redacted(sent, at, Len(key))
           blank == CRLF \o CRLF
<1>1. /\ Len(sent) \in Nat /\ DOMAIN sent = 1 .. Len(sent)
      /\ Len(key) \in Nat /\ DOMAIN key = 1 .. Len(key)
  BY LenProperties DEF Text
<1>2. shown \in Text
  BY RedactedIsText
<1>3. /\ DOMAIN shown = DOMAIN sent
      /\ \A i \in DOMAIN sent :
            shown[i] = IF i \in at .. at + Len(key) - 1 THEN "NUL" ELSE sent[i]
  BY DEF Redacted
<1> HIDE DEF shown
<1>4. Len(shown) = Len(sent)
  <2>1. Len(shown) \in Nat /\ DOMAIN shown = 1 .. Len(shown)
    BY <1>2, LenProperties DEF Text
  <2> QED
    BY <1>1, <1>3, <2>1
<1>5. ASSUME NEW i \in DOMAIN sent
      PROVE  shown[i] = sent[i] \/ (shown[i] \notin {"CR", "LF"} /\ sent[i] \notin {"CR", "LF"})
  <2>1. CASE i \in at .. at + Len(key) - 1
    <3> DEFINE k == i - at + 1
    <3>1. at \in 1 .. Len(sent) /\ \A j \in 1 .. Len(key) : sent[at + j - 1] = key[j]
      BY <1>1 DEF Places, Occurs
    <3>2. k \in 1 .. Len(key) /\ at + k - 1 = i
      BY <1>1, <2>1, <3>1
    <3> HIDE DEF k
    <3>3. sent[i] = key[k]
      BY <3>1, <3>2
    <3>4. key[k] \notin {"CR", "LF"}
      BY <1>1, <3>2 DEF IsHeaderValue
    <3>5. shown[i] = "NUL"
      BY <1>3, <2>1
    <3> QED
      BY <3>3, <3>4, <3>5
  <2>2. CASE i \notin at .. at + Len(key) - 1
    BY <1>3, <2>2
  <2> QED
    BY <2>1, <2>2
<1>6. /\ Len(blank) = 4 /\ DOMAIN blank = 1 .. 4
      /\ \A k \in 1 .. 4 : blank[k] \in {"CR", "LF"}
  <2>1. /\ Len(blank) = 4 /\ DOMAIN blank = 1 .. 4
        /\ blank[1] = "CR" /\ blank[2] = "LF" /\ blank[3] = "CR" /\ blank[4] = "LF"
    BY BlankLine
  <2> HIDE DEF blank
  <2>2. ASSUME NEW k \in 1 .. 4 PROVE blank[k] \in {"CR", "LF"}
    <3>1. k = 1 \/ k = 2 \/ k = 3 \/ k = 4
      OBVIOUS
    <3> QED
      BY <2>1, <3>1
  <2> QED
    BY <2>1, <2>2
<1> HIDE DEF blank
<1>7. ASSUME NEW i \in DOMAIN sent PROVE Occurs(shown, blank, i) <=> Occurs(sent, blank, i)
  <2>1. CASE i + Len(blank) - 1 <= Len(sent)
    <3>1. ASSUME NEW k \in 1 .. 4 PROVE shown[i + k - 1] = blank[k] <=> sent[i + k - 1] = blank[k]
      <4> DEFINE j == i + k - 1
      <4>1. j \in DOMAIN sent
        BY <1>1, <1>6, <2>1
      <4> HIDE DEF j
      <4>2. shown[j] = blank[k] <=> sent[j] = blank[k]
        BY <1>5, <1>6, <4>1
      <4> QED
        BY <4>2 DEF j
    <3>2. /\ i + Len(blank) - 1 <= Len(shown) /\ i + Len(blank) - 1 <= Len(sent)
          /\ \A k \in DOMAIN blank : shown[i + k - 1] = blank[k] <=> sent[i + k - 1] = blank[k]
      BY <1>4, <1>6, <2>1, <3>1
    <3> QED
      BY <3>2, Zenon DEF Occurs
  <2>2. CASE ~(i + Len(blank) - 1 <= Len(sent))
    BY <1>4, <2>2, Zenon DEF Occurs
  <2> QED
    BY <2>1, <2>2
<1>8. Places(shown, blank) = Places(sent, blank)
  BY <1>3, <1>7 DEF Places
<1>9. SplitAt(shown) = SplitAt(sent)
  <2>1. Position(shown, blank) = Position(sent, blank)
    BY <1>8 DEF Position
  <2> QED
    BY <2>1 DEF SplitAt, blank
<1> QED
  BY <1>2, <1>3, <1>4, <1>9 DEF shown

\* Where a search of text ends.
LEMMA PositionOf ==
    ASSUME NEW s \in Text, NEW v
    PROVE  \/ Places(s, v) = {} /\ Position(s, v) = 0
           \/ /\ Position(s, v) \in Places(s, v) /\ Position(s, v) \in Nat \ {0}
              /\ \A j \in Places(s, v) : Position(s, v) <= j
<1> DEFINE P == Places(s, v)
<1>1. DOMAIN s = 1 .. Len(s) /\ Len(s) \in Nat
  BY LenProperties DEF Text
<1>2. P \subseteq Nat \ {0}
  BY <1>1 DEF Places
<1> HIDE DEF P
<1>3. Position(s, v) = IF P = {} THEN 0 ELSE CHOOSE i \in P : \A j \in P : i <= j
  BY DEF Position, P
<1>4. CASE P = {}
  BY <1>3, <1>4 DEF P
<1>5. CASE P # {}
  <2>1. \E i \in P : \A j \in P : i <= j
    BY <1>2, <1>5, LeastNat
  <2>2. Position(s, v) \in P /\ \A j \in P : Position(s, v) <= j
    BY <1>3, <1>5, <2>1
  <2> QED
    BY <1>2, <2>2 DEF P
<1> QED
  BY <1>4, <1>5

\* A key written as configured is found, at the place KeyAt says.
LEMMA KeyInRequest ==
    ASSUME NEW a, IsApp(a), IsOption(env.key_on_wire, Seq(STRING)), Buildable(a),
           env.key_on_wire # None => IsHeaderValue(env.key_on_wire[1]),
           a.api_key # None, WrittenKey(a.api_key[1]) = a.api_key[1],
           a.api_key[1] # << >>, NEW body \in Text
    PROVE  KeyAt(RequestHead(a) \o body, a.api_key[1])
                \in Places(RequestHead(a) \o body, a.api_key[1])
<1> DEFINE head == RequestHead(a)
           key == a.api_key[1]
           i == Len(head) - 3 - Len(key)
           none == << >>
<1>1. head \in Text /\ key \in Text /\ i \in Places(head, key)
  BY KeyInHead
<1>2. KeyAt(head \o body, key) = i
  <2>1. SplitAt(head \o body) = Len(head)
    BY RequestIsCut
  <2> QED
    BY <2>1, Zenon DEF KeyAt
<1>3. none \in Text /\ Len(none) = 0 /\ none \o head = head /\ i \in Int
  <2>1. head \in Seq(Token) /\ Len(head) \in Nat /\ Len(key) \in Nat
    BY <1>1 DEF Text
  <2>2. none \o head = head
    BY <2>1, ConcatEmptySeq
  <2>3. none \in Text /\ Len(none) = 0
    BY DEF Text
  <2> QED
    BY <2>1, <2>2, <2>3
<1> HIDE DEF head, key, i, none
<1>4. Len(none) + i \in Places(none \o head \o body, key)
  BY <1>1, <1>3, FoundWithin
<1>5. i \in Places(head \o body, key)
  <2>1. Len(none) + i = i
    BY <1>3
  <2> QED
    BY <1>3, <1>4, <2>1, Zenon
<1> QED
  BY <1>2, <1>5, Zenon DEF head, key, i
=============================================================================
