------------------------------- MODULE Dechunk -------------------------------
(***************************************************************************)
(* status_code, decoded_body, header_is_chunked and dechunk of the notary, *)
(* on the bytes it was shown.  A byte is one of those the code tells       *)
(* apart: "CR", "LF", "SP", ";", "+", a hex digit (of either case), or "x" *)
(* for any other.  The header line `Transfer-Encoding: chunked` is one     *)
(* token, "TE".                                                            *)
(***************************************************************************)
EXTENDS Bytes

CONSTANT Deliveries     \* what the notary may be shown: see IsDelivery

VARIABLES
    delivery,
    pc,
    status,
    body,   \* dechunk: what is left to read
    out     \* dechunk: the chunk data so far; at the end, the result
vars == <<delivery, pc, status, body, out>>

Numerals == <<"0", "1", "2", "3", "4", "5", "6", "7", "8", "9",
              "a", "b", "c", "d", "e", "f">>
Digits == {Numerals[k] : k \in 1 .. 16}
Digit == [d \in Digits |-> CHOOSE v \in 0 .. 15 : Numerals[v + 1] = d]

Byte == {"CR", "LF", "SP", ";", "+", "x", "TE"} \cup Digits
Solid == Byte \ (White \cup {"TE"})

\* from_str_radix and parse: digits of the base, perhaps after a plus sign; 0 for
\* anything that is not a number.
Unsigned(word) == IF word # << >> /\ word[1] = "+" THEN Drop(word, 1) ELSE word
IsNumber(word, base) ==
    word # << >> /\ \A i \in DOMAIN word : word[i] \in Digits /\ Digit[word[i]] < base
Value(word, base) ==
    LET value[i \in 0 .. Len(word)] ==
            IF i = 0 THEN 0 ELSE base * value[i - 1] + Digit[word[i]]
    IN  value[Len(word)]
Number(word, base) ==
    LET digits == Unsigned(word)
    IN  IF IsNumber(digits, base) THEN Value(digits, base) ELSE 0
-----------------------------------------------------------------------------
\* How a server frames a message.  A status line is a version, a status code and
\* a reason phrase, the later ones perhaps missing; `status` is the code's value.
StatusLine(l) == l.version \o l.gap \o l.code \o l.reason
IsStatusLine(l) ==
    /\ l.version \in Seq(Solid) /\ l.gap \in Seq({"SP"}) /\ l.code \in Seq(Solid)
    /\ l.reason \in Seq(Solid \cup {"SP"})
    /\ l.reason # << >> => l.reason[1] = "SP" /\ l.code # << >>
    /\ l.code # << >> => l.gap # << >>
    /\ l.gap # << >> => l.version # << >>
    /\ \E n \in {Number(l.code, 10)} : l.status = IF n < 2^16 THEN n ELSE 0

\* The head ends at its only blank line.  A message that was not disclosed has no
\* head, and no white space.
HeadOf(d) == StatusLine(d.line) \o d.fields
IsHead(d) ==
    /\ IsStatusLine(d.line) /\ d.fields \in Seq(Byte)
    /\ \/ /\ d.fields # << >> /\ d.fields[1] = "CR"
          /\ Places(HeadOf(d), CRLF \o CRLF) = {Len(HeadOf(d)) - 3}
       \/ HeadOf(d) = << >> /\ d.payload \in Seq(Solid)

\* A chunk: the size of its data, in hex, and any extension; the data; a line
\* break, or after the last chunk, which holds no data, the trailer.
ChunkFrames == [digits : Seq(Digits), pad : Seq({"SP"}), ext : Seq(Byte \ {"CR", "LF"}),
                data : Seq(Byte), end : Seq(Byte)]
SizeLine(c) == c.digits \o c.pad \o c.ext
Frame(c) == SizeLine(c) \o CRLF \o c.data \o c.end
IsChunk(c) ==
    /\ c \in ChunkFrames /\ c.digits # << >> /\ Number(c.digits, 16) = Len(c.data)
    /\ c.ext # << >> => c.ext[1] = ";"
    /\ c.data # << >> => c.end = CRLF

\* A chunked body is whole chunks and the first `got` bytes of the next: the
\* bytes of that beginning, with its data if that arrived whole; of a chunk before
\* what was received after it; and of the last m chunks and the beginning.
Beginning(d) ==
    [wire |-> Take(Frame(d.next), d.got),
     data |-> IF d.got < Len(SizeLine(d.next) \o CRLF \o d.next.data) THEN << >>
              ELSE d.next.data]
Before(c, r) == [wire |-> Frame(c) \o r.wire, data |-> c.data \o r.data]
Received(d) ==
    LET last[m \in 0 .. Len(d.chunks)] ==
            IF m = 0 THEN Beginning(d)
            ELSE Before(d.chunks[Len(d.chunks) + 1 - m], last[m - 1])
    IN  last
AllReceived(d) == Received(d)[Len(d.chunks)]
IsChunkedBody(d) ==
    /\ d.chunks \in Seq(ChunkFrames)
    /\ \A k \in DOMAIN d.chunks : IsChunk(d.chunks[k]) /\ d.chunks[k].data # << >>
    /\ IsChunk(d.next) /\ d.got \in 0 .. Len(Frame(d.next))

\* What was received of a message, and the content it carries.
Chunked(d) == \E i \in DOMAIN d.fields : d.fields[i] = "TE"
Buf(d) == HeadOf(d) \o (IF Chunked(d) THEN AllReceived(d).wire ELSE d.payload)
Content(d) == IF Chunked(d) THEN AllReceived(d).data ELSE d.payload
IsDelivery(d) ==
    IsHead(d) /\ IF Chunked(d) THEN IsChunkedBody(d) ELSE d.payload \in Seq(Byte)

ASSUME DeliveriesAssumption == \A d \in Deliveries : IsDelivery(d)
-----------------------------------------------------------------------------
Init == /\ delivery \in Deliveries /\ pc = "status" /\ status = 0
        /\ body = << >> /\ out = << >>

\* Mutant: the status is looked for in the first word.
StatusWordFirst(buf) == Word(buf, 1)
\* The second word of the first line is the status, 0 unless it is a u16.
StatusWord(buf) == Word(buf, 2)
StatusCode(word) == LET code == Number(word, 10) IN IF code < 2^16 THEN code ELSE 0

ReadStatus ==
    /\ pc = "status"
    /\ pc' = "split"
    /\ \E buf \in {Buf(delivery)} : \E word \in {StatusWord(buf)} :
            status' = StatusCode(word)
    /\ UNCHANGED <<delivery, body, out>>

HeaderIsChunked(head) == \E i \in DOMAIN head : head[i] = "TE"

Split ==
    /\ pc = "split"
    /\ \E buf \in {Buf(delivery)} : \E n \in {SplitAt(buf)} :
          IF HeaderIsChunked(Take(buf, n))
          THEN pc' = "chunks" /\ body' = Drop(buf, n) /\ out' = << >>
          ELSE pc' = "done" /\ body' = << >> /\ out' = Drop(buf, n)
    /\ UNCHANGED <<delivery, status>>

\* The chunk size: the hex before any ";", 0 when that is no number.
Size(line) ==
    LET semicolon == Position(line, <<";">>)
    IN  Number(Trim(IF semicolon = 0 THEN line ELSE Take(line, semicolon - 1)), 16)

\* Mutant: the line break after the data is left in place.
AfterChunkRaw(rest) == rest

\* Skip the line break that ends a chunk's data.
AfterChunk(rest) == IF Occurs(rest, CRLF, 1) THEN Drop(rest, 2) ELSE rest

\* The last chunk, or one that was cut short.
IsLast(size, rest) == size = 0 \/ Len(rest) < size

\* Mutant: a size of zero continues the loop before its line is consumed.
ChunkSpins ==
    /\ pc = "chunks"
    /\ \E nl \in {Position(body, CRLF)} :
       \E line \in {Take(body, nl - 1)}, rest \in {Drop(body, nl + 1)} :
       \E size \in {Size(line)} :
          CASE nl # 0 /\ size = 0 -> UNCHANGED <<pc, body, out>>
            [] nl = 0 \/ (size # 0 /\ Len(rest) < size) ->
                    pc' = "done" /\ UNCHANGED <<body, out>>
            [] OTHER -> /\ out' = out \o Take(rest, size)
                        /\ body' = AfterChunk(Drop(rest, size))
                        /\ UNCHANGED pc
    /\ UNCHANGED <<delivery, status>>

\* One turn of the loop of dechunk.
Chunk ==
    /\ pc = "chunks"
    /\ \E nl \in {Position(body, CRLF)} :
       \E line \in {Take(body, nl - 1)}, rest \in {Drop(body, nl + 1)} :
       \E size \in {Size(line)} :
          IF nl = 0 \/ IsLast(size, rest)
          THEN pc' = "done" /\ UNCHANGED <<body, out>>
          ELSE /\ out' = out \o Take(rest, size)
               /\ body' = AfterChunk(Drop(rest, size))
               /\ UNCHANGED pc
    /\ UNCHANGED <<delivery, status>>

Returned == pc = "done" /\ UNCHANGED vars

Next == ReadStatus \/ Split \/ Chunk \/ Returned
Spec == Init /\ [][Next]_vars
\* It all runs to completion on one thread.
FairSpec == Spec /\ WF_vars(Next)
-----------------------------------------------------------------------------
\* The decoded body is the content of what was received, and on the way to it
\* dechunk has only ever collected a prefix of it: data that looks like framing
\* is not read as framing, and a chunk that was cut short is left out whole.
DecodesContent ==
    \E content \in {Content(delivery)} :
        /\ pc = "done" => out = content
        /\ Len(out) <= Len(content) /\ out = Take(content, Len(out))

\* The status read is the one the server put in its status line: reason phrase
\* or none, however spaced; and 0 when there is none, when it was not disclosed
\* and when it is no u16.
StatusAsSent == pc # "status" => status = delivery.line.status

\* decoded_body returns on every input.
DechunkReturns == <>(pc = "done")
=============================================================================
