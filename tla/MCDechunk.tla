----------------------------- MODULE MCDechunk -----------------------------
(***************************************************************************)
(* Messages as a server frames them, the body cut anywhere.  Data has line *)
(* breaks, digits and semicolons, so that it looks like framing; size      *)
(* lines come with a leading zero and with extensions; the last chunk may  *)
(* be followed by a trailer.                                               *)
(***************************************************************************)
EXTENDS Dechunk

Datas == {<<"x">>, <<"1">>, <<"0", ";">>, <<"CR", "LF">>, <<"LF", "CR">>, <<"1", "CR">>}
Exts == {[pad |-> << >>, ext |-> << >>], [pad |-> << >>, ext |-> <<";", "x">>],
         [pad |-> <<"SP">>, ext |-> <<";", "1">>]}
SizeDigits(data) ==
    CASE Len(data) = 1 -> <<"1">> [] Len(data) = 2 -> <<"0", "2">>
      [] Len(data) = 10 -> <<"a">> [] Len(data) = 17 -> <<"1", "1">>
ChunkOf(data, e) ==
    [digits |-> SizeDigits(data),
     pad |-> e.pad, ext |-> e.ext, data |-> data, end |-> CRLF]
LastChunk(trailer) ==
    [digits |-> <<"0">>, pad |-> << >>, ext |-> << >>, data |-> << >>, end |-> trailer]

\* Data whose size in hex is not its size in decimal.
Long(n) == [i \in 1 .. n |-> IF i % 4 = 0 THEN "CR" ELSE IF i % 4 = 1 THEN "LF" ELSE "0"]

DataLists == {<< >>, <<Long(10)>>, <<Long(17)>>}
                \cup {<<d>> : d \in Datas} \cup {<<c, d>> : c, d \in Datas}
ChunkLists(e) ==
    {[k \in DOMAIN datas |-> ChunkOf(datas[k], e)] : datas \in DataLists}

\* One chunk, whole, and a second or its beginning; or two and the last.
NextChunks(e, chunks) ==
    {LastChunk(CRLF), LastChunk(<<"x">> \o CRLF \o CRLF)} \cup
    IF Len(chunks) = 2 THEN {} ELSE {ChunkOf(data, e) : data \in Datas}

\* Status lines and the status they state.
Line(version, gap, code, reason, stated) ==
    [version |-> version, gap |-> gap, code |-> code, reason |-> reason,
     status |-> stated]
Ok == Line(<<"x">>, <<"SP">>, <<"2", "0", "0">>, <<"SP", "x">>, 200)
NoLine == Line(<< >>, << >>, << >>, << >>, 0)
StatusLines ==
    { Ok, NoLine,
      Line(<<"x">>, <<"SP">>, <<"2", "0", "1">>, << >>, 201),
      Line(<<"x">>, <<"SP", "SP">>, <<"0", "2", "2">>, <<"SP", "1">>, 22),
      Line(<<"x">>, <<"SP">>, <<"2", "2", "2", "2", "2">>, << >>, 22222),
      Line(<<"x">>, <<"SP">>, <<"1", "1", "1", "1", "1", "1">>, << >>, 0),
      Line(<<"x">>, <<"SP">>, <<"6", "5", "5", "3", "5">>, << >>, 65535),
      Line(<<"x">>, <<"SP">>, <<"6", "5", "5", "3", "6">>, << >>, 0),
      Line(<<"x">>, <<"SP">>, <<"+", "5", "0", "2">>, << >>, 502),
      Line(<<"x">>, <<"SP">>, <<"+">>, << >>, 0),
      Line(<<"x">>, <<"SP">>, <<"2", "0", "a">>, << >>, 0),
      Line(<<"x">>, <<"SP">>, <<"2", "x">>, << >>, 0),
      Line(<<"1">>, << >>, << >>, << >>, 0) }

ChunkedDeliveries(e) ==
    UNION {UNION {{[line |-> Ok, fields |-> CRLF \o <<"TE">> \o CRLF \o CRLF,
                    chunks |-> chunks, next |-> next, got |-> got] :
                       got \in 0 .. Len(Frame(next))} :
                   next \in NextChunks(e, chunks)} :
            chunks \in ChunkLists(e)}

\* Without chunking the body is whatever follows the head; bytes that were not
\* disclosed are all body.
Payloads == Datas \cup {c \o d : c, d \in Datas} \cup {<< >>}
PlainDeliveries ==
    {[line |-> l, fields |-> CRLF \o CRLF, payload |-> payload] :
        l \in StatusLines, payload \in Payloads}
    \cup {[line |-> NoLine, fields |-> << >>, payload |-> <<"x", "x", "x">>]}

MCDeliveries == PlainDeliveries \cup UNION {ChunkedDeliveries(e) : e \in Exts}
=============================================================================
