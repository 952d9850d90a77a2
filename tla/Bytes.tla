-------------------------------- MODULE Bytes --------------------------------
(***************************************************************************)
(* Slices of bytes as the code cuts them up.  A byte string is a sequence  *)
(* of tokens: those the code looks for ("CR", "LF", "SP", ":", ";"), "NUL" *)
(* for a byte that was not disclosed, and any others.                      *)
(***************************************************************************)
EXTENDS Naturals, Sequences, FiniteSets

CRLF == <<"CR", "LF">>
White == {"SP", "CR", "LF"}

Drop(s, n) == SubSeq(s, n + 1, Len(s))
Take(s, n) == SubSeq(s, 1, n)

\* windows(k).position(|w| w == pattern): the first place it occurs, or 0.
Occurs(s, pattern, i) ==
    /\ i + Len(pattern) - 1 <= Len(s)
    /\ \A k \in DOMAIN pattern : s[i + k - 1] = pattern[k]
Places(s, pattern) == {i \in DOMAIN s : Occurs(s, pattern, i)}
Position(s, pattern) ==
    LET places == Places(s, pattern)
    IN  IF places = {} THEN 0 ELSE CHOOSE i \in places : \A j \in places : i <= j

\* The head of a message ends at the first blank line; without one it is empty.
SplitAt(s) == LET i == Position(s, CRLF \o CRLF) IN IF i = 0 THEN 0 ELSE i + 3

\* str::trim: without the white space at either end.
Trim(s) ==
    LET solid == {i \in DOMAIN s : s[i] \notin White}
    IN  IF solid = {} THEN << >>
        ELSE SubSeq(s, CHOOSE i \in solid : \A j \in solid : i <= j,
                       CHOOSE i \in solid : \A j \in solid : i >= j)

\* split(|b| seps.contains(b)): always at least one piece, possibly empty.
SplitOn(s, seps) ==
    LET isCut(i) == i = 0 \/ i = Len(s) + 1 \/ s[i] \in seps
        cuts == SelectSeq([i \in 1 .. Len(s) + 2 |-> i - 1], isCut)
    IN  [k \in 1 .. Len(cuts) - 1 |-> SubSeq(s, cuts[k] + 1, cuts[k + 1] - 1)]

\* The words of the first line, as request_line and status_code read them: where
\* each starts, the one that starts at i, and the n-th; a missing word is empty.
WordStarts(s) ==
    {i \in DOMAIN s : /\ s[i] \notin White /\ (i = 1 \/ s[i - 1] \in White)
                      /\ \A j \in 1 .. i : s[j] \notin {"CR", "LF"}}
WordAt(s, i) ==
    SubSeq(s, i, CHOOSE j \in i .. Len(s) :
                    /\ \A k \in i .. j : s[k] \notin White
                    /\ j = Len(s) \/ s[j + 1] \in White)
Word(s, n) ==
    LET starts == WordStarts(s)
        nth == {i \in starts : Cardinality({j \in starts : j <= i}) = n}
    IN  IF nth = {} THEN << >> ELSE WordAt(s, CHOOSE i \in nth : TRUE)
=============================================================================
