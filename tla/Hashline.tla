------------------------------ MODULE Hashline ------------------------------
(***************************************************************************)
(* core/Hashline: a file as numbered lines with a hash each, and edits as    *)
(* hunks that name the lines they replace by number and hash.                *)
(*                                                                           *)
(* A line's text is a model value and LineHash a table: texts that           *)
(* NormalizeLine makes equal, or whose 16 bits collide, share an entry.  A   *)
(* file is its lines as they are, each with or without a carriage return,    *)
(* and whether the last one ends in a newline.                               *)
(***************************************************************************)
EXTENDS Naturals, Sequences, SequencesExt

CONSTANTS Text, Blank,
          Hash,             \* what an anchor may give as a hash
          LineHash

ASSUME HashAssumption == Blank \in Text /\ LineHash \in [Text -> Hash]

\* ParseFile: the texts, without carriage returns.  A newline at the end makes
\* no further line.
ParseFile(file) == [i \in DOMAIN file.lines |-> file.lines[i].text]

\* The lines joined by newlines, with one at the end: carriage returns are gone,
\* and no lines at all make an empty one.
OrBlank(texts) == IF texts = <<>> THEN <<Blank>> ELSE texts
Joined(texts) ==
    [kind |-> "text", newline |-> TRUE,
     lines |-> [i \in DOMAIN OrBlank(texts) |-> [text |-> OrBlank(texts)[i], cr |-> FALSE]]]

\* FormatRead: limit rows after offset, and where to go on (0 at the end).
FormatRead(texts, offset, limit) ==
    LET last == IF offset + limit < Len(texts) THEN offset + limit ELSE Len(texts)
    IN  [rows |-> [i \in 1 .. last - offset |->
                      <<offset + i, LineHash[texts[offset + i]], texts[offset + i]>>],
         next |-> IF last < Len(texts) THEN last + 1 ELSE 0]

\* A hunk as EditCommand makes it of its anchors; endLine 0 is "no end anchor".
Hunk == [startLine : Nat \ {0}, startHash : Hash, endLine : Nat, endHash : Hash,
         content : Seq(Text)]
EndOf(h) == IF h.endLine > 0 THEN h.endLine ELSE h.startLine

\* FindLine and the comparison of hashes.
Anchored(texts, line, hash) == line \in 1 .. Len(texts) /\ LineHash[texts[line]] = hash

Failed == [ok |-> FALSE, texts |-> <<>>]

\* One hunk on the lines as the hunks below it have left them.
ApplyHunk(result, h) ==
    IF /\ result.ok /\ EndOf(h) >= h.startLine
       /\ Anchored(result.texts, h.startLine, h.startHash)
       /\ EndOf(h) # h.startLine => Anchored(result.texts, EndOf(h), h.endHash)
    THEN [ok |-> TRUE,
          texts |-> SubSeq(result.texts, 1, h.startLine - 1) \o h.content
                       \o SubSeq(result.texts, EndOf(h) + 1, Len(result.texts))]
    ELSE Failed

\* std::sort: some order in which no hunk stands after one that it goes before.
\* Of hunks that go before neither, either may be the first.
Sorted(hunks, GoesBefore(_, _)) ==
    LET order == CHOOSE p \in Bijection(DOMAIN hunks, DOMAIN hunks) :
                     \A i, j \in DOMAIN hunks :
                         i < j => ~GoesBefore(hunks[p[j]], hunks[p[i]])
    IN  [i \in DOMAIN hunks |-> hunks[order[i]]]

FromTop(hunks)    == Sorted(hunks, LAMBDA a, b : a.startLine < b.startLine)
FromBottom(hunks) == Sorted(hunks, LAMBDA a, b : a.startLine > b.startLine)

Overlap(hunks) ==
    \E i \in 2 .. Len(hunks) :
        FromTop(hunks)[i].startLine <= EndOf(FromTop(hunks)[i - 1])

\* The loop over the hunks, which goes on with what the last one has left.
ApplyInOrder(texts, ordered) ==
    LET working[k \in 0 .. Len(ordered)] ==
            IF k = 0 THEN [ok |-> TRUE, texts |-> texts]
            ELSE ApplyHunk(working[k - 1], ordered[k])
    IN  working[Len(ordered)]

\* Fault: the hunks are applied from the top.
ApplyHunksFromTop(texts, hunks) ==
    IF hunks = <<>> \/ Overlap(hunks) THEN Failed
    ELSE ApplyInOrder(texts, FromTop(hunks))

\* From the bottom up, so that the numbers above stay good.
ApplyHunks(texts, hunks) ==
    IF hunks = <<>> \/ Overlap(hunks) THEN Failed
    ELSE ApplyInOrder(texts, FromBottom(hunks))

-----------------------------------------------------------------------------
(* What ApplyHunks should compute, with no order of application in it.     *)

Hunks(hunks) == {hunks[i] : i \in DOMAIN hunks}
Lines(h) == h.startLine .. EndOf(h)

\* The hunks name lines the file has, by the hashes it has, and none twice.
Valid(texts, hunks) ==
    /\ hunks # <<>>
    /\ \A h \in Hunks(hunks) :
          /\ Lines(h) # {} /\ Anchored(texts, h.startLine, h.startHash)
          /\ EndOf(h) # h.startLine => Anchored(texts, EndOf(h), h.endHash)
    /\ \A i, j \in DOMAIN hunks : i # j => Lines(hunks[i]) \cap Lines(hunks[j]) = {}

\* Each line that a hunk starts at gives way to its content, the other lines of
\* the hunk to nothing, and the rest stay.
Spliced(texts, hunks) ==
    FlattenSeq([i \in DOMAIN texts |->
        IF \E h \in Hunks(hunks) : h.startLine = i
        THEN (CHOOSE h \in Hunks(hunks) : h.startLine = i).content
        ELSE IF \E h \in Hunks(hunks) : i \in Lines(h) THEN <<>> ELSE <<texts[i]>>])
=============================================================================
