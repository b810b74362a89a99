------------------------------- MODULE Chunker -------------------------------
(***************************************************************************)
(* chunk_extraction_result: the chunks of a text, as functions on          *)
(* sequences of tokens.                                                    *)
(*                                                                         *)
(* A document is a sequence of segments, each a sequence of paragraphs     *)
(* [size, heading]: its tokens, and whether it is a markdown heading.      *)
(* Tokens are told apart by their place, <<segment, paragraph, number>>;   *)
(* segment 0 is what the chunker adds.                                     *)
(* A joint ("\n\n") is one token, and a stamped heading HeadingTokens.     *)
(*                                                                         *)
(* A token is a string of bytes, and a character of several bytes may take *)
(* several tokens.  A slice of tokens that cuts it decodes to U+FFFD where *)
(* the character was.                                                      *)
(***************************************************************************)
EXTENDS Integers, Sequences, SequencesExt, FiniteSetsExt

CONSTANTS
    ChunkSize,       \* CHUNK_SIZE_TOKENS
    ChunkOverlap,    \* CHUNK_OVERLAP_TOKENS
    HeadingTokens,
    Inside           \* the tokens that begin inside a character of several bytes

\* The settings reject an overlap that is not less than the size, as the chunker does.
ASSUME ChunkAssumption ==
    /\ ChunkSize \in Nat \ {0} /\ ChunkOverlap \in 0 .. ChunkSize - 1
    /\ HeadingTokens \in Nat \ {0}

\* A text begins with a character.
ASSUME InsideAssumption == \A x \in Inside : x \in Nat \X Nat \X Nat /\ x[3] > 1

\* What the extraction hands over: no paragraph is empty.
Paragraph == [size : Nat \ {0}, heading : BOOLEAN]
Document == Seq(Seq(Paragraph))

-----------------------------------------------------------------------------
(* The chunker                                                             *)

Joint == <<0, 0, 0>>
Replacement == <<0, 0, 1>>
Stamp(section) == [k \in 1 .. HeadingTokens |-> <<0, section, k>>]

\* The paragraphs of the segments, in order.
Places(doc) == FlattenSeq([s \in DOMAIN doc |-> [p \in DOMAIN doc[s] |-> <<s, p>>]])

\* The paragraphs as units of tokens; a heading gives its section to every paragraph
\* up to the next heading, across segments.
ParagraphUnits(doc) ==
    LET places == Places(doc)
        paragraph(i) == doc[places[i][1]][places[i][2]]
        headings(i) == {h \in 1 .. i : paragraph(h).heading}
    IN  [i \in DOMAIN places |->
            [tokens |-> [k \in 1 .. paragraph(i).size |-> <<places[i][1], places[i][2], k>>],
             section |-> IF headings(i) = {} THEN 0 ELSE Max(headings(i)),
             opens |-> paragraph(i).heading]]

\* Token k belongs to a character that the slice from i to j has a part of only: to one
\* that began before i, or to one that goes on behind j.
Torn(tokens, i, j, k) ==
    \/ \A h \in i .. k : tokens[h] \in Inside
    \/ j < Len(tokens) /\ \A h \in k + 1 .. j + 1 : tokens[h] \in Inside

\* _decode_tokens of a slice: a torn token counts as one U+FFFD.
Decode(tokens, i, j) ==
    [k \in 1 .. j - i + 1 |->
        IF Torn(tokens, i, j, i + k - 1) THEN Replacement ELSE tokens[i + k - 1]]

\* Mutant of HardSplit (ChunkSizeBounded): long paragraphs stay whole.
NoSplit(unit) == <<unit>>

\* _hard_split_paragraph: slices of at most ChunkSize tokens; only the first one
\* still begins with the heading mark.
HardSplit(unit) ==
    LET n == Len(unit.tokens)
        slices == (n + ChunkSize - 1) \div ChunkSize
    IN  IF n <= ChunkSize THEN <<unit>>
        ELSE [j \in 1 .. slices |->
                [unit EXCEPT !.tokens = Decode(@, (j - 1) * ChunkSize + 1, Min({j * ChunkSize, n})),
                             !.opens = @ /\ j = 1]]

Glued(whole, part) == IF whole = <<>> THEN part ELSE Append(whole, Joint) \o part
Joined(parts) == FoldLeft(Glued, <<>>, parts)

\* _format_chunk_content: the section of the first unit that has one is stamped
\* on the chunk, unless the chunk opens with a heading; then come the overlap and
\* the units.
FormatContent(units, overlap) ==
    LET sections == {i \in DOMAIN units : units[i].section # 0}
        stamp == IF sections = {} \/ units[1].opens THEN <<>>
                 ELSE <<Stamp(units[Min(sections)].section)>>
        prefix == IF overlap = <<>> THEN <<>> ELSE <<overlap>>
        body == Joined([i \in DOMAIN units |-> units[i].tokens])
    IN  Joined(stamp \o prefix \o <<body>>)

\* Mutant of OverlapSuffix (ChunksCoverDocument): the head of the chunk is repeated.
OverlapHead(content) == SubSeq(content, 1, Min({ChunkOverlap, Len(content)}))

OverlapSuffix(content) ==
    IF Len(content) <= ChunkOverlap THEN content
    ELSE Decode(content, Len(content) - ChunkOverlap + 1, Len(content))

\* The metadata names the section of the last unit that has one.
SectionOf(units) ==
    LET sections == {i \in DOMAIN units : units[i].section # 0}
    IN  IF sections = {} THEN 0 ELSE units[Max(sections)].section

\* emit_chunk: nothing happens, to the overlap either, while no unit is collected.
EmitChunk(packed) ==
    IF packed.units = <<>> THEN packed
    ELSE LET content == FormatContent(packed.units, packed.overlap)
         IN  [chunks |-> Append(packed.chunks,
                                [content |-> content, index |-> Len(packed.chunks),
                                 section |-> SectionOf(packed.units)]),
              units |-> <<>>, overlap |-> OverlapSuffix(content)]

Fits(units, overlap) == Len(FormatContent(units, overlap)) <= ChunkSize

\* A unit that does not fit closes the chunk; one that does not fit even beside the
\* overlap alone is taken nevertheless, with the overlap before it.
AddUnit(packed, unit) ==
    IF Fits(Append(packed.units, unit), packed.overlap)
    THEN [packed EXCEPT !.units = Append(@, unit)]
    ELSE LET closed == EmitChunk(packed)
         IN  IF Fits(<<unit>>, closed.overlap)
             THEN [closed EXCEPT !.units = <<unit>>]
             ELSE [EmitChunk(closed) EXCEPT !.units = <<unit>>]

SplitUnits(doc) == FlattenSeq([i \in DOMAIN ParagraphUnits(doc) |-> HardSplit(ParagraphUnits(doc)[i])])

NoChunks == [chunks |-> <<>>, units |-> <<>>, overlap |-> <<>>]

Packed(doc) == FoldLeft(AddUnit, NoChunks, SplitUnits(doc))

chunk_extraction_result(doc) == EmitChunk(Packed(doc)).chunks

-----------------------------------------------------------------------------
(* Where a token is from                                                   *)

TokensOfText(doc) ==
    UNION {UNION {{<<s, p, k>> : k \in 1 .. doc[s][p].size} : p \in DOMAIN doc[s]} : s \in DOMAIN doc}

\* The tokens of the characters that a cut of a long paragraph falls into: in neither
\* slice is such a character whole.
Severed(doc) ==
    {x \in TokensOfText(doc) :
        \E c \in 1 .. doc[x[1]][x[2]].size - 1 :
            /\ c % ChunkSize = 0
            /\ \/ x[3] <= c /\ \A h \in x[3] + 1 .. c + 1 : <<x[1], x[2], h>> \in Inside
               \/ x[3] > c /\ \A h \in c + 1 .. x[3] : <<x[1], x[2], h>> \in Inside}

\* x and y are tokens of the text, x before y.
Before(x, y) ==
    \/ x[1] < y[1]
    \/ x[1] = y[1] /\ x[2] < y[2]
    \/ x[1] = y[1] /\ x[2] = y[2] /\ x[3] < y[3]
=============================================================================
