------------------------------ MODULE PageCodec ------------------------------
(***************************************************************************)
(* The run-length code of evicted pages: compress_page and decompress_page *)
(* of src/src/mm/swap.rs.  A behaviour fills a page byte by byte.          *)
(***************************************************************************)
EXTENDS Integers, Sequences, SequencesExt

CONSTANTS
  ByteValues,
  PageLen,    \* bytes of a page: 4096
  RunCap,     \* the longest run of a pair: 255
  CountRange  \* values of the byte that has the count: 256

VARIABLES page, old   \* a page, and what the frame it comes back to holds

codecVars == <<page, old>>

OldFrames == {[k \in 1..PageLen |-> v] : v \in ByteValues}

CodecInit == page = <<>> /\ old \in OldFrames

Fill(v) == Len(page) < PageLen /\ page' = Append(page, v) /\ UNCHANGED old

CodecStep == \E v \in ByteValues : Fill(v)

-----------------------------------------------------------------------------
\* The bytes from position i on that are the same, at most n of them.
SameFrom(src, i, n) ==
  Max({k \in 1..n : i + k - 1 <= Len(src) /\ \A j \in i..i + k - 1 : src[j] = src[i]})

\* Faulty variant: a run may be one longer than its count can say.
RunTooLong(src, i) == SameFrom(src, i, RunCap + 1)

Run(src, i) == SameFrom(src, i, RunCap)

\* compress_page: pairs of a byte and a count.
Compress(src) ==
  LET from[i \in 1..Len(src) + 1] ==
        IF i > Len(src) THEN <<>>
        ELSE <<<<src[i], Run(src, i) % CountRange>>>> \o from[i + Run(src, i)]
  IN from[1]

\* decompress_page: the part of the frame the pairs do not reach stays.
Decompress(pairs, dst) ==
  LET Expand(out, pair) == out \o [k \in 1..Min({pair[2], PageLen - Len(out)}) |-> pair[1]]
      out == FoldLeft(Expand, <<>>, pairs)
  IN out \o SubSeq(dst, Len(out) + 1, PageLen)

-----------------------------------------------------------------------------
\* A page comes back from swap as it went out, whatever the frame held before
\* and however long its runs are (compress_page, decompress_page).
PageComesBack == Len(page) = PageLen => Decompress(Compress(page), old) = page
=============================================================================
