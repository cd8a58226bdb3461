---------------------------- MODULE WorkingFiles ----------------------------
(***************************************************************************)
(* The open buffers (src/src/working_files.cc): their text, the text that  *)
(* was indexed, and the mapping of lines and columns between the two.      *)
(*                                                                         *)
(* A text is a sequence of bytes; "n" is the newline, "." stands for any   *)
(* character that is in no identifier, "L" and "C" for the first and the   *)
(* following bytes of a character outside ASCII.  Lines and columns count  *)
(* from 0, sequences from 1.  A carriage return, lines too long to align   *)
(* (kMaxColumnAlignSize) and the version and time of a buffer, which none  *)
(* of this depends on, are not modelled.                                   *)
(***************************************************************************)
EXTENDS Integers, FiniteSets, SequencesExt

CONSTANTS
  KMaxDiff     (* kMaxDiff: the greatest edit distance that is computed     *)

VARIABLES
  wfiles       (* files: the WorkingFile of every open file                 *)

Bytes == {"a", "b", ".", "L", "C", "n"}
IdentifierBytes == {"a", "b"}
NoLine == -1

(* The elements of a set in a strict order. *)
Sorted(set, Less(_, _)) ==
  [k \in 1 .. Cardinality(set) |->
     CHOOSE x \in set : Cardinality({y \in set : Less(y, x)}) = k - 1]

(* The first or the last of a set of places. *)
FirstOf(places) == CHOOSE i \in places : \A j \in places : i <= j
LastOf(places) == CHOOSE i \in places : \A j \in places : j <= i

(* Where a function has its least value. *)
LeastAt(cost) == {i \in DOMAIN cost : \A j \in DOMAIN cost : cost[i] <= cost[j]}

(* toLines: what follows the last newline is a line only if not empty. *)
ToLines(content) ==
  LET ends == {i \in DOMAIN content : content[i] = "n"}
      cuts == Sorted(ends \cup {0}, <)
      line(k) == SubSeq(content, cuts[k] + 1,
                        IF k < Len(cuts) THEN cuts[k + 1] - 1 ELSE Len(content))
      all == [k \in DOMAIN cuts |-> line(k)]
  IN  IF Last(all) = <<>> THEN Front(all) ELSE all

-----------------------------------------------------------------------------
(* Offsets and positions.                                                   *)

(* getOffsetForPosition.  The number of bytes before the character of the   *)
(* line; the end of the line, or of the text, if there is none.             *)
LineStart(content, line) ==
  LET ends == {i \in DOMAIN content :
                 content[i] = "n" /\ Cardinality({j \in 1 .. i : content[j] = "n"}) = line}
  IN  IF line <= 0 THEN 0
      ELSE IF ends = {} THEN Len(content) ELSE CHOOSE i \in ends : TRUE

(* A character starts at every byte that does not continue one. *)
StartsIn(content, from, to) == Cardinality({i \in from + 1 .. to : content[i] # "C"})

OffsetForPosition(content, line, character) ==
  LET start == LineStart(content, line)
      onLine == {i \in start .. Len(content) :
                   \A j \in start + 1 .. i : content[j] # "n"}
  IN  LastOf({i \in onLine : StartsIn(content, start, i) <= character})

(* getPositionForOffset: the columns are bytes. *)
PositionForOffset(content, offset) ==
  LET o == IF offset >= Len(content) THEN Len(content) - 1 ELSE offset
      newlines == {i \in 1 .. o : content[i] = "n"}
      last == IF newlines = {} THEN 0 ELSE LastOf(newlines)
  IN  IF o < 0 THEN <<0, 0>> ELSE <<Cardinality(newlines), o - last>>

(* The identifier bytes right before an offset. *)
IdentifierStart(content, offset) ==
  CHOOSE i \in 0 .. offset :
    /\ \A j \in i + 1 .. offset : content[j] \in IdentifierBytes
    /\ i = 0 \/ content[i] \notin IdentifierBytes

(* getCompletionPosition: the position, and the filter. *)
CompletionPosition(content, line, character) ==
  LET start == OffsetForPosition(content, line, character)
      i == IdentifierStart(content, start)
  IN  <<PositionForOffset(content, i), SubSeq(content, i + 1, start)>>

(* lexIdentifierAroundPos, without qualifiers: the identifier bytes around  *)
(* the position, and at least the byte at it.                               *)
IdentifierAround(content, at) ==
  LET ends == {j \in at + 1 .. Len(content) :
                 \A k \in at + 2 .. j : content[k] \in IdentifierBytes}
  IN  SubSeq(content, IdentifierStart(content, at) + 1, IF ends = {} THEN at ELSE LastOf(ends))
LexIdentifierAroundPos(content, line, character) ==
  IdentifierAround(content, OffsetForPosition(content, line, character))

-----------------------------------------------------------------------------
(* Edit distances.                                                          *)

(* The lengths of the common prefix and suffix. *)
CommonPrefix(a, b) ==
  CHOOSE k \in 0 .. Len(a) :
    /\ k <= Len(b) /\ \A i \in 1 .. k : a[i] = b[i]
    /\ k = Len(a) \/ k = Len(b) \/ a[k + 1] # b[k + 1]
CommonSuffix(a, b) == CommonPrefix(Reverse(a), Reverse(b))

(* myersDiff, the O(ND) algorithm.  v maps diagonals to the furthest x;     *)
(* what an earlier call left in v_static is never read.                     *)
After(s, n) == SubSeq(s, n + 1, Len(s))
WithoutSuffix(a, b) ==
  LET q == CommonSuffix(a, b)
  IN  <<SubSeq(a, 1, Len(a) - q), SubSeq(b, 1, Len(b) - q)>>
Strip(a, b) ==
  LET p == CommonPrefix(a, b)
  IN  WithoutSuffix(After(a, p), After(b, p))

Snake(a, b, x, y) ==
  x + CommonPrefix(After(a, x), After(b, y))

Bigger(m, n) == IF m < n THEN n ELSE m

RECURSIVE MyersRounds(_, _, _, _)
MyersRounds(a, b, v, di) ==
  LET la == Len(a)
      lb == Len(b)
      low == 2 * Bigger(0, di - lb) - di
      high == di - 2 * Bigger(0, di - la)
      diagonals == {i \in low .. high : (i - low) % 2 = 0}
      from(i) == IF i = -di \/ (i # di /\ v[i - 1] < v[i + 1]) THEN v[i + 1] ELSE v[i - 1] + 1
      next == [i \in diagonals |-> Snake(a, b, from(i), from(i) - i)] @@ v
  IN  CASE di > KMaxDiff -> KMaxDiff + 1
        [] di <= KMaxDiff /\ \E i \in diagonals : next[i] = la /\ next[i] - i = lb -> di
        [] OTHER -> MyersRounds(a, b, next, di + 1)

MyersOf(ab, n) == MyersRounds(ab[1], ab[2], [i \in -n .. n |-> 0], 0)
MyersDiff(s, t) == MyersOf(Strip(s, t), Len(s) + Len(t) + 2)

(* editDistanceVector: d[i + 1], the cost of aligning a to the first i of b. *)
RECURSIVE RowAfter(_, _, _, _)
RowAfter(x, b, d, next) ==
  LET j == Len(next)
  IN  IF j > Len(b) THEN next
      ELSE RowAfter(x, b, d, Append(next, IF x = b[j] THEN d[j]
                                          ELSE 1 + (IF next[j] < d[j + 1] THEN next[j] ELSE d[j + 1])))

RECURSIVE LastRow(_, _, _)
LastRow(a, b, d) ==
  IF a = <<>> THEN d ELSE LastRow(Tail(a), b, RowAfter(Head(a), b, d, <<d[1] + 1>>))

EditDistanceVector(a, b) == LastRow(a, b, [j \in 1 .. Len(b) + 1 |-> j - 1])

(* alignColumn: the column of b that best continues a[0, column). *)
BestSplit(left, right, isEnd) ==
  LET best == LeastAt([i \in DOMAIN left |-> left[i] + right[i]])
  IN  (IF isEnd THEN FirstOf(best) ELSE LastOf(best)) - 1
SplitOf(al, ar, b, isEnd) ==
  BestSplit(EditDistanceVector(al, b),
            Reverse(EditDistanceVector(Reverse(ar), Reverse(b))), isEnd)
AlignBetween(head, tail, a, column, b, isEnd) ==
  CASE column < head -> column
    [] column >= head /\ Len(a) - tail < column -> column + Len(b) - Len(a)
    [] OTHER -> head + SplitOf(SubSeq(a, head + 1, column), SubSeq(a, column + 1, Len(a) - tail),
                               SubSeq(b, head + 1, IF Len(b) - tail < head THEN Len(b) ELSE Len(b) - tail),
                               isEnd)
AlignColumn(a, column, b, isEnd) ==
  AlignBetween(CommonPrefix(a, b), CommonSuffix(a, b), a, column, b, isEnd)

-----------------------------------------------------------------------------
(* The line mapping.  computeLineMapping starts at the lines that are       *)
(* unique in both texts and extends the mapping over equal neighbours.      *)

Unique(lines, i) == \A j \in DOMAIN lines : lines[j] = lines[i] => j = i

UniquePairs(from, to) ==
  [i \in DOMAIN from |->
     LET same == {j \in DOMAIN to : to[j] = from[i]}
     IN  IF Unique(from, i) /\ Cardinality(same) = 1 THEN CHOOSE j \in same : TRUE ELSE 0]

(* Mutant: the neighbour's text is not compared. *)
ExtendDownAlways(from, to, map) ==
  LET down[i \in DOMAIN from] ==
        LET j == IF i = 1 THEN 0 ELSE down[i - 1]
        IN  IF j # 0 /\ j < Len(to) THEN j + 1 ELSE map[i]
  IN  down

ExtendDown(from, to, map) ==
  LET down[i \in DOMAIN from] ==
        LET j == IF i = 1 THEN 0 ELSE down[i - 1]
        IN  IF j # 0 /\ j < Len(to) /\ from[i] = to[j + 1] THEN j + 1 ELSE map[i]
  IN  down

ExtendUp(from, to, map) ==
  LET up[i \in DOMAIN from] ==
        LET j == IF i = Len(from) THEN 0 ELSE up[i + 1]
        IN  IF j > 1 /\ from[i] = to[j - 1] THEN j - 1 ELSE map[i]
  IN  up

(* The inverse; the last of several index lines for one buffer line wins.   *)
InverseMap(map, n) ==
  [j \in 1 .. n |->
     LET from == {i \in DOMAIN map : map[i] = j}
     IN  IF from = {} THEN 0 ELSE LastOf(from)]

(* Lines are counted from 1 in the maps and 0 is the code's -1. *)
LineMap(from, to) == ExtendUp(from, to, ExtendDown(from, to, UniquePairs(from, to)))
MappedBy(wf, map) ==
  [wf EXCEPT !.index_to_buffer = map, !.buffer_to_index = InverseMap(map, Len(wf.buffer_lines))]
ComputeLineMapping(wf) == MappedBy(wf, LineMap(wf.index_lines, wf.buffer_lines))

(* The first of the lines with the least distance, unless they are all too  *)
(* far.                                                                     *)
MostSimilar(dist, otherwise) ==
  IF \A j \in DOMAIN dist : dist[j] > KMaxDiff THEN otherwise ELSE FirstOf(LeastAt(dist))

(* Line j of the other text, and the column in it. *)
AlignedAt(j, line, column, to, isEnd) ==
  IF j = 0 THEN <<>> ELSE <<j - 1, AlignColumn(line, column, to[j], isEnd)>>

(* findMatchingLine: line and column in the other text, or nothing.  Of a   *)
(* line that is not mapped, the most similar between its mapped neighbours. *)
FindMatchingLine(from, map, line, column, to, isEnd) ==
  LET i == line + 1
      above == {j \in 1 .. i - 1 : map[j] # 0}
      below == {j \in i + 1 .. Len(map) : map[j] # 0}
      up == IF above = {} THEN 1 ELSE map[LastOf(above)]
      down == IF below = {} THEN Len(to) ELSE map[FirstOf(below)]
  IN  AlignedAt(CASE map[i] # 0 -> map[i]
                  [] map[i] = 0 /\ up > down -> 0
                  [] OTHER -> MostSimilar([j \in up .. down |-> MyersDiff(from[i], to[j])], up),
                from[i], column, to, isEnd)

(* The maps are made when they are first needed. *)
WithMaps(wf) == IF wf.index_to_buffer = <<>> THEN ComputeLineMapping(wf) ELSE wf

(* The position after the last line is taken to the line whose number is    *)
(* the size of the buffer in bytes.                                         *)
GetBufferPosFromIndexPos(wf, line, column, isEnd) ==
  CASE line = Len(wf.index_lines) /\ column = 0 -> <<Len(wf.buffer_content), 0>>
    [] line >= 0 /\ line < Len(wf.index_lines) ->
         FindMatchingLine(wf.index_lines, WithMaps(wf).index_to_buffer, line, column, wf.buffer_lines, isEnd)
    [] OTHER -> <<>>

GetIndexPosFromBufferPos(wf, line, column, isEnd) ==
  IF line < 0 \/ line >= Len(wf.buffer_lines) THEN <<>>
  ELSE FindMatchingLine(wf.buffer_lines, WithMaps(wf).buffer_to_index, line, column, wf.index_lines, isEnd)

-----------------------------------------------------------------------------
(* WorkingFile and WorkingFiles.                                            *)

(* onBufferContentUpdated, setIndexContent: the maps are void. *)
BufferUpdated(wf, content) ==
  [wf EXCEPT !.buffer_content = content, !.buffer_lines = ToLines(content),
             !.index_to_buffer = <<>>, !.buffer_to_index = <<>>]

SetIndexContent(wf, content) ==
  [wf EXCEPT !.index_lines = ToLines(content), !.index_to_buffer = <<>>, !.buffer_to_index = <<>>]

NewWorkingFile(content) ==
  [buffer_content |-> content, buffer_lines |-> ToLines(content), index_lines |-> <<>>,
   index_to_buffer |-> <<>>, buffer_to_index |-> <<>>]

(* onChange: one content change, of a range of the buffer as it is.         *)
Replaced(content, from, to, text) ==
  LET start == OffsetForPosition(content, from[1], from[2])
      end == OffsetForPosition(content, to[1], to[2])
  IN  SubSeq(content, 1, start) \o text \o SubSeq(content, end + 1, Len(content))

(* A change without a range replaces everything. *)
Changed(wf, change) ==
  BufferUpdated(wf, IF change.whole THEN change.text
                    ELSE Replaced(wf.buffer_content, change.from, change.to, change.text))

Set(f, wf) == wfiles' = (f :> wf) @@ wfiles

(* textDocument/didOpen: onOpen, and the text that was indexed, if it is in *)
(* the cache.  A file that is open already keeps what it was indexed from.  *)
OnOpen(f, text, cached) ==
  LET wf == IF f \in DOMAIN wfiles THEN BufferUpdated(wfiles[f], text) ELSE NewWorkingFile(text)
  IN  Set(f, IF cached.known THEN SetIndexContent(wf, cached.text) ELSE wf)

OnChange(f, changes) ==
  /\ f \in DOMAIN wfiles
  /\ Set(f, FoldLeft(Changed, wfiles[f], changes))

OnClose(f) ==
  /\ f \in DOMAIN wfiles
  /\ wfiles' = [g \in DOMAIN wfiles \ {f} |-> wfiles[g]]

(* An update of the file is applied; with index.onChange the buffer is      *)
(* taken for what was indexed.                                              *)
OnIndexed(f, text, onChange) ==
  /\ f \in DOMAIN wfiles
  /\ Set(f, SetIndexContent(wfiles[f], IF onChange THEN wfiles[f].buffer_content ELSE text))

(* A request asks for a position, which makes the maps. *)
Lookup(f) ==
  /\ f \in DOMAIN wfiles
  /\ wfiles[f].index_lines # <<>>
  /\ Set(f, WithMaps(wfiles[f]))

-----------------------------------------------------------------------------
(* The edit distance with insertions and deletions only, by its definition: *)
(* what is left of both texts beside a longest common subsequence.          *)
IsCommon(sub, a) == \E pick \in SUBSET DOMAIN a : sub = [k \in 1 .. Cardinality(pick) |-> a[Sorted(pick, <)[k]]]
Common(a, b) ==
  {k \in 0 .. Len(a) : \E pick \in SUBSET DOMAIN a :
     Cardinality(pick) = k /\ IsCommon([i \in 1 .. k |-> a[Sorted(pick, <)[i]]], b)}
Distance(a, b) ==
  Len(a) + Len(b) - 2 * (CHOOSE k \in Common(a, b) : \A j \in Common(a, b) : j <= k)

(* myersDiff returns the edit distance up to its threshold, and             *)
(* editDistanceVector ends with it.                                         *)
DistancesExact(wf) ==
  \A i \in DOMAIN wf.index_lines, j \in DOMAIN wf.buffer_lines :
    LET a == wf.index_lines[i]
        b == wf.buffer_lines[j]
        d == Distance(a, b)
    IN  /\ MyersDiff(a, b) = IF d <= KMaxDiff THEN d ELSE KMaxDiff + 1
        /\ Last(EditDistanceVector(a, b)) = d

(* The lines a position is looked up among are real ones, and the column    *)
(* found is in the line.                                                    *)
InLines(found, lines) ==
  found # <<>> => /\ found[1] \in 0 .. Len(lines) - 1
                  /\ found[2] \in 0 .. Len(lines[found[1] + 1])

(* Whatever edits, reindexing and lookups came before: the maps of an open  *)
(* file are the ones of its present lines, or void; a mapped line has the   *)
(* same text on the other side, and every buffer line that is mapped back   *)
(* is mapped there; a lookup, of any line and column, lands on a line and   *)
(* in it, and a file that was not edited maps the lines that occur once to  *)
(* themselves; the distances that choose between lines are edit distances   *)
(* (computeLineMapping, findMatchingLine, alignColumn, myersDiff).          *)
LinesConsistent ==
  \A f \in DOMAIN wfiles :
    LET wf == wfiles[f]
        from == wf.index_lines
        to == wf.buffer_lines
        itb == wf.index_to_buffer
        bti == wf.buffer_to_index
        ends == {FALSE, TRUE}
    IN  /\ to = ToLines(wf.buffer_content)
        /\ DistancesExact(wf)
        /\ itb # <<>> => wf = ComputeLineMapping(wf) /\ Len(itb) = Len(from) /\ Len(bti) = Len(to)
        /\ \A i \in DOMAIN itb : itb[i] # 0 => from[i] = to[itb[i]] /\ bti[itb[i]] # 0
        /\ \A j \in DOMAIN bti : bti[j] # 0 => itb[bti[j]] = j
        /\ from # <<>> /\ to # <<>> =>
             /\ \A i \in DOMAIN from, e \in ends : \A c \in 0 .. Len(from[i]) :
                  LET found == GetBufferPosFromIndexPos(wf, i - 1, c, e)
                  IN  /\ InLines(found, to)
                      /\ from = to /\ Unique(from, i) => found = <<i - 1, c>>
             /\ \A j \in DOMAIN to, e \in ends : \A c \in 0 .. Len(to[j]) :
                  InLines(GetIndexPosFromBufferPos(wf, j - 1, c, e), from)
=============================================================================
