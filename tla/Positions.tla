----------------------------- MODULE Positions -----------------------------
(***************************************************************************)
(* Positions and ranges (src/src/position.hh, src/src/clang_tu.cc).        *)
(*                                                                         *)
(* A position is a number, line * Columns + column, so that the order of   *)
(* Pos is the order of the numbers; a range is half open.  A Pos has a     *)
(* line of 16 bits: MaxLine is the greatest one.                           *)
(***************************************************************************)
EXTENDS Integers

CONSTANTS
  Columns,     (* columns of a line                                         *)
  MaxLine      (* UINT16_MAX                                                *)

ASSUME PositionsAssumption == Columns \in Nat \ {0} /\ MaxLine \in Nat

Least(a, b) == IF a <= b THEN a ELSE b
Greatest(a, b) == IF a <= b THEN b ELSE a

Line(pos) == pos \div Columns
Column(pos) == pos % Columns
At(line, column) == line * Columns + column

NoRange == [start |-> -1, end |-> -1]
Valid(r) == r.start >= 0

(* Range::contains: a line that a Pos cannot hold is in no range. *)
RangeContains(r, pos) == Line(pos) <= MaxLine /\ r.start <= pos /\ pos < r.end

(* lsRange::includes. *)
Includes(r, s) == r.start <= s.start /\ s.end <= r.end

(* decomposed2LineAndCol: what lies beyond the last line a Pos can hold is  *)
(* recorded on that line.                                                   *)
ToPos(pos) == At(Least(Line(pos), MaxLine), Column(pos))

(* fromCharSourceRange, fromTokenRange. *)
ToRange(r) == [start |-> ToPos(r.start), end |-> ToPos(r.end)]

(* fromTokenRangeDefaulted: an end of the source range sr that is in        *)
(* another file is replaced by that of the token.                           *)
ToRangeDefaulted(sr, file, r) ==
  [start |-> IF sr.startFile = file THEN ToPos(sr.range.start) ELSE r.start,
   end   |-> IF sr.endFile = file THEN ToPos(sr.range.end) ELSE r.end]

(* Make the range of an implicit call one column wider on either side       *)
(* (DB::applyIndexUpdate, updateUses).                                      *)
Widened(r) ==
  [start |-> IF Column(r.start) > 0 THEN r.start - 1 ELSE r.start, end |-> r.end + 1]
=============================================================================
