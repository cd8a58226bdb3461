----------------------------- MODULE FuzzyMatch -----------------------------
(***************************************************************************)
(* The matching of what the user typed against names                       *)
(* (src/src/fuzzy_match.cc, reverseSubseqMatch in utils.cc): a dynamic     *)
(* program, and what it computes by definition.                            *)
(*                                                                         *)
(* A string is a sequence of characters; of the letters there are two,     *)
(* small and capital.  Lengths and places count from 0 as in the code.     *)
(***************************************************************************)
EXTENDS Integers, FiniteSets, SequencesExt

CONSTANTS
  KMaxText,      (* kMaxText: longer texts are not matched                  *)
  KMinScore      (* kMinScore: far below every score                        *)

Lowers == {"a", "b"}
Uppers == {"A", "B"}
ToLower(c) == CASE c = "A" -> "a" [] c = "B" -> "b" [] OTHER -> c

GreaterOf(m, n) == IF m < n THEN n ELSE m

(* getCharClass and calculateRoles: a letter is a head where a word begins. *)
CharClass(c) == CASE c \in Lowers -> "Lower" [] c \in Uppers -> "Upper" [] OTHER -> "Other"

Roles(s) ==
  [i \in DOMAIN s |->
     LET pre == IF i = 1 THEN "Other" ELSE CharClass(s[i - 1])
         cur == CharClass(s[i])
         suc == IF i = Len(s) THEN cur ELSE CharClass(s[i + 1])
     IN  CASE cur = "Other" -> "None"
           [] cur # "Other" /\ (pre = "Other" \/ (cur = "Upper" /\ "Lower" \in {pre, suc})) -> "Head"
           [] OTHER -> "Tail"]

HasUpper(s) == \E i \in DOMAIN s : s[i] \in Uppers

(* FuzzyMatcher: the pattern without its blanks, each with its role.        *)
Matcher(pattern, sensitivity) ==
  LET role == Roles(pattern)
      kept == SelectSeq([i \in DOMAIN pattern |-> i], LAMBDA i : pattern[i] # " ")
  IN  [pat |-> [k \in DOMAIN kept |-> pattern[kept[k]]],
       role |-> [k \in DOMAIN kept |-> role[kept[k]]],
       upper |-> HasUpper(pattern),
       sensitive |-> sensitivity = 2 \/ (sensitivity = 1 /\ HasUpper(pattern))]

MissScore(role, last) == -3 - (IF last THEN 10 ELSE 0) - (IF role = "Head" THEN 10 ELSE 0)

(* matchScore, of the pattern's i-th character and the text's j-th, c.      *)
MatchScore(m, i, c, j, role, last) ==
  (IF m.pat[i] = c THEN (IF m.upper \/ i = j THEN 2 ELSE 1) ELSE 0)
  + (CASE m.role[i] = "Head" /\ role = "Head" -> 30 [] m.role[i] = "Head" /\ role = "Tail" -> -10 [] OTHER -> 0)
  - (IF role = "Tail" /\ i > 1 /\ ~last THEN 30 ELSE 0)
  - (IF role = "Tail" /\ i = 1 THEN 40 ELSE 0)

(* May the i-th character of the pattern stand for c?  The first one is not *)
(* matched inside a word, unless it is the same letter.                     *)
MayMatch(m, i, c, role) ==
  IF m.sensitive THEN m.pat[i] = c
  ELSE ToLower(m.pat[i]) = ToLower(c) /\ (i > 1 \/ role # "Tail" \/ m.pat[i] = c)

(* dp: row[j + 1] is the best score after j characters of the text, with    *)
(* the last one missed (0) and matched (1).                                 *)
Unreached == [miss |-> KMinScore, match |-> KMinScore]

FirstRow(text, role) ==
  FoldLeft(LAMBDA row, j : Append(row, [miss |-> row[j].miss + MissScore(role[j], FALSE),
                                        match |-> 2 * KMinScore]),
           <<[miss |-> 0, match |-> 0]>>, [j \in DOMAIN text |-> j])

(* Mutant: leaving a run of matches costs no more than any other miss. *)
NextRowFree(m, pre, i, text, role) ==
  FoldLeft(LAMBDA row, j :
             Append(row,
               IF j < i THEN Unreached
               ELSE [miss |-> GreaterOf(row[j].miss, row[j].match) + MissScore(role[j], FALSE),
                     match |-> IF MayMatch(m, i, text[j], role[j])
                               THEN GreaterOf(pre[j].miss + MatchScore(m, i, text[j], j, role[j], FALSE),
                                              pre[j].match + MatchScore(m, i, text[j], j, role[j], TRUE))
                               ELSE 2 * KMinScore]),
           <<Unreached>>, [j \in DOMAIN text |-> j])

NextRow(m, pre, i, text, role) ==
  FoldLeft(LAMBDA row, j :
             Append(row,
               IF j < i THEN Unreached
               ELSE [miss |-> GreaterOf(row[j].miss + MissScore(role[j], FALSE),
                                        row[j].match + MissScore(role[j], TRUE)),
                     match |-> IF MayMatch(m, i, text[j], role[j])
                               THEN GreaterOf(pre[j].miss + MatchScore(m, i, text[j], j, role[j], FALSE),
                                              pre[j].match + MatchScore(m, i, text[j], j, role[j], TRUE))
                               ELSE 2 * KMinScore]),
           <<Unreached>>, [j \in DOMAIN text |-> j])

(* match. *)
Match(m, text, strict) ==
  LET n == Len(text)
      role == Roles(text)
      last == FoldLeft(LAMBDA row, i : NextRow(m, row, i, text, role), FirstRow(text, role),
                       [i \in DOMAIN m.pat |-> i])
  IN  CASE (m.pat = <<>>) # (text = <<>>) -> KMinScore
        [] (m.pat = <<>>) = (text = <<>>) /\ n > KMaxText -> KMinScore + 1
        [] (m.pat = <<>>) = (text = <<>>) /\ n <= KMaxText /\ strict /\ n > 0
             /\ (m.role[1] = "None") # (role[1] = "None") -> KMinScore
        [] OTHER -> FoldLeft(LAMBDA best, j : GreaterOf(best, last[j + 1].match - 2 * (n - j)), KMinScore,
                             SelectSeq([j \in 1 .. n + 1 |-> j - 1], LAMBDA j : j >= Len(m.pat)))

(* reverseSubseqMatch: the last place where a subsequence can begin.        *)
ReverseSubseqMatch(pat, text, sensitivity) ==
  LET exact == sensitivity = 2 \/ (sensitivity = 1 /\ HasUpper(pat))
      same(c, d) == IF exact THEN c = d ELSE ToLower(c) = ToLower(d)
      scan == FoldRight(LAMBDA i, acc :
                          IF acc.j > 0 /\ same(text[i], pat[acc.j]) THEN [j |-> acc.j - 1, at |-> i - 1] ELSE acc,
                        [i \in DOMAIN text |-> i], [j |-> Len(pat), at |-> Len(text)])
  IN  IF scan.j = 0 THEN scan.at ELSE -1

-----------------------------------------------------------------------------
(* By definition: an alignment sends every character of the pattern to one  *)
(* of the text, in order.                                                   *)
Alignments(m, text) ==
  LET role == Roles(text)
  IN  {p \in [DOMAIN m.pat -> DOMAIN text] :
         /\ \A i \in DOMAIN p : i > 1 => p[i - 1] < p[i]
         /\ \A i \in DOMAIN p : MayMatch(m, i, text[p[i]], role[p[i]])}

AlignmentScore(m, text, p) ==
  LET role == Roles(text)
      end == IF p = <<>> THEN 0 ELSE Last(p)
      matched == {p[i] : i \in DOMAIN p}
  IN  FoldLeft(LAMBDA s, j :
                 s + (IF j \in matched
                      THEN MatchScore(m, CHOOSE i \in DOMAIN p : p[i] = j, text[j], j, role[j], j - 1 \in matched)
                      ELSE MissScore(role[j], j - 1 \in matched)),
               -2 * (Len(text) - end), [j \in 1 .. end |-> j])

IsSubsequence(pat, text, exact) ==
  \E p \in [DOMAIN pat -> DOMAIN text] :
    /\ \A i \in DOMAIN p : i > 1 => p[i - 1] < p[i]
    /\ \A i \in DOMAIN p : IF exact THEN text[p[i]] = pat[i] ELSE ToLower(text[p[i]]) = ToLower(pat[i])

(* The score of a text that can be aligned is that of its best alignment,   *)
(* and one that cannot never comes before one that can.                     *)
ScoreIsBest(m, text) ==
  LET all == {AlignmentScore(m, text, p) : p \in Alignments(m, text)}
      score == Match(m, text, FALSE)
  IN  IF (m.pat = <<>>) # (text = <<>>) THEN score = KMinScore
      ELSE IF Len(text) > KMaxText THEN score = KMinScore + 1
      ELSE IF all # {} THEN score \in all /\ \A s \in all : s <= score
      ELSE score <= KMinScore + 32 * Len(m.pat)
=============================================================================
