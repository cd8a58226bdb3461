----------------------------- MODULE Completion -----------------------------
(***************************************************************************)
(* The answers that are matched against what was typed: completion         *)
(* (src/src/messages/textDocument_completion.cc) from clang's results to   *)
(* the edits of the reply, and workspace/symbol (workspace.cc).            *)
(*                                                                         *)
(* clang's results are inputs.  Columns are places in the line, which here *)
(* holds ASCII only.  "P" stands for a placeholder ${n:text} and "$1",     *)
(* "$0" for the ones without text; " : " and " -> " are one character.     *)
(* The kind, the documentation and the text of sortText, by which the      *)
(* client keeps the order of the list, are left out.                       *)
(***************************************************************************)
EXTENDS FuzzyMatch

CONSTANTS
  CharOrder,       (* every character, in the order of its code            *)
  MaxNum,          (* completion.maxNum                                    *)
  WorkspaceMaxNum  (* workspaceSymbol.maxNum                               *)

VARIABLES
  request,         (* the request that is served, and the settings: <<>>   *)
                   (* or <<record>>                                        *)
  reply            (* what was replied: <<>> or <<record>>                 *)

cvars == <<request, reply>>

Blank == {" "}
EmptyItem == [label |-> <<>>, filterText |-> <<>>, newText |-> <<>>, detail |-> <<>>, parameters |-> 0,
              snippet |-> FALSE, priority |-> 0, score |-> 0, edits |-> <<>>]

-----------------------------------------------------------------------------
(* buildItem: the chunks of clang's completion string extend the items from *)
(* `first'; an optional chunk adds a copy that has it.                      *)
RECURSIVE BuildItem(_, _, _, _)
BuildItem(r, chunks, out, cfg) ==
  LET first == Len(out)
      every(o, F(_)) == [i \in DOMAIN o |-> IF i < first THEN o[i] ELSE F(o[i])]
      start(c, o) ==
        CASE c.kind = "typed" -> every(o, LAMBDA x : [x EXCEPT !.filterText = c.text])
          [] c.kind = "placeholder" -> every(o, LAMBDA x : [x EXCEPT !.parameters = @ + 1])
          [] OTHER -> o
      grow(c, ignore, x) ==
        LET silent == ignore \/ (~cfg.snippetSupport /\ x.parameters > 0)
            y == [x EXCEPT !.label = @ \o c.text]
        IN  CASE silent \/ c.kind = "informative" -> y
              [] ~silent /\ c.kind = "placeholder" ->
                   IF r.pattern THEN y ELSE [y EXCEPT !.newText = Append(@, "P"), !.snippet = TRUE]
              [] OTHER -> [y EXCEPT !.newText = @ \o c.text]
      chunk(acc, c) ==
        CASE c.kind = "qualifier" -> acc
          [] c.kind = "result" -> [acc EXCEPT !.result = c.text]
          [] c.kind = "optional" ->
               IF ~cfg.duplicateOptional THEN acc
               ELSE [acc EXCEPT !.out = BuildItem(r, c.chunks, Append(@, Last(@)), cfg)]
          [] OTHER ->
               LET o == start(c, acc.out)
                   stop == c.kind = "placeholder" /\ r.pattern /\ cfg.snippetSupport
               IN  [acc EXCEPT !.out = every(o, LAMBDA x : grow(c, acc.ignore, x)), !.ignore = @ \/ stop]
      done == FoldLeft(chunk, [out |-> out, ignore |-> FALSE, result |-> <<>>], chunks)
  IN  IF done.result = <<>> THEN done.out
      ELSE every(done.out, LAMBDA x :
             [x EXCEPT !.label = @ \o <<IF @ = x.filterText THEN " : " ELSE " -> ">> \o done.result])

(* What the client cannot show is cut off; a snippet ends with $0.          *)
Trimmed(x, cfg) ==
  LET s == x.newText
      n == Len(s)
      marks == {i \in DOMAIN s : s[i] = "P"}
      low == CHOOSE i \in marks : \A j \in marks : i <= j
      high == CHOOSE i \in marks : \A j \in marks : j <= i
      text == CASE ~cfg.snippetSupport /\ n > 0 /\ s[n] \in {"(", "<"} -> Front(s)
                [] ~cfg.snippetSupport /\ n > 1 /\ SubSeq(s, n - 1, n) = <<"(", ")">> -> SubSeq(s, 1, n - 2)
                [] cfg.snippetSupport /\ x.snippet ->
                     (IF cfg.placeholder THEN s ELSE SubSeq(s, 1, low - 1) \o <<"$1">> \o SubSeq(s, high + 1, n))
                     \o <<"$0">>
                [] OTHER -> s
      y == [x EXCEPT !.newText = text]
  IN  IF cfg.detailedLabel THEN y ELSE [y EXCEPT !.detail = x.label, !.label = x.filterText]

(* Results that are not offered: inaccessible, destructors, deduction       *)
(* guides, injected class names, operators.                                 *)
Offered(r) == r.available /\ r.decl \notin {"destructor", "guide", "injected", "operator"}

(* ProcessCodeCompleteResults. *)
ProcessCodeCompleteResults(context, results, cfg) ==
  LET add(items, r) ==
        LET built == BuildItem(r, r.chunks, Append(items, EmptyItem), cfg)
        IN  IF ~Offered(r) THEN items
            ELSE [i \in DOMAIN built |->
                    IF i <= Len(items) THEN built[i]
                    ELSE [Trimmed(built[i], cfg) EXCEPT !.priority = r.priority, !.edits = r.fixIts]]
  IN  IF context = "recovery" THEN <<>> ELSE FoldLeft(add, <<>>, results)

-----------------------------------------------------------------------------
(* filterCandidates.                                                        *)

CharCode(c) == CHOOSE i \in DOMAIN CharOrder : CharOrder[i] = c
LexLess(s, t) ==
  \E k \in 0 .. Len(s) :
    /\ k <= Len(t) /\ \A i \in 1 .. k : s[i] = t[i]
    /\ k < Len(t)
    /\ k = Len(s) \/ CharCode(s[k + 1]) < CharCode(t[k + 1])

(* The order of std::sort; equal items are kept in their order. *)
Before(x, y) ==
  CASE Len(x.edits) # Len(y.edits) -> Len(x.edits) < Len(y.edits)
    [] Len(x.edits) = Len(y.edits) /\ x.score # y.score -> x.score > y.score
    [] Len(x.edits) = Len(y.edits) /\ x.score = y.score /\ x.priority # y.priority -> x.priority < y.priority
    [] OTHER -> \/ LexLess(x.newText, y.newText)
                \/ x.newText = y.newText /\ LexLess(x.label, y.label)
                \/ x.newText = y.newText /\ x.label = y.label /\ LexLess(x.filterText, y.filterText)

Ordered(items) ==
  LET before(i, j) == Before(items[i], items[j]) \/ (i < j /\ ~Before(items[j], items[i]))
      place(i) == Cardinality({j \in DOMAIN items : before(j, i)}) + 1
  IN  [k \in DOMAIN items |-> items[CHOOSE i \in DOMAIN items : place(i) = k]]

(* caseSensitivity becomes a bool before it is used. *)
Sensitive(setting) == IF setting = 0 THEN 0 ELSE 1

FilterOf(x) == IF x.filterText = <<>> THEN x.label ELSE x.filterText

Scored(items, text, setting) ==
  LET m == Matcher(text, Sensitive(setting))
  IN  [i \in DOMAIN items |->
         [items[i] EXCEPT !.score =
            IF ReverseSubseqMatch(text, FilterOf(items[i]), Sensitive(setting)) >= 0
            THEN Match(m, FilterOf(items[i]), TRUE) ELSE KMinScore]]

(* A parenthesis right after the cursor, but for blanks. *)
HasOpenParen(line, end) ==
  \E c \in end + 1 .. Len(line) : line[c] \in {"(", "<"} /\ \A d \in end + 1 .. c - 1 : line[d] \in Blank

(* An edit of the line is [from, to, text] in columns; `same' says whether  *)
(* it starts in the line of the cursor.  The length by which the reply has  *)
(* to begin earlier; -1 when an edit begins in another line.                *)
AtCursor(x, begin) == x.edits # <<>> /\ x.edits[1].to = begin

OverwriteLen(items, begin) ==
  LET at == {i \in DOMAIN items : AtCursor(items[i], begin)}
      lens == {0} \cup {begin - items[i].edits[1].from : i \in at}
  IN  IF \E i \in at : ~items[i].edits[1].same THEN -1
      ELSE CHOOSE n \in lens : \A k \in lens : k <= n

(* Mutant: the text between the earliest edit and this one's is dropped. *)
MergedShort(x, line, begin, over) ==
  LET at == begin - over
      orig == SubSeq(line, at + 1, begin)
      y == IF AtCursor(x, begin)
           THEN [x EXCEPT !.newText = x.edits[1].text \o @, !.edits = Tail(@)]
           ELSE [x EXCEPT !.newText = orig \o @]
  IN  IF over <= 0 THEN x ELSE [y EXCEPT !.filterText = orig \o @]

(* The first edit is taken into the text that replaces what was typed.      *)
Merged(x, line, begin, over) ==
  LET at == begin - over
      orig == SubSeq(line, at + 1, begin)
      mine == x.edits[1].to - x.edits[1].from
      y == IF AtCursor(x, begin) /\ x.edits[1].same
           THEN [x EXCEPT !.newText = SubSeq(line, at + 1, begin - mine) \o x.edits[1].text \o @,
                          !.edits = Tail(@)]
           ELSE [x EXCEPT !.newText = orig \o @]
  IN  IF over <= 0 THEN x ELSE [y EXCEPT !.filterText = orig \o @]

Finalize(items, line, begin, end) ==
  LET some == SubSeq(items, 1, IF Len(items) > MaxNum THEN MaxNum ELSE Len(items))
      over == OverwriteLen(some, begin)
      final(x) ==
        LET y == Merged(IF HasOpenParen(line, end) THEN [x EXCEPT !.newText = x.filterText] ELSE x,
                        line, begin, over)
        IN  IF y.filterText = y.label THEN [y EXCEPT !.filterText = <<>>] ELSE y
  IN  [items |-> [i \in DOMAIN some |-> final(some[i])],
       from |-> IF over > 0 THEN begin - over ELSE begin, to |-> end,
       isIncomplete |-> Len(items) > MaxNum]

Kept(items, text, cfg) ==
  CASE ~cfg.filterAndSort -> items
    [] cfg.filterAndSort /\ text = <<>> -> Ordered(items)
    [] OTHER -> Ordered(SelectSeq(Scored(items, text, cfg.caseSensitivity), LAMBDA x : x.score > KMinScore))

(* A character that triggers completion by itself does so only in a place   *)
(* for it: the second of :: and ->, and paths in a directive.               *)
Triggered(trigger, line, end) ==
  LET col == end - 1
      nonblank == {i \in DOMAIN line : line[i] \notin Blank}
      directive == nonblank # {} /\ line[CHOOSE i \in nonblank : \A j \in nonblank : i <= j] = "#"
  IN  CASE trigger \in {"quote", "/", "<"} -> directive
        [] trigger = ":" -> col >= 1 /\ col <= Len(line) /\ line[col] = ":"
        [] trigger = ">" -> col >= 1 /\ col <= Len(line) /\ line[col] = "-"
        [] OTHER -> TRUE

(* textDocument/completion, once clang has answered.  The text that was     *)
(* typed is the line from `begin' to `end'.                                 *)
Complete(q) ==
  LET text == SubSeq(q.line, q.begin + 1, q.end)
      items == ProcessCodeCompleteResults(q.context, q.results, q.cfg)
  IN  /\ request' = <<q>>
      /\ reply' = IF Triggered(q.trigger, q.line, q.end)
                  THEN <<Finalize(Kept(items, text, q.cfg), q.line, q.begin, q.end)>>
                  ELSE <<[items |-> <<>>, from |-> q.begin, to |-> q.end, isIncomplete |-> FALSE]>>

-----------------------------------------------------------------------------
(* workspace/symbol.  A symbol has a qualified and a short name, the files  *)
(* of its definitions and of its other declarations.                        *)

(* addSymbol: the last definition before, or the first one in, the folders; *)
(* a declaration only if no definition has a place.                         *)
InFolder(sym, folder) ==
  LET files == IF sym.defs # <<>> THEN sym.defs ELSE sym.decls
  IN  \E i \in DOMAIN files : files[i] \in folder

Candidates(syms, query, folder, setting) ==
  LET text == SelectSeq(query, LAMBDA c : c \notin Blank)
      pos(s) == ReverseSubseqMatch(text, s.detailed, Sensitive(setting))
      add(c, s) ==
        IF (c = <<>> \/ Len(c) < WorkspaceMaxNum) /\ ~s.local /\ pos(s) >= 0 /\ InFolder(s, folder)
        THEN Append(c, [sym |-> s, use |-> \E i \in pos(s) + 1 .. Len(s.detailed) : s.detailed[i] = ":",
                        score |-> 0])
        ELSE c
  IN  FoldLeft(add, <<>>, syms)

NameOf(c) == IF c.use THEN c.sym.detailed ELSE c.sym.short
WithScores(cands, m) ==
  [i \in DOMAIN cands |-> [cands[i] EXCEPT !.score = Match(m, NameOf(cands[i]), FALSE)]]

(* The order of equal scores is std::sort's: here, the order of discovery.  *)
ByScore(scored) ==
  LET place(i) == Cardinality({j \in DOMAIN scored : scored[j].score > scored[i].score
                                                     \/ (scored[j].score = scored[i].score /\ j <= i)})
  IN  [k \in DOMAIN scored |-> scored[CHOOSE i \in DOMAIN scored : place(i) = k]]
Ranked(cands, m) == SelectSeq(ByScore(WithScores(cands, m)), LAMBDA c : c.score > KMinScore)

WorkspaceSymbol(q) ==
  LET cands == Candidates(q.syms, q.query, q.folder, q.setting)
  IN  /\ request' = <<q>>
      /\ reply' = <<IF q.sort THEN Ranked(cands, Matcher(q.query, q.setting)) ELSE cands>>

-----------------------------------------------------------------------------
(* A line after edits that do not overlap, made from the right.             *)
AfterEdits(line, edits) ==
  LET right == {e \in edits : e.same}
      at(k) == CHOOSE e \in right : Cardinality({f \in right : f.from > e.from}) = k - 1
  IN  FoldLeft(LAMBDA s, k : SubSeq(s, 1, at(k).from) \o at(k).text \o SubSeq(s, at(k).to + 1, Len(s)),
               line, [k \in 1 .. Cardinality(right) |-> k])

Edit(from, to, text) == [from |-> from, to |-> to, text |-> text, same |-> TRUE]

TypedText(q) == SubSeq(q.line, q.begin + 1, q.end)
KeptFor(q) == Kept(ProcessCodeCompleteResults(q.context, q.results, q.cfg), TypedText(q), q.cfg)

EditsMean(q, r, kept) ==
  LET whole(x) == IF HasOpenParen(q.line, q.end) THEN x.filterText ELSE x.newText
      orig == SubSeq(q.line, r.from + 1, q.begin)
  IN  \A i \in DOMAIN r.items :
        LET x == r.items[i]
            y == kept[i]
        IN  /\ AfterEdits(q.line, ToSet(x.edits) \cup {Edit(r.from, r.to, x.newText)})
               = AfterEdits(q.line, ToSet(y.edits) \cup {Edit(q.begin, q.end, whole(y))})
            /\ y.filterText # <<>> => IsPrefix(orig, FilterOf(x))

(* An item that is chosen in the client changes the line as clang meant it: *)
(* the fix-it of the item is made, what was typed is replaced, and nothing  *)
(* else changes, although the edits of all items are widened to begin at    *)
(* one place; and what the client compares with the text it replaces begins *)
(* with it (finalize).                                                      *)
CompletionEdits ==
  request # <<>> /\ request[1].kind = "completion" /\ reply[1].items # <<>> =>
    EditsMean(request[1], reply[1], KeptFor(request[1]))

Fine(m, text, strict) ==
  /\ m.pat # <<>> /\ Len(text) <= KMaxText /\ Alignments(m, text) # {}
  /\ strict => (m.role[1] = "None") = (Roles(text)[1] = "None")

ItemsRanked(all, kept, m, text, r) ==
  /\ \A i \in DOMAIN kept :
       /\ IsSubsequence(text, FilterOf(kept[i]), m.sensitive)
       /\ ScoreIsBest(m, FilterOf(kept[i]))
  /\ Len(kept) >= Cardinality({i \in DOMAIN all : Fine(m, FilterOf(all[i]), TRUE)})
  /\ r.isIncomplete <=> Len(kept) > Len(r.items)
  /\ \A i, j \in DOMAIN kept :
       i < j /\ Len(kept[i].edits) = Len(kept[j].edits)
       /\ Fine(m, FilterOf(kept[j]), TRUE) => Fine(m, FilterOf(kept[i]), TRUE)

SymbolsRanked(q, m, r) ==
  \A i \in DOMAIN r :
    /\ InFolder(r[i].sym, q.folder) /\ ~r[i].sym.local
    /\ ScoreIsBest(m, NameOf(r[i]))
    /\ \A j \in i + 1 .. Len(r) : Fine(m, NameOf(r[j]), FALSE) => Fine(m, NameOf(r[i]), FALSE)

(* What is offered contains what was typed, letter by letter, and in the    *)
(* case that the smart reading of case sensitivity asks for; the score of   *)
(* an item is that of its best alignment; nothing that can be aligned is    *)
(* left out or comes after something that cannot, but for the limit, and    *)
(* then the list says so (filterCandidates, workspace_symbol, match).       *)
RepliesRanked ==
  request # <<>> =>
    LET q == request[1]
    IN  IF q.kind = "completion"
        THEN Triggered(q.trigger, q.line, q.end) /\ q.cfg.filterAndSort /\ TypedText(q) # <<>> =>
               ItemsRanked(ProcessCodeCompleteResults(q.context, q.results, q.cfg), KeptFor(q),
                           Matcher(TypedText(q), Sensitive(q.cfg.caseSensitivity)), TypedText(q), reply[1])
        ELSE q.sort => SymbolsRanked(q, Matcher(q.query, q.setting), reply[1])

=============================================================================
