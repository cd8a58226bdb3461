--------------------------- MODULE MCSemaManager ---------------------------
(***************************************************************************)
(* SemaManager for TLC: a source that includes a header.                   *)
(***************************************************************************)
EXTENDS SemaManager

CONSTANTS source, header

MCPaths == {source, header}
MCIncludes == [p \in MCPaths |-> IF p = source THEN <<header>> ELSE <<>>]
MCRank == [p \in MCPaths |-> IF p = source THEN 1 ELSE 2]

(* Every change touches the preamble, which has one of two sizes. *)
MCBoundsOf == [t \in Texts |-> 1 + (t % 2)]

(* Both files are open and have their sessions, or there is room for one    *)
(* session only; three messages, or two while clang may fail once.          *)
BothOpen == [maxNum |-> 2, opened |-> <<header, source>>, messages |-> 3, failures |-> 0]
OneSession == [maxNum |-> 1, opened |-> <<source>>, messages |-> 3, failures |-> 0]
Failing(start) == [start EXCEPT !.messages = 2, !.failures = 1]

MCStarts == {BothOpen, OneSession, Failing(BothOpen), Failing(OneSession)}
MCStartBothOpen == {BothOpen}
=============================================================================
