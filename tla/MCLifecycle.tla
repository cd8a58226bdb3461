---------------------------- MODULE MCLifecycle ----------------------------
(***************************************************************************)
(* Lifecycle for TLC: a client that works with two indexers, one that      *)
(* leaves by the protocol, one that asks for completions, one that fails   *)
(* to start the server, one that breaks the protocol, and ccls --index.    *)
(* The input may end at any point of each.                                 *)
(***************************************************************************)
EXTENDS Lifecycle

Session(script, threads, entries) ==
  [script |-> script, threads |-> threads, entries |-> entries,
   polite |-> FALSE, standalone |-> FALSE]

MCSessions ==
  {Session(<<"initialize", "open", "exit">>, 2, 0),
   [Session(<<"initialize", "query", "shutdown", "exit">>, 1, 1) EXCEPT !.polite = TRUE],
   Session(<<"initialize", "complete", "complete", "exit">>, 1, 0),
   Session(<<"noroot", "response", "exit">>, 1, 0),
   Session(<<"initialize", "invalid">>, 1, 1),
   [Session(<<>>, 2, 2) EXCEPT !.standalone = TRUE]}
=============================================================================
