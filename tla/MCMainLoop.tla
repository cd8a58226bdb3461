----------------------------- MODULE MCMainLoop -----------------------------
(***************************************************************************)
(* MainLoop for TLC: requests on two files, of which the index of one      *)
(* mentions the other.                                                     *)
(***************************************************************************)
EXTENDS MainLoop

CONSTANTS cc, hdr

Message(id, kind, path) == [id |-> id, kind |-> kind, path |-> path]

MCPaths == {cc, hdr}
MCMentions == [f \in MCPaths |-> IF f = cc THEN {hdr} ELSE {}]

(* cc is being indexed when the loop starts; hdr is opened, asked about     *)
(* twice and closed; cc is asked about without being open.                  *)
MCProject == <<cc>>

MCScript ==
  <<Message(1, "open", hdr), Message(2, "query", hdr), Message(3, "query", hdr),
    Message(4, "query", cc), Message(5, "close", hdr), Message(6, "exit", hdr)>>
=============================================================================
