----------------------------- MODULE MCQueries ------------------------------
(* The database as it is at first.                                           *)
EXTENDS Naturals

CONSTANTS Run, KnitId, UserTag  \* "u", "r" and "q", "a" and "b" are among them

NoRun == "-"

\* An upload u with data a, tagged so that it is nominated; a run r that takes a
\* and puts out b, in every status; a run q that takes b, when r is done.
FirstDBs ==
    {[run |-> [x \in Run |-> IF x = "u" THEN "done" ELSE IF x = "r" THEN s ELSE t],
      exit |-> {"u"} \cup (IF s \in {"done", "failed"} THEN {"r"} ELSE {}) \cup (IF t = "failed" THEN {"q"} ELSE {}),
      data |-> [x \in KnitId |-> IF x = "a" THEN "u" ELSE IF x = "b" THEN "r" ELSE NoRun],
      stamped |-> {"a"} \cup (IF s \in {"done", "failed"} THEN {"b"} ELSE {}),
      tags |-> [x \in KnitId |-> IF x = "a" THEN UserTag ELSE {}],
      assign |-> {<<"a", "r">>} \cup (IF t = "none" THEN {} ELSE {<<"b", "q">>}),
      used |-> {"a", "b"}] :
         s \in {"running", "done", "failed"}, t \in {"none", "running", "failed", "invalidated"}}

Sound == {d \in FirstDBs : d.run["r"] = "done" \/ d.run["q"] = "none"}
=============================================================================
