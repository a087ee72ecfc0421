----------------------------- MODULE MCLineage ------------------------------
(* Four runs in a row: an upload, and three that take any of what is there. *)
EXTENDS Naturals

Pieces == {"a", "b", "log", "c", "e"}
Runs == {"upload", "r1", "r2", "r3"}

Came == [n \in Pieces \cup Runs |->
            CASE n = "upload" -> 0 [] n = "a" -> 1 [] n = "r1" -> 2 [] n \in {"b", "log"} -> 3
              [] n = "r2" -> 4 [] n = "c" -> 5 [] n = "r3" -> 6 [] n = "e" -> 7]

A(f, t) == [from |-> f, to |-> t, label |-> "-"]
Out == {A("upload", "a"), A("r1", "b"), A("r1", "log"), A("r2", "c"), A("r3", "e")}
History == {Out \cup {A("a", "r1")} \cup {A(d, "r2") : d \in s} \cup {A(d, "r3") : d \in t} :
                  s \in (SUBSET {"a", "b"}) \ {{}}, t \in (SUBSET {"a", "b", "log", "c"}) \ {{}}}
Small == {h \in History : A("a", "r3") \in h /\ A("b", "r2") \in h /\ A("log", "r3") \notin h}
=============================================================================
