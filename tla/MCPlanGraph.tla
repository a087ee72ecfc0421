---------------------------- MODULE MCPlanGraph -----------------------------
(* Four plans; each takes what some of those before it put out, or log. *)
EXTENDS Naturals

FourPlans == 1..4
InOrder == [p \in FourPlans |-> p]
Feed(p, q) == [from |-> p, to |-> q, label |-> "out"]
Log(p, q) == [from |-> p, to |-> q, label |-> "log"]
AllArrows == {a \in {Feed(p, q) : p, q \in 1..4} \cup {Log(1, 3)} : a.from < a.to}
AllPipelines == {h \in SUBSET AllArrows : \A q \in 2..4 : \E a \in h : a.to = q}
=============================================================================
