----------------------------- MODULE MCPlanSpec -----------------------------
(* Requests for plans, in all the words that matter to PlanSpec.            *)
EXTENDS Naturals, Sequences

\* 3 is "a", 4 is "b".
a == <<2, 3>>
aSlash == <<2, 3, 2>>
aDash == <<2, 3, 1>>
ab == <<2, 3, 4>>
aInB == <<2, 4, 2, 3>>
b == <<2, 4>>
root == <<2>>
relative == <<3>>

User == {<<"k", "v">>}
Plain(path) == [path |-> path, tags |-> User]
Lists(S, n) == UNION {[1..k -> S] : k \in 0..n}

\* Every path in every place, and every sort of tags.
Paths == {a, aSlash, aDash, aInB, b, root, relative, <<>>, <<2, 2>>, <<2, 3, 2, 2>>}
TagSets ==
    {{}, User, User \cup {<<"knit#id", "1">>}, {<<"knit#id", "1">>, <<"knit#id", "2">>}, {<<"knit#transient", "failed">>},
     {<<"knit#id", "1">>, <<"knit#timestamp", "1">>}, {<<"knit#other", "x">>}}
Posted(image, inputs, outputs, log, args, onNode) ==
    [image |-> image, inputs |-> inputs, outputs |-> outputs, log |-> log, args |-> args, onNode |-> onNode]
PathParams ==
    {Posted("image", i, o, {}, <<>>, <<>>) : i \in Lists({Plain(p) : p \in Paths}, 2), o \in Lists({Plain(p) : p \in {a, aSlash, aInB}}, 1)}
        \cup {Posted("image", <<[path |-> a, tags |-> User], [path |-> p, tags |-> t]>>, <<>>, {}, <<>>, <<>>) : p \in {a, aSlash, b}, t \in TagSets}
        \cup {Posted(n, <<[path |-> a, tags |-> t]>>, <<[path |-> b, tags |-> u]>>, l, <<>>, <<>>) :
                n \in {"", "image"}, t \in TagSets, u \in TagSets \ {User}, l \in {{}} \cup {{v} : v \in TagSets}}

\* The same plan in many words.
WordParams ==
    {Posted("image", i, o, {}, args, n) :
        i \in {s \in Lists({Plain(p) : p \in {a, aSlash, aDash, b}}, 2) : s # <<>>}, o \in Lists({Plain(ab)}, 1),
        args \in {<<<<3>>, <<3, 3>>>>, <<<<3, 3, 3>>>>}, n \in {<<1, 2>>, <<2, 1>>, <<2, 2>>}}
=============================================================================
