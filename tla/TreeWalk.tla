------------------------------ MODULE TreeWalk ------------------------------
(***************************************************************************)
(* Which files an archive has: the walk of a directory with symbolic       *)
(* links, which are followed or not.  A link that leads back to where one  *)
(* is makes the walk fail; a directory that is met twice does not.         *)
(***************************************************************************)
EXTENDS Integers, Sequences, SequencesExt, Reach

CONSTANTS
    MaxNode     \* nodes of a tree are 0..MaxNode, the root first

VARIABLES
    tree,   \* kind, parent and, for links, target of each node
    follow, \* links are followed (FollowSymlinks)
    frames, \* the calls of findFilesInDirectory, the innermost last
    files,  \* what was handed to the archive: the names on the way to it
    walked    \* "on", "done" or "failed"

treeVars == <<tree, follow, frames, files, walked>>

TreeWalkAssumption == MaxNode \in Nat

Node == 0..MaxNode
Nowhere == -1
Kind == {"dir", "file", "link"}

\* The root is a directory; parents come before their entries.
KindsOfNodes == {k \in [Node -> Kind] : k[0] = "dir"}
Parents(k) == {p \in [Node \ {0} -> Node] : \A n \in Node \ {0} : p[n] < n /\ k[p[n]] = "dir"}
Entries(d) == {n \in Node : n # 0 /\ tree.parent[n] = d}

\* A directory is read when it is entered.  via: the ends of the links on the way.
Frame(d, path, via) == [dir |-> d, todo |-> Entries(d), path |-> path, via |-> via]

\* findFiles: the root may have been named by a link.
TreeWalkInit ==
    /\ \E k \in KindsOfNodes : \E p \in Parents(k), to \in [{n \in Node : k[n] = "link"} -> Node \cup {Nowhere}] :
           tree = [kind |-> k, parent |-> p, to |-> to]
    /\ follow \in BOOLEAN /\ files = <<>> /\ walked = "on"
    /\ \E via \in {{}, {0}} : (follow \/ via = {}) /\ frames = <<Frame(0, <<>>, via)>>

-----------------------------------------------------------------------------

IsLink(n) == tree.kind[n] = "link"
Followed(n) == follow /\ IsLink(n)

\* Where a link leads to, over other links: nowhere, if they go in a circle.
Links == [n \in Node |-> IF IsLink(n) THEN {tree.to[n]} \ {Nowhere} ELSE {}]
Ends(n) == {m \in Reached(Links, n) : ~IsLink(m)}
EvalSymlinks(n) == IF Ends(n) = {} THEN Nowhere ELSE CHOOSE m \in Ends(n) : TRUE

\* What is there, under the name of an entry.
Stat(n) == IF Followed(n) THEN EvalSymlinks(n) ELSE n

Top == Last(frames)
Entry == CHOOSE n \in Top.todo : \A m \in Top.todo : n <= m
AtEntry == walked = "on" /\ Top.todo # {}
Here == Append(Top.path, Entry)
Rest == Append(Front(frames), [Top EXCEPT !.todo = @ \ {Entry}])

\* Mutant: a link that is not followed in circles is skipped.
Fails_Skips == frames' = Rest /\ UNCHANGED walked
Fails == walked' = "failed" /\ UNCHANGED frames

\* A link to where one is, or to nowhere.
Loops == Followed(Entry) /\ Stat(Entry) \in Top.via \cup {Nowhere}
FailOnLink == AtEntry /\ Loops /\ Fails /\ UNCHANGED <<tree, follow, files>>

Callee == Frame(Stat(Entry), Here, Top.via \cup (IF Followed(Entry) THEN {Stat(Entry)} ELSE {}))
EnterDirectory ==
    /\ AtEntry /\ ~Loops /\ tree.kind[Stat(Entry)] = "dir"
    /\ frames' = Append(Rest, Callee)
    /\ UNCHANGED <<tree, follow, files, walked>>

\* A file is handed to the archive.  Mutant: but once.
Archive_Once(path) == IF \E f \in ToSet(files) : Last(f) = Last(path) THEN files ELSE Append(files, path)
Archive(path) == Append(files, path)

CallBack ==
    /\ AtEntry /\ ~Loops /\ tree.kind[Stat(Entry)] # "dir"
    /\ files' = Archive(Here) /\ frames' = Rest /\ UNCHANGED <<tree, follow, walked>>

Return ==
    /\ walked = "on" /\ Top.todo = {}
    /\ frames' = Front(frames) /\ walked' = (IF Len(frames) = 1 THEN "done" ELSE "on")
    /\ UNCHANGED <<tree, follow, files>>

TreeWalkNext == FailOnLink \/ EnterDirectory \/ CallBack \/ Return

TreeWalkBehavior == TreeWalkInit /\ [][TreeWalkNext]_treeVars

-----------------------------------------------------------------------------
(* Properties *)

\* Where one gets from a node in one step, and in some.
Onward ==
    [n \in Node |-> IF tree.kind[n] = "dir" THEN Entries(n) ELSE IF Followed(n) THEN {tree.to[n]} \ {Nowhere} ELSE {}]
From(n) == Reached(Onward, n)

\* Some nodes that one does not get out of, and a link to nowhere.
Endless == \E s \in SUBSET From(0) : s # {} /\ \A n \in s : Onward[n] \cap s # {}
Dangling == \E n \in From(0) : Followed(n) /\ tree.to[n] = Nowhere

\* A walk fails exactly when it would meet a link to nowhere or would never end
\* (findFilesInDirectory, ErrLoopSymlink).
FailsIfEndless == (walked = "failed" => Endless \/ Dangling) /\ (walked = "done" => ~Endless /\ ~Dangling)

\* A way goes from the root by entries of directories, links to them included.
Before(w, i) == IF i = 1 THEN 0 ELSE Stat(w[i - 1])
IsTrail(w) == w \in Seq(Node) /\ \A i \in 1..Len(w) : w[i] \in Entries(Before(w, i))
Trails == Within([w \in Seq(Node) |-> {Append(w, n) : n \in Entries(Before(w, Len(w) + 1))}], <<>>)[MaxNode + 1]
ToFile(w) == w # <<>> /\ Stat(w[Len(w)]) \in Node /\ tree.kind[Stat(w[Len(w)])] # "dir"

\* A walk that does not fail comes by each file once for each way that leads to it.
FindsEachWay ==
    walked = "done" =>
        /\ \A i, j \in 1..Len(files) : files[i] = files[j] => i = j
        /\ \A i \in 1..Len(files) : IsTrail(files[i]) /\ ToFile(files[i])
        /\ \A w \in Trails : ToFile(w) => w \in ToSet(files)

\* A walk of a tree fails exactly if it would never end or find nothing; else it comes
\* by each file once for each way to it (GoTar, findFiles).
WalksAreRight == FailsIfEndless /\ FindsEachWay
=============================================================================
