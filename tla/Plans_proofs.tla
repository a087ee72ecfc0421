---------------------------- MODULE Plans_proofs ----------------------------
(***************************************************************************)
(* Proofs about the plans, the locks and the answers of the store:         *)
(* whatever plans are registered, of any number and with any tags, they    *)
(* make no circle, though a registration looks only at what its own plan   *)
(* feeds, and what GetPlan tells of a pair of plans is the same from both  *)
(* ends; of all that users may ask for, no plan is stored twice in other   *)
(* words, nor with one mount in another; the order of the locks excludes   *)
(* deadlocks, and the lock of the nomination table makes the nominations   *)
(* exact; answers are what the tables hold, if nothing was written         *)
(* meanwhile; what clients who change settings side by side leave behind   *)
(* is what one of them wanted.                                             *)
(***************************************************************************)
EXTENDS Plans, PlanSettings, StoreLocks, Queries, Induction, FiniteSetTheorems, SequenceTheorems, TLAPS

(* Plans *)

All == Append(plans, tx.plan)

\* The layers of the search so far: whatever the new plan or one of them feeds is
\* one of them, or comes next.
Searched ==
    tx # NoTx =>
        \E V \in SUBSET Plan :
            /\ tx.from \subseteq V \cup {New}
            /\ Dependants(All, V \cup {New}) \subseteq V \cup Next1

IInv == TypeOK /\ Acyclic /\ Searched

-----------------------------------------------------------------------------

\* What plans feed together is what they feed one by one.
LEMMA DependantsUnion ==
    ASSUME NEW all, NEW A, NEW B
    PROVE  Dependants(all, A \cup B) = Dependants(all, A) \cup Dependants(all, B)
  BY DEF Dependants

LEMMA DependantsMonotonic ==
    ASSUME NEW all, NEW A, NEW B, A \subseteq B
    PROVE  Dependants(all, A) \subseteq Dependants(all, B)
  BY DEF Dependants

\* A plan has no part in what the plans before it feed each other.
LEMMA AppendKeeps ==
    ASSUME TypeOK, NEW p \in Request
    PROVE  /\ DOMAIN Append(plans, p) = Plan \cup {New} /\ New \notin Plan
           /\ \A T \in SUBSET Plan : Dependants(Append(plans, p), T) \cap Plan = Dependants(plans, T)
<1>1. /\ Len(Append(plans, p)) = Len(plans) + 1 /\ Append(plans, p) \in Seq(Request)
      /\ Len(plans) \in Nat
      /\ \A i \in 1..Len(plans) : Append(plans, p)[i] = plans[i]
  BY DEF TypeOK
<1>2. Plan = 1..Len(plans) /\ DOMAIN Append(plans, p) = 1..Len(plans) + 1
  BY <1>1 DEF TypeOK, Plan
<1>3. DOMAIN Append(plans, p) = Plan \cup {New} /\ New \notin Plan
  BY <1>1, <1>2 DEF New
<1>4. ASSUME NEW T \in SUBSET Plan
      PROVE  Dependants(Append(plans, p), T) \cap Plan = Dependants(plans, T)
  <2>1. \A i \in Plan : Append(plans, p)[i] = plans[i]
    BY <1>1, <1>2
  <2>2. QED
    BY <2>1, <1>3 DEF Dependants, Plan
<1>5. QED
  BY <1>3, <1>4

-----------------------------------------------------------------------------

LEMMA TypeInit == Init => TypeOK
  BY PlanStoreAssumption DEF Init, TypeOK

LEMMA TypeNext == ASSUME TypeOK, [Next]_vars PROVE TypeOK'
<1> USE DEF TypeOK
<1>0. Len(plans) \in Nat
  OBVIOUS
<1>1. ASSUME NEW p \in Request, Begin(p) PROVE TypeOK'
  <2>1. plans' = plans /\ tx' = [from |-> {Len(plans) + 1}, plan |-> p]
        /\ Len(plans) + 1 \in 1..Len(plans) + 1 /\ Len(plans) < MaxPlans
    BY <1>0, <1>1 DEF Begin
  <2>2. QED
    BY <2>1, <1>0
<1>2. CASE Traverse
  <2>1. tx \in [from : SUBSET (1..Len(plans) + 1), plan : Request] /\ Len(plans) < MaxPlans
    BY <1>2 DEF Traverse
  <2>2. Next1 \subseteq 1..Len(plans) + 1
    BY <2>1, AppendKeeps DEF Next1, Dependants, Plan, New
  <2>3. plans' = plans /\ tx' = [tx EXCEPT !.from = Next1]
    BY <1>2 DEF Traverse
  <2>4. QED
    BY <2>1, <2>2, <2>3
<1>3. CASE Cyclic
  <2>1. plans' = plans /\ tx' = NoTx
    BY <1>3 DEF Cyclic
  <2>2. QED
    BY <2>1
<1>4. CASE Commit
  <2>1. tx \in [from : SUBSET (1..Len(plans) + 1), plan : Request] /\ Len(plans) < MaxPlans
    BY <1>4 DEF Commit
  <2>2. plans' = Append(plans, tx.plan) /\ tx' = NoTx
    BY <1>4 DEF Commit
  <2>3. QED
    BY <2>1, <2>2, PlanStoreAssumption
<1>5. CASE UNCHANGED vars
  BY <1>5 DEF vars
<1>6. QED
  BY <1>1, <1>2, <1>3, <1>4, <1>5 DEF Next, Register

\* The plans are the ones asked for, in the order of their commits, and a search
\* is at plans that are there, or at the new one (Register).
THEOREM TypeCorrect == Spec => []TypeOK
<1>1. Init => TypeOK
  BY TypeInit
<1>2. TypeOK /\ [Next]_vars => TypeOK'
  BY TypeNext
<1>3. QED
  BY <1>1, <1>2, PTL DEF Spec

-----------------------------------------------------------------------------

LEMMA InitIInv == Init => IInv
<1> SUFFICES ASSUME Init PROVE IInv
  OBVIOUS
<1>1. Plan = {}
  BY DEF Init, Plan
<1>2. QED
  BY <1>1, TypeInit DEF Init, IInv, Acyclic, Searched

\* The search begins at the new plan.
LEMMA BeginStep == ASSUME IInv, NEW p \in Request, Begin(p) PROVE Acyclic' /\ Searched'
<1>1. plans' = plans /\ tx' = [from |-> {New}, plan |-> p]
  BY DEF Begin, New
<1>2. Plan' = Plan /\ New' = New
  BY <1>1 DEF Plan, New
<1>3. Acyclic'
  BY <1>1 DEF IInv, Acyclic, Plan, Dependants
<1>4. Dependants(All', {} \cup {New}) \subseteq {} \cup Next1'
  BY <1>1 DEF Next1, All
<1>5. Searched'
  BY <1>1, <1>2, <1>4 DEF Searched
<1>6. QED
  BY <1>3, <1>5

\* One layer more.
LEMMA TraverseStep == ASSUME IInv, Traverse PROVE Acyclic' /\ Searched'
<1>1. tx \in [from : SUBSET (1..Len(plans) + 1), plan : Request]
  BY DEF IInv, TypeOK, Traverse
<1>2. plans' = plans /\ tx' = [tx EXCEPT !.from = Next1] /\ ~Closes(Next1, New) /\ tx # NoTx
  BY DEF Traverse
<1>3. tx'.from = Next1 /\ tx'.plan = tx.plan
  BY <1>1, <1>2
<1>4. Plan' = Plan /\ New' = New /\ All' = All
  BY <1>2, <1>3 DEF Plan, New, All
<1>5. Acyclic'
  BY <1>2 DEF IInv, Acyclic, Plan, Dependants
<1>6. PICK V \in SUBSET Plan :
          tx.from \subseteq V \cup {New} /\ Dependants(All, V \cup {New}) \subseteq V \cup Next1
  BY <1>2 DEF IInv, Searched
<1>7. Next1 \subseteq Plan
  <2>1. Next1 \subseteq Plan \cup {New}
    BY <1>1, AppendKeeps DEF IInv, Next1, Dependants
  <2>2. QED
    BY <2>1, <1>2 DEF Closes
<1>8. Next1' = Dependants(All, Next1)
  BY <1>3, <1>4 DEF Next1, All
<1>9. Dependants(All, (V \cup Next1) \cup {New}) \subseteq (V \cup Next1) \cup Next1'
  <2>1. (V \cup Next1) \cup {New} = (V \cup {New}) \cup Next1
    OBVIOUS
  <2>2. Dependants(All, (V \cup {New}) \cup Next1) =
            Dependants(All, V \cup {New}) \cup Dependants(All, Next1)
    BY DependantsUnion
  <2>3. QED
    BY <2>1, <2>2, <1>6, <1>8
<1>10. Searched'
  <2>1. V \cup Next1 \in SUBSET Plan
    BY <1>7
  <2>2. tx'.from \subseteq (V \cup Next1) \cup {New}
    BY <1>3
  <2>3. QED
    BY <2>1, <2>2, <1>4, <1>9 DEF Searched
<1>11. QED
  BY <1>5, <1>10

\* When nothing comes next, all that the new plan feeds, near or far, has been
\* seen.  A circle without any of it would have been there before.
LEMMA CommitStep == ASSUME IInv, Commit PROVE Acyclic' /\ Searched'
<1>1. tx \in [from : SUBSET (1..Len(plans) + 1), plan : Request]
  BY DEF IInv, TypeOK, Commit
<1>2. plans' = All /\ tx' = NoTx /\ Next1 = {} /\ tx # NoTx
  BY DEF Commit, All
<1>3. PICK V \in SUBSET Plan : Dependants(All, V \cup {New}) \subseteq V
  BY <1>2 DEF IInv, Searched
<1>4. /\ DOMAIN All = Plan \cup {New} /\ New \notin Plan
      /\ \A T \in SUBSET Plan : Dependants(All, T) \cap Plan = Dependants(plans, T)
  BY <1>1, AppendKeeps DEF IInv, All
<1>5. \A T \in SUBSET Plan : T \subseteq Dependants(All, T) => T = {}
  BY <1>4 DEF IInv, Acyclic
<1>6. ASSUME NEW Ps \in SUBSET (Plan \cup {New}), Ps \subseteq Dependants(All, Ps)
      PROVE  Ps = {}
  <2> DEFINE T == Ps \ (V \cup {New})
  <2>1. T \subseteq Dependants(All, T)
    <3>1. Dependants(All, Ps) \subseteq Dependants(All, T \cup (V \cup {New}))
      BY DependantsMonotonic
    <3>2. Dependants(All, T \cup (V \cup {New})) =
              Dependants(All, T) \cup Dependants(All, V \cup {New})
      BY DependantsUnion
    <3>3. QED
      BY <3>1, <3>2, <1>3, <1>6
  <2>2. T = {}
    BY <2>1, <1>5
  <2>3. Ps \subseteq V \cup {New}
    BY <2>2
  <2>4. Ps \subseteq V
    BY <2>3, <1>3, <1>6, DependantsMonotonic
  <2>5. QED
    BY <2>4, <1>5, <1>6
<1>7. Acyclic'
  <2>1. Plan' = Plan \cup {New}
    BY <1>2, <1>4 DEF Plan
  <2>2. ASSUME NEW Ps \in (SUBSET Plan') \ {{}} PROVE ~(Ps \subseteq Dependants(plans', Ps))
    BY <2>1, <1>2, <1>6
  <2>3. QED
    BY <2>2 DEF Acyclic
<1>8. QED
  BY <1>2, <1>7 DEF Searched

LEMMA NextIInv == ASSUME IInv, [Next]_vars PROVE IInv'
<1>1. TypeOK'
  BY TypeNext DEF IInv
<1>2. ASSUME NEW p \in Request, Begin(p) PROVE Acyclic' /\ Searched'
  BY <1>2, BeginStep
<1>3. CASE Traverse
  BY <1>1, <1>3, TraverseStep DEF IInv
<1>4. CASE Cyclic
  <2>1. plans' = plans /\ tx' = NoTx
    BY <1>4 DEF Cyclic
  <2>2. QED
    BY <1>1, <2>1 DEF IInv, Acyclic, Searched, Plan, Dependants
<1>5. CASE Commit
  BY <1>1, <1>5, CommitStep DEF IInv
<1>6. CASE UNCHANGED vars
  <2>1. plans' = plans /\ tx' = tx
    BY <1>6 DEF vars
  <2>2. Acyclic'
    BY <2>1 DEF IInv, Acyclic, Plan, Dependants
  <2>3. Plan' = Plan /\ New' = New /\ All' = All /\ Next1' = Next1
    BY <2>1 DEF Plan, New, All, Next1
  <2>4. Searched'
    BY <2>1, <2>3 DEF IInv, Searched
  <2>5. QED
    BY <1>1, <2>2, <2>4 DEF IInv
<1>7. QED
  BY <1>1, <1>2, <1>3, <1>4, <1>5, <1>6 DEF Next, Register, IInv

\* Plans never feed each other in a circle, whatever is registered, by a check
\* that follows only the plan that is new (planDependencyIsCyclic).
THEOREM AcyclicCorrect == Spec => []Acyclic
<1>1. Init => IInv
  BY InitIInv
<1>2. IInv /\ [Next]_vars => IInv'
  BY NextIInv
<1>3. IInv => Acyclic
  BY DEF IInv
<1>4. QED
  BY <1>1, <1>2, <1>3, PTL DEF Spec

-----------------------------------------------------------------------------

\* What feeds is fed: three statements for one relation.
LEMMA MirrorAlways == UpstreamsMirror
<1>1. ASSUME NEW p \in Plan, NEW q \in Plan, NEW i \in plans[p].inputs, NEW o \in plans[q].outputs
      PROVE  <<q, o>> \in Upstreams(p, i) <=> <<p, i>> \in Downstreams(q, o)
  <2>1. <<q, o>> \in Upstreams(p, i) <=> Feeds(o, i)
    BY DEF Upstreams, Feeds
  <2>2. <<p, i>> \in Downstreams(q, o) <=> Feeds(o, i)
    BY DEF Downstreams
  <2>3. QED
    BY <2>1, <2>2
<1>2. ASSUME NEW q \in Plan
      PROVE  Dependants(plans, {q}) = {d[1] : d \in UNION {Downstreams(q, o) : o \in plans[q].outputs}}
  <2> DEFINE Told == UNION {Downstreams(q, o) : o \in plans[q].outputs}
  <2>1. ASSUME NEW p \in Dependants(plans, {q}) PROVE \E d \in Told : d[1] = p
    <3>1. PICK o \in plans[q].outputs, i \in plans[p].inputs : Feeds(o, i)
      BY DEF Dependants
    <3>2. p \in Plan
      BY DEF Dependants, Plan
    <3>3. <<p, i>> \in Downstreams(q, o)
      BY <3>1, <3>2 DEF Downstreams
    <3>4. QED
      BY <3>3
  <2>2. ASSUME NEW d \in Told PROVE d[1] \in Dependants(plans, {q})
    <3>1. PICK o \in plans[q].outputs : d \in Downstreams(q, o)
      OBVIOUS
    <3>2. PICK p \in Plan : d \in {p} \X plans[p].inputs /\ Feeds(o, d[2])
      BY <3>1 DEF Downstreams
    <3>3. d[1] = p /\ d[2] \in plans[p].inputs
      BY <3>2
    <3>4. QED
      BY <3>1, <3>2, <3>3 DEF Dependants, Plan
  <2>3. QED
    BY <2>1, <2>2
<1>3. QED
  BY <1>1, <1>2 DEF UpstreamsMirror

\* GetPlan tells of two plans the same from both ends, and a registration looks at
\* just that.
THEOREM MirrorCorrect == Spec => []UpstreamsMirror
BY MirrorAlways, PTL

\* A search asks only for tags that are known: it asks for all of them then.
LEMMA FindsAlways == ASSUME TypeOK PROVE FindsKnown
<1> SUFFICES ASSUME NEW in \in SUBSET Known, NEW out \in SUBSET Known, NEW active \in {"any", "yes", "no"}
             PROVE  LET Fits(p) ==
                            /\ Has({i.tags : i \in plans[p].inputs}, in) /\ Has(plans[p].outputs, out)
                            /\ (active = "any" \/ (active = "yes" <=> plans[p].active))
                    IN  Find([in |-> in, id |-> {}, out |-> out, active |-> active]) = {p \in Plan : Fits(p)}
  BY DEF FindsKnown
<1> DEFINE q == [in |-> in, id |-> {}, out |-> out, active |-> active]
           Answers(p) ==
               /\ Has({i.tags : i \in plans[p].inputs}, q.in) /\ Has(plans[p].outputs, q.out)
               /\ (q.active = "any" \/ (q.active = "yes" <=> plans[p].active))
           Found(p) ==
               /\ Cardinality(q.id) <= 1
               /\ q.active \in {"any", IF plans[p].active THEN "yes" ELSE "no"}
               /\ Most(q.out, plans[p].outputs) /\ Most(q.in, InputTags(p))
               /\ q.id # {} => \E i \in plans[p].inputs : i.id = q.id
<1>0. q.in = in /\ q.out = out /\ q.active = active /\ q.id = {}
  OBVIOUS
<1>1. Cardinality(q.id) <= 1
  BY <1>0, FS_EmptySet
<1>2. q.in \cap Known = q.in /\ q.out \cap Known = q.out
  BY <1>0
<1>3. q.active \in {"any", "yes", "no"}
  BY <1>0
<1>4. ASSUME NEW p \in Plan PROVE plans[p].active \in BOOLEAN
  <2>1. plans[p] \in Request
    BY DEF TypeOK, Plan
  <2> QED
    BY <2>1, PlanStoreAssumption DEF ValidPlans
<1>5. ASSUME NEW p \in Plan
      PROVE  (q.active \in {"any", IF plans[p].active THEN "yes" ELSE "no"})
             <=> (q.active = "any" \/ (q.active = "yes" <=> plans[p].active))
  BY <1>3, <1>4
<1>6. ASSUME NEW asks, NEW mounts, asks \cap Known = asks PROVE Most(asks, mounts) <=> Has(mounts, asks)
  BY <1>6 DEF Most, Has
<1>7. ASSUME NEW p \in Plan
      PROVE  /\ Most(q.out, plans[p].outputs) <=> Has(plans[p].outputs, q.out)
             /\ Most(q.in, InputTags(p)) <=> Has({i.tags : i \in plans[p].inputs}, q.in)
  BY <1>2, <1>6 DEF InputTags
<1>8. ASSUME NEW p \in Plan PROVE Found(p) <=> Answers(p)
  <2>1. (q.active \in {"any", IF plans[p].active THEN "yes" ELSE "no"})
        <=> (q.active = "any" \/ (q.active = "yes" <=> plans[p].active))
    BY <1>5
  <2>2. /\ Most(q.out, plans[p].outputs) <=> Has(plans[p].outputs, q.out)
        /\ Most(q.in, InputTags(p)) <=> Has({i.tags : i \in plans[p].inputs}, q.in)
    BY <1>7
  <2> HIDE DEF q
  <2> QED
    BY <1>0, <1>1, <2>1, <2>2
<1>9. Find(q) = {p \in Plan : Found(p)}
  BY DEF Find
<1> HIDE DEF Found, Answers, q
<1>10. Find(q) = {p \in Plan : Answers(p)}
  BY <1>8, <1>9
<1> QED
  BY <1>10 DEF Answers, q

-----------------------------------------------------------------------------
(* What users ask for *)

Str == Seq(Nat)

\* Two strings that differ do so first somewhere.
LEMMA FirstDifference ==
    ASSUME NEW a \in Str, NEW b \in Str, a # b
    PROVE  \E n \in Nat \ {0} :
              /\ \A k \in 1..n - 1 : k <= Len(a) /\ k <= Len(b) /\ a[k] = b[k]
              /\ n <= Len(a) /\ n <= Len(b) => a[n] # b[n]
              /\ n <= Len(a) \/ n <= Len(b)
<1> DEFINE
      Same(n) == n <= Len(a) /\ n <= Len(b) /\ a[n] = b[n]
      T == {n \in Nat \ {0} : ~Same(n)}
<1>1. Len(a) \in Nat /\ Len(b) \in Nat
  BY DEF Str
<1>2. Len(a) + 1 \in T
  BY <1>1
<1>3. T \in SUBSET Nat /\ T # {}
  BY <1>2
<1>4. PICK n \in T : \A m \in T : n <= m
  <2> HIDE DEF T
  <2> QED
    BY <1>3, LeastNat
<1>5. n \in Nat \ {0} /\ ~Same(n)
  OBVIOUS
<1>6. \A k \in 1..n - 1 : Same(k)
  BY <1>4, <1>5
<1>7. n <= Len(a) \/ n <= Len(b)
  <2>1. SUFFICES ASSUME n > Len(a), n > Len(b) PROVE FALSE
    BY <1>1, <1>5
  <2>2. Len(a) = Len(b)
    <3>1. n = 1 \/ n - 1 \in 1..n - 1
      BY <1>5
    <3>2. n - 1 <= Len(a) /\ n - 1 <= Len(b)
      BY <3>1, <1>1, <1>6
    <3> QED
      BY <3>2, <2>1, <1>1, <1>5
  <2>3. \A k \in 1..Len(a) : a[k] = b[k]
    BY <2>1, <1>1, <1>5, <1>6
  <2>4. a = b
    BY <2>2, <2>3, SeqEqual DEF Str
  <2> QED
    BY <2>4
<1> QED
  BY <1>5, <1>6, <1>7

LEMMA SoonerTotal ==
    ASSUME NEW a \in Str, NEW b \in Str, a # b
    PROVE  Sooner(a, b) \/ Sooner(b, a)
<1>1. PICK n \in Nat \ {0} :
          /\ \A k \in 1..n - 1 : k <= Len(a) /\ k <= Len(b) /\ a[k] = b[k]
          /\ n <= Len(a) /\ n <= Len(b) => a[n] # b[n]
          /\ n <= Len(a) \/ n <= Len(b)
  BY FirstDifference
<1>2. Len(a) \in Nat /\ Len(b) \in Nat
  BY DEF Str
<1>3. n - 1 <= Len(a) /\ n - 1 <= Len(b)
  <2>1. n = 1 \/ n - 1 \in 1..n - 1
    OBVIOUS
  <2> QED
    BY <1>1, <1>2, <2>1
<1>4. CASE n > Len(a)
  BY <1>1, <1>2, <1>3, <1>4 DEF Sooner
<1>5. CASE n > Len(b)
  BY <1>1, <1>2, <1>3, <1>5 DEF Sooner
<1>6. CASE n <= Len(a) /\ n <= Len(b)
  <2>1. a[n] \in Nat /\ b[n] \in Nat /\ a[n] # b[n] /\ n \in 1..Len(a) /\ n \in 1..Len(b)
    BY <1>1, <1>2, <1>6 DEF Str
  <2> QED
    BY <1>1, <1>2, <2>1 DEF Sooner
<1> QED
  BY <1>2, <1>4, <1>5, <1>6

LEMMA SoonerOnce == ASSUME NEW a \in Str PROVE ~Sooner(a, a)
<1>1. SUFFICES ASSUME Sooner(a, a) PROVE FALSE
  OBVIOUS
<1>2. PICK n \in 1..Len(a) : n = Len(a) + 1 \/ (n <= Len(a) /\ a[n] < a[n])
  BY <1>1 DEF Sooner
<1>3. Len(a) \in Nat /\ a[n] \in Nat
  BY DEF Str
<1> QED
  BY <1>2, <1>3

LEMMA SoonerThen ==
    ASSUME NEW a \in Str, NEW b \in Str, NEW c \in Str, Sooner(a, b), Sooner(b, c)
    PROVE  Sooner(a, c)
<1>1. PICK n \in 1..Len(b) :
          /\ \A k \in 1..n - 1 : k <= Len(a) /\ a[k] = b[k]
          /\ n = Len(a) + 1 \/ (n <= Len(a) /\ a[n] < b[n])
  BY DEF Sooner
<1>2. PICK m \in 1..Len(c) :
          /\ \A k \in 1..m - 1 : k <= Len(b) /\ b[k] = c[k]
          /\ m = Len(b) + 1 \/ (m <= Len(b) /\ b[m] < c[m])
  BY DEF Sooner
<1>3. Len(a) \in Nat /\ Len(b) \in Nat /\ Len(c) \in Nat
  BY DEF Str
<1>4. /\ \A k \in 1..Len(a) : a[k] \in Nat
      /\ \A k \in 1..Len(b) : b[k] \in Nat
      /\ \A k \in 1..Len(c) : c[k] \in Nat
  BY DEF Str
<1>5. CASE n < m
  <2>1. b[n] = c[n] /\ n \in 1..Len(c)
    BY <1>2, <1>3, <1>5
  <2>2. \A k \in 1..n - 1 : k <= Len(a) /\ a[k] = c[k]
    BY <1>1, <1>2, <1>3, <1>5
  <2> QED
    BY <1>1, <2>1, <2>2 DEF Sooner
<1>6. CASE n >= m
  <2>1. \A k \in 1..m - 1 : k <= Len(a) /\ a[k] = c[k]
    BY <1>1, <1>2, <1>3, <1>6
  <2>2. m <= Len(b) /\ b[m] < c[m]
    BY <1>2, <1>3, <1>6
  <2>3. CASE n = m
    <3>1. m = Len(a) + 1 \/ (m <= Len(a) /\ a[m] < c[m])
      BY <1>1, <1>3, <1>4, <2>2, <2>3
    <3> QED
      BY <2>1, <3>1 DEF Sooner
  <2>4. CASE n > m
    <3>1. m <= Len(a) /\ a[m] = b[m]
      BY <1>1, <1>3, <2>4
    <3> QED
      BY <2>1, <2>2, <3>1 DEF Sooner
  <2> QED
    BY <1>3, <1>6, <2>3, <2>4
<1> QED
  BY <1>3, <1>5, <1>6

\* What can be compared can be put in order.
LEMMA CanBeSorted ==
    ASSUME NEW N \in Nat, NEW R,
           \A i, j \in 1..N : <<i, j>> \in R \/ <<j, i>> \in R,
           \A i, j, k \in 1..N : <<i, j>> \in R /\ <<j, k>> \in R => <<i, k>> \in R
    PROVE  \E o \in Bijection(1..N, 1..N) : \A i, j \in 1..N : i < j => <<o[i], o[j]>> \in R
<1> DEFINE
      InOrder(o, n) ==
          /\ o \in [1..n -> 1..n] /\ \A i, j \in 1..n : o[i] = o[j] => i = j
          /\ \A w \in 1..n : \E v \in 1..n : o[v] = w
          /\ \A i, j \in 1..n : i < j => <<o[i], o[j]>> \in R
      Can == {n \in Nat : n <= N => \E o : InOrder(o, n)}
<1> HIDE DEF InOrder
<1>1. 0 \in Can
  <2> DEFINE z == [i \in 1..0 |-> i]
  <2>1. InOrder(z, 0)
    BY DEF InOrder
  <2> HIDE DEF z
  <2> QED
    BY <2>1
<1>2. ASSUME NEW n \in Nat, n \in Can PROVE n + 1 \in Can
  <2>1. SUFFICES ASSUME n + 1 <= N PROVE \E o : InOrder(o, n + 1)
    OBVIOUS
  <2>2a. n <= N
    BY <2>1
  <2>2b. PICK o : InOrder(o, n)
    BY <1>2, <2>2a
  <2>2. /\ o \in [1..n -> 1..n] /\ \A i, j \in 1..n : o[i] = o[j] => i = j
        /\ \A w \in 1..n : \E v \in 1..n : o[v] = w
        /\ \A i, j \in 1..n : i < j => <<o[i], o[j]>> \in R
    BY <2>2b DEF InOrder
  <2> DEFINE K == {i \in 1..n + 1 : i = n + 1 \/ <<n + 1, o[i]>> \in R}
  <2>3. PICK k \in K : \A i \in K : k <= i
    <3>1. K \in SUBSET Nat /\ n + 1 \in K
      OBVIOUS
    <3> HIDE DEF K
    <3> QED
      BY <3>1, LeastNat
  <2>4. k \in 1..n + 1 /\ (k = n + 1 \/ <<n + 1, o[k]>> \in R)
    OBVIOUS
  <2>5. \A i \in 1..n : o[i] \in 1..n /\ o[i] \in 1..N /\ n + 1 \in 1..N /\ o[i] # n + 1
    <3>1. ASSUME NEW i \in 1..n PROVE o[i] \in 1..n
      BY <2>2
    <3> QED
      BY <3>1, <2>1
  <2>6. \A i \in 1..n : i < k => <<o[i], n + 1>> \in R
    <3>1. \A i \in 1..n : i < k => i \notin K
      BY <2>3
    <3>2. \A i \in 1..n : i < k => <<n + 1, o[i]>> \notin R
      BY <3>1
    <3> QED
      BY <3>2, <2>5
  <2>7. \A i \in 1..n : k <= i => <<n + 1, o[i]>> \in R
    <3>1. SUFFICES ASSUME NEW i \in 1..n, k <= i PROVE <<n + 1, o[i]>> \in R
      OBVIOUS
    <3>2. <<n + 1, o[k]>> \in R /\ k \in 1..n
      BY <2>4, <3>1
    <3>3. i = k \/ <<o[k], o[i]>> \in R
      BY <2>2, <3>1, <3>2
    <3> QED
      BY <2>5, <3>2, <3>3
  <2> DEFINE q == [i \in 1..n + 1 |-> IF i < k THEN o[i] ELSE IF i = k THEN n + 1 ELSE o[i - 1]]
  <2> HIDE DEF K
  <2>8. /\ \A i \in 1..n : i < k => q[i] = o[i]
        /\ q[k] = n + 1
        /\ \A i \in 1..n + 1 : k < i => q[i] = o[i - 1] /\ i - 1 \in 1..n
    BY <2>4
  <2>9. q \in [1..n + 1 -> 1..n + 1]
    BY <2>4, <2>5
  <2> HIDE DEF q
  <2>10. ASSUME NEW i \in 1..n + 1, NEW j \in 1..n + 1, i < j PROVE <<q[i], q[j]>> \in R /\ q[i] # q[j]
    <3>1. CASE j < k
      <4>1. q[i] = o[i] /\ q[j] = o[j] /\ i \in 1..n /\ j \in 1..n
        BY <2>4, <2>8, <2>10, <3>1
      <4> QED
        BY <4>1, <2>2, <2>10
    <3>2. CASE j = k
      <4>1. q[i] = o[i] /\ q[j] = n + 1 /\ i \in 1..n
        BY <2>4, <2>8, <2>10, <3>2
      <4> QED
        BY <4>1, <2>5, <2>6, <2>10, <3>2
    <3>3. CASE k < j /\ i < k
      <4>2. q[i] = o[i] /\ q[j] = o[j - 1] /\ i \in 1..n /\ j - 1 \in 1..n /\ i < k /\ k <= j - 1
        BY <2>4, <2>8, <2>10, <3>3
      <4>3. i < j - 1
        BY <4>2, <2>4
      <4> QED
        BY <4>2, <4>3, <2>2
    <3>4. CASE i = k
      <4>1. q[i] = n + 1 /\ q[j] = o[j - 1] /\ j - 1 \in 1..n /\ k <= j - 1
        BY <2>4, <2>8, <2>10, <3>4
      <4> QED
        BY <4>1, <2>5, <2>7
    <3>5. CASE k < i
      <4>1. q[i] = o[i - 1] /\ q[j] = o[j - 1] /\ i - 1 \in 1..n /\ j - 1 \in 1..n /\ i - 1 < j - 1
        BY <2>4, <2>8, <2>10, <3>5
      <4> QED
        BY <4>1, <2>2
    <3> QED
      BY <2>4, <2>10, <3>1, <3>2, <3>3, <3>4, <3>5
  <2>11. \A w \in 1..n + 1 : \E v \in 1..n + 1 : q[v] = w
    <3>1. SUFFICES ASSUME NEW w \in 1..n + 1 PROVE \E v \in 1..n + 1 : q[v] = w
      OBVIOUS
    <3>2. CASE w = n + 1
      BY <2>4, <2>8, <3>2
    <3>3. CASE w \in 1..n
      <4>1. PICK v \in 1..n : o[v] = w
        BY <2>2, <3>3
      <4>2. CASE v < k
        BY <2>8, <4>1, <4>2
      <4>3. CASE k <= v
        <5>1. q[v + 1] = o[v + 1 - 1] /\ v + 1 - 1 = v /\ v + 1 \in 1..n + 1
          BY <2>4, <2>8, <4>3
        <5> QED
          BY <4>1, <5>1
      <4> QED
        BY <2>4, <4>2, <4>3
    <3> QED
      BY <3>2, <3>3
  <2>12. \A i, j \in 1..n + 1 : q[i] = q[j] => i = j
    <3>1. SUFFICES ASSUME NEW i \in 1..n + 1, NEW j \in 1..n + 1, q[i] = q[j], i # j PROVE FALSE
      OBVIOUS
    <3>2. i < j \/ j < i
      BY <3>1
    <3> QED
      BY <2>10, <3>1, <3>2
  <2>13. InOrder(q, n + 1)
    BY <2>9, <2>10, <2>11, <2>12 DEF InOrder
  <2> QED
    BY <2>13
<1>3. N \in Can
  <2> HIDE DEF Can
  <2> QED
    BY <1>1, <1>2, NatInd
<1>4. PICK o : InOrder(o, N)
  BY <1>3
<1>5. o \in Bijection(1..N, 1..N)
  BY <1>4 DEF InOrder, Bijection, Injection, Surjection, IsInjective
<1> QED
  BY <1>4, <1>5 DEF InOrder

\* Nor can it be in two ways, if nothing comes before itself.
LEMMA SortedOnce ==
    ASSUME NEW Of, NEW R, NEW s \in Seq(Of), NEW t \in Seq(Of),
           \A x \in Of : <<x, x>> \notin R,
           \A x, y, z \in Of : <<x, y>> \in R /\ <<y, z>> \in R => <<x, z>> \in R,
           \A i, j \in DOMAIN s : i < j => <<s[i], s[j]>> \in R,
           \A i, j \in DOMAIN t : i < j => <<t[i], t[j]>> \in R,
           {s[i] : i \in DOMAIN s} = {t[i] : i \in DOMAIN t}
    PROVE  s = t
<1>1. /\ Len(s) \in Nat /\ DOMAIN s = 1..Len(s) /\ \A i \in 1..Len(s) : s[i] \in Of
      /\ Len(t) \in Nat /\ DOMAIN t = 1..Len(t) /\ \A i \in 1..Len(t) : t[i] \in Of
  OBVIOUS
<1>2. /\ \A i \in 1..Len(s) : \E j \in 1..Len(t) : s[i] = t[j]
      /\ \A j \in 1..Len(t) : \E i \in 1..Len(s) : s[i] = t[j]
  <2>1. ASSUME NEW i \in 1..Len(s) PROVE \E j \in 1..Len(t) : s[i] = t[j]
    <3>1. i \in DOMAIN s
      BY <1>1
    <3>2. s[i] \in {s[k] : k \in DOMAIN s}
      BY <3>1
    <3>3. s[i] \in {t[j] : j \in DOMAIN t}
      BY <3>2
    <3>4. PICK j \in DOMAIN t : s[i] = t[j]
      BY <3>3
    <3> QED
      BY <1>1, <3>4
  <2>2. ASSUME NEW j \in 1..Len(t) PROVE \E i \in 1..Len(s) : s[i] = t[j]
    <3>1. j \in DOMAIN t
      BY <1>1
    <3>2. t[j] \in {t[i] : i \in DOMAIN t}
      BY <3>1
    <3>3. t[j] \in {s[i] : i \in DOMAIN s}
      BY <3>2
    <3>4. PICK i \in DOMAIN s : s[i] = t[j]
      BY <3>3
    <3> QED
      BY <1>1, <3>4
  <2> QED
    BY <2>1, <2>2
<1> DEFINE N == {n \in Nat : \A k \in 1..n : k <= Len(s) /\ k <= Len(t) => s[k] = t[k]}
<1>3. 0 \in N
  OBVIOUS
<1>4. ASSUME NEW n \in Nat, n \in N PROVE n + 1 \in N
  <2>1. SUFFICES ASSUME n + 1 <= Len(s), n + 1 <= Len(t) PROVE s[n + 1] = t[n + 1]
    BY <1>4
  <2>2. \A k \in 1..n : s[k] = t[k] /\ k \in 1..Len(s) /\ k \in 1..Len(t)
    BY <1>1, <1>4, <2>1
  <2>3. PICK m \in 1..Len(t) : s[n + 1] = t[m]
    BY <1>1, <1>2, <2>1
  <2>4. PICK l \in 1..Len(s) : s[l] = t[n + 1]
    BY <1>1, <1>2, <2>1
  <2>5. n + 1 \in 1..Len(s) /\ n + 1 \in 1..Len(t)
    BY <1>1, <2>1
  <2>6. m >= n + 1
    <3>1. SUFFICES ASSUME m < n + 1 PROVE FALSE
      BY <1>1
    <3>2. s[m] = s[n + 1] /\ m \in 1..Len(s)
      BY <1>1, <2>2, <2>3, <3>1
    <3> QED
      BY <1>1, <2>5, <3>1, <3>2
  <2>7. l >= n + 1
    <3>1. SUFFICES ASSUME l < n + 1 PROVE FALSE
      BY <1>1
    <3>2. t[l] = t[n + 1] /\ l \in 1..Len(t)
      BY <1>1, <2>2, <2>4, <3>1
    <3> QED
      BY <1>1, <2>5, <3>1, <3>2
  <2>8. CASE m = n + 1
    BY <2>3, <2>8
  <2>9. CASE l = n + 1
    BY <2>4, <2>9
  <2>10. CASE m > n + 1 /\ l > n + 1
    <3>1. <<t[n + 1], t[m]>> \in R /\ <<s[n + 1], s[l]>> \in R
      BY <1>1, <2>5, <2>10
    <3> DEFINE x == s[n + 1]
               y == t[n + 1]
    <3>2. <<y, x>> \in R /\ <<x, y>> \in R /\ x \in Of /\ y \in Of
      BY <1>1, <2>3, <2>4, <2>5, <3>1
    <3> HIDE DEF x, y
    <3>3. <<x, x>> \in R
      BY <3>2
    <3> QED
      BY <3>2, <3>3
  <2> QED
    BY <1>1, <2>6, <2>7, <2>8, <2>9, <2>10
<1>5. \A k \in 1..Len(s) : k <= Len(t) => s[k] = t[k]
  <2>1. Len(s) \in N
    <3> HIDE DEF N
    <3> QED
      BY <1>1, <1>3, <1>4, NatInd
  <2> QED
    BY <1>1, <2>1
<1>6. Len(s) = Len(t)
  <2>1. CASE Len(s) < Len(t)
    <3>0. Len(s) + 1 \in 1..Len(t)
      BY <1>1, <2>1
    <3>1. PICK i \in 1..Len(s) : s[i] = t[Len(s) + 1]
      BY <1>2, <3>0
    <3>2. t[i] = t[Len(s) + 1] /\ i \in 1..Len(t) /\ Len(s) + 1 \in 1..Len(t) /\ i < Len(s) + 1
      BY <1>1, <1>5, <2>1, <3>1
    <3> QED
      BY <1>1, <3>2
  <2>2. CASE Len(t) < Len(s)
    <3>0. Len(t) + 1 \in 1..Len(s)
      BY <1>1, <2>2
    <3>1. PICK i \in 1..Len(t) : t[i] = s[Len(t) + 1]
      BY <1>2, <3>0
    <3>2. s[i] = s[Len(t) + 1] /\ i \in 1..Len(s) /\ Len(t) + 1 \in 1..Len(s) /\ i < Len(t) + 1
      BY <1>1, <1>5, <2>2, <3>1
    <3> QED
      BY <1>1, <3>2
  <2>3. Len(s) \in Nat /\ Len(t) \in Nat
    BY <1>1
  <2> QED
    BY <2>1, <2>2, <2>3
<1> QED
  BY <1>1, <1>5, <1>6, SeqEqual
\* How a sequence is sorted, by what may stand before what.
LEMMA OrderIs ==
    ASSUME NEW Of, NEW s \in Seq(Of), NEW R, NEW o,
           \A x, y \in Of : <<x, y>> \in R \/ <<y, x>> \in R,
           \A x, y, z \in Of : <<x, y>> \in R /\ <<y, z>> \in R => <<x, z>> \in R,
           o = CHOOSE c \in Bijection(DOMAIN s, DOMAIN s) : \A i, j \in DOMAIN s : i < j => <<s[c[i]], s[c[j]]>> \in R
    PROVE  o \in Bijection(DOMAIN s, DOMAIN s) /\ \A i, j \in DOMAIN s : i < j => <<s[o[i]], s[o[j]]>> \in R
<1> DEFINE
      n == Len(s)
      Good(c) == \A i, j \in DOMAIN s : i < j => <<s[c[i]], s[c[j]]>> \in R
      Q == {p \in (1..n) \X (1..n) : <<s[p[1]], s[p[2]]>> \in R}
<1>1. n \in Nat /\ DOMAIN s = 1..n /\ \A i \in 1..n : s[i] \in Of
  OBVIOUS
<1>2. \A i, j \in 1..n : <<i, j>> \in Q <=> <<s[i], s[j]>> \in R
  OBVIOUS
<1>3. \E c \in Bijection(1..n, 1..n) : \A i, j \in 1..n : i < j => <<c[i], c[j]>> \in Q
  <2>1. \A i, j \in 1..n : <<i, j>> \in Q \/ <<j, i>> \in Q
    BY <1>1, <1>2
  <2>2. ASSUME NEW i \in 1..n, NEW j \in 1..n, NEW k \in 1..n, <<i, j>> \in Q, <<j, k>> \in Q PROVE <<i, k>> \in Q
    <3>1. <<s[i], s[j]>> \in R /\ <<s[j], s[k]>> \in R /\ s[i] \in Of /\ s[j] \in Of /\ s[k] \in Of
      BY <1>1, <1>2, <2>2
    <3>2. <<s[i], s[k]>> \in R
      BY <3>1
    <3> QED
      BY <1>2, <3>2
  <2> HIDE DEF n, Q
  <2> QED
    BY <1>1, <2>1, <2>2, CanBeSorted
<1>4. PICK g \in Bijection(1..n, 1..n) : \A i, j \in 1..n : i < j => <<g[i], g[j]>> \in Q
  BY <1>3
<1>5. \A i \in 1..n : g[i] \in 1..n
  BY <1>4 DEF Bijection, Injection
<1>6. g \in Bijection(DOMAIN s, DOMAIN s) /\ Good(g)
  BY <1>1, <1>2, <1>4, <1>5
<1>7. o = CHOOSE c \in Bijection(DOMAIN s, DOMAIN s) : Good(c)
  OBVIOUS
<1> HIDE DEF Good
<1>8. o \in Bijection(DOMAIN s, DOMAIN s) /\ Good(o)
  BY <1>6, <1>7
<1> QED
  BY <1>8 DEF Good

LEMMA ArrangedIs ==
    ASSUME NEW Of, NEW s \in Seq(Of), NEW o \in Bijection(DOMAIN s, DOMAIN s), NEW out,
           out = [i \in DOMAIN s |-> s[o[i]]]
    PROVE  /\ out \in Seq(Of) /\ Len(out) = Len(s) /\ DOMAIN out = DOMAIN s
           /\ \A i \in DOMAIN s : out[i] = s[o[i]]
<1>1. Len(s) \in Nat /\ DOMAIN s = 1..Len(s) /\ \A i \in 1..Len(s) : s[i] \in Of
  OBVIOUS
<1>2. \A i \in 1..Len(s) : o[i] \in 1..Len(s)
  BY <1>1 DEF Bijection, Injection
<1>3. out \in [1..Len(s) -> Of]
  BY <1>1, <1>2
<1>4. out \in Seq(Of)
  BY <1>1, <1>3, SeqDef
<1>5. DOMAIN out = 1..Len(s) /\ DOMAIN out = 1..Len(out) /\ Len(out) \in Nat
  BY <1>3, <1>4
<1>6. Len(out) = Len(s)
  BY <1>1, <1>5
<1> QED
  BY <1>1, <1>4, <1>5, <1>6

LEMMA PathsAreStr == Seq(Char) \subseteq Str
BY DEF Char, Str

LEMMA ByPathIs ==
    ASSUME NEW ms \in Seq(Mount)
    PROVE  /\ ByPath(ms) \in Seq(Mount) /\ Len(ByPath(ms)) = Len(ms) /\ DOMAIN ByPath(ms) = DOMAIN ms
           /\ \A i, j \in DOMAIN ms : i < j => ~Sooner(ByPath(ms)[j].path, ByPath(ms)[i].path)
           /\ \E o \in Bijection(DOMAIN ms, DOMAIN ms) : \A i \in DOMAIN ms : ByPath(ms)[i] = ms[o[i]]
<1> DEFINE
      R == {p \in Range(ms) \X Range(ms) : ~Sooner(p[2].path, p[1].path)}
      out == ByPath(ms)
<1>1. \A x, y \in Range(ms) : <<x, y>> \in R <=> ~Sooner(y.path, x.path)
  OBVIOUS
<1>1a. ms \in Seq(Range(ms)) /\ Range(ms) \subseteq Mount /\ \A i \in DOMAIN ms : ms[i] \in Range(ms)
  BY SeqDef DEF Range
<1>2. \A x \in Range(ms) : x.path \in Str
  BY <1>1a, PathsAreStr DEF Mount
<1>3. ASSUME NEW x \in Range(ms), NEW y \in Range(ms) PROVE <<x, y>> \in R \/ <<y, x>> \in R
  <2>1. SUFFICES ASSUME Sooner(y.path, x.path), Sooner(x.path, y.path) PROVE FALSE
    BY <1>1
  <2>2. x.path \in Str /\ y.path \in Str
    BY <1>2
  <2> QED
    BY <2>1, <2>2, SoonerThen, SoonerOnce
<1>4. ASSUME NEW x \in Range(ms), NEW y \in Range(ms), NEW z \in Range(ms), <<x, y>> \in R, <<y, z>> \in R
      PROVE  <<x, z>> \in R
  <2>1. x.path \in Str /\ y.path \in Str /\ z.path \in Str
    BY <1>2
  <2>2. ~Sooner(y.path, x.path) /\ ~Sooner(z.path, y.path)
    BY <1>1, <1>4
  <2>3. SUFFICES ASSUME Sooner(z.path, x.path) PROVE FALSE
    BY <1>1
  <2>4. x.path = y.path \/ Sooner(x.path, y.path)
    BY <2>1, <2>2, SoonerTotal
  <2>5. CASE x.path = y.path
    BY <2>2, <2>3, <2>5
  <2>6. CASE Sooner(x.path, y.path)
    BY <2>1, <2>2, <2>3, <2>6, SoonerThen
  <2> QED
    BY <2>4, <2>5, <2>6
<1> DEFINE o == CHOOSE c \in Bijection(DOMAIN ms, DOMAIN ms) : \A i, j \in DOMAIN ms : i < j => <<ms[c[i]], ms[c[j]]>> \in R
<1>6. out = [i \in DOMAIN ms |-> ms[o[i]]]
  BY DEF ByPath, Sorted
<1>6a. o \in Bijection(DOMAIN ms, DOMAIN ms) /\ \A i, j \in DOMAIN ms : i < j => <<ms[o[i]], ms[o[j]]>> \in R
  <2> HIDE DEF R
  <2>1. o = CHOOSE c \in Bijection(DOMAIN ms, DOMAIN ms) : \A i, j \in DOMAIN ms : i < j => <<ms[c[i]], ms[c[j]]>> \in R
    OBVIOUS
  <2> HIDE DEF o
  <2> QED
    BY <1>1a, <1>3, <1>4, <2>1, OrderIs
<1> HIDE DEF R, out, o
<1>6b. /\ out \in Seq(Mount) /\ Len(out) = Len(ms) /\ DOMAIN out = DOMAIN ms
      /\ \A i \in DOMAIN ms : out[i] = ms[o[i]]
  BY <1>6, <1>6a, ArrangedIs
<1>7. /\ out \in Seq(Mount) /\ Len(out) = Len(ms) /\ DOMAIN out = DOMAIN ms
      /\ \A i, j \in DOMAIN ms : i < j => <<out[i], out[j]>> \in R
      /\ \E c \in Bijection(DOMAIN ms, DOMAIN ms) : \A i \in DOMAIN ms : out[i] = ms[c[i]]
  BY <1>6a, <1>6b
<1>8. \A i, j \in DOMAIN ms : i < j => ~Sooner(out[j].path, out[i].path)
  <2>1. \A i \in DOMAIN ms : out[i] \in Range(ms)
    BY <1>1a, <1>6a, <1>6b DEF Bijection, Injection
  <2>2. \A i, j \in DOMAIN ms : i < j => <<out[i], out[j]>> \in R
    BY <1>7
  <2> QED
    BY <1>1, <2>1, <2>2
<1> QED
  BY <1>7, <1>8 DEF out

LEMMA NodesAre ==
    ASSUME NEW ns \in Seq(Nat)
    PROVE  /\ ByNode(ns) \in Seq(Nat) /\ DOMAIN ByNode(ns) = DOMAIN ns
           /\ \A i, j \in DOMAIN ns : i < j => ByNode(ns)[i] <= ByNode(ns)[j]
           /\ \E o \in Bijection(DOMAIN ns, DOMAIN ns) : \A i \in DOMAIN ns : ByNode(ns)[i] = ns[o[i]]
<1> DEFINE
      R == {p \in Range(ns) \X Range(ns) : p[1] <= p[2]}
      out == ByNode(ns)
<1>0. ns \in Seq(Range(ns)) /\ Range(ns) \subseteq Nat /\ \A i \in DOMAIN ns : ns[i] \in Range(ns)
  BY SeqDef DEF Range
<1>1. \A x, y \in Range(ns) : <<x, y>> \in R <=> x <= y
  OBVIOUS
<1>2. \A x, y \in Range(ns) : <<x, y>> \in R \/ <<y, x>> \in R
  <2>1. \A x, y \in Range(ns) : x <= y \/ y <= x
    BY <1>0
  <2> HIDE DEF R
  <2> QED
    BY <1>1, <2>1
<1>3. \A x, y, z \in Range(ns) : <<x, y>> \in R /\ <<y, z>> \in R => <<x, z>> \in R
  BY <1>0, <1>1
<1>4. \A i \in DOMAIN ns : ns[i] \in Nat
  OBVIOUS
<1> DEFINE o == CHOOSE c \in Bijection(DOMAIN ns, DOMAIN ns) : \A i, j \in DOMAIN ns : i < j => <<ns[c[i]], ns[c[j]]>> \in R
<1>5. out = [i \in DOMAIN ns |-> ns[o[i]]]
  BY DEF ByNode, Sorted
<1>5a. o \in Bijection(DOMAIN ns, DOMAIN ns) /\ \A i, j \in DOMAIN ns : i < j => <<ns[o[i]], ns[o[j]]>> \in R
  <2> HIDE DEF R
  <2>1. o = CHOOSE c \in Bijection(DOMAIN ns, DOMAIN ns) : \A i, j \in DOMAIN ns : i < j => <<ns[c[i]], ns[c[j]]>> \in R
    OBVIOUS
  <2> HIDE DEF o
  <2> QED
    BY <1>0, <1>2, <1>3, <2>1, OrderIs
<1> HIDE DEF R, out, o
<1>5b. /\ out \in Seq(Nat) /\ Len(out) = Len(ns) /\ DOMAIN out = DOMAIN ns
      /\ \A i \in DOMAIN ns : out[i] = ns[o[i]]
  BY <1>5, <1>5a, ArrangedIs
<1>6. /\ out \in Seq(Nat) /\ DOMAIN out = DOMAIN ns
      /\ \A i, j \in DOMAIN ns : i < j => <<out[i], out[j]>> \in R
      /\ \E c \in Bijection(DOMAIN ns, DOMAIN ns) : \A i \in DOMAIN ns : out[i] = ns[c[i]]
  BY <1>5a, <1>5b
<1>7. \A i, j \in DOMAIN ns : i < j => out[i] <= out[j]
  <2>1. \A i \in DOMAIN ns : out[i] \in Range(ns)
    BY <1>0, <1>5a, <1>5b DEF Bijection, Injection
  <2>2. \A i, j \in DOMAIN ns : i < j => <<out[i], out[j]>> \in R
    BY <1>6
  <2> QED
    BY <1>1, <2>1, <2>2
<1> QED
  BY <1>6, <1>7 DEF out
LEMMA TrimmedIs ==
    ASSUME NEW m \in Mount
    PROVE  /\ Trimmed(m) \in Mount /\ Trimmed(m).tags = m.tags
           /\ Len(Trimmed(m).path) <= Len(m.path)
           /\ \A k \in 1..Len(Trimmed(m).path) : Trimmed(m).path[k] = m.path[k]
           /\ EndsInSlash(m.path) => Trimmed(m).path = Front(m.path)
           /\ ~EndsInSlash(m.path) => Trimmed(m) = m
<1>1. m.path \in Seq(Char) /\ m.tags \subseteq STRING \X STRING
  BY DEF Mount
<1>2. Len(m.path) \in Nat
  BY <1>1
<1>3. CASE EndsInSlash(m.path)
  <2>1. Len(m.path) > 0
    BY <1>1, <1>2, <1>3 DEF EndsInSlash
  <2>2. Trimmed(m) = [m EXCEPT !.path = Front(m.path)]
    BY <1>3 DEF Trimmed
  <2>3. /\ Front(m.path) \in Seq(Char) /\ Len(Front(m.path)) = Len(m.path) - 1
        /\ \A k \in 1..Len(m.path) - 1 : Front(m.path)[k] = m.path[k]
    BY <1>1, <1>2, <2>1 DEF Front
  <2>4. Trimmed(m) \in Mount /\ Trimmed(m).path = Front(m.path) /\ Trimmed(m).tags = m.tags
    BY <2>2, <2>3 DEF Mount
  <2> QED
    BY <1>2, <1>3, <2>3, <2>4
<1>4. CASE ~EndsInSlash(m.path)
  <2>1. Trimmed(m) = m
    BY <1>4 DEF Trimmed, Mount
  <2> QED
    BY <1>1, <1>2, <1>4, <2>1
<1> QED
  BY <1>3, <1>4

LEMMA TrimmedByPathIs ==
    ASSUME NEW ms \in Seq(Mount)
    PROVE  /\ TrimmedByPath(ms) \in Seq(Mount) /\ Len(TrimmedByPath(ms)) = Len(ms)
           /\ DOMAIN TrimmedByPath(ms) = 1..Len(ms)
           /\ \A i \in 1..Len(ms) : TrimmedByPath(ms)[i] = Trimmed(ByPath(ms)[i])
           /\ {TrimmedByPath(ms)[i] : i \in 1..Len(ms)} = {Trimmed(ms[i]) : i \in 1..Len(ms)}
<1> DEFINE s == ByPath(ms)
           out == TrimmedByPath(ms)
<1>1. Len(ms) \in Nat /\ DOMAIN ms = 1..Len(ms)
  OBVIOUS
<1>2. /\ s \in Seq(Mount) /\ Len(s) = Len(ms) /\ DOMAIN s = 1..Len(ms)
      /\ \E o \in Bijection(1..Len(ms), 1..Len(ms)) : \A i \in 1..Len(ms) : s[i] = ms[o[i]]
  BY <1>1, ByPathIs
<1>3. out = [i \in 1..Len(ms) |-> Trimmed(s[i])]
  BY <1>1 DEF TrimmedByPath
<1> HIDE DEF s, out
<1>4. \A i \in 1..Len(ms) : Trimmed(s[i]) \in Mount
  <2>1. \A i \in 1..Len(ms) : s[i] \in Mount
    BY <1>1, <1>2
  <2> QED
    BY <2>1, TrimmedIs
<1>5. out \in [1..Len(ms) -> Mount] /\ \A i \in 1..Len(ms) : out[i] = Trimmed(s[i])
  BY <1>3, <1>4
<1>6. out \in Seq(Mount)
  BY <1>1, <1>5, SeqDef
<1>7. Len(out) = Len(ms)
  <2>1. DOMAIN out = 1..Len(ms) /\ DOMAIN out = 1..Len(out) /\ Len(out) \in Nat
    BY <1>5, <1>6
  <2> QED
    BY <1>1, <2>1
<1>8. /\ \A i \in 1..Len(ms) : \E j \in 1..Len(ms) : s[i] = ms[j]
      /\ \A j \in 1..Len(ms) : \E i \in 1..Len(ms) : s[i] = ms[j]
  <2>1. PICK o \in Bijection(1..Len(ms), 1..Len(ms)) : \A i \in 1..Len(ms) : s[i] = ms[o[i]]
    BY <1>2
  <2>2. /\ \A i \in 1..Len(ms) : o[i] \in 1..Len(ms)
        /\ \A w \in 1..Len(ms) : \E v \in 1..Len(ms) : o[v] = w
    BY <2>1 DEF Bijection, Injection, Surjection
  <2>3. ASSUME NEW i \in 1..Len(ms) PROVE \E j \in 1..Len(ms) : s[i] = ms[j]
    <3>1. s[i] = ms[o[i]] /\ o[i] \in 1..Len(ms)
      BY <2>1, <2>2
    <3> QED
      BY <3>1
  <2>4. ASSUME NEW j \in 1..Len(ms) PROVE \E i \in 1..Len(ms) : s[i] = ms[j]
    <3>1. PICK v \in 1..Len(ms) : o[v] = j
      BY <2>2
    <3>2. s[v] = ms[j]
      BY <2>1, <3>1
    <3> QED
      BY <3>2
  <2> QED
    BY <2>3, <2>4
<1>9. {out[i] : i \in 1..Len(ms)} = {Trimmed(ms[i]) : i \in 1..Len(ms)}
  <2>1. ASSUME NEW i \in 1..Len(ms) PROVE out[i] \in {Trimmed(ms[j]) : j \in 1..Len(ms)}
    BY <1>5, <1>8
  <2>2. ASSUME NEW j \in 1..Len(ms) PROVE Trimmed(ms[j]) \in {out[i] : i \in 1..Len(ms)}
    <3>1. PICK i \in 1..Len(ms) : s[i] = ms[j]
      BY <1>8
    <3>2. out[i] = Trimmed(ms[j])
      BY <1>5, <3>1
    <3> QED
      BY <3>2
  <2> QED
    BY <2>1, <2>2
<1>10. DOMAIN out = 1..Len(ms)
  BY <1>3
<1> QED
  BY <1>5, <1>6, <1>7, <1>9, <1>10 DEF s, out

\* A request in its normal form.
LEMMA NormalIs ==
    ASSUME NEW p, ParamType(p)
    PROVE  /\ Normal(p).image = p.image /\ Normal(p).log = p.log /\ Normal(p).args = p.args
           /\ Normal(p).inputs = TrimmedByPath(p.inputs) /\ Normal(p).outputs = TrimmedByPath(p.outputs)
           /\ Normal(p).onNode = ByNode(p.onNode)
           /\ Normal(p).inputs \in Seq(Mount) /\ Normal(p).outputs \in Seq(Mount)
<1>1. DOMAIN p = {"image", "inputs", "outputs", "log", "args", "onNode"}
  BY DEF ParamType
<1>2. /\ Normal(p).image = p.image /\ Normal(p).log = p.log /\ Normal(p).args = p.args
      /\ Normal(p).inputs = TrimmedByPath(p.inputs) /\ Normal(p).outputs = TrimmedByPath(p.outputs)
      /\ Normal(p).onNode = ByNode(p.onNode)
  BY <1>1 DEF Normal
<1>3. p.inputs \in Seq(Mount) /\ p.outputs \in Seq(Mount)
  BY DEF ParamType
<1> QED
  BY <1>2, <1>3, TrimmedByPathIs

LEMMA MountsAre ==
    ASSUME NEW p, p.inputs \in Seq(Mount), p.outputs \in Seq(Mount)
    PROVE  /\ Mounts(p) \in Seq(Mount) /\ DOMAIN Mounts(p) \subseteq Nat /\ DOMAIN Mounts(p) = 1..Len(p.inputs) + Len(p.outputs)
           /\ \A i \in 1..Len(p.inputs) : Mounts(p)[i] = p.inputs[i]
           /\ \A i \in 1..Len(p.outputs) : Mounts(p)[Len(p.inputs) + i] = p.outputs[i]
<1> DEFINE a == p.inputs
           b == p.outputs
<1>1. a \in Seq(Mount) /\ b \in Seq(Mount) /\ Len(a) \in Nat /\ Len(b) \in Nat
  OBVIOUS
<1> HIDE DEF a, b
<1>2. /\ a \o b \in Seq(Mount) /\ Len(a \o b) = Len(a) + Len(b)
      /\ \A i \in 1..Len(a) : (a \o b)[i] = a[i]
      /\ \A i \in 1..Len(b) : (a \o b)[Len(a) + i] = b[i]
  BY <1>1
<1>3. DOMAIN (a \o b) = 1..Len(a) + Len(b)
  BY <1>1, <1>2
<1>4. DOMAIN (a \o b) \subseteq Nat
  BY <1>1, <1>3
<1> QED
  BY <1>2, <1>3, <1>4 DEF Mounts, a, b

\* What a valid request has.
LEMMA ValidIs ==
    ASSUME NEW p, ParamType(p), Verdict(p) = "valid"
    PROVE  \A i \in DOMAIN Mounts(Normal(p)) :
              /\ AbsoluteAndClean(Mounts(Normal(p))[i].path)
              /\ ~Overlaps(Normal(p), i)
<1> DEFINE
      spec == Normal(p)
      bad == {i \in DOMAIN Mounts(spec) : MountFault(spec, i) # "valid"}
      first == CHOOSE i \in bad : \A j \in bad : i <= j
<1>1. bad # {} => MountFault(spec, first) = "valid"
  <2> DEFINE
        A == p.image = ""
        B == p.inputs = <<>>
        C == \E i \in DOMAIN Mounts(p) : Mounts(p)[i].path = <<>>
        D == bad # {}
        E == \E tags \in p.log : SystemTags(tags) # {}
        x == MountFault(spec, first)
  <2>2. Verdict(p) = IF A THEN "nameless" ELSE IF B THEN "unreachable" ELSE IF C THEN "bad path" ELSE IF D THEN x
                         ELSE IF E THEN "bad tag" ELSE "valid"
    BY DEF Verdict
  <2> HIDE DEF A, B, C, D, E, x
  <2>3. D => x = "valid"
    BY <2>2
  <2> QED
    BY <2>3 DEF D, x
<1>2. bad = {}
  <2>1. SUFFICES ASSUME bad # {} PROVE FALSE
    OBVIOUS
  <2>2. DOMAIN Mounts(spec) \subseteq Nat
    <3>1. spec.inputs \in Seq(Mount) /\ spec.outputs \in Seq(Mount)
      BY NormalIs
    <3> QED
      BY <3>1, MountsAre
  <2>3. bad \in SUBSET Nat
    BY <2>2
  <2>4. \E i \in bad : \A j \in bad : i <= j
    <3> HIDE DEF bad
    <3> QED
      BY <2>1, <2>3, LeastNat
  <2>5. first \in bad
    <3> HIDE DEF bad
    <3> QED
      BY <2>4
  <2>6. MountFault(spec, first) # "valid"
    <3> HIDE DEF first
    <3> QED
      BY <2>5
  <2> QED
    BY <1>1, <2>1, <2>6
<1>3. ASSUME NEW i \in DOMAIN Mounts(spec)
      PROVE  AbsoluteAndClean(Mounts(spec)[i].path) /\ ~Overlaps(spec, i)
  <2>1. MountFault(spec, i) = "valid"
    BY <1>2
  <2> QED
    BY <2>1 DEF MountFault
<1> QED
  BY <1>3

LEMMA PrefixIs ==
    ASSUME NEW a \in Str, NEW b \in Str
    PROVE  IsPrefix(a, b) <=> Len(a) <= Len(b) /\ \A k \in 1..Len(a) : a[k] = b[k]
<1>1. Len(a) \in Nat /\ Len(b) \in Nat
  BY DEF Str
<1>2. ASSUME IsPrefix(a, b) PROVE Len(a) <= Len(b) /\ \A k \in 1..Len(a) : a[k] = b[k]
  <2>1. Len(a) <= Len(b) /\ SubSeq(a, 1, Len(a)) = SubSeq(b, 1, Len(a))
    BY <1>2 DEF IsPrefix
  <2>2. ASSUME NEW k \in 1..Len(a) PROVE a[k] = b[k]
    <3>1. SubSeq(a, 1, Len(a))[k] = a[k] /\ SubSeq(b, 1, Len(a))[k] = b[k]
      BY <1>1, <2>1 DEF Str
    <3> QED
      BY <2>1, <3>1
  <2> QED
    BY <2>1, <2>2
<1>3. ASSUME Len(a) <= Len(b), \A k \in 1..Len(a) : a[k] = b[k] PROVE IsPrefix(a, b)
  <2>1. /\ SubSeq(a, 1, Len(a)) \in Seq(Nat) /\ SubSeq(b, 1, Len(a)) \in Seq(Nat)
        /\ Len(SubSeq(a, 1, Len(a))) = Len(a) /\ Len(SubSeq(b, 1, Len(a))) = Len(a)
        /\ \A k \in 1..Len(a) : SubSeq(a, 1, Len(a))[k] = a[k] /\ SubSeq(b, 1, Len(a))[k] = b[k]
    BY <1>1, <1>3 DEF Str
  <2>2. SubSeq(a, 1, Len(a)) = SubSeq(b, 1, Len(a))
    BY <1>3, <2>1, SeqEqual
  <2> QED
    BY <1>3, <2>2 DEF IsPrefix
<1> QED
  BY <1>2, <1>3

LEMMA WithSlashIs ==
    ASSUME NEW a \in Str
    PROVE  /\ WithSlash(a) \in Str /\ Len(a) <= Len(WithSlash(a))
           /\ \A k \in 1..Len(a) : WithSlash(a)[k] = a[k]
<1>1. CASE EndsInSlash(a)
  BY <1>1 DEF WithSlash, Str
<1>2. CASE ~EndsInSlash(a)
  <2>1. WithSlash(a) = a \o <<Slash>> /\ a \in Seq(Nat) /\ <<Slash>> \in Seq(Nat)
    BY <1>2 DEF WithSlash, Str, Slash
  <2> QED
    BY <2>1 DEF Str
<1> QED
  BY <1>1, <1>2

\* A path that begins with all of another overlaps it.
LEMMA PrefixesOverlap ==
    ASSUME NEW a \in Str, NEW b \in Str, Len(a) <= Len(b), \A k \in 1..Len(a) : a[k] = b[k]
    PROVE  PathOverlap(a, b) /\ PathOverlap(b, a)
<1>1. IsPrefix(a, WithSlash(b))
  <2>1. Len(a) \in Nat /\ Len(b) \in Nat /\ Len(WithSlash(b)) \in Nat
    BY WithSlashIs DEF Str
  <2>2. Len(a) <= Len(WithSlash(b)) /\ \A k \in 1..Len(a) : a[k] = WithSlash(b)[k]
    BY <2>1, WithSlashIs
  <2> QED
    BY <2>2, WithSlashIs, PrefixIs
<1> QED
  BY <1>1 DEF PathOverlap

\* Mounts apart are in one order, before their paths are trimmed and after.
LEMMA InOneOrder ==
    ASSUME NEW m \in Mount, NEW n \in Mount, ~Sooner(n.path, m.path),
           ~PathOverlap(Trimmed(m).path, Trimmed(n).path)
    PROVE  Sooner(Trimmed(m).path, Trimmed(n).path)
<1> DEFINE a == Trimmed(m).path
           b == Trimmed(n).path
<1>1. /\ a \in Str /\ b \in Str /\ m.path \in Str /\ n.path \in Str
      /\ Len(a) <= Len(m.path) /\ \A k \in 1..Len(a) : a[k] = m.path[k]
      /\ Len(b) <= Len(n.path) /\ \A k \in 1..Len(b) : b[k] = n.path[k]
  BY TrimmedIs, PathsAreStr DEF Mount
<1>2. ~PathOverlap(a, b)
  OBVIOUS
<1> HIDE DEF a, b
<1>3. Len(a) \in Nat /\ Len(b) \in Nat /\ Len(m.path) \in Nat /\ Len(n.path) \in Nat
  BY <1>1 DEF Str
<1>4. a # b
  BY <1>1, <1>2, <1>3, PrefixesOverlap
<1>5. ~Sooner(b, a)
  <2>1. SUFFICES ASSUME Sooner(b, a) PROVE FALSE
    OBVIOUS
  <2>2. PICK k \in 1..Len(a) :
            /\ \A l \in 1..k - 1 : l <= Len(b) /\ b[l] = a[l]
            /\ k = Len(b) + 1 \/ (k <= Len(b) /\ b[k] < a[k])
    BY <2>1 DEF Sooner
  <2>3. CASE k = Len(b) + 1
    <3>1. Len(b) <= Len(a) /\ \A l \in 1..Len(b) : b[l] = a[l]
      BY <1>3, <2>2, <2>3
    <3> QED
      BY <1>1, <1>2, <3>1, PrefixesOverlap
  <2>4. CASE k <= Len(b) /\ b[k] < a[k]
    <3>0. k \in 1..Len(a) /\ k \in 1..Len(b)
      BY <1>3, <2>2, <2>4
    <3>1. k \in 1..Len(m.path) /\ k <= Len(n.path) /\ n.path[k] < m.path[k]
      <4>1. a[k] = m.path[k] /\ b[k] = n.path[k]
        BY <1>1, <3>0
      <4> QED
        BY <1>1, <1>3, <2>4, <3>0, <4>1
    <3>2. \A l \in 1..k - 1 : l <= Len(n.path) /\ n.path[l] = m.path[l]
      BY <1>1, <1>3, <2>2, <2>4
    <3>3. Sooner(n.path, m.path)
      BY <3>1, <3>2 DEF Sooner
    <3> QED
      BY <3>3
  <2> QED
    BY <2>2, <2>3, <2>4
<1>6. Sooner(a, b)
  BY <1>1, <1>4, <1>5, SoonerTotal
<1> QED
  BY <1>6 DEF a, b

\* Neither the slash at the end of a path makes a difference.
LEMMA TrimmedOnce ==
    ASSUME NEW m \in Mount, NEW n \in Mount, AbsoluteAndClean(m.path), AbsoluteAndClean(n.path),
           Trimmed(m) = Trimmed(n)
    PROVE  m = n
<1>1. ASSUME NEW x \in Mount, AbsoluteAndClean(x.path)
      PROVE  Trimmed(x) = x \/ (x.path = <<Slash>> /\ Trimmed(x).path = <<>> /\ Trimmed(x).tags = x.tags)
  <2>1. x.path = <<Slash>> \/ ~EndsInSlash(x.path)
    BY <1>1 DEF AbsoluteAndClean
  <2>2. CASE x.path = <<Slash>>
    <3>1. EndsInSlash(x.path) /\ Front(x.path) = <<>>
      BY <2>2 DEF EndsInSlash, Last, Front
    <3> QED
      BY <2>2, <3>1, TrimmedIs
  <2> QED
    BY <2>1, <2>2, TrimmedIs
<1>2. \A x \in Mount : AbsoluteAndClean(x.path) => x.path # <<>>
  BY DEF AbsoluteAndClean
<1>3. \A x, y \in Mount : x.path = y.path /\ x.tags = y.tags => x = y
  BY DEF Mount
<1> QED
  BY <1>1, <1>2, <1>3
\* Mounts that are apart are sorted by the paths they are stored with.
LEMMA StrictlySorted ==
    ASSUME NEW ms \in Seq(Mount),
           \A i, j \in 1..Len(ms) : i < j => ~PathOverlap(TrimmedByPath(ms)[i].path, TrimmedByPath(ms)[j].path)
    PROVE  \A i, j \in 1..Len(ms) : i < j => Sooner(TrimmedByPath(ms)[i].path, TrimmedByPath(ms)[j].path)
<1> SUFFICES ASSUME NEW i \in 1..Len(ms), NEW j \in 1..Len(ms), i < j
             PROVE  Sooner(TrimmedByPath(ms)[i].path, TrimmedByPath(ms)[j].path)
  OBVIOUS
<1> DEFINE m == ByPath(ms)[i]
           n == ByPath(ms)[j]
<1>1. m \in Mount /\ n \in Mount /\ ~Sooner(n.path, m.path)
  <2>1. Len(ms) \in Nat /\ DOMAIN ms = 1..Len(ms)
    OBVIOUS
  <2>2. ByPath(ms) \in Seq(Mount) /\ Len(ByPath(ms)) = Len(ms)
    BY ByPathIs
  <2>3. ~Sooner(n.path, m.path)
    BY <2>1, ByPathIs
  <2>4. ByPath(ms)[i] \in Mount /\ ByPath(ms)[j] \in Mount
    BY <2>1, <2>2
  <2> QED
    BY <2>3, <2>4
<1>2. TrimmedByPath(ms)[i] = Trimmed(m) /\ TrimmedByPath(ms)[j] = Trimmed(n)
  BY TrimmedByPathIs
<1>3. ~PathOverlap(Trimmed(m).path, Trimmed(n).path)
  BY <1>2
<1> HIDE DEF m, n
<1> QED
  BY <1>1, <1>2, <1>3, InOneOrder

\* The mounts of a plan that is stored.
Tidy(ms) ==
    /\ ms \in Seq(Mount) /\ \A i \in 1..Len(ms) : AbsoluteAndClean(ms[i].path)
    /\ \A i, j \in 1..Len(ms) : i < j => Sooner(ms[i].path, ms[j].path)

LEMMA ValidTidy ==
    ASSUME NEW p, ParamType(p), Verdict(p) = "valid"
    PROVE  Tidy(Normal(p).inputs) /\ Tidy(Normal(p).outputs)
<1> DEFINE
      spec == Normal(p)
      ins == TrimmedByPath(p.inputs)
      outs == TrimmedByPath(p.outputs)
<1>1. p.inputs \in Seq(Mount) /\ p.outputs \in Seq(Mount)
  BY DEF ParamType
<1>2. spec.inputs = ins /\ spec.outputs = outs /\ spec.inputs \in Seq(Mount) /\ spec.outputs \in Seq(Mount)
  BY NormalIs
<1>3. \A i \in DOMAIN Mounts(spec) : AbsoluteAndClean(Mounts(spec)[i].path) /\ ~Overlaps(spec, i)
  BY ValidIs
<1>4. /\ DOMAIN Mounts(spec) = 1..Len(spec.inputs) + Len(spec.outputs)
      /\ \A i \in 1..Len(spec.inputs) : Mounts(spec)[i] = spec.inputs[i]
      /\ \A i \in 1..Len(spec.outputs) : Mounts(spec)[Len(spec.inputs) + i] = spec.outputs[i]
  BY <1>2, MountsAre
<1>5. \A i, j \in DOMAIN Mounts(spec) : i < j => ~PathOverlap(Mounts(spec)[i].path, Mounts(spec)[j].path)
  BY <1>3 DEF Overlaps
<1>6. /\ ins \in Seq(Mount) /\ Len(ins) = Len(p.inputs) /\ Len(ins) \in Nat
      /\ outs \in Seq(Mount) /\ Len(outs) = Len(p.outputs) /\ Len(outs) \in Nat
  BY <1>1, TrimmedByPathIs
<1> DEFINE all == Mounts(spec)
<1>7. /\ DOMAIN all = 1..Len(ins) + Len(outs)
      /\ \A i \in 1..Len(ins) : all[i] = ins[i]
      /\ \A i \in 1..Len(outs) : all[Len(ins) + i] = outs[i]
  BY <1>2, <1>4
<1>7a. /\ \A i \in 1..Len(ins) : i \in DOMAIN all
       /\ \A i \in 1..Len(outs) : Len(ins) + i \in DOMAIN all
  <2> DEFINE k == Len(ins)
             l == Len(outs)
  <2>1. k \in Nat /\ l \in Nat /\ DOMAIN all = 1..k + l
    BY <1>6, <1>7
  <2> HIDE DEF k, l, all
  <2>2. (\A i \in 1..k : i \in DOMAIN all) /\ \A i \in 1..l : k + i \in DOMAIN all
    BY <2>1
  <2> QED
    BY <2>2 DEF k, l
<1>8. \A i, j \in DOMAIN all : i < j => ~PathOverlap(all[i].path, all[j].path)
  BY <1>5
<1>9. \A i \in DOMAIN all : AbsoluteAndClean(all[i].path)
  BY <1>3
<1> HIDE DEF all, ins, outs, spec
<1>10. \A i, j \in 1..Len(ins) : i < j => ~PathOverlap(ins[i].path, ins[j].path)
  <2>1. ASSUME NEW i \in 1..Len(ins), NEW j \in 1..Len(ins), i < j PROVE ~PathOverlap(ins[i].path, ins[j].path)
    <3>1. i \in DOMAIN all /\ j \in DOMAIN all
      BY <1>7a
    <3>2. ~PathOverlap(all[i].path, all[j].path)
      BY <1>8, <2>1, <3>1
    <3> QED
      BY <1>7, <3>2
  <2> QED
    BY <2>1
<1>11. ASSUME NEW i \in 1..Len(outs), NEW j \in 1..Len(outs), i < j PROVE ~PathOverlap(outs[i].path, outs[j].path)
  <2>0. i \in Nat /\ j \in Nat /\ Len(ins) \in Nat
    BY <1>6
  <2>1. Len(ins) + i \in DOMAIN all /\ Len(ins) + j \in DOMAIN all /\ Len(ins) + i < Len(ins) + j
    BY <1>7a, <1>11, <2>0
  <2>2. ~PathOverlap(all[Len(ins) + i].path, all[Len(ins) + j].path)
    BY <1>8, <2>1
  <2> QED
    BY <1>7, <2>2
<1>12. \A i \in 1..Len(ins) : AbsoluteAndClean(ins[i].path)
  BY <1>7, <1>7a, <1>9
<1>13. \A i \in 1..Len(outs) : AbsoluteAndClean(outs[i].path)
  BY <1>7, <1>7a, <1>9
<1>14. \A i, j \in 1..Len(ins) : i < j => Sooner(ins[i].path, ins[j].path)
  BY <1>1, <1>6, <1>10, StrictlySorted DEF ins
<1>15. \A i, j \in 1..Len(outs) : i < j => Sooner(outs[i].path, outs[j].path)
  BY <1>1, <1>6, <1>11, StrictlySorted DEF outs
<1>16. Tidy(ins) /\ Tidy(outs)
  BY <1>6, <1>12, <1>13, <1>14, <1>15 DEF Tidy
<1> QED
  BY <1>2, <1>16 DEF spec

\* They are told by what is mounted where.
LEMMA TidyOnce ==
    ASSUME NEW s, NEW t, Tidy(s), Tidy(t), {Trimmed(s[i]) : i \in DOMAIN s} = {Trimmed(t[i]) : i \in DOMAIN t}
    PROVE  s = t
<1> DEFINE R == {p \in Mount \X Mount : Sooner(p[1].path, p[2].path)}
<1>1. /\ s \in Seq(Mount) /\ Len(s) \in Nat /\ DOMAIN s = 1..Len(s) /\ \A i \in 1..Len(s) : s[i] \in Mount
      /\ t \in Seq(Mount) /\ Len(t) \in Nat /\ DOMAIN t = 1..Len(t) /\ \A i \in 1..Len(t) : t[i] \in Mount
  BY DEF Tidy
<1>2. \A x, y \in Mount : <<x, y>> \in R <=> Sooner(x.path, y.path)
  OBVIOUS
<1>3. \A x \in Mount : x.path \in Str
  BY PathsAreStr DEF Mount
<1>4. ASSUME NEW i \in DOMAIN s PROVE s[i] \in {t[j] : j \in DOMAIN t}
  <2>1. Trimmed(s[i]) \in {Trimmed(t[j]) : j \in DOMAIN t}
    OBVIOUS
  <2>2. PICK j \in DOMAIN t : Trimmed(s[i]) = Trimmed(t[j])
    BY <2>1
  <2>3. s[i] = t[j]
    BY <1>1, <2>2, TrimmedOnce DEF Tidy
  <2> QED
    BY <2>3
<1>5. ASSUME NEW i \in DOMAIN t PROVE t[i] \in {s[j] : j \in DOMAIN s}
  <2>0. Trimmed(t[i]) \in {Trimmed(t[j]) : j \in DOMAIN t}
    OBVIOUS
  <2>1. Trimmed(t[i]) \in {Trimmed(s[j]) : j \in DOMAIN s}
    BY <2>0
  <2>2. PICK j \in DOMAIN s : Trimmed(t[i]) = Trimmed(s[j])
    BY <2>1
  <2>3. t[i] = s[j]
    BY <1>1, <2>2, TrimmedOnce DEF Tidy
  <2> QED
    BY <2>3
<1>6. {s[i] : i \in DOMAIN s} = {t[i] : i \in DOMAIN t}
  BY <1>4, <1>5
<1>7. /\ \A i, j \in DOMAIN s : i < j => <<s[i], s[j]>> \in R
      /\ \A i, j \in DOMAIN t : i < j => <<t[i], t[j]>> \in R
  BY <1>1, <1>2 DEF Tidy
<1>8. \A x \in Mount : <<x, x>> \notin R
  BY <1>2, <1>3, SoonerOnce
<1>9. \A x, y, z \in Mount : <<x, y>> \in R /\ <<y, z>> \in R => <<x, z>> \in R
  BY <1>2, <1>3, SoonerThen
<1>10. s \in Seq(Mount) /\ t \in Seq(Mount)
  BY <1>1
<1> HIDE DEF R
<1> QED
  BY <1>6, <1>7, <1>8, <1>9, <1>10, SortedOnce

LEMMA NodesOnce ==
    ASSUME NEW s \in Seq(Nat), NEW t \in Seq(Nat), ~Repeats(s), ~Repeats(t),
           {ByNode(s)[i] : i \in DOMAIN ByNode(s)} = {ByNode(t)[i] : i \in DOMAIN ByNode(t)}
    PROVE  ByNode(s) = ByNode(t)
<1> DEFINE R == {p \in Nat \X Nat : p[1] < p[2]}
<1>1. \A x, y \in Nat : <<x, y>> \in R <=> x < y
  OBVIOUS
<1>2. ASSUME NEW u \in Seq(Nat), ~Repeats(u), NEW out, out = ByNode(u)
      PROVE  out \in Seq(Nat) /\ \A i, j \in DOMAIN out : i < j => <<out[i], out[j]>> \in R
  <2>1. /\ out \in Seq(Nat) /\ DOMAIN out = DOMAIN u
        /\ \A i, j \in DOMAIN u : i < j => out[i] <= out[j]
        /\ \E o \in Bijection(DOMAIN u, DOMAIN u) : \A i \in DOMAIN u : out[i] = u[o[i]]
    BY <1>2, NodesAre
  <2>2. PICK o \in Bijection(DOMAIN u, DOMAIN u) : \A i \in DOMAIN u : out[i] = u[o[i]]
    BY <2>1
  <2>3. \A i, j \in DOMAIN u : o[i] \in DOMAIN u /\ (o[i] = o[j] => i = j)
    BY DEF Bijection, Injection, IsInjective
  <2>4. \A i, j \in DOMAIN u : u[i] = u[j] => i = j
    BY <1>2 DEF Repeats
  <2>5. ASSUME NEW i \in DOMAIN out, NEW j \in DOMAIN out, i < j PROVE <<out[i], out[j]>> \in R
    <3>1. out[i] <= out[j] /\ out[i] \in Nat /\ out[j] \in Nat
      BY <2>1, <2>5
    <3>2. DOMAIN u \subseteq Nat
      OBVIOUS
    <3>3. i # j /\ i \in DOMAIN u /\ j \in DOMAIN u
      BY <2>1, <2>5, <3>2
    <3>4. out[i] # out[j]
      BY <2>2, <2>3, <2>4, <3>3
    <3> QED
      BY <1>1, <3>1, <3>4
  <2> QED
    BY <2>1, <2>5
<1>3. \A x \in Nat : <<x, x>> \notin R
  BY <1>1
<1>4. \A x, y, z \in Nat : <<x, y>> \in R /\ <<y, z>> \in R => <<x, z>> \in R
  BY <1>1
<1> DEFINE a == ByNode(s)
           b == ByNode(t)
<1>5. a \in Seq(Nat) /\ \A i, j \in DOMAIN a : i < j => <<a[i], a[j]>> \in R
  BY <1>2
<1>6. b \in Seq(Nat) /\ \A i, j \in DOMAIN b : i < j => <<b[i], b[j]>> \in R
  BY <1>2
<1>7. {a[i] : i \in DOMAIN a} = {b[i] : i \in DOMAIN b}
  OBVIOUS
<1> HIDE DEF R, a, b
<1>8. a = b
  BY <1>3, <1>4, <1>5, <1>6, <1>7, SortedOnce
<1> QED
  BY <1>8 DEF a, b

LEMMA SameBagSelf == ASSUME NEW s PROVE SameBag(s, s)
BY DEF SameBag

\* A plan that is stored.
May(p) == p \in Param /\ Verdict(p) = "valid" /\ ~Repeats(p.onNode)

\* What users write in another way is found by the hash and the comparison.
LEMMA TwinsMeet ==
    ASSUME PlanSpecAssumption, NEW p, NEW q, May(p), May(q), Essence(Normal(p)) = Essence(Normal(q))
    PROVE  EquivPlan(Normal(p), Normal(q))
<1> DEFINE a == Normal(p)
           b == Normal(q)
<1>1. ParamType(p) /\ ParamType(q)
  BY DEF PlanSpecAssumption, May
<1>2. /\ a.image = b.image /\ a.log = b.log /\ a.args = b.args
      /\ {Trimmed(a.inputs[i]) : i \in DOMAIN a.inputs} = {Trimmed(b.inputs[i]) : i \in DOMAIN b.inputs}
      /\ {Trimmed(a.outputs[i]) : i \in DOMAIN a.outputs} = {Trimmed(b.outputs[i]) : i \in DOMAIN b.outputs}
      /\ {a.onNode[i] : i \in DOMAIN a.onNode} = {b.onNode[i] : i \in DOMAIN b.onNode}
  <2>1. Essence(a) = Essence(b)
    OBVIOUS
  <2> HIDE DEF a, b
  <2> QED
    BY <2>1 DEF Essence
<1>3. Tidy(a.inputs) /\ Tidy(b.inputs) /\ Tidy(a.outputs) /\ Tidy(b.outputs)
  BY <1>1, ValidTidy DEF May
<1>4. a.inputs = b.inputs /\ a.outputs = b.outputs
  <2> HIDE DEF a, b
  <2> QED
    BY <1>2, <1>3, TidyOnce
<1>5. a.onNode = b.onNode
  <2>1. a.onNode = ByNode(p.onNode) /\ b.onNode = ByNode(q.onNode)
    BY <1>1, NormalIs
  <2>2. p.onNode \in Seq(Nat) /\ q.onNode \in Seq(Nat) /\ ~Repeats(p.onNode) /\ ~Repeats(q.onNode)
    BY <1>1 DEF ParamType, May
  <2>3. {a.onNode[i] : i \in DOMAIN a.onNode} = {b.onNode[i] : i \in DOMAIN b.onNode}
    BY <1>2
  <2> DEFINE s == p.onNode
             t == q.onNode
  <2> HIDE DEF a, b, s, t
  <2>4. /\ s \in Seq(Nat) /\ t \in Seq(Nat) /\ ~Repeats(s) /\ ~Repeats(t)
        /\ {ByNode(s)[i] : i \in DOMAIN ByNode(s)} = {ByNode(t)[i] : i \in DOMAIN ByNode(t)}
    BY <2>1, <2>2, <2>3 DEF s, t
  <2>5. ByNode(s) = ByNode(t)
    BY <2>4, NodesOnce
  <2> QED
    BY <2>1, <2>5 DEF s, t
<1> HIDE DEF a, b
<1>6. Hash(a) = Hash(b)
  BY <1>2, <1>4, <1>5 DEF Hash
<1>7. EquivPlan(a, b)
  BY <1>2, <1>4, <1>6, SameBagSelf DEF EquivPlan
<1> QED
  BY <1>7 DEF a, b

-----------------------------------------------------------------------------

Accepted == stored \in Seq({Normal(p) : p \in {q \in Param : May(q)}})

LEMMA RequestsStart == RequestsInit => Accepted /\ NoTwins
BY DEF RequestsInit, Accepted, NoTwins

LEMMA RequestsStep ==
    ASSUME PlanSpecAssumption, Accepted, NoTwins, [RequestsNext]_requestVars
    PROVE  Accepted' /\ NoTwins'
<1> DEFINE Ok == {q \in Param : May(q)}
           Specs == {Normal(p) : p \in Ok}
<1>1. ASSUME NEW p \in Param, RegisterPlan(p) PROVE Accepted' /\ NoTwins'
  <2>1. /\ May(p) /\ stored' = Append(stored, Normal(p))
        /\ \A i \in DOMAIN stored : ~EquivPlan(Normal(p), stored[i])
    BY <1>1 DEF RegisterPlan, IsNew, May
  <2>2. stored \in Seq(Specs) /\ Normal(p) \in Specs
    BY <2>1 DEF Accepted
  <2> DEFINE x == Normal(p)
  <2>3. x \in Specs /\ stored' = Append(stored, x) /\ \A i \in DOMAIN stored : ~EquivPlan(x, stored[i])
    BY <2>1, <2>2
  <2>4. ASSUME NEW i \in DOMAIN stored PROVE Essence(stored[i]) # Essence(x)
    <3>1. stored[i] \in Specs
      BY <2>2
    <3>2. PICK q \in Ok : stored[i] = Normal(q)
      BY <3>1
    <3>3. SUFFICES ASSUME Essence(Normal(p)) = Essence(Normal(q)) PROVE EquivPlan(Normal(p), Normal(q))
      BY <2>1, <3>2
    <3>4. May(q)
      OBVIOUS
    <3> QED
      BY <2>1, <3>3, <3>4, TwinsMeet
  <2> HIDE DEF x, Specs
  <2>5. /\ stored' \in Seq(Specs) /\ Len(stored) \in Nat /\ DOMAIN stored = 1..Len(stored)
        /\ DOMAIN stored' = 1..Len(stored) + 1 /\ stored'[Len(stored) + 1] = x
        /\ \A i \in 1..Len(stored) : stored'[i] = stored[i]
    BY <2>2, <2>3
  <2>6. ASSUME NEW i \in DOMAIN stored', NEW j \in DOMAIN stored', Essence(stored'[i]) = Essence(stored'[j])
        PROVE  i = j
    <3>1. CASE i \in DOMAIN stored /\ j \in DOMAIN stored
      BY <2>5, <2>6, <3>1 DEF NoTwins
    <3>2. CASE i \in DOMAIN stored /\ j \notin DOMAIN stored
      BY <2>4, <2>5, <2>6, <3>2
    <3>3. CASE i \notin DOMAIN stored /\ j \in DOMAIN stored
      BY <2>4, <2>5, <2>6, <3>3
    <3>4. CASE i \notin DOMAIN stored /\ j \notin DOMAIN stored
      BY <2>5, <3>4
    <3> QED
      BY <3>1, <3>2, <3>3, <3>4
  <2>7. NoTwins'
    BY <2>6 DEF NoTwins
  <2> QED
    BY <2>5, <2>7 DEF Accepted, Specs
<1>2. CASE UNCHANGED stored
  BY <1>2 DEF Accepted, NoTwins
<1>3. UNCHANGED stored \/ \E p \in Param : RegisterPlan(p)
  BY DEF RequestsNext, Post, Refuse, Conflict, Rollback, requestVars
<1> QED
  BY <1>1, <1>2, <1>3

LEMMA AcceptedApart == ASSUME PlanSpecAssumption, Accepted PROVE MountsApart
<1> SUFFICES ASSUME NEW n \in DOMAIN stored,
                    NEW i \in DOMAIN Mounts(stored[n]), NEW j \in DOMAIN Mounts(stored[n]),
                    Inside(Mounts(stored[n])[i].path, Mounts(stored[n])[j].path), i # j
             PROVE  FALSE
  BY DEF MountsApart
<1>1. stored[n] \in {Normal(p) : p \in {q \in Param : May(q)}}
  BY DEF Accepted
<1>2. PICK p \in Param : May(p) /\ stored[n] = Normal(p)
  BY <1>1
<1>3. ParamType(p)
  BY DEF PlanSpecAssumption
<1> DEFINE ms == Mounts(Normal(p))
           a == ms[i].path
           b == ms[j].path
<1>4. Normal(p).inputs \in Seq(Mount) /\ Normal(p).outputs \in Seq(Mount)
  BY <1>3, NormalIs
<1>5. ms \in Seq(Mount) /\ DOMAIN ms \subseteq Nat
  BY <1>4, MountsAre
<1>6. \A k \in DOMAIN ms : ~Overlaps(Normal(p), k)
  BY <1>2, <1>3, ValidIs DEF May
<1>7. \A k, l \in DOMAIN ms : k < l => ~PathOverlap(ms[k].path, ms[l].path)
  BY <1>6 DEF Overlaps
<1>8. i \in DOMAIN ms /\ j \in DOMAIN ms /\ Inside(a, b)
  BY <1>2
<1> HIDE DEF ms
<1>9. a \in Str /\ b \in Str
  <2>1. ms[i] \in Mount /\ ms[j] \in Mount
    BY <1>5, <1>8
  <2>2. a \in Seq(Char) /\ b \in Seq(Char)
    BY <2>1 DEF Mount
  <2> QED
    BY <2>2, PathsAreStr
<1> HIDE DEF a, b
<1>10. Len(b) <= Len(a) /\ \A k \in 1..Len(b) : b[k] = a[k]
  <2>0. Len(a) \in Nat /\ DOMAIN a = 1..Len(a) /\ a \in Seq(Nat)
    BY <1>9 DEF Str
  <2>1. CASE a = b
    BY <2>0, <2>1
  <2>2. CASE a # b
    <3>1. PICK k \in 1..Len(a) : a[k] = Slash /\ b = IF k = 1 THEN <<Slash>> ELSE SubSeq(a, 1, k - 1)
      BY <1>8, <2>0, <2>2 DEF Inside
    <3>2. CASE k = 1
      BY <2>0, <3>1, <3>2
    <3>3. CASE k # 1
      <4>1. Len(b) = k - 1 /\ \A l \in 1..k - 1 : b[l] = a[l]
        BY <2>0, <3>1, <3>3
      <4> QED
        BY <2>0, <4>1
    <3> QED
      BY <3>2, <3>3
  <2> QED
    BY <2>1, <2>2
<1>11. PathOverlap(a, b) /\ PathOverlap(b, a)
  BY <1>9, <1>10, PrefixesOverlap
<1>12. i < j \/ j < i
  BY <1>5, <1>8
<1> QED
  BY <1>7, <1>8, <1>11, <1>12 DEF a, b

-----------------------------------------------------------------------------

\* Of all that users may ask for, of any length and any number: no mount of a plan
\* lies in another, no plan is registered twice in other words or another order;
\* GetPlan tells the same from both ends, and a search finds all that have what it
\* asks for (plan.go: Validate, Hash, EquivPlan, Register, Find).
THEOREM PlansSound == ASSUME PlanSpecAssumption PROVE PlansBehavior => []PlansAreSound
<1>1. RequestsInit => Accepted /\ NoTwins
  BY RequestsStart
<1>2. Accepted /\ NoTwins /\ [RequestsNext]_requestVars => (Accepted /\ NoTwins)'
  BY RequestsStep
<1>3. RequestsBehavior => [](Accepted /\ NoTwins)
  BY <1>1, <1>2, PTL DEF RequestsBehavior
<1>4. Accepted => MountsApart
  BY AcceptedApart
<1>5. Spec => []TypeOK
  BY TypeCorrect
<1>6. TypeOK => FindsKnown
  BY FindsAlways
<1>7. UpstreamsMirror
  BY MirrorAlways
<1>8. Accepted /\ NoTwins /\ TypeOK => PlansAreSound
  BY <1>4, <1>6, <1>7 DEF PlansAreSound
<1> QED
  BY <1>3, <1>5, <1>8, PTL DEF PlansBehavior

-----------------------------------------------------------------------------
(* The locks of the store *)

\* The kinds that take the nomination table for themselves.
Nominates == {"tag", "untag", "finish", "pick", "drop", "register"}

\* Everybody takes locks in this order.
Rank(l) ==
    CASE l.lock[1] = "nomination" -> 3
      [] l.lock[1] = "data" -> 2
      [] OTHER -> 1

\* A transaction has work to do once it has all its locks.
HeldBy(t) ==
    /\ open[t].at # "idle" =>
          /\ open[t].kind \in kinds
          /\ IF open[t].kind = "register" THEN open[t].input \in Input ELSE open[t].data \in Data
    /\ open[t].at # "idle" /\ open[t].kind = "register" /\ open[t].held > 0 => open[t].snap \in Tables
    /\ open[t].at = "lock" => open[t].held < Len(LocksOf(t))
    /\ open[t].at \in {"work", "commit"} => open[t].held = Len(LocksOf(t))
Held == \A t \in Tx : HeldBy(t)

\* One transaction at a time nominates, from what is committed.
Alone ==
    \A t, u \in Tx :
        /\ t # u /\ open[t].at \in {"work", "commit"} /\ open[u].at \in {"work", "commit"}
        => open[t].kind \notin Nominates \/ open[u].kind \notin Nominates
UpToDate ==
    "register" \notin kinds =>
        /\ committed.nom = Match(committed)
        /\ \A t \in Tx : open[t].at = "commit" =>
                           open[t].rows = {r \in Match(Apply(t, committed)) : Concerns(t, r)}

LocksIInv == LocksTypeOK /\ Held /\ Alone /\ UpToDate /\ AgentsHaveData

-----------------------------------------------------------------------------
(* What the locks of a transaction are *)

LEMMA KindsKnown == ASSUME StoreLocksAssumption, LocksTypeOK PROVE kinds \subseteq Kinds
BY DEF StoreLocksAssumption, LocksTypeOK

LEMMA LocksAre ==
    ASSUME NEW k \in Kinds, NEW d, NEW l, l = Locks(k, d)
    PROVE  \/ k \in {"tag", "untag"} /\ Len(l) = 2 /\ l[1] = X("data", d) /\ l[2] = X("nomination", "-")
           \/ k = "agent" /\ Len(l) = 1 /\ l[1] = X("data", d)
           \/ k = "finish" /\ Len(l) = 2 /\ l[1] = X("run", d) /\ l[2] = X("nomination", "-")
           \/ /\ k \in {"pick", "drop"} /\ Len(l) = 3
              /\ l[1] = X("run", d) /\ l[2] = X("data", d) /\ l[3] = X("nomination", "-")
           \/ k = "register" /\ Len(l) = 2 /\ l[1] = X("plan", "-") /\ l[2] = X("nomination", "-")
           \/ /\ k = "new" /\ Len(l) = 3
              /\ l[1] = S("plan", "-") /\ l[2] = S("data", d) /\ l[3] = S("nomination", "-")
<1>1. CASE k \in {"tag", "untag"}
  <2>1. l = <<X("data", d)>> \o <<X("nomination", "-")>>
    BY <1>1 DEF Locks, OwnLocks
  <2> QED
    BY <1>1, <2>1
<1>2. CASE k = "agent"
  <2>1. l = <<X("data", d)>> \o <<>>
    BY <1>2 DEF Locks, OwnLocks
  <2> QED
    BY <1>2, <2>1
<1>3. CASE k = "finish"
  <2>1. l = <<X("run", d)>> \o <<X("nomination", "-")>>
    BY <1>3 DEF Locks, OwnLocks
  <2> QED
    BY <1>3, <2>1
<1>4. CASE k \in {"pick", "drop"}
  <2>1. l = <<X("run", d), X("data", d)>> \o <<X("nomination", "-")>>
    BY <1>4 DEF Locks, OwnLocks
  <2> QED
    BY <1>4, <2>1
<1>5. CASE k = "register"
  <2>1. l = <<X("plan", "-")>> \o <<X("nomination", "-")>>
    BY <1>5 DEF Locks, OwnLocks
  <2> QED
    BY <1>5, <2>1
<1>6. CASE k = "new"
  <2>1. l = <<S("plan", "-"), S("data", d)>> \o <<S("nomination", "-")>>
    BY <1>6 DEF Locks, OwnLocks
  <2> QED
    BY <1>6, <2>1
<1> QED
  BY <1>1, <1>2, <1>3, <1>4, <1>5, <1>6 DEF Kinds

\* The locks ascend: runs and plans, then data, then the nominations.
LEMMA LocksAscend ==
    ASSUME NEW k \in Kinds, NEW d, NEW l, l = Locks(k, d)
    PROVE  /\ Len(l) \in 1..3 /\ 0 < Len(l)
           /\ \A i, j \in 1..Len(l) : i < j => Rank(l[i]) < Rank(l[j])
           /\ \A i \in 1..Len(l) : Rank(l[i]) \in 1..3
<1>1. \A e : /\ Rank(X("run", e)) = 1 /\ Rank(X("plan", e)) = 1 /\ Rank(S("plan", e)) = 1
             /\ Rank(X("data", e)) = 2 /\ Rank(S("data", e)) = 2
             /\ Rank(X("nomination", e)) = 3 /\ Rank(S("nomination", e)) = 3
  BY DEF Rank, X, S
<1> QED
  BY <1>1, LocksAre

\* Whoever nominates has the nominations last, and has them alone.
LEMMA NominationsLast ==
    ASSUME NEW k \in Kinds \cap Nominates, NEW d, NEW l, l = Locks(k, d)
    PROVE  Len(l) \in 2..3 /\ l[Len(l)] = X("nomination", "-")
BY LocksAre DEF Nominates

-----------------------------------------------------------------------------
(* Steps *)

LEMMA InitHeld == StoreLocksAssumption /\ LocksInit => LocksTypeOK /\ Held
<1> SUFFICES ASSUME StoreLocksAssumption, LocksInit PROVE LocksTypeOK /\ Held
  OBVIOUS
<1>1. LocksTypeOK
  BY DEF StoreLocksAssumption, LocksInit, LocksTypeOK, Tables, Closed
<1>2. Held
  BY DEF LocksInit, Held, HeldBy, Closed
<1> QED
  BY <1>1, <1>2

LEMMA OpenStep ==
    ASSUME StoreLocksAssumption, LocksTypeOK, Held, NEW t \in Tx, OpenTx(t) PROVE LocksTypeOK' /\ Held'
<1>1. PICK k \in kinds, d \in Data, i \in Input :
          open' = [open EXCEPT ![t] = [Closed EXCEPT !.kind = k, !.at = "lock",
                                       !.data = IF k = "register" THEN "-" ELSE d,
                                       !.input = IF k = "register" THEN i ELSE "-",
                                       !.snap = IF k = "drop" THEN [agents |-> committed.agents] ELSE @]]
  BY DEF OpenTx
<1>2. kinds' = kinds /\ committed' = committed
  BY DEF OpenTx
<1>3. /\ open'[t].kind = k /\ open'[t].held = 0 /\ open'[t].at = "lock"
      /\ IF k = "register" THEN open'[t].input = i ELSE open'[t].data = d
      /\ \A u \in Tx \ {t} : open'[u] = open[u]
  BY <1>1 DEF LocksTypeOK, Closed
<1>4. LocksTypeOK'
  <2>1. committed.agents \in SUBSET Data
    BY DEF LocksTypeOK, Tables
  <2>2. open'[t] = [kind |-> k, data |-> IF k = "register" THEN "-" ELSE d,
                  input |-> IF k = "register" THEN i ELSE "-", held |-> 0, at |-> "lock",
                  snap |-> IF k = "drop" THEN [agents |-> committed.agents] ELSE <<>>, rows |-> {}]
    BY <1>1 DEF LocksTypeOK, Closed
  <2>3. open' = [open EXCEPT ![t] = open'[t]]
    BY <1>1, <2>2 DEF LocksTypeOK
  <2> QED
    BY <1>2, <2>1, <2>2, <2>3 DEF LocksTypeOK
<1>5. Held'
  <2>1. \A e : 0 < Len(Locks(k, e))
    BY LocksAscend, KindsKnown
  <2> QED
    BY <1>2, <1>3, <2>1 DEF Held, HeldBy, LocksOf
<1> QED
  BY <1>4, <1>5

LEMMA AcquireStep ==
    ASSUME StoreLocksAssumption, LocksTypeOK, Held, NEW t \in Tx, Acquire(t) PROVE LocksTypeOK' /\ Held'
<1> DEFINE last == open[t].held + 1 = Len(LocksOf(t))
<1>1. /\ open[t].at = "lock" /\ kinds' = kinds /\ committed' = committed
      /\ open' = [open EXCEPT ![t].held = @ + 1, ![t].at = IF last THEN "work" ELSE @,
                          ![t].snap = IF open[t].kind = "register" /\ open[t].held = 0 THEN committed ELSE @]
  BY DEF Acquire
<1>2. open[t].held < Len(LocksOf(t)) /\ Len(LocksOf(t)) \in 1..3 /\ open[t].kind \in kinds
  BY <1>1, LocksAscend, KindsKnown DEF Held, HeldBy, LocksOf
<1>3. LocksTypeOK'
  <2>1. open[t].held \in 0..3 /\ committed \in Tables
    BY DEF LocksTypeOK
  <2>2. open[t].held + 1 \in 0..3
    <3>1. \A h \in 0..3, n \in 1..3 : h < n => h + 1 \in 0..3
      OBVIOUS
    <3> QED
      BY <1>2, <2>1, <3>1
  <2>3. open'[t] = [open[t] EXCEPT !.held = open[t].held + 1, !.at = IF last THEN "work" ELSE @,
                     !.snap = IF open[t].kind = "register" /\ open[t].held = 0 THEN committed ELSE @]
    BY <1>1 DEF LocksTypeOK
  <2>4. open' = [open EXCEPT ![t] = open'[t]]
    BY <1>1, <2>3 DEF LocksTypeOK
  <2> HIDE DEF last
  <2> QED
    BY <1>1, <2>1, <2>2, <2>3, <2>4 DEF LocksTypeOK
<1>4. /\ open'[t].kind = open[t].kind /\ open'[t].data = open[t].data /\ open'[t].held = open[t].held + 1
      /\ open'[t].at = IF last THEN "work" ELSE "lock"
      /\ open'[t].input = open[t].input
      /\ open'[t].snap = IF open[t].kind = "register" /\ open[t].held = 0 THEN committed ELSE open[t].snap
      /\ \A u \in Tx \ {t} : open'[u] = open[u]
  BY <1>1 DEF LocksTypeOK
<1>5. kinds' = kinds
  BY DEF Acquire
<1>6. Held'
  <2>1. open'[t].at = "work" => open'[t].held = Len(LocksOf(t))
    BY <1>4
  <2>2. open'[t].at = "lock" => open'[t].held < Len(LocksOf(t))
    BY <1>2, <1>4 DEF LocksTypeOK
  <2>3. open[t].kind = "register" => open'[t].snap \in Tables
    BY <1>1, <1>4 DEF LocksTypeOK, Held, HeldBy
  <2> QED
    <3>1. HeldBy(t)'
      BY <1>1, <1>4, <2>1, <2>2, <2>3 DEF Held, HeldBy, LocksOf
    <3>2. \A u \in Tx \ {t} : HeldBy(u) => HeldBy(u)'
      BY <1>4, <1>5 DEF HeldBy, LocksOf
    <3> QED
      BY <3>1, <3>2 DEF Held
<1> QED
  BY <1>3, <1>6

LEMMA ApplyType ==
    ASSUME StoreLocksAssumption, LocksTypeOK, Held, NEW t \in Tx, open[t].at # "idle", NEW v \in Tables
    PROVE  Apply(t, v) \in Tables
<1>1. IF open[t].kind = "register" THEN open[t].input \in Input ELSE open[t].data \in Data
  BY DEF Held, HeldBy
<1> QED
  BY <1>1 DEF Apply, Tables

\* An open transaction, and that it stays one with other rows.
OpenTxs(Rows) ==
    [kind : kinds \cup {"none"}, data : Data \cup {"-"}, input : Input \cup {"-"},
     held : 0..3, at : {"idle", "lock", "work", "commit"},
     snap : {<<>>} \cup [agents : SUBSET Data] \cup Tables, rows : Rows]

LEMMA WithRows ==
    ASSUME NEW Rows, NEW x \in OpenTxs(Rows), NEW r \in Rows
    PROVE  [x EXCEPT !.at = "commit", !.rows = r] \in OpenTxs(Rows)
BY DEF OpenTxs

LEMMA NominateStep ==
    ASSUME StoreLocksAssumption, LocksTypeOK, Held, NEW t \in Tx, Nominate(t) PROVE LocksTypeOK' /\ Held'
<1> DEFINE got == {r \in Match(Apply(t, View(t))) : Concerns(t, r)}
<1>1. /\ open[t].at = "work" /\ kinds' = kinds /\ committed' = committed
      /\ open' = [open EXCEPT ![t].at = "commit", ![t].rows = got]
  BY DEF Nominate
<1>2. View(t) \in Tables
  <2>1. 0 < open[t].held
    BY <1>1, LocksAscend, KindsKnown DEF Held, HeldBy, LocksOf
  <2> QED
    BY <1>1, <2>1 DEF LocksTypeOK, Held, HeldBy, View
<1>3. got \in SUBSET (Input \X Data)
  <2>1. Apply(t, View(t)).inputs \subseteq Input
    BY <1>1, <1>2, ApplyType DEF Tables
  <2> QED
    BY <2>1 DEF Match
<1> HIDE DEF got
<1>4. LocksTypeOK'
  <2>1. open'[t] = [open[t] EXCEPT !.at = "commit", !.rows = got] /\ open' = [open EXCEPT ![t] = open'[t]]
    BY <1>1 DEF LocksTypeOK
  <2>2. open[t] \in OpenTxs(SUBSET (Input \X Data))
    BY DEF LocksTypeOK, OpenTxs
  <2>3. open'[t] \in OpenTxs(SUBSET (Input \X Data))
    <3>1. [open[t] EXCEPT !.at = "commit", !.rows = got] \in OpenTxs(SUBSET (Input \X Data))
      BY <1>3, <2>2, WithRows, Zenon
    <3> QED
      BY <2>1, <3>1
  <2> QED
    BY <1>1, <2>1, <2>3 DEF LocksTypeOK, OpenTxs
<1>5. /\ open'[t].kind = open[t].kind /\ open'[t].data = open[t].data /\ open'[t].input = open[t].input
      /\ open'[t].held = open[t].held /\ open'[t].snap = open[t].snap /\ open'[t].at = "commit"
      /\ \A u \in Tx \ {t} : open'[u] = open[u]
  BY <1>1 DEF LocksTypeOK
<1>6. kinds' = kinds
  BY DEF Nominate
<1>7. Held'
  <2>1. open'[t].held = Len(LocksOf(t)')
    BY <1>1, <1>5 DEF Held, HeldBy, LocksOf
  <2> QED
    <3>1. HeldBy(t)'
      BY <1>1, <1>5, <1>6, <2>1 DEF Held, HeldBy
    <3>2. \A u \in Tx \ {t} : HeldBy(u) => HeldBy(u)'
      BY <1>5, <1>6 DEF HeldBy, LocksOf
    <3> QED
      BY <3>1, <3>2 DEF Held
<1> QED
  BY <1>4, <1>7

LEMMA EndStep ==
    ASSUME StoreLocksAssumption, LocksTypeOK, Held, NEW t \in Tx, End(t) PROVE LocksTypeOK' /\ Held'
<1>1. open[t].at = "commit" /\ kinds' = kinds /\ open' = [open EXCEPT ![t] = Closed]
  BY DEF End
<1>2. committed' \in Tables
  <2>1. Apply(t, committed) \in Tables /\ committed \in Tables /\ open[t].rows \subseteq Input \X Data
    BY <1>1, ApplyType DEF LocksTypeOK
  <2>2. [Apply(t, committed) EXCEPT !.nom = {r \in @ : ~Concerns(t, r)} \cup open[t].rows] \in Tables
    BY <2>1 DEF Tables
  <2> QED
    BY <2>1, <2>2 DEF End
<1>3. LocksTypeOK'
  BY <1>1, <1>2 DEF LocksTypeOK, Closed
<1>4. Held'
  BY <1>1 DEF LocksTypeOK, Held, HeldBy, LocksOf, Closed
<1> QED
  BY <1>3, <1>4

LEMMA LocksTypeStep ==
    ASSUME StoreLocksAssumption, LocksTypeOK, Held, [LocksNext]_locksVars PROVE LocksTypeOK' /\ Held'
<1>1. ASSUME NEW t \in Tx, OpenTx(t) \/ Acquire(t) \/ Nominate(t) \/ End(t)
      PROVE  LocksTypeOK' /\ Held'
  BY <1>1, OpenStep, AcquireStep, NominateStep, EndStep
<1>2. CASE AgentEnds
  <2>1. LocksTypeOK'
    BY <1>2 DEF AgentEnds, LocksTypeOK, Tables
  <2>2. Held'
    BY <1>2 DEF AgentEnds, Held, HeldBy, LocksOf
  <2> QED
    BY <2>1, <2>2
<1>3. CASE UNCHANGED locksVars
  BY <1>3 DEF locksVars, LocksTypeOK, Held, HeldBy, LocksOf
<1> QED
  BY <1>1, <1>2, <1>3 DEF LocksNext

-----------------------------------------------------------------------------
(* No deadlock *)

\* Who waits asks for a lock below the one that the other asks for.
LEMMA WaitsUp ==
    ASSUME StoreLocksAssumption, LocksTypeOK, Held, NEW t \in Tx, NEW u \in Tx,
           open[u].at = "lock", Waits(t, u)
    PROVE  Rank(NextLock(t)) < Rank(NextLock(u))
<1>1. PICK i \in 1..open[u].held : LocksOf(u)[i].lock = NextLock(t).lock
  BY DEF Waits
<1>2. /\ open[u].kind \in Kinds /\ open[u].held < Len(LocksOf(u)) /\ open[u].held \in 0..3
  BY KindsKnown DEF LocksTypeOK, Held, HeldBy
<1>3. /\ Len(LocksOf(u)) \in 1..3
      /\ \A m, n \in 1..Len(LocksOf(u)) : m < n => Rank(LocksOf(u)[m]) < Rank(LocksOf(u)[n])
  BY <1>2, LocksAscend DEF LocksOf
<1>4. /\ i \in 1..Len(LocksOf(u)) /\ open[u].held + 1 \in 1..Len(LocksOf(u)) /\ i < open[u].held + 1
  <2>1. \A h \in 0..3, n \in 1..3 : h < n =>
            h + 1 \in 1..n /\ \A m \in 1..h : m \in 1..n /\ m < h + 1
    OBVIOUS
  <2> QED
    BY <1>1, <1>2, <1>3, <2>1
<1>5. Rank(LocksOf(u)[i]) < Rank(NextLock(u))
  BY <1>3, <1>4 DEF NextLock
<1>6. Rank(LocksOf(u)[i]) = Rank(NextLock(t))
  BY <1>1 DEF Rank
<1> QED
  BY <1>5, <1>6

\* A circle would climb for ever, and there are three ranks.
LEMMA NoCircle == ASSUME StoreLocksAssumption, LocksTypeOK, Held PROVE NoDeadlock
<1> SUFFICES ASSUME NEW W \in (SUBSET Tx) \ {{}},
                    ~ \E t \in W : open[t].at # "lock" \/ \A u \in W : ~Waits(t, u)
             PROVE  FALSE
  BY Zenon DEF NoDeadlock
<1> DEFINE R(t) == Rank(NextLock(t))
<1>1. \A t \in W : R(t) \in 1..3
  BY DEF Rank
<1>2. \A t \in W : \E u \in W : R(t) < R(u)
  BY WaitsUp
<1> HIDE DEF R
<1>3. PICK t \in W : TRUE
  OBVIOUS
<1>4. PICK u \in W : R(t) < R(u)
  BY <1>2
<1>5. PICK v \in W : R(u) < R(v)
  BY <1>2
<1>6. PICK w \in W : R(v) < R(w)
  BY <1>2
<1>7. \A a, b, c, d \in 1..3 : ~ (a < b /\ b < c /\ c < d)
  OBVIOUS
<1> QED
  BY <1>1, <1>4, <1>5, <1>6, <1>7

-----------------------------------------------------------------------------
(* Exactness *)

\* Who waits for the nominations gets them when nobody else has them.
LEMMA AloneStep ==
    ASSUME StoreLocksAssumption, LocksTypeOK, Held, Alone, [LocksNext]_locksVars PROVE Alone'
<1>1. ASSUME NEW t \in Tx, OpenTx(t) PROVE Alone'
  <2>1. open'[t].at = "lock" /\ \A u \in Tx \ {t} : open'[u] = open[u]
    BY <1>1 DEF OpenTx, LocksTypeOK, Closed
  <2> QED
    BY <2>1 DEF Alone
<1>2. ASSUME NEW t \in Tx, Acquire(t) PROVE Alone'
  <2>1. /\ open'[t].kind = open[t].kind /\ \A u \in Tx \ {t} : open'[u] = open[u]
        /\ open'[t].at = "work" => open[t].held + 1 = Len(LocksOf(t))
        /\ open[t].at = "lock" /\ \A u \in Tx : ~Waits(t, u)
    BY <1>2 DEF Acquire, LocksTypeOK
  <2>2. ASSUME open[t].kind \in Nominates, open[t].held + 1 = Len(LocksOf(t)),
               NEW u \in Tx \ {t}, open[u].kind \in Nominates, open[u].at \in {"work", "commit"}
        PROVE  FALSE
    <3>1. open[t].kind \in Kinds /\ open[u].kind \in Kinds /\ open[u].held = Len(LocksOf(u))
      BY <2>1, <2>2, KindsKnown DEF Held, HeldBy
    <3>2. NextLock(t) = X("nomination", "-")
      BY <2>2, <3>1, NominationsLast DEF NextLock, LocksOf
    <3>3. Len(LocksOf(u)) \in 1..open[u].held /\ LocksOf(u)[Len(LocksOf(u))] = X("nomination", "-")
      <4>1. /\ Len(LocksOf(u)) \in 2..3
            /\ LocksOf(u)[Len(LocksOf(u))] = X("nomination", "-")
        BY <2>2, <3>1, NominationsLast DEF LocksOf
      <4>2. \A n \in 2..3 : n \in 1..n
        OBVIOUS
      <4> QED
        BY <3>1, <4>1, <4>2
    <3>4. Waits(t, u)
      BY <2>1, <2>2, <3>2, <3>3 DEF Waits, X
    <3> QED
      BY <2>1, <3>4
  <2>3. \A u \in Tx \ {t} : open'[t].at \in {"work", "commit"} /\ open[u].at \in {"work", "commit"}
            => open[t].kind \notin Nominates \/ open[u].kind \notin Nominates
    <3>1. open'[t].at \in {"lock", "work"}
      BY <1>2 DEF Acquire, LocksTypeOK
    <3> QED
      BY <2>1, <2>2, <3>1
  <2> QED
    BY <2>1, <2>3 DEF Alone
<1>3. ASSUME NEW t \in Tx, Nominate(t) PROVE Alone'
  <2>1. open[t].at = "work" /\ open'[t].kind = open[t].kind /\ \A u \in Tx \ {t} : open'[u] = open[u]
    BY <1>3 DEF Nominate, LocksTypeOK
  <2> QED
    BY <2>1 DEF Alone
<1>4. ASSUME NEW t \in Tx, End(t) PROVE Alone'
  <2>1. open'[t].at = "idle" /\ \A u \in Tx \ {t} : open'[u] = open[u]
    BY <1>4 DEF End, LocksTypeOK, Closed
  <2> QED
    BY <2>1 DEF Alone
<1>5. CASE AgentEnds \/ UNCHANGED locksVars
  BY <1>5 DEF AgentEnds, locksVars, Alone
<1> QED
  BY <1>1, <1>2, <1>3, <1>4, <1>5 DEF LocksNext

\* What matches depends on tags, ends and inputs.
LEMMA SameMatch ==
    ASSUME NEW v \in Tables, NEW w \in Tables,
           v.tagged = w.tagged, v.done = w.done, v.inputs = w.inputs
    PROVE  Match(v) = Match(w) /\ \A t \in Tx : Match(Apply(t, v)) = Match(Apply(t, w))
BY DEF Match, Apply, Tables

\* Only what concerns a transaction is matched differently once it has ended.
LEMMA OthersMatch ==
    ASSUME StoreLocksAssumption, "register" \notin kinds, NEW t \in Tx, open[t].kind \in Kinds,
           NEW v \in Tables, NEW r, ~Concerns(t, r)
    PROVE  r \in Match(Apply(t, v)) <=> r \in Match(v)
BY DEF Kinds, Match, Apply, Concerns, Tables

LEMMA EndsExact ==
    ASSUME StoreLocksAssumption, LocksTypeOK, Held, Alone, UpToDate, "register" \notin kinds,
           NEW t \in Tx, End(t)
    PROVE  UpToDate'
<1>1. /\ open[t].at = "commit" /\ open[t].kind \in Kinds /\ committed \in Tables /\ Apply(t, committed) \in Tables
      /\ open[t].rows = {r \in Match(Apply(t, committed)) : Concerns(t, r)} /\ committed.nom = Match(committed)
  BY ApplyType, KindsKnown DEF End, LocksTypeOK, Held, HeldBy, UpToDate
<1> DEFINE new == [Apply(t, committed) EXCEPT !.nom = {r \in @ : ~Concerns(t, r)} \cup open[t].rows]
<1>2. open'[t].at = "idle" /\ \A u \in Tx \ {t} : open'[u] = open[u]
  BY DEF End, LocksTypeOK, Closed
<1>3. CASE committed' = committed
  <2>1. \A u \in Tx \ {t} : Apply(u, committed)' = Apply(u, committed) /\ \A r : Concerns(u, r)' <=> Concerns(u, r)
    BY <1>2, <1>3 DEF Apply, Concerns
  <2> QED
    BY <1>2, <1>3, <2>1 DEF UpToDate, Match
<1>4. CASE committed' = new
  <2>1. /\ committed'.tagged = Apply(t, committed).tagged /\ committed'.done = Apply(t, committed).done
        /\ committed'.inputs = Apply(t, committed).inputs /\ committed' \in Tables
        /\ Apply(t, committed).nom = committed.nom
        /\ committed'.nom = {r \in committed.nom : ~Concerns(t, r)} \cup open[t].rows
    <3>1. Apply(t, committed).nom = committed.nom
      BY <1>1 DEF Apply, Tables
    <3>2. open[t].rows \subseteq Input \X Data
      BY DEF LocksTypeOK
    <3> QED
      BY <1>1, <1>4, <3>1, <3>2 DEF Tables
  <2>2. Match(committed') = Match(Apply(t, committed))
    BY <1>1, <2>1, SameMatch
  <2>3. committed'.nom = Match(committed')
    BY <1>1, <2>1, <2>2, OthersMatch
  <2>4. ASSUME NEW u \in Tx \ {t}, open[u].at = "commit"
        PROVE  open[u].rows = {r \in Match(Apply(u, committed')) : Concerns(u, r)}
    <3>1. CASE open[u].kind \notin Nominates
      <4>1. \A r : ~Concerns(u, r)
        BY <2>4, <3>1, KindsKnown DEF Held, HeldBy, Kinds, Nominates, Concerns
      <4> QED
        BY <2>4, <4>1 DEF UpToDate
    <3>2. CASE open[u].kind \in Nominates
      <4>1. open[t].kind \in {"agent", "new"}
        BY <1>1, <2>4, <3>2, KindsKnown DEF Alone, Nominates, Held, HeldBy, Kinds
      <4>2. committed'.tagged = committed.tagged /\ committed'.done = committed.done /\ committed'.inputs = committed.inputs
        BY <1>1, <2>1, <4>1 DEF Apply, Tables
      <4>3. Match(Apply(u, committed')) = Match(Apply(u, committed))
        BY <1>1, <2>1, <4>2, SameMatch
      <4> QED
        BY <2>4, <4>3 DEF UpToDate
    <3> QED
      BY <3>1, <3>2
  <2>5. \A u \in Tx \ {t} : Apply(u, committed)' = Apply(u, committed') /\ \A r : Concerns(u, r)' <=> Concerns(u, r)
    BY <1>2 DEF Apply, Concerns
  <2> QED
    BY <1>2, <2>3, <2>4, <2>5 DEF UpToDate, Match
<1> QED
  BY <1>3, <1>4 DEF End

LEMMA FreshStep ==
    ASSUME StoreLocksAssumption, LocksTypeOK, Held, Alone, UpToDate, [LocksNext]_locksVars PROVE UpToDate'
<1> SUFFICES ASSUME "register" \notin kinds PROVE UpToDate'
  <2>1. kinds' = kinds
    BY DEF LocksNext, OpenTx, Acquire, Nominate, End, AgentEnds, locksVars
  <2> QED
    BY <2>1 DEF UpToDate
<1>1. ASSUME NEW t \in Tx, OpenTx(t) \/ Acquire(t) PROVE UpToDate'
  <2>1. /\ kinds' = kinds /\ committed' = committed /\ open'[t].at \in {"lock", "work"} /\ \A u \in Tx \ {t} : open'[u] = open[u]
    <3>1. CASE OpenTx(t)
      BY <3>1 DEF OpenTx, LocksTypeOK, Closed
    <3>2. CASE Acquire(t)
      BY <3>2 DEF Acquire, LocksTypeOK
    <3> QED
      BY <1>1, <3>1, <3>2
  <2>2. \A u \in Tx \ {t} : Apply(u, committed)' = Apply(u, committed) /\ \A r : Concerns(u, r)' <=> Concerns(u, r)
    BY <2>1 DEF Apply, Concerns
  <2> QED
    BY <2>1, <2>2 DEF UpToDate, Match
<1>2. ASSUME NEW t \in Tx, Nominate(t) PROVE UpToDate'
  <2> DEFINE got == {r \in Match(Apply(t, committed)) : Concerns(t, r)}
  <2>1. open[t].at = "work" /\ View(t) = committed
    BY <1>2 DEF Nominate, View, Held, HeldBy
  <2>2. /\ kinds' = kinds /\ committed' = committed /\ open'[t].rows = got /\ \A u \in Tx \ {t} : open'[u] = open[u]
        /\ open'[t].kind = open[t].kind /\ open'[t].data = open[t].data /\ open'[t].input = open[t].input
    BY <1>2, <2>1 DEF Nominate, LocksTypeOK
  <2>3. \A u \in Tx : Apply(u, committed)' = Apply(u, committed) /\ \A r : Concerns(u, r)' <=> Concerns(u, r)
    BY <2>2 DEF Apply, Concerns
  <2> QED
    BY <2>2, <2>3 DEF UpToDate, Match
<1>3. ASSUME NEW t \in Tx, End(t) PROVE UpToDate'
  BY <1>3, EndsExact
<1>4. CASE AgentEnds
  <2>1. /\ open' = open /\ committed \in Tables /\ committed' \in Tables /\ committed'.nom = committed.nom
        /\ committed'.tagged = committed.tagged /\ committed'.done = committed.done /\ committed'.inputs = committed.inputs
    BY <1>4 DEF AgentEnds, LocksTypeOK, Tables
  <2>2. Match(committed') = Match(committed) /\ \A u \in Tx : Match(Apply(u, committed')) = Match(Apply(u, committed))
    BY <2>1, SameMatch
  <2>3. \A u \in Tx : Apply(u, committed)' = Apply(u, committed') /\ \A r : Concerns(u, r)' <=> Concerns(u, r)
    BY <2>1 DEF Apply, Concerns
  <2> QED
    BY <2>1, <2>2, <2>3 DEF UpToDate, Match
<1>5. CASE UNCHANGED locksVars
  BY <1>5 DEF locksVars, UpToDate, Match, Apply, Concerns
<1> QED
  BY <1>1, <1>2, <1>3, <1>4, <1>5 DEF LocksNext

\* A reader is refused a data that has gone, and a data its foreign key protects.
LEMMA AgentsStep ==
    ASSUME StoreLocksAssumption, LocksTypeOK, Held, AgentsHaveData, [LocksNext]_locksVars PROVE AgentsHaveData'
<1>1. ASSUME NEW t \in Tx, End(t) PROVE AgentsHaveData'
  <2>1. open[t].kind \in Kinds /\ committed \in Tables
    BY <1>1, KindsKnown DEF End, LocksTypeOK, Held, HeldBy
  <2> QED
    BY <1>1, <2>1 DEF End, Refused, Violates, Apply, AgentsHaveData, Tables, StoreLocksAssumption
<1>2. CASE AgentEnds
  BY <1>2 DEF AgentEnds, AgentsHaveData, LocksTypeOK, Tables
<1>3. ASSUME NEW t \in Tx, OpenTx(t) \/ Acquire(t) \/ Nominate(t) PROVE AgentsHaveData'
  BY <1>3 DEF OpenTx, Acquire, Nominate, AgentsHaveData
<1>4. CASE UNCHANGED locksVars
  BY <1>4 DEF locksVars, AgentsHaveData
<1> QED
  BY <1>1, <1>2, <1>3, <1>4 DEF LocksNext

LEMMA InitLocksIInv == StoreLocksAssumption /\ LocksInit => LocksIInv
<1> SUFFICES ASSUME StoreLocksAssumption, LocksInit PROVE LocksIInv
  OBVIOUS
<1>1. PICK T, D \in SUBSET Data, I \in Registered :
          committed = [tagged |-> T, done |-> D, gone |-> {}, agents |-> {}, inputs |-> I, nom |-> I \X (T \cap D)]
  BY DEF LocksInit
<1>2. committed.nom = Match(committed)
  BY <1>1 DEF Match
<1>3. Alone /\ UpToDate /\ AgentsHaveData
  BY <1>1, <1>2 DEF LocksInit, Closed, Alone, UpToDate, AgentsHaveData
<1> QED
  BY <1>3, InitHeld DEF LocksIInv

\* The invariant is inductive, for any transactions, data and inputs.
THEOREM LocksInvariance == ASSUME StoreLocksAssumption PROVE LocksSpec => []LocksIInv
<1>1. LocksInit => LocksIInv
  BY InitLocksIInv
<1>2. LocksIInv /\ [LocksNext]_locksVars => LocksIInv'
  <2> SUFFICES ASSUME LocksIInv, [LocksNext]_locksVars PROVE LocksIInv'
    OBVIOUS
  <2> QED
    BY LocksTypeStep, AloneStep, FreshStep, AgentsStep DEF LocksIInv
<1> QED
  BY <1>1, <1>2, PTL DEF LocksSpec

\* Whatever transactions are open, and however many: none wait for one another
\* in a circle, no agent loses its data and, registrations aside, the nomination
\* table is exact between them (nominator.go:46).
THEOREM LocksCorrect == ASSUME StoreLocksAssumption PROVE LocksSpec => []LocksSuffice
<1>1. LocksIInv => LocksSuffice
  BY NoCircle DEF LocksIInv, UpToDate, ExactAtRest, LocksSuffice
<1> QED
  BY <1>1, LocksInvariance, PTL

-----------------------------------------------------------------------------
(* Answers *)

Field ==
    {"at", "kind", "query", "ids", "body", "tags", "upstream", "downstream", "run", "exit", "nominated", "in", "out"}

\* A request is for rows that there have been.
Shaped ==
    /\ DOMAIN req = Field /\ req.kind \in {"data", "run"}
    /\ req.kind = "data" => req.ids \subseteq db.used /\ req.query.flag \in {"both", "yes", "no"}
    /\ req.kind = "run" => req.ids \subseteq Run
    /\ DataOfRuns \subseteq db.used

\* What had no body when bodies were read never comes back; what has tags has a body.
WantedNow == IF req.kind = "data" THEN req.ids ELSE DataOfRuns
TagsRead == (req.kind = "data" /\ req.at \notin {"data", "tags"}) \/ req.at = "answered"
Bodies ==
    /\ DOMAIN req.body \cup DOMAIN req.tags \subseteq db.used
    /\ req.at = "tags" => \A d \in WantedNow : d \notin DOMAIN req.body => ~Is(d)
    /\ TagsRead => DOMAIN req.tags \subseteq DOMAIN req.body

\* While nothing is written, each statement has brought what the tables hold.
DataExact ==
    /\ \A d \in req.ids : Is(d)
    /\ req.at # "data" => req.body = Body(req.ids)
    /\ req.at \in {"downstream", "runs", "exits", "nominations", "answered"} =>
           req.upstream = [d \in req.ids |-> db.data[d]]
    /\ req.at \in {"runs", "exits", "nominations", "answered"} =>
           req.downstream = {a \in db.assign : a[1] \in req.ids}
    /\ req.at \in {"exits", "nominations", "answered"} => req.run = Statuses(RunsOfData)
RunExact ==
    /\ \A r \in req.ids : db.run[r] # "none"
    /\ req.at # "run" => req.run = Statuses(req.ids)
    /\ req.at \in {"assign", "outs", "body", "tags", "answered"} => req.exit = req.ids \cap db.exit
    /\ req.at \in {"outs", "body", "tags", "answered"} => req.in = {a \in db.assign : a[2] \in req.ids}
    /\ req.at \in {"body", "tags", "answered"} =>
           req.out = {<<d, db.data[d]>> : d \in {e \in KnitId : db.data[e] \in req.ids}}
Exact ==
    writes = began /\ req.ids # {} =>
        (req.kind = "data" => DataExact) /\ (req.kind = "run" => RunExact)

QueriesIInv == QueriesTypeOK /\ (req.at # "idle" => Shaped /\ Bodies /\ Exact)

-----------------------------------------------------------------------------
(* Statements *)

LEMMA StatementIs ==
    ASSUME NEW at, NEW next, NEW field \in Field \ {"at"}, NEW got, Shaped, Statement(at, next, field, got)
    PROVE  /\ req.at = at /\ req'.at = next /\ req'[field] = got /\ DOMAIN req' = Field
           /\ \A f \in Field \ {"at", field} : req'[f] = req[f]
           /\ UNCHANGED <<db, writes, began>>
<1>1. req' = [req EXCEPT !.at = next, ![field] = got] /\ UNCHANGED <<db, writes, began>> /\ req.at = at
  BY DEF Statement
<1>2. "at" \in Field /\ DOMAIN req = Field
  BY DEF Field, Shaped
<1> QED
  BY <1>1, <1>2

\* Statements about other things leave the rows asked for, bodies and tags alone.
LEMMA Aside ==
    ASSUME Shaped, Bodies, NEW at, NEW next, NEW got,
           NEW field \in {"upstream", "downstream", "run", "exit", "nominated"}, Statement(at, next, field, got),
           req.at # "data" \/ req.kind = "run", at # "tags" /\ next # "tags", req.kind = "run" => next # "answered"
    PROVE  Shaped' /\ Bodies'
<1>1. /\ req.at = at /\ req'.at = next /\ DOMAIN req' = Field /\ UNCHANGED <<db, writes, began>>
      /\ \A f \in {"kind", "query", "ids", "body", "tags", "in", "out"} : req'[f] = req[f]
  BY StatementIs DEF Field
<1>2. /\ req'.kind = req.kind /\ req'.query = req.query /\ req'.ids = req.ids /\ req'.body = req.body
      /\ req'.tags = req.tags /\ req'.in = req.in /\ req'.out = req.out
  BY <1>1
<1>3. Shaped'
  BY <1>1, <1>2 DEF Shaped, DataOfRuns
<1>4. Bodies'
  BY <1>1, <1>2 DEF Shaped, Bodies, TagsRead
<1> QED
  BY <1>3, <1>4

-----------------------------------------------------------------------------
(* Requests for data *)

LEMMA DataBodyStep ==
    ASSUME Shaped, Bodies, Exact, req.kind = "data", Statement("data", "tags", "body", Body(req.ids))
    PROVE  Shaped' /\ Bodies' /\ Exact'
<1>1. /\ req.at = "data" /\ req'.at = "tags" /\ req'.body = Body(req.ids) /\ DOMAIN req' = Field
      /\ UNCHANGED <<db, writes, began>>
      /\ req'.kind = req.kind /\ req'.query = req.query /\ req'.ids = req.ids /\ req'.tags = req.tags
      /\ req'.in = req.in /\ req'.out = req.out
  BY StatementIs DEF Field
<1>2. Shaped'
  BY <1>1 DEF Shaped, DataOfRuns
<1>3. Bodies'
  BY <1>1 DEF Shaped, Bodies, Body, WantedNow, TagsRead, Is
<1>4. Body(req.ids)' = Body(req.ids)
  BY <1>1 DEF Body, Is, Transient
<1>5. Exact'
  BY <1>1, <1>4 DEF Exact, DataExact, Is
<1> QED
  BY <1>2, <1>3, <1>5

LEMMA DataTagsStep ==
    ASSUME QueriesTypeOK, Shaped, Bodies, Exact, req.kind = "data", Statement("tags", "upstream", "tags", Tags(req.ids))
    PROVE  Shaped' /\ Bodies' /\ Exact'
<1>1. /\ req.at = "tags" /\ req'.at = "upstream" /\ req'.tags = Tags(req.ids) /\ DOMAIN req' = Field
      /\ UNCHANGED <<db, writes, began>>
      /\ req'.kind = req.kind /\ req'.query = req.query /\ req'.ids = req.ids /\ req'.body = req.body
      /\ req'.in = req.in /\ req'.out = req.out
  <2>1. /\ req.at = "tags" /\ req'.at = "upstream" /\ req'["tags"] = Tags(req.ids) /\ DOMAIN req' = Field
        /\ UNCHANGED <<db, writes, began>> /\ \A f \in Field \ {"at", "tags"} : req'[f] = req[f]
    <3>1. "tags" \in Field \ {"at"}
      BY DEF Field
    <3> QED
      BY <3>1, StatementIs
  <2> QED
    BY <2>1 DEF Field
<1>2. Shaped'
  BY <1>1 DEF Shaped, DataOfRuns
<1>3. DOMAIN Tags(req.ids) \subseteq DOMAIN req.body
  <2>1. \A d \in DOMAIN Tags(req.ids) : d \in req.ids /\ db.tags[d] # {}
    BY DEF Tags
  <2>2. \A d \in req.ids : db.tags[d] # {} => Is(d)
    BY DEF Shaped, QueriesTypeOK, Intact, Database, Is
  <2> QED
    BY <1>1, <2>1, <2>2 DEF Bodies, WantedNow
<1>4. Bodies'
  BY <1>1, <1>3 DEF Bodies, TagsRead
<1>5. Body(req.ids)' = Body(req.ids)
  BY <1>1 DEF Body, Is, Transient
<1>6. Exact'
  BY <1>1, <1>5 DEF Exact, DataExact, Is
<1> QED
  BY <1>2, <1>4, <1>6

LEMMA UpstreamStep ==
    ASSUME Shaped, Bodies, Exact, req.kind = "data", Upstream PROVE Shaped' /\ Bodies' /\ Exact'
<1> DEFINE known == {d \in DOMAIN req.body : Is(d)}
           next == IF known = {} THEN "missed" ELSE "downstream"
           got == [d \in known |-> db.data[d]]
<1>1. Statement("upstream", next, "upstream", got) /\ next \in {"missed", "downstream"}
  BY DEF Upstream
<1>2. writes = began /\ req.ids # {} => known = req.ids
  <2>1. req.at = "upstream"
    BY <1>1 DEF Statement
  <2> QED
    BY <2>1 DEF Exact, DataExact, Body
<1> HIDE DEF next, known
<1>3. /\ req.at = "upstream" /\ req'.at \in {"missed", "downstream"} /\ req'.upstream = got
      /\ UNCHANGED <<db, writes, began>>
      /\ req'.kind = req.kind /\ req'.ids = req.ids /\ req'.body = req.body
  BY <1>1, StatementIs DEF Field
<1>4. Shaped' /\ Bodies'
  <2>1. req.at = "upstream" /\ next # "tags" /\ "upstream" \in {"upstream", "downstream", "run", "exit", "nominated"}
    BY <1>1, <1>3
  <2> HIDE DEF got
  <2> QED
    BY <1>1, <2>1, Aside
<1>5. Body(req.ids)' = Body(req.ids)
  BY <1>3 DEF Body, Is, Transient
<1>6. Exact'
  BY <1>2, <1>3, <1>5 DEF Exact, DataExact, Is
<1> QED
  BY <1>4, <1>6

LEMMA DownstreamStep ==
    ASSUME Shaped, Bodies, Exact, req.kind = "data", Downstream PROVE Shaped' /\ Bodies' /\ Exact'
<1> DEFINE got == {a \in db.assign : a[1] \in req.ids}
<1>1. Statement("downstream", "runs", "downstream", got)
  BY DEF Downstream
<1>2. /\ req.at = "downstream" /\ req'.at = "runs" /\ req'.downstream = got
      /\ UNCHANGED <<db, writes, began>>
      /\ req'.kind = req.kind /\ req'.ids = req.ids /\ req'.body = req.body /\ req'.upstream = req.upstream
  BY <1>1, StatementIs DEF Field
<1>3. Shaped' /\ Bodies'
  BY <1>1, <1>2, Aside
<1>4. Body(req.ids)' = Body(req.ids)
  BY <1>2 DEF Body, Is, Transient
<1>5. Exact'
  BY <1>2, <1>4 DEF Exact, DataExact, Is
<1> QED
  BY <1>3, <1>5

LEMMA RunsStep ==
    ASSUME Shaped, Bodies, Exact, req.kind = "data", Statement("runs", "exits", "run", Statuses(RunsOfData))
    PROVE  Shaped' /\ Bodies' /\ Exact'
<1>1. /\ req.at = "runs" /\ req'.at = "exits" /\ req'.run = Statuses(RunsOfData)
      /\ UNCHANGED <<db, writes, began>>
      /\ req'.kind = req.kind /\ req'.ids = req.ids /\ req'.body = req.body /\ req'.upstream = req.upstream
      /\ req'.downstream = req.downstream
  BY StatementIs DEF Field
<1>2. Shaped' /\ Bodies'
  BY <1>1, Aside
<1>3. Body(req.ids)' = Body(req.ids)
  BY <1>1 DEF Body, Is, Transient
<1>4. Statuses(RunsOfData)' = Statuses(RunsOfData)
  BY <1>1 DEF Statuses, RunsOfData
<1>5. Exact'
  BY <1>1, <1>3, <1>4 DEF Exact, DataExact, Is
<1> QED
  BY <1>2, <1>5

LEMMA LastStep ==
    ASSUME Shaped, Bodies, Exact, req.kind = "data", NEW at, NEW next, NEW field \in {"exit", "nominated"}, NEW got,
           Statement(at, next, field, got), at \in {"exits", "nominations"}, next \in {"nominations", "answered"}
    PROVE  Shaped' /\ Bodies' /\ Exact'
<1>1. /\ req.at = at /\ req'.at = next /\ UNCHANGED <<db, writes, began>>
      /\ \A f \in {"kind", "ids", "body", "upstream", "downstream", "run"} : req'[f] = req[f]
  BY StatementIs DEF Field
<1>2. /\ req'.kind = req.kind /\ req'.ids = req.ids /\ req'.body = req.body /\ req'.upstream = req.upstream
      /\ req'.downstream = req.downstream /\ req'.run = req.run
  BY <1>1
<1>3. Shaped' /\ Bodies'
  BY <1>1, Aside
<1>4. Body(req.ids)' = Body(req.ids)
  BY <1>1, <1>2 DEF Body, Is, Transient
<1>5. Statuses(RunsOfData)' = Statuses(RunsOfData)
  BY <1>1, <1>2 DEF Statuses, RunsOfData
<1>6. Exact'
  BY <1>1, <1>2, <1>4, <1>5 DEF Exact, DataExact, Is
<1> QED
  BY <1>3, <1>6

LEMMA GetDataStep == ASSUME QueriesTypeOK, Shaped, Bodies, Exact, GetData PROVE Shaped' /\ Bodies' /\ Exact'
<1>1. req.kind = "data"
  BY DEF GetData
<1>2. CASE GetDataBody("data", req.ids, "upstream")
  BY <1>1, <1>2, DataBodyStep, DataTagsStep DEF GetDataBody
<1>3. CASE Upstream
  BY <1>1, <1>3, UpstreamStep
<1>4. CASE Downstream
  BY <1>1, <1>4, DownstreamStep
<1>5. CASE GetRunBody("runs", RunsOfData, "nominations")
  <2>1. CASE Statement("runs", "exits", "run", Statuses(RunsOfData))
    BY <1>1, <2>1, RunsStep
  <2>2. CASE Statement("exits", "nominations", "exit", RunsOfData \cap db.exit)
    BY <1>1, <2>2, LastStep
  <2> QED
    BY <1>5, <2>1, <2>2 DEF GetRunBody
<1>6. CASE GetNominationByKnitId
  <2>1. PICK index : Statement("nominations", "answered", "nominated", index)
    BY <1>6 DEF GetNominationByKnitId
  <2> QED
    BY <1>1, <2>1, LastStep
<1> QED
  BY <1>2, <1>3, <1>4, <1>5, <1>6 DEF GetData

-----------------------------------------------------------------------------
(* Requests for runs *)

LEMMA RunStep ==
    ASSUME Shaped, Bodies, Exact, req.kind = "run", Statement("run", "exits", "run", Statuses(req.ids))
    PROVE  Shaped' /\ Bodies' /\ Exact'
<1>1. "run" \in Field \ {"at"} /\ "run" \in {"upstream", "downstream", "run", "exit", "nominated"}
  BY DEF Field
<1>2. /\ req.at = "run" /\ req'.at = "exits" /\ req'["run"] = Statuses(req.ids)
      /\ UNCHANGED <<db, writes, began>> /\ \A f \in Field \ {"at", "run"} : req'[f] = req[f]
  BY <1>1, StatementIs
<1>3. req'.kind = req.kind /\ req'.ids = req.ids /\ req'.run = Statuses(req.ids)
  BY <1>2 DEF Field
<1>4. Shaped' /\ Bodies'
  BY <1>1, <1>2, Aside
<1>5. Statuses(req.ids)' = Statuses(req.ids)
  BY <1>2, <1>3 DEF Statuses
<1>6. Exact'
  BY <1>2, <1>3, <1>5 DEF Exact, RunExact
<1> QED
  BY <1>4, <1>6

LEMMA ExitsStep ==
    ASSUME Shaped, Bodies, Exact, req.kind = "run", Statement("exits", "assign", "exit", req.ids \cap db.exit)
    PROVE  Shaped' /\ Bodies' /\ Exact'
<1>1. /\ req.at = "exits" /\ req'.at = "assign" /\ req'.exit = req.ids \cap db.exit
      /\ UNCHANGED <<db, writes, began>>
      /\ req'.kind = req.kind /\ req'.ids = req.ids /\ req'.run = req.run
  BY StatementIs DEF Field
<1>2. Shaped' /\ Bodies'
  BY <1>1, Aside
<1>3. Statuses(req.ids)' = Statuses(req.ids)
  BY <1>1 DEF Statuses
<1>4. Exact'
  BY <1>1, <1>3 DEF Exact, RunExact
<1> QED
  BY <1>2, <1>4

LEMMA AssignStep ==
    ASSUME QueriesTypeOK, Shaped, Bodies, Exact, req.kind = "run",
           Statement("assign", "outs", "in", {a \in db.assign : a[2] \in req.ids})
    PROVE  Shaped' /\ Bodies' /\ Exact'
<1> DEFINE got == {a \in db.assign : a[2] \in req.ids}
<1>1. /\ req.at = "assign" /\ req'.at = "outs" /\ req'.in = got /\ DOMAIN req' = Field
      /\ UNCHANGED <<db, writes, began>>
      /\ req'.kind = req.kind /\ req'.ids = req.ids /\ req'.run = req.run /\ req'.exit = req.exit
      /\ req'.out = req.out /\ req'.body = req.body /\ req'.tags = req.tags
  BY StatementIs DEF Field
<1>2. \A a \in db.assign : a[1] \in db.used
  BY DEF QueriesTypeOK, Intact, Database
<1>3. DataOfRuns' \subseteq db.used
  BY <1>1, <1>2 DEF Shaped, DataOfRuns
<1>4. Shaped'
  BY <1>1, <1>3 DEF Shaped
<1>5. Bodies'
  BY <1>1 DEF Bodies, TagsRead
<1>6. Statuses(req.ids)' = Statuses(req.ids)
  BY <1>1 DEF Statuses
<1>7. Exact'
  BY <1>1, <1>6 DEF Exact, RunExact
<1> QED
  BY <1>4, <1>5, <1>7

LEMMA OutsStep ==
    ASSUME QueriesTypeOK, Shaped, Bodies, Exact, req.kind = "run",
           Statement("outs", "body", "out", {<<d, db.data[d]>> : d \in {e \in KnitId : db.data[e] \in req.ids}}),
           NoRun \notin Run
    PROVE  Shaped' /\ Bodies' /\ Exact'
<1> DEFINE got == {<<d, db.data[d]>> : d \in {e \in KnitId : db.data[e] \in req.ids}}
<1>1. /\ req.at = "outs" /\ req'.at = "body" /\ req'.out = got /\ DOMAIN req' = Field
      /\ UNCHANGED <<db, writes, began>>
      /\ req'.kind = req.kind /\ req'.ids = req.ids /\ req'.run = req.run /\ req'.exit = req.exit
      /\ req'.in = req.in /\ req'.body = req.body /\ req'.tags = req.tags
  BY StatementIs DEF Field
<1>2. \A a \in got : a[1] \in db.used
  BY DEF QueriesTypeOK, Intact, Database, Shaped
<1>3. DataOfRuns' \subseteq db.used
  BY <1>1, <1>2 DEF Shaped, DataOfRuns
<1>4. Shaped'
  BY <1>1, <1>3 DEF Shaped
<1>5. Bodies'
  BY <1>1 DEF Bodies, TagsRead
<1>6. Statuses(req.ids)' = Statuses(req.ids)
  BY <1>1 DEF Statuses
<1>7. Exact'
  BY <1>1, <1>6 DEF Exact, RunExact
<1> QED
  BY <1>4, <1>5, <1>7

LEMMA RunBodiesStep ==
    ASSUME Shaped, Bodies, Exact, req.kind = "run", Statement("body", "tags", "body", Body(DataOfRuns))
    PROVE  Shaped' /\ Bodies' /\ Exact'
<1>1. "body" \in Field \ {"at"}
  BY DEF Field
<1>2. /\ req.at = "body" /\ req'.at = "tags" /\ req'["body"] = Body(DataOfRuns) /\ DOMAIN req' = Field
      /\ UNCHANGED <<db, writes, began>> /\ \A f \in Field \ {"at", "body"} : req'[f] = req[f]
  BY <1>1, StatementIs
<1>3. /\ req'.kind = req.kind /\ req'.ids = req.ids /\ req'.run = req.run /\ req'.exit = req.exit
      /\ req'.in = req.in /\ req'.out = req.out /\ req'.tags = req.tags /\ req'.body = Body(DataOfRuns)
  BY <1>2 DEF Field
<1>4. DataOfRuns' = DataOfRuns
  BY <1>3 DEF DataOfRuns
<1>5. Shaped'
  BY <1>2, <1>3, <1>4 DEF Shaped
<1>6. Bodies'
  BY <1>2, <1>3, <1>4 DEF Shaped, Bodies, Body, WantedNow, TagsRead, Is
<1>7. Statuses(req.ids)' = Statuses(req.ids)
  BY <1>2, <1>3 DEF Statuses
<1>8. Exact'
  BY <1>2, <1>3, <1>7 DEF Exact, RunExact
<1> QED
  BY <1>5, <1>6, <1>8

LEMMA RunTagsStep ==
    ASSUME QueriesTypeOK, Shaped, Bodies, Exact, req.kind = "run", Statement("tags", "answered", "tags", Tags(DataOfRuns))
    PROVE  Shaped' /\ Bodies' /\ Exact'
<1>1. "tags" \in Field \ {"at"}
  BY DEF Field
<1>2. /\ req.at = "tags" /\ req'.at = "answered" /\ req'["tags"] = Tags(DataOfRuns) /\ DOMAIN req' = Field
      /\ UNCHANGED <<db, writes, began>> /\ \A f \in Field \ {"at", "tags"} : req'[f] = req[f]
  BY <1>1, StatementIs
<1>3. /\ req'.kind = req.kind /\ req'.ids = req.ids /\ req'.run = req.run /\ req'.exit = req.exit
      /\ req'.in = req.in /\ req'.out = req.out /\ req'.body = req.body /\ req'.tags = Tags(DataOfRuns)
  BY <1>2 DEF Field
<1>4. DataOfRuns' = DataOfRuns
  BY <1>3 DEF DataOfRuns
<1>5. Shaped'
  BY <1>2, <1>3, <1>4 DEF Shaped
<1>6. DOMAIN Tags(DataOfRuns) \subseteq DOMAIN req.body
  <2>1. \A d \in DOMAIN Tags(DataOfRuns) : d \in DataOfRuns /\ db.tags[d] # {}
    BY DEF Tags
  <2>2. \A d \in DataOfRuns : db.tags[d] # {} => Is(d)
    BY DEF Shaped, QueriesTypeOK, Intact, Database, Is
  <2> QED
    BY <1>2, <2>1, <2>2 DEF Bodies, WantedNow
<1>7. Bodies'
  BY <1>2, <1>3, <1>6 DEF Bodies, TagsRead
<1>8. Statuses(req.ids)' = Statuses(req.ids)
  BY <1>2, <1>3 DEF Statuses
<1>9. Exact'
  BY <1>2, <1>3, <1>8 DEF Exact, RunExact
<1> QED
  BY <1>5, <1>7, <1>9

LEMMA GetRunStep ==
    ASSUME QueriesAssumption, QueriesTypeOK, Shaped, Bodies, Exact, GetRun PROVE Shaped' /\ Bodies' /\ Exact'
<1>1. req.kind = "run" /\ NoRun \notin Run
  BY DEF GetRun, QueriesAssumption
<1>2. CASE GetRunBody("run", req.ids, "assign")
  BY <1>1, <1>2, RunStep, ExitsStep DEF GetRunBody
<1>3. CASE Statement("assign", "outs", "in", {a \in db.assign : a[2] \in req.ids})
  BY <1>1, <1>3, AssignStep
<1>4. CASE Statement("outs", "body", "out", {<<d, db.data[d]>> : d \in {e \in KnitId : db.data[e] \in req.ids}})
  BY <1>1, <1>4, OutsStep
<1>5. CASE GetDataBody("body", DataOfRuns, "answered")
  BY <1>1, <1>5, RunBodiesStep, RunTagsStep DEF GetDataBody
<1> QED
  BY <1>2, <1>3, <1>4, <1>5 DEF GetRun

-----------------------------------------------------------------------------
(* Transactions *)

\* What a transaction may make of the tables: they fit, and what is gone stays so.
Lawful(new) ==
    /\ new \in Database /\ Intact(new) /\ db.used \subseteq new.used
    /\ \A d \in db.used : db.data[d] = NoRun => new.data[d] = NoRun

LEMMA TransactStep ==
    ASSUME QueriesAssumption, QueriesIInv, NEW new, Transact(new), Lawful(new) PROVE QueriesIInv'
<1>1. /\ db' = new /\ writes < MaxWrites /\ writes' = writes + 1 /\ UNCHANGED <<began, req>>
      /\ MaxWrites \in Nat /\ writes \in 0..MaxWrites /\ began \in 0..writes
  BY DEF Transact, QueriesIInv, QueriesTypeOK, QueriesAssumption
<1>2. writes' \in 0..MaxWrites /\ began' \in 0..writes' /\ writes' # began'
  BY <1>1
<1>3. QueriesTypeOK'
  BY <1>1, <1>2 DEF Lawful, QueriesIInv, QueriesTypeOK, Intact
<1>4. ASSUME req.at # "idle" PROVE Shaped' /\ Bodies' /\ Exact'
  <2>1. Shaped /\ Bodies
    BY <1>4 DEF QueriesIInv
  <2>2. Shaped'
    BY <1>1, <2>1 DEF Shaped, Lawful, DataOfRuns
  <2>3. Bodies'
    BY <1>1, <2>1 DEF Shaped, Bodies, Lawful, WantedNow, DataOfRuns, TagsRead, Is
  <2>4. Exact'
    BY <1>2 DEF Exact
  <2> QED
    BY <2>2, <2>3, <2>4
<1> QED
  BY <1>1, <1>3, <1>4 DEF QueriesIInv

LEMMA FinishStep == ASSUME QueriesAssumption, QueriesIInv, NEW r \in Run, Finish(r) PROVE QueriesIInv'
<1>1. PICK s \in {"done", "failed"} :
          Transact([db EXCEPT !.run[r] = s, !.exit = @ \cup {r}, !.stamped = @ \cup Outputs(r)])
  BY DEF Finish
<1> DEFINE new == [db EXCEPT !.run[r] = s, !.exit = @ \cup {r}, !.stamped = @ \cup Outputs(r)]
<1>2. db \in Database /\ Intact(db) /\ s \in Status /\ Outputs(r) \subseteq KnitId /\ db.run[r] = "running"
  BY DEF QueriesIInv, QueriesTypeOK, Outputs, Status, Finish
<1>3. new \in Database
  BY <1>2 DEF Database
<1>4. /\ new.run = [db.run EXCEPT ![r] = s] /\ new.exit = db.exit \cup {r} /\ new.data = db.data
      /\ new.assign = db.assign /\ new.tags = db.tags /\ new.used = db.used /\ db.run \in [Run -> Status \cup {"none"}]
  BY <1>2 DEF Database
<1> HIDE DEF new
<1>5. Intact(new)
  <2>1. \A q \in Run : new.run[q] = IF q = r THEN s ELSE db.run[q]
    BY <1>4
  <2>2. new.exit = {q \in Run : new.run[q] \in {"done", "failed"}}
    BY <1>2, <1>4, <2>1 DEF Intact
  <2>3. \A d \in KnitId : new.data[d] # NoRun => new.run[new.data[d]] \notin {"none", "invalidated"} /\ d \in new.used
    BY <1>2, <1>4, <2>1 DEF Intact, Database
  <2>4. \A a \in new.assign : new.data[a[1]] # NoRun /\ new.run[a[2]] # "none"
    BY <1>2, <1>4, <2>1 DEF Intact, Database
  <2>5. \A d \in KnitId : new.tags[d] # {} => new.data[d] # NoRun
    BY <1>2, <1>4 DEF Intact
  <2> QED
    BY <2>2, <2>3, <2>4, <2>5 DEF Intact
<1>6. Lawful(new)
  BY <1>3, <1>4, <1>5 DEF Lawful
<1> QED
  BY <1>1, <1>6, TransactStep DEF new

LEMMA UpdateTagStep == ASSUME QueriesAssumption, QueriesIInv, NEW d \in KnitId, UpdateTag(d) PROVE QueriesIInv'
<1>1. PICK T \in SUBSET UserTag : Transact([db EXCEPT !.tags[d] = T])
  BY DEF UpdateTag
<1> DEFINE new == [db EXCEPT !.tags[d] = T]
<1>2. db \in Database /\ Intact(db) /\ db.data[d] # NoRun
  BY DEF QueriesIInv, QueriesTypeOK, UpdateTag, Is
<1>3. new \in Database
  BY <1>2 DEF Database
<1>4. /\ new.run = db.run /\ new.exit = db.exit /\ new.data = db.data /\ new.assign = db.assign /\ new.used = db.used
      /\ \A e \in KnitId : new.tags[e] = IF e = d THEN T ELSE db.tags[e]
  BY <1>2 DEF Database
<1> HIDE DEF new
<1>5. Lawful(new)
  BY <1>2, <1>3, <1>4 DEF Lawful, Intact
<1> QED
  BY <1>1, <1>5, TransactStep DEF new

\* The outputs of the run are gone, and the runs that took them.
LEMMA TruncatedIs ==
    ASSUME NEW r \in Run, NEW new \in SUBSET KnitId, db \in Database, NEW tables, tables = Truncated(r, new)
    PROVE  /\ tables \in Database
           /\ \A q \in Run : tables.run[q] = IF q \in Consumers(r) THEN "none" ELSE db.run[q]
           /\ tables.exit = db.exit \ (Consumers(r) \cup {r})
           /\ tables.assign = {a \in db.assign : a[2] \notin Consumers(r)}
           /\ \A d \in KnitId : tables.data[d] = IF d \in new THEN r ELSE IF db.data[d] = r THEN NoRun ELSE db.data[d]
           /\ \A d \in KnitId : tables.tags[d] = IF db.data[d] = r THEN {} ELSE db.tags[d]
           /\ tables.used = db.used \cup new
<1> DEFINE run == [q \in Run |-> IF q \in Consumers(r) THEN "none" ELSE db.run[q]]
           data == [d \in KnitId |-> IF d \in new THEN r ELSE IF d \in Outputs(r) THEN NoRun ELSE db.data[d]]
           tags == [d \in KnitId |-> IF d \in Outputs(r) THEN {} ELSE db.tags[d]]
           assign == {a \in db.assign : a[2] \notin Consumers(r)}
           exit == db.exit \ (Consumers(r) \cup {r})
           stamped == db.stamped \ Outputs(r)
           used == db.used \cup new
<1>1. /\ run \in [Run -> Status \cup {"none"}] /\ data \in [KnitId -> Run \cup {NoRun}]
      /\ tags \in [KnitId -> SUBSET UserTag] /\ assign \in SUBSET (KnitId \X Run)
      /\ exit \in SUBSET Run /\ stamped \in SUBSET KnitId /\ used \in SUBSET KnitId
  BY DEF Database
<1>2. tables = [db EXCEPT !.run = run, !.assign = assign, !.exit = exit, !.data = data,
                          !.stamped = stamped, !.tags = tags, !.used = used]
  BY DEF Truncated
<1>3. \A q \in Run : run[q] = IF q \in Consumers(r) THEN "none" ELSE db.run[q]
  OBVIOUS
<1>4. \A d \in KnitId : data[d] = IF d \in new THEN r ELSE IF db.data[d] = r THEN NoRun ELSE db.data[d]
  BY DEF Outputs
<1>5. \A d \in KnitId : tags[d] = IF db.data[d] = r THEN {} ELSE db.tags[d]
  BY DEF Outputs
<1> HIDE DEF run, data, tags, assign, exit, stamped, used
<1>6. tables \in Database
  BY <1>1, <1>2 DEF Database
<1>7. /\ tables.run = run /\ tables.data = data /\ tables.tags = tags
      /\ tables.exit = exit /\ tables.assign = assign /\ tables.used = used
  BY <1>2 DEF Database
<1> QED
  BY <1>3, <1>4, <1>5, <1>6, <1>7 DEF exit, assign, used

\* Truncation leaves tables that fit, whatever the run is then.
LEMMA TruncateLawful ==
    ASSUME QueriesAssumption, db \in Database, Intact(db), NEW r \in Run, Free(r), NEW new \in SUBSET (KnitId \ db.used),
           NEW s \in {"running", "invalidated", "none"}, s # "running" => new = {}, s = "none" => InputsOf(r) = {}
    PROVE  Lawful([Truncated(r, new) EXCEPT !.run[r] = s])
<1>1. PICK T : T = Truncated(r, new)
  OBVIOUS
<1>2. /\ T \in Database
      /\ \A q \in Run : T.run[q] = IF q \in Consumers(r) THEN "none" ELSE db.run[q]
      /\ T.exit = db.exit \ (Consumers(r) \cup {r})
      /\ T.assign = {a \in db.assign : a[2] \notin Consumers(r)}
      /\ \A d \in KnitId : T.data[d] = IF d \in new THEN r ELSE IF db.data[d] = r THEN NoRun ELSE db.data[d]
      /\ \A d \in KnitId : T.tags[d] = IF db.data[d] = r THEN {} ELSE db.tags[d]
      /\ T.used = db.used \cup new
  BY <1>1, TruncatedIs
<1>3. PICK U : U = [T EXCEPT !.run[r] = s]
  OBVIOUS
<1>4. U \in Database
  BY <1>2, <1>3 DEF Database, Status
<1>5. /\ U.exit = T.exit /\ U.assign = T.assign /\ U.data = T.data /\ U.tags = T.tags /\ U.used = T.used
      /\ \A q \in Run : U.run[q] = IF q = r THEN s ELSE T.run[q]
  BY <1>2, <1>3 DEF Database
<1>6. db.run[r] \in {"done", "failed"} /\ NoRun \notin Run
  BY DEF Free, QueriesAssumption
<1>7. /\ \A q \in Consumers(r) : q \in Run /\ db.run[q] = "invalidated"
      /\ r \notin Consumers(r)
  BY <1>6 DEF Free, Consumers
<1>8. ASSUME NEW d \in KnitId, U.data[d] # NoRun
      PROVE  U.run[U.data[d]] \notin {"none", "invalidated"} /\ d \in U.used
  <2>1. CASE d \in new
    BY <1>2, <1>5, <2>1
  <2>2. CASE d \notin new
    <3>1. U.data[d] = db.data[d] /\ db.data[d] # r /\ db.data[d] \in Run
      BY <1>2, <1>5, <1>8, <2>2 DEF Database
    <3>2. db.run[db.data[d]] \notin {"none", "invalidated"} /\ d \in db.used
      BY <1>8, <3>1 DEF Intact
    <3>3. db.data[d] \notin Consumers(r)
      BY <1>7, <3>2
    <3> QED
      BY <1>2, <1>5, <3>1, <3>2, <3>3
  <2> QED
    BY <2>1, <2>2
<1>9. ASSUME NEW a \in U.assign PROVE U.data[a[1]] # NoRun /\ U.run[a[2]] # "none"
  <2>1. a \in db.assign /\ a[2] \notin Consumers(r) /\ a[1] \in KnitId /\ a[2] \in Run /\ a = <<a[1], a[2]>>
    BY <1>2, <1>5 DEF Database
  <2>2. db.data[a[1]] # NoRun /\ db.run[a[2]] # "none"
    BY <2>1 DEF Intact
  <2>3. a[1] \in InputsOf(a[2])
    BY <2>1 DEF InputsOf
  <2>4. db.data[a[1]] # r
    BY <2>1, <2>3 DEF Consumers, Outputs
  <2>5. U.data[a[1]] # NoRun
    BY <1>2, <1>5, <1>6, <2>1, <2>2, <2>4
  <2>6. U.run[a[2]] # "none"
    BY <1>2, <1>5, <2>1, <2>2, <2>3
  <2> QED
    BY <2>5, <2>6
<1>10. \A d \in KnitId : U.tags[d] # {} => U.data[d] # NoRun
  BY <1>2, <1>5, <1>6 DEF Intact
<1>11. U.exit = {q \in Run : U.run[q] \in {"done", "failed"}}
  BY <1>2, <1>5, <1>7 DEF Intact
<1>12. Intact(U)
  BY <1>8, <1>9, <1>10, <1>11 DEF Intact
<1>13. \A d \in db.used : db.data[d] = NoRun => U.data[d] = NoRun
  BY <1>2, <1>5 DEF Database
<1>14. Lawful(U)
  BY <1>2, <1>4, <1>5, <1>12, <1>13 DEF Lawful
<1> QED
  BY <1>1, <1>3, <1>14

LEMMA RetryStep == ASSUME QueriesAssumption, QueriesIInv, NEW r \in Run, Retry(r) PROVE QueriesIInv'
<1>1. PICK new \in SUBSET (KnitId \ db.used) : Transact([Truncated(r, new) EXCEPT !.run[r] = "running"])
  BY DEF Retry, Fresh
<1>2. Free(r) /\ db \in Database /\ Intact(db)
  BY DEF Retry, QueriesIInv, QueriesTypeOK
<1>3. Lawful([Truncated(r, new) EXCEPT !.run[r] = "running"])
  BY <1>2, TruncateLawful
<1> QED
  BY <1>1, <1>3, TransactStep

LEMMA DeleteStep == ASSUME QueriesAssumption, QueriesIInv, NEW r \in Run, Delete(r) PROVE QueriesIInv'
<1>1. PICK s \in {"none", "invalidated"} : s = IF InputsOf(r) = {} THEN "none" ELSE "invalidated"
  OBVIOUS
<1>2. Transact([Truncated(r, {}) EXCEPT !.run[r] = s])
  BY <1>1 DEF Delete
<1>3. Free(r) /\ db \in Database /\ Intact(db) /\ {} \in SUBSET (KnitId \ db.used)
  BY DEF Delete, QueriesIInv, QueriesTypeOK
<1>4. Lawful([Truncated(r, {}) EXCEPT !.run[r] = s])
  BY <1>1, <1>3, TruncateLawful
<1> QED
  BY <1>2, <1>4, TransactStep

-----------------------------------------------------------------------------
(* What holds in every state *)

LEMMA ComeStep ==
    ASSUME QueriesIInv, NEW kind \in {"data", "run"}, NEW q, NEW ids, Come(kind, q, ids),
           kind = "data" => (\A d \in ids : d \in KnitId /\ Is(d)) /\ q.flag \in {"both", "yes", "no"},
           kind = "run" => ids \subseteq Run /\ \A r \in ids : db.run[r] # "none"
    PROVE  QueriesIInv'
<1>1. /\ began' = writes /\ UNCHANGED <<db, writes>>
      /\ req' = [at |-> IF ids = {} THEN "answered" ELSE kind, kind |-> kind, query |-> q, ids |-> ids,
                 body |-> <<>>, tags |-> <<>>, upstream |-> <<>>, downstream |-> {}, run |-> <<>>, exit |-> {},
                 nominated |-> <<>>, in |-> {}, out |-> {}]
  BY DEF Come
<1>2. /\ DOMAIN req' = Field /\ req'.at = (IF ids = {} THEN "answered" ELSE kind) /\ req'.kind = kind
      /\ req'.query = q /\ req'.ids = ids /\ req'.body = <<>> /\ req'.tags = <<>> /\ req'.in = {} /\ req'.out = {}
  BY <1>1 DEF Field
<1>3. DOMAIN req'.body = {} /\ DOMAIN req'.tags = {}
  BY <1>2
<1>4. QueriesTypeOK'
  BY <1>1, <1>2, <1>3 DEF QueriesIInv, QueriesTypeOK, Intact
<1>5. ids \subseteq IF kind = "data" THEN db.used ELSE Run
  BY DEF QueriesIInv, QueriesTypeOK, Intact, Is
<1>6. DataOfRuns' = {}
  BY <1>2 DEF DataOfRuns
<1>7. Shaped'
  BY <1>1, <1>2, <1>5, <1>6 DEF Shaped
<1>8. Bodies'
  BY <1>2, <1>3 DEF Bodies
<1>9. Exact'
  BY <1>1, <1>2 DEF Exact, DataExact, RunExact, Is
<1> QED
  BY <1>4, <1>7, <1>8, <1>9 DEF QueriesIInv

LEMMA FindStep == ASSUME QueriesIInv, FindData \/ FindRun PROVE QueriesIInv'
<1>1. CASE FindData
  <2>1. PICK q \in DataQuery : Come("data", q, {d \in KnitId : Holds(d, q)})
    BY <1>1 DEF FindData
  <2>2. (\A d \in {e \in KnitId : Holds(e, q)} : d \in KnitId /\ Is(d)) /\ q.flag \in {"both", "yes", "no"}
    BY DEF Holds, DataQuery
  <2> QED
    BY <2>1, <2>2, ComeStep
<1>2. CASE FindRun
  <2>1. PICK q \in RunQuery : Come("run", q, {r \in Run : Matches(r, q)})
    BY <1>2 DEF FindRun
  <2>2. \A r \in {x \in Run : Matches(x, q)} : r \in Run /\ db.run[r] # "none"
    BY DEF Matches, RunQuery, Status
  <2> QED
    BY <2>1, <2>2, ComeStep
<1> QED
  BY <1>1, <1>2

LEMMA AnswerStep == ASSUME QueriesAssumption, QueriesIInv, GetData \/ GetRun PROVE QueriesIInv'
<1>1. req.at # "idle" /\ QueriesTypeOK /\ Shaped /\ Bodies /\ Exact
  BY DEF GetData, GetRun, QueriesIInv
<1>2. Shaped' /\ Bodies' /\ Exact'
  BY <1>1, GetDataStep, GetRunStep
<1>3. UNCHANGED <<db, writes, began>>
  BY DEF GetData, GetRun, GetDataBody, GetRunBody, Upstream, Downstream, GetNominationByKnitId, Statement
<1>4. QueriesTypeOK'
  BY <1>1, <1>2, <1>3 DEF QueriesTypeOK, Intact, Shaped, Bodies, Database
<1> QED
  BY <1>2, <1>4 DEF QueriesIInv

LEMMA InitQueriesIInv == ASSUME QueriesAssumption, QueriesInit PROVE QueriesIInv
<1>1. db \in Database /\ Intact(db) /\ writes = 0 /\ began = 0 /\ req = [at |-> "idle"] /\ MaxWrites \in Nat
  BY DEF QueriesAssumption, QueriesInit
<1>2. req.at = "idle"
  BY <1>1
<1> QED
  BY <1>1, <1>2 DEF QueriesIInv, QueriesTypeOK

LEMMA QueriesInvariance ==
    ASSUME QueriesAssumption, QueriesIInv, [QueriesNext]_queriesVars PROVE QueriesIInv'
<1>1. CASE \E r \in Run : Finish(r) \/ Retry(r) \/ Delete(r)
  BY <1>1, FinishStep, RetryStep, DeleteStep
<1>2. CASE \E d \in KnitId : UpdateTag(d)
  BY <1>2, UpdateTagStep
<1>3. CASE FindData \/ FindRun
  BY <1>3, FindStep
<1>4. CASE GetData \/ GetRun
  BY <1>4, AnswerStep
<1>5. CASE UNCHANGED queriesVars
  BY <1>5 DEF queriesVars, QueriesIInv, QueriesTypeOK, Intact, Shaped, Bodies, Exact, DataExact, RunExact, WantedNow,
              TagsRead, DataOfRuns, RunsOfData, Body, Statuses, Is, Transient
<1> QED
  BY <1>1, <1>2, <1>3, <1>4, <1>5 DEF QueriesNext, Write, Read

LEMMA NoGhosts == ASSUME QueriesIInv PROVE NoGhost
BY DEF QueriesIInv, Bodies, TagsRead, NoGhost, Answered

LEMMA DataAnswers ==
    ASSUME QueriesAssumption, QueriesIInv, writes = began, Answered("data")
    PROVE  /\ Printed = {d \in req.ids : req.query.flag \in {"both", IF db.run[db.data[d]] = "done" THEN "no" ELSE "yes"}}
           /\ \A d \in req.ids :
                  /\ req.upstream[d] = db.data[d] /\ req.run[req.upstream[d]] = db.run[db.data[d]]
                  /\ AssignedTo(d) = {r \in Run : <<d, r>> \in db.assign /\ db.run[r] # "invalidated"}
<1>1. /\ Shaped /\ db \in Database /\ Intact(db) /\ req.ids # {} /\ DataExact /\ req.at = "answered"
      /\ req.ids \subseteq KnitId /\ req.query.flag \in {"both", "yes", "no"}
  BY DEF QueriesIInv, QueriesTypeOK, Answered, Exact, Shaped, Database
<1>2. /\ \A d \in req.ids : Is(d)
      /\ req.body = Body(req.ids) /\ req.upstream = [d \in req.ids |-> db.data[d]]
      /\ req.downstream = {a \in db.assign : a[1] \in req.ids} /\ req.run = Statuses(RunsOfData)
  BY <1>1 DEF DataExact
<1>3. ASSUME NEW d \in req.ids
      PROVE  db.data[d] \in Run /\ db.run[db.data[d]] \in Status \ {"invalidated"} /\ db.data[d] \in RunsOfData
  BY <1>1, <1>2 DEF Is, Database, Intact, RunsOfData
<1>4. /\ DOMAIN req.run = {q \in RunsOfData : db.run[q] # "none"}
      /\ \A q \in DOMAIN req.run : req.run[q] = db.run[q]
  BY <1>2 DEF Statuses
<1>5. Printed = {d \in req.ids : req.query.flag \in {"both", IF db.run[db.data[d]] = "done" THEN "no" ELSE "yes"}}
  <2>1. DOMAIN req.body = req.ids /\ \A d \in req.ids : req.body[d].transient = Transient(db.run[db.data[d]])
    BY <1>2 DEF Body
  <2>2. ASSUME NEW d \in req.ids
        PROVE  (CASE req.query.flag = "both" -> TRUE [] req.query.flag = "yes" -> req.body[d].transient # "no"
                  [] req.query.flag = "no" -> req.body[d].transient = "no")
               <=> req.query.flag \in {"both", IF db.run[db.data[d]] = "done" THEN "no" ELSE "yes"}
    <3>1. req.body[d].transient = "no" <=> db.run[db.data[d]] = "done"
      BY <1>3, <2>1 DEF Transient, Status
    <3> QED
      BY <1>1, <3>1
  <2> QED
    BY <2>1, <2>2 DEF Printed
<1>6. ASSUME NEW d \in req.ids
      PROVE  req.upstream[d] = db.data[d] /\ req.run[req.upstream[d]] = db.run[db.data[d]]
  <2>1. req.upstream[d] = db.data[d]
    BY <1>2
  <2>2. db.data[d] \in DOMAIN req.run
    BY <1>3, <1>4 DEF Status
  <2> QED
    BY <1>4, <2>1, <2>2
<1>7. ASSUME NEW d \in req.ids
      PROVE  AssignedTo(d) = {r \in Run : <<d, r>> \in db.assign /\ db.run[r] # "invalidated"}
  <2> DEFINE got == {b \in req.downstream : b[1] = d /\ b[2] \in DOMAIN req.run /\ Shown(b[2])}
  <2>1. ASSUME NEW a \in got
        PROVE  a[2] \in {r \in Run : <<d, r>> \in db.assign /\ db.run[r] # "invalidated"}
    <3>1. a \in db.assign /\ a[1] = d /\ a[2] \in DOMAIN req.run /\ req.run[a[2]] # "invalidated"
      BY <1>2, <2>1 DEF Shown
    <3>2. a = <<a[1], a[2]>> /\ a[2] \in Run
      BY <1>1, <3>1 DEF Database
    <3>3. <<d, a[2]>> \in db.assign
      BY <3>1, <3>2
    <3> QED
      BY <1>4, <3>1, <3>2, <3>3
  <2>2. ASSUME NEW r \in Run, <<d, r>> \in db.assign, db.run[r] # "invalidated"
        PROVE  <<d, r>> \in got
    <3>1. <<d, r>> \in req.downstream
      BY <1>2, <2>2
    <3>2. r \in RunsOfData
      BY <3>1 DEF RunsOfData
    <3>3. db.run[r] # "none"
      BY <1>1, <2>2 DEF Intact
    <3>4. r \in DOMAIN req.run /\ req.run[r] = db.run[r]
      BY <1>4, <3>2, <3>3
    <3> QED
      BY <2>2, <3>1, <3>4 DEF Shown
  <2>3. AssignedTo(d) = {a[2] : a \in got}
    BY DEF AssignedTo
  <2> HIDE DEF got
  <2>4. \A r \in Run : <<d, r>> \in got => r \in {a[2] : a \in got}
    OBVIOUS
  <2> QED
    BY <2>1, <2>2, <2>3, <2>4
<1> QED
  BY <1>5, <1>6, <1>7

LEMMA RunAnswers ==
    ASSUME QueriesAssumption, QueriesIInv, writes = began, Answered("run")
    PROVE  /\ Details = req.ids /\ req.exit = {r \in req.ids : db.run[r] \in {"done", "failed"}}
           /\ \A r \in req.ids :
                  /\ {a[1] : a \in {b \in req.in : b[2] = r}} = InputsOf(r)
                  /\ {a[1] : a \in {b \in req.out : b[2] = r}} = Outputs(r)
<1>1. /\ db \in Database /\ Intact(db) /\ RunExact /\ req.at = "answered" /\ req.ids \subseteq Run
  BY DEF QueriesIInv, QueriesTypeOK, Answered, Exact, Shaped
<1>2. /\ \A r \in req.ids : db.run[r] # "none"
      /\ req.run = Statuses(req.ids) /\ req.exit = req.ids \cap db.exit
      /\ req.in = {a \in db.assign : a[2] \in req.ids}
      /\ req.out = {<<d, db.data[d]>> : d \in {e \in KnitId : db.data[e] \in req.ids}}
  BY <1>1 DEF RunExact
<1>3. DOMAIN req.run = req.ids
  BY <1>2 DEF Statuses
<1>4. Details = req.ids
  BY <1>3 DEF Details
<1>5. req.exit = {r \in req.ids : db.run[r] \in {"done", "failed"}}
  BY <1>1, <1>2 DEF Intact
<1>6. ASSUME NEW r \in req.ids PROVE {a[1] : a \in {b \in req.in : b[2] = r}} = InputsOf(r)
  <2>1. ASSUME NEW a \in req.in, a[2] = r PROVE a[1] \in InputsOf(r)
    <3>1. a \in db.assign /\ a = <<a[1], a[2]>> /\ a[1] \in KnitId
      BY <1>1, <1>2, <2>1 DEF Database
    <3>2. <<a[1], r>> \in db.assign
      BY <2>1, <3>1
    <3> QED
      BY <3>1, <3>2 DEF InputsOf
  <2>2. ASSUME NEW d \in InputsOf(r) PROVE <<d, r>> \in {b \in req.in : b[2] = r}
    BY <1>2, <2>2 DEF InputsOf
  <2> DEFINE got == {b \in req.in : b[2] = r}
  <2>3. \A a \in got : a[1] \in InputsOf(r)
    BY <2>1
  <2>4. \A d \in InputsOf(r) : <<d, r>> \in got
    BY <2>2
  <2> HIDE DEF got
  <2>5. \A d : <<d, r>> \in got => d \in {a[1] : a \in got}
    OBVIOUS
  <2>6. {a[1] : a \in got} = InputsOf(r)
    BY <2>3, <2>4, <2>5
  <2> QED
    BY <2>6 DEF got
<1>7. ASSUME NEW r \in req.ids PROVE {a[1] : a \in {b \in req.out : b[2] = r}} = Outputs(r)
  <2>1. ASSUME NEW a \in req.out, a[2] = r PROVE a[1] \in Outputs(r)
    BY <1>2, <2>1 DEF Outputs
  <2>2. ASSUME NEW d \in Outputs(r) PROVE <<d, r>> \in {b \in req.out : b[2] = r}
    BY <1>2, <1>7, <2>2 DEF Outputs
  <2> DEFINE got == {b \in req.out : b[2] = r}
  <2>3. \A a \in got : a[1] \in Outputs(r)
    BY <2>1
  <2>4. \A d \in Outputs(r) : <<d, r>> \in got
    BY <2>2
  <2> HIDE DEF got
  <2>5. \A d : <<d, r>> \in got => d \in {a[1] : a \in got}
    OBVIOUS
  <2>6. {a[1] : a \in got} = Outputs(r)
    BY <2>3, <2>4, <2>5
  <2> QED
    BY <2>6 DEF got
<1> QED
  BY <1>4, <1>5, <1>6, <1>7

\* Answers, for any tables that fit, any requests and any transactions in between:
\* no tags without their data; and, when nothing was written in between, what the
\* tables hold.
THEOREM AnswersCorrect == ASSUME QueriesAssumption PROVE QueriesSpec => []AnswersAreExact
<1>1. QueriesInit => QueriesIInv
  BY InitQueriesIInv
<1>2. QueriesIInv /\ [QueriesNext]_queriesVars => QueriesIInv'
  BY QueriesInvariance
<1>3. QueriesIInv => AnswersAreExact
  <2> SUFFICES ASSUME QueriesIInv PROVE AnswersAreExact
    OBVIOUS
  <2>1. NoGhost
    BY NoGhosts
  <2>2. QuietIsExact
    BY DataAnswers, RunAnswers DEF QuietIsExact
  <2> QED
    BY <2>1, <2>2 DEF AnswersAreExact, QueriesIInv
<1> QED
  BY <1>1, <1>2, <1>3, PTL DEF QueriesSpec

-----------------------------------------------------------------------------
(* Settings *)

\* What is left of a request a, by where it is.  Resources are set, then unset;
\* annotations are removed, then added; the account is put or deleted.
Limits(a) == <<Upsert(a.set)>>
NoLimits(a) == <<[DeleteRows(a.unset) EXCEPT !.first = "update"]>>
Left(a, phase) ==
    CASE phase = "set"    -> <<Limits(a), NoLimits(a)>>
      [] phase = "unset"  -> <<NoLimits(a)>>
      [] phase = "share"  -> << <<KeyShare, DeleteRows(a.unset), Insert(a.set)>> >>
      [] phase = "remove" -> << <<DeleteRows(a.unset), Insert(a.set)>> >>
      [] phase = "add"    -> << <<Insert(a.set)>> >>
      [] phase = "put"    -> << <<[Upsert(a.set) EXCEPT !.first = "share"]>> >>
      [] phase = "plan"   -> << <<KeyShare, DeleteRows(a.unset)>> >>
      [] phase = "delete" -> << <<DeleteRows(a.unset)>> >>
      [] OTHER -> <<>>

Phases(a) ==
    {"over"} \cup
    (IF a.kind = "resource" THEN {"set", "unset"}
     ELSE IF a.kind = "annotation" THEN {"share", "remove", "add"}
     ELSE IF a.unset = {} THEN {"put"} ELSE {"plan", "delete"})

PhaseOf(a, r) == CHOOSE p \in Phases(a) : r = Left(a, p)
Phase(c) == PhaseOf(wish[c], rest[c])

\* The rows of the statement at hand, and those of the statements after it.
Now(a, p) ==
    IF p \in {"set", "put", "add"} THEN DOMAIN a.set ELSE IF p \in {"unset", "remove", "delete"} THEN a.unset ELSE {}
After(a, p) ==
    IF p \in {"set", "plan"} THEN a.unset
    ELSE IF p = "share" THEN a.unset \cup DOMAIN a.set
    ELSE IF p = "remove" THEN DOMAIN a.set ELSE {}

\* Where a request goes when a statement, and when a transaction, has ended.
NextPhase(p) == IF p = "share" THEN "remove" ELSE IF p = "remove" THEN "add" ELSE "delete"
Behind(p) == IF p = "set" THEN "unset" ELSE "over"

-----------------------------------------------------------------------------
(* The invariant *)

Types ==
    /\ wish \in Wishes /\ DOMAIN rows = Row
    /\ pc \in [Client -> {"run", "get", "ok", "failed"}]
    /\ todo \in [Client -> {Between} \cup SUBSET Row]
    /\ lock \in [Client -> {"no", "share", "update"}]
    /\ DOMAIN rest = Client /\ DOMAIN own = Client /\ DOMAIN told = Client

\* A request is at one place; it has written nothing once it has ended.
Placed(c) ==
    /\ Phase(c) \in Phases(wish[c]) /\ rest[c] = Left(wish[c], Phase(c))
    /\ pc[c] = "run" => Phase(c) # "over"
    /\ pc[c] \in {"get", "ok"} => Phase(c) = "over"
    /\ pc[c] # "run" => todo[c] = Between /\ Written(c) = {}

\* What it has written, statement by statement.
Sets(c) ==
    /\ Written(c) = IF todo[c] = Between THEN {} ELSE DOMAIN wish[c].set \ todo[c]
    /\ \A x \in Written(c) : own[c][x] = wish[c].set[x]
Removes(c) ==
    /\ Written(c) \subseteq wish[c].unset /\ (todo[c] = Between => Written(c) = {})
    /\ \A x \in Written(c) : own[c][x] = NoRow
Adds(c) ==
    /\ Written(c) \subseteq DOMAIN wish[c].set \cup wish[c].unset
    /\ \A x \in Written(c) :
           IF x \in DOMAIN wish[c].set /\ todo[c] # Between /\ x \notin todo[c]
           THEN own[c][x] = There /\ (x \in wish[c].unset \/ rows[x] = NoRow)
           ELSE own[c][x] = NoRow /\ x \in wish[c].unset
Works(c) ==
    /\ todo[c] # Between => todo[c] \subseteq Now(wish[c], Phase(c))
    /\ Phase(c) \in {"set", "put"} => Sets(c)
    /\ Phase(c) \in {"unset", "remove", "delete"} => Removes(c)
    /\ Phase(c) = "add" => Adds(c)
    /\ Phase(c) \in {"share", "plan", "over"} => Written(c) = {}

Apart == \A c, d \in Client : c # d => Written(c) \cap Written(d) = {}

\* An annotation has no value of its own.
Plain == \A c \in Client : wish[c].kind = "annotation" => \A x \in Touches(c) : rows[x] \in {NoRow, There}

\* A request that goes on will yet see to row x.
Later(c, x) ==
    \/ x \in Written(c)
    \/ x \in After(wish[c], Phase(c))
    \/ x \in IF todo[c] = Between THEN Now(wish[c], Phase(c)) ELSE todo[c]
Pending(c, x) == pc[c] = "failed" \/ (pc[c] = "run" /\ Later(c, x))

\* A row is as one wanted it, or one of those who touch it has yet to see to it.
Settled ==
    \A x \in Row, c \in Client : x \in Touches(c) =>
        \E d \in Client : x \in Touches(d) /\ (rows[x] = Wanted(d, x) \/ Pending(d, x))

\* What a request that touches row x may leave there; once it has seen to the
\* row, one of those is there for good.
Good(x) ==
    UNION {{Wanted(d, x)} \cup (IF x \in DOMAIN wish[d].set THEN {wish[d].set[x]} ELSE {}) :
               d \in {e \in Client : x \in Touches(e)}}
Seen ==
    \A c \in Client, x \in Row : x \in Touches(c) =>
        /\ ~Pending(c, x) => rows[x] \in Good(x)
        /\ pc[c] = "ok" => told[c][x] \in Good(x)

SettingsIInv ==
    /\ Types /\ (\A c \in Client : Placed(c) /\ Works(c))
    /\ Apart /\ Plain /\ WholeSets /\ Settled /\ Seen

-----------------------------------------------------------------------------
(* Statements *)

LEMMA Two == ASSUME NEW a, NEW b PROVE <<a>> \o <<b>> = <<a, b>>
<1> DEFINE s == <<a>> \o <<b>>
           t == <<a, b>>
<1>1. s \in Seq({a, b}) /\ t \in Seq({a, b})
  OBVIOUS
<1>2. Len(s) = 2 /\ Len(t) = 2 /\ s[1] = a /\ t[1] = a /\ s[2] = b /\ t[2] = b
  OBVIOUS
<1> HIDE DEF s, t
<1>3. s = t
  BY <1>1, <1>2, SeqEqual
<1> QED
  BY <1>3 DEF s, t

LEMMA LeftIs ==
    ASSUME NEW a, NEW p \in Phases(a) \ {"over"}
    PROVE  /\ Len(Left(a, p)) = (IF p = "set" THEN 2 ELSE 1)
           /\ Len(Left(a, p)[1]) = (IF p = "share" THEN 3 ELSE IF p \in {"remove", "plan"} THEN 2 ELSE 1)
           /\ Left(a, p) # <<>>
<1>1. p \in {"set", "unset", "share", "remove", "add", "put", "plan", "delete"}
  BY DEF Phases
<1> QED
  BY <1>1 DEF Left, Limits, NoLimits

LEMMA PhaseKnown == ASSUME NEW a, NEW p \in Phases(a) PROVE PhaseOf(a, Left(a, p)) = p
<1>1. Left(a, "over") = <<>>
  BY DEF Left
<1>2. \A q \in Phases(a) : Left(a, p) = Left(a, q) => p = q
  <2> SUFFICES ASSUME NEW q \in Phases(a), Left(a, p) = Left(a, q) PROVE p = q
    OBVIOUS
  <2>1. CASE p = "over" \/ q = "over"
    BY <2>1, <1>1, LeftIs
  <2>2. CASE p # "over" /\ q # "over"
    <3>1. (p = "set" <=> q = "set") /\ (p = "share" <=> q = "share") /\ (p \in {"remove", "plan"} <=> q \in {"remove", "plan"})
      BY <2>2, LeftIs
    <3> QED
      BY <2>2, <3>1 DEF Phases
  <2> QED
    BY <2>1, <2>2
<1> QED
  BY <1>2 DEF PhaseOf

LEMMA SettingsStatementIs ==
    ASSUME NEW a, NEW p \in Phases(a) \ {"over"}
    PROVE  LET s == Left(a, p)[1][1]
           IN  /\ DOMAIN s.to = Now(a, p)
               /\ p \in {"set", "put"} => s.do = "upsert" /\ s.to = a.set
               /\ p = "add" => s.do = "insert" /\ s.to = a.set
               /\ p \in {"unset", "remove", "delete"} => s.do = "delete" /\ \A x \in a.unset : s.to[x] = NoRow
               /\ p \in {"share", "plan"} => s.do = "share"
<1>1. p \in {"set", "unset", "share", "remove", "add", "put", "plan", "delete"}
  BY DEF Phases
<1>2. DOMAIN KeyShare.to = {}
  BY DEF KeyShare
<1> QED
  BY <1>1, <1>2 DEF Left, Limits, NoLimits, Now, Upsert, Insert, DeleteRows, KeyShare

LEMMA LeftAfterStatement ==
    ASSUME NEW a, NEW p \in Phases(a) \ {"over"}, Len(Left(a, p)[1]) > 1
    PROVE  /\ p \in {"share", "remove", "plan"} /\ NextPhase(p) \in Phases(a)
           /\ <<Tail(Left(a, p)[1])>> \o Tail(Left(a, p)) = Left(a, NextPhase(p))
<1>1. p \in {"share", "remove", "plan"}
  BY LeftIs
<1>2. NextPhase(p) \in Phases(a)
  BY <1>1 DEF NextPhase, Phases
<1>3. \A e : Tail(<<e>>) = <<>> /\ <<e>>[1] = e
  OBVIOUS
<1>4. \A t : <<Tail(<<t>>[1])>> \o Tail(<<t>>) = <<Tail(t)>>
  BY <1>3
<1>5. \A d, e, f : Tail(<<d, e, f>>) = <<e, f>> /\ Tail(<<d, e>>) = <<e>>
  OBVIOUS
<1>6. ASSUME NEW t, Left(a, p) = <<t>>, Left(a, NextPhase(p)) = <<Tail(t)>>
      PROVE  <<Tail(Left(a, p)[1])>> \o Tail(Left(a, p)) = Left(a, NextPhase(p))
  BY <1>4, <1>6
<1>7. \E t : Left(a, p) = <<t>> /\ Left(a, NextPhase(p)) = <<Tail(t)>>
  <2>1. CASE p = "share"
    <3> DEFINE t == <<KeyShare, DeleteRows(a.unset), Insert(a.set)>>
    <3>1. Tail(t) = <<DeleteRows(a.unset), Insert(a.set)>>
      BY <1>5
    <3>2. Left(a, p) = <<t>>
      BY <2>1 DEF Left
    <3>3. Left(a, NextPhase(p)) = << <<DeleteRows(a.unset), Insert(a.set)>> >>
      BY <2>1 DEF Left, NextPhase
    <3> QED
      BY <3>1, <3>2, <3>3
  <2>2. CASE p = "remove"
    BY <1>5, <2>2 DEF Left, NextPhase
  <2>3. CASE p = "plan"
    BY <1>5, <2>3 DEF Left, NextPhase
  <2> QED
    BY <1>1, <2>1, <2>2, <2>3
<1> QED
  BY <1>1, <1>2, <1>6, <1>7

LEMMA LeftAfterCommit ==
    ASSUME NEW a, NEW p \in Phases(a) \ {"over"}, Len(Left(a, p)[1]) = 1
    PROVE  /\ p \in {"set", "unset", "add", "put", "delete"} /\ Behind(p) \in Phases(a)
           /\ Tail(Left(a, p)) = Left(a, Behind(p)) /\ (Len(Left(a, p)) = 1 <=> p # "set")
<1>1. p \in {"set", "unset", "add", "put", "delete"}
  <2>1. Len(Left(a, p)[1]) = (IF p = "share" THEN 3 ELSE IF p \in {"remove", "plan"} THEN 2 ELSE 1)
    BY LeftIs
  <2>2. p \notin {"share", "remove", "plan"}
    <3> DEFINE n == Len(Left(a, p)[1])
    <3>1. n = 1 /\ n = (IF p = "share" THEN 3 ELSE IF p \in {"remove", "plan"} THEN 2 ELSE 1)
      BY <2>1
    <3> HIDE DEF n
    <3> QED
      BY <3>1
  <2> QED
    BY <2>2 DEF Phases
<1>2. Behind(p) \in Phases(a)
  BY <1>1 DEF Behind, Phases
<1>3. \A d, e : Tail(<<e>>) = <<>> /\ Tail(<<d, e>>) = <<e>>
  OBVIOUS
<1> QED
  BY <1>1, <1>2, <1>3, LeftIs DEF Left, Behind

LEMMA FirstPhase ==
    ASSUME NEW a, a.kind \in {"resource", "annotation", "account"}
    PROVE  \E p \in Phases(a) \ {"over"} :
               /\ Transactions(a) = Left(a, p) /\ p \in {"set", "share", "put", "plan"}
<1>1. CASE a.kind = "resource"
  BY <1>1, Two DEF Transactions, SetResourceLimit, UnsetResourceLimit, Left, Limits, NoLimits, Phases
<1>2. CASE a.kind = "annotation"
  BY <1>2 DEF Transactions, UpdateAnnotations, Left, Phases
<1>3. CASE a.kind = "account"
  BY <1>3 DEF Transactions, SetServiceAccount, UnsetServiceAccount, Left, Phases
<1> QED
  BY <1>1, <1>2, <1>3

-----------------------------------------------------------------------------
(* What a step of one client does, as far as the invariant can tell *)

Keeps(d) ==
    pc'[d] = pc[d] /\ rest'[d] = rest[d] /\ todo'[d] = todo[d] /\ own'[d] = own[d] /\ told'[d] = told[d]

\* Who stops seeing to a row has found or left it as wanted.
SeesTo(c) == \A x \in Row : x \in Touches(c) /\ Pending(c, x) /\ ~Pending(c, x)' => rows'[x] = Wanted(c, x)

Changes(c, x) ==
    /\ x \in Written(c) /\ x \in Touches(c)
    /\ rows'[x] \in Good(x) /\ (rows'[x] = Wanted(c, x) \/ Pending(c, x)')

Effects(c) ==
    /\ wish' = wish /\ \A d \in Client \ {c} : Keeps(d)
    /\ \A x \in Row : rows'[x] = rows[x] \/ Changes(c, x)
    /\ SeesTo(c)
    /\ \A x \in Written(c)' : x \in Written(c) \/ Holders(c, x) = {}
    /\ pc'[c] = "ok" => told'[c] = IF pc[c] = "ok" THEN told[c] ELSE rows
    /\ pc'[c] = "ok" => pc[c] \in {"get", "ok"}

LEMMA Kept ==
    ASSUME NEW d \in Client, wish' = wish, Keeps(d)
    PROVE  /\ Phase(d)' = Phase(d) /\ Written(d)' = Written(d) /\ (Placed(d) => Placed(d)')
           /\ \A x : (Later(d, x)' <=> Later(d, x)) /\ (Pending(d, x)' <=> Pending(d, x))
<1>1. Phase(d)' = Phase(d) /\ Written(d)' = Written(d)
  BY DEF Keeps, Phase, Written
<1> QED
  BY <1>1 DEF Keeps, Placed, Later, Pending

LEMMA TouchesKept ==
    ASSUME wish' = wish, NEW d \in Client
    PROVE  Touches(d)' = Touches(d) /\ (\A x : Wanted(d, x)' = Wanted(d, x) /\ Good(x)' = Good(x))
<1>1. \A e \in Client : Touches(e)' = Touches(e) /\ \A x : Wanted(e, x)' = Wanted(e, x)
  BY DEF Touches, Wanted
<1> QED
  BY <1>1 DEF Good

LEMMA WrittenTouched ==
    ASSUME NEW c \in Client, Placed(c), Works(c) PROVE Written(c) \subseteq Touches(c)
<1>1. Phase(c) \in {"set", "put", "unset", "remove", "delete", "add", "share", "plan", "over"}
  BY DEF Placed, Phases
<1>2. CASE Phase(c) \in {"set", "put"}
  BY <1>2 DEF Works, Sets, Touches
<1>3. CASE Phase(c) \in {"unset", "remove", "delete"}
  BY <1>3 DEF Works, Removes, Touches
<1>4. CASE Phase(c) = "add"
  BY <1>4 DEF Works, Adds, Touches
<1>5. CASE Phase(c) \in {"share", "plan", "over"}
  BY <1>5 DEF Works
<1> QED
  BY <1>1, <1>2, <1>3, <1>4, <1>5

LEMMA TouchedRows ==
    ASSUME PlanSettingsAssumption, Types, NEW c \in Client
    PROVE  /\ Touches(c) \subseteq Row
           /\ Placed(c) /\ Works(c) => Written(c) \subseteq Row
<1>1. Touches(c) \subseteq Row
  BY DEF PlanSettingsAssumption, Types, Touches
<1> QED
  BY <1>1, WrittenTouched

LEMMA ApartStep ==
    ASSUME Apart, NEW c \in Client, Effects(c) PROVE Apart'
<1>1. \A d \in Client \ {c} : Written(d)' = Written(d)
  BY Kept DEF Effects
<1>2. ASSUME NEW d \in Client \ {c} PROVE Written(c)' \cap Written(d)' = {}
  BY <1>1, <1>2 DEF Effects, Apart, Holders, Others
<1> QED
  BY <1>1, <1>2 DEF Apart

LEMMA SettledStep ==
    ASSUME Settled, NEW c \in Client, Effects(c) PROVE Settled'
<1> SUFFICES ASSUME NEW x \in Row, NEW e \in Client, x \in Touches(e)
             PROVE  \E d \in Client : x \in Touches(d) /\ (rows'[x] = Wanted(d, x) \/ Pending(d, x)')
  <2>1. wish' = wish
    BY DEF Effects
  <2> QED
    BY <2>1, TouchesKept DEF Settled
<1>1. CASE rows'[x] # rows[x]
  BY <1>1 DEF Effects, Changes
<1>2. CASE rows'[x] = rows[x]
  <2>1. PICK d \in Client : x \in Touches(d) /\ (rows[x] = Wanted(d, x) \/ Pending(d, x))
    BY DEF Settled
  <2>2. CASE d = c
    BY <1>2, <2>1, <2>2 DEF Effects, SeesTo
  <2>3. CASE d # c
    BY <1>2, <2>1, <2>3, Kept DEF Effects
  <2> QED
    BY <2>2, <2>3
<1> QED
  BY <1>1, <1>2

LEMMA WantedIsGood ==
    ASSUME NEW c \in Client, NEW x, x \in Touches(c)
    PROVE  Wanted(c, x) \in Good(x) /\ (x \in DOMAIN wish[c].set => wish[c].set[x] \in Good(x))
<1> DEFINE G(d) == {Wanted(d, x)} \cup (IF x \in DOMAIN wish[d].set THEN {wish[d].set[x]} ELSE {})
<1>1. G(c) \subseteq Good(x)
  BY DEF Good
<1> QED
  BY <1>1

LEMMA SeenStep ==
    ASSUME Types, Seen, NEW c \in Client, Effects(c) PROVE Seen'
<1>1. wish' = wish
  BY DEF Effects
<1>2. ASSUME NEW e \in Client, NEW x \in Row, x \in Touches(e), ~Pending(e, x)'
      PROVE  rows'[x] \in Good(x)
  <2>1. CASE rows'[x] # rows[x]
    BY <2>1 DEF Effects, Changes
  <2>2. CASE rows'[x] = rows[x] /\ ~Pending(e, x)
    BY <1>2, <2>2 DEF Seen
  <2>3. CASE Pending(e, x)
    <3>1. e = c
      BY <1>1, <1>2, <2>3, Kept DEF Effects
    <3> QED
      BY <1>2, <2>3, <3>1, WantedIsGood DEF Effects, SeesTo
  <2> QED
    BY <2>1, <2>2, <2>3
<1>3. ASSUME NEW e \in Client, NEW x \in Row, x \in Touches(e), pc'[e] = "ok"
      PROVE  told'[e][x] \in Good(x)
  <2>1. CASE pc[e] = "ok"
    BY <1>3, <2>1 DEF Seen, Effects, Keeps
  <2>2. CASE pc[e] # "ok"
    <3>1. e = c /\ pc[c] = "get" /\ told'[c] = rows
      BY <1>3, <2>2 DEF Effects, Keeps
    <3>2. ~Pending(c, x)
      BY <3>1 DEF Pending
    <3> QED
      BY <1>3, <3>1, <3>2 DEF Seen
  <2> QED
    BY <2>1, <2>2
<1> QED
  BY <1>1, <1>2, <1>3, TouchesKept DEF Seen

LEMMA OthersWork ==
    ASSUME PlanSettingsAssumption, Types, Apart, NEW c \in Client, Effects(c),
           NEW d \in Client \ {c}, Placed(d), Works(d)
    PROVE  Placed(d)' /\ Works(d)'
<1>1. wish' = wish /\ Keeps(d)
  BY DEF Effects
<1>2. Phase(d)' = Phase(d) /\ Written(d)' = Written(d) /\ Placed(d)'
  BY <1>1, Kept
<1>3. \A x \in Written(d) : x \notin Written(c)
  BY DEF Apart
<1>4. \A x \in Written(d) : rows'[x] = rows[x]
  BY <1>3, TouchedRows DEF Effects, Changes
<1>5. /\ rest'[d] = rest[d] /\ todo'[d] = todo[d] /\ own'[d] = own[d] /\ wish'[d] = wish[d]
  BY <1>1 DEF Keeps
<1>6. Sets(d) => Sets(d)'
  BY <1>2, <1>5 DEF Sets
<1>7. Removes(d) => Removes(d)'
  BY <1>2, <1>5 DEF Removes
<1>8. Adds(d) => Adds(d)'
  <2> SUFFICES ASSUME Adds(d) PROVE Adds(d)'
    OBVIOUS
  <2>1. Written(d)' \subseteq DOMAIN wish'[d].set \cup wish'[d].unset
    BY <1>2, <1>5 DEF Adds
  <2>2. ASSUME NEW x \in Written(d)'
        PROVE  IF x \in DOMAIN wish'[d].set /\ todo'[d] # Between /\ x \notin todo'[d]
               THEN own'[d][x] = There /\ (x \in wish'[d].unset \/ rows'[x] = NoRow)
               ELSE own'[d][x] = NoRow /\ x \in wish'[d].unset
    BY <1>2, <1>4, <1>5 DEF Adds
  <2> QED
    BY <2>1, <2>2 DEF Adds
<1> QED
  BY <1>2, <1>5, <1>6, <1>7, <1>8 DEF Works

-----------------------------------------------------------------------------
(* The steps *)

Facts == PlanSettingsAssumption /\ SettingsIInv

\* What a step of c keeps, or brings about, of what is c's own.
Own(c) == Types' /\ Placed(c)' /\ Works(c)' /\ Effects(c)

LEMMA CurrentIs ==
    ASSUME Facts, NEW c \in Client, pc[c] = "run"
    PROVE  /\ Phase(c) \in Phases(wish[c]) \ {"over"} /\ rest[c] = Left(wish[c], Phase(c))
           /\ DOMAIN Current(c).to = Now(wish[c], Phase(c))
           /\ Phase(c) \in {"set", "put"} => Current(c).do = "upsert" /\ Current(c).to = wish[c].set
           /\ Phase(c) = "add" => Current(c).do = "insert" /\ Current(c).to = wish[c].set
           /\ Phase(c) \in {"unset", "remove", "delete"} =>
                  Current(c).do = "delete" /\ \A x \in wish[c].unset : Current(c).to[x] = NoRow
           /\ Phase(c) \in {"share", "plan"} => Current(c).do = "share"
<1>1. Phase(c) \in Phases(wish[c]) \ {"over"} /\ rest[c] = Left(wish[c], Phase(c))
  BY DEF Facts, SettingsIInv, Placed
<1> QED
  BY <1>1, SettingsStatementIs DEF Current

\* The place of a request decides its kind.
LEMMA KindIs ==
    ASSUME Facts, NEW c \in Client
    PROVE  /\ Phase(c) \in {"set", "put", "unset", "remove", "delete", "add", "share", "plan", "over"}
           /\ Phase(c) \in {"set", "unset"} => wish[c].kind = "resource"
           /\ Phase(c) \in {"share", "remove", "add"} => wish[c].kind = "annotation"
           /\ Phase(c) \in {"put", "plan", "delete"} => wish[c].kind = "account"
           /\ Phase(c) = "put" => wish[c].unset = {}
<1>1. wish[c].kind \in {"resource", "annotation", "account"}
  BY DEF Facts, SettingsIInv, Types, PlanSettingsAssumption
<1>2. Phase(c) \in Phases(wish[c])
  BY DEF Facts, SettingsIInv, Placed
<1> QED
  BY <1>1, <1>2 DEF Phases

LEMMA NowIn ==
    ASSUME Facts, NEW c \in Client
    PROVE  /\ Now(wish[c], Phase(c)) \subseteq Touches(c) /\ Touches(c) \subseteq Row
           /\ Written(c) \subseteq Row /\ "idle" \notin Row
<1>1. Now(wish[c], Phase(c)) \subseteq Touches(c)
  BY DEF Now, Touches
<1>2. "idle" \notin Row
  BY DEF Facts, PlanSettingsAssumption
<1> QED
  BY <1>1, <1>2, TouchedRows DEF Facts, SettingsIInv

\* A row that is left to be removed, and not to be added again, is wanted gone.
LEMMA GoneIsWanted ==
    ASSUME Facts, NEW c \in Client, NEW x \in wish[c].unset, Phase(c) \in {"unset", "remove", "delete"},
           x \notin After(wish[c], Phase(c))
    PROVE  Wanted(c, x) = NoRow
BY KindIs DEF Wanted, After

LEMMA StartStep == ASSUME Facts, NEW c \in Client, Start(c) PROVE Own(c)
<1> DEFINE p == Phase(c)
<1>1. pc[c] = "run" /\ todo[c] = Between
  BY DEF Start
<1>2. /\ wish' = wish /\ rows' = rows /\ pc' = pc /\ rest' = rest /\ own' = own /\ lock' = lock /\ told' = told
      /\ \A d \in Client \ {c} : todo'[d] = todo[d]
  BY DEF Start, Facts, SettingsIInv, Types
<1>3. todo'[c] = {x \in Now(wish[c], p) : Current(c).do = "delete" => Visible(c, x) # NoRow}
  BY <1>1, CurrentIs DEF Start, Facts, SettingsIInv, Types
<1>4. Types'
  <2>1. todo'[c] \in SUBSET Row
    BY <1>3, NowIn
  <2>2. todo' \in [Client -> {Between} \cup SUBSET Row]
    BY <2>1 DEF Start, Facts, SettingsIInv, Types
  <2> QED
    BY <1>2, <2>2 DEF Facts, SettingsIInv, Types
<1>5. Phase(c)' = p /\ Written(c)' = Written(c) /\ todo'[c] \subseteq Row /\ todo'[c] # Between
  BY <1>2, <1>3, NowIn DEF Phase, Written, Between
<1>6. Placed(c)'
  BY <1>1, <1>2, <1>5 DEF Facts, SettingsIInv, Placed
<1>7. Works(c)'
  <2>1. CASE p \in {"set", "put"}
    <3>1. todo'[c] = DOMAIN wish[c].set /\ Written(c) = {}
      BY <1>1, <1>3, <2>1, CurrentIs DEF Now, Facts, SettingsIInv, Works, Sets
    <3> QED
      BY <1>2, <1>5, <2>1, <3>1 DEF Works, Sets, Now
  <2>2. CASE p \in {"unset", "remove", "delete"}
    <3>1. Written(c) = {} /\ todo'[c] \subseteq wish[c].unset
      BY <1>1, <1>3, <2>2 DEF Now, Facts, SettingsIInv, Works, Removes
    <3> QED
      BY <1>2, <1>5, <2>2, <3>1 DEF Works, Removes, Now
  <2>3. CASE p = "add"
    <3>1. todo'[c] = DOMAIN wish[c].set
      BY <1>1, <1>3, <2>3, CurrentIs DEF Now
    <3>2. Written(c) \subseteq Touches(c) /\ \A x \in Written(c) : own[c][x] = NoRow /\ x \in wish[c].unset
      BY <1>1, <2>3 DEF Facts, SettingsIInv, Works, Adds, Touches
    <3> QED
      BY <1>2, <1>5, <2>3, <3>1, <3>2 DEF Works, Adds, Now, Touches
  <2>4. CASE p \in {"share", "plan", "over"}
    <3>1. Written(c) = {} /\ todo'[c] = {}
      BY <1>3, <2>4 DEF Now, Facts, SettingsIInv, Works
    <3> QED
      BY <1>5, <2>4, <3>1 DEF Works
  <2> QED
    BY <2>1, <2>2, <2>3, <2>4, KindIs
<1>8. SeesTo(c)
  <2> SUFFICES ASSUME NEW x \in Row, x \in Touches(c), Pending(c, x), ~Pending(c, x)' PROVE rows'[x] = Wanted(c, x)
    BY DEF SeesTo
  <2>1. x \notin Written(c) /\ x \notin After(wish[c], p) /\ x \in Now(wish[c], p) /\ x \notin todo'[c]
    BY <1>1, <1>2, <1>5 DEF Pending, Later
  <2>2. Current(c).do = "delete" /\ rows[x] = NoRow
    BY <1>3, <2>1 DEF Visible
  <2>3. p \in {"unset", "remove", "delete"} /\ x \in wish[c].unset
    BY <1>1, <2>1, <2>2, CurrentIs, KindIs DEF Now
  <2> QED
    BY <1>2, <2>1, <2>2, <2>3, GoneIsWanted
<1>9. Effects(c)
  BY <1>1, <1>2, <1>5, <1>8 DEF Effects, Keeps
<1> QED
  BY <1>4, <1>6, <1>7, <1>9 DEF Own

LEMMA LockPlanStep == ASSUME Facts, NEW c \in Client, LockPlan(c) PROVE Own(c)
<1>1. /\ wish' = wish /\ rows' = rows /\ pc' = pc /\ rest' = rest /\ todo' = todo /\ own' = own /\ told' = told
  BY DEF LockPlan
<1>2. Needs(c) \in {"no", "share", "update"}
  <2>1. pc[c] = "run"
    BY DEF LockPlan, Lacks
  <2>2. \A a, q : Current(c) = Left(a, q)[1][1] /\ q \in {"set", "unset", "share", "remove", "add", "put", "plan", "delete"} =>
            Current(c).first \in {"no", "share", "update"}
    BY DEF Left, Limits, NoLimits, Upsert, Insert, DeleteRows, KeyShare
  <2> QED
    BY <2>1, <2>2, CurrentIs, KindIs DEF Needs, Current
<1>3. Types'
  BY <1>1, <1>2 DEF LockPlan, Facts, SettingsIInv, Types
<1>4. \A d \in Client : Keeps(d)
  BY <1>1 DEF Keeps
<1>5. Phase(c)' = Phase(c) /\ Written(c)' = Written(c) /\ Placed(c)' /\ \A x : Pending(c, x)' <=> Pending(c, x)
  BY <1>1, <1>4, Kept DEF Facts, SettingsIInv
<1>6. Works(c)'
  BY <1>1, <1>5 DEF Facts, SettingsIInv, Works, Sets, Removes, Adds
<1>7. Effects(c)
  BY <1>1, <1>4, <1>5 DEF Effects, SeesTo, Placed, Facts, SettingsIInv, LockPlan, Lacks
<1> QED
  BY <1>3, <1>5, <1>6, <1>7 DEF Own

\* Row x is looked at and left, or written.
LEMMA TouchStep == ASSUME Facts, NEW c \in Client, NEW x \in Row, Touch(c, x) PROVE Own(c)
<1> DEFINE p == Phase(c)
           idle == (Current(c).do = "insert" /\ Visible(c, x) # NoRow) \/ (Current(c).do = "delete" /\ Visible(c, x) = NoRow)
           write == [y \in Written(c) \cup {x} |-> IF y = x THEN Current(c).to[x] ELSE own[c][y]]
<1>1. pc[c] = "run" /\ todo[c] # Between /\ x \in todo[c] /\ Holders(c, x) = {}
  BY DEF Touch
<1>2. /\ wish' = wish /\ rows' = rows /\ pc' = pc /\ rest' = rest /\ lock' = lock /\ told' = told
      /\ \A d \in Client \ {c} : todo'[d] = todo[d] /\ own'[d] = own[d]
      /\ DOMAIN own' = Client /\ todo'[c] = todo[c] \ {x}
      /\ own'[c] = IF idle THEN own[c] ELSE write
  BY DEF Touch, Facts, SettingsIInv, Types
<1>3. todo[c] \subseteq Row /\ x \in Now(wish[c], p) /\ x \in Touches(c)
  BY <1>1, NowIn DEF Facts, SettingsIInv, Works
<1>4. Types'
  <2>1. todo' \in [Client -> {Between} \cup SUBSET Row]
    BY <1>1, <1>3 DEF Touch, Facts, SettingsIInv, Types
  <2> QED
    BY <1>2, <2>1 DEF Facts, SettingsIInv, Types
<1>5. Phase(c)' = p /\ todo'[c] # Between
  BY <1>2, <1>3, NowIn DEF Phase, Between
<1>6. Placed(c)'
  BY <1>1, <1>2, <1>5 DEF Facts, SettingsIInv, Placed
<1>7. Written(c)' = IF idle THEN Written(c) ELSE Written(c) \cup {x}
  BY <1>2 DEF Written
<1>8. ~idle => own'[c][x] = Current(c).to[x] /\ \A y \in Written(c) \ {x} : own'[c][y] = own[c][y]
  BY <1>2
<1>9. todo'[c] \subseteq Now(wish'[c], Phase(c)')
  BY <1>1, <1>2, <1>5 DEF Facts, SettingsIInv, Works
<1>10. Works(c)' /\ (idle => rows[x] = Wanted(c, x) \/ x \in Written(c) \/ x \in After(wish[c], p))
  <2>1. CASE p \in {"set", "put"}
    <3>1. Sets(c) /\ ~idle /\ Current(c).to[x] = wish[c].set[x] /\ x \in DOMAIN wish[c].set
      BY <1>1, <1>3, <2>1, CurrentIs DEF Facts, SettingsIInv, Works, Now
    <3>2. Written(c)' = DOMAIN wish[c].set \ todo'[c]
      BY <1>1, <1>2, <1>7, <3>1 DEF Sets
    <3>3. \A y \in Written(c)' : own'[c][y] = wish[c].set[y]
      BY <1>7, <1>8, <3>1 DEF Sets
    <3>4. Sets(c)'
      BY <1>2, <1>5, <3>2, <3>3 DEF Sets
    <3> QED
      BY <1>5, <1>9, <2>1, <3>1, <3>4 DEF Works
  <2>2. CASE p \in {"unset", "remove", "delete"}
    <3>1. Removes(c) /\ Current(c).do = "delete" /\ Current(c).to[x] = NoRow /\ x \in wish[c].unset
      BY <1>1, <1>3, <2>2, CurrentIs DEF Facts, SettingsIInv, Works, Now
    <3>2. Written(c)' \subseteq wish[c].unset /\ \A y \in Written(c)' : own'[c][y] = NoRow
      BY <1>2, <1>7, <1>8, <3>1 DEF Removes
    <3>3. Removes(c)'
      BY <1>2, <1>5, <3>2 DEF Removes
    <3>4. idle => rows[x] = Wanted(c, x) \/ x \in Written(c) \/ x \in After(wish[c], p)
      BY <2>2, <3>1, GoneIsWanted DEF Visible
    <3> QED
      BY <1>5, <1>9, <2>2, <3>3, <3>4 DEF Works
  <2>3. CASE p = "add"
    <3>1. Adds(c) /\ Current(c).do = "insert" /\ Current(c).to[x] = wish[c].set[x] /\ x \in DOMAIN wish[c].set
      BY <1>1, <1>3, <2>3, CurrentIs DEF Facts, SettingsIInv, Works, Now
    <3>2. wish[c].set[x] = There /\ rows[x] \in {NoRow, There} /\ Wanted(c, x) = There
      BY <1>3, <2>3, <3>1, KindIs DEF Facts, SettingsIInv, Types, PlanSettingsAssumption, Plain, Wanted
    <3>3. x \in Written(c) => own[c][x] = NoRow /\ x \in wish[c].unset
      BY <1>1, <3>1 DEF Adds
    <3>4. idle => x \notin Written(c) /\ rows[x] = There
      BY <3>1, <3>2, <3>3 DEF Visible
    <3>5. ~idle => x \in wish[c].unset \/ rows[x] = NoRow
      BY <3>1, <3>3 DEF Visible
    <3>6. Written(c)' \subseteq DOMAIN wish[c].set \cup wish[c].unset
      BY <1>7, <3>1 DEF Adds
    <3>7. ASSUME NEW y \in Written(c)'
          PROVE  IF y \in DOMAIN wish[c].set /\ y \notin todo'[c]
                 THEN own'[c][y] = There /\ (y \in wish[c].unset \/ rows[y] = NoRow)
                 ELSE own'[c][y] = NoRow /\ y \in wish[c].unset
      <4>1. CASE y = x
        BY <1>2, <1>7, <1>8, <3>1, <3>2, <3>4, <3>5, <3>7, <4>1
      <4>2. CASE y # x
        <5>1. y \in Written(c) /\ own'[c][y] = own[c][y] /\ (y \in todo'[c] <=> y \in todo[c])
          BY <1>2, <1>7, <1>8, <3>7, <4>2
        <5> QED
          BY <1>1, <3>1, <5>1 DEF Adds
      <4> QED
        BY <4>1, <4>2
    <3>8. Adds(c)'
      BY <1>2, <1>5, <3>6, <3>7 DEF Adds
    <3> QED
      BY <1>5, <1>9, <2>3, <3>2, <3>4, <3>8 DEF Works
  <2>4. p \notin {"share", "plan", "over"}
    BY <1>3 DEF Now
  <2> QED
    BY <2>1, <2>2, <2>3, <2>4, KindIs
<1>11. SeesTo(c)
  <2> SUFFICES ASSUME NEW y \in Row, y \in Touches(c), Pending(c, y), ~Pending(c, y)' PROVE rows'[y] = Wanted(c, y)
    BY DEF SeesTo
  <2>1. y \notin Written(c)' /\ y \notin After(wish[c], p) /\ y \notin todo'[c] /\ (y \in Written(c) \/ y \in todo[c])
    BY <1>1, <1>2, <1>5 DEF Pending, Later
  <2>2. y = x /\ idle /\ x \notin Written(c)
    BY <1>2, <1>7, <2>1
  <2> QED
    BY <1>2, <1>10, <2>1, <2>2
<1>12. Effects(c)
  BY <1>1, <1>2, <1>7, <1>11 DEF Effects, Keeps
<1> QED
  BY <1>4, <1>6, <1>10, <1>12 DEF Own

LEMMA NextStatementStep == ASSUME Facts, NEW c \in Client, NextStatement(c) PROVE Own(c)
<1> DEFINE p == Phase(c)
           q == NextPhase(p)
<1>1. pc[c] = "run" /\ todo[c] = {} /\ {} # Between
  BY DEF NextStatement, Ends, Between
<1>2. /\ wish' = wish /\ rows' = rows /\ pc' = pc /\ own' = own /\ lock' = lock /\ told' = told
      /\ \A d \in Client \ {c} : todo'[d] = todo[d] /\ rest'[d] = rest[d]
      /\ DOMAIN rest' = Client /\ todo'[c] = Between
      /\ rest'[c] = <<Tail(rest[c][1])>> \o Tail(rest[c]) /\ Len(rest[c][1]) > 1
  BY DEF NextStatement, Facts, SettingsIInv, Types
<1>3. Types'
  <2>1. todo' \in [Client -> {Between} \cup SUBSET Row]
    BY DEF NextStatement, Facts, SettingsIInv, Types
  <2> QED
    BY <1>2, <2>1 DEF Facts, SettingsIInv, Types
<1>4. p \in {"share", "remove", "plan"} /\ q \in Phases(wish[c]) /\ rest'[c] = Left(wish[c], q)
  <2>1. p \in Phases(wish[c]) \ {"over"} /\ rest[c] = Left(wish[c], p)
    BY <1>1, CurrentIs
  <2>2. Len(Left(wish[c], p)[1]) > 1
    BY <1>2, <2>1
  <2> QED
    BY <1>2, <2>1, <2>2, LeftAfterStatement
<1>5. Phase(c)' = q /\ Written(c)' = Written(c)
  BY <1>2, <1>4, PhaseKnown DEF Phase, Written
<1>6. Placed(c)'
  BY <1>1, <1>2, <1>4, <1>5 DEF Placed, NextPhase
<1>7. Works(c)'
  <2>1. CASE p \in {"share", "plan"}
    <3>1. q \in {"remove", "delete"} /\ Written(c) = {}
      BY <2>1 DEF NextPhase, Facts, SettingsIInv, Works
    <3> QED
      BY <1>2, <1>5, <3>1 DEF Works, Removes
  <2>2. CASE p = "remove"
    <3>1. q = "add" /\ Removes(c)
      BY <2>2 DEF NextPhase, Facts, SettingsIInv, Works
    <3>2. Adds(c)'
      BY <1>2, <1>5, <3>1 DEF Adds, Removes
    <3> QED
      BY <1>2, <1>5, <3>1, <3>2 DEF Works
  <2> QED
    BY <1>4, <2>1, <2>2
<1>8. SeesTo(c)
  <2>1. \A x : Later(c, x) => Later(c, x)'
    BY <1>1, <1>2, <1>4, <1>5 DEF Later, NextPhase, Now, After
  <2> QED
    BY <1>2, <2>1 DEF SeesTo, Pending
<1>9. Effects(c)
  BY <1>1, <1>2, <1>5, <1>8 DEF Effects, Keeps
<1> QED
  BY <1>3, <1>6, <1>7, <1>9 DEF Own

LEMMA SettingsAnswerStep == ASSUME Facts, NEW c \in Client, Answer(c) PROVE Own(c)
<1>1. /\ wish' = wish /\ rows' = rows /\ rest' = rest /\ todo' = todo /\ own' = own /\ lock' = lock
      /\ pc[c] = "get" /\ pc'[c] = "ok" /\ told'[c] = rows
      /\ \A d \in Client \ {c} : pc'[d] = pc[d] /\ told'[d] = told[d]
  BY DEF Answer, Facts, SettingsIInv, Types
<1>2. Types'
  BY <1>1 DEF Answer, Facts, SettingsIInv, Types
<1>3. Phase(c)' = Phase(c) /\ Written(c)' = Written(c)
  BY <1>1 DEF Phase, Written
<1>4. Placed(c)'
  BY <1>1, <1>3 DEF Placed, Facts, SettingsIInv
<1>5. Works(c)'
  BY <1>1, <1>3 DEF Facts, SettingsIInv, Works, Sets, Removes, Adds
<1>6. Effects(c)
  BY <1>1, <1>3 DEF Effects, SeesTo, Pending, Keeps
<1> QED
  BY <1>2, <1>4, <1>5, <1>6 DEF Own

LEMMA FailStep == ASSUME Facts, NEW c \in Client, Fail(c) PROVE Own(c)
<1>1. /\ wish' = wish /\ rows' = rows /\ rest' = rest /\ told' = told
      /\ pc[c] = "run" /\ pc'[c] = "failed" /\ todo'[c] = Between /\ own'[c] = <<>> /\ DOMAIN own' = Client
      /\ \A d \in Client \ {c} : pc'[d] = pc[d] /\ todo'[d] = todo[d] /\ own'[d] = own[d]
  BY DEF Fail, Facts, SettingsIInv, Types
<1>2. Types'
  BY <1>1 DEF Fail, Facts, SettingsIInv, Types
<1>3. Phase(c)' = Phase(c) /\ Written(c)' = {}
  BY <1>1 DEF Phase, Written
<1>4. Placed(c)'
  BY <1>1, <1>3 DEF Placed, Facts, SettingsIInv
<1>5. Works(c)'
  BY <1>1, <1>3, KindIs DEF Works, Sets, Removes, Adds
<1>6. Effects(c)
  BY <1>1, <1>3 DEF Effects, SeesTo, Pending, Keeps
<1> QED
  BY <1>2, <1>4, <1>5, <1>6 DEF Own

\* What a transaction that ends has written is what its request wants, or will
\* yet see to: resources that are unset after they are set.
LEMMA WrittenIs ==
    ASSUME Facts, NEW c \in Client, Ends(c), Phase(c) \in {"set", "unset", "add", "put", "delete"},
           NEW x \in Written(c)
    PROVE  /\ x \in Touches(c) /\ own[c][x] \in Good(x)
           /\ own[c][x] = Wanted(c, x) \/ (Phase(c) = "set" /\ x \in wish[c].unset)
<1>1. x \in Touches(c)
  BY WrittenTouched DEF Facts, SettingsIInv
<1>2. {} # Between /\ todo[c] = {}
  BY DEF Ends, Between
<1>3. CASE Phase(c) \in {"set", "put"}
  <2>1. x \in DOMAIN wish[c].set /\ own[c][x] = wish[c].set[x]
    BY <1>2, <1>3 DEF Facts, SettingsIInv, Works, Sets
  <2>2. x \in wish[c].unset \/ wish[c].set[x] = Wanted(c, x)
    BY DEF Wanted
  <2> QED
    BY <1>1, <1>3, <2>1, <2>2, WantedIsGood, KindIs
<1>4. CASE Phase(c) \in {"unset", "delete"}
  <2>1. x \in wish[c].unset /\ own[c][x] = NoRow
    BY <1>4 DEF Facts, SettingsIInv, Works, Removes
  <2>2. Wanted(c, x) = NoRow
    BY <1>4, <2>1, KindIs DEF Wanted
  <2> QED
    BY <1>1, <2>1, <2>2, WantedIsGood
<1>5. CASE Phase(c) = "add"
  <2>1. IF x \in DOMAIN wish[c].set THEN own[c][x] = There ELSE own[c][x] = NoRow /\ x \in wish[c].unset
    BY <1>2, <1>5 DEF Facts, SettingsIInv, Works, Adds
  <2>2. wish[c].kind = "annotation" /\ \A y \in DOMAIN wish[c].set : wish[c].set[y] = There
    BY <1>5, KindIs DEF Facts, SettingsIInv, Types, PlanSettingsAssumption
  <2>3. own[c][x] = Wanted(c, x)
    BY <2>1, <2>2 DEF Wanted
  <2> QED
    BY <1>1, <2>3, WantedIsGood
<1> QED
  BY <1>3, <1>4, <1>5

LEMMA SettingsCommitStep == ASSUME Facts, NEW c \in Client, CommitSettings(c) PROVE Own(c)
<1> DEFINE p == Phase(c)
           q == Behind(p)
<1>1. pc[c] = "run" /\ todo[c] = {} /\ {} # Between /\ Ends(c)
  BY DEF CommitSettings, Ends, Between
<1>2. /\ wish' = wish /\ told' = told
      /\ \A d \in Client \ {c} : todo'[d] = todo[d] /\ rest'[d] = rest[d] /\ own'[d] = own[d] /\ pc'[d] = pc[d]
      /\ DOMAIN rest' = Client /\ DOMAIN own' = Client /\ todo'[c] = Between /\ own'[c] = <<>>
      /\ rest'[c] = Tail(rest[c]) /\ Len(rest[c][1]) = 1
      /\ pc'[c] = IF Len(rest[c]) = 1 THEN "get" ELSE "run"
  BY DEF CommitSettings, Facts, SettingsIInv, Types
<1>3. DOMAIN rows' = Row /\ \A x \in Row : rows'[x] = IF x \in Written(c) THEN own[c][x] ELSE rows[x]
  BY DEF CommitSettings, Visible
<1>4. Types'
  <2>1. /\ todo' \in [Client -> {Between} \cup SUBSET Row] /\ lock' \in [Client -> {"no", "share", "update"}]
        /\ pc' \in [Client -> {"run", "get", "ok", "failed"}]
    BY DEF CommitSettings, Facts, SettingsIInv, Types
  <2> QED
    BY <1>2, <1>3, <2>1 DEF Facts, SettingsIInv, Types
<1>5. /\ p \in {"set", "unset", "add", "put", "delete"} /\ q \in Phases(wish[c])
      /\ rest'[c] = Left(wish[c], q) /\ pc'[c] = IF p = "set" THEN "run" ELSE "get"
  <2>1. p \in Phases(wish[c]) \ {"over"} /\ rest[c] = Left(wish[c], p)
    BY <1>1, CurrentIs
  <2>2. Len(Left(wish[c], p)[1]) = 1
    BY <1>2, <2>1
  <2>3. Len(rest[c]) = 1 <=> p # "set"
    BY <2>1, <2>2, LeftAfterCommit
  <2> QED
    BY <1>2, <2>1, <2>2, <2>3, LeftAfterCommit
<1>6. Phase(c)' = q /\ Written(c)' = {}
  <2>1. Written(c)' = {}
    BY <1>2 DEF Written
  <2>2. Phase(c)' = PhaseOf(wish[c], Left(wish[c], q))
    BY <1>2, <1>5 DEF Phase
  <2> QED
    BY <1>5, <2>1, <2>2, PhaseKnown
<1>7. Placed(c)'
  BY <1>2, <1>5, <1>6 DEF Placed, Behind
<1>8. Works(c)'
  BY <1>2, <1>5, <1>6 DEF Works, Removes, Behind
<1>9. p = "set" => \A x \in wish[c].unset : Pending(c, x)'
  BY <1>2, <1>5, <1>6 DEF Pending, Later, Behind, Now
<1>10. \A x \in Written(c) : rows'[x] = own[c][x] /\ Changes(c, x)
  BY <1>1, <1>3, <1>5, <1>9, WrittenIs, NowIn DEF Changes
<1>11. SeesTo(c)
  <2> SUFFICES ASSUME NEW x \in Row, x \in Touches(c), Pending(c, x), ~Pending(c, x)' PROVE rows'[x] = Wanted(c, x)
    BY DEF SeesTo
  <2>1. x \in Written(c) \/ x \in After(wish[c], p)
    BY <1>1 DEF Pending, Later
  <2>2. x \in Written(c)
    BY <1>5, <1>9, <2>1 DEF After
  <2> QED
    BY <1>10, <2>2 DEF Changes
<1>12. Effects(c)
  BY <1>1, <1>2, <1>3, <1>5, <1>6, <1>10, <1>11 DEF Effects, Keeps
<1> QED
  BY <1>4, <1>7, <1>8, <1>12 DEF Own

-----------------------------------------------------------------------------
(* What all keep *)

LEMMA PlainStep == ASSUME Facts, NEW c \in Client, CommitSettings(c) PROVE Plain'
<1>1. wish' = wish /\ Ends(c) /\ todo[c] = {} /\ {} # Between
  BY DEF CommitSettings, Ends, Between
<1>2. Phase(c) \in {"set", "unset", "add", "put", "delete"}
  <2>1. pc[c] = "run" /\ Len(rest[c][1]) = 1
    BY DEF CommitSettings, Ends
  <2>2. Phase(c) \in Phases(wish[c]) \ {"over"} /\ rest[c] = Left(wish[c], Phase(c))
    BY <2>1, CurrentIs
  <2> QED
    BY <2>1, <2>2, LeftAfterCommit
<1> SUFFICES ASSUME NEW d \in Client, wish[d].kind = "annotation", NEW x \in Touches(d) PROVE rows'[x] \in {NoRow, There}
  BY <1>1, TouchesKept DEF Plain
<1>3. x \in Row
  BY NowIn
<1>4. rows'[x] = IF x \in Written(c) THEN own[c][x] ELSE rows[x]
  BY <1>3 DEF CommitSettings, Visible
<1>5. CASE x \notin Written(c)
  BY <1>4, <1>5 DEF Facts, SettingsIInv, Plain
<1>6. CASE x \in Written(c)
  <2>1. x \in Touches(c)
    BY <1>6, WrittenTouched DEF Facts, SettingsIInv
  <2>2. wish[c].kind = "annotation"
    BY <2>1 DEF Facts, SettingsIInv, Types, PlanSettingsAssumption, Touches
  <2>3. Phase(c) = "add"
    BY <1>2, <2>2, KindIs
  <2>4. own[c][x] \in {NoRow, There}
    BY <1>6, <2>3 DEF Facts, SettingsIInv, Works, Adds
  <2> QED
    BY <1>4, <1>6, <2>4
<1> QED
  BY <1>5, <1>6

LEMMA WholeStep == ASSUME Facts, NEW c \in Client, CommitSettings(c) PROVE WholeSets'
<1>1. wish' = wish /\ Ends(c) /\ todo[c] = {} /\ {} # Between
  BY DEF CommitSettings, Ends, Between
<1>2. Phase(c) \in {"set", "unset", "add", "put", "delete"}
  <2>1. pc[c] = "run" /\ Len(rest[c][1]) = 1
    BY DEF CommitSettings, Ends
  <2>2. Phase(c) \in Phases(wish[c]) \ {"over"} /\ rest[c] = Left(wish[c], Phase(c))
    BY <2>1, CurrentIs
  <2> QED
    BY <2>1, <2>2, LeftAfterCommit
<1>3. \A x \in Row : rows'[x] = IF x \in Written(c) THEN own[c][x] ELSE rows[x]
  BY DEF CommitSettings, Visible
<1> SUFFICES ASSUME NEW x \in Row, NEW y \in Row, Together(x, y), rows'[x] \notin {NoRow, There}
             PROVE  \E d \in Client : {x, y} \subseteq DOMAIN wish[d].set
                                       /\ rows'[x] = wish[d].set[x] /\ rows'[y] = wish[d].set[y]
  BY <1>1 DEF WholeSets, Together
<1>4. (x \in DOMAIN wish[c].set <=> y \in DOMAIN wish[c].set) /\ x \notin wish[c].unset /\ y \notin wish[c].unset
  BY DEF Together
<1>5. CASE x \notin Written(c) /\ y \notin Written(c)
  BY <1>3, <1>5 DEF Facts, SettingsIInv, WholeSets
<1>6. CASE x \in Written(c) \/ y \in Written(c)
  <2>1. CASE Phase(c) \in {"set", "put"}
    <3>1. {x, y} \subseteq Written(c) /\ {x, y} \subseteq DOMAIN wish[c].set
      BY <1>1, <1>4, <1>6, <2>1 DEF Facts, SettingsIInv, Works, Sets
    <3>2. own[c][x] = wish[c].set[x] /\ own[c][y] = wish[c].set[y]
      BY <2>1, <3>1 DEF Facts, SettingsIInv, Works, Sets
    <3> QED
      BY <1>3, <3>1, <3>2
  <2>2. CASE Phase(c) \in {"unset", "delete"}
    BY <1>4, <1>6, <2>2 DEF Facts, SettingsIInv, Works, Removes
  <2>3. CASE Phase(c) = "add"
    <3>1. Adds(c)
      BY <2>3 DEF Facts, SettingsIInv, Works
    <3>2. x \notin Written(c)
      BY <1>1, <1>3, <1>4, <3>1 DEF Adds
    <3>3. y \in Written(c) /\ rows[y] = NoRow
      BY <1>1, <1>4, <1>6, <3>1, <3>2 DEF Adds
    <3>4. PICK d \in Client : y \in DOMAIN wish[d].set /\ rows[y] = wish[d].set[y]
      BY <1>3, <3>2 DEF Facts, SettingsIInv, WholeSets
    <3> QED
      BY <3>3, <3>4 DEF Facts, SettingsIInv, Types, PlanSettingsAssumption
  <2> QED
    BY <1>2, <2>1, <2>2, <2>3
<1> QED
  BY <1>5, <1>6

LEMMA RowsKept ==
    ASSUME Facts, rows' = rows, wish' = wish PROVE Plain' /\ WholeSets'
<1>1. Plain'
  BY TouchesKept DEF Facts, SettingsIInv, Plain
<1>2. WholeSets'
  BY DEF Facts, SettingsIInv, WholeSets, Together
<1> QED
  BY <1>1, <1>2

LEMMA Invariance == ASSUME Facts, [SettingsNext]_settingsVars PROVE SettingsIInv'
<1>1. ASSUME NEW c \in Client, Step(c) PROVE SettingsIInv'
  <2>1. Own(c)
    BY <1>1, StartStep, LockPlanStep, TouchStep, NextStatementStep, SettingsCommitStep, SettingsAnswerStep, FailStep DEF Step
  <2>2. Types' /\ Placed(c)' /\ Works(c)' /\ Effects(c)
    BY <2>1 DEF Own
  <2>3. \A d \in Client : Placed(d)' /\ Works(d)'
    BY <2>2, OthersWork DEF Facts, SettingsIInv
  <2>4. Apart' /\ Settled' /\ Seen'
    BY <2>2, ApartStep, SettledStep, SeenStep DEF Facts, SettingsIInv
  <2>5. Plain' /\ WholeSets'
    <3>1. CASE CommitSettings(c)
      BY <3>1, PlainStep, WholeStep
    <3>2. CASE ~CommitSettings(c)
      <4>1. rows' = rows /\ wish' = wish
        BY <1>1, <3>2 DEF Step, Start, LockPlan, Touch, NextStatement, Answer, Fail
      <4> QED
        BY <4>1, RowsKept
    <3> QED
      BY <3>1, <3>2
  <2> QED
    BY <2>2, <2>3, <2>4, <2>5 DEF SettingsIInv
<1>2. CASE UNCHANGED settingsVars
  <2>1. \A d \in Client : Phase(d)' = Phase(d) /\ Written(d)' = Written(d)
    BY <1>2 DEF settingsVars, Phase, Written
  <2>2. wish' = wish /\ rows' = rows /\ pc' = pc /\ rest' = rest /\ todo' = todo /\ own' = own /\ told' = told /\ lock' = lock
    BY <1>2 DEF settingsVars
  <2>3. \A d \in Client : Keeps(d)
    BY <2>2 DEF Keeps
  <2>4. \A d \in Client : Placed(d)' /\ \A x : Pending(d, x)' <=> Pending(d, x)
    BY <2>2, <2>3, Kept DEF Facts, SettingsIInv
  <2>5. \A d \in Client : Works(d)'
    BY <2>1, <2>2 DEF Facts, SettingsIInv, Works, Sets, Removes, Adds
  <2>6. Types' /\ Apart'
    BY <2>1, <2>2 DEF Facts, SettingsIInv, Types, Apart
  <2>7. Settled' /\ Seen'
    BY <2>2, <2>4, TouchesKept DEF Facts, SettingsIInv, Settled, Seen
  <2> QED
    BY <2>2, <2>4, <2>5, <2>6, <2>7, RowsKept DEF SettingsIInv
<1> QED
  BY <1>1, <1>2 DEF SettingsNext

LEMMA InitSettingsIInv == ASSUME PlanSettingsAssumption, SettingsInit PROVE SettingsIInv
<1>1. Types
  BY DEF SettingsInit, Types
<1>2. ASSUME NEW c \in Client
      PROVE  /\ Phase(c) \in Phases(wish[c]) \ {"over"} /\ rest[c] = Left(wish[c], Phase(c))
             /\ Phase(c) \in {"set", "share", "put", "plan"}
  <2>1. wish[c].kind \in {"resource", "annotation", "account"} /\ rest[c] = Transactions(wish[c])
    BY DEF SettingsInit, PlanSettingsAssumption
  <2>2. PICK p \in Phases(wish[c]) \ {"over"} :
            Transactions(wish[c]) = Left(wish[c], p) /\ p \in {"set", "share", "put", "plan"}
    BY <2>1, FirstPhase
  <2>3. Phase(c) = p
    BY <2>1, <2>2, PhaseKnown DEF Phase
  <2> QED
    BY <2>1, <2>2, <2>3
<1>3. \A c \in Client : pc[c] = "run" /\ todo[c] = Between /\ Written(c) = {}
  BY DEF SettingsInit, Written
<1>4. \A c \in Client : Placed(c)
  BY <1>2, <1>3 DEF Placed
<1>5. \A c \in Client : Works(c)
  BY <1>2, <1>3 DEF Works, Sets
<1>6. Apart
  BY <1>3 DEF Apart
<1>7. Plain /\ WholeSets
  <2>1. \A x \in Row : rows[x] \in {NoRow, There}
    BY DEF SettingsInit
  <2> QED
    BY <1>1, <2>1, TouchedRows DEF Plain, WholeSets
<1>8. ASSUME NEW c \in Client, NEW x \in Touches(c) PROVE Pending(c, x)
  <2>1. wish[c].kind = "account" => DOMAIN wish[c].set = {} \/ wish[c].unset = {}
    BY DEF SettingsInit, PlanSettingsAssumption
  <2>2. x \in After(wish[c], Phase(c)) \/ x \in Now(wish[c], Phase(c))
    <3>1. wish[c].kind \in {"resource", "annotation", "account"}
      BY DEF SettingsInit, PlanSettingsAssumption
    <3>2. CASE Phase(c) = "set" \/ Phase(c) = "share"
      BY <3>2 DEF After, Now, Touches
    <3>3. CASE Phase(c) = "put"
      BY <1>2, <3>1, <3>3 DEF Now, Touches, Phases
    <3>4. CASE Phase(c) = "plan"
      BY <1>2, <2>1, <3>1, <3>4 DEF After, Touches, Phases
    <3> QED
      BY <1>2, <3>2, <3>3, <3>4
  <2> QED
    BY <1>3, <2>2 DEF Pending, Later
<1>9. Settled /\ Seen
  BY <1>3, <1>8 DEF Settled, Seen
<1> QED
  BY <1>1, <1>4, <1>5, <1>6, <1>7, <1>9 DEF SettingsIInv

LEMMA IInvSuffices == ASSUME PlanSettingsAssumption, SettingsIInv PROVE SettingsAreWanted
<1>1. SettingsTypeOK
  BY TouchedRows DEF SettingsTypeOK, SettingsIInv, Types
<1>2. RowsAreWanted
  <2> SUFFICES ASSUME NEW x \in Row, NEW e \in Client, x \in Touches(e),
                      \A c \in Client : x \in Touches(c) => pc[c] = "ok"
               PROVE  \E c \in Client : x \in Touches(c) /\ rows[x] = Wanted(c, x)
    BY DEF RowsAreWanted
  <2> QED
    BY DEF SettingsIInv, Settled, Pending
<1>3. ToldIsChanged
  <2> SUFFICES ASSUME NEW c \in Client, pc[c] = "ok", NEW x \in Touches(c) PROVE told[c][x] \in Good(x)
    BY DEF ToldIsChanged, Good
  <2> QED
    BY TouchedRows DEF SettingsIInv, Seen
<1> QED
  BY <1>1, <1>2, <1>3 DEF SettingsAreWanted, SettingsIInv

\* Whatever clients ask for, in whatever order their statements run and wait,
\* and whichever the database fails: settings are as one of those who changed
\* them wanted, resources that are set together are of one request, and who is
\* told of success is told what it, or another, has changed (the handlers of
\* PUT /plans/:planId/resources, /annotations, /serviceaccount).
THEOREM SettingsCorrect == ASSUME PlanSettingsAssumption PROVE SettingsSpec => []SettingsAreWanted
<1>1. SettingsInit => SettingsIInv
  BY InitSettingsIInv
<1>2. SettingsIInv /\ [SettingsNext]_settingsVars => SettingsIInv'
  BY Invariance DEF Facts
<1>3. SettingsIInv => SettingsAreWanted
  BY IInvSuffices
<1> QED
  BY <1>1, <1>2, <1>3, PTL DEF SettingsSpec
=============================================================================
