----------------------------- MODULE MCRunStore ------------------------------
(***************************************************************************)
(* Instances of RunStore.  "Chain": plan A makes t2 of t1, plan B takes t2 *)
(* and can also be fed by hand-tagged uploads.  "Join": plan C takes two   *)
(* inputs.                                                                 *)
(***************************************************************************)
EXTENDS RunStore, TLC

CONSTANTS t1, t2, planA, planB, planC, uploaded,
          inA, inB, inC1, inC2, outA, outB, outC, outU

\* Chain
ChainInputsOf == (planA :> {inA}) @@ (planB :> {inB}) @@ (uploaded :> {})
ChainOutputsOf == (planA :> {outA}) @@ (planB :> {}) @@ (uploaded :> {outU})
ChainInputTags == (inA :> {t1}) @@ (inB :> {t2})
ChainOutputTags == (outA :> {t2}) @@ (outU :> {})
ChainPinned == [i \in {inA, inB} |-> NoKnitId]

\* Single
SingleInputsOf == (planA :> {inA}) @@ (uploaded :> {})
SingleOutputsOf == (planA :> {outA}) @@ (uploaded :> {outU})
SingleInputTags == inA :> {t1}
SingleOutputTags == (outA :> {t2}) @@ (outU :> {})
SinglePinned == inA :> 1

\* Join
JoinInputsOf == (planC :> {inC1, inC2}) @@ (uploaded :> {})
JoinOutputsOf == (planC :> {}) @@ (uploaded :> {outU})
JoinInputTags == (inC1 :> {t1}) @@ (inC2 :> {t2})
JoinOutputTags == (outU :> {})
JoinPinned == [i \in {inC1, inC2} |-> NoKnitId]
=============================================================================
