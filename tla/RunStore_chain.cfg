SPECIFICATION Spec
CONSTANTS
    t1 = t1
    t2 = t2
    planA = planA
    planB = planB
    planC = planC
    uploaded = uploaded
    inA = inA
    inB = inB
    inC1 = inC1
    inC2 = inC2
    outA = outA
    outB = outB
    outC = outC
    outU = outU
    Plan = {planA, planB}
    PseudoPlan = {uploaded}
    Input = {inA, inB}
    Output = {outA, outU}
    Tag = {t1, t2}
    Run = {1, 2, 3}
    KnitId = {1, 2, 3, 4}
    NoKnitId = NoKnitId
    NoRun = NoRun
    NoPlan = NoPlan
    NoOutput = NoOutput
    Mode = {}
    AskedStatus = {"ready", "completing"}
    InputsOf <- ChainInputsOf
    OutputsOf <- ChainOutputsOf
    InputTags <- ChainInputTags
    OutputTags <- ChainOutputTags
    PinnedKnitId <- ChainPinned
INVARIANTS
    LineageIntact
    
    OutputsComplete
    
