SPECIFICATION Spec
CONSTANTS
    t1 = t1
    t2 = t2
    planA = planA
    planB = planB
    planC = planC
    uploaded = uploaded
    inA = inA
    inB = inB
    inC1 = inC1
    inC2 = inC2
    outA = outA
    outB = outB
    outC = outC
    outU = outU
    Plan = {planA}
    PseudoPlan = {uploaded}
    Input = {inA}
    Output = {outA, outU}
    Tag = {t1, t2}
    Run = {1, 2}
    KnitId = {1, 2, 3}
    NoKnitId = NoKnitId
    NoRun = NoRun
    NoPlan = NoPlan
    NoOutput = NoOutput
    Mode = {"read", "write"}
    AskedStatus = {"ready", "starting", "running", "completing", "aborting"}
    InputsOf <- SingleInputsOf
    OutputsOf <- SingleOutputsOf
    InputTags <- SingleInputTags
    OutputTags <- SingleOutputTags
    PinnedKnitId <- SinglePinned
INVARIANT
    UnstartedCanBeDeleted
