SPECIFICATION Spec
CONSTANTS
    Namespaces = {nsA}
    Names = {p}
    Seqs = {s1, s2, s3}
    NoSeq = NoSeq
    Threads = {t1}
    CancelFlags = {TRUE}
    MaxStates = 1
SYMMETRY Symmetry
INVARIANT OneRunningPerPod
