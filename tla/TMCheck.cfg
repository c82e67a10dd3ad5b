SPECIFICATION FairSpec
CONSTANTS
    Namespaces = {nsA}
    Names = {p}
    Seqs = {s1, s2}
    NoSeq = NoSeq
    Threads = {t1, t2}
    CancelFlags = {TRUE, FALSE}
    MaxStates = 2
INVARIANTS TypeOK ActiveIsLive AtMostOneLate
PROPERTY SequencesFinish
