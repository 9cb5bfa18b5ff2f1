\* Two calls on one key and one on another, two goroutines closing at any time.
\* No dial timeout: contexts are all that can cancel.
SPECIFICATION FairSpec
CONSTANTS
    c1 = c1  c2 = c2  c3 = c3  k1 = k1  k2 = k2  d1 = d1  d2 = d2
    NoCall = NoCall
    Calls = {c1, c2, c3}
    Keys = {k1, k2}
    KeyOf <- KeyOfMixed
    Closers = {d1, d2}
    DialTimeout = FALSE
INVARIANTS OwnedOnce ReturnedConnection CloseIsComplete OneConnectionPerKey HitsExplainReturns
PROPERTIES PoolSpec EveryCallReturns CloseDrains
