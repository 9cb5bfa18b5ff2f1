\* No dial timeout: contexts are all that can cancel.
SPECIFICATION Spec
CONSTANTS
    c1 = c1  c2 = c2  c3 = c3  k1 = k1  k2 = k2  d1 = d1  d2 = d2
    NoCall = NoCall
    Calls = {c1, c2, c3}
    Keys = {k1}
    KeyOf <- KeyOfShared
    Closers = {d1}
    DialTimeout = FALSE
INVARIANT CancelledByOwnContext
