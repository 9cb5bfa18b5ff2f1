\* The server has no database yet when it is first asked.
SPECIFICATION Spec
CONSTANTS
    c1 = c1  c2 = c2  c3 = c3  r = r  k1 = k1
    NoCapability = NoCapability
    Session = Session
    None = None
    Unreadable = Unreadable
    Ops = {c1, c2, c3}
    Calls = {c1, c2, c3}
    Readers = {}
    Keys = {k1}
    KeyOf <- OneKey
    Capabilities = {}
    CapabilityOf <- Unlimited
    CapabilityLimit <- NoLimits
    SlotLimit = 1
    Versions = {0, 1}
    EmptyVersions = {0}
    NilKeys = {k1}
SYMMETRY Triple
INVARIANT LoadedOnce
