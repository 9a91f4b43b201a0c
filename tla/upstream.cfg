CONSTANTS
    m1 = m1
    m2 = m2
    own = own
    shared = shared
    fixed = fixed
    Module = {m1, m2}
    NoOne = NoOne
    Builtin = Builtin
    Kinds <- MCKinds
    Tools = "tools"
    Names <- MCNames
    BuiltinNames = {fixed}
    MaxChanges = 2
SPECIFICATION Spec
CHECK_DEADLOCK FALSE
INVARIANT OwnersOffer
INVARIANT IdleIsCurrent
INVARIANT OwnNamesServed
