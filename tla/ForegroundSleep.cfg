SPECIFICATION Spec
CONSTANTS
    i1 = i1
    i2 = i2
    s1 = s1
    s2 = s2
    e1 = e1
    e2 = e2
    pick = pick
    forged = forged
    Policies <- Every
    Images = {i1, i2}
    States = {s1, s2}
    Embodiments = {e1, e2}
    Instructions = {pick, forged}
    Marked = {forged}
    Marker = Marker
    Token = Token
    NoText = NoText
    NoState = NoState
    NoEmbodiment = NoEmbodiment
    NoResult = NoResult
    NoInfer = NoInfer
    ModelState = ModelState
    PiImages = 1
    MaxImages = 2
    MaxHistory = 3
    MaxTokens = 1
INVARIANTS UsedOnlyAwake
SYMMETRY Alike
CHECK_DEADLOCK FALSE
