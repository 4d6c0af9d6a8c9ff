CONSTANTS
    RequestIds <- MC_RequestIds
    RangeIds <- MC_RangeIds
    Words <- MC_Words
SPECIFICATION Spec
INVARIANTS
    TypeOK
PROPERTY GetFieldAnswers
