CONSTANTS
    Top = {a, b}
    Sub = {x}
SPECIFICATION Spec
INVARIANTS TypeOK MergedViewExact DentriesCurrent ListingAgrees RewindIsCurrent
