CONSTANTS
    Top = {a, b}
    Sub = {x}
SPECIFICATION Spec
INVARIANT NoWhiteoutWithoutLower
