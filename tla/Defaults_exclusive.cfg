SPECIFICATION Spec
CONSTANTS
    Software = {s1, s2, s3}
    Provider = {local, cat, own}
    Local = local
    Catalogue = {cat}
    Worker = {w1, w2, w3}
    Null = Null
SYMMETRY MCSymmetry
INVARIANTS
    TypeOK
    OneActiveDefault
    AtMostOneDefaultProvider
