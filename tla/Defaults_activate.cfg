SPECIFICATION Spec
CONSTANTS
    Software = {s1}
    Provider = {local, cat, own}
    Local = local
    Catalogue = {cat}
    Worker = {w1, w2}
    Null = Null
PROPERTY
    ActivationSetsDefault
