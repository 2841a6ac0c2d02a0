SPECIFICATION Spec
CONSTANTS
    Worker = {w1, w2}
    Key = {k1, k2}
    Slug = {s1, s2}
    Body = {b1}
    Unset = Unset
    Version <- Numbered
    Bound = 2
    Versioned = TRUE
    UniqueSlug = TRUE
SYMMETRY Symmetry
INVARIANTS TypeOK AnswerBounds
PROPERTIES KeepsNewer
