\* Three modules with two versions each, go.mod files with one requirement and a
\* root with up to two.
CONSTANTS
    Module = {a, b, c}
    MaxVersion = 2
    MaxRequire = 1
SPECIFICATION Spec
SYMMETRY Symmetry
CHECK_DEADLOCK FALSE
INVARIANTS STypeOK LoadModesExact BuildListReachable GraphSound
PROPERTIES SelectionGrows RoundsAdvance
