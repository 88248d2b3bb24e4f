\* An advertisement that read the row before a drain writes it back after.
SPECIFICATION RegistrySpec
CONSTANTS
    Nodes = {n1}
    Tokens = {t1, t2}
    Handlers = {h1, h2}
    Labels = {ml}
    TokenSeconds = 1
    NULL = NULL
SYMMETRY Symmetry
INVARIANTS
    DrainSticks
