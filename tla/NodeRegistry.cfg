\* One worker id, two tokens for it, two API threads, every operator call.
SPECIFICATION RegistrySpec
CONSTANTS
    Nodes = {n1}
    Tokens = {t1, t2}
    Handlers = {h1, h2}
    Labels = {ml}
    TokenSeconds = 1
    NULL = NULL
SYMMETRY Symmetry
INVARIANTS
    TokenJoinsOnce
    CapabilitiesGranted
    CredentialedIsRegistered
