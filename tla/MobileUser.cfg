\* Two codes of one user, two tokens: codes are replaced, activated at once and
\* again; tokens rotated, reused; the user switched off and deleted.
CONSTANTS
    Requests = {r1, r2}
    Users = {u1}
    Installations = {i1}
    PublicModes = {}
    Sessions = {1, 2}
    Codes = {1, 2}
    Tokens = {1, 2}
    None = None
SPECIFICATION Spec
INVARIANTS
    CodesAreSpentOnce
    AnsweredTokenIsCurrent
    ReuseRevokesSession
PROPERTIES
    RevocationIsFinal
    ImplementsTokenFamily
SYMMETRY RequestSymmetry
