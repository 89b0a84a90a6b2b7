SPECIFICATION Spec
CONSTANTS
    a = a
    b = b
    c = c
    here = here
    there = there
    gen1 = gen1
    gen2 = gen2
    own = own
    Request = {a, b, c}
    Client = {here, there}
    Generated = {gen1, gen2}
    Manual = {own}
SYMMETRY Symmetry
INVARIANTS
    TypeOK
    TokensOfClient
PROPERTIES
    KeyNotReplaced
    SecretsKept
