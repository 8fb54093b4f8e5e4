SPECIFICATION Spec
CONSTANTS
    r1 = r1
    ada = ada  bob = bob  cyd = cyd
    c1 = c1  c2 = c2
    Readers = {r1}
    Users = {ada, bob, cyd}
    Contracts = {c1, c2}
    Instants = {1, 2}
    Sizes = {1, 2}
    NoRow = NoRow  Null = Null
SYMMETRY Symmetry
CONSTRAINT Worthwhile
INVARIANTS TypeOK RatedAreCounted PageNotShort WalkFindsEveryone
    NothingForgotten UsageNamesLawyer
CHECK_DEADLOCK FALSE
