\* Two requests at a time, two accounts, three filespaces, three data stores.
CONSTANTS
  None = None
  a1 = a1
  a2 = a2
  f1 = f1
  f2 = f2
  f3 = f3
  d1 = d1
  d2 = d2
  d3 = d3
  Requests = {r1, r2}
  Accounts = {a1, a2}
  Filespaces = {f1, f2, f3}
  Stores = {d1, d2, d3}
  Sees <- SomeSees
  NameOf <- SomeName
  Home <- SomeHome
  StoreName <- SomeStore
SPECIFICATION Spec
INVARIANTS
  TypeOK
  ListFollowsSelection
  CredentialsNameTheirFilespace
  PagesAreWhole
SYMMETRY SomeSymmetry
