SPECIFICATION Spec
CONSTANTS
  Clients = {c1, c2}
  Handles = {h1, h2}
  Users = {u1}
INVARIANT EveryClientListed
