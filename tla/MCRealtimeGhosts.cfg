CONSTANTS
  Sockets = {w1}
  Users = {u1}
  Groups = {g1}
  NoUser = NoUser
SPECIFICATION WSSpec
INVARIANT CloseCleansUp
CHECK_DEADLOCK FALSE
