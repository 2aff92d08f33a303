SPECIFICATION MCSpec
CONSTANTS
  main = main
  usr = usr
  app = app
  m1 = m1
  u1 = u1
  u2 = u2
  a1 = a1
  Main = main
  Apps = {app}
  Cid = {main, usr, app}
  Conn = {m1, a1, u1, u2}
  NoConn = NoConn
  NoCid = NoCid
  MaxWrites = 2
  MaxStarts = 2
  Policy <- PublicUsr
  Who <- WhoIs
INVARIANTS AclEnforced Watched RegisteredIsKnown
PROPERTY DeadPeerClosed
CHECK_DEADLOCK FALSE
