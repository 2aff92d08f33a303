SPECIFICATION FirstSpec
CONSTANTS
  main = main
  usr = usr
  app = app
  m1 = m1
  u1 = u1
  u2 = u2
  a1 = a1
  Main = main
  Apps = {}
  Cid = {main, usr}
  Conn = {m1, u1}
  NoConn = NoConn
  NoCid = NoCid
  MaxWrites = 2
  MaxStarts = 2
  Policy <- PublicUsr
  Who <- WhoIs
PROPERTY MainFirst
CHECK_DEADLOCK FALSE
