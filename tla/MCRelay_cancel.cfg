SPECIFICATION Spec
CONSTANTS
  a1 = a1
  a2 = a2
  c1 = c1
  c2 = c2
  x = x
  y = y
  q1 = q1
  q2 = q2
  NoConn = NoConn
  NoName = NoName
  AConns = {a1, a2}
  CConns = {c1}
  Names = {x}
  ValidNames = {x}
  NameOf <- OneName
  ReqIds = {q1}
  MaxFrames = 1
INVARIANT
  CancelOnDisconnect
