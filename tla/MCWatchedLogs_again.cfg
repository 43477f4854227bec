SPECIFICATION Spec
CONSTANTS
  Caller = {c1, c2}
  Path = {messages, auth}
  Conn = {k1, k2}
  MaxWid = 3
  MaxOther = 2
SYMMETRY Symmetric
INVARIANT AddReply
