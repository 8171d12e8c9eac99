CONSTANTS
  e1 = e1  w1 = w1  w2 = w2  n1 = n1  n2 = n2  x1 = x1  p1 = p1  c1 = c1
  Requests = {r1, r2}
  Emails = {e1}
  OpenIds = {w1, w2}
  Unions = {x1}
  Phones = {p1}
  Nicks = {n1, n2}
  Codes = {c1}
  UnionOf <- MCUnionOf
  NickOf <- MCNickOf
  None = None
  Calls <- MCCalls
SPECIFICATION Spec
PROPERTIES LinksStay
