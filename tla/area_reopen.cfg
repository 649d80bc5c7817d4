SPECIFICATION Spec
CONSTANTS
  storage = storage  access = access  ui = ui  t1 = t1  t2 = t2  t3 = t3
  c1 = c1  c2 = c2  x = x  y = y  k1 = k1  k2 = k2
  Client = {c1, c2}  Agent = {x, y}  Task = {t1, t2, t3}
  Area = {storage, access, ui}  AreaOf <- Areas  Rank <- Spine
  Specialist = {t3}  Row = {k1, k2}  None = None
SYMMETRY Alike
INVARIANTS OneOwnerPerArea ShippedRevalidated
PROPERTY ClaimsOnFirmGround
