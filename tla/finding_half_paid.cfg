SPECIFICATION BillingSpec
CONSTANTS
  u1 = u1
  u2 = u2
  i1 = i1
  i2 = i2
  i3 = i3
  NoUser = NoUser
  Users = {u1}
  Invoices = {i1}
  Window = 1
  MaxTime = 1
  BillingMayFail = FALSE
  HalfMayFail = TRUE
  MayCrash = TRUE
  BootMayDie = FALSE
INVARIANTS AckedIsPro
