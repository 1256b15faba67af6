SPECIFICATION BillingSpec
CONSTANTS
  u1 = u1
  u2 = u2
  i1 = i1
  i2 = i2
  i3 = i3
  NoUser = NoUser
  Users = {u1}
  Invoices = {i1, i2}
  Window = 1
  MaxTime = 4
  BillingMayFail = FALSE
  HalfMayFail = FALSE
  MayCrash = TRUE
  BootMayDie = FALSE
INVARIANTS RenewalFromNow
