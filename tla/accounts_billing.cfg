SPECIFICATION AllSpec
CONSTANTS
  Members = {"bob"}
  TgUsers = {"tg"}
  Invites = {"i1"}
  Chats = {"c1", "c2"}
  NoChat = "nochat"
  Handlers = {"h1", "h2"}
  MaxTokens = 3
  MaxDeaths = 2
  DbMayFail = TRUE
  u1 = u1
  u2 = u2
  p1 = p1
  p2 = p2
  NoUser = NoUser
  Users = {u1, u2}
  Invoices = {p1, p2}
  Window = 2
  MaxTime = 4
  BillingMayFail = TRUE
  HalfMayFail = TRUE
  MayCrash = TRUE
  BootMayDie = TRUE
INVARIANTS
  TokensHonoured MasterToken InviteOnce PaidTimeExact
PROPERTIES ComesUp PaidUpgrades
