SPECIFICATION ServerSpec
CONSTANTS
  a1 = a1 a2 = a2 t1 = t1 t2 = t2 x1 = x1 x2 = x2 c1 = c1 c2 = c2
  v1 = v1 v2 = v2 p1 = p1 p2 = p2 o1 = o1 h1 = h1 h2 = h2
  server = server worker = worker
  u1 = u1 u2 = u2 f1 = f1 g1 = g1 g2 = g2 m1 = m1 m2 = m2
  n1 = n1 n2 = n2 n3 = n3 i1 = i1 d1 = d1
  Admins = {a1, a2} Bootstrap = a1
  Sessions = {t1, t2} Sources = {x1, x2}
  RoleSets <- AllRoles
  SourceHard = 2 AccountHard = 3
  MaxSecrets = 2 MaxPasswords = 1
  Campaigns = {c1, c2} First = c1 Versions = {v1, v2} FirstVersion = v1 Weeks = {p1, p2} FirstWeek = p1 Outlets = {o1}
  Windows <- AnyWindow
  Production = TRUE
  Writers = {server, worker} Tries = 1 MaxRows = 4
  Skus <- MCSkus Grams <- MCGrams Qualifying <- MCQualifying
  KeysOf <- MCKeysOf KeyLength <- MCKeyLength KeySays <- MCKeySays Within <- MCWithin
  Handlers = {h1, h2} Server = server Worker = worker
  Families <- WorkerOnly
  WeekStates = {"scheduled", "drawn"}
  Readable <- MCReadable RuleBook <- MCRuleBook PurchaseWindow <- MCWindow
  Booters = {server, worker} Files = 3 Values = {1, 2, 3} MaxDepth = 3
  Uploads = {u1, u2} Photos = {f1} Promotions = {g1, g2} Assets = {m1, m2} Retention = 1 MaxDay = 2
  MaxPersons = 3 Numbers = {n1, n2, n3} Identities = {i1} MaxAlerts = 2
  MaxSockets = 3 Inbound = {d1} MaxWaits = 2
  MaxRounds = 2
SYMMETRY Alike
CHECK_DEADLOCK FALSE
INVARIANTS DrainedMeansIdle
