SPECIFICATION RulesFairSpec
CONSTANTS
  x = x y = y s1 = s1 c1 = c1
  Files <- TwoFiles
  Rules <- Two
  Empty = Empty
  Broken = Broken
  Absent = Absent
  NoDef = NoDef
  Starts <- Both
  Seeded <- Seed
  Clients = {c1}
  Requests = {s1}
  Deployments <- Apart
  loop = loop
  cache = cache
  MaxEdits = 3
  MaxFailures = 1
INVARIANTS RunsOnCurrentFiles CacheFollows
PROPERTIES SettledRulesDefined DefinitionsCatchUp
