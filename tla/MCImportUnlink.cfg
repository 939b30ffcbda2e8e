SPECIFICATION Spec
CONSTANTS
  Parts = {"import"}
  Threads = {t1, t2}
  Decisions = {d1, d2, d3}
  Stored = {d1, d2}
  Policies = {p1, p2}
  Keys = {k1, k2}
  Yes = Yes
  One = One
  Values = {Yes, One, Other}
  Compared <- MCCompared
  RowIds = {r1, r2, r3}
  NoRow = NoRow
  Importers = {"i1", "i2", "i3"}
  InputOf <- MCInputOf
  PolicyOf <- MCPolicyOf
  Known <- MCKnown
  AsOf = 4
  OutcomeIds = {1, 2, 3}
  NoFile = NoFile
  Openers = {r1, r2, r3}
  Releases = 11
  Rebuilds = {1, 3, 5, 6}
  Checked = {1, 3, 5, 6}
  Records = {a, b, c}
  Loose = {a}
  Orphans = {b}
  Unknown = Unknown
  Nobody = Nobody
CHECK_DEADLOCK FALSE
INVARIANTS
  ImportKeepsItsFile
