CONSTANTS
  p1 = p1
  p2 = p2
  r1 = r1
  r2 = r2
  Procs = {p1, p2}
  Calls = {c1}
  Kinds = {"delete", "service"}
  Rules = {r1, r2}
  Agents = {"cli", "chuang-cli"}
  ToolAgent = "cli"
  NoId = NoId
  MaxCrashes = 1
SPECIFICATION Spec
SYMMETRY Symmetry
INVARIANTS
  OncePerApproval
  RunsAsApproved
  PromptIsDurable
  StuckOnlyByCrash
