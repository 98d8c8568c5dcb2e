\* Three runs, three ways to download, kills that stop a command or not.
SPECIFICATION Spec
CONSTANTS
  Nobody = Nobody
  Runs = {r1, r2, r3}
  Size = 3
  Ways <- PosixWays
  Lazy = {"curl"}
  Blind = {}
  Commands = {"curl", "wget"}
INVARIANTS TypeOK FetchedIsWhole LastOneSettles FoundIsSettled
SYMMETRY Alike
CHECK_DEADLOCK FALSE
