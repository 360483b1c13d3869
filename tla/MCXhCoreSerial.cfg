CONSTANTS
  liba = liba
  libb = libb
  open = open
  read = read
  Libs = {liba, libb}
  Syms = {open, read}
  AllSymbols = AllSymbols
  Threads = {t1, t2}
  Workers = {w1, w2}
  Nobody = Nobody
  NoArg = NoArg
  Hooks <- MCHooks
  Ignores <- MCIgnores
  MaxHooks = 2
  MaxIgnores = 1
  Calls = {"register", "ignore", "refresh", "refresh_async", "clear"}
  Exclusive = {"register", "ignore", "clear"}
SPECIFICATION Spec
SYMMETRY ThreadSymmetry
INVARIANTS SingleRefresher RequestHasRefresher InstalledWanted CleanAfterClear HandlerNotSelf
PROPERTIES RegistryFrozen ImplementsApi
