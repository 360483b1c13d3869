CONSTANTS
  liba = liba
  libb = libb
  open = open
  read = read
  Libs = {liba}
  Syms = {open, read}
  AllSymbols = AllSymbols
  Threads = {t1, t2}
  Workers = {w1, w2}
  Nobody = Nobody
  NoArg = NoArg
  Hooks <- OneHook
  Ignores <- OneIgnore
  MaxHooks = 0
  MaxIgnores = 0
  Calls = {"refresh", "clear", "protect"}
  Exclusive = {"refresh", "clear", "protect"}
SPECIFICATION Spec
INVARIANT HandlerRestored
