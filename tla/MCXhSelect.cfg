CONSTANTS
  Libs = {l1}
  Syms = {open, read}
  AllSymbols = AllSymbols
  MaxHooks = 3
  MaxIgnores = 2
SPECIFICATION Spec
INVARIANTS HookImplExact NeedHookSound
CHECK_DEADLOCK FALSE
