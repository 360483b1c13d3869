CONSTANTS
  liba = liba
  libb = libb
  open = open
  read = read
  pg1 = pg1
  pg2 = pg2
  pg3 = pg3
  proxy_a = proxy_a
  proxy_b = proxy_b
  proxy_read = proxy_read
  Libs = {liba, libb}
  Syms = {open, read}
  Pages = {pg1, pg2, pg3}
  Relocs <- MCRelocs
  Proxies = {proxy_a, proxy_b, proxy_read}
  Null = Null
  Registries <- MCRegistries
  WritablePages = {pg2}
SPECIFICATION Spec
INVARIANTS CallsReachReal EveryProxyCalled ProtectionRestored
