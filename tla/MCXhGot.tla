------------------------------ MODULE MCXhGot ------------------------------
(***************************************************************************)
(* Instances of XhGot for TLC: two libraries that both import open, the    *)
(* first with a .plt and a .dyn slot on different pages.                   *)
(***************************************************************************)
EXTENDS XhGot

CONSTANTS liba, libb, open, read, pg1, pg2, pg3, proxy_a, proxy_b, proxy_read

Slot(s, sec, page) == [symbol |-> s, section |-> sec, page |-> page]

MCRelocs ==
  [l \in Libs |->
    IF l = liba THEN <<Slot(open, "plt", pg1), Slot(read, "plt", pg1),
                       Slot(open, "dyn", pg2)>>
                ELSE <<Slot(open, "plt", pg3)>>]

\* Two clients that hook the same symbol, and one hook of another.
TwoProxies == <<[symbol |-> open, proxy |-> proxy_a],
                [symbol |-> read, proxy |-> proxy_read],
                [symbol |-> open, proxy |-> proxy_b]>>

\* One client for every symbol.
OneProxy == <<[symbol |-> open, proxy |-> proxy_a],
              [symbol |-> read, proxy |-> proxy_read]>>

\* One client, that registered a hook twice.
HookedTwice == <<[symbol |-> open, proxy |-> proxy_a],
                 [symbol |-> read, proxy |-> proxy_read],
                 [symbol |-> open, proxy |-> proxy_a]>>

MCRegistries == {OneProxy, TwoProxies, HookedTwice}
=============================================================================
