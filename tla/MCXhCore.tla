------------------------------ MODULE MCXhCore ------------------------------
(***************************************************************************)
(* Instances of XhCore for TLC.                                            *)
(***************************************************************************)
EXTENDS XhCore, TLC

CONSTANTS liba, libb, open, read

\* One hook on both libraries, one on the first, and an ignore entry for
\* every symbol of the second.
MCHooks == {[pathname_regex |-> {liba, libb}, symbol |-> open],
            [pathname_regex |-> {liba}, symbol |-> read]}

MCIgnores == {[pathname_regex |-> {libb}, symbol |-> AllSymbols]}

OneHook == {[pathname_regex |-> {liba}, symbol |-> open]}

OneIgnore == {[pathname_regex |-> {liba}, symbol |-> read]}

ThreadSymmetry == Permutations(Threads) \cup Permutations(Workers)

=============================================================================
