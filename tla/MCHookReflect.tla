--------------------------- MODULE MCHookReflect ---------------------------
EXTENDS HookReflect, TLC

CONSTANTS e1, e2, k, d1, d2, d3

MCEvents     == {e1, e2}
OneEvent     == {e1}
MCKeys       == {k}
MCKeyOf      == (e1 :> k) @@ (e2 :> k)
OneKeyOf     == (e1 :> k)
MCDeliveries == {d1, d2, d3}
MCSymmetry   == Permutations(MCDeliveries) \union Permutations(MCEvents)
OneSymmetry  == Permutations(MCDeliveries)
=============================================================================
