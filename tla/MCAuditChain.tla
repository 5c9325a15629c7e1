---------------------------- MODULE MCAuditChain ----------------------------
EXTENDS AuditChain, TLC

CONSTANTS a, b, c

MCEvents     == {a, b, c}
MCUnreadable == {c}
MCPair       == {a, b}
MCNone       == {}
MCRowLimits  == {1, 10}
MCSymmetry   == Permutations({a, b})
=============================================================================
