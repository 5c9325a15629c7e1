------------------------------- MODULE MCParts -------------------------------
(***************************************************************************)
(* Small instances of four parts that share no state with each other: the  *)
(* backfill of content_tokens, the cached state of keys, the limits of a   *)
(* key, and the vectors.  In a behaviour one of them moves and the others  *)
(* stay as they began, so that one run explores the sum of the four, not   *)
(* the product, and every property is checked as its module states it.     *)
(***************************************************************************)
EXTENDS TokenBackfill, KeyState, Quotas, Embedding

CONSTANTS c1, c2, u1, u2, s1, s2, r1, f1, f2, q1, q2, ta, bad

TwoContents  == {c1, c2}
LongRuns     == {c2}
TwoRuns      == {u1, u2}
TwoServers   == {s1, s2}
OneAsker     == {r1}
TwoFragments == {f1, f2}
TwoRequests  == {q1, q2}
TwoTexts     == {ta, bad}
BadText      == {bad}

VARIABLE part

partVars == <<part, vars, keyVars, quotaVars, embedVars>>

Tokens(A)  == part = "tokens"  /\ A /\ UNCHANGED <<part, keyVars, quotaVars, embedVars>>
KeyCache(A) == part = "keys"   /\ A /\ UNCHANGED <<part, vars, quotaVars, embedVars>>
Limits(A)  == part = "limits"  /\ A /\ UNCHANGED <<part, vars, keyVars, embedVars>>
Vectors(A) == part = "vectors" /\ A /\ UNCHANGED <<part, vars, keyVars, quotaVars>>

PartsInit ==
  /\ part \in {"tokens", "keys", "limits", "vectors"}
  /\ Init /\ KeyInit /\ QuotaInit /\ EmbedInit
  /\ part # "tokens" => broken = {} /\ \A r \in Existing : rows[r].content = c1

PartsNext == Tokens(Next) \/ KeyCache(KeyNext) \/ Limits(QuotaNext) \/ Vectors(EmbedNext)

\* The fairness of TokenBackfill and of Embedding, for the part that moves.
PartsFairness ==
  /\ \A u \in Runs : WF_vars(part = "tokens" /\ (Begin(u) \/ Work(u)))
  /\ WF_embedVars(part = "vectors" /\ Sweep)

PartsSpec == PartsInit /\ [][PartsNext]_partVars /\ PartsFairness
=============================================================================
