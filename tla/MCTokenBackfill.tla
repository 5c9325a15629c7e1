--------------------------- MODULE MCTokenBackfill ---------------------------
(* A small instance of the backfill of content_tokens.                     *)
EXTENDS TokenBackfill

CONSTANTS u1, u2, c1, c2

OneRun      == {u1}
TwoContents == {c1, c2}
=============================================================================
