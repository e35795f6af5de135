--------------------------- MODULE MCProjectQuota ---------------------------
(* ProjectQuota on small clusters: group g has the types a and b; group h has *)
(* c, which no calculator knows, or n, which has no namespace.                *)
EXTENDS ProjectQuota

CONSTANTS a, b, c, n, g, h

MCGroupOf == [t \in Types |-> IF t \in {a, b} THEN g ELSE h]
MCNamespaces == {1, 2}

\* A type counted before its group reuses the cache, after it does not.  The
\* group h cannot be counted.  One quota is listed twice.
MCSpecs == {<<a, g>>, <<g, b>>, <<h>>, <<a, a>>}

PlainSpecs == {<<a, c>>}
=============================================================================
