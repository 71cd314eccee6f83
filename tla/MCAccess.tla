------------------------------- MODULE MCAccess -------------------------------
(* A small organization for TLC: two workspaces with a request each. *)
EXTENDS Access, TLC

CONSTANTS v1, v2, t0, t1, k2, m1, q1, q2, s1, s2, s3, i1, i2, r1, r2

VisitorSymmetry == Permutations(Visitors)

Tree == [x \in {k2, m1, q1, q2} |-> IF x \in {k2, q2} THEN 2 ELSE 1]
Requests == [s \in {s1, s2, s3} |-> IF s = s3 THEN q2 ELSE q1]
Recipients == [s \in {s1, s2, s3} |-> CASE s = s1 -> r1 [] s = s2 -> r2 [] s = s3 -> None]
Submissions == [i \in {i1, i2} |-> IF i = i1 THEN s1 ELSE s2]

Row(q, s, i, w) == [request |-> q, submission |-> s, item |-> i, metadata |-> w]

\* Files of the portal, whose metadata the visitor may have set, of the API, one whose
\* references lie in two workspaces, and one that belongs nowhere; exports likewise.
Files == {Row(q1, s1, i1, 2), Row(q1, s2, None, None), Row(q2, s3, i1, 2),
          Row(None, None, None, 2), Row(None, None, None, None)}
Exports == {Row(q2, s3, None, 2), Row(q2, None, None, 2), Row(q1, s3, None, 1),
            Row(None, None, None, 1)}
=============================================================================
