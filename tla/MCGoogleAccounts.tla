---- MODULE MCGoogleAccounts ----
EXTENDS GoogleAccounts, TLC
CONSTANTS u1, c1, c2, c3, s1, s2
\* One Google account has the address of the user, the other one that nobody has.
Addresses == [s \in Subject |-> IF s = s1 THEN u1 ELSE None]
\* Calls are interchangeable.
CallSymmetry == Permutations(Call)
====
