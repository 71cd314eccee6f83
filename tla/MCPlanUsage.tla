------------------------------ MODULE MCPlanUsage ------------------------------
(* A small instance of PlanUsage for TLC. *)
EXTENDS PlanUsage, TLC

CONSTANTS c1, c2, r1, r2

\* Calls are interchangeable, and so are requests.
UsageSymmetry == Permutations(Call) \cup Permutations(Request)

\* A document, an Office file in its zip container, a file that is not what it
\* is declared as, and an empty one.
Files == {[size |-> 1, detected |-> "pdf", declared |-> None],
          [size |-> 2, detected |-> "zip", declared |-> "docx"],
          [size |-> 1, detected |-> "zip", declared |-> "pdf"],
          [size |-> 0, detected |-> None, declared |-> "pdf"]}

Plan == [key \in Key |->
           CASE key = "storageBytes" -> 2 [] key = "smsPerMonth" -> None [] OTHER -> 1]
=============================================================================
