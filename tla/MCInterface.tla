------------------------------ MODULE MCInterface ------------------------------
(* Instances of InterfaceValidator for TLC. *)
EXTENDS InterfaceValidator, TLC

\* A function that accepts one message and raises on none.
Only(m) == [n \in Messages |-> IF n = m THEN "true" ELSE "false"]
\* A function that raises on one message, and accepts the larger ones.
Raising(m) == [n \in Messages |->
                 IF n = m THEN "raise" ELSE IF n > m THEN "true" ELSE "false"]

PureFunctions == {Only(1), Only(2)}
SomeFunctions == {Only(1), Only(2), Raising(1)}
AllFunctions == [Messages -> Outcome]
RequestThreads == Permutations(Handlers)
================================================================================
