------------------------------ MODULE MCChain ------------------------------
(* Small instances of Chain for TLC.                                       *)
EXTENDS Chain

MCProvider == [i \in 1 .. N |-> IF i = 1 THEN "groq" ELSE "openrouter"]

MCPlanned == [r \in Requests |-> IF r = "agent" THEN 1 .. N ELSE {1}]

=============================================================================
