----------------------------- MODULE MCBreakers -----------------------------
(* Small instances of Breakers for TLC.                                    *)
EXTENDS Breakers

MCProviderOf == [m \in Models |-> IF m = "free" THEN "openrouter" ELSE "groq"]

=============================================================================
