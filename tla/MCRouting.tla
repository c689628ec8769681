----------------------------- MODULE MCRouting ------------------------------
(***************************************************************************)
(* A small instance of Routing: two versions of a policy with a chat and a *)
(* vision profile over two providers, of which one speaks chat only.       *)
(***************************************************************************)
EXTENDS Routing, TLC

MCSessionOf == [r \in Requests |-> "s1"]

\* "a" takes an effort and cannot see, "b" can see, "c" can see and is served
\* by Groq.
MCConfig ==
    <<[chain     |-> [chat |-> {"a", "b"}, vision |-> {"c"}],
       targets   |-> [chat |-> {<<"openrouter", "a">>, <<"openrouter", "b">>, <<"groq", "c">>},
                      vision |-> {<<"groq", "c">>}],
       default   |-> "chat",
       reasoning |-> [chat |-> "high", vision |-> "bogus"],
       timeouts  |-> [chat |-> 3, vision |-> 9],
       windows   |-> (<<"openrouter", "b">> :> "small"),
       caps      |-> [c |-> [plus |-> {"vision"}, minus |-> {}]]],
      [chain     |-> [chat |-> {"a"}],
       targets   |-> [chat |-> {<<"openrouter", "a">>, <<"groq", "c">>}],
       default   |-> "chat",
       reasoning |-> <<>>,
       timeouts  |-> [chat |-> 1],
       windows   |-> (<<"openrouter", "b">> :> "large"),
       caps      |-> [b |-> [plus |-> {"vision", "tools"}, minus |-> {}],
                      c |-> [plus |-> {}, minus |-> {"vision"}]]]>>

MCSnapshots ==
    {<<>>,
     [b |-> {"vision", "tools", "reasoning"}],
     [a |-> {"effort"}, c |-> {"vision"}]}

MCKinds ==
    {[profile |-> "chat", images |-> FALSE, tools |-> FALSE, path |-> "chat", pin |-> AnyModel,
      big |-> TRUE, effort |-> Unset],
     [profile |-> "chat", images |-> TRUE, tools |-> FALSE, path |-> "messages", pin |-> AnyModel,
      big |-> FALSE, effort |-> Unset],
     [profile |-> "chat", images |-> TRUE, tools |-> TRUE, path |-> "chat", pin |-> "b",
      big |-> FALSE, effort |-> "low"]}
=============================================================================
