------------------------------ MODULE MCServers ------------------------------
(* Three registrations; routes with a parameter and without; a static       *)
(* prefix with and without a final slash, that also starts a longer name;   *)
(* a file both servers know the type of, one they type otherwise, and one   *)
(* that is hidden.                                                          *)
EXTENDS ServersProps

MCPatterns == {<<"/", "a">>, <<"/", "{", "n", "}">>, <<"/", "s", "/", "{", "n", "}">>}
MCPaths == {<<"/", "a">>, <<"/", "s">>, <<"/", "s", "/">>, <<"/", "s", "/", "x", ".", "css">>,
            <<"/", "s", "/", "/", "x", ".", "css">>, <<"/", "s", "x", ".", "css">>,
            <<"/", "s", "/", "x", ".", "xml">>, <<"/", "s", "/", ".", "css">>}
MCPrefixes == {<<"/", "s">>, <<"/", "s", "/">>}
MCFiles == {<<"d1", <<"x", ".", "css">>>>, <<"d1", <<"x", ".", "xml">>>>, <<"d1", <<".", "css">>>>,
            <<"d1", <<"index", ".", "html">>>>, <<"d2", <<"x", ".", "css">>>>}
MCWire ==
    {[query |-> "", headers |-> {}, body |-> "text"],
     [query |-> "a?b", headers |-> {"realip", "proto"}, body |-> "text"],
     [query |-> "a", headers |-> {"forwarded", "id"}, body |-> "text"],
     [query |-> "", headers |-> {}, body |-> "binary"],
     [query |-> "", headers |-> {}, body |-> "huge"]}
=============================================================================
