----------------------------- MODULE MCRequests -----------------------------
\* Every combination of values of the variables that touch each other, and one request
\* of any kind to the server that starts.
EXTENDS Requests

Ports == {"", "3000", "8080", "80800"}
Addrs == {<<>>, <<"host only">>, <<"", "8080">>, <<"127.0.0.1", "3000">>, <<"127.0.0.1", "8080">>}
Bases == {<<>>, <<"https://", "example.com", "">>, <<"http://", "example.com", "">>,
          <<"HTTP://", "example.com", "">>, <<" http://", "example.com", "">>,
          <<"http://", "localhost", "password@example.com">>,
          <<"http://", "127.0.0.1", "3000">>, <<"http://", "[::1]", "3000">>}
Caps == {Unset, 0, 1, 3, MaxInt, MaxInt + 1}
MediaLists == {<<>>, <<"">>, <<"zip", "zip">>, <<"gzip", "tar">>}
PortFlags == {"", "3000", "80800"}

\* Whatever is set in one of these groups, the rest unset.
MCEnvironments ==
    {e @@ Fresh : e \in
        [port : Ports, addr : Addrs, base : Bases, portFlag : PortFlags]
        \cup [addr : Addrs, addrFlag : {<<>>, <<"", "3000">>, <<"", "80800">>}, portFlag : PortFlags]
        \cup [base : Bases, insecure : {"", "true", "maybe"}, media : MediaLists]
        \cup [archive : Caps, uncompressed : {Unset, 0, 1, MaxInt, MaxInt + 1}, entries : {Unset, 0, 1},
              media : MediaLists]
        \cup [backend : {"fs", "s3"}, dsn : {"sqlite", "postgres"}, port : Ports, archive : Caps]}

MCDefaults == {Fresh}

MCRepositories == {<<"a">>}

MCRawNames == {<<"a">>, <<"A">>, <<"K">>, <<"-">>, <<".", ".">>, <<"odd">>, <<"a", "b">>,
               <<"a", "/", "K">>, <<"a", "/", "/", "b">>,
               <<"a", "/", ".", ".", "/", "b">>, <<"/", "a">>, <<"a", "backslash">>, <<"ctl">>}

MCGrants ==
    {Scope(action, target) : action \in Actions \cup {"admin"},
        target \in {NoTarget, <<>>, <<"a">>, <<"a", "/", "b">>, <<"A", "/", "b">>,
                    <<"a", "/", "*">>, <<"/", "*">>, <<"A", "/", "*">>, <<"a", "/", "b", "/", "*">>,
                    <<"a", "b", "/", "*">>, <<"a", "/", "*", "/", "*">>}}
=============================================================================
