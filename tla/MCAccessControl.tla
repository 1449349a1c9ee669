--------------------------- MODULE MCAccessControl ---------------------------
EXTENDS AccessControl, TLC

\* Ids and paths over the symbols a and b; "ba" is the pilot.
MCIds == {<<"a">>, <<"b">>, <<"a", "b">>, <<"b", "a">>}
MCPaths == {<<"a">>, <<"b">>, <<"a", "b">>}
MCLiterals == {<<"a">>}
MCPilotIds == {<<"b", "a">>}
\* "ab" fails the SPIFFE-id validator.
MCValidIds == MCIds \ {<<"a", "b">>}
MCAclPath == <<"a", "b">>
=============================================================================
