---------------------------- MODULE MCSecretStore ----------------------------
EXTENDS SecretStore, TLC

CONSTANTS d1, d2, p1, NaN

MCPaths == {p1}
MCValues == {d1, d2}

\* delete requests: current, one explicit version, current plus an old one
MCDeleteLists == {<<0>>, <<2>>, <<0, 1>>}

\* undelete flags: none given, the same lists, and the ones the CLI rejects
MCUndeleteFlags == {<<>>, <<0>>, <<2>>, <<0, 1>>, <<-1>>, <<NaN>>, <<2, NaN>>}

MCGetVersions == {-1, 0, 1, 2}

ValueSymmetry == Permutations(MCValues)
=============================================================================
