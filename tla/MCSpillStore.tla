---------------------------- MODULE MCSpillStore ----------------------------
EXTENDS SpillStore
CONSTANTS a, b
Bytes12 == {<<1>>, <<2, 1>>}
Symmetry == Permutations({a, b})

\* Every failure after which no record is lost.
Harmless == {<<"copy", "nothing">>, <<"copy", "unsynced">>, <<"hit", "nothing">>,
             <<"marker", "nothing">>, <<"marker", "unsynced">>}
Torn == {<<"copy", "short">>, <<"hit", "short">>}
=============================================================================
