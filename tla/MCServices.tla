----------------------------- MODULE MCServices -----------------------------
(* Two threads; a backup request has no entries, all keys, or a key that   *)
(* is not allowed behind one that is.                                      *)
EXTENDS Services

MCKeys == {"AWS_ACCESS_KEY_ID", "AWS_SECRET_ACCESS_KEY"}
MCEnvLists == {<<>>, <<"AWS_ACCESS_KEY_ID", "AWS_SECRET_ACCESS_KEY">>,
               <<"AWS_ACCESS_KEY_ID", Unknown>>}

Symmetry == Permutations(Threads)
=============================================================================
