----------------------------- MODULE MCDirectory -----------------------------
(* Small volumes for Directory.                                            *)
EXTENDS Directory

\* Two names in the root, one of which can be in the other.
SmallPaths == {<<"a">>, <<"b">>, <<"a", "b">>}

\* A directory of two names, which is the one listed.
DeepPaths == {<<"a">>, <<"a", "b">>, <<"a", "c">>}
SubListed == {<<"a">>}

=============================================================================
