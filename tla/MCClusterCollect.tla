--------------------------- MODULE MCClusterCollect ---------------------------
(* ClusterCollect on a small instance.                                     *)
EXTENDS ClusterCollect

\* Two names in one folder, one of them the greater; one in the other.
MCPlace == {<<"a", 1>>, <<"a", 2>>, <<"b", 1>>}

MCOneFolder == {<<"a", 1>>, <<"a", 2>>}
=============================================================================
