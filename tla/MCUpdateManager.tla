---------------------------- MODULE MCUpdateManager ----------------------------
(* A small installation: the first entry is a directory of two files, one of  *)
(* which the update replaces by another; the second one is a file.            *)
EXTENDS UpdateManager

MCOldPaths == {<<1, 1>>, <<1, 2>>, <<2, 1>>}
MCNewPaths == {<<1, 1>>, <<1, 3>>, <<2, 1>>}
=============================================================================
