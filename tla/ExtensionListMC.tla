-------------------------- MODULE ExtensionListMC --------------------------
(* All names, lists and texts up to a length.                              *)
EXTENDS ExtensionList

UpTo(n, S) == UNION {[1 .. k -> S] : k \in 1 .. n}

MCNameLists == UpTo(3, UpTo(2, Letters))
MCTexts == UpTo(11, {"a", "\n"}) \cup {<<>>}
=============================================================================
