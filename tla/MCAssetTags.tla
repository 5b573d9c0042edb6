----------------------------- MODULE MCAssetTags -----------------------------
(* AssetTags with a freeze, a root qualifier and its sub-qualifier.        *)
EXTENDS AssetTags

CONSTANTS freeze, root, sub

MCTag == {freeze, root, sub}
MCRoot == [t \in MCTag |-> IF t = sub THEN root ELSE Null]
=============================================================================
