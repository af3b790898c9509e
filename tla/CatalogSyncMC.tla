---------------------------- MODULE CatalogSyncMC ----------------------------
(* An instance of CatalogSync: the first component depends on the second,  *)
(* the third on itself.                                                    *)
EXTENDS CatalogSync

MCDependsOn == <<{2}, {}, {3}>>

MCStart == <<"a", "a", "a">>
=============================================================================
