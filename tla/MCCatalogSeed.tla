--------------------------- MODULE MCCatalogSeed ----------------------------
(* CatalogSeed for TLC.                                                    *)
EXTENDS CatalogSeed, MCGoods
=============================================================================
