----------------------------- MODULE MCAssetCache -----------------------------
(* Instances of AssetCache for TLC.                                        *)
EXTENDS AssetCache
=============================================================================
