----------------------------- MODULE MCAssetFetch -----------------------------
(* Instances of AssetFetch for TLC: two assets of one daemon, of two ranges *)
(* each, the first of which a second daemon downloads as well.             *)
EXTENDS AssetFetch, TLC

CONSTANTS d1, d2, d3, h1, h2, x, y

MCDaemonOf == d1 :> h1 @@ d2 :> h1 @@ d3 :> h2
MCObjectOf == d1 :> x @@ d2 :> y @@ d3 :> x
MCSizeOf == x :> 3 @@ y :> 4
=============================================================================
