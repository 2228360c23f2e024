------------------------- MODULE MCStaticResource -------------------------
(***************************************************************************)
(* An instance of StaticResource for TLC: a text file whose GET has codecs *)
(* for two more types, which HEAD is negotiated by.                        *)
(***************************************************************************)
EXTENDS StaticResource, TLC

Html == <<"text", "html">>
Json == <<"application", "json">>
AnyText == <<"text", "*">>
Anything == <<"*", "*">>

TheAvailable == <<Json, Html>>

TheAccepts == {Html :> 1, Json :> 0 @@ Anything :> 1, AnyText :> 1, Html :> 0 @@ AnyText :> 1, Json :> 0}
=============================================================================
