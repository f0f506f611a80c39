---------------------------- MODULE MCSearchLimiter ----------------------------
(***************************************************************************)
(* Instances of SearchLimiter for TLC: a client behind the tunnel on the   *)
(* host and one behind a proxy, each with the address that hop writes, and *)
(* one that connects directly and may claim to be the first.               *)
(***************************************************************************)
EXTENDS SearchLimiter

MCTwins(t) == {}
MCPeerOf(c) ==
  CASE c = "tunnelled" -> "127.0.0.1" [] c = "proxied" -> "proxy" [] c = "direct" -> "direct"
MCClaimsOf(c) ==
  CASE c = "tunnelled" -> {"far"} [] c = "proxied" -> {"farther"}
    [] c = "direct" -> {"far", NoAddress}
MCEnv ==
  [serviceURL : {"wss", UNSET}, allowedPubkeys : {{"pk"}, {}}, acceptedTags : {UNSET},
   maxEventPastAge : {UNSET}, trustedProxies : {UNSET, {"proxy"}, BAD}]
MCFilter ==
  [authors : {0, 1}, ids : {0}, tagValues : {0}, search : {TRUE}]
=============================================================================
