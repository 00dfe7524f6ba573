------------------------------ MODULE MCPubSub ------------------------------
(* An instance of PubSub for TLC. *)
EXTENDS PubSub

(* One channel, for the order of things. *)
OneChannel == {<<"a">>}

(* Two channels, the name of one of which begins with that of the other. *)
PrefixedChannels == {<<"a">>, <<"a", "b">>}
============================================================================
