--------------------------- MODULE MCSubscription ---------------------------
(* Commands of up to three channels, in several orders and with repetitions. *)
EXTENDS Subscription

CONSTANTS a, b, c, json, plain

MCChannels == {a, b, c}
MCPayloads == {json, plain}
MCJson == {json}

Distinct == {<<>>, <<a>>, <<b, a>>, <<a, c, b>>}
Repeated == {<<a, a>>, <<a, b, a>>}
MCChannelLists == Distinct \cup Repeated

Subscribe == <<"s", "u", "b", "s", "c", "r", "i", "b", "e">>
SubscribeInCapitals == <<"S", "U", "B", "S", "C", "R", "I", "B", "E">>
PSubscribe == <<"p">> \o Subscribe
Message == <<"m", "e", "s", "s", "a", "g", "e">>

MCNames == {Subscribe, SubscribeInCapitals, PSubscribe}
MCPatterns(name) == name = PSubscribe
MCWord(name) == IF MCPatterns(name) THEN PSubscribe ELSE Subscribe
MCMessageWord(name) == IF MCPatterns(name) THEN <<"p">> \o Message ELSE Message
MCWords ==
  {w \o Subscribe : w \in {<<>>, <<"u", "n">>, <<"p">>, <<"p", "u", "n">>}}
    \cup {Message, <<"p">> \o Message}
=============================================================================
