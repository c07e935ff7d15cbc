---------------------------- MODULE MCBotPool ----------------------------
(* Instances of BotPool for TLC: two platforms, two jobs, up to three bots.  *)
EXTENDS BotPool, TLC

CONSTANTS p1, p2, b1, b2, b3, j1, j2, j3

TwoPlatforms == [j \in Jobs |-> IF j = j2 THEN p2 ELSE p1]

\* b3 serves no platform of its own.
OneBotEach == [b \in Bots |-> CASE b = b1 -> p1 [] b = b2 -> p2 [] OTHER -> NoPlatform]
===========================================================================
