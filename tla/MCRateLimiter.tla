-------------------------- MODULE MCRateLimiter --------------------------
(* Instances of RateLimiter for TLC.                                        *)
EXTENDS RateLimiter, TLC

CONSTANTS c1, c2, c3, c4, chatA, chatB

CallSymmetry == Permutations(Calls) \cup Permutations(Chats)
===========================================================================
