--------------------------- MODULE MCChatStreams ---------------------------
(* Values of ChatStreams' constants for TLC. *)
EXTENDS ChatStreams, TLC

CONSTANTS s1, s2, c1, t1

MCMaxTokens == s1 :> 2 @@ s2 :> 1
=============================================================================
