------------------------------- MODULE MCLogger -------------------------------
(* Values for Logger: lengths at and around the limits. *)
EXTENDS Logger, TLC

CONSTANTS tag23, tag24

MCTags == {Empty, InitialTag, tag23, tag24}
MCLength == Empty :> 0 @@ InitialTag :> 6 @@ tag23 :> 23 @@ tag24 :> 24
MCMessageLengths == {0, 4007, 4100}
MCErrorLength == 0 :> 7 @@ 13 :> 17
=============================================================================
