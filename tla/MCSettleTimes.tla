---------------------------- MODULE MCSettleTimes ----------------------------
(* Two entries that one friend delivered, who is also the author of the second. *)
EXTENDS SettleTimes, TLC

CONSTANTS h1, h2, author, friend

MCAuthor      == (h1 :> author) @@ (h2 :> friend)
MCDeliveredBy == (h1 :> friend) @@ (h2 :> friend)

=============================================================================
