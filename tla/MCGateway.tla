------------------------------ MODULE MCGateway ------------------------------
(***************************************************************************)
(* An instance of Gateway for TLC: one client calls any route, known or    *)
(* not; another reads a session meanwhile under the same key.              *)
(***************************************************************************)
EXTENDS Gateway, TLC

CONSTANTS first, second, user, admin, guest

Bearer(t) == [scheme |-> "Bearer", token |-> t]

AnyAndRead ==
  (first  :> [route : Route, header : {Bearer(user)}]
               \cup [route : {"metrics"}, header : {Bearer(admin)}]
               \cup [route : {"playAction"}, header : {Bearer(guest), None}]) @@
  (second :> [route : {"getSession"}, header : {Bearer(user)}])
=============================================================================
