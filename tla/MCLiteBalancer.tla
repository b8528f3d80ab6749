---------------------------- MODULE MCLiteBalancer ----------------------------
(* Two servers, neither of them reliable, and two requests at a time. *)
EXTENDS LiteBalancer
CONSTANTS a, b, h, r1, r2
MCClients == {a, b}
MCHealthy == {}
MCRequests == {r1, r2}

(* Three servers, one of them healthy, and one request. *)
MCThree == {a, b, h}
MCOneHealthy == {h}
MCOne == {r1}
==============================================================================
