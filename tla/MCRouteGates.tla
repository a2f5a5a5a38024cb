--------------------------- MODULE MCRouteGates ----------------------------
EXTENDS RouteGates

(* Requests with no 401 of their own.                                      *)
Own == <<API!getCurrentUser, API!listProjects, API!getMyProfile>>
(* One tab with three requests, one of them a login with a wrong password   *)
(* and one for a share link with a wrong passphrase; two devices of one     *)
(* user; two tabs of a browser where answers are lost; a server that dies,  *)
(* logins that overlap and sessions that are kept; and a tab whose user     *)
(* signs in and out, whose sessions are ended elsewhere, or who gets into   *)
(* and out of organizations.                                                *)
MCSetups == {
    [browser |-> [t \in Tabs |-> t], tab |-> [q \in Requests |-> 1],
     devices |-> {1}, calls |-> 1..3, refused |-> {2, 3},
     endpoint |-> <<API!getCurrentUser, API!login, API!createPublicGuestComment>>,
     acts |-> {"logout"}, faults |-> {"error"}, passwords |-> 0],
    [browser |-> [t \in Tabs |-> t], tab |-> [q \in Requests |-> IF q = 1 THEN 1 ELSE 2],
     devices |-> {1, 2}, calls |-> {1}, refused |-> {}, endpoint |-> Own,
     acts |-> {"reset", "change"}, faults |-> {}, passwords |-> 2],
    [browser |-> [t \in Tabs |-> 1], tab |-> [q \in Requests |-> IF q = 1 THEN 1 ELSE 2],
     devices |-> {1}, calls |-> {1, 2}, refused |-> {}, endpoint |-> Own,
     acts |-> {"logout"}, faults |-> {"loss"}, passwords |-> 0],
    [browser |-> [t \in Tabs |-> t], tab |-> [q \in Requests |-> 1],
     devices |-> {1, 2}, calls |-> {1}, refused |-> {}, endpoint |-> Own,
     acts |-> {"reset", "change", "revoke", "disable"}, faults |-> {"overlap", "crash", "keep"}, passwords |-> 1],
    [browser |-> [t \in Tabs |-> t], tab |-> [q \in Requests |-> 1],
     devices |-> {1}, calls |-> {}, refused |-> {},
     endpoint |-> <<API!getCurrentUser, API!getCurrentUser, API!listProjects>>,
     acts |-> {"browse", "logout"}, faults |-> {}, passwords |-> 0],
    [browser |-> [t \in Tabs |-> t], tab |-> [q \in Requests |-> 1],
     devices |-> {1}, calls |-> {}, refused |-> {},
     endpoint |-> <<API!getCurrentUser, API!getCurrentUser, API!listProjects>>,
     acts |-> {"browse", "reset", "revoke"}, faults |-> {}, passwords |-> 1],
    [browser |-> [t \in Tabs |-> t], tab |-> [q \in Requests |-> 1],
     devices |-> {1}, calls |-> {}, refused |-> {},
     endpoint |-> <<API!getCurrentUser, API!getCurrentUser, API!listProjects>>,
     acts |-> {"browse", "move"}, faults |-> {"error"}, passwords |-> 0]}
=============================================================================
