---------------------------- MODULE MCReviewWorkspace --------------------------
EXTENDS ReviewWorkspace

(* Two comments on neighbouring frames and one further on.                  *)
MCStamp == [a |-> 2, b |-> 3, c |-> 7]

Setup(acts, link, loop, faults) == [acts |-> acts, link |-> link, loop |-> loop, faults |-> faults]
Watching == {"play", "seek", "select", "post"}

(* The second version is the shorter one.                                   *)
MCLength == [v1 |-> 4, v2 |-> 2]

(* Watching, with and without a loop or a link; comments and drawings with  *)
(* calls of the user and of others; and what else can happen.               *)
MCSetups == {
    Setup(Watching, None, <<>>, {}),
    Setup({"play", "seek", "select"}, None, <<1, 5>>, {}),
    Setup({"play", "seek", "select"}, "b", <<>>, {}),
    Setup({"select", "compare"}, None, <<>>, {}),
    Setup({"compare", "others"}, "a", <<>>, {}),
    Setup({"select", "draw", "post", "resolve", "delete", "others"}, None, <<>>, {}),
    Setup({"seek", "select", "resolve", "delete"}, None, <<>>, {"refusals"}),
    Setup({"seek", "select", "resolve", "others"}, "b", <<>>, {}),
    Setup({"play", "select", "post"}, None, <<>>, {"fast"}),
    Setup({"select", "draw", "resolve", "delete", "others"}, "a", <<>>, {"overlap", "refusals"})}
=============================================================================
