---------------------------- MODULE MCConnection ----------------------------
(* Instances of Connection for TLC; the bounds are in the configurations. *)
EXTENDS Connection

Get      == <<Line("GET"), Line("end")>>
GetClose == <<Line("GET"), Header("Connection", CLOSE), Line("end")>>
GetKeep  == <<Line("GET"), Header("connection", KEEP), Line("end")>>
Junk     == <<Line("junk"), Line("end")>>
Post(n)  == <<Line("POST"), Header("Content-Length", n), Line("end")>>
              \o [i \in 1 .. n |-> Line("b")]
PostClose == <<Line("POST"), Header("Connection", CLOSE), Header("content-length", 1),
               Line("end"), Line("b")>>

\* Requests that fit into the buffer of the configuration.
ProperRequests == {Get, GetClose, GetKeep, Junk, Post(-1), Post(0), Post(1), Post(2), PostClose}

ASSUME RequestsAreOrderly ==
    \A r \in ProperRequests : Orderly(r) /\ Once(r, {"GET", "POST"})

OnePost     == {Post(2)}

=============================================================================
