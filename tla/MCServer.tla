------------------------------ MODULE MCServer ------------------------------
(***************************************************************************)
(* Small instances of the server.  Each cfg picks the connections that     *)
(* reach the question it asks.                                             *)
(***************************************************************************)
EXTENDS Server, TLC

CONSTANTS c1, c2, c3, s1, s2, unwritten

\* Two servants declare themselves while a client asks about all cities.
TwoServants ==
    c1 :> Declaration(s1) @@ c2 :> Declaration(s2) @@ c3 :> ClientRequest("ALL")

\* A client asks about a city that the servant declares, and a peer closes
\* without a word: any two of the three reach the server, in either order.
ServantClientSilent ==
    c1 :> Declaration(s1) @@ c2 :> ClientRequest("A") @@ c3 :> NoMessage

CitiesDeclared == s1 :> {"A"} @@ s2 :> {"A"}

JustJunk == {Junk}
JustZeroed == {ClientRequest("")}
=============================================================================
