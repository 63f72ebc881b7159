------------------------------ MODULE Requests ------------------------------
(***************************************************************************)
(* Requests of a page under way, a bag: a handler sends them without       *)
(* looking whether an equal one is under way, and the browser answers them *)
(* in any order.                                                           *)
(***************************************************************************)
EXTENDS Naturals, FiniteSets, Bags

One(request) == SetToBag({request})

\* How many there are, equal ones counted apart.
Copies(requests) == UNION {{q} \X (1 .. requests[q]) : q \in DOMAIN requests}
UnderWay(requests) == Cardinality(Copies(requests))
=============================================================================
