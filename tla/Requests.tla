------------------------------ MODULE Requests ------------------------------
(***************************************************************************)
(* The requests that a page has in flight (XMLHttpRequest, $.ajax).        *)
(* Nothing orders them: they are a function from numbers to requests, and  *)
(* a request keeps its number until it is answered or lost.                *)
(***************************************************************************)
EXTENDS Integers, FiniteSets, Functions

NoRequests == [i \in {} |-> i]

Free(q) == CHOOSE n \in 1..(Cardinality(DOMAIN q) + 1) : n \notin DOMAIN q

\* One more request, under a number that is free.
With(q, new) ==
    [i \in DOMAIN q \cup {Free(q)} |-> IF i \in DOMAIN q THEN q[i] ELSE new]

Without(q, i) == Restrict(q, DOMAIN q \ {i})
=============================================================================
