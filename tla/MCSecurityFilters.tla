------------------------- MODULE MCSecurityFilters -------------------------
(* SecurityFilters for TLC: a request of every kind the filters tell       *)
(* apart.                                                                  *)
EXTENDS SecurityFilters, TLC

CONSTANTS c1, c2, inside, junk

Plain == [path |-> "other", forwarded |-> None, real |-> None, host |-> c1,
          method |-> "POST", size |-> 0, marks |-> {}, inBody |-> {}]

MCQueries ==
    {Plain, [Plain EXCEPT !.path = "health"], [Plain EXCEPT !.forwarded = c2],
     [Plain EXCEPT !.real = inside], [Plain EXCEPT !.host = junk],
     [Plain EXCEPT !.size = 2], [Plain EXCEPT !.marks = {"oversized_url"}],
     [Plain EXCEPT !.inBody = {"xss_attempt"}]}

(* Requests are interchangeable.                                           *)
Symmetry == Permutations(Requests)
=============================================================================
