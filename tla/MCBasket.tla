------------------------------ MODULE MCBasket ------------------------------
(* Bounds of the TLC runs of Basket.                                       *)
EXTENDS Basket, TLC

CONSTANTS p1, p2, pUnknown, c1

RequestSymmetry == Permutations(Requests)

Line(i, p, q) == [id |-> i, product |-> p, quantity |-> q]
Update(i, q)  == [id |-> i, quantity |-> q]

\* One line, two products at once, a product twice, a line without an id, a
\* product the catalog does not know, and no line.
MCBodies == {<<Line(c1, p1, 2)>>, <<Line(c1, p1, 1), Line(c1, p2, 3)>>,
             <<Line(c1, p2, 1), Line(None, p2, 3)>>, <<Line(None, p1, 5)>>,
             <<Line(c1, p1, 2), Line(c1, pUnknown, 1)>>,
             <<Line(c1, pUnknown, 1)>>, << >>}

\* The line a request added, or the one of a client's choice; twice in a body.
MCUpdates == {<<Update(i, q)>> : i \in Requests, q \in {0, 4}}
             \cup {<<Update(c1, 4)>>, << >>}
             \cup {<<Update(i, 4), Update(i, 6)>> : i \in Requests}

\* A line with an id, one without, and one that is not valid.
MCPosted == {{Line(c1, p2, 7)}, {Line(None, p1, 1)}, {Line(c1, p1, 0)}}
=============================================================================
