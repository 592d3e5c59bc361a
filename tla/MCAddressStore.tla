--------------------------- MODULE MCAddressStore ---------------------------
(***************************************************************************)
(* Instances of AddressStore for TLC.                                      *)
(***************************************************************************)
EXTENDS AddressStore, TLC

CONSTANTS n1, n2, p1, p2, t1, t2, t3

\* Two goroutines share an instance, and its cache, and one runs in another
TwoAndOne == (t1 :> p1) @@ (t2 :> p1) @@ (t3 :> p2)

\* Lists from which entries were removed by hand, so that
\* the first position the code tries is taken
GapStores ==
    {[ver |-> 5, entries |-> (n2 :> k) @@ Absent.entries, list |-> <<k>>] :
        k \in 1 .. 3}

\* The goroutines of one instance are interchangeable
Symmetry == Permutations({t1, t2})
=============================================================================
