---------------------------- MODULE AddressBook ----------------------------
(***************************************************************************)
(* What getUniqueAddress (admiral/pkg/clusters/serviceentry.go) promises:  *)
(* one book of addresses in which every service entry gets at most one     *)
(* address, for ever, no address is given twice, and every answer is read  *)
(* from the book.  No configmap, no caches, no pods, no failures.          *)
(***************************************************************************)
EXTENDS Naturals

CONSTANT Names      \* service entry names

VARIABLES
    book,           \* the address of each service entry, 0 if it has none yet
    answers         \* the addresses that callers have been told

bookVars == <<book, answers>>

Injective == \A m, n \in Names : book[m] # 0 /\ book[m] = book[n] => m = n

Init ==
    /\ book \in [Names -> Nat] /\ Injective
    /\ answers = {}

\* A service entry without an address gets one that nobody has
Enter(n) ==
    /\ book[n] = 0 /\ book'[n] \in Nat \ {0}
    /\ \A m \in Names : book[m] # book'[n]
    /\ book' = [book EXCEPT ![n] = book'[n]]
    /\ UNCHANGED answers

\* A caller is told the address of a service entry
Answer(n) ==
    /\ book[n] # 0
    /\ answers' = answers \cup {[name |-> n, addr |-> book[n]]}
    /\ UNCHANGED book

Next == \E n \in Names : Enter(n) \/ Answer(n)

Spec == Init /\ [][Next]_bookVars
=============================================================================
