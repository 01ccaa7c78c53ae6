---------------------------- MODULE MCSetArbitrage -----------------------------
(* A set of two legs; every uncrossed book with up to two levels a side.      *)
EXTENDS SetArbitrage, TLC

CONSTANTS leg1, leg2, half

Level(p, s) == [price |-> p, size |-> s]
Ladders(P) == {<<>>} \cup {<<Level(p, 2)>> : p \in P}
           \cup {<<Level(p, 1), Level(q, 1)>> : p \in P, q \in P}
Crossed(book) == \E i \in DOMAIN book.yes, j \in DOMAIN book.no :
                    book.yes[i].price + book.no[j].price > 100

MCListed == [series \in {half} |-> [maker |-> 1, taker |-> 1]]
MCLegBooks == {book \in [yes : Ladders({45, 54, 58}), no : Ladders({1, 54, 58})] : ~Crossed(book)}
===============================================================================
