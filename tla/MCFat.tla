-------------------------------- MODULE MCFat --------------------------------
EXTENDS Fat, TLC
CONSTANTS a, b, h1, h2

Short == {a, b}
Two == {h1, h2}
OnlyLong == {b}
Sym == Permutations(Two)

Row(x, y) == <<x, y>>
Empty == [c \in Cluster |-> Row(END, END)]

\* A fresh volume, one with deleted entries, and one with a file of two
\* clusters and a deleted run that straddles the two clusters of the root.
Volumes ==
  { [fat |-> [c \in Cluster |-> IF c = 2 THEN EOC ELSE FREE], ent |-> Empty],
    [fat |-> [c \in Cluster |-> IF c = 2 THEN 3 ELSE IF c = 3 THEN EOC ELSE FREE],
     ent |-> [Empty EXCEPT ![2] = Row(DEL, DEL), ![3] = Row(DEL, DEL)]],
    [fat |-> [c \in Cluster |-> CASE c = 2 -> 4 [] c = 4 -> EOC [] c = 3 -> 5
                                  [] c = 5 -> EOC [] OTHER -> FREE],
     ent |-> [Empty EXCEPT ![2] = Row(Entry(a, FALSE, 3, 2), DEL), ![4] = Row(DEL, DEL)]] }
=============================================================================
