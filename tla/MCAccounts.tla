----------------------------- MODULE MCAccounts -----------------------------
\* Instance of Accounts for TLC: two addresses whose slugs
\* collide, and the moments .0, .5 and .6 of a second.
EXTENDS Accounts, TLC
CONSTANTS e1, e2, h1, h2, admin, o1, o2
Rank == [m \in 0 .. 2 |-> CASE m = 0 -> 2 [] m = 1 -> 0 [] m = 2 -> 1]
SameSlug == [e \in Emails |-> o1]
Sym == Permutations(Handlers) \cup Permutations(Emails)
=============================================================================
