------------------------- MODULE MCEntitySelection --------------------------
\* Three places, as many as a hub, a locale in it and another hub need; two
\* characters, so that a list has an order.
EXTENDS EntitySelection, TLC

CONSTANTS p1, p2, p3, c1, c2
MCPlaces == {p1, p2, p3}
MCCharacters == {c1, c2}

\* No definition tells one place from another, or one character from another.
Interchangeable == Permutations(MCPlaces) \cup Permutations(MCCharacters)
=============================================================================
