-------------------------- MODULE MCEntityExtraction --------------------------
EXTENDS EntityExtraction

CONSTANTS x, y, f1, f2
MCNames == {x, y}
\* A chapter that the book does not have.
MCStrays == {3}
MCIdentifiers == {f1, f2}
\* The first book of a series, and a later one.
MCContinued == {<<>>, <<[names |-> {x}, ident |-> f1]>>}
=============================================================================
