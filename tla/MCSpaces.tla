------------------------------ MODULE MCSpaces ------------------------------
EXTENDS Spaces

Threads == Permutations(Calls)

\* Three names of one stem and one of another; one of them has a space below.
MCStem == <<1, 1, 1, 4>>

\* Two variants, one of them with a space inside.
MCPaths == {<<1>>, <<2>>, <<1, 4>>}
===========================================================================
