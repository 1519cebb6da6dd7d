--------------------------- MODULE MCGraphStore ---------------------------
(* TLC instance of GraphStore: three items over two spaces.                *)
EXTENDS GraphStore, TLC

CONSTANTS a, b, c, s1, s2

MCSpaceOf == a :> s1 @@ b :> s1 @@ c :> s2
===========================================================================
