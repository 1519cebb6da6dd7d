----------------------------- MODULE MCSessions ------------------------------
EXTENDS Sessions, TLC

CONSTANTS t1, t2, u1, u2, h1, c1, c2

Symmetry == Permutations({t1, t2})

\* Both users are members of c2, which the hint names; c1 is the first one's own.
MCServes == [u \in {u1, u2} |-> [k \in {h1, NoHint} |->
                IF k = NoHint /\ u = u1 THEN c1 ELSE c2]]

\* No login; u1 has logged in; on that machine u2's token is in the environment.
MCLogins == {[env |-> NoUser, file |-> NoUser], [env |-> NoUser, file |-> u1],
             [env |-> u2, file |-> u1]}
=============================================================================
