---------------------------- MODULE MCRetrieval -----------------------------
EXTENDS Retrieval

CONSTANTS a, b, c, x, y, s, d

\* Space x holds a; its subspace y holds b; c lies in a space whose name begins with x's.
MCWithin == [k \in {x, y} |-> IF k = x THEN {a, b} ELSE {b}]
MCPrefixed == [k \in {x, y} |-> IF k = x THEN {a, b, c} ELSE {b}]

R(mode, contexts, query, packet, unroll, bundle, types) ==
    [mode |-> mode, contexts |-> contexts, query |-> query, packet |-> packet,
     unroll |-> unroll, bundle |-> bundle, types |-> types]

\* Packets with and without a bundle, newest first, a plain search of two nested
\* spaces, an unrolled one, listings, and the memory created first.
MCRequests == {
    R("search", <<x>>, TRUE, TRUE, FALSE, FALSE, {}),
    R("latest", <<x>>, TRUE, TRUE, FALSE, TRUE, {s}),
    R("search", <<x, y>>, TRUE, FALSE, FALSE, FALSE, {s}),
    R("search", <<x>>, TRUE, FALSE, TRUE, FALSE, {s}),
    R("search", <<y, x>>, FALSE, FALSE, FALSE, TRUE, {}),
    R("latest", <<y, x>>, FALSE, FALSE, FALSE, FALSE, {}),
    R("first", <<x>>, FALSE, FALSE, FALSE, FALSE, {s}),
    R("first", <<x>>, TRUE, FALSE, FALSE, FALSE, {}) }

Rev(t, type) == [date |-> t, type |-> type]

MCStores == {
    [project |-> FALSE, created |-> [i \in {a, b, c} |-> 0],
     revs |-> [i \in {a, b, c} |-> <<>>], pub |-> [i \in {a, b, c} |-> 0]],
    [project |-> TRUE, created |-> [i \in {a, b, c} |-> IF i = a THEN 1 ELSE IF i = b THEN 3 ELSE 5],
     revs |-> [i \in {a, b, c} |-> IF i = a THEN <<Rev(2, s), Rev(7, s)>>
                                  ELSE IF i = b THEN <<Rev(4, d)>> ELSE <<Rev(6, s)>>],
     pub |-> [i \in {a, b, c} |-> IF i = b THEN 0 ELSE 1]],
    [project |-> TRUE, created |-> [i \in {a, b, c} |-> IF i = a THEN 3 ELSE IF i = b THEN 1 ELSE 0],
     revs |-> [i \in {a, b, c} |-> IF i = a THEN <<>> ELSE IF i = b THEN <<Rev(2, s), Rev(4, s)>> ELSE <<>>],
     pub |-> [i \in {a, b, c} |-> IF i = b THEN 2 ELSE 0]] }
=============================================================================
