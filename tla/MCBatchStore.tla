---------------------------- MODULE MCBatchStore ----------------------------
EXTENDS BatchStore

Revising(i, text) ==
    [revises |-> TRUE, item |-> i, publish |-> FALSE, text |-> text, type |-> "fact"]

New(i, publish, text) ==
    [revises |-> FALSE, item |-> i, publish |-> publish, text |-> text, type |-> "fact"]

MCItems == 1..4

\* Two corrections of one memory around a capture that may stack onto it, and a
\* refused one in front: rows and captures are numbered apart, and three rows at two
\* per call make two chunks.
MCBatch == <<New(2, FALSE, "news"), Revising(1, "sum"), New(2, TRUE, "plan"),
             Revising(1, "plans")>>

MCRefused == {1}

MCTexts == {"plan", "plans", "sum", "news"}

\* "sum" is what nothing else says.
MCAlike == {{"plan"}, {"plan", "plans"}, {"plans"}}

\* The third item's space merely starts like the one that is addressed.
MCSpace == <<<<"work", "a">>, <<"work">>, <<"workshop">>, <<"work">>>>

MCOlder == [i \in MCItems |-> [text |-> IF i = 4 THEN "news" ELSE "plans", type |-> "fact"]]

\* Near enough to the first item if the types agree; near the last one, in words that
\* have little in common.
MCScore == [c \in 1..4 |-> <<"middle", "weak", "strong", "strong">>]
===========================================================================
