----------------------------- MODULE MCRevisions -----------------------------
EXTENDS Revisions

MCNumerals == "0" :> 0 @@ "01" :> 1 @@ "1" :> 1 @@ "2" :> 2 @@ "9" :> 9

MCCutAtEq == "published" :> "published" @@ "latest" :> "latest" @@ "published=y" :> "published"

P(k, v) == [key |-> k, eq |-> TRUE, value |-> v]

\* One query for each way a reference selects, and for each way to get it wrong.
MCQueries ==
    {<<>>, <<P("r", "1")>>, <<P("r", "2")>>, <<P("r", "latest")>>, <<P("t", "latest")>>,
     <<P("t", "published")>>,
     <<P("r", "2"), P("a", "m")>>, <<P("t", "published"), P("a", "m")>>, <<P("a", "m"), P("r", "2")>>,
     <<P("t", "published=y")>>, <<P("tag", "published")>>, <<P("r", "1"), P("t", "published")>>, <<P("r", "01")>>,
     <<P("r", "9")>>, <<P("r", "0")>>, <<P("a", "m")>>, <<P("time", "soon")>>,
     <<[key |-> "r", eq |-> FALSE, value |-> Nothing]>>}

MCToolQueries == {<<>>, <<P("r", "1")>>, <<P("t", "published")>>}
===========================================================================
