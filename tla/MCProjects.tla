----------------------------- MODULE MCProjects -----------------------------
EXTENDS Projects

\* A project, and a space below it, and the space with a slash too many; another project.
MCParents ==
    {<<<<"p">>>>, <<<<"p">>, <<"s">>>>, <<<<"p">>, <<"s">>, <<"">>>>, <<<<"q">>>>}

MCItemNames == {<<"a", "b">>}

MCNone == <<>>

MCLower == "k" :> "k" @@ "bundle" :> "bundle" @@ "Bundle" :> "bundle"
=============================================================================
