------------------------------ MODULE MCRuntime ------------------------------
\* Two sessions with a plan each for one file, and a plan of the first session
\* for both files.
EXTENDS Runtime, TLC

CONSTANTS s1, s2, fa, fb

MCSessionOf == "one" :> s1 @@ "two" :> s2
MCFilesOf == "one" :> {fa, fb} @@ "two" :> {fb}
MCPriority == "one" :> 1 @@ "two" :> 0
MCMaxFiles == "development" :> 3 @@ "ci" :> 2 @@ "readonly" :> 0
=============================================================================
