------------------------- MODULE MCAnalysisService -------------------------
(***************************************************************************)
(* An instance of AnalysisService for TLC: two documents of one file name  *)
(* that match equally well, a case whose second dataset expects more.      *)
(***************************************************************************)
EXTENDS AnalysisService, TLC

CONSTANTS h1, h2, d1, d2, c1, bearing, noise

OneName   == [d \in Doc |-> "manual.md"]
SomeWords == (d1 :> {bearing}) @@ (d2 :> {bearing, noise})

Heat(causes) == [query |-> {bearing}, refs |-> {d1}, causes |-> causes]
Cases        == (c1 :> <<Heat({{bearing}}), Heat({{bearing}, {noise}})>>)

Wear          == {bearing}
ModelAnswers  == {{{bearing, noise}}, {{noise}}}
Questions     == {[query |-> {bearing}, related |-> {}]}

\* A status the buttons do not send, the one they send only with a note, and each
\* other field alone.
Clients == {Patch("pending", FALSE, "keep"), Patch("completed", FALSE, "keep"),
            Patch("keep", TRUE, "keep"), Patch("keep", FALSE, "blank")}

Local  == [rag |-> "local", engine |-> "mock", lags |-> FALSE]
Lagged == [rag |-> "local", engine |-> "mock", lags |-> TRUE]
Cloud  == [rag |-> "bedrock", engine |-> "bedrock", lags |-> FALSE]
Three  == {Local, Lagged, Cloud}

Has(docs, g, cards) == [documents |-> docs, dataset |-> (c1 :> g), reviews |-> cards]
Tables == {Has(<<>>, 0, <<<<Pending>>>>), Has(<<d1, d2>>, 1, <<>>)}

Symmetry == Permutations(Handler)
=============================================================================
