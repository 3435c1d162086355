------------------------- MODULE MCResolverRegistry -------------------------
(***************************************************************************)
(* The instance of ResolverRegistry that TLC checks: two organisations,    *)
(* one of which has a wide and one a narrow bulkhead, and a reload that    *)
(* may give each the other's configuration.                                *)
(***************************************************************************)
EXTENDS ResolverRegistry, TLC

CONSTANTS acme, zed

Wide == [url |-> "u", maxConcurrency |-> 2, failureThreshold |-> 2, halfOpenProbes |-> 2]

\* Its halfOpenProbes are left out, which makes them 1.
Narrow == [url |-> "u", maxConcurrency |-> 1, failureThreshold |-> 1, halfOpenProbes |-> 0]

\* validate refuses it.
Refused == [Narrow EXCEPT !.maxConcurrency = -1]

MCBlocks == {Wide, Narrow, Refused}

WideAndNarrow == acme :> Wide @@ zed :> Normalize(Narrow)

FewFailures == acme :> 2 @@ zed :> 0
=============================================================================
