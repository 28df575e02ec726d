-------------------------- MODULE MCRenderThreads --------------------------
(* The instance of RenderThreads that TLC checks. *)
EXTENDS RenderThreads, TLC

CONSTANTS g1, g2

\* The first shows frames and can fill its queue; the second waits for an answer.
MCRequests == g1 :> <<"post", "cast", "cast">> @@ g2 :> <<"call">>
=============================================================================
