--------------------------- MODULE MCMessagePipeline ---------------------------
(* Two senders and two configurators; one configures middleware around the    *)
(* built-in component, the other leaves it out.                               *)
EXTENDS MessagePipeline, TLC

CONSTANTS s1, s2, audit, cache, m1, m2

MCUses ==
  (audit :> <<m1, m2, Invoker>>) @@ (cache :> <<m2>>) @@ [s \in Senders |-> <<Invoker>>]

\* The senders send alike.
Interchangeable == Permutations({s1, s2})
=============================================================================
