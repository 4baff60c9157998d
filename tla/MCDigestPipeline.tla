-------------------------- MODULE MCDigestPipeline --------------------------
(* Small instances of DigestPipeline for TLC. *)
EXTENDS DigestPipeline

CONSTANTS e1, e2, d1, d2, d3

OneEvent == {e1}
TwoEvents == {e1, e2}
TwoDeliveries == {d1, d2}
ThreeDeliveries == {d1, d2, d3}

\* Two requests with the same event: a client's retry.
RetryOf == [d \in TwoDeliveries |-> e1]
\* A retried event and another one.
RetryAndOther == [d \in ThreeDeliveries |-> IF d = d3 THEN e2 ELSE e1]
Nothing == {}
SecondEvent == {e2}
=============================================================================
