--------------------------- MODULE MCAlertDelivery ---------------------------
(* Small instances of AlertDelivery for TLC. *)
EXTENDS AlertDelivery

CONSTANTS r1, r2, r3, e1, e2, c1, c2, c3

OneDigest == {r1}
ThreeDigests == {r1, r2, r3}
OneChannel == {c1}
ThreeChannels == {c1, c2, c3}

\* One event digested twice, and another.
TwiceAndOther == [r \in ThreeDigests |-> IF r = r3 THEN e2 ELSE e1]
OneEvent == [r \in OneDigest |-> e1]

\* retry_delay doubles: two, then four times the client's timeout.
Doubling == [n \in 1..MaxAttempts |-> 2 * n]
=============================================================================
