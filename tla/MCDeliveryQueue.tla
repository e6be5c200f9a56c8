-------------------------- MODULE MCDeliveryQueue --------------------------
EXTENDS DeliveryQueue
\* 5 s, 25 s, 2 min, 10 min in units of 5 s.
MCBackoff == <<1, 5, 24, 120>>
=============================================================================
