------------------------- MODULE MCWebhookDelivery ---------------------------
(* Model of WebhookDelivery for TLC: two subscribers with a delivery each,    *)
(* and one delivery for a name that is not registered.                       *)
EXTENDS WebhookDelivery, TLC

CONSTANTS s1, s2, s3, d1, d2, d3

SubscriberOfSmall == (d1 :> s1) @@ (d2 :> s2) @@ (d3 :> s3)
=============================================================================
