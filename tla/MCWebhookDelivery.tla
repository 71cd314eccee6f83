-------------------------- MODULE MCWebhookDelivery --------------------------
(* Small instances of WebhookDelivery for TLC. *)
EXTENDS WebhookDelivery, TLC

CONSTANTS e1, d1, d2, r1

\* Event e1 has two matching endpoints; r1 replays the first delivery.
OneEventTwoEndpoints == d1 :> e1 @@ d2 :> e1
ReplayOfFirst == r1 :> d1
=============================================================================
