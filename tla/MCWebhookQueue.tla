--------------------------- MODULE MCWebhookQueue ---------------------------
(* The instances of WebhookQueue that TLC checks. *)
EXTENDS WebhookQueue

\* BACKOFF_SECONDS of the code.
CodeBackoff == <<1, 2, 4, 8, 16>>
=============================================================================
