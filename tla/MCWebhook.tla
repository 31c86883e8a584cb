------------------------------ MODULE MCWebhook ------------------------------
(* Small instances of WebhookDispatch for TLC. *)
EXTENDS WebhookDispatch, TLC

\* Events, and handlers, are interchangeable.
Alike == Permutations(Event) \union Permutations(Handler)

=============================================================================
