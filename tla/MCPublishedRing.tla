-------------------------- MODULE MCPublishedRing --------------------------
(* PublishedRing for TLC: a small ring and a consumer that polls. *)
EXTENDS PublishedRing

PollingSpec == Spec /\ PollingConsumer
=============================================================================
