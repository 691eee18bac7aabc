----------------------------- MODULE MCDelivery -----------------------------
(* Two opportunities and two destinations; the first cannot be sent. *)
EXTENDS Delivery

CONSTANTS o1, o2, chat, log

MCDestinations == <<chat, log>>
MCOneDestination == <<chat>>
=============================================================================
