----------------------------- MODULE MCNotifier -----------------------------
(* TLC instances of Notifier.  Its batteries and notifications are not       *)
(* declared symmetric, as liveness is checked of them.                       *)
EXTENDS NotifierProperties
=============================================================================
