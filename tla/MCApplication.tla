--------------------------- MODULE MCApplication ---------------------------
(* Instances of Application for TLC: a scan and the poll of the commands,   *)
(* every two seconds, which may last longer.                                 *)
EXTENDS Application

CONSTANTS scan, poll

MCInterval == (scan :> 2) @@ (poll :> 2)
MCUpdates == <<"restart">>
=============================================================================
