----------------------------- MODULE MCConsole ------------------------------
(* A small instance of Console for TLC.                                     *)
EXTENDS Console

(* loadModules, in its order.                                               *)
MCModules == <<"poweroff", "ps2dev9", "netman", "smap", "ps2ip", "udptty",
               "ioptrap", "ps2link">>
=============================================================================
