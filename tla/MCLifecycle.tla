---------------------------- MODULE MCLifecycle ----------------------------
(* Two threads race init, finalize and operations.                         *)
EXTENDS Lifecycle

(* Every stage may fail, and every panic may happen.                       *)
MCAllFaults == Stages

(* Nothing fails except disconnecting.                                     *)
MCDisconnectFault == {"disconnect"}
=============================================================================
