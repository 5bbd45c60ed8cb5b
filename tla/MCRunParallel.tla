---------------------------- MODULE MCRunParallel ----------------------------
(* Instances of RunParallel for TLC.                                       *)
EXTENDS RunParallel

AllFunctions == {}

(* Who may leave a process behind.                                         *)
Nobody == {}
First == {0}

(* SIGCHLD at its default.                                                 *)
NotIgnored == {FALSE}

=============================================================================
