---------------------------- MODULE MCSharedLog ----------------------------
(* Values of SharedLog's constants for TLC: two processes, one with two    *)
(* threads.                                                                *)
EXTENDS SharedLog

MCProcess == [t1 |-> "p", t2 |-> "p", u1 |-> "q"]
MCThreads == DOMAIN MCProcess
MCProcesses == {"p", "q"}
=============================================================================
