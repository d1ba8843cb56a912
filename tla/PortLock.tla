------------------------------ MODULE PortLock ------------------------------
(***************************************************************************)
(* What asynDriver.rst promises of the ways to get a port: while a client  *)
(* has locked it, or a callback of a queued request runs, "other code ...  *)
(* will be delayed".                                                       *)
(***************************************************************************)
CONSTANT Clients
VARIABLE holders

Init == holders = {}

Acquire(c) == holders = {} /\ holders' = {c}
Release(c) == c \in holders /\ holders' = {}

Next == \E c \in Clients : Acquire(c) \/ Release(c)
Spec == Init /\ [][Next]_holders
=============================================================================
