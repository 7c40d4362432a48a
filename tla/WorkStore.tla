------------------------------ MODULE WorkStore ------------------------------
(***************************************************************************)
(* What an InputQueue promises to the schedulers, whatever it does with    *)
(* users, mutexes and iterators: a package added is kept until it is       *)
(* retrieved, is retrieved once, and the worker, once told that there is   *)
(* work, gets a package.                                                   *)
(***************************************************************************)
CONSTANTS Packages, NoPackage

VARIABLES
    store,      \* packages added and not yet retrieved
    sawWork,    \* the worker was told that there is work and has not retrieved
    held        \* the package the worker retrieved and is not done with

storeVars == <<store, sawWork, held>>

Init == store = {} /\ sawWork = FALSE /\ held = NoPackage

Add(p) == 
    /\ p \notin store \union {held}
    /\ store' = store \union {p}
    /\ UNCHANGED <<sawWork, held>>

(* is_empty(), asked by the worker *)
Ask == 
    /\ held = NoPackage
    /\ sawWork' = (store # {})
    /\ UNCHANGED <<store, held>>

(* The worker commits itself to retrieve what it was told of, ... *)
Commit == 
    /\ sawWork
    /\ sawWork' = FALSE
    /\ UNCHANGED <<store, held>>

(* ... and takes a package. *)
Take(p) == 
    /\ ~sawWork
    /\ held = NoPackage
    /\ p \in store
    /\ store' = store \ {p}
    /\ held' = p
    /\ UNCHANGED sawWork

(* The worker is done with the package: delivered, or given up to be added *)
(* again.                                                                  *)
Release == 
    /\ held # NoPackage
    /\ held' = NoPackage
    /\ UNCHANGED <<store, sawWork>>

Next == 
    \/ \E p \in Packages : Add(p) \/ Take(p)
    \/ Ask \/ Commit \/ Release

Spec == Init /\ [][Next]_storeVars
=============================================================================
