--------------------------- MODULE RetryingClient ---------------------------
(***************************************************************************)
(* retrying_client_invoke(): clients that call a server which is not yet   *)
(* there, goes away, or throws.  A call is performed by the server or not  *)
(* when its connection is lost; the client cannot tell.                    *)
(***************************************************************************)
EXTENDS Naturals

CONSTANTS
    Clients,
    attempt_num_max,
    MaxChanges      \* bound: how often the server starts or stops

RetryAssumption == attempt_num_max \in Nat \ {0} /\ MaxChanges \in Nat

VARIABLES
    pc,         \* where each client is
    attempts_performed,
    performed,  \* how often the server has performed the client's call
    up,         \* the server runs
    changes

vars == <<pc, attempts_performed, performed, up, changes>>

Goto(c, label) == pc' = [pc EXCEPT ![c] = label]

-----------------------------------------------------------------------------
(* The head of the loop, and what follows it: "Should never be reached." *)
LoopHead(c) ==
    /\ pc[c] = "head"
    /\ Goto(c, IF attempts_performed[c] <= attempt_num_max - 1 THEN "invoke" ELSE "runtime_error")
    /\ UNCHANGED <<attempts_performed, performed, up, changes>>

(* get_client(), and the invocation, which connects. *)
Invoke(c) ==
    /\ pc[c] = "invoke"
    /\ Goto(c, IF up THEN "calling" ELSE "caught")
    /\ UNCHANGED <<attempts_performed, performed, up, changes>>

(* The server performs the call, and answers with a value or what it threw. *)
Perform(c) ==
    /\ pc[c] = "calling" /\ up
    /\ performed' = [performed EXCEPT ![c] = @ + 1]
    /\ \E answer \in {"answered", "thrown"} : Goto(c, answer)
    /\ UNCHANGED <<attempts_performed, up, changes>>

(* The connection is lost before the answer is there. *)
Lost(c) ==
    /\ pc[c] \in {"calling", "answered", "thrown"} /\ ~up
    /\ Goto(c, "caught")
    /\ UNCHANGED <<attempts_performed, performed, up, changes>>

(* Mutant: every exception leads to another attempt. *)
AnsweredAny(c) ==
    /\ pc[c] \in {"answered", "thrown"} /\ up
    /\ Goto(c, IF pc[c] = "answered" THEN "returned" ELSE "caught")
    /\ UNCHANGED <<attempts_performed, performed, up, changes>>

(* ret is there, or an exception that is not about the connection. *)
Answered(c) ==
    /\ pc[c] \in {"answered", "thrown"} /\ up
    /\ Goto(c, IF pc[c] = "answered" THEN "returned" ELSE "raised")
    /\ UNCHANGED <<attempts_performed, performed, up, changes>>

(* The catch block, the sleep, and the next round. *)
Caught(c) ==
    /\ pc[c] = "caught"
    /\ IF attempts_performed[c] = attempt_num_max
         THEN Goto(c, "raised") /\ UNCHANGED attempts_performed
         ELSE /\ Goto(c, "head")
              /\ attempts_performed' = [attempts_performed EXCEPT ![c] = @ + 1]
    /\ UNCHANGED <<performed, up, changes>>

(* The server starts, stops or crashes. *)
Change ==
    /\ changes < MaxChanges /\ changes' = changes + 1
    /\ up' = ~up
    /\ UNCHANGED <<pc, attempts_performed, performed>>
-----------------------------------------------------------------------------
Init ==
    /\ pc = [c \in Clients |-> "head"]
    /\ attempts_performed = [c \in Clients |-> 1]
    /\ performed = [c \in Clients |-> 0]
    /\ up \in BOOLEAN /\ changes = 0

Run(c) == LoopHead(c) \/ Invoke(c) \/ Perform(c) \/ Lost(c) \/ Answered(c) \/ Caught(c)

Next == Change \/ \E c \in Clients : Run(c)

Spec == Init /\ [][Next]_vars

(* Clients run, and the server answers while it is up. *)
FairSpec == Spec /\ \A c \in Clients : WF_vars(Run(c))

-----------------------------------------------------------------------------
(* Properties *)

(* A call is performed again only after the server has gone away: what it  *)
(* threw is not a reason to try again (retrying-client-invoke.h:66-74).    *)
AgainOnlyIfLost == \A c \in Clients : performed[c] <= 1 + changes
=============================================================================
