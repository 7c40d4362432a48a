------------------------ MODULE WorkerThreadReinitMC ------------------------
(* Instances of WorkerThreadReinit for TLC: what each client calls. *)
EXTENDS WorkerThreadReinit

CONSTANTS s1, s2, first, second, other, a, d

Call(op, x) == [op |-> op, arg |-> x]
Upload(id) == <<Call("notify", id), Call("pending", id), Call("upload", id)>>

Scripts ==
    [c \in Connections |->
        CASE c = first  -> <<Call("submit", 1)>> \o Upload(a)
          [] c = second -> <<Call("submit", 2)>>
          [] c = other  -> <<Call("submit", -1)>> \o Upload(d) \o <<Call("submit", -1)>>]

(* The second session has one connection. *)
Owner == [c \in Connections |-> IF c = other THEN s2 ELSE s1]
=============================================================================
