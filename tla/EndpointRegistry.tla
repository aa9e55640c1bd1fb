-------------------------- MODULE EndpointRegistry --------------------------
(***************************************************************************)
(* What the endpoint table of an rpmsg-lite instance promises: at most one *)
(* endpoint per address, a received message goes to the endpoint that is   *)
(* registered under its destination, or to nobody.                         *)
(***************************************************************************)
CONSTANTS Addrs, Endpoints, Nobody

VARIABLES registry,     \* address -> endpoint, for the addresses in use
          heard         \* the endpoint that got the last message, or Nobody

vars == <<registry, heard>>

Without(a) == [b \in DOMAIN registry \ {a} |-> registry[b]]

Init == /\ registry = [a \in {} |-> Nobody]
        /\ heard = Nobody

Register(a, e) == /\ a \notin DOMAIN registry
                  /\ \A b \in DOMAIN registry : registry[b] # e
                  /\ registry' = [b \in DOMAIN registry \union {a} |->
                                     IF b = a THEN e ELSE registry[b]]
                  /\ UNCHANGED heard

Unregister(a) == /\ a \in DOMAIN registry
                 /\ registry' = Without(a)
                 /\ UNCHANGED heard

Deliver(a) == /\ heard' = IF a \in DOMAIN registry THEN registry[a] ELSE Nobody
              /\ UNCHANGED registry

Next == \E a \in Addrs : \/ Unregister(a)
                         \/ Deliver(a)
                         \/ \E e \in Endpoints : Register(a, e)

Spec == Init /\ [][Next]_vars
=============================================================================
