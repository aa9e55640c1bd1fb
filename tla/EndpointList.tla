---------------------------- MODULE EndpointList ----------------------------
(***************************************************************************)
(* The list of endpoints of one rpmsg-lite instance, as the main program   *)
(* changes it (rpmsg_lite_create_ept, rpmsg_lite_destroy_ept, rpmsg_ns_bind*)
(* and rpmsg_ns_unbind, with add_to_list and remove_from_list of llist.c)  *)
(* and as rpmsg_lite_rx_callback walks it in the receive interrupt.  The   *)
(* bare-metal env_lock_mutex does nothing, so the interrupt may come       *)
(* between any two stores.  Stores that the walk cannot see (prev, and the *)
(* fields of a node that is not linked) are joined to the one that follows.*)
(*                                                                         *)
(* Memory comes from the heap: a block holds junk until it is written, and *)
(* again once it is freed.                                                 *)
(***************************************************************************)
EXTENDS Naturals, FiniteSets

CONSTANTS Nodes,        \* struct llist blocks the heap can hand out
          Epts,         \* struct rpmsg_lite_endpoint blocks
          MaxAddr,      \* addresses are 1 .. MaxAddr
          NsAddr,       \* RL_NS_EPT_ADDR
          AddrAny,         \* RL_ADDR_ANY
          Binders,      \* parts of the application that bind the name service
          Null, Junk,   \* RL_NULL, and a word that is no node's address
          Lost,         \* the walk left the list
          NoHandle,     \* a binder that holds no handle
          QuietFirst    \* nothing arrives while the first endpoint is added

Addrs == 1 .. MaxAddr

ASSUME AddrAssumption == MaxAddr \in Nat /\ NsAddr \in Addrs
ASSUME QuietAssumption == QuietFirst \in BOOLEAN

App == "app"                       \* the caller is the application itself

\* The heap is finite; a block is neither NULL nor junk; the caller is told
\* apart from a binder, a handle from none.
ASSUME HeapAssumption == IsFiniteSet(Nodes) /\ IsFiniteSet(Epts)
ASSUME ApartAssumption ==
    /\ {Null, Junk, Lost} \intersect Nodes = {} /\ Null # Junk /\ Null # Lost
    /\ {Null, Junk, NoHandle} \intersect Epts = {} /\ Null # NoHandle
    /\ App \notin Binders

VARIABLES head, next, prev, data,  \* rl_endpoints and the fields of the nodes
          addr, cbData,            \* fields of the endpoints
          nodes, epts,             \* the blocks that are allocated
          made,                    \* endpoints the application holds
          ctx,                     \* binders whose rpmsg_ns_context is allocated
          handle,                  \* what rpmsg_ns_bind returned: handle->ept
          pc, node, ept, by,       \* the call in progress, its locals, its caller
          heard                    \* who got the last message

list == <<head, next, prev, data>>
heap == <<addr, cbData, nodes, epts>>
app == <<made, ctx, handle>>
call == <<pc, node, ept, by>>
listVars == <<list, heap, app, call, heard>>

ListTypeOK ==
    /\ head \in Nodes \union {Null, Junk}
    /\ next \in [Nodes -> Nodes \union {Null, Junk}]
    /\ prev \in [Nodes -> Nodes \union {Null, Junk}]
    /\ data \in [Nodes -> Epts \union {Junk}]
    /\ addr \in [Epts -> Addrs \union {Junk}]
    /\ cbData \in [Epts -> Binders \union {App, Junk}]
    /\ nodes \subseteq Nodes /\ epts \subseteq Epts
    /\ made \subseteq epts
    /\ ctx \subseteq Binders
    /\ handle \in [Binders -> Epts \union {Null, NoHandle}]
    /\ pc \in {"idle", "link", "publish", "publish_first", "clear", "unlink", "free", "free_ctx"}
    /\ node \in Nodes \union {Null} /\ ept \in Epts \union {Null}
    /\ by \in Binders \union {App}
    /\ heard \in Epts \union {Null, Lost}

ListInit ==
    /\ head = Null
    /\ next = [n \in Nodes |-> Junk] /\ prev = [n \in Nodes |-> Junk]
    /\ data = [n \in Nodes |-> Junk]
    /\ addr = [e \in Epts |-> Junk] /\ cbData = [e \in Epts |-> Junk]
    /\ nodes = {} /\ epts = {} /\ made = {}
    /\ ctx = {} /\ handle = [b \in Binders |-> NoHandle]
    /\ pc = "idle" /\ node = Null /\ ept = Null /\ by = App
    /\ heard = Null

(***************************************************************************)
(* rpmsg_lite_get_endpoint_from_addr: the nodes the walk visits, the node  *)
(* it returns.                                                             *)
(***************************************************************************)
Visit[i \in Nat] ==
    IF i = 0 THEN head
    ELSE LET n == Visit[i - 1] IN IF n \in nodes THEN next[n] ELSE n

Matches(n, a) == n \in nodes /\ data[n] \in epts /\ addr[data[n]] = a

\* At the first node that matches, at the end of the list, or outside it.
Lookup(a) ==
    LET Steps == 0 .. Cardinality(Nodes)
        Hits == {i \in Steps : Matches(Visit[i], a)}
    IN IF Hits # {} THEN Visit[CHOOSE i \in Hits : \A j \in Hits : i <= j]
       ELSE IF Visit[Cardinality(Nodes)] = Null THEN Null ELSE Lost

LowestFree == CHOOSE a \in Addrs : /\ Lookup(a) = Null
                                   /\ \A b \in Addrs : b < a => Lookup(b) # Null

(***************************************************************************)
(* Creating.  `who' is App or a binder: rpmsg_ns_bind stores what          *)
(* rpmsg_lite_create_ept returned, whatever it is.                         *)
(***************************************************************************)
Return(who, e) ==
    /\ handle' = IF who \in Binders THEN [handle EXCEPT ![who] = e] ELSE handle
    /\ made' = IF e = Null THEN made ELSE made \union {e}
    /\ pc' = "idle" /\ node' = Null /\ ept' = Null /\ by' = App

\* The blocks are filled in; add_to_list decides by the head.
Fill(who, a, e, n) ==
    /\ epts' = epts \union {e} /\ nodes' = nodes \union {n}
    /\ addr' = [addr EXCEPT ![e] = a] /\ cbData' = [cbData EXCEPT ![e] = who]
    /\ data' = [data EXCEPT ![n] = e]
    /\ pc' = IF head # Null THEN "link" ELSE "publish_first"
    /\ node' = n /\ ept' = e /\ by' = who
    /\ UNCHANGED <<head, next, prev, made, handle>>

NothingMade(who) == Return(who, Null) /\ UNCHANGED <<list, addr, cbData, nodes>>

LoseNode(who, a, e) == NothingMade(who) /\ UNCHANGED epts

CreateEpt(who, a) ==
    /\ UNCHANGED heard
    /\ \/ /\ Lookup(a) # Null                      \* already exists
          /\ NothingMade(who) /\ UNCHANGED epts
       \/ /\ Lookup(a) = Null                      \* the heap refuses the endpoint
          /\ NothingMade(who) /\ UNCHANGED epts
       \/ /\ Lookup(a) = Null                      \* it refuses the node
          /\ \E e \in Epts \ epts : LoseNode(who, a, e)
       \/ /\ Lookup(a) = Null
          /\ \E e \in Epts \ epts, n \in Nodes \ nodes : Fill(who, a, e, n)

AppCreates(request) ==
    /\ pc = "idle"
    /\ request = AddrAny => \E a \in Addrs : Lookup(a) = Null
    /\ CreateEpt(App, IF request = AddrAny THEN LowestFree ELSE request)
    /\ UNCHANGED ctx

\* rpmsg_ns_bind; when one of its own two blocks is refused nothing changes.
NsBind(b) == /\ pc = "idle" /\ handle[b] = NoHandle
             /\ ctx' = ctx \union {b}
             /\ CreateEpt(b, NsAddr)

\* Broken variant: add_to_list without the store to the old head's prev.
LinkForward == /\ pc = "link"
               /\ next' = [next EXCEPT ![node] = head]
               /\ prev' = [prev EXCEPT ![node] = Null]
               /\ pc' = "publish"
               /\ UNCHANGED <<head, data, heap, app, node, ept, by, heard>>

\* add_to_list, the list has nodes
Link == /\ pc = "link"
        /\ next' = [next EXCEPT ![node] = head]
        /\ prev' = [prev EXCEPT ![node] = Null, ![head] = node]
        /\ pc' = "publish"
        /\ UNCHANGED <<head, data, heap, app, node, ept, by, heard>>

Publish == /\ pc = "publish"
           /\ head' = node
           /\ Return(by, ept)
           /\ UNCHANGED <<next, prev, data, heap, ctx, heard>>

\* add_to_list, the list is empty: the head first
PublishFirst == /\ pc = "publish_first"
                /\ head' = node
                /\ pc' = "clear"
                /\ UNCHANGED <<next, prev, data, heap, app, node, ept, by, heard>>

Clear == /\ pc = "clear"
         /\ next' = [next EXCEPT ![head] = Null]
         /\ prev' = [prev EXCEPT ![head] = Null]
         /\ Return(by, ept)
         /\ UNCHANGED <<head, data, heap, ctx, heard>>

(***************************************************************************)
(* Destroying.                                                             *)
(***************************************************************************)

Destroy(who, e) == /\ pc' = "unlink"
                   /\ node' = Lookup(addr[e]) /\ ept' = e /\ by' = who
                   /\ made' = made \ {e}
                   /\ UNCHANGED <<list, heap, ctx, handle, heard>>

AppDestroys(e) == /\ pc = "idle" /\ e \in made /\ cbData[e] = App
                  /\ Destroy(App, e)

\* Broken variant: the context freed before the endpoint that points to it.
NsUnbindEarly(b) ==
    /\ pc = "idle" /\ handle[b] # NoHandle /\ handle[b] # Null
    /\ pc' = "unlink" /\ node' = Lookup(NsAddr) /\ ept' = handle[b] /\ by' = App
    /\ made' = made \ {handle[b]} /\ ctx' = ctx \ {b}
    /\ handle' = [handle EXCEPT ![b] = NoHandle]
    /\ UNCHANGED <<list, heap, heard>>

\* rpmsg_ns_unbind: a handle without an endpoint makes destroy_ept return early.
NsUnbind(b) ==
    /\ pc = "idle" /\ handle[b] # NoHandle
    /\ IF handle[b] # Null THEN Destroy(b, handle[b])
       ELSE /\ pc' = "free_ctx" /\ by' = b
            /\ UNCHANGED <<list, heap, app, node, ept, heard>>

\* remove_from_list
Unlink == /\ pc = "unlink"
          /\ IF node = head
             THEN head' = next[head] /\ UNCHANGED <<next, prev>>
             ELSE /\ UNCHANGED head
                  /\ next' = [next EXCEPT ![prev[node]] = next[node]]
                  /\ prev' = IF next[node] = Null THEN prev
                             ELSE [prev EXCEPT ![next[node]] = prev[node]]
          /\ pc' = "free"
          /\ UNCHANGED <<data, heap, app, node, ept, by, heard>>

Free == /\ pc = "free"
        /\ nodes' = nodes \ {node} /\ epts' = epts \ {ept}
        /\ next' = [next EXCEPT ![node] = Junk] /\ prev' = [prev EXCEPT ![node] = Junk]
        /\ data' = [data EXCEPT ![node] = Junk]
        /\ addr' = [addr EXCEPT ![ept] = Junk] /\ cbData' = [cbData EXCEPT ![ept] = Junk]
        /\ node' = Null /\ ept' = Null
        /\ pc' = IF by = App THEN "idle" ELSE "free_ctx"
        /\ UNCHANGED <<head, app, by, heard>>

FreeCtx == /\ pc = "free_ctx"
           /\ ctx' = ctx \ {by}
           /\ handle' = [handle EXCEPT ![by] = NoHandle]
           /\ pc' = "idle" /\ by' = App
           /\ UNCHANGED <<list, heap, made, node, ept, heard>>

(***************************************************************************)
(* The receive interrupt: one message for address a.                       *)
(***************************************************************************)
Message(a) == /\ QuietFirst => pc # "clear"
              /\ LET n == Lookup(a)
                 IN heard' = IF n \in Nodes THEN data[n] ELSE n
              /\ UNCHANGED <<list, heap, app, call>>

ListNext == \/ \E a \in Addrs \union {AddrAny} : AppCreates(a)
            \/ \E a \in Addrs : Message(a)
            \/ \E b \in Binders : NsBind(b) \/ NsUnbind(b)
            \/ \E e \in Epts : AppDestroys(e)
            \/ Link \/ Publish \/ PublishFirst \/ Clear
            \/ Unlink \/ Free \/ FreeCtx

ListSpec == ListInit /\ [][ListNext]_listVars

-----------------------------------------------------------------------------
(***************************************************************************)
(* Properties                                                              *)
(***************************************************************************)
\* The endpoints an interrupt may find: those the application holds, one
\* that is being added to an empty list, one that is about to be taken out.
Linked == made \union (IF pc \in {"clear", "unlink"} THEN {ept} ELSE {})

RegistryNow == [a \in {addr[e] : e \in Linked} |->
                   CHOOSE e \in Linked : addr[e] = a]

Registry == INSTANCE EndpointRegistry
              WITH Addrs <- Addrs, Endpoints <- Epts, Nobody <- Null,
                   registry <- RegistryNow

\* Whatever stores of create_ept and destroy_ept an interrupt comes between,
\* the walk of rpmsg_lite_rx_callback finds the endpoint that is registered
\* under the message's address, and nobody when there is none: linking and
\* unlinking take effect in one store each and disturb no other endpoint.
ImplementsRegistry == Registry!Spec

\* Between two calls exactly the endpoints of the application are allocated,
\* with a node each: a failed create_ept keeps nothing, destroy frees both.
NothingLeaks == pc = "idle" => epts = made /\ Cardinality(nodes) = Cardinality(made)

\* The callback data of an endpoint an interrupt may find is allocated:
\* rpmsg_ns_rx_cb calls through the context that rpmsg_ns_unbind frees.
CallbackData == \A e \in Linked : cbData[e] \in Binders => cbData[e] \in ctx

\* rpmsg_env_bm.c, on the empty env_lock_mutex: "No mutex needed for
\* RPMsg-Lite in BM environment, since the API is not shared with ISR
\* context": no message makes the interrupt walk out of the list.
NotShared == heard # Lost

\* rpmsg_ns.h, on rpmsg_ns_bind: "RL_NULL on error, NameService handle on
\* success": who got a handle has an endpoint that hears announcements.
BindReports == \A b \in Binders : pc = "idle" /\ handle[b] # NoHandle => handle[b] \in made

\* The heap of the list together: every node is well formed and reachable by
\* somebody who will free it, and no endpoint's callback data dangles.
MemorySafe == ListTypeOK /\ NothingLeaks /\ CallbackData
=============================================================================
