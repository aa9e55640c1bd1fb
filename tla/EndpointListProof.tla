-------------------------- MODULE EndpointListProof --------------------------
(***************************************************************************)
(* Proofs about the list of endpoints, for any heap: the list that the     *)
(* stores of add_to_list and remove_from_list build is a chain of          *)
(* different nodes, the walk of the receive interrupt visits it from end   *)
(* to end, nothing leaks and no callback data dangles.                     *)
(***************************************************************************)
EXTENDS EndpointList, FiniteSetTheorems, TLAPS

-----------------------------------------------------------------------------
(* The invariant.                                                          *)

Adding == {"link", "publish", "publish_first", "clear"}
Removing == {"unlink", "free"}

\* The list is a chain r of n nodes, one for each endpoint an interrupt may
\* find, with different addresses.
Chain(n, r) ==
    /\ \A i, j \in 1 .. n : r[i] = r[j] => i = j
    /\ head = IF n = 0 THEN Null ELSE r[1]
    /\ \A i \in 1 .. n : next[r[i]] = IF i < n THEN r[i + 1] ELSE Null
    /\ \A i \in 1 .. n : i > 1 => prev[r[i]] = r[i - 1]
    /\ \A i \in 1 .. n : data[r[i]] \in Linked
    /\ \A e \in Linked : \E i \in 1 .. n : data[r[i]] = e
    /\ \A i, j \in 1 .. n : addr[data[r[i]]] = addr[data[r[j]]] => i = j

\* What the call in progress knows of its node and of the list.
Knows(n, r) ==
    /\ pc \in {"link", "publish", "publish_first", "free"} => \A i \in 1 .. n : r[i] # node
    /\ pc \in {"link", "publish"} => n > 0
    /\ pc = "publish_first" => n = 0
    /\ pc = "publish" => next[node] = head /\ prev[head] = node
    /\ pc = "unlink" => \E i \in 1 .. n : r[i] = node /\ data[node] = ept

IsList == pc # "clear" => \E n \in Nat : \E r \in [1 .. n -> nodes] : Chain(n, r) /\ Knows(n, r)

\* The node is the head, and its next is still junk.
First == pc = "clear" => head = node /\ made = {}

\* The blocks of the call in progress.
Blocks ==
    /\ epts = made \union (IF pc \in Adding \union Removing THEN {ept} ELSE {})
    /\ Cardinality(nodes) = Cardinality(epts)
    /\ \A e \in epts : addr[e] \in Addrs
    /\ pc \in Adding \union Removing => node \in nodes /\ ept \in Epts \ made
    /\ pc \in Adding => data[node] = ept /\ \A e \in made : addr[e] # addr[ept]

\* Who holds a handle has the endpoint that names him, until he gives it up.
Handles ==
    /\ \A e \in made : cbData[e] \in Binders => handle[cbData[e]] = e /\ cbData[e] \in ctx
    /\ \A b \in Binders : handle[b] \in Epts /\ ~(by = b /\ pc \in Removing \union {"free_ctx"})
                             => handle[b] \in made /\ cbData[handle[b]] = b
    /\ pc \in Adding \union {"unlink"} => cbData[ept] = by /\ (by \in Binders => by \in ctx)
    /\ pc \in Adding /\ by \in Binders => handle[by] = NoHandle
    /\ pc \in Removing /\ by \in Binders => handle[by] = ept
    /\ pc = "free_ctx" => by \in Binders /\ handle[by] \notin made

EptInv == ListTypeOK /\ IsList /\ First /\ Blocks /\ Handles

-----------------------------------------------------------------------------
(* Induction, in a form that needs no predicate as a parameter: a set of   *)
(* natural numbers that is not empty has a least element.                  *)

LEMMA LeastNat ==
  ASSUME NEW T \in SUBSET Nat, T # {} PROVE \E m \in T : \A k \in T : m <= k
<1> DEFINE R == OpToRel(<, Nat)
<1>1. \A x, y \in Nat : <<x, y>> \in R <=> x < y
  BY DEF OpToRel
<1>2. IsWellFoundedOn(R, Nat)
  BY NatLessThanWellFounded
<1> HIDE DEF R
<1>3. PICK x \in T : \A y \in T : ~ (<<y, x>> \in R)
  BY <1>2, WFMin
<1>4. x \in Nat /\ \A y \in T : y \in Nat /\ ~(y < x)
  BY <1>1, <1>3
<1> QED BY <1>4

LEMMA SetInduction ==
  ASSUME NEW T \in SUBSET Nat, 0 \in T, \A n \in T : n + 1 \in T PROVE T = Nat
<1>1. SUFFICES ASSUME Nat \ T # {} PROVE FALSE
  OBVIOUS
<1>2. PICK m \in Nat \ T : \A k \in Nat \ T : m <= k
  BY <1>1, LeastNat
<1>3. m # 0 /\ m - 1 \in Nat /\ m - 1 < m
  BY <1>2
<1>4. m - 1 \in T
  BY <1>2, <1>3
<1> QED BY <1>2, <1>3, <1>4

-----------------------------------------------------------------------------
(* The walk of rpmsg_lite_get_endpoint_from_addr.                          *)

\* It visits a chain from end to end and stays at the NULL behind it.
LEMMA VisitIs ==
  ASSUME NEW n \in Nat, NEW r \in [1 .. n -> nodes], Chain(n, r), ListTypeOK
  PROVE  \A i \in Nat : Visit[i] = IF i < n THEN r[i + 1] ELSE Null
<1> DEFINE g == [i \in Nat |-> IF i < n THEN r[i + 1] ELSE Null]
           Walk(f) == [i \in Nat |-> IF i = 0 THEN head
                                     ELSE LET m == f[i - 1] IN IF m \in nodes THEN next[m] ELSE m]
<1>1. Null \notin nodes
  BY ApartAssumption DEF ListTypeOK
<1>2. ASSUME NEW i \in Nat PROVE g[i] = Walk(g)[i]
  <2>1. CASE i = 0
    BY <2>1 DEF Chain
  <2>2. CASE i # 0 /\ i - 1 < n
    <3>1. i - 1 \in Nat /\ i \in 1 .. n /\ g[i - 1] = r[i] /\ r[i] \in nodes
      BY <2>2
    <3>2. next[r[i]] = IF i < n THEN r[i + 1] ELSE Null
      BY <3>1 DEF Chain
    <3> QED BY <2>2, <3>1, <3>2
  <2>3. CASE i # 0 /\ ~(i - 1 < n)
    <3>1. i - 1 \in Nat /\ g[i - 1] = Null /\ ~(i < n)
      BY <2>3
    <3> QED BY <1>1, <2>3, <3>1
  <2> QED BY <2>1, <2>2, <2>3
<1>3. g = Walk(g)
  BY <1>2
<1>4. Visit = CHOOSE f : f = Walk(f)
  BY DEF Visit
<1> HIDE DEF g
<1>5. Visit = Walk(Visit)
  BY <1>3, <1>4
<1> HIDE DEF Walk
<1> DEFINE T == {i \in Nat : Visit[i] = g[i]}
<1>6. 0 \in T
  <2>1. Walk(Visit)[0] = head /\ Walk(g)[0] = head
    BY DEF Walk
  <2> QED BY <1>3, <1>5, <2>1
<1>7. ASSUME NEW i \in T PROVE i + 1 \in T
  <2>1. i \in Nat /\ i + 1 \in Nat /\ i + 1 # 0 /\ (i + 1) - 1 = i
    OBVIOUS
  <2>2. Walk(Visit)[i + 1] = Walk(g)[i + 1]
    BY <2>1 DEF Walk
  <2> QED BY <1>3, <1>5, <2>1, <2>2
<1>8. T = Nat
  <2> HIDE DEF T
  <2>1. T \in SUBSET Nat
    BY DEF T
  <2> QED BY <1>6, <1>7, <2>1, SetInduction
<1> QED BY <1>8 DEF g

\* What it returns: a node that matches, the NULL at the end, or nothing.
LEMMA LookupKinds ==
  ASSUME NEW a
  PROVE  Lookup(a) \in {Null, Lost} \/ Matches(Lookup(a), a)
<1> DEFINE Steps == 0 .. Cardinality(Nodes)
           Hits == {i \in Steps : Matches(Visit[i], a)}
<1>1. CASE Hits = {}
  BY <1>1 DEF Lookup
<1>2. CASE Hits # {}
  <2>1. Hits \in SUBSET Nat
    OBVIOUS
  <2>2. \E m \in Hits : \A k \in Hits : m <= k
    <3> HIDE DEF Hits
    <3> QED BY <1>2, <2>1, LeastNat
  <2>3. (CHOOSE i \in Hits : \A j \in Hits : i <= j) \in Hits
    <3> HIDE DEF Hits
    <3> QED BY <2>2
  <2>4. Lookup(a) = Visit[CHOOSE i \in Hits : \A j \in Hits : i <= j]
    BY <1>2 DEF Lookup
  <2> QED BY <2>3, <2>4
<1> QED BY <1>1, <1>2

\* A chain of different nodes is no longer than the heap.
LEMMA ChainFits ==
  ASSUME NEW n \in Nat, NEW r \in [1 .. n -> nodes], Chain(n, r), ListTypeOK
  PROVE  n <= Cardinality(Nodes) /\ Cardinality(Nodes) \in Nat
<1>1. IsFiniteSet(Nodes) /\ r \in [1 .. n -> Nodes]
  BY HeapAssumption DEF ListTypeOK
<1>2. r \in Injection(1 .. n, Nodes)
  BY <1>1 DEF Chain, Injection, IsInjective
<1>3. Cardinality(1 .. n) = n
  BY FS_Interval
<1>4. Cardinality(Nodes) \in Nat /\ Cardinality(1 .. n) <= Cardinality(Nodes)
  BY <1>1, <1>2, FS_Injection, FS_CardinalityType DEF ExistsInjection
<1> QED BY <1>3, <1>4

\* In a chain it finds the one endpoint with the address, if there is one.
LEMMA LookupIs ==
  ASSUME NEW n \in Nat, NEW r \in [1 .. n -> nodes], Chain(n, r), ListTypeOK, Linked \subseteq epts, NEW a
  PROVE  /\ \A i \in 1 .. n : addr[data[r[i]]] = a => Lookup(a) = r[i]
         /\ (\A i \in 1 .. n : addr[data[r[i]]] # a) => Lookup(a) = Null
<1> DEFINE Steps == 0 .. Cardinality(Nodes)
           Hits == {i \in Steps : Matches(Visit[i], a)}
           least == CHOOSE i \in Hits : \A j \in Hits : i <= j
<1>1. \A i \in Nat : Visit[i] = IF i < n THEN r[i + 1] ELSE Null
  BY VisitIs
<1>2. n <= Cardinality(Nodes) /\ Cardinality(Nodes) \in Nat
  BY ChainFits
<1>3. \A i \in 1 .. n : r[i] \in nodes /\ data[r[i]] \in epts
  BY DEF Chain
<1>4. Null \notin nodes
  BY ApartAssumption DEF ListTypeOK
<1>5. ASSUME NEW i \in 1 .. n, addr[data[r[i]]] = a PROVE Lookup(a) = r[i]
  <2>1. i - 1 \in Steps /\ Visit[i - 1] = r[i]
    BY <1>1, <1>2
  <2>2. i - 1 \in Hits
    BY <1>3, <1>5, <2>1 DEF Matches
  <2>3. ASSUME NEW j \in Hits PROVE j = i - 1
    <3>1. j < n /\ j + 1 \in 1 .. n /\ Visit[j] = r[j + 1]
      BY <1>1, <1>4 DEF Matches
    <3>2. addr[data[r[j + 1]]] = a
      BY <3>1 DEF Matches
    <3>3. j + 1 = i
      BY <1>5, <3>1, <3>2 DEF Chain
    <3> QED BY <3>1, <3>3
  <2>4. Hits = {i - 1}
    BY <2>2, <2>3
  <2>5. least = i - 1
    <3> HIDE DEF Hits
    <3>1. i - 1 <= i - 1
      OBVIOUS
    <3> QED BY <2>4, <3>1
  <2>6. Lookup(a) = Visit[least]
    BY <2>2 DEF Lookup
  <2> QED BY <2>1, <2>5, <2>6
<1>6. ASSUME \A i \in 1 .. n : addr[data[r[i]]] # a PROVE Lookup(a) = Null
  <2>1. ASSUME NEW j \in Hits PROVE FALSE
    <3>1. j < n /\ j + 1 \in 1 .. n /\ Visit[j] = r[j + 1]
      BY <1>1, <1>4 DEF Matches
    <3> QED BY <1>6, <3>1 DEF Matches
  <2>2. Hits = {}
    BY <2>1
  <2>3. Visit[Cardinality(Nodes)] = Null
    BY <1>1, <1>2
  <2> QED BY <2>2, <2>3 DEF Lookup
<1> QED BY <1>5, <1>6

-----------------------------------------------------------------------------
(* What the steps have in common.                                          *)

LEMMA OneMore ==
  ASSUME NEW U, IsFiniteSet(U), NEW S \in SUBSET U, NEW x
  PROVE  /\ Cardinality(S) \in Nat
         /\ x \notin S => Cardinality(S \union {x}) = Cardinality(S) + 1
         /\ x \in S => Cardinality(S \ {x}) = Cardinality(S) - 1
<1>1. IsFiniteSet(S)
  BY FS_Subset
<1> QED BY <1>1, FS_CardinalityType, FS_AddElement, FS_RemoveElement

\* A chain whose nodes and endpoints a step leaves alone.
LEMMA ChainKept ==
  ASSUME NEW n \in Nat, NEW r \in [1 .. n -> nodes], Chain(n, r),
         head' = head, Linked' = Linked,
         \A i \in 1 .. n : r[i] \in nodes' /\ next'[r[i]] = next[r[i]] /\ data'[r[i]] = data[r[i]],
         \A i \in 1 .. n : i > 1 => prev'[r[i]] = prev[r[i]],
         \A e \in Linked : addr'[e] = addr[e]
  PROVE  r \in [1 .. n -> nodes'] /\ Chain(n, r)'
<1>1. \A i \in 1 .. n : data[r[i]] \in Linked
  BY DEF Chain
<1>2. /\ \A i, j \in 1 .. n : r[i] = r[j] => i = j
      /\ head' = IF n = 0 THEN Null ELSE r[1]
      /\ \A i \in 1 .. n : next'[r[i]] = IF i < n THEN r[i + 1] ELSE Null
      /\ \A i \in 1 .. n : i > 1 => prev'[r[i]] = r[i - 1]
  BY DEF Chain
<1>3. \A i \in 1 .. n : data'[r[i]] \in Linked'
  BY <1>1
<1>4. \A e \in Linked' : \E i \in 1 .. n : data'[r[i]] = e
  <2>1. \A e \in Linked : \E i \in 1 .. n : data[r[i]] = e
    BY DEF Chain
  <2> QED BY <2>1
<1>5. \A i, j \in 1 .. n : addr'[data'[r[i]]] = addr'[data'[r[j]]] => i = j
  <2>1. \A i \in 1 .. n : addr'[data'[r[i]]] = addr[data[r[i]]]
    BY <1>1
  <2>2. \A i, j \in 1 .. n : addr[data[r[i]]] = addr[data[r[j]]] => i = j
    BY DEF Chain
  <2> QED BY <2>1, <2>2
<1> QED BY <1>2, <1>3, <1>4, <1>5 DEF Chain

LEMMA SameList ==
  ASSUME IsList, UNCHANGED <<head, next, prev, data, addr, nodes, made, pc, node, ept>>
  PROVE  IsList'
<1>1. CASE pc = "clear"
  BY <1>1 DEF IsList
<1>2. CASE pc # "clear"
  <2>1. PICK n \in Nat : \E r \in [1 .. n -> nodes] : Chain(n, r) /\ Knows(n, r)
    BY <1>2 DEF IsList
  <2>2. PICK r \in [1 .. n -> nodes] : Chain(n, r) /\ Knows(n, r)
    BY <2>1
  <2>3. Linked' = Linked
    BY DEF Linked
  <2>4. r \in [1 .. n -> nodes'] /\ Chain(n, r)'
    BY <2>2, <2>3, ChainKept
  <2>5. Knows(n, r)'
    BY <2>2 DEF Knows
  <2> QED BY <2>4, <2>5 DEF IsList
<1> QED BY <1>1, <1>2

\* Between two calls.
LEMMA AtIdle ==
  ASSUME EptInv, pc = "idle"
  PROVE  /\ Linked = made /\ epts = made /\ made \subseteq Epts
         /\ \E n \in Nat : \E r \in [1 .. n -> nodes] : Chain(n, r)
BY DEF EptInv, IsList, Blocks, Linked, Adding, Removing, ListTypeOK

-----------------------------------------------------------------------------
(* Creating.                                                               *)

LEMMA NothingMadeInv ==
  ASSUME EptInv, pc = "idle", NEW who \in Binders \union {App}, NothingMade(who),
         UNCHANGED <<epts, heard>>, ctx \subseteq ctx', ctx' \subseteq Binders,
         who \in Binders => handle[who] = NoHandle
  PROVE  EptInv'
<1> USE DEF EptInv
<1>1. /\ handle' = (IF who \in Binders THEN [handle EXCEPT ![who] = Null] ELSE handle)
      /\ made' = made /\ pc' = "idle" /\ node' = Null /\ ept' = Null /\ by' = App
      /\ UNCHANGED <<head, next, prev, data, addr, cbData, nodes, epts, heard>>
  BY DEF NothingMade, Return, list
<1>2. ListTypeOK'
  BY <1>1 DEF ListTypeOK
<1>3. IsList'
  <2>1. PICK n \in Nat : \E r \in [1 .. n -> nodes] : Chain(n, r)
    BY AtIdle
  <2>2. PICK r \in [1 .. n -> nodes] : Chain(n, r)
    BY <2>1
  <2>3. Linked' = Linked
    BY <1>1 DEF Linked
  <2>4. r \in [1 .. n -> nodes'] /\ Chain(n, r)'
    BY <1>1, <2>2, <2>3, ChainKept
  <2>5. Knows(n, r)'
    BY <1>1 DEF Knows
  <2> QED BY <2>4, <2>5 DEF IsList
<1>4. First' /\ Blocks'
  BY <1>1 DEF First, Blocks, Adding, Removing
<1>5. Handles'
  <2>1. NoHandle \notin Epts /\ Null \notin Epts /\ made \subseteq Epts
    BY ApartAssumption, AtIdle
  <2>2. ASSUME NEW e \in made, cbData[e] \in Binders
        PROVE  handle'[cbData[e]] = e /\ cbData[e] \in ctx'
    <3>1. handle[cbData[e]] = e /\ cbData[e] \in ctx
      BY <2>2 DEF Handles
    <3>2. cbData[e] # who
      BY <2>1, <2>2, <3>1
    <3> QED BY <1>1, <3>1, <3>2
  <2>3. ASSUME NEW b \in Binders, handle'[b] \in Epts PROVE handle'[b] \in made /\ cbData[handle'[b]] = b
    <3>1. handle'[b] = handle[b]
      BY <1>1, <2>1, <2>3 DEF ListTypeOK
    <3> QED BY <2>3, <3>1 DEF Handles, Removing
  <2> QED BY <1>1, <2>2, <2>3 DEF Handles, Adding, Removing
<1> QED BY <1>2, <1>3, <1>4, <1>5

LEMMA FillInv ==
  ASSUME EptInv, pc = "idle", NEW who \in Binders \union {App}, NEW a \in Addrs, Lookup(a) = Null,
         NEW e \in Epts \ epts, NEW m \in Nodes \ nodes, Fill(who, a, e, m), heard' = heard,
         ctx \subseteq ctx', ctx' \subseteq Binders,
         who \in Binders => handle[who] = NoHandle /\ who \in ctx'
  PROVE  EptInv'
<1> USE DEF EptInv
<1>1. /\ epts' = epts \union {e} /\ nodes' = nodes \union {m}
      /\ addr' = [addr EXCEPT ![e] = a] /\ cbData' = [cbData EXCEPT ![e] = who]
      /\ data' = [data EXCEPT ![m] = e]
      /\ pc' = (IF head # Null THEN "link" ELSE "publish_first")
      /\ node' = m /\ ept' = e /\ by' = who
      /\ UNCHANGED <<head, next, prev, made, handle, heard>>
  BY DEF Fill
<1>2. Linked = made /\ epts = made /\ made \subseteq Epts /\ e \notin made
  BY AtIdle
<1>3. ListTypeOK'
  BY <1>1 DEF ListTypeOK
<1>4. PICK n \in Nat : \E r \in [1 .. n -> nodes] : Chain(n, r)
  BY AtIdle
<1>5. PICK r \in [1 .. n -> nodes] : Chain(n, r)
  BY <1>4
<1>6. IsList'
  <2>1. Linked' = Linked
    BY <1>1, <1>2 DEF Linked
  <2>2. \A i \in 1 .. n : r[i] \in nodes' /\ r[i] # m /\ data'[r[i]] = data[r[i]]
    BY <1>1 DEF ListTypeOK
  <2>3. \A x \in Linked : addr'[x] = addr[x]
    BY <1>1, <1>2 DEF ListTypeOK
  <2>4. r \in [1 .. n -> nodes'] /\ Chain(n, r)'
    BY <1>1, <1>5, <2>1, <2>2, <2>3, ChainKept
  <2>5. Null \notin nodes /\ (n > 0 => r[1] \in nodes)
    BY ApartAssumption DEF ListTypeOK
  <2>6. head # Null <=> n > 0
    BY <1>5, <2>5 DEF Chain
  <2>7. Knows(n, r)'
    BY <1>1, <2>2, <2>6 DEF Knows
  <2> QED BY <2>4, <2>7 DEF IsList
<1>7. Blocks'
  <2>1. Cardinality(nodes') = Cardinality(epts')
    <3>1. Cardinality(nodes \union {m}) = Cardinality(nodes) + 1
      BY OneMore, HeapAssumption DEF ListTypeOK
    <3>2. Cardinality(epts \union {e}) = Cardinality(epts) + 1
      BY OneMore, HeapAssumption DEF ListTypeOK
    <3> QED BY <1>1, <3>1, <3>2 DEF Blocks
  <2>2. \A x \in made : addr'[x] # a
    <3> SUFFICES ASSUME NEW x \in made, addr[x] = a PROVE FALSE
      BY <1>1, <1>2 DEF ListTypeOK
    <3>1. PICK i \in 1 .. n : data[r[i]] = x
      BY <1>2, <1>5 DEF Chain
    <3>2. Lookup(a) = r[i] /\ r[i] \in Nodes
      BY <1>2, <1>5, <3>1, LookupIs DEF ListTypeOK
    <3> QED BY <3>2, ApartAssumption
  <2>3. \A x \in epts' : addr'[x] \in Addrs
    BY <1>1 DEF Blocks, ListTypeOK
  <2>4. addr'[e] = a /\ data'[m] = e
    BY <1>1 DEF ListTypeOK
  <2>5. pc' \in Adding /\ epts' = made' \union {ept'} /\ node' \in nodes' /\ ept' \in Epts \ made'
    BY <1>1, <1>2 DEF Adding
  <2>6. data'[node'] = ept' /\ \A x \in made' : addr'[x] # addr'[ept']
    BY <1>1, <2>2, <2>4
  <2> QED BY <2>1, <2>3, <2>5, <2>6 DEF Blocks
<1>8. Handles'
  <2>1. \A x \in made : cbData'[x] = cbData[x]
    BY <1>1, <1>2 DEF ListTypeOK
  <2>2. cbData'[e] = who
    BY <1>1 DEF ListTypeOK
  <2>3. \A x \in made' : cbData'[x] \in Binders => handle'[cbData'[x]] = x /\ cbData'[x] \in ctx'
    BY <1>1, <2>1 DEF Handles
  <2>4. \A b \in Binders : handle[b] \in Epts => handle[b] \in made /\ cbData[handle[b]] = b
    BY DEF Handles, Removing
  <2>5. pc' \in Adding /\ pc' \notin Removing \union {"free_ctx"}
    BY <1>1 DEF Adding, Removing
  <2> QED BY <1>1, <2>1, <2>2, <2>3, <2>4, <2>5 DEF Handles
<1>9. First'
  BY <1>1 DEF First
<1> QED BY <1>3, <1>6, <1>7, <1>8, <1>9

LEMMA CreateEptInv ==
  ASSUME EptInv, pc = "idle", NEW who \in Binders \union {App}, NEW a \in Addrs, CreateEpt(who, a),
         ctx \subseteq ctx', ctx' \subseteq Binders,
         who \in Binders => handle[who] = NoHandle /\ who \in ctx'
  PROVE  EptInv'
<1>1. heard' = heard
  BY DEF CreateEpt
<1>2. CASE NothingMade(who) /\ UNCHANGED epts
  BY <1>1, <1>2, NothingMadeInv
<1>3. ASSUME NEW e \in Epts \ epts, Lookup(a) = Null, LoseNode(who, a, e) PROVE EptInv'
  BY <1>1, <1>3, NothingMadeInv DEF LoseNode
<1>4. ASSUME NEW e \in Epts \ epts, NEW m \in Nodes \ nodes, Lookup(a) = Null, Fill(who, a, e, m) PROVE EptInv'
  BY <1>1, <1>4, FillInv
<1> QED BY <1>2, <1>3, <1>4 DEF CreateEpt

\* The address that rpmsg_lite_create_ept picks for RL_ADDR_ANY.
LEMMA LowestIsFree ==
  ASSUME \E a \in Addrs : Lookup(a) = Null PROVE LowestFree \in Addrs
<1> DEFINE T == {a \in Addrs : Lookup(a) = Null}
<1>1. T \in SUBSET Nat /\ T # {}
  BY AddrAssumption DEF Addrs
<1>2. PICK m \in T : \A k \in T : m <= k
  <2> HIDE DEF T
  <2> QED BY <1>1, LeastNat
<1>3. m \in Addrs /\ Lookup(m) = Null /\ \A b \in Addrs : b < m => Lookup(b) # Null
  <2>1. \A b \in Addrs : b \in Nat /\ m \in Nat
    BY AddrAssumption DEF Addrs
  <2>2. \A b \in Addrs : Lookup(b) = Null => m <= b
    BY <1>2
  <2> QED BY <1>2, <2>1, <2>2
<1> QED BY <1>3 DEF LowestFree

LEMMA AppCreatesInv ==
  ASSUME EptInv, NEW request \in Addrs \union {AddrAny}, AppCreates(request) PROVE EptInv'
<1> DEFINE a == IF request = AddrAny THEN LowestFree ELSE request
<1>1. pc = "idle" /\ CreateEpt(App, a) /\ ctx' = ctx
  BY DEF AppCreates
<1>2. a \in Addrs
  BY LowestIsFree DEF AppCreates
<1>3. App \notin Binders /\ ctx \subseteq Binders
  BY ApartAssumption DEF EptInv, ListTypeOK
<1> HIDE DEF a
<1> QED BY <1>1, <1>2, <1>3, CreateEptInv

LEMMA NsBindInv == ASSUME EptInv, NEW b \in Binders, NsBind(b) PROVE EptInv'
<1>1. pc = "idle" /\ handle[b] = NoHandle /\ ctx' = ctx \union {b} /\ CreateEpt(b, NsAddr)
  BY DEF NsBind
<1>2. NsAddr \in Addrs /\ ctx \subseteq Binders
  BY AddrAssumption DEF EptInv, ListTypeOK
<1> QED BY <1>1, <1>2, CreateEptInv

-----------------------------------------------------------------------------
(* Adding.                                                                 *)

LEMMA LinkInv == ASSUME EptInv, Link PROVE EptInv'
<1> USE DEF EptInv
<1>1. /\ pc = "link" /\ pc' = "publish"
      /\ next' = [next EXCEPT ![node] = head]
      /\ prev' = [prev EXCEPT ![node] = Null, ![head] = node]
      /\ UNCHANGED <<head, data, addr, cbData, nodes, epts, made, ctx, handle, node, ept, by, heard>>
  BY DEF Link, heap, app
<1>2. node \in nodes /\ nodes \subseteq Nodes
  BY <1>1 DEF Blocks, Adding, ListTypeOK
<1>3. PICK n \in Nat : \E r \in [1 .. n -> nodes] : Chain(n, r) /\ Knows(n, r)
  BY <1>1 DEF IsList
<1>4. PICK r \in [1 .. n -> nodes] : Chain(n, r) /\ Knows(n, r)
  BY <1>3
<1>5. n > 0 /\ head = r[1] /\ head \in Nodes /\ \A i \in 1 .. n : r[i] # node
  BY <1>1, <1>2, <1>4 DEF Chain, Knows
<1>6. ListTypeOK'
  BY <1>1, <1>2, <1>5 DEF ListTypeOK
<1>7. IsList'
  <2>1. Linked' = Linked
    BY <1>1 DEF Linked
  <2>2. \A i \in 1 .. n : next'[r[i]] = next[r[i]]
    BY <1>1, <1>2, <1>5 DEF ListTypeOK
  <2>3. \A i \in 1 .. n : i > 1 => r[i] # head
    BY <1>4, <1>5 DEF Chain
  <2>4. \A i \in 1 .. n : i > 1 => prev'[r[i]] = prev[r[i]]
    BY <1>1, <1>2, <1>5, <2>3 DEF ListTypeOK
  <2>5. r \in [1 .. n -> nodes'] /\ Chain(n, r)'
    BY <1>1, <1>4, <2>1, <2>2, <2>4, ChainKept
  <2>6. next'[node] = head /\ prev'[head] = node
    BY <1>1, <1>2, <1>5 DEF ListTypeOK
  <2>7. Knows(n, r)'
    BY <1>1, <1>5, <2>6 DEF Knows
  <2> QED BY <2>5, <2>7 DEF IsList
<1>8. Blocks'
  BY <1>1 DEF Blocks, Adding, Removing
<1>9. Handles'
  BY <1>1 DEF Handles, Adding, Removing
<1> QED BY <1>1, <1>6, <1>7, <1>8, <1>9 DEF First

\* What the end of a creating call leaves: the endpoint is the application's,
\* and who asked for it holds it.
LEMMA Returned ==
  ASSUME EptInv, pc \in {"publish", "clear"}, Return(by, ept),
         UNCHANGED <<data, addr, cbData, nodes, epts, ctx>>,
         head' \in Nodes, next' \in [Nodes -> Nodes \union {Null, Junk}],
         prev' \in [Nodes -> Nodes \union {Null, Junk}], heard' = heard
  PROVE  /\ ListTypeOK' /\ First' /\ Blocks' /\ Handles'
         /\ pc' = "idle" /\ made' = made \union {ept} /\ Linked' = made'
<1> USE DEF EptInv
<1>1. pc \in Adding /\ pc \notin Removing \union {"free_ctx"}
  BY DEF Adding, Removing
<1>2. ept \in Epts \ made /\ node \in nodes /\ epts = made \union {ept} /\ ept # Null
  BY <1>1, ApartAssumption DEF Blocks
<1>3. /\ handle' = (IF by \in Binders THEN [handle EXCEPT ![by] = ept] ELSE handle)
      /\ made' = made \union {ept}
      /\ pc' = "idle" /\ node' = Null /\ ept' = Null /\ by' = App
  BY <1>2 DEF Return
<1>4. ListTypeOK'
  BY <1>2, <1>3 DEF ListTypeOK
<1>5. First' /\ Blocks'
  BY <1>2, <1>3 DEF First, Blocks, Adding, Removing
<1>6. Handles'
  <2>1. cbData[ept] = by /\ (by \in Binders => by \in ctx /\ handle[by] = NoHandle)
    BY <1>1 DEF Handles
  <2>2. \A b \in Binders : handle'[b] = IF b = by THEN ept ELSE handle[b]
    BY <1>3 DEF ListTypeOK
  <2>3. NoHandle \notin Epts /\ made \subseteq Epts
    BY ApartAssumption DEF ListTypeOK, Blocks
  <2>4. ASSUME NEW e \in made', cbData[e] \in Binders
        PROVE  handle'[cbData[e]] = e /\ cbData[e] \in ctx
    <3>1. CASE e = ept
      BY <2>1, <2>2, <2>4, <3>1
    <3>2. CASE e \in made
      <4>1. handle[cbData[e]] = e /\ cbData[e] \in ctx
        BY <2>4, <3>2 DEF Handles
      <4>2. cbData[e] # by
        BY <2>1, <2>3, <2>4, <3>2, <4>1
      <4> QED BY <2>2, <2>4, <4>1, <4>2
    <3> QED BY <1>3, <3>1, <3>2
  <2>5. ASSUME NEW b \in Binders, handle'[b] \in Epts PROVE handle'[b] \in made' /\ cbData[handle'[b]] = b
    <3>1. CASE b = by
      BY <1>3, <2>1, <2>2, <3>1
    <3>2. CASE b # by
      <4>1. handle[b] \in made /\ cbData[handle[b]] = b
        BY <1>1, <2>2, <2>5, <3>2 DEF Handles
      <4> QED BY <1>3, <2>2, <3>2, <4>1
    <3> QED BY <3>1, <3>2
  <2> QED BY <1>3, <2>4, <2>5 DEF Handles, Adding, Removing
<1>7. Linked' = made'
  BY <1>3 DEF Linked
<1> QED BY <1>3, <1>4, <1>5, <1>6, <1>7

LEMMA PublishInv == ASSUME EptInv, Publish PROVE EptInv'
<1> USE DEF EptInv
<1>1. /\ pc = "publish" /\ head' = node /\ Return(by, ept)
      /\ UNCHANGED <<next, prev, data, addr, cbData, nodes, epts, ctx, heard>>
  BY DEF Publish, heap
<1>2. /\ node \in nodes /\ nodes \subseteq Nodes /\ data[node] = ept
      /\ \A e \in made : addr[e] # addr[ept]
  BY <1>1 DEF Blocks, Adding, ListTypeOK
<1>3. PICK n \in Nat : \E r \in [1 .. n -> nodes] : Chain(n, r) /\ Knows(n, r)
  BY <1>1 DEF IsList
<1>4. PICK r \in [1 .. n -> nodes] : Chain(n, r) /\ Knows(n, r)
  BY <1>3
<1>5. /\ n > 0 /\ next[node] = r[1] /\ prev[r[1]] = node
      /\ \A i \in 1 .. n : r[i] # node
  BY <1>1, <1>4 DEF Chain, Knows
<1>6. /\ ListTypeOK' /\ First' /\ Blocks' /\ Handles'
      /\ pc' = "idle" /\ made' = made \union {ept} /\ Linked' = made'
  BY <1>1, <1>2, Returned DEF ListTypeOK
<1>7. Linked = made
  BY <1>1 DEF Linked
<1>8. IsList'
  <2> DEFINE longer == [i \in 1 .. n + 1 |-> IF i = 1 THEN node ELSE r[i - 1]]
  <2>0. longer \in [1 .. n + 1 -> nodes]
    BY <1>2
  <2> PICK q \in [1 .. n + 1 -> nodes] : q = longer
    BY <2>0
  <2>1. /\ n + 1 \in Nat /\ n + 1 # 0 /\ q[1] = node
        /\ \A i \in 1 .. n + 1 : i # 1 => i - 1 \in 1 .. n /\ q[i] = r[i - 1]
        /\ \A i \in 1 .. n : i + 1 \in 1 .. n + 1 /\ q[i + 1] = r[i]
        /\ \A i \in 1 .. n + 1 : i = 1 \/ \E j \in 1 .. n : i = j + 1
    OBVIOUS
  <2> HIDE DEF longer
  <2>2. \A i, j \in 1 .. n + 1 : q[i] = q[j] => i = j
    <3>1. \A i, j \in 1 .. n : r[i] = r[j] => i = j
      BY <1>4 DEF Chain
    <3> QED BY <1>5, <2>1, <3>1
  <2>3. ASSUME NEW i \in 1 .. n + 1 PROVE next[q[i]] = IF i < n + 1 THEN q[i + 1] ELSE Null
    <3>1. CASE i = 1
      BY <1>5, <2>1, <3>1
    <3>2. CASE i # 1
      <4>1. PICK j \in 1 .. n : i = j + 1
        BY <2>1, <3>2
      <4>2. next[r[j]] = IF j < n THEN r[j + 1] ELSE Null
        BY <1>4 DEF Chain
      <4>3. j < n => j + 1 \in 1 .. n
        OBVIOUS
      <4> QED BY <2>1, <4>1, <4>2, <4>3
    <3> QED BY <3>1, <3>2
  <2>4. ASSUME NEW i \in 1 .. n + 1, i > 1 PROVE prev[q[i]] = q[i - 1]
    <3>1. PICK j \in 1 .. n : i = j + 1
      BY <2>1, <2>4
    <3>2. CASE j = 1
      BY <1>5, <2>1, <3>1, <3>2
    <3>3. CASE j > 1
      <4>1. prev[r[j]] = r[j - 1] /\ j - 1 \in 1 .. n
        BY <1>4, <3>3 DEF Chain
      <4>2. q[(j - 1) + 1] = r[j - 1]
        BY <2>1, <4>1
      <4> QED BY <2>1, <3>1, <4>1, <4>2
    <3> QED BY <3>2, <3>3
  <2>5. \A i \in 1 .. n : data[r[i]] \in made
    BY <1>4, <1>7 DEF Chain
  <2>6. \A i \in 1 .. n + 1 : data[q[i]] \in made'
    BY <1>2, <1>6, <2>1, <2>5
  <2>7. \A e \in made' : \E i \in 1 .. n + 1 : data[q[i]] = e
    <3>1. \A e \in made : \E i \in 1 .. n : data[r[i]] = e
      BY <1>4, <1>7 DEF Chain
    <3>2. ASSUME NEW e \in made PROVE \E i \in 1 .. n + 1 : data[q[i]] = e
      <4>1. PICK i \in 1 .. n : data[r[i]] = e
        BY <3>1
      <4> QED BY <2>1, <4>1
    <3>3. 1 \in 1 .. n + 1 /\ data[q[1]] = ept
      BY <1>2, <2>1
    <3> QED BY <1>6, <3>2, <3>3
  <2>8. ASSUME NEW i \in 1 .. n + 1, NEW j \in 1 .. n + 1, addr[data[q[i]]] = addr[data[q[j]]] PROVE i = j
    <3>1. \A k, l \in 1 .. n : addr[data[r[k]]] = addr[data[r[l]]] => k = l
      BY <1>4 DEF Chain
    <3>2. \A k \in 1 .. n : addr[data[r[k]]] # addr[ept]
      BY <1>2, <2>5
    <3>3. CASE i = 1 \/ j = 1
      BY <1>2, <2>1, <2>8, <3>2, <3>3
    <3>4. CASE i # 1 /\ j # 1
      <4>1. i - 1 \in 1 .. n /\ j - 1 \in 1 .. n /\ q[i] = r[i - 1] /\ q[j] = r[j - 1]
        BY <2>1, <3>4
      <4>2. i - 1 = j - 1
        BY <2>8, <3>1, <4>1
      <4> QED BY <4>2
    <3> QED BY <3>3, <3>4
  <2>9. PICK m \in Nat : m = n + 1
    BY <2>1
  <2>10. head' = IF m = 0 THEN Null ELSE q[1]
    BY <1>1, <2>1, <2>9
  <2>11. \A i, j \in 1 .. m : addr[data[q[i]]] = addr[data[q[j]]] => i = j
    BY <2>8, <2>9
  <2>12. Chain(m, q)'
    BY <1>1, <1>6, <2>2, <2>3, <2>4, <2>6, <2>7, <2>9, <2>10, <2>11 DEF Chain
  <2>13. Knows(m, q)'
    BY <1>6 DEF Knows
  <2>14. q \in [1 .. m -> nodes']
    BY <1>1, <2>1, <2>9
  <2> QED BY <2>12, <2>13, <2>14 DEF IsList
<1> QED BY <1>6, <1>8

LEMMA PublishFirstInv == ASSUME EptInv, PublishFirst PROVE EptInv'
<1> USE DEF EptInv
<1>1. /\ pc = "publish_first" /\ pc' = "clear" /\ head' = node
      /\ UNCHANGED <<next, prev, data, addr, cbData, nodes, epts, made, ctx, handle, node, ept, by, heard>>
  BY DEF PublishFirst, heap, app
<1>2. node \in nodes /\ nodes \subseteq Nodes
  BY <1>1 DEF Blocks, Adding, ListTypeOK
<1>3. PICK n \in Nat : \E r \in [1 .. n -> nodes] : Chain(n, r) /\ Knows(n, r)
  BY <1>1 DEF IsList
<1>4. made = {}
  <2>1. PICK r \in [1 .. n -> nodes] : Chain(n, r) /\ Knows(n, r)
    BY <1>3
  <2>2. n = 0 /\ Linked = made
    BY <1>1, <2>1 DEF Knows, Linked
  <2> QED BY <2>1, <2>2 DEF Chain
<1>5. ListTypeOK'
  BY <1>1, <1>2 DEF ListTypeOK
<1>6. IsList' /\ First'
  BY <1>1, <1>4 DEF IsList, First
<1>7. Blocks'
  BY <1>1 DEF Blocks, Adding, Removing
<1>8. Handles'
  BY <1>1 DEF Handles, Adding, Removing
<1> QED BY <1>5, <1>6, <1>7, <1>8

LEMMA ClearInv == ASSUME EptInv, Clear PROVE EptInv'
<1> USE DEF EptInv
<1>1. /\ pc = "clear" /\ Return(by, ept)
      /\ next' = [next EXCEPT ![head] = Null] /\ prev' = [prev EXCEPT ![head] = Null]
      /\ UNCHANGED <<head, data, addr, cbData, nodes, epts, ctx, heard>>
  BY DEF Clear, heap
<1>2. head = node /\ made = {} /\ node \in nodes /\ nodes \subseteq Nodes /\ data[node] = ept
  BY <1>1 DEF First, Blocks, Adding, ListTypeOK
<1>3. /\ ListTypeOK' /\ First' /\ Blocks' /\ Handles'
      /\ pc' = "idle" /\ made' = made \union {ept} /\ Linked' = made'
  BY <1>1, <1>2, Returned DEF ListTypeOK
<1>4. IsList'
  <2> DEFINE single == [i \in 1 .. 1 |-> node]
  <2>0. single \in [1 .. 1 -> nodes]
    BY <1>2
  <2> PICK q \in [1 .. 1 -> nodes] : q = single
    BY <2>0
  <2>1. \A i \in 1 .. 1 : i = 1 /\ q[i] = node
    OBVIOUS
  <2> HIDE DEF single
  <2>6. PICK m \in Nat : m = 1
    OBVIOUS
  <2>2. next'[node] = Null
    BY <1>1, <1>2 DEF ListTypeOK
  <2>3. Linked' = {ept}
    BY <1>2, <1>3
  <2>4. Chain(m, q)'
    <3>1. \A i \in 1 .. m : i = 1 /\ q[i] = node /\ data'[q[i]] = ept
      BY <1>1, <1>2, <2>1, <2>6
    <3>2. 1 \in 1 .. m /\ q[1] = node
      BY <2>1, <2>6
    <3> QED BY <1>1, <1>2, <2>2, <2>3, <2>6, <3>1, <3>2 DEF Chain
  <2>5. Knows(m, q)'
    BY <1>3 DEF Knows
  <2>7. q \in [1 .. m -> nodes']
    BY <1>1, <2>1, <2>6
  <2> QED BY <2>4, <2>5, <2>7 DEF IsList
<1> QED BY <1>3, <1>4

-----------------------------------------------------------------------------
(* Destroying.                                                             *)

LEMMA DestroyInv ==
  ASSUME EptInv, pc = "idle", NEW who \in Binders \union {App}, NEW e \in made, cbData[e] = who,
         who \in Binders => handle[who] = e, Destroy(who, e)
  PROVE  EptInv'
<1> USE DEF EptInv
<1>1. /\ pc' = "unlink" /\ node' = Lookup(addr[e]) /\ ept' = e /\ by' = who /\ made' = made \ {e}
      /\ UNCHANGED <<head, next, prev, data, addr, cbData, nodes, epts, ctx, handle, heard>>
  BY DEF Destroy, list, heap
<1>2. Linked = made /\ epts = made /\ made \subseteq Epts /\ Linked' = made
  <2>1. Linked' = made' \union {ept'}
    BY <1>1 DEF Linked
  <2> QED BY <1>1, <2>1, AtIdle
<1>3. PICK n \in Nat : \E r \in [1 .. n -> nodes] : Chain(n, r)
  BY AtIdle
<1>4. PICK r \in [1 .. n -> nodes] : Chain(n, r)
  BY <1>3
<1>5. PICK i \in 1 .. n : data[r[i]] = e
  BY <1>2, <1>4 DEF Chain
<1>6. node' = r[i] /\ r[i] \in nodes /\ nodes \subseteq Nodes
  BY <1>1, <1>2, <1>4, <1>5, LookupIs DEF ListTypeOK
<1>7. ListTypeOK'
  BY <1>1, <1>2, <1>6 DEF ListTypeOK
<1>8. IsList'
  <2>1. r \in [1 .. n -> nodes'] /\ Chain(n, r)'
    BY <1>1, <1>2, <1>4, ChainKept
  <2>2. Knows(n, r)'
    BY <1>1, <1>5, <1>6 DEF Knows
  <2> QED BY <2>1, <2>2 DEF IsList
<1>9. Blocks'
  BY <1>1, <1>2, <1>6 DEF Blocks, Adding, Removing
<1>10. Handles'
  <2>1. App \notin Binders
    BY ApartAssumption
  <2>2. \A b \in Binders : handle[b] \in Epts => handle[b] \in made /\ cbData[handle[b]] = b
    BY DEF Handles, Removing
  <2>3. \A x \in made : cbData[x] \in Binders => handle[cbData[x]] = x /\ cbData[x] \in ctx
    BY DEF Handles
  <2>4. \A b \in Binders : handle[b] \in Epts /\ b # who => handle[b] \in made' /\ cbData[handle[b]] = b
    BY <1>1, <2>1, <2>2
  <2> QED BY <1>1, <2>3, <2>4 DEF Handles, Adding, Removing
<1> QED BY <1>1, <1>7, <1>8, <1>9, <1>10 DEF First

LEMMA AppDestroysInv == ASSUME EptInv, NEW e \in Epts, AppDestroys(e) PROVE EptInv'
<1>1. pc = "idle" /\ e \in made /\ cbData[e] = App /\ Destroy(App, e) /\ App \notin Binders
  BY ApartAssumption DEF AppDestroys
<1> QED BY <1>1, DestroyInv

LEMMA NsUnbindInv == ASSUME EptInv, NEW b \in Binders, NsUnbind(b) PROVE EptInv'
<1>1. pc = "idle" /\ handle[b] # NoHandle
  BY DEF NsUnbind
<1>2. CASE handle[b] # Null
  <2>1. handle[b] \in Epts
    BY <1>1, <1>2 DEF EptInv, ListTypeOK
  <2>2. handle[b] \in made /\ cbData[handle[b]] = b
    BY <1>1, <2>1 DEF EptInv, Handles, Removing
  <2>3. Destroy(b, handle[b])
    BY <1>2 DEF NsUnbind
  <2> QED BY <1>1, <2>2, <2>3, DestroyInv
<1>3. CASE handle[b] = Null
  <2> USE DEF EptInv
  <2>1. /\ pc' = "free_ctx" /\ by' = b
        /\ UNCHANGED <<head, next, prev, data, addr, cbData, nodes, epts, made, ctx, handle, node, ept, heard>>
    BY <1>3 DEF NsUnbind, list, heap, app
  <2>2. ListTypeOK'
    BY <2>1 DEF ListTypeOK
  <2>3. IsList'
    <3>1. PICK n \in Nat : \E r \in [1 .. n -> nodes] : Chain(n, r)
      BY <1>1, AtIdle
    <3>2. PICK r \in [1 .. n -> nodes] : Chain(n, r)
      BY <3>1
    <3>3. Linked' = Linked
      BY <1>1, <2>1 DEF Linked
    <3>4. r \in [1 .. n -> nodes'] /\ Chain(n, r)'
      BY <2>1, <3>2, <3>3, ChainKept
    <3>5. Knows(n, r)'
      BY <2>1 DEF Knows
    <3> QED BY <3>4, <3>5 DEF IsList
  <2>4. Blocks' /\ First'
    BY <1>1, <2>1 DEF Blocks, First, Adding, Removing
  <2>5. Handles'
    <3>1. handle[b] \notin made
      BY <1>1, <1>3, AtIdle, ApartAssumption
    <3> QED BY <1>1, <2>1, <3>1 DEF Handles, Adding, Removing
  <2> QED BY <2>2, <2>3, <2>4, <2>5
<1> QED BY <1>2, <1>3

\* remove_from_list on the k-th node of the chain.
LEMMA UnlinkInv == ASSUME EptInv, Unlink PROVE EptInv'
<1> USE DEF EptInv
<1>1. /\ pc = "unlink" /\ pc' = "free"
      /\ UNCHANGED <<data, addr, cbData, nodes, epts, made, ctx, handle, node, ept, by, heard>>
  BY DEF Unlink, heap, app
<1>2. node \in nodes /\ nodes \subseteq Nodes /\ ept \in Epts \ made
  BY <1>1 DEF Blocks, Removing, ListTypeOK
<1>3. PICK n \in Nat : \E r \in [1 .. n -> nodes] : Chain(n, r) /\ Knows(n, r)
  BY <1>1 DEF IsList
<1>4. PICK r \in [1 .. n -> nodes] : Chain(n, r) /\ Knows(n, r)
  BY <1>3
<1>5. PICK k \in 1 .. n : r[k] = node /\ data[node] = ept
  BY <1>1, <1>4 DEF Knows
<1>6. /\ \A i, j \in 1 .. n : r[i] = r[j] => i = j
      /\ head = r[1]
      /\ \A i \in 1 .. n : next[r[i]] = IF i < n THEN r[i + 1] ELSE Null
      /\ \A i \in 1 .. n : i > 1 => prev[r[i]] = r[i - 1]
      /\ \A i, j \in 1 .. n : addr[data[r[i]]] = addr[data[r[j]]] => i = j
  BY <1>4, <1>5 DEF Chain
<1>7. Linked = made \union {ept} /\ Linked' = made
  BY <1>1 DEF Linked
<1>8. /\ 1 \in 1 .. n /\ n - 1 \in Nat /\ Null \notin nodes
      /\ \A i \in 1 .. n : r[i] \in nodes /\ (i < n => i + 1 \in 1 .. n) /\ (i > 1 => i - 1 \in 1 .. n)
  BY <1>2, ApartAssumption
<1>9. /\ head' = (IF k = 1 THEN next[node] ELSE head)
      /\ \A i \in 1 .. n : next'[r[i]] = IF k > 1 /\ i = k - 1 THEN next[node] ELSE next[r[i]]
      /\ \A i \in 1 .. n : prev'[r[i]] = IF k > 1 /\ k < n /\ i = k + 1 THEN prev[node] ELSE prev[r[i]]
      /\ ListTypeOK'
  <2>1. CASE k = 1
    <3>1. node = head
      BY <1>5, <1>6, <2>1
    <3>2. head' = next[head] /\ UNCHANGED <<next, prev>>
      BY <3>1 DEF Unlink
    <3>3. next[head] \in Nodes \union {Null, Junk}
      BY <1>2, <3>1 DEF ListTypeOK
    <3>4. ListTypeOK'
      BY <1>1, <3>2, <3>3 DEF ListTypeOK
    <3> QED BY <2>1, <3>1, <3>2, <3>4
  <2>2. CASE k > 1
    <3>1. node # head
      BY <1>5, <1>6, <1>8, <2>2
    <3>2. /\ head' = head
          /\ next' = [next EXCEPT ![prev[node]] = next[node]]
          /\ prev' = IF next[node] = Null THEN prev ELSE [prev EXCEPT ![next[node]] = prev[node]]
      BY <3>1 DEF Unlink
    <3>3. /\ prev[node] = r[k - 1] /\ k - 1 \in 1 .. n
          /\ next[node] = IF k < n THEN r[k + 1] ELSE Null
      BY <1>5, <1>6, <2>2
    <3>4. \A i \in 1 .. n : next'[r[i]] = IF i = k - 1 THEN next[node] ELSE next[r[i]]
      BY <1>2, <1>6, <1>8, <3>2, <3>3 DEF ListTypeOK
    <3>5. \A i \in 1 .. n : prev'[r[i]] = IF k < n /\ i = k + 1 THEN prev[node] ELSE prev[r[i]]
      <4>1. CASE k < n
        <5>1. next[node] = r[k + 1] /\ k + 1 \in 1 .. n /\ next[node] # Null
          BY <1>8, <3>3, <4>1
        <5> QED BY <1>2, <1>6, <1>8, <3>2, <4>1, <5>1 DEF ListTypeOK
      <4>2. CASE ~(k < n)
        BY <3>2, <3>3, <4>2
      <4> QED BY <4>1, <4>2
    <3>6. next' \in [Nodes -> Nodes \union {Null, Junk}] /\ prev' \in [Nodes -> Nodes \union {Null, Junk}]
      BY <1>2, <3>2 DEF ListTypeOK
    <3>7. ListTypeOK'
      BY <1>1, <3>2, <3>6 DEF ListTypeOK
    <3> QED BY <2>2, <3>2, <3>4, <3>5, <3>7
  <2> QED BY <2>1, <2>2
<1>10. IsList'
  <2>1. PICK m \in Nat : m = n - 1
    BY <1>8
  <2> DEFINE skip == [i \in 1 .. m |-> IF i < k THEN i ELSE i + 1]
  <2>2. skip \in [1 .. m -> 1 .. n]
    BY <2>1
  <2>3. PICK f \in [1 .. m -> 1 .. n] : f = skip
    BY <2>2
  <2> DEFINE shorter == [i \in 1 .. m |-> r[f[i]]]
  <2>4. shorter \in [1 .. m -> nodes]
    BY <1>8
  <2>5. PICK q \in [1 .. m -> nodes] : q = shorter
    BY <2>4
  <2>6. \A i \in 1 .. m : f[i] \in 1 .. n /\ q[i] = r[f[i]] /\ f[i] # k /\ f[i] = IF i < k THEN i ELSE i + 1
    BY <2>3, <2>5
  <2> HIDE DEF skip, shorter
  <2>7. \A j \in 1 .. n : j # k => \E i \in 1 .. m : f[i] = j
    <3> SUFFICES ASSUME NEW j \in 1 .. n, j # k PROVE \E i \in 1 .. m : f[i] = j
      OBVIOUS
    <3>1. CASE j < k
      <4>1. j \in 1 .. m
        BY <2>1, <3>1
      <4> QED BY <2>6, <3>1, <4>1
    <3>2. CASE j > k
      <4>1. j - 1 \in 1 .. m /\ ~(j - 1 < k) /\ (j - 1) + 1 = j
        BY <2>1, <3>2
      <4> QED BY <2>6, <4>1
    <3> QED BY <3>1, <3>2
  <2>8. \A i, j \in 1 .. m : f[i] = f[j] => i = j
    BY <2>6
  <2>9. \A i, j \in 1 .. m : q[i] = q[j] => i = j
    BY <1>6, <2>6, <2>8
  <2>10. head' = IF m = 0 THEN Null ELSE q[1]
    <3>1. CASE k = 1
      <4>1. head' = IF 1 < n THEN r[1 + 1] ELSE Null
        BY <1>5, <1>6, <1>9, <3>1
      <4>2. m # 0 => 1 < n /\ 1 \in 1 .. m
        BY <2>1
      <4> QED BY <2>1, <2>6, <3>1, <4>1, <4>2
    <3>2. CASE k > 1
      <4>1. m # 0 /\ 1 \in 1 .. m
        BY <2>1, <3>2
      <4> QED BY <1>6, <1>9, <2>6, <3>2, <4>1
    <3> QED BY <3>1, <3>2
  <2>11. ASSUME NEW i \in 1 .. m PROVE next'[q[i]] = IF i < m THEN q[i + 1] ELSE Null
    <3>1. i < m => i + 1 \in 1 .. m
      OBVIOUS
    <3>2. CASE i < k - 1
      <4>1. q[i] = r[i] /\ i \in 1 .. n /\ next'[r[i]] = next[r[i]] /\ i < n
        BY <1>9, <2>1, <2>6, <3>2
      <4>2. i < m /\ q[i + 1] = r[i + 1]
        BY <2>1, <2>6, <3>1, <3>2
      <4> QED BY <1>6, <4>1, <4>2
    <3>3. CASE i = k - 1
      <4>1. q[i] = r[i] /\ i \in 1 .. n /\ next'[r[i]] = next[r[k]] /\ k > 1
        BY <1>5, <1>9, <2>1, <2>6, <3>3
      <4>2. next[r[k]] = IF k < n THEN r[k + 1] ELSE Null
        BY <1>6
      <4>3. i < m => q[i + 1] = r[k + 1]
        BY <2>6, <3>1, <3>3
      <4> QED BY <2>1, <3>3, <4>1, <4>2, <4>3
    <3>4. CASE i >= k
      <4>1. q[i] = r[i + 1] /\ i + 1 \in 1 .. n /\ next'[r[i + 1]] = next[r[i + 1]]
        BY <1>9, <2>1, <2>6, <3>4
      <4>2. next[r[i + 1]] = IF i + 1 < n THEN r[(i + 1) + 1] ELSE Null
        BY <1>6, <4>1
      <4>3. i < m => q[i + 1] = r[(i + 1) + 1]
        BY <2>6, <3>1, <3>4
      <4> QED BY <2>1, <4>1, <4>2, <4>3
    <3> QED BY <3>2, <3>3, <3>4
  <2>12. ASSUME NEW i \in 1 .. m, i > 1 PROVE prev'[q[i]] = q[i - 1]
    <3>1. i - 1 \in 1 .. m
      BY <2>12
    <3>2. CASE i < k
      <4>1. q[i] = r[i] /\ i \in 1 .. n /\ prev'[r[i]] = prev[r[i]] /\ q[i - 1] = r[i - 1]
        BY <1>9, <2>1, <2>6, <3>1, <3>2
      <4> QED BY <1>6, <2>12, <4>1
    <3>3. CASE i = k
      <4>1. q[i] = r[k + 1] /\ k + 1 \in 1 .. n /\ k > 1 /\ k < n /\ q[i - 1] = r[k - 1]
        BY <2>1, <2>6, <2>12, <3>1, <3>3
      <4>2. prev'[r[k + 1]] = prev[r[k]]
        BY <1>5, <1>9, <4>1
      <4> QED BY <1>6, <4>1, <4>2
    <3>4. CASE i > k
      <4>1. q[i] = r[i + 1] /\ i + 1 \in 1 .. n /\ prev'[r[i + 1]] = prev[r[i + 1]]
        BY <1>9, <2>1, <2>6, <3>4
      <4>2. q[i - 1] = r[i]
        BY <2>6, <3>1, <3>4
      <4>3. PICK j \in 1 .. n : j = i + 1
        BY <4>1
      <4>4. prev[r[j]] = r[j - 1] /\ j - 1 = i
        BY <1>6, <4>3
      <4> QED BY <4>1, <4>2, <4>3, <4>4
    <3> QED BY <3>2, <3>3, <3>4
  <2>13. ASSUME NEW i \in 1 .. m PROVE data[q[i]] \in made
    <3>1. data[r[f[i]]] \in made \union {ept}
      BY <1>4, <1>7, <2>6 DEF Chain
    <3>2. data[r[f[i]]] # ept
      BY <1>5, <1>6, <2>6
    <3> QED BY <2>6, <3>1, <3>2
  <2>14. ASSUME NEW e \in made PROVE \E i \in 1 .. m : data[q[i]] = e
    <3>1. PICK j \in 1 .. n : data[r[j]] = e
      BY <1>4, <1>7 DEF Chain
    <3>2. j # k
      BY <1>2, <1>5, <3>1
    <3> QED BY <2>6, <2>7, <3>1, <3>2
  <2>15. \A i, j \in 1 .. m : addr[data[q[i]]] = addr[data[q[j]]] => i = j
    <3> SUFFICES ASSUME NEW i \in 1 .. m, NEW j \in 1 .. m, addr[data[q[i]]] = addr[data[q[j]]] PROVE i = j
      OBVIOUS
    <3>1. addr[data[r[f[i]]]] = addr[data[r[f[j]]]] /\ f[i] \in 1 .. n /\ f[j] \in 1 .. n
      BY <2>6
    <3>2. f[i] = f[j]
      BY <1>6, <3>1
    <3> QED BY <2>8, <3>2
  <2>16. Chain(m, q)'
    BY <1>1, <1>7, <2>9, <2>10, <2>11, <2>12, <2>13, <2>14, <2>15 DEF Chain
  <2>17. \A i \in 1 .. m : q[i] # node
    BY <1>5, <1>6, <2>6
  <2>18. Knows(m, q)'
    BY <1>1, <2>17 DEF Knows
  <2>19. q \in [1 .. m -> nodes']
    BY <1>1
  <2> QED BY <2>16, <2>18, <2>19 DEF IsList
<1>11. Blocks'
  BY <1>1 DEF Blocks, Adding, Removing
<1>12. Handles'
  BY <1>1 DEF Handles, Adding, Removing
<1> QED BY <1>1, <1>9, <1>10, <1>11, <1>12 DEF First

LEMMA FreeInv == ASSUME EptInv, Free PROVE EptInv'
<1> USE DEF EptInv
<1>1. /\ pc = "free"
      /\ nodes' = nodes \ {node} /\ epts' = epts \ {ept}
      /\ next' = [next EXCEPT ![node] = Junk] /\ prev' = [prev EXCEPT ![node] = Junk]
      /\ data' = [data EXCEPT ![node] = Junk]
      /\ addr' = [addr EXCEPT ![ept] = Junk] /\ cbData' = [cbData EXCEPT ![ept] = Junk]
      /\ node' = Null /\ ept' = Null
      /\ pc' = (IF by = App THEN "idle" ELSE "free_ctx")
      /\ UNCHANGED <<head, made, ctx, handle, by, heard>>
  BY DEF Free, app
<1>2. /\ node \in nodes /\ nodes \subseteq Nodes /\ ept \in Epts \ made
      /\ epts = made \union {ept} /\ epts \subseteq Epts
  BY <1>1 DEF Blocks, Removing, ListTypeOK
<1>3. pc' \in {"idle", "free_ctx"} /\ epts' = made
  BY <1>1, <1>2
<1>4. ListTypeOK'
  BY <1>1, <1>2 DEF ListTypeOK
<1>5. IsList'
  <2>1. PICK n \in Nat : \E r \in [1 .. n -> nodes] : Chain(n, r) /\ Knows(n, r)
    BY <1>1 DEF IsList
  <2>2. PICK r \in [1 .. n -> nodes] : Chain(n, r) /\ Knows(n, r)
    BY <2>1
  <2>3. Linked = made /\ Linked' = made
    BY <1>1, <1>3 DEF Linked
  <2>4. \A i \in 1 .. n : r[i] # node /\ r[i] \in nodes'
    BY <1>1, <2>2 DEF Knows
  <2>5. \A i \in 1 .. n : next'[r[i]] = next[r[i]] /\ data'[r[i]] = data[r[i]] /\ prev'[r[i]] = prev[r[i]]
    BY <1>1, <1>2, <2>4 DEF ListTypeOK
  <2>6. \A e \in Linked : addr'[e] = addr[e]
    BY <1>1, <1>2, <2>3 DEF ListTypeOK
  <2>7. r \in [1 .. n -> nodes'] /\ Chain(n, r)'
    BY <1>1, <2>2, <2>3, <2>4, <2>5, <2>6, ChainKept
  <2>8. Knows(n, r)'
    BY <1>3 DEF Knows
  <2> QED BY <2>7, <2>8 DEF IsList
<1>6. Blocks'
  <2>1. Cardinality(nodes \ {node}) = Cardinality(nodes) - 1
    BY <1>2, OneMore, HeapAssumption
  <2>2. Cardinality(epts \ {ept}) = Cardinality(epts) - 1
    BY <1>2, OneMore, HeapAssumption
  <2>3. Cardinality(nodes') = Cardinality(epts')
    BY <1>1, <2>1, <2>2 DEF Blocks
  <2>4. \A e \in epts' : addr'[e] \in Addrs
    BY <1>1, <1>2 DEF Blocks, ListTypeOK
  <2> QED BY <1>1, <1>3, <2>3, <2>4 DEF Blocks, Adding, Removing
<1>7. Handles'
  <2>1. \A x \in made : cbData'[x] = cbData[x]
    BY <1>1, <1>2 DEF ListTypeOK
  <2>2. App \notin Binders /\ by \in Binders \union {App}
    BY ApartAssumption DEF ListTypeOK
  <2>3. by \in Binders => handle[by] = ept
    BY <1>1 DEF Handles, Removing
  <2>4. \A b \in Binders : handle[b] \in Epts /\ b # by => handle[b] \in made /\ cbData'[handle[b]] = b
    BY <2>1 DEF Handles
  <2>5. \A x \in made : cbData'[x] \in Binders => handle[cbData'[x]] = x /\ cbData'[x] \in ctx
    BY <2>1 DEF Handles
  <2>6. by # App => pc' = "free_ctx" /\ by \in Binders /\ handle[by] \notin made
    BY <1>1, <1>2, <2>2, <2>3
  <2>7. pc' \notin Adding \union Removing
    BY <1>3 DEF Adding, Removing
  <2>8. pc' = "free_ctx" => by # App
    BY <1>1
  <2>9. \A b \in Binders : by = b => pc' = "free_ctx"
    BY <2>2, <2>6
  <2> QED BY <1>1, <2>4, <2>5, <2>6, <2>7, <2>8, <2>9 DEF Handles, Removing
<1> QED BY <1>3, <1>4, <1>5, <1>6, <1>7 DEF First

LEMMA FreeCtxInv == ASSUME EptInv, FreeCtx PROVE EptInv'
<1> USE DEF EptInv
<1>1. /\ pc = "free_ctx" /\ ctx' = ctx \ {by} /\ handle' = [handle EXCEPT ![by] = NoHandle]
      /\ pc' = "idle" /\ by' = App
      /\ UNCHANGED <<head, next, prev, data, addr, cbData, nodes, epts, made, node, ept, heard>>
  BY DEF FreeCtx, list, heap
<1>2. by \in Binders /\ handle[by] \notin made
  BY <1>1 DEF Handles
<1>3. ListTypeOK'
  BY <1>1 DEF ListTypeOK
<1>4. IsList'
  <2>1. PICK n \in Nat : \E r \in [1 .. n -> nodes] : Chain(n, r)
    BY <1>1 DEF IsList
  <2>2. PICK r \in [1 .. n -> nodes] : Chain(n, r)
    BY <2>1
  <2>3. Linked' = Linked
    BY <1>1 DEF Linked
  <2>4. r \in [1 .. n -> nodes'] /\ Chain(n, r)'
    BY <1>1, <2>2, <2>3, ChainKept
  <2>5. Knows(n, r)'
    BY <1>1 DEF Knows
  <2> QED BY <2>4, <2>5 DEF IsList
<1>5. Blocks' /\ First'
  BY <1>1 DEF Blocks, First, Adding, Removing
<1>6. Handles'
  <2>1. \A b \in Binders : handle'[b] = IF b = by THEN NoHandle ELSE handle[b]
    BY <1>1 DEF ListTypeOK
  <2>2. NoHandle \notin Epts
    BY ApartAssumption
  <2>3. \A e \in made : cbData[e] \in Binders =>
          handle[cbData[e]] = e /\ cbData[e] \in ctx /\ cbData[e] # by
    BY <1>2 DEF Handles
  <2>4. \A b \in Binders : handle[b] \in Epts /\ b # by => handle[b] \in made /\ cbData[handle[b]] = b
    BY DEF Handles
  <2> QED BY <1>1, <2>1, <2>2, <2>3, <2>4 DEF Handles, Adding, Removing
<1> QED BY <1>3, <1>4, <1>5, <1>6

-----------------------------------------------------------------------------
(* The interrupt.                                                          *)

LEMMA MessageInv == ASSUME EptInv, NEW a \in Addrs, Message(a) PROVE EptInv'
<1> USE DEF EptInv
<1>1. UNCHANGED <<head, next, prev, data, addr, cbData, nodes, epts, made, ctx, handle, pc, node, ept, by>>
  BY DEF Message, list, heap, app, call
<1>2. heard' \in Epts \union {Null, Lost}
  <2> DEFINE n == Lookup(a)
  <2>1. heard' = IF n \in Nodes THEN data[n] ELSE n
    BY DEF Message
  <2>2. n \in {Null, Lost} \/ Matches(n, a)
    BY LookupKinds
  <2> HIDE DEF n
  <2>3. Null \notin Nodes /\ Lost \notin Nodes
    BY ApartAssumption
  <2> QED BY <2>1, <2>2, <2>3 DEF Matches, ListTypeOK
<1>3. ListTypeOK'
  BY <1>1, <1>2 DEF ListTypeOK
<1>4. IsList'
  BY <1>1, SameList
<1>5. Blocks' /\ First' /\ Handles'
  BY <1>1 DEF Blocks, First, Handles
<1> QED BY <1>3, <1>4, <1>5

-----------------------------------------------------------------------------
(* Every run.                                                              *)

LEMMA EptNextInv == ASSUME EptInv, ListNext PROVE EptInv'
<1>1. CASE \E a \in Addrs \union {AddrAny} : AppCreates(a)
  BY <1>1, AppCreatesInv
<1>2. CASE \E a \in Addrs : Message(a)
  BY <1>2, MessageInv
<1>3. CASE \E b \in Binders : NsBind(b) \/ NsUnbind(b)
  BY <1>3, NsBindInv, NsUnbindInv
<1>4. CASE \E e \in Epts : AppDestroys(e)
  BY <1>4, AppDestroysInv
<1>5. CASE Link \/ Publish \/ PublishFirst \/ Clear
  BY <1>5, LinkInv, PublishInv, PublishFirstInv, ClearInv
<1>6. CASE Unlink \/ Free \/ FreeCtx
  BY <1>6, UnlinkInv, FreeInv, FreeCtxInv
<1> QED BY <1>1, <1>2, <1>3, <1>4, <1>5, <1>6 DEF ListNext

LEMMA EptStutterInv == ASSUME EptInv, UNCHANGED listVars PROVE EptInv'
<1> USE DEF EptInv
<1>1. UNCHANGED <<head, next, prev, data, addr, cbData, nodes, epts, made, ctx, handle, pc, node, ept, by, heard>>
  BY DEF listVars, list, heap, app, call
<1>2. ListTypeOK'
  BY <1>1 DEF ListTypeOK
<1>3. IsList'
  BY <1>1, SameList
<1>4. Blocks' /\ First' /\ Handles'
  BY <1>1 DEF Blocks, First, Handles
<1> QED BY <1>2, <1>3, <1>4

LEMMA EptInit == ListInit => EptInv
<1> SUFFICES ASSUME ListInit PROVE EptInv
  OBVIOUS
<1> USE DEF ListInit
<1>1. ListTypeOK
  BY DEF ListTypeOK
<1>2. IsList
  <2> DEFINE none == [i \in 1 .. 0 |-> Null]
  <2>1. none \in [1 .. 0 -> nodes]
    OBVIOUS
  <2>2. PICK m \in Nat : m = 0
    OBVIOUS
  <2>3. PICK q \in [1 .. 0 -> nodes] : q = none
    BY <2>1
  <2>4. q \in [1 .. m -> nodes] /\ \A i \in 1 .. m : FALSE
    BY <2>2
  <2>5. Linked = {}
    BY DEF Linked
  <2>6. Chain(m, q) /\ Knows(m, q)
    BY <2>2, <2>4, <2>5 DEF Chain, Knows
  <2> QED BY <2>4, <2>6 DEF IsList
<1>3. Blocks
  BY DEF Blocks, Adding, Removing
<1>4. Handles
  BY ApartAssumption DEF Handles, Adding, Removing
<1> QED BY <1>1, <1>2, <1>3, <1>4 DEF EptInv, First

\* What the invariant says of the memory.
LEMMA InvIsSafe == EptInv => MemorySafe
<1> SUFFICES ASSUME EptInv PROVE MemorySafe
  OBVIOUS
<1> USE DEF EptInv
<1>1. NothingLeaks
  BY AtIdle DEF NothingLeaks, Blocks
<1>2. CallbackData
  <2> SUFFICES ASSUME NEW e \in Linked, cbData[e] \in Binders PROVE cbData[e] \in ctx
    BY DEF CallbackData
  <2>1. CASE e \in made
    BY <2>1 DEF Handles
  <2>2. CASE e \notin made
    <3>1. pc \in {"clear", "unlink"} /\ e = ept
      BY <2>2 DEF Linked
    <3> QED BY <3>1 DEF Handles, Adding
  <2> QED BY <2>1, <2>2
<1> QED BY <1>1, <1>2 DEF MemorySafe

LEMMA AlwaysEptInv == ListSpec => []EptInv
<1>1. EptInv /\ [ListNext]_listVars => EptInv'
  BY EptNextInv, EptStutterInv
<1> QED BY EptInit, <1>1, PTL DEF ListSpec

\* Whatever the heap refuses and whenever a message comes, the blocks that are
\* allocated are those the application and its name service handles own, and
\* no endpoint an interrupt may find has callback data that was freed.
THEOREM EndpointsAreSafe == ListSpec => []MemorySafe
BY AlwaysEptInv, InvIsSafe, PTL

-----------------------------------------------------------------------------
(* The registry: which endpoint an address belongs to.                     *)

Distinct(L, ad) == \A d, e \in L : ad[d] = ad[e] => d = e

Used(L, ad) == {ad[e] : e \in L}

Reg(L, ad) == [a \in Used(L, ad) |-> CHOOSE e \in L : ad[e] = a]

With(R, a, x) == [b \in DOMAIN R \union {a} |-> IF b = a THEN x ELSE R[b]]
Less(R, a) == [b \in DOMAIN R \ {a} |-> R[b]]

LEMMA RegIs ==
  ASSUME NEW L, NEW ad, Distinct(L, ad)
  PROVE  /\ DOMAIN Reg(L, ad) = Used(L, ad)
         /\ Reg(L, ad) = [a \in {ad[e] : e \in L} |-> Reg(L, ad)[a]]
         /\ \A e \in L : Reg(L, ad)[ad[e]] = e
<1>1. ASSUME NEW e \in L PROVE Reg(L, ad)[ad[e]] = e
  <2>1. ad[e] \in {ad[d] : d \in L}
    OBVIOUS
  <2>2. Reg(L, ad)[ad[e]] = CHOOSE d \in L : ad[d] = ad[e]
    BY <2>1 DEF Reg, Used
  <2>3. (CHOOSE d \in L : ad[d] = ad[e]) \in L /\ ad[CHOOSE d \in L : ad[d] = ad[e]] = ad[e]
    <3>1. \E d \in L : ad[d] = ad[e]
      OBVIOUS
    <3> QED BY <3>1
  <2> QED BY <2>2, <2>3 DEF Distinct
<1>2. DOMAIN Reg(L, ad) = Used(L, ad)
  BY DEF Reg
<1>3. Reg(L, ad) = [a \in {ad[e] : e \in L} |-> Reg(L, ad)[a]]
  BY DEF Reg, Used
<1> QED BY <1>1, <1>2, <1>3

\* A function with the addresses of L as its domain and L's endpoints under them.
LEMMA RegOnly ==
  ASSUME NEW L, NEW ad, Distinct(L, ad), NEW f
  PROVE  f = [a \in {ad[e] : e \in L} |-> f[a]] /\ (\A e \in L : f[ad[e]] = e) => f = Reg(L, ad)
<1>0. /\ Reg(L, ad) = [a \in {ad[e] : e \in L} |-> Reg(L, ad)[a]]
      /\ \A e \in L : Reg(L, ad)[ad[e]] = e
  BY RegIs, Zenon
<1> SUFFICES ASSUME f = [a \in {ad[e] : e \in L} |-> f[a]], \A e \in L : f[ad[e]] = e
             PROVE  f = Reg(L, ad)
  OBVIOUS
<1> DEFINE D == {ad[e] : e \in L}
           R == Reg(L, ad)
<1>1. R = [a \in D |-> R[a]] /\ \A e \in L : R[ad[e]] = e
  BY <1>0
<1>2. \A a \in D : \E e \in L : a = ad[e]
  OBVIOUS
<1> HIDE DEF R
<1>3. \A a \in D : f[a] = R[a]
  <2> HIDE DEF D
  <2> QED BY <1>1, <1>2
<1>4. f = [a \in D |-> f[a]]
  OBVIOUS
<1> HIDE DEF D
<1>5. f = R
  BY <1>1, <1>3, <1>4
<1> QED BY <1>5 DEF R

\* Addresses of other endpoints do not matter.
LEMMA RegSame ==
  ASSUME NEW L, NEW ad, NEW bd, Distinct(L, ad), \A e \in L : ad[e] = bd[e]
  PROVE  Reg(L, ad) = Reg(L, bd)
<1>1. {ad[e] : e \in L} = {bd[e] : e \in L}
  OBVIOUS
<1>2. Distinct(L, bd)
  BY DEF Distinct
<1>5. /\ Reg(L, ad) = [a \in {ad[e] : e \in L} |-> Reg(L, ad)[a]]
      /\ \A e \in L : Reg(L, ad)[ad[e]] = e
  BY RegIs, Zenon
<1>3. Reg(L, ad) = [a \in {bd[e] : e \in L} |-> Reg(L, ad)[a]]
  BY <1>1, <1>5
<1>4. \A e \in L : Reg(L, ad)[bd[e]] = e
  BY <1>5
<1> QED BY <1>2, <1>3, <1>4, RegOnly

LEMMA RegAdd ==
  ASSUME NEW L, NEW ad, NEW x, x \notin L, Distinct(L \union {x}, ad)
  PROVE  /\ ad[x] \notin DOMAIN Reg(L, ad)
         /\ \A b \in DOMAIN Reg(L, ad) : Reg(L, ad)[b] # x
         /\ Reg(L \union {x}, ad) = With(Reg(L, ad), ad[x], x)
<1> DEFINE R == Reg(L, ad)
           f == With(R, ad[x], x)
<1>1. Distinct(L, ad) /\ \A e \in L : ad[e] # ad[x]
  BY DEF Distinct
<1>2. DOMAIN R = {ad[e] : e \in L} /\ \A e \in L : R[ad[e]] = e
  BY <1>1, RegIs DEF Used
<1> HIDE DEF R
<1>3. DOMAIN R \union {ad[x]} = {ad[e] : e \in L \union {x}}
  BY <1>2
<1>4. \A e \in L \union {x} : f[ad[e]] = e
  BY <1>1, <1>2 DEF With
<1>5. f = [a \in {ad[e] : e \in L \union {x}} |-> f[a]]
  BY <1>3 DEF With
<1> HIDE DEF f
<1>6. f = Reg(L \union {x}, ad)
  BY <1>4, <1>5, RegOnly
<1>7. ad[x] \notin DOMAIN R /\ \A b \in DOMAIN R : R[b] # x
  BY <1>1, <1>2
<1> QED BY <1>6, <1>7 DEF f, R

LEMMA RegDrop ==
  ASSUME NEW L, NEW ad, NEW x \in L, Distinct(L, ad)
  PROVE  ad[x] \in DOMAIN Reg(L, ad) /\ Reg(L \ {x}, ad) = Less(Reg(L, ad), ad[x])
<1> DEFINE R == Reg(L, ad)
           f == Less(R, ad[x])
<1>1. Distinct(L \ {x}, ad) /\ \A e \in L \ {x} : ad[e] # ad[x]
  BY DEF Distinct
<1>2. DOMAIN R = {ad[e] : e \in L} /\ \A e \in L : R[ad[e]] = e
  BY RegIs DEF Used
<1> HIDE DEF R
<1>3. DOMAIN R \ {ad[x]} = {ad[e] : e \in L \ {x}}
  BY <1>1, <1>2
<1>4. \A e \in L \ {x} : f[ad[e]] = e
  BY <1>1, <1>2 DEF Less
<1>5. f = [a \in {ad[e] : e \in L \ {x}} |-> f[a]]
  BY <1>3 DEF Less
<1> HIDE DEF f
<1>6. f = Reg(L \ {x}, ad)
  BY <1>1, <1>4, <1>5, RegOnly
<1>7. ad[x] \in DOMAIN R
  BY <1>2
<1> QED BY <1>6, <1>7 DEF f, R

LEMMA RegistryIs ==
  ASSUME EptInv
  PROVE  /\ RegistryNow = Reg(Linked, addr) /\ Distinct(Linked, addr)
         /\ Linked \subseteq epts /\ \A e \in Linked : e \in Epts /\ addr[e] \in Addrs
<1> USE DEF EptInv
<1>1. RegistryNow = Reg(Linked, addr)
  BY DEF RegistryNow, Reg, Used
<1>2. Distinct(Linked, addr)
  <2>1. CASE pc = "clear"
    <3>1. Linked = {ept}
      BY <2>1 DEF Linked, First
    <3> QED BY <3>1 DEF Distinct
  <2>2. CASE pc # "clear"
    <3>1. PICK n \in Nat : \E r \in [1 .. n -> nodes] : Chain(n, r)
      BY <2>2 DEF IsList
    <3>2. PICK r \in [1 .. n -> nodes] : Chain(n, r)
      BY <3>1
    <3> SUFFICES ASSUME NEW d \in Linked, NEW e \in Linked, addr[d] = addr[e] PROVE d = e
      BY DEF Distinct
    <3>3. PICK i \in 1 .. n : data[r[i]] = d
      BY <3>2 DEF Chain
    <3>4. PICK j \in 1 .. n : data[r[j]] = e
      BY <3>2 DEF Chain
    <3>5. i = j
      BY <3>2, <3>3, <3>4 DEF Chain
    <3> QED BY <3>3, <3>4, <3>5
  <2> QED BY <2>1, <2>2
<1>3. Linked \subseteq epts
  BY DEF Blocks, Linked, Adding, Removing
<1> QED BY <1>1, <1>2, <1>3 DEF Blocks, ListTypeOK

-----------------------------------------------------------------------------
(* The list implements the registry.                                       *)

\* A step that keeps the endpoints an interrupt may find, and their addresses.
LEMMA Unseen ==
  ASSUME EptInv, Linked' = Linked, \A e \in Linked : addr'[e] = addr[e], heard' = heard
  PROVE  UNCHANGED <<RegistryNow, heard>>
<1>1. RegistryNow = Reg(Linked, addr) /\ Distinct(Linked, addr)
  BY RegistryIs
<1>2. RegistryNow' = Reg(Linked', addr')
  BY DEF RegistryNow, Reg, Used
<1>3. \A e \in Linked : addr[e] = addr'[e]
  OBVIOUS
<1>4. Reg(Linked, addr) = Reg(Linked, addr')
  BY <1>1, <1>3, RegSame
<1> QED BY <1>1, <1>2, <1>4

\* Linking and unlinking, as the registry sees them.
LEMMA Linking ==
  ASSUME EptInv, EptInv', NEW x, x \notin Linked, Linked' = Linked \union {x}, addr' = addr, heard' = heard
  PROVE  /\ x \in Epts /\ addr[x] \in Addrs
         /\ addr[x] \notin DOMAIN RegistryNow
         /\ \A b \in DOMAIN RegistryNow : RegistryNow[b] # x
         /\ RegistryNow' = With(RegistryNow, addr[x], x)
<1>1. RegistryNow = Reg(Linked, addr)
  BY RegistryIs
<1>2. EptInv => /\ RegistryNow = Reg(Linked, addr) /\ Distinct(Linked, addr)
                /\ \A e \in Linked : e \in Epts /\ addr[e] \in Addrs
  BY RegistryIs
<1>3. /\ RegistryNow' = Reg(Linked', addr') /\ Distinct(Linked', addr')
      /\ \A e \in Linked' : e \in Epts /\ addr'[e] \in Addrs
  <2>1. (/\ RegistryNow = Reg(Linked, addr) /\ Distinct(Linked, addr)
         /\ \A e \in Linked : e \in Epts /\ addr[e] \in Addrs)'
    BY <1>2, RegistryIs, PTL
  <2> QED BY <2>1 DEF Reg, Used, Distinct
<1>4. Distinct(Linked \union {x}, addr)
  BY <1>3
<1>5. /\ addr[x] \notin DOMAIN RegistryNow
      /\ \A b \in DOMAIN RegistryNow : RegistryNow[b] # x
      /\ Reg(Linked \union {x}, addr) = With(RegistryNow, addr[x], x)
  BY <1>1, <1>4, RegAdd
<1> QED BY <1>3, <1>5

LEMMA Unlinking ==
  ASSUME EptInv, NEW x \in Linked, Linked' = Linked \ {x}, addr' = addr, heard' = heard
  PROVE  /\ addr[x] \in Addrs /\ addr[x] \in DOMAIN RegistryNow
         /\ RegistryNow' = Less(RegistryNow, addr[x])
<1>1. /\ RegistryNow = Reg(Linked, addr) /\ Distinct(Linked, addr) /\ addr[x] \in Addrs
  BY RegistryIs
<1>2. RegistryNow' = Reg(Linked', addr')
  BY DEF RegistryNow, Reg, Used
<1>3. /\ addr[x] \in DOMAIN RegistryNow
      /\ Reg(Linked \ {x}, addr) = Less(RegistryNow, addr[x])
  BY <1>1, RegDrop
<1> QED BY <1>1, <1>2, <1>3

\* Whoever the walk of the interrupt finds is the one who is registered.
LEMMA WalkFinds ==
  ASSUME EptInv, pc # "clear", NEW a \in Addrs, Message(a)
  PROVE  heard' = IF a \in DOMAIN RegistryNow THEN RegistryNow[a] ELSE Null
<1> USE DEF EptInv
<1>1. PICK n \in Nat : \E r \in [1 .. n -> nodes] : Chain(n, r)
  BY DEF IsList
<1>2. PICK r \in [1 .. n -> nodes] : Chain(n, r)
  BY <1>1
<1>3. /\ RegistryNow = Reg(Linked, addr) /\ Distinct(Linked, addr) /\ Linked \subseteq epts
  BY RegistryIs
<1>4. DOMAIN RegistryNow = {addr[e] : e \in Linked} /\ \A e \in Linked : RegistryNow[addr[e]] = e
  <2>1. DOMAIN Reg(Linked, addr) = Used(Linked, addr) /\ \A e \in Linked : Reg(Linked, addr)[addr[e]] = e
    BY <1>3, RegIs
  <2>2. DOMAIN RegistryNow = Used(Linked, addr) /\ \A e \in Linked : RegistryNow[addr[e]] = e
    BY <1>3, <2>1
  <2> QED BY <2>2 DEF Used
<1>5. /\ \A i \in 1 .. n : addr[data[r[i]]] = a => Lookup(a) = r[i]
      /\ (\A i \in 1 .. n : addr[data[r[i]]] # a) => Lookup(a) = Null
  BY <1>2, <1>3, LookupIs
<1>6. heard' = IF Lookup(a) \in Nodes THEN data[Lookup(a)] ELSE Lookup(a)
  BY DEF Message
<1>7. CASE a \in DOMAIN RegistryNow
  <2>1. PICK e \in Linked : addr[e] = a
    BY <1>4, <1>7
  <2>2. PICK i \in 1 .. n : data[r[i]] = e
    BY <1>2 DEF Chain
  <2>3. Lookup(a) = r[i] /\ r[i] \in Nodes
    BY <1>5, <2>1, <2>2 DEF ListTypeOK
  <2> QED BY <1>4, <1>6, <1>7, <2>1, <2>2, <2>3
<1>8. CASE a \notin DOMAIN RegistryNow
  <2>1. \A i \in 1 .. n : addr[data[r[i]]] # a
    BY <1>2, <1>4, <1>8 DEF Chain
  <2>2. Lookup(a) = Null /\ Null \notin Nodes
    BY <1>5, <2>1, ApartAssumption
  <2> QED BY <1>6, <1>8, <2>2
<1> QED BY <1>7, <1>8

LEMMA CallImplements ==
  ASSUME EptInv, ListNext, ~ \E a \in Addrs : Message(a)
  PROVE  \/ UNCHANGED <<RegistryNow, heard>>
         \/ pc \in {"publish", "publish_first"} /\ Linked' = Linked \union {ept} /\ ept \notin Linked
            /\ addr' = addr /\ heard' = heard
         \/ pc = "unlink" /\ Linked' = Linked \ {ept} /\ ept \in Linked /\ addr' = addr /\ heard' = heard
<1> USE DEF EptInv
<1>1. ASSUME pc = "idle", NEW who, NEW a, CreateEpt(who, a) PROVE UNCHANGED <<RegistryNow, heard>>
  <2>1. Linked = made /\ epts = made
    BY <1>1, AtIdle
  <2>2. CASE NothingMade(who)
    <3>1. made' = made /\ pc' = "idle" /\ addr' = addr /\ heard' = heard
      BY <1>1, <2>2 DEF NothingMade, Return, CreateEpt
    <3>2. Linked' = made'
      BY <3>1 DEF Linked
    <3> QED BY <2>1, <3>1, <3>2, Unseen
  <2>3. ASSUME NEW e \in Epts \ epts, NEW m \in Nodes \ nodes, Fill(who, a, e, m)
        PROVE  UNCHANGED <<RegistryNow, heard>>
    <3>1. made' = made /\ pc' \in {"link", "publish_first"} /\ addr' = [addr EXCEPT ![e] = a] /\ heard' = heard
      BY <1>1, <2>3 DEF Fill, CreateEpt
    <3>2. Linked' = made
      BY <3>1 DEF Linked
    <3>3. \A x \in Linked : addr'[x] = addr[x]
      BY <2>1, <3>1 DEF ListTypeOK
    <3> QED BY <2>1, <3>1, <3>2, <3>3, Unseen
  <2> QED BY <1>1, <2>2, <2>3 DEF CreateEpt, LoseNode
<1>2. ASSUME pc = "idle", NEW who, NEW e \in made, Destroy(who, e) PROVE UNCHANGED <<RegistryNow, heard>>
  <2>1. pc' = "unlink" /\ ept' = e /\ made' = made \ {e} /\ addr' = addr /\ heard' = heard
    BY <1>2 DEF Destroy, heap
  <2>2. Linked = made /\ Linked' = made' \union {e}
    BY <1>2, <2>1, AtIdle DEF Linked
  <2> QED BY <1>2, <2>1, <2>2, Unseen
<1>3. CASE \E a \in Addrs \union {AddrAny} : AppCreates(a)
  BY <1>1, <1>3 DEF AppCreates
<1>4. ASSUME NEW b \in Binders, NsBind(b) \/ NsUnbind(b) PROVE UNCHANGED <<RegistryNow, heard>>
  <2>1. CASE NsBind(b)
    BY <1>1, <2>1 DEF NsBind
  <2>2. CASE NsUnbind(b) /\ handle[b] # Null
    <3>1. pc = "idle" /\ handle[b] \in Epts /\ Destroy(b, handle[b])
      BY <2>2 DEF NsUnbind, ListTypeOK
    <3>2. handle[b] \in made
      BY <3>1 DEF Handles, Removing
    <3> QED BY <1>2, <3>1, <3>2
  <2>3. CASE NsUnbind(b) /\ handle[b] = Null
    <3>1. pc = "idle" /\ pc' = "free_ctx" /\ UNCHANGED <<made, ept, addr, heard>>
      BY <2>3 DEF NsUnbind, heap, app
    <3>2. Linked' = Linked
      BY <3>1 DEF Linked
    <3> QED BY <3>1, <3>2, Unseen
  <2> QED BY <1>4, <2>1, <2>2, <2>3
<1>5. CASE \E e \in Epts : AppDestroys(e)
  BY <1>2, <1>5 DEF AppDestroys
<1>6. CASE Link
  <2>1. pc = "link" /\ pc' = "publish" /\ UNCHANGED <<made, ept, addr, heard>>
    BY <1>6 DEF Link, heap, app
  <2>2. Linked' = Linked
    BY <2>1 DEF Linked
  <2> QED BY <2>1, <2>2, Unseen
<1>7. CASE Publish
  <2>1. pc = "publish" /\ pc' = "idle" /\ addr' = addr /\ heard' = heard /\ ept \in Epts \ made
    BY <1>7 DEF Publish, Return, heap, Blocks, Adding
  <2>2. made' = made \union {ept}
    BY <1>7, <2>1, ApartAssumption DEF Publish, Return
  <2>3. Linked = made /\ Linked' = made'
    BY <2>1 DEF Linked
  <2> QED BY <2>1, <2>2, <2>3
<1>8. CASE PublishFirst
  <2>1. /\ pc = "publish_first" /\ pc' = "clear" /\ addr' = addr /\ heard' = heard
        /\ made' = made /\ ept' = ept /\ ept \in Epts \ made
    BY <1>8 DEF PublishFirst, heap, app, Blocks, Adding
  <2>2. Linked = made /\ Linked' = made \union {ept}
    BY <2>1 DEF Linked
  <2> QED BY <2>1, <2>2
<1>9. CASE Clear
  <2>1. pc = "clear" /\ pc' = "idle" /\ addr' = addr /\ heard' = heard /\ ept \in Epts \ made
    BY <1>9 DEF Clear, Return, heap, Blocks, Adding
  <2>2. made' = made \union {ept}
    BY <1>9, <2>1, ApartAssumption DEF Clear, Return
  <2>3. Linked = made \union {ept} /\ Linked' = made'
    BY <2>1 DEF Linked
  <2> QED BY <2>1, <2>2, <2>3, Unseen
<1>10. CASE Unlink
  <2>1. /\ pc = "unlink" /\ pc' = "free" /\ addr' = addr /\ heard' = heard
        /\ made' = made /\ ept \in Epts \ made
    BY <1>10 DEF Unlink, heap, app, Blocks, Removing
  <2>2. Linked = made \union {ept} /\ Linked' = made
    BY <2>1 DEF Linked
  <2> QED BY <2>1, <2>2
<1>11. CASE Free
  <2>1. /\ pc = "free" /\ pc' \in {"idle", "free_ctx"} /\ addr' = [addr EXCEPT ![ept] = Junk]
        /\ heard' = heard /\ made' = made /\ ept \in Epts \ made
    BY <1>11 DEF Free, app, Blocks, Removing
  <2>2. Linked = made /\ Linked' = made
    BY <2>1 DEF Linked
  <2>3. \A x \in Linked : addr'[x] = addr[x]
    BY <2>1, <2>2 DEF ListTypeOK, Blocks
  <2> QED BY <2>1, <2>2, <2>3, Unseen
<1>12. CASE FreeCtx
  <2>1. pc = "free_ctx" /\ pc' = "idle" /\ UNCHANGED <<made, addr, heard>>
    BY <1>12 DEF FreeCtx, heap
  <2>2. Linked' = Linked
    BY <2>1 DEF Linked
  <2> QED BY <2>1, <2>2, Unseen
<1> QED BY <1>3, <1>4, <1>5, <1>6, <1>7, <1>8, <1>9, <1>10, <1>11, <1>12 DEF ListNext

\* When nothing arrives between the two stores that make the list's first
\* node, every walk of the interrupt finds exactly who is registered, and
\* an endpoint is added or taken out in one store, for every heap.
THEOREM ListIsRegistry == ASSUME QuietFirst PROVE ListSpec => ImplementsRegistry
<1>1. ListInit => Registry!Init
  <2> SUFFICES ASSUME ListInit PROVE Registry!Init
    OBVIOUS
  <2>1. Linked = {}
    BY DEF ListInit, Linked
  <2>2. RegistryNow = [a \in {} |-> Null]
    BY <2>1 DEF RegistryNow
  <2> QED BY <2>2 DEF ListInit, Registry!Init
<1>2. EptInv /\ EptInv' /\ [ListNext]_listVars => [Registry!Next]_(Registry!vars)
  <2> SUFFICES ASSUME EptInv, EptInv', [ListNext]_listVars PROVE [Registry!Next]_(Registry!vars)
    OBVIOUS
  <2>1. CASE UNCHANGED <<RegistryNow, heard>>
    BY <2>1 DEF Registry!vars
  <2>2. CASE UNCHANGED listVars
    <3>1. UNCHANGED <<Linked, addr, heard>>
      BY <2>2 DEF listVars, heap, app, call, Linked
    <3>2. UNCHANGED <<RegistryNow, heard>>
      BY <3>1, Unseen
    <3> QED BY <2>1, <3>2
  <2>3. ASSUME NEW a \in Addrs, Message(a) PROVE [Registry!Next]_(Registry!vars)
    <3>1. pc # "clear"
      BY <2>3 DEF Message
    <3>2. heard' = IF a \in DOMAIN RegistryNow THEN RegistryNow[a] ELSE Null
      BY <2>3, <3>1, WalkFinds
    <3>3. RegistryNow' = RegistryNow
      BY <2>3 DEF Message, heap, app, call, RegistryNow, Linked
    <3>4. Registry!Deliver(a)
      BY <3>2, <3>3 DEF Registry!Deliver
    <3> QED BY <3>4 DEF Registry!Next
  <2>4. ASSUME ept \notin Linked, Linked' = Linked \union {ept}, addr' = addr, heard' = heard
        PROVE  [Registry!Next]_(Registry!vars)
    <3>1. /\ ept \in Epts /\ addr[ept] \in Addrs
          /\ addr[ept] \notin DOMAIN RegistryNow
          /\ \A b \in DOMAIN RegistryNow : RegistryNow[b] # ept
          /\ RegistryNow' = With(RegistryNow, addr[ept], ept)
      BY <2>4, Linking
    <3>2. Registry!Register(addr[ept], ept)
      BY <2>4, <3>1 DEF Registry!Register, With
    <3> QED BY <3>1, <3>2 DEF Registry!Next
  <2>5. ASSUME ept \in Linked, Linked' = Linked \ {ept}, addr' = addr, heard' = heard
        PROVE  [Registry!Next]_(Registry!vars)
    <3>1. /\ addr[ept] \in Addrs /\ addr[ept] \in DOMAIN RegistryNow
          /\ RegistryNow' = Less(RegistryNow, addr[ept])
      BY <2>5, Unlinking
    <3>2. Registry!Unregister(addr[ept])
      BY <2>5, <3>1 DEF Registry!Unregister, Registry!Without, Less
    <3> QED BY <3>1, <3>2 DEF Registry!Next
  <2> QED BY <2>1, <2>2, <2>3, <2>4, <2>5, CallImplements
<1> QED BY <1>1, <1>2, AlwaysEptInv, PTL DEF ListSpec, ImplementsRegistry, Registry!Spec
=============================================================================
