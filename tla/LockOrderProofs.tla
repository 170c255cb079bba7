-------------------------- MODULE LockOrderProofs --------------------------
(* Proofs about LockOrder, and about Leads, which its InsertEdge uses.     *)
EXTENDS LockOrder, TLAPS

(* A way that only uses pairs between members of V is a way in any larger  *)
(* set as well.                                                            *)
LEMMA LeadsInLarger ==
    ASSUME NEW E, NEW V, NEW W, V \subseteq W, \A e \in E : e[1] \in V /\ e[2] \in V,
           NEW a \in V, NEW b
    PROVE  Leads(E, V, a, b) <=> Leads(E, W, a, b)
<1>1. ASSUME Leads(E, V, a, b), NEW S \in SUBSET W, a \in S, \A e \in E : e[1] \in S => e[2] \in S
      PROVE  b \in S
  <2>1. S \cap V \in SUBSET V /\ a \in S \cap V
    BY <1>1
  <2>2. \A e \in E : e[1] \in S \cap V => e[2] \in S \cap V
    BY <1>1
  <2>3. b \in S \cap V
    BY <1>1, <2>1, <2>2 DEF Leads
  <2> QED BY <2>3
<1>2. ASSUME Leads(E, W, a, b), NEW S \in SUBSET V, a \in S, \A e \in E : e[1] \in S => e[2] \in S
      PROVE  b \in S
  BY <1>2 DEF Leads
<1> QED BY <1>1, <1>2 DEF Leads

(* Fewer pairs make no new cycle.                                          *)
LEMMA FewerEdges ==
    ASSUME NEW E, NEW D \in SUBSET E, NEW V, ~HasCycle(E, V)
    PROVE  ~HasCycle(D, V)
<1> SUFFICES ASSUME NEW e \in D, Leads(D, V, e[2], e[1]) PROVE FALSE
  BY DEF HasCycle
<1>1. Leads(E, V, e[2], e[1])
  BY DEF Leads
<1> QED BY <1>1 DEF HasCycle

(* A new pair <<x, y>> closes a cycle only if y already leads to x.        *)
LEMMA OneMoreEdge ==
    ASSUME NEW E, NEW V, ~HasCycle(E, V), NEW x, NEW y, ~Leads(E, V, y, x)
    PROVE  ~HasCycle(E \cup {<<x, y>>}, V)
<1> DEFINE D == E \cup {<<x, y>>}
<1>1. PICK S \in SUBSET V : /\ y \in S /\ x \notin S
                            /\ \A e \in E : e[1] \in S => e[2] \in S
  BY DEF Leads
<1>2. \A e \in D : e[1] \in S => e[2] \in S
  BY <1>1
<1>3. ASSUME Leads(D, V, y, x) PROVE FALSE
  BY <1>1, <1>2, <1>3 DEF Leads
<1>4. ASSUME NEW e \in E, Leads(D, V, e[2], e[1]) PROVE Leads(E, V, e[2], e[1])
  <2> SUFFICES ASSUME NEW T \in SUBSET V, e[2] \in T, \A d \in E : d[1] \in T => d[2] \in T
               PROVE  e[1] \in T
    BY DEF Leads
  <2>1. CASE e[2] \in S      \* the members of T that are in S
    <3>1. T \cap S \in SUBSET V /\ e[2] \in T \cap S
      BY <2>1
    <3>2. \A d \in D : d[1] \in T \cap S => d[2] \in T \cap S
      BY <1>1, <1>2
    <3>3. e[1] \in T \cap S
      <4> HIDE DEF D
      <4> QED BY <1>4, <3>1, <3>2 DEF Leads
    <3> QED BY <3>3
  <2>2. CASE e[2] \notin S   \* T together with S
    <3>1. T \cup S \in SUBSET V /\ e[2] \in T \cup S
      OBVIOUS
    <3>2. \A d \in D : d[1] \in T \cup S => d[2] \in T \cup S
      BY <1>1, <1>2
    <3>3. e[1] \in T \cup S
      <4> HIDE DEF D
      <4> QED BY <1>4, <3>1, <3>2 DEF Leads
    <3>4. e[1] \notin S
      BY <1>1, <2>2
    <3> QED BY <3>3, <3>4
  <2> QED BY <2>1, <2>2
<1> SUFFICES ASSUME NEW e \in D, Leads(D, V, e[2], e[1]) PROVE FALSE
  BY DEF HasCycle
<1>5. CASE e \in E
  BY <1>4, <1>5 DEF HasCycle
<1>6. CASE e = <<x, y>>
  BY <1>3, <1>6
<1> QED BY <1>5, <1>6

-----------------------------------------------------------------------------
(* The edges join ids in use, so that the refusal, which looks for a way   *)
(* through ids in use, misses no cycle.                                    *)
AInv == /\ OrderTypeOK
        /\ Acyclic
        /\ \A e \in edges : e[1] \in Live /\ e[2] \in Live
        /\ Live \subseteq issued
        /\ \A p, q \in Ptrs : idOf[p] # NoId /\ idOf[p] = idOf[q] => p = q

LEMMA InitAInv == Init => AInv
  BY DEF Init, AInv, OrderTypeOK, Acyclic, HasCycle, Live

LEMMA GetIdAInv ==
    ASSUME NoId \notin Ids, AInv, NEW p \in Ptrs, GetId(p)
    PROVE  AInv'
<1>1. CASE UNCHANGED <<idOf, issued>>
  BY <1>1 DEF GetId, AInv, OrderTypeOK, Acyclic, Live
<1>2. CASE idOf[p] = NoId /\ ~UNCHANGED <<idOf, issued>>
  <2>1. PICK id \in Ids \ issued : /\ idOf' = [idOf EXCEPT ![p] = id]
                                   /\ issued' = issued \cup {id} /\ edges' = edges
    BY <1>2 DEF GetId
  <2>2. /\ idOf \in [Ptrs -> Ids \cup {NoId}] /\ issued \subseteq Ids /\ id # NoId
        /\ Live \subseteq issued
    BY <2>1 DEF AInv, OrderTypeOK
  <2>3. Live' = Live \cup {id}
    BY <1>2, <2>1, <2>2 DEF Live
  <2>4. OrderTypeOK' /\ Acyclic'
    BY <2>1, <2>2 DEF AInv, OrderTypeOK, Acyclic
  <2>5. \A q \in Ptrs : idOf[q] # id
    BY <2>1, <2>2 DEF Live
  <2>6. \A q, r \in Ptrs : idOf'[q] # NoId /\ idOf'[q] = idOf'[r] => q = r
    BY <2>1, <2>2, <2>5 DEF AInv
  <2> QED BY <2>1, <2>2, <2>3, <2>4, <2>6 DEF AInv
<1> QED BY <1>1, <1>2 DEF GetId

LEMMA RemoveNodeAInv ==
    ASSUME AInv, NEW p \in Ptrs, RemoveNode(p)
    PROVE  AInv'
<1>1. /\ idOf' = [idOf EXCEPT ![p] = NoId] /\ issued' = issued
      /\ edges' = {e \in edges : idOf[p] \notin {e[1], e[2]}}
      /\ idOf \in [Ptrs -> Ids \cup {NoId}] /\ issued \subseteq Ids
      /\ edges \subseteq Ids \X Ids
  BY DEF RemoveNode, AInv, OrderTypeOK
<1>2. Live' = Live \ {idOf[p]}
  BY <1>1 DEF AInv, Live
<1>3. edges' \in SUBSET edges
  BY <1>1
<1>4. OrderTypeOK'
  BY <1>1 DEF OrderTypeOK
<1>5. Acyclic'
  BY <1>3, FewerEdges DEF AInv, Acyclic
<1>6. \A q, r \in Ptrs : idOf'[q] # NoId /\ idOf'[q] = idOf'[r] => q = r
  BY <1>1 DEF AInv
<1>7. \A e \in edges' : e[1] \in Live' /\ e[2] \in Live'
  BY <1>1, <1>2 DEF AInv
<1> QED BY <1>1, <1>2, <1>4, <1>5, <1>6, <1>7 DEF AInv

LEMMA InsertEdgeAInv ==
    ASSUME AInv, NEW x \in issued, NEW y \in issued, InsertEdge(x, y)
    PROVE  AInv'
<1>1. UNCHANGED <<idOf, issued>> /\ Live' = Live
  BY DEF InsertEdge, Live
<1>2. CASE edges' = edges
  BY <1>1, <1>2 DEF AInv, OrderTypeOK, Acyclic
<1>3. CASE edges' # edges
  <2>1. /\ x \in Live /\ y \in Live /\ ~Leads(edges, Live, y, x)
        /\ edges' = edges \cup {<<x, y>>}
    BY <1>3 DEF InsertEdge
  <2>2. Live \subseteq Ids
    BY DEF AInv, OrderTypeOK
  <2>3. ~Leads(edges, Ids, y, x)
    BY <2>1, <2>2, LeadsInLarger DEF AInv
  <2>4. Acyclic'
    BY <2>1, <2>3, OneMoreEdge DEF AInv, Acyclic
  <2>5. OrderTypeOK' /\ \A e \in edges' : e[1] \in Live' /\ e[2] \in Live'
    BY <1>1, <2>1, <2>2 DEF AInv, OrderTypeOK
  <2> QED BY <1>1, <2>4, <2>5 DEF AInv
<1> QED BY <1>2, <1>3

LEMMA RemoveEdgeAInv ==
    ASSUME AInv, NEW x \in issued, NEW y \in issued, RemoveEdge(x, y)
    PROVE  AInv'
<1>1. UNCHANGED <<idOf, issued>> /\ edges' \in SUBSET edges
  BY DEF RemoveEdge
<1>2. Acyclic'
  BY <1>1, FewerEdges DEF AInv, Acyclic
<1> QED BY <1>1, <1>2 DEF AInv, OrderTypeOK, Live

(* The acquired-before graph never has a cycle, if nothing that is an id   *)
(* also means "no id".                                                     *)
THEOREM AlwaysAcyclic ==
    ASSUME NoId \notin Ids
    PROVE  Spec => []Acyclic
<1>1. ASSUME AInv, [Next]_orderVars PROVE AInv'
  <2>1. CASE UNCHANGED orderVars
    BY <1>1, <2>1 DEF orderVars, AInv, OrderTypeOK, Acyclic, Live
  <2> QED BY <1>1, <2>1, GetIdAInv, RemoveNodeAInv, InsertEdgeAInv, RemoveEdgeAInv DEF Next
<1>2. AInv => Acyclic
  BY DEF AInv
<1> QED BY <1>1, <1>2, InitAInv, PTL DEF Spec
=============================================================================
