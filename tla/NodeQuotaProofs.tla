--------------------------- MODULE NodeQuotaProofs ---------------------------
(***************************************************************************)
(* Proofs about NodeQuota for every fleet, limit and number of handlers.   *)
(***************************************************************************)
EXTENDS NodeQuota, FiniteSetTheorems, TLAPS

Request == [pc : Pcs, user : Users \cup {NoUser}, node : Nodes \cup {NoUser},
            urls : SUBSET Urls, todo : SUBSET Urls, existing : Nat]

LEMMA TypeInit == Init => TypeOK
BY DEF Init, TypeOK, IdleHandler, Pcs

(* Rewriting one handler keeps the handlers well typed when the new record *)
(* names a user and a node, or is idle.                                    *)
LEMMA MoveHandler ==
  ASSUME TypeOK, NEW h \in Handlers, NEW s \in Request,
         s.pc # "idle" => s.user \in Users /\ s.node \in Nodes,
         hdl' = [hdl EXCEPT ![h] = s]
  PROVE  /\ hdl' \in [Handlers -> Request]
         /\ \A g \in Handlers : hdl'[g].pc # "idle" => hdl'[g].user \in Users /\ hdl'[g].node \in Nodes
BY DEF TypeOK, Request

(* What a handler that is at work looks like.                              *)
LEMMA Working ==
  ASSUME TypeOK, NEW h \in Handlers, hdl[h].pc # "idle"
  PROVE  /\ hdl[h] \in Request /\ hdl[h].user \in Users /\ hdl[h].node \in Nodes
         /\ hdl[h] = [pc |-> hdl[h].pc, user |-> hdl[h].user, node |-> hdl[h].node,
                      urls |-> hdl[h].urls, todo |-> hdl[h].todo, existing |-> hdl[h].existing]
BY DEF TypeOK, Request

LEMMA CountsUrls ==
  ASSUME TypeOK, NEW u
  PROVE  UrlsOf(u) \in SUBSET Urls /\ IsFiniteSet(UrlsOf(u)) /\ Cardinality(UrlsOf(u)) \in Nat
<1>1. UrlsOf(u) \in SUBSET Urls
  BY DEF TypeOK, UrlsOf, NodesOf
<1> QED
  BY <1>1, QuotaAssumption, FS_Subset, FS_CardinalityType

(* The lookup of one URL rejects the batch or goes on with what is left.   *)
LEMMA OneUrl ==
  ASSUME TypeOK, NEW h \in Handlers, NEW url \in Urls, CheckUrl(h, url)
  PROVE  /\ hdl[h] \in Request /\ hdl[h].pc = "urls"
         /\ UNCHANGED <<pro, owner, probed, misread>>
         /\ \/ hdl' = [hdl EXCEPT ![h] = IdleHandler] /\ misled' = misled \ {h}
            \/ /\ misled' = misled
               /\ \E k \in Nat :
                    hdl' = [hdl EXCEPT ![h] = [hdl[h] EXCEPT !.todo = hdl[h].todo \ {url},
                                                             !.existing = k]]
<1> DEFINE s(k) == [hdl[h] EXCEPT !.todo = hdl[h].todo \ {url}, !.existing = k]
<1>1. hdl[h] \in Request /\ hdl[h].existing \in Nat
  BY Working DEF CheckUrl, Request
<1>2. PICK known \in {KnownTo(hdl[h].user, url), FALSE} :
        IF known \/ hdl[h].existing < FreeProbeLimit
        THEN /\ hdl' = [hdl EXCEPT ![h] = s(IF known THEN hdl[h].existing
                                                     ELSE hdl[h].existing + 1)]
             /\ misled' = misled
        ELSE hdl' = [hdl EXCEPT ![h] = IdleHandler] /\ misled' = misled \ {h}
  BY <1>1 DEF CheckUrl, Request
<1>3. (IF known THEN hdl[h].existing ELSE hdl[h].existing + 1) \in Nat
  BY <1>1
<1>4. hdl[h].pc = "urls" /\ UNCHANGED <<pro, owner, probed, misread>>
  BY DEF CheckUrl
<1> QED
  BY <1>1, <1>2, <1>3, <1>4

(* The handlers after it.                                                  *)
LEMMA OneUrlLater ==
  ASSUME TypeOK, NEW h \in Handlers, NEW url \in Urls, CheckUrl(h, url)
  PROVE  /\ \A g \in Handlers \ {h} : hdl'[g] = hdl[g]
         /\ \/ hdl'[h].pc = "idle" /\ misled' = misled \ {h}
            \/ /\ hdl'[h].pc = "urls" /\ hdl'[h].user = hdl[h].user /\ misled' = misled
               /\ hdl'[h].urls = hdl[h].urls /\ hdl'[h].todo = hdl[h].todo \ {url}
<1> DEFINE s(k) == [hdl[h] EXCEPT !.todo = hdl[h].todo \ {url}, !.existing = k]
<1>1. hdl \in [Handlers -> Request]
  BY DEF TypeOK, Request
<1>2. \/ hdl' = [hdl EXCEPT ![h] = IdleHandler] /\ misled' = misled \ {h}
      \/ misled' = misled /\ \E k \in Nat : hdl' = [hdl EXCEPT ![h] = s(k)]
  BY OneUrl
<1>3. \A g \in Handlers \ {h} : hdl'[g] = hdl[g]
  BY <1>1, <1>2
<1>4. CASE hdl' = [hdl EXCEPT ![h] = IdleHandler] /\ misled' = misled \ {h}
  BY <1>1, <1>3, <1>4 DEF IdleHandler
<1>5. ASSUME NEW k \in Nat, hdl' = [hdl EXCEPT ![h] = s(k)], misled' = misled
      PROVE  /\ hdl'[h].pc = "urls" /\ hdl'[h].user = hdl[h].user
             /\ hdl'[h].urls = hdl[h].urls /\ hdl'[h].todo = hdl[h].todo \ {url}
  <2>1. hdl'[h] = s(k)
    BY <1>1, <1>5
  <2>2. hdl[h] \in Request /\ hdl[h].pc = "urls"
    BY OneUrl
  <2> QED
    BY <2>1, <2>2 DEF Request
<1> QED
  BY <1>2, <1>3, <1>4, <1>5

LEMMA TypeStep == TypeOK /\ [Next]_vars => TypeOK'
<1> SUFFICES ASSUME TypeOK, [Next]_vars PROVE TypeOK'
  OBVIOUS
<1> DEFINE Moved == /\ hdl' \in [Handlers -> Request]
                    /\ \A g \in Handlers :
                         hdl'[g].pc # "idle" => hdl'[g].user \in Users /\ hdl'[g].node \in Nodes
           Rest == /\ pro' \subseteq Users
                   /\ owner' \in [Nodes -> Users \cup {NoUser}]
                   /\ probed' \in [Nodes -> SUBSET Urls]
                   /\ misread' \in [Users -> Nat]
                   /\ misled' \subseteq {h \in Handlers : hdl'[h].pc = "urls"}
<1>a. Moved /\ Rest => TypeOK'
  BY DEF TypeOK, Request
<1>0. IdleHandler \in Request /\ IdleHandler.pc = "idle"
  BY DEF IdleHandler, Request, Pcs
<1>b. Overtaken \subseteq {h \in Handlers : hdl[h].pc = "urls"}
  BY DEF Overtaken
<1>1. ASSUME NEW h \in Handlers, NEW u \in Users, NEW n \in Nodes, NEW urls \in SUBSET Urls,
             Heartbeat(h, u, n, urls)
      PROVE  TypeOK'
  <2> DEFINE s(next) == [pc |-> next, user |-> u, node |-> n, urls |-> urls,
                         todo |-> {}, existing |-> 0]
  <2>1. PICK next \in {"nodes", "bind"} : hdl' = [hdl EXCEPT ![h] = s(next)]
    BY <1>1 DEF Heartbeat
  <2>2. s(next) \in Request /\ s(next).user \in Users /\ s(next).node \in Nodes
    BY DEF Request, Pcs
  <2>3. Moved
    BY <2>1, <2>2, MoveHandler
  <2>4. Rest
    BY <1>1, <2>1 DEF Heartbeat, TypeOK
  <2> QED
    BY <1>a, <2>3, <2>4
<1>2. ASSUME NEW h \in Handlers, CountNodes(h) PROVE TypeOK'
  <2> DEFINE s == [hdl[h] EXCEPT !.pc = "bind"]
  <2>1. hdl[h].user \in Users /\ s \in Request /\ s.user \in Users /\ s.node \in Nodes
    BY <1>2, Working DEF CountNodes, Request, Pcs
  <2>2. hdl' = [hdl EXCEPT ![h] = s] \/ hdl' = [hdl EXCEPT ![h] = IdleHandler]
    BY <1>2 DEF CountNodes
  <2>3. Moved
    BY <1>0, <2>1, <2>2, MoveHandler
  <2>4. misread' = misread \/ misread' = [misread EXCEPT ![hdl[h].user] = @ + 1]
    BY <1>2 DEF CountNodes
  <2>5. Rest
    BY <1>2, <2>1, <2>2, <2>4 DEF CountNodes, TypeOK
  <2> QED
    BY <1>a, <2>3, <2>5
<1>3. ASSUME NEW h \in Handlers, BindNode(h) PROVE TypeOK'
  <2> DEFINE s == [hdl[h] EXCEPT !.pc = "probe"]
  <2>1. s \in Request /\ s.user \in Users /\ s.node \in Nodes /\ hdl' = [hdl EXCEPT ![h] = s]
    BY <1>3, Working DEF BindNode, Request, Pcs
  <2>2. Moved
    BY <2>1, MoveHandler
  <2>3. misled' \subseteq {g \in Handlers : hdl'[g].pc = "urls"}
    BY <1>3, <1>b, <2>1 DEF BindNode, TypeOK
  <2>4. Rest
    BY <1>3, <2>1, <2>3 DEF BindNode, TypeOK
  <2> QED
    BY <1>a, <2>2, <2>4
<1>4. ASSUME NEW h \in Handlers, BindFails(h) PROVE TypeOK'
  <2>1. Moved
    BY <1>0, <1>4, MoveHandler DEF BindFails
  <2>2. Rest
    BY <1>4 DEF BindFails, TypeOK
  <2> QED
    BY <1>a, <2>1, <2>2
<1>5. ASSUME NEW h \in Handlers, CheckProbes(h) PROVE TypeOK'
  <2> DEFINE s(next) == [hdl[h] EXCEPT !.pc = next]
  <2>1. \A next \in Pcs : s(next) \in Request /\ s(next).user \in Users /\ s(next).node \in Nodes
    BY <1>5, Working DEF CheckProbes, Request, Pcs
  <2>2. \/ hdl' = [hdl EXCEPT ![h] = IdleHandler]
        \/ \E next \in Pcs : hdl' = [hdl EXCEPT ![h] = s(next)]
    BY <1>5 DEF CheckProbes, Pcs
  <2>3. Moved
    BY <1>0, <2>1, <2>2, MoveHandler
  <2>4. misled' = misled /\ h \notin misled
    BY <1>5 DEF CheckProbes, TypeOK
  <2>5. \A g \in Handlers \ {h} : hdl'[g] = hdl[g]
    BY <2>2 DEF TypeOK
  <2>6. misled' \subseteq {g \in Handlers : hdl'[g].pc = "urls"}
    BY <2>4, <2>5 DEF TypeOK
  <2>7. Rest
    BY <1>5, <2>6 DEF CheckProbes, TypeOK
  <2> QED
    BY <1>a, <2>3, <2>7
<1>6. ASSUME NEW h \in Handlers, CountProbes(h) PROVE TypeOK'
  <2> DEFINE s(k) == [hdl[h] EXCEPT !.pc = "urls", !.todo = hdl[h].urls, !.existing = k]
  <2>1. PICK k \in Nat : /\ hdl' = [hdl EXCEPT ![h] = s(k)]
                         /\ misled' \subseteq misled \cup {h}
    BY <1>6, CountsUrls DEF CountProbes
  <2>2. s(k) \in Request /\ s(k).user \in Users /\ s(k).node \in Nodes
    BY <1>6, Working DEF CountProbes, Request, Pcs
  <2>3. Moved
    BY <2>1, <2>2, MoveHandler
  <2>4. hdl'[h].pc = "urls" /\ \A g \in Handlers \ {h} : hdl'[g] = hdl[g]
    BY <1>6, <2>1, Working DEF CountProbes, TypeOK
  <2>5. misled' \subseteq {g \in Handlers : hdl'[g].pc = "urls"}
    BY <2>1, <2>4 DEF TypeOK
  <2>6. Rest
    BY <1>6, <2>5 DEF CountProbes, TypeOK
  <2> QED
    BY <1>a, <2>3, <2>6
<1>7. ASSUME NEW h \in Handlers, NEW url \in Urls, CheckUrl(h, url) PROVE TypeOK'
  <2> DEFINE s(k) == [hdl[h] EXCEPT !.todo = hdl[h].todo \ {url}, !.existing = k]
  <2>2. \/ hdl' = [hdl EXCEPT ![h] = IdleHandler] /\ misled' = misled \ {h}
        \/ misled' = misled /\ \E k \in Nat : hdl' = [hdl EXCEPT ![h] = s(k)]
    BY <1>7, OneUrl
  <2>3. \A k \in Nat : /\ s(k) \in Request /\ s(k).user \in Users /\ s(k).node \in Nodes
                       /\ s(k).pc = "urls"
    BY <1>7, Working DEF CheckUrl, Request, Pcs
  <2>4. Moved
    BY <1>0, <2>2, <2>3, MoveHandler
  <2>5. misled' \subseteq {g \in Handlers : hdl'[g].pc = "urls"}
    <3>1. misled \subseteq {g \in Handlers : hdl[g].pc = "urls"}
      BY DEF TypeOK
    <3>2. \A g \in Handlers \ {h} : hdl'[g] = hdl[g]
      BY <1>7, OneUrlLater
    <3>3. misled' \subseteq misled /\ (h \in misled' => hdl'[h].pc = "urls")
      BY <1>7, OneUrlLater
    <3> QED
      BY <3>1, <3>2, <3>3
  <2>6. Rest
    BY <1>7, <2>5 DEF CheckUrl, TypeOK
  <2> QED
    BY <1>a, <2>4, <2>6
<1>8. ASSUME NEW h \in Handlers, RecordProbeResults(h) PROVE TypeOK'
  <2>1. Moved
    BY <1>0, <1>8, MoveHandler DEF RecordProbeResults
  <2>2. hdl[h].urls \subseteq Urls
    BY DEF TypeOK
  <2>3. probed' \in [Nodes -> SUBSET Urls]
    BY <1>8, <2>2 DEF RecordProbeResults, TypeOK
  <2>4. misled' \subseteq {g \in Handlers : hdl'[g].pc = "urls"}
    BY <1>8, <1>b DEF RecordProbeResults, TypeOK
  <2>5. Rest
    BY <1>8, <2>3, <2>4 DEF RecordProbeResults, TypeOK
  <2> QED
    BY <1>a, <2>1, <2>5
<1>9. ASSUME NEW n \in Nodes, NEW url \in Urls, PruneProbeResults(n, url) PROVE TypeOK'
  <2>1. hdl' = hdl /\ misled' \subseteq {g \in Handlers : hdl'[g].pc = "urls"}
    BY <1>9, <1>b DEF PruneProbeResults, TypeOK
  <2> QED
    BY <1>9, <2>1 DEF PruneProbeResults, TypeOK
<1>10. ASSUME NEW u \in Users, Upgrade(u) PROVE TypeOK'
  BY <1>10 DEF Upgrade, TypeOK
<1>11. CASE UNCHANGED vars
  BY <1>11 DEF vars, TypeOK
<1> QED
  BY <1>1, <1>2, <1>3, <1>4, <1>5, <1>6, <1>7, <1>8, <1>9, <1>10, <1>11 DEF Next

(* Owners, probes and requests keep their types.                           *)
THEOREM TypeCorrect == Spec => []TypeOK
BY TypeInit, TypeStep, PTL DEF Spec

-----------------------------------------------------------------------------
(* The node limit.  NodeOvershoot is inductive: a request whose count did  *)
(* not fail passes CanAddNode with at most FreeNodeLimit - 1 nodes bound   *)
(* and at most all the other handlers about to bind; one whose count       *)
(* failed is in misread; binding turns a handler into at most one node.    *)

Load(u) == Cardinality(NodesOf(u)) + Cardinality(Binding(u))
Bound(u) == FreeNodeLimit - 1 + Cardinality(Handlers) + misread[u]

LEMMA Finite ==
  \A u : /\ IsFiniteSet(NodesOf(u)) /\ Cardinality(NodesOf(u)) \in Nat
         /\ IsFiniteSet(Binding(u)) /\ Cardinality(Binding(u)) \in Nat
         /\ Cardinality(Handlers) \in Nat
BY QuotaAssumption, FS_Subset, FS_CardinalityType DEF NodesOf, Binding

LEMMA OvershootInit == Init => NodeOvershoot
<1> SUFFICES ASSUME Init, NEW u \in Users PROVE Load(u) <= Bound(u)
  BY DEF NodeOvershoot, Load, Bound, Limited
<1>1. NodesOf(u) = {} /\ Binding(u) = {} /\ misread[u] = 0
  BY QuotaAssumption DEF Init, NodesOf, Binding, IdleHandler
<1> QED
  BY <1>1, Finite, FS_EmptySet, QuotaAssumption DEF Load, Bound

(* A step after which u has no more nodes and no more requests about to    *)
(* bind keeps u's bound.                                                   *)
LEMMA NotMore ==
  ASSUME TypeOK, NEW u \in Users, Load(u) <= Bound(u), misread'[u] = misread[u],
         NodesOf(u)' \subseteq NodesOf(u), Binding(u)' \subseteq Binding(u)
  PROVE  Load(u)' <= Bound(u)'
<1>1. /\ IsFiniteSet(NodesOf(u)) /\ IsFiniteSet(Binding(u))
      /\ Cardinality(NodesOf(u)) \in Nat /\ Cardinality(Binding(u)) \in Nat
      /\ misread[u] \in Nat
  BY Finite DEF TypeOK
<1>2. /\ Cardinality(NodesOf(u)') \in Nat /\ Cardinality(NodesOf(u)') <= Cardinality(NodesOf(u))
      /\ Cardinality(Binding(u)') \in Nat /\ Cardinality(Binding(u)') <= Cardinality(Binding(u))
  BY <1>1, FS_Subset, FS_CardinalityType
<1> QED
  BY <1>1, <1>2, Finite, QuotaAssumption DEF Load, Bound

LEMMA OvershootStep == TypeOK /\ NodeOvershoot /\ [Next]_vars => NodeOvershoot'
<1> SUFFICES ASSUME TypeOK, NodeOvershoot, [Next]_vars, NEW u \in Users, u \notin pro', u # Admin
             PROVE  Load(u)' <= Bound(u)'
  BY DEF NodeOvershoot, Load, Bound, Limited
<1>0. u \notin pro
  BY DEF Next, Heartbeat, CountNodes, BindNode, BindFails, CheckProbes, CountProbes, CheckUrl,
         RecordProbeResults, PruneProbeResults, Upgrade, vars
<1>a. Load(u) <= Bound(u)
  BY <1>0 DEF NodeOvershoot, Load, Bound, Limited
<1>b. misread[u] \in Nat
  BY DEF TypeOK
<1> DEFINE Calm == /\ NodesOf(u)' \subseteq NodesOf(u) /\ Binding(u)' \subseteq Binding(u)
                   /\ misread'[u] = misread[u]
<1>c. Calm => Load(u)' <= Bound(u)'
  BY <1>a, NotMore
<1>1. ASSUME NEW h \in Handlers, NEW v \in Users, NEW n \in Nodes, NEW urls \in SUBSET Urls,
             Heartbeat(h, v, n, urls)
      PROVE  Calm
  <2>1. PICK next \in {"nodes", "bind"} :
          /\ next = "bind" => v \in pro \cup {Admin}
          /\ hdl' = [hdl EXCEPT ![h] = [pc |-> next, user |-> v, node |-> n, urls |-> urls,
                                        todo |-> {}, existing |-> 0]]
    BY <1>1 DEF Heartbeat
  <2>2. Binding(u)' \subseteq Binding(u)
    BY <1>0, <2>1 DEF Binding, TypeOK
  <2> QED
    BY <1>1, <2>2 DEF Heartbeat, NodesOf
<1>2. ASSUME NEW h \in Handlers, CountNodes(h) PROVE Load(u)' <= Bound(u)'
  <2>1. NodesOf(u)' = NodesOf(u) /\ hdl[h].user \in Users
    BY <1>2, Working DEF CountNodes, NodesOf
  <2>2. CASE hdl[h].user # u
    <3>1. Binding(u)' \subseteq Binding(u)
      BY <1>2, <2>2 DEF CountNodes, Binding, TypeOK, IdleHandler
    <3>2. misread'[u] = misread[u]
      BY <1>2, <2>2 DEF CountNodes, TypeOK
    <3> QED
      BY <1>c, <2>1, <3>1, <3>2
  <2>3. CASE hdl' = [hdl EXCEPT ![h] = IdleHandler] /\ UNCHANGED misread
    BY <1>c, <2>1, <2>3 DEF Binding, IdleHandler, TypeOK
  <2>4. CASE hdl[h].user = u /\ RoomForNode(Cardinality(NodesOf(u))) /\ UNCHANGED misread
    <3>1. Cardinality(NodesOf(u)) <= FreeNodeLimit - 1
      BY <2>4, Finite, QuotaAssumption DEF RoomForNode
    <3>2. Binding(u)' \subseteq Handlers
      BY DEF Binding
    <3>3. Cardinality(Binding(u)') <= Cardinality(Handlers) /\ Cardinality(Binding(u)') \in Nat
      BY <3>2, QuotaAssumption, FS_Subset, FS_CardinalityType
    <3> QED
      BY <1>b, <2>1, <2>4, <3>1, <3>3, Finite, QuotaAssumption DEF Load, Bound
  <2>5. CASE /\ hdl[h].user = u /\ hdl' = [hdl EXCEPT ![h].pc = "bind"]
             /\ misread' = [misread EXCEPT ![u] = @ + 1]
    <3>1. Binding(u)' \subseteq Binding(u) \cup {h}
      BY <2>5 DEF Binding, TypeOK
    <3>2. IsFiniteSet(Binding(u)) /\ Cardinality(Binding(u)) \in Nat
      BY Finite
    <3>3. /\ IsFiniteSet(Binding(u) \cup {h})
          /\ \/ Cardinality(Binding(u) \cup {h}) = Cardinality(Binding(u))
             \/ Cardinality(Binding(u) \cup {h}) = Cardinality(Binding(u)) + 1
      BY <3>2, FS_AddElement
    <3>4. /\ Cardinality(Binding(u)') <= Cardinality(Binding(u) \cup {h})
          /\ Cardinality(Binding(u)') \in Nat
      BY <3>1, <3>3, FS_Subset, FS_CardinalityType
    <3>5. misread'[u] = misread[u] + 1
      BY <2>5 DEF TypeOK
    <3> QED
      BY <1>a, <1>b, <2>1, <3>2, <3>3, <3>4, <3>5, Finite, QuotaAssumption DEF Load, Bound
  <2> QED
    BY <1>2, <2>2, <2>3, <2>4, <2>5 DEF CountNodes
<1>3. ASSUME NEW h \in Handlers, BindNode(h) PROVE Load(u)' <= Bound(u)'
  <2>0. misread' = misread
    BY <1>3 DEF BindNode
  <2>1. CASE hdl[h].user = u
    <3>1. NodesOf(u)' \subseteq NodesOf(u) \cup {hdl[h].node}
      BY <1>3, <2>1 DEF BindNode, NodesOf, TypeOK
    <3>2. Binding(u)' = Binding(u) \ {h} /\ h \in Binding(u)
      BY <1>3, <2>1 DEF BindNode, Binding, TypeOK
    <3>3. IsFiniteSet(NodesOf(u)) /\ Cardinality(NodesOf(u)) \in Nat
      BY Finite
    <3>4. /\ IsFiniteSet(NodesOf(u) \cup {hdl[h].node})
          /\ \/ Cardinality(NodesOf(u) \cup {hdl[h].node}) = Cardinality(NodesOf(u))
             \/ Cardinality(NodesOf(u) \cup {hdl[h].node}) = Cardinality(NodesOf(u)) + 1
      BY <3>3, FS_AddElement
    <3>5. /\ Cardinality(NodesOf(u)') <= Cardinality(NodesOf(u) \cup {hdl[h].node})
          /\ Cardinality(NodesOf(u)') \in Nat
      BY <3>1, <3>4, FS_Subset, FS_CardinalityType
    <3>6. Cardinality(Binding(u)') = Cardinality(Binding(u)) - 1
      BY <3>2, Finite, FS_RemoveElement
    <3> QED
      BY <1>a, <1>b, <2>0, <3>3, <3>4, <3>5, <3>6, Finite, QuotaAssumption DEF Load, Bound
  <2>2. CASE hdl[h].user # u
    <3>1. NodesOf(u)' \subseteq NodesOf(u) /\ Binding(u)' \subseteq Binding(u)
      BY <1>3, <2>2 DEF BindNode, NodesOf, Binding, TypeOK
    <3> QED
      BY <1>c, <2>0, <3>1
  <2> QED
    BY <2>1, <2>2
<1>4. ASSUME NEW h \in Handlers, BindFails(h) \/ CheckProbes(h) \/ CountProbes(h) \/ RecordProbeResults(h)
      PROVE  Calm
  <2>1. UNCHANGED <<owner, misread>>
    BY <1>4 DEF BindFails, CheckProbes, CountProbes, RecordProbeResults
  <2>2. \A g \in Handlers \ {h} : hdl'[g] = hdl[g]
    BY <1>4 DEF BindFails, CheckProbes, CountProbes, RecordProbeResults, TypeOK
  <2>3. hdl'[h].pc # "bind"
    <3>1. CASE BindFails(h) \/ RecordProbeResults(h)
      BY <3>1 DEF BindFails, RecordProbeResults, TypeOK, IdleHandler
    <3>2. CASE CheckProbes(h)
      BY <3>2 DEF CheckProbes, TypeOK, IdleHandler
    <3>3. CASE CountProbes(h)
      BY <3>3 DEF CountProbes, TypeOK
    <3> QED
      BY <1>4, <3>1, <3>2, <3>3
  <2> QED
    BY <2>1, <2>2, <2>3 DEF NodesOf, Binding
<1>5. ASSUME NEW h \in Handlers, NEW url \in Urls, CheckUrl(h, url) PROVE Calm
  <2>1. /\ \A g \in Handlers \ {h} : hdl'[g] = hdl[g]
        /\ hdl'[h].pc # "bind" /\ UNCHANGED <<owner, misread>>
    BY <1>5, OneUrl, OneUrlLater
  <2> QED
    BY <2>1 DEF NodesOf, Binding
<1>6. ASSUME NEW n \in Nodes, NEW url \in Urls, PruneProbeResults(n, url) PROVE Calm
  BY <1>6 DEF PruneProbeResults, NodesOf, Binding
<1>7. ASSUME NEW v \in Users, Upgrade(v) PROVE Calm
  BY <1>7 DEF Upgrade, NodesOf, Binding
<1>8. CASE UNCHANGED vars
  BY <1>8, <1>c DEF vars, NodesOf, Binding
<1> QED
  BY <1>c, <1>1, <1>2, <1>3, <1>4, <1>5, <1>6, <1>7, <1>8 DEF Next

(* A free user's fleet exceeds the limit by fewer nodes than there are     *)
(* heartbeats in flight, and one more for each of his node counts that     *)
(* failed, for every limit, fleet, number of handlers and of failures.     *)
THEOREM OvershootBounded == Spec => []NodeOvershoot
<1>1. TypeOK /\ NodeOvershoot /\ [Next]_vars => NodeOvershoot'
  BY OvershootStep
<1> QED
  BY <1>1, OvershootInit, TypeCorrect, PTL DEF Spec

-----------------------------------------------------------------------------
(* The probe budget.  While a request that is not misled goes through its  *)
(* batch, the URLs its user has and those it has looked up so far fit into *)
(* what it counted; a user who was over the budget when it counted gets    *)
(* none of them anew.                                                      *)
Stands(h, u) ==
  \/ /\ hdl[h].existing <= FreeProbeLimit
     /\ Cardinality(UrlsOf(u) \cup Seen(h)) <= hdl[h].existing
  \/ hdl[h].existing > FreeProbeLimit /\ Seen(h) \subseteq UrlsOf(u)

InUrls(h, u) == hdl[h].pc = "urls" /\ hdl[h].user = u /\ h \notin misled

CountStands == \A u \in Limited, h \in Handlers : InUrls(h, u) => Stands(h, u)

LEMMA SmallerSet ==
  ASSUME NEW S \in SUBSET Urls, NEW T \in SUBSET S
  PROVE  /\ IsFiniteSet(S) /\ Cardinality(S) \in Nat
         /\ IsFiniteSet(T) /\ Cardinality(T) \in Nat /\ Cardinality(T) <= Cardinality(S)
<1>1. IsFiniteSet(S)
  BY QuotaAssumption, FS_Subset
<1> QED
  BY <1>1, FS_Subset, FS_CardinalityType

LEMMA SeenTyped == ASSUME TypeOK, NEW h \in Handlers PROVE Seen(h) \in SUBSET Urls
BY DEF TypeOK, Seen

(* A step that leaves h's request alone and does not overtake it.          *)
LEMMA StillStands ==
  ASSUME TypeOK, NEW u \in Users, NEW h \in Handlers, Stands(h, u), hdl'[h] = hdl[h],
         UrlsOf(u)' \subseteq UrlsOf(u) \cup Seen(h), Seen(h) \cap UrlsOf(u) \subseteq UrlsOf(u)'
  PROVE  Stands(h, u)'
<1>1. Seen(h)' = Seen(h) /\ Seen(h) \in SUBSET Urls /\ hdl[h].existing \in Nat
  BY SeenTyped DEF Seen, TypeOK
<1>2. CASE /\ hdl[h].existing <= FreeProbeLimit
           /\ Cardinality(UrlsOf(u) \cup Seen(h)) <= hdl[h].existing
  <2>1. /\ UrlsOf(u) \cup Seen(h) \in SUBSET Urls
        /\ UrlsOf(u)' \cup Seen(h) \in SUBSET (UrlsOf(u) \cup Seen(h))
    BY <1>1, CountsUrls
  <2>2. /\ Cardinality(UrlsOf(u) \cup Seen(h)) \in Nat
        /\ Cardinality(UrlsOf(u)' \cup Seen(h)) \in Nat
        /\ Cardinality(UrlsOf(u)' \cup Seen(h)) <= Cardinality(UrlsOf(u) \cup Seen(h))
    BY <2>1, SmallerSet
  <2>3. Cardinality(UrlsOf(u)' \cup Seen(h)) <= hdl[h].existing
    BY <1>1, <1>2, <2>2
  <2> QED
    BY <1>1, <1>2, <2>3 DEF Stands
<1>3. CASE hdl[h].existing > FreeProbeLimit /\ Seen(h) \subseteq UrlsOf(u)
  BY <1>1, <1>3 DEF Stands
<1> QED
  BY <1>2, <1>3 DEF Stands

(* What a handler that is not overtaken still finds.                       *)
LEMMA NotOvertaken ==
  ASSUME NEW u \in Users, NEW h \in Handlers, hdl[h].pc = "urls", hdl[h].user = u, h \notin Overtaken
  PROVE  /\ UrlsOf(u)' \subseteq UrlsOf(u) \cup Seen(h)
         /\ Seen(h) \cap UrlsOf(u) \subseteq UrlsOf(u)'
BY DEF Overtaken

(* The lookup of one URL: a known one is in UrlsOf already, a new one is   *)
(* counted.                                                                *)
LEMMA LookedUp ==
  ASSUME TypeOK, NEW u \in Users, NEW h \in Handlers, NEW url \in Urls, CheckUrl(h, url),
         hdl[h].user = u, Stands(h, u), hdl'[h].pc = "urls"
  PROVE  Stands(h, u)'
<1> DEFINE s(k) == [hdl[h] EXCEPT !.todo = hdl[h].todo \ {url}, !.existing = k]
<1>1. hdl[h] \in Request /\ hdl[h].existing \in Nat /\ hdl[h].pc = "urls" /\ FreeProbeLimit \in Nat
  BY Working, QuotaAssumption DEF CheckUrl, Request
<1>2. PICK known \in {KnownTo(u, url), FALSE} :
        IF known \/ hdl[h].existing < FreeProbeLimit
        THEN hdl' = [hdl EXCEPT ![h] = s(IF known THEN hdl[h].existing ELSE hdl[h].existing + 1)]
        ELSE hdl' = [hdl EXCEPT ![h] = IdleHandler]
  BY <1>1 DEF CheckUrl, Request
<1>3. known \/ hdl[h].existing < FreeProbeLimit
  <2> SUFFICES ASSUME hdl' = [hdl EXCEPT ![h] = IdleHandler] PROVE FALSE
    BY <1>2
  <2> QED
    BY DEF IdleHandler, TypeOK
<1>4. UrlsOf(u)' = UrlsOf(u)
  BY DEF CheckUrl, UrlsOf, NodesOf
<1>5. Seen(h)' \subseteq Seen(h) \cup {url}
  <2>1. hdl'[h].urls = hdl[h].urls /\ hdl'[h].todo = hdl[h].todo \ {url}
    BY OneUrlLater
  <2> QED
    BY <2>1 DEF Seen
<1>6. UrlsOf(u) \in SUBSET Urls /\ Seen(h) \in SUBSET Urls
  BY CountsUrls, SeenTyped
<1>7. CASE known
  <2>1. url \in UrlsOf(u) /\ hdl'[h].existing = hdl[h].existing
    BY <1>1, <1>2, <1>7 DEF KnownTo, TypeOK, Request
  <2>2. CASE /\ hdl[h].existing <= FreeProbeLimit
             /\ Cardinality(UrlsOf(u) \cup Seen(h)) <= hdl[h].existing
    <3>1. UrlsOf(u) \cup Seen(h)' \in SUBSET (UrlsOf(u) \cup Seen(h))
      BY <1>5, <2>1
    <3>2. /\ Cardinality(UrlsOf(u) \cup Seen(h)) \in Nat
          /\ Cardinality(UrlsOf(u) \cup Seen(h)') \in Nat
          /\ Cardinality(UrlsOf(u) \cup Seen(h)') <= Cardinality(UrlsOf(u) \cup Seen(h))
      BY <1>6, <3>1, SmallerSet
    <3>3. Cardinality(UrlsOf(u) \cup Seen(h)') <= hdl[h].existing
      BY <1>1, <2>2, <3>2
    <3> QED
      BY <1>4, <2>1, <2>2, <3>3 DEF Stands
  <2>3. CASE hdl[h].existing > FreeProbeLimit /\ Seen(h) \subseteq UrlsOf(u)
    BY <1>4, <1>5, <2>1, <2>3 DEF Stands
  <2> QED
    BY <2>2, <2>3 DEF Stands
<1>8. CASE ~known
  <2>1. hdl[h].existing < FreeProbeLimit /\ hdl'[h].existing = hdl[h].existing + 1
    BY <1>1, <1>2, <1>3, <1>8 DEF TypeOK, Request
  <2>2. Cardinality(UrlsOf(u) \cup Seen(h)) <= hdl[h].existing
    BY <1>1, <2>1 DEF Stands
  <2> DEFINE old == UrlsOf(u) \cup Seen(h)
  <2>3. IsFiniteSet(old) /\ Cardinality(old) \in Nat
    BY <1>6, SmallerSet
  <2>4. Cardinality(old \cup {url}) = Cardinality(old) \/ Cardinality(old \cup {url}) = Cardinality(old) + 1
    BY <2>3, FS_AddElement
  <2>5. old \cup {url} \in SUBSET Urls /\ UrlsOf(u) \cup Seen(h)' \in SUBSET (old \cup {url})
    BY <1>5, <1>6
  <2>6. /\ Cardinality(UrlsOf(u) \cup Seen(h)') \in Nat
        /\ Cardinality(UrlsOf(u) \cup Seen(h)') <= Cardinality(old \cup {url})
    BY <2>5, SmallerSet
  <2>7. Cardinality(UrlsOf(u) \cup Seen(h)') <= hdl[h].existing + 1
    BY <1>1, <2>2, <2>3, <2>4, <2>6
  <2>8. hdl'[h].existing <= FreeProbeLimit
    BY <1>1, <2>1
  <2> QED
    BY <1>4, <2>1, <2>7, <2>8 DEF Stands
<1> QED
  BY <1>7, <1>8

LEMMA CountStep == TypeOK /\ CountStands /\ [Next]_vars => CountStands'
<1> SUFFICES ASSUME TypeOK, CountStands, [Next]_vars, NEW u \in Users, u \notin pro', u # Admin,
                    NEW g \in Handlers, InUrls(g, u)'
             PROVE  Stands(g, u)'
  BY DEF CountStands, Limited
<1>0. u \notin pro
  BY DEF Next, Heartbeat, CountNodes, BindNode, BindFails, CheckProbes, CountProbes, CheckUrl,
         RecordProbeResults, PruneProbeResults, Upgrade, vars
<1>a. InUrls(g, u) => Stands(g, u)
  BY <1>0 DEF CountStands, Limited
<1>b. hdl'[g].pc = "urls" /\ hdl'[g].user = u /\ g \notin misled'
  BY DEF InUrls
<1> DEFINE Calm == /\ hdl'[g] = hdl[g]
                   /\ g \notin misled' => g \notin misled
                   /\ hdl[g].pc = "urls" /\ hdl[g].user = u /\ g \notin misled' =>
                        /\ UrlsOf(u)' \subseteq UrlsOf(u) \cup Seen(g)
                        /\ Seen(g) \cap UrlsOf(u) \subseteq UrlsOf(u)'
<1>c. Calm => Stands(g, u)'
  <2> SUFFICES ASSUME Calm PROVE Stands(g, u)'
    OBVIOUS
  <2>1. hdl[g].pc = "urls" /\ hdl[g].user = u /\ g \notin misled
    BY <1>b
  <2>2. Stands(g, u)
    BY <1>a, <2>1 DEF InUrls
  <2> QED
    BY <1>b, <2>1, <2>2, StillStands
<1>d. owner' = owner /\ probed' = probed => UrlsOf(u)' = UrlsOf(u)
  BY DEF UrlsOf, NodesOf
<1>1. ASSUME NEW h \in Handlers, NEW v \in Users, NEW n \in Nodes, NEW urls \in SUBSET Urls,
             Heartbeat(h, v, n, urls)
      PROVE  Calm
  <2>1. g # h
    <3> SUFFICES ASSUME g = h PROVE FALSE
      OBVIOUS
    <3> QED
      BY <1>1, <1>b DEF Heartbeat, TypeOK
  <2> QED
    BY <1>1, <1>d, <2>1 DEF Heartbeat
<1>2. ASSUME NEW h \in Handlers, CountNodes(h) PROVE Calm
  <2>1. g # h
    <3> SUFFICES ASSUME g = h PROVE FALSE
      OBVIOUS
    <3> QED
      BY <1>2, <1>b DEF CountNodes, TypeOK, IdleHandler
  <2>2. UNCHANGED <<owner, probed, misled>>
    BY <1>2 DEF CountNodes
  <2>3. \/ hdl' = [hdl EXCEPT ![h] = IdleHandler]
        \/ \E next \in Pcs : hdl' = [hdl EXCEPT ![h].pc = next]
    BY <1>2 DEF CountNodes, Pcs
  <2>4. hdl'[g] = hdl[g]
    BY <2>1, <2>3 DEF TypeOK
  <2> QED
    BY <1>d, <2>2, <2>4
<1>3. ASSUME NEW h \in Handlers, BindNode(h) PROVE Calm
  <2>1. g # h
    <3> SUFFICES ASSUME g = h PROVE FALSE
      OBVIOUS
    <3> QED
      BY <1>3, <1>b DEF BindNode, TypeOK
  <2>2. hdl'[g] = hdl[g] /\ misled' = misled \cup Overtaken
    BY <1>3, <2>1 DEF BindNode
  <2> QED
    BY <2>2, NotOvertaken
<1>4. ASSUME NEW h \in Handlers, BindFails(h) PROVE Calm
  <2>1. g # h
    <3> SUFFICES ASSUME g = h PROVE FALSE
      OBVIOUS
    <3> QED
      BY <1>4, <1>b DEF BindFails, TypeOK, IdleHandler
  <2> QED
    BY <1>4, <1>d, <2>1 DEF BindFails
<1>5. ASSUME NEW h \in Handlers, CheckProbes(h) PROVE Calm
  <2>1. g # h
    <3> SUFFICES ASSUME g = h PROVE FALSE
      OBVIOUS
    <3>1. hdl[h].user = u \/ hdl'[h].pc = "idle"
      BY <1>5, <1>b DEF CheckProbes, TypeOK, IdleHandler
    <3>2. hdl[h].user = u /\ u \notin pro \cup {Admin}
      BY <1>0, <1>b, <3>1
    <3>3. hdl' = [hdl EXCEPT ![h] = IdleHandler] \/ hdl' = [hdl EXCEPT ![h].pc = "count"]
      BY <1>5, <3>2 DEF CheckProbes
    <3> QED
      BY <1>b, <3>3 DEF TypeOK, IdleHandler
  <2>2. UNCHANGED <<owner, probed, misled>>
    BY <1>5 DEF CheckProbes
  <2>3. \/ hdl' = [hdl EXCEPT ![h] = IdleHandler]
        \/ \E next \in Pcs : hdl' = [hdl EXCEPT ![h].pc = next]
    BY <1>5 DEF CheckProbes, Pcs
  <2>4. hdl'[g] = hdl[g]
    BY <2>1, <2>3 DEF TypeOK
  <2> QED
    BY <1>d, <2>2, <2>4
<1>6. ASSUME NEW h \in Handlers, CountProbes(h) PROVE Stands(g, u)'
  <2>0. UNCHANGED <<owner, probed>>
    BY <1>6 DEF CountProbes
  <2>1. CASE g # h
    BY <1>6, <1>c, <1>d, <2>0, <2>1 DEF CountProbes
  <2>2. CASE g = h
    <3> DEFINE k == Cardinality(UrlsOf(hdl[h].user))
               s == [hdl[h] EXCEPT !.pc = "urls", !.todo = hdl[h].urls, !.existing = k]
    <3>1. hdl' = [hdl EXCEPT ![h] = s]
      BY <1>6, <1>b, <2>2 DEF CountProbes
    <3>2. hdl[h] \in Request
      BY <1>6, Working DEF CountProbes
    <3>3. hdl'[h] = s
      BY <3>1 DEF TypeOK
    <3>4. s.user = hdl[h].user /\ s.urls = hdl[h].urls /\ s.todo = hdl[h].urls /\ s.existing = k
      BY <3>2 DEF Request
    <3>5. hdl'[h].existing = Cardinality(UrlsOf(u)) /\ Seen(h)' = {}
      BY <1>b, <2>2, <3>3, <3>4 DEF Seen
    <3>6. UrlsOf(u)' = UrlsOf(u) /\ UrlsOf(u) \cup {} = UrlsOf(u) /\ Cardinality(UrlsOf(u)) \in Nat
      BY <1>d, <2>0, CountsUrls
    <3> QED
      BY <2>2, <3>5, <3>6, QuotaAssumption DEF Stands
  <2> QED
    BY <2>1, <2>2
<1>7. ASSUME NEW h \in Handlers, NEW url \in Urls, CheckUrl(h, url) PROVE Stands(g, u)'
  <2>1. CASE g # h
    <3>1. /\ hdl'[g] = hdl[g] /\ (g \notin misled' => g \notin misled)
          /\ UNCHANGED <<owner, probed>>
      BY <1>7, <2>1, OneUrl, OneUrlLater
    <3> QED
      BY <1>c, <1>d, <3>1
  <2>2. CASE g = h
    <3>1. hdl[h].pc = "urls" /\ hdl[h].user = u /\ h \notin misled
      BY <1>7, <1>b, <2>2, OneUrl, OneUrlLater
    <3>2. Stands(h, u)
      BY <1>a, <2>2, <3>1 DEF InUrls
    <3> QED
      BY <1>7, <1>b, <2>2, <3>1, <3>2, LookedUp
  <2> QED
    BY <2>1, <2>2
<1>8. ASSUME NEW h \in Handlers, RecordProbeResults(h) PROVE Calm
  <2>1. g # h
    <3> SUFFICES ASSUME g = h PROVE FALSE
      OBVIOUS
    <3> QED
      BY <1>8, <1>b DEF RecordProbeResults, TypeOK, IdleHandler
  <2>2. hdl'[g] = hdl[g] /\ misled' = (misled \cup Overtaken) \ {h}
    BY <1>8, <2>1 DEF RecordProbeResults
  <2> QED
    BY <2>1, <2>2, NotOvertaken
<1>9. ASSUME NEW n \in Nodes, NEW url \in Urls, PruneProbeResults(n, url) PROVE Calm
  <2>1. hdl' = hdl /\ misled' = misled \cup Overtaken
    BY <1>9 DEF PruneProbeResults
  <2> QED
    BY <2>1, NotOvertaken
<1>10. ASSUME NEW v \in Users, Upgrade(v) PROVE Calm
  BY <1>10, <1>d DEF Upgrade
<1>11. CASE UNCHANGED vars
  BY <1>11, <1>c, <1>d DEF vars
<1> QED
  BY <1>c, <1>1, <1>2, <1>3, <1>4, <1>5, <1>6, <1>7, <1>8, <1>9, <1>10, <1>11 DEF Next

(* What a request that recorded a batch of free user u was told.           *)
LEMMA RecordFits ==
  ASSUME TypeOK, CountStands, NEW u \in Limited, NEW h \in Handlers, RecordProbeResults(h),
         hdl[h].user = u, h \notin misled, ~(UrlsOf(u)' \subseteq UrlsOf(u))
  PROVE  Cardinality(UrlsOf(u)') <= FreeProbeLimit
<1>1. Stands(h, u) /\ Seen(h) = hdl[h].urls
  BY DEF CountStands, InUrls, RecordProbeResults, Seen
<1>2. UrlsOf(u)' \subseteq UrlsOf(u) \cup hdl[h].urls
  BY DEF RecordProbeResults, UrlsOf, NodesOf, TypeOK
<1>3. ~(Seen(h) \subseteq UrlsOf(u))
  BY <1>1, <1>2
<1>4. /\ hdl[h].existing <= FreeProbeLimit
      /\ Cardinality(UrlsOf(u) \cup Seen(h)) <= hdl[h].existing
  BY <1>1, <1>3 DEF Stands
<1>5. UrlsOf(u) \cup Seen(h) \in SUBSET Urls /\ UrlsOf(u)' \in SUBSET (UrlsOf(u) \cup Seen(h))
  BY <1>1, <1>2, CountsUrls, SeenTyped
<1>6. /\ Cardinality(UrlsOf(u) \cup Seen(h)) \in Nat
      /\ Cardinality(UrlsOf(u)') \in Nat
      /\ Cardinality(UrlsOf(u)') <= Cardinality(UrlsOf(u) \cup Seen(h))
  BY <1>5, SmallerSet
<1>7. hdl[h].existing \in Nat
  BY DEF TypeOK
<1> QED
  BY <1>4, <1>6, <1>7, QuotaAssumption

(* A free user's URLs grow only by a recorded batch or with a node that    *)
(* changes hands.                                                          *)
LEMMA UrlsGrow ==
  ASSUME TypeOK, [Next]_vars, NEW u \in Users, ~(UrlsOf(u)' \subseteq UrlsOf(u))
  PROVE  \E h \in Handlers :
           \/ RecordProbeResults(h)
           \/ BindNode(h) /\ hdl[h].user = u /\ owner[hdl[h].node] # u
<1>0. SUFFICES ASSUME \A h \in Handlers : ~RecordProbeResults(h)
               PROVE  \E h \in Handlers : BindNode(h) /\ hdl[h].user = u /\ owner[hdl[h].node] # u
  OBVIOUS
<1>1. ASSUME owner' = owner, probed' = probed PROVE FALSE
  BY <1>1 DEF UrlsOf, NodesOf
<1>2. ASSUME NEW n \in Nodes, NEW url \in Urls, PruneProbeResults(n, url) PROVE FALSE
  <2>1. owner' = owner /\ \A m \in Nodes : probed'[m] \subseteq probed[m]
    BY <1>2 DEF PruneProbeResults, TypeOK
  <2> QED
    BY <2>1 DEF UrlsOf, NodesOf
<1>3. PICK h \in Handlers : BindNode(h)
  BY <1>0, <1>1, <1>2 DEF Next, Heartbeat, CountNodes, BindFails, CheckProbes, CountProbes, CheckUrl,
                          Upgrade, vars
<1>4. /\ hdl[h].node \in Nodes /\ hdl[h].user \in Users /\ owner \in [Nodes -> Users \cup {NoUser}]
      /\ owner' = [owner EXCEPT ![hdl[h].node] = hdl[h].user] /\ probed' = probed
  BY <1>3, Working DEF BindNode, TypeOK
<1>5. PICK url : url \in UrlsOf(u)' /\ url \notin UrlsOf(u)
  OBVIOUS
<1>6. PICK n \in Nodes : owner'[n] = u /\ url \in probed[n]
  BY <1>4, <1>5 DEF UrlsOf, NodesOf
<1>7. owner[n] # u
  BY <1>5, <1>6 DEF UrlsOf, NodesOf
<1>8. n = hdl[h].node /\ hdl[h].user = u
  BY <1>4, <1>6, <1>7
<1> QED
  BY <1>3, <1>7, <1>8

(* A free user gets past the budget of URLs only by a request whose count  *)
(* failed or was overtaken while it went through its batch, or by a node   *)
(* that changes hands (CanAddProbe, RecordProbeResults, BindNode), for     *)
(* every limit and number of requests.                                     *)
THEOREM BudgetKept == Spec => ProbeBudget
<1> DEFINE Within ==
      \A u \in Limited :
        /\ ~(UrlsOf(u)' \subseteq UrlsOf(u))
        /\ Cardinality(UrlsOf(u)') > FreeProbeLimit
        => \E h \in Handlers :
             \/ RecordProbeResults(h) /\ (h \in misled \/ hdl[h].user # u)
             \/ BindNode(h) /\ hdl[h].user = u /\ owner[hdl[h].node] # u
<1>1. Init => CountStands
  BY DEF Init, CountStands, InUrls, IdleHandler
<1>2. TypeOK /\ CountStands /\ [Next]_vars => [Within]_vars
  <2> SUFFICES ASSUME TypeOK, CountStands, [Next]_vars, NEW u \in Limited,
                      ~(UrlsOf(u)' \subseteq UrlsOf(u)), Cardinality(UrlsOf(u)') > FreeProbeLimit
               PROVE  \E h \in Handlers :
                        \/ RecordProbeResults(h) /\ (h \in misled \/ hdl[h].user # u)
                        \/ BindNode(h) /\ hdl[h].user = u /\ owner[hdl[h].node] # u
    OBVIOUS
  <2>0. u \in Users
    BY DEF Limited
  <2>1. PICK h \in Handlers : \/ RecordProbeResults(h)
                              \/ BindNode(h) /\ hdl[h].user = u /\ owner[hdl[h].node] # u
    BY <2>0, UrlsGrow
  <2>2. CASE RecordProbeResults(h) /\ hdl[h].user = u /\ h \notin misled
    <3>1. Cardinality(UrlsOf(u)') <= FreeProbeLimit
      BY <2>2, RecordFits
    <3>2. UrlsOf(u)' \in SUBSET Urls
      BY <2>0, TypeStep DEF TypeOK, UrlsOf, NodesOf
    <3>3. Cardinality(UrlsOf(u)') \in Nat
      BY <3>2, SmallerSet
    <3> QED
      BY <3>1, <3>3, QuotaAssumption
  <2> QED
    BY <2>1, <2>2
<1>3. TypeOK /\ CountStands /\ [Next]_vars => CountStands'
  BY CountStep
<1>4. ProbeBudget <=> [][Within]_vars
  BY DEF ProbeBudget
<1> QED
  BY <1>1, <1>2, <1>3, <1>4, TypeCorrect, PTL DEF Spec
=============================================================================
