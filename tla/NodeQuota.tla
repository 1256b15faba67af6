----------------------------- MODULE NodeQuota -----------------------------
(***************************************************************************)
(* The free tier's limits in the heartbeat handler (handleHeartbeatIngest, *)
(* cmd/server/main.go; CanAddNode, CanAddProbe, pkg/store/billing.go): how *)
(* many nodes a user owns and how many distinct URLs they probe.           *)
(*                                                                         *)
(* Every read of the two checks is a query of its own, made without p.mu:  *)
(* other handlers bind nodes and record probes in between.  The errors are *)
(* dropped: an unread plan is free, an unread count is 0 and a URL that    *)
(* could not be looked up is new.                                          *)
(***************************************************************************)
EXTENDS Integers, FiniteSets

CONSTANTS
  Users, Nodes, Urls, NoUser,
  Admin,             \* user 1, whom no limit applies to
  Handlers,          \* heartbeat requests the server can be serving at once
  FreeNodeLimit, FreeProbeLimit,
  Movable,           \* whether a node may turn up with another user's token
  MayUpgrade,        \* whether a free user may become pro
  MaxMisreads        \* bound on the failed node counts of a user

ASSUME QuotaAssumption ==
  /\ NoUser \notin Users
  /\ IsFiniteSet(Nodes) /\ IsFiniteSet(Handlers) /\ IsFiniteSet(Urls)
  /\ FreeNodeLimit \in Nat \ {0} /\ FreeProbeLimit \in Nat /\ MaxMisreads \in Nat
  /\ Movable \in BOOLEAN /\ MayUpgrade \in BOOLEAN

VARIABLES
  pro,       \* users whose plan is "pro"
  owner,     \* node_owners
  probed,    \* probe_results: URLs recorded for each node
  hdl,       \* handlers: the request and what is left to do of it
  misread,   \* history: node counts of a user that failed and let a request pass
  misled     \* history: handlers whose count of URLs failed or was overtaken

vars == <<pro, owner, probed, hdl, misread, misled>>

IdleHandler ==
  [pc |-> "idle", user |-> NoUser, node |-> NoUser, urls |-> {}, todo |-> {}, existing |-> 0]

NodesOf(u) == {n \in Nodes : owner[n] = u}
UrlsOf(u) == UNION {probed[n] : n \in NodesOf(u)}

\* Bug: the limit itself still leaves room.
RoomForNodeOffByOne(count) == count <= FreeNodeLimit
RoomForNode(count) == count < FreeNodeLimit

\* Bug: the lookup forgets whose nodes it is about.
KnownAnywhere(u, url) == \E n \in Nodes : url \in probed[n]
(* Only URLs the user has not probed before count.                         *)
KnownTo(u, url) == url \in UrlsOf(u)

-----------------------------------------------------------------------------
(* A heartbeat of node n arrives with user u's token.  A pro plan that     *)
(* could not be read is a free one.                                        *)
Heartbeat(h, u, n, urls) ==
  /\ hdl[h].pc = "idle"
  /\ Movable \/ owner[n] \in {NoUser, u}
  /\ \E next \in {"nodes", "bind"} :
       /\ next = "nodes" => u # Admin
       /\ next = "bind" => u \in pro \cup {Admin}
       /\ hdl' = [hdl EXCEPT ![h] = [pc |-> next, user |-> u, node |-> n, urls |-> urls,
                                     todo |-> {}, existing |-> 0]]
  /\ UNCHANGED <<pro, owner, probed, misread, misled>>

(* CanAddNode: 402 at the limit.                                           *)
CountNodes(h) ==
  LET u == hdl[h].user
      Pass == hdl' = [hdl EXCEPT ![h].pc = "bind"]
  IN
  /\ hdl[h].pc = "nodes"
  /\ \/ RoomForNode(Cardinality(NodesOf(u))) /\ Pass /\ UNCHANGED misread
     \/ /\ ~RoomForNode(Cardinality(NodesOf(u)))
        /\ hdl' = [hdl EXCEPT ![h] = IdleHandler]
        /\ UNCHANGED misread
     \/ /\ RoomForNode(0) /\ misread[u] < MaxMisreads
        /\ Pass
        /\ misread' = [misread EXCEPT ![u] = @ + 1]
  /\ UNCHANGED <<pro, owner, probed, misled>>

Seen(g) == hdl[g].urls \ hdl[g].todo

(* The handlers for whom the count does not stand any more: their user has *)
(* a URL more that they have not looked up, or lost one that they have.    *)
Overtaken ==
  {g \in Handlers :
     hdl[g].pc = "urls" /\ \E u \in Users :
       /\ u = hdl[g].user
       /\ \/ ~(UrlsOf(u)' \subseteq UrlsOf(u) \cup Seen(g))
          \/ ~(Seen(g) \cap UrlsOf(u) \subseteq UrlsOf(u)')}

BindNode(h) ==
  /\ hdl[h].pc = "bind"
  /\ owner' = [owner EXCEPT ![hdl[h].node] = hdl[h].user]
  /\ UNCHANGED <<pro, probed, misread>>
  /\ misled' = misled \cup Overtaken
  /\ hdl' = [hdl EXCEPT ![h].pc = "probe"]

BindFails(h) ==
  /\ hdl[h].pc = "bind"
  /\ hdl' = [hdl EXCEPT ![h] = IdleHandler]
  /\ UNCHANGED <<pro, owner, probed, misread, misled>>

(* After Ingest: the plan is read again when there are probes to record.   *)
CheckProbes(h) ==
  LET u == hdl[h].user IN
  /\ hdl[h].pc = "probe"
  /\ \/ hdl[h].urls = {} /\ hdl' = [hdl EXCEPT ![h] = IdleHandler]
     \/ /\ hdl[h].urls # {} /\ u \in pro \cup {Admin}
        /\ hdl' = [hdl EXCEPT ![h].pc = "urls"]
     \/ /\ hdl[h].urls # {} /\ u # Admin
        /\ hdl' = [hdl EXCEPT ![h].pc = "count"]
  /\ UNCHANGED <<pro, owner, probed, misread, misled>>

CountProbes(h) ==
  /\ hdl[h].pc = "count"
  /\ \E failed \in BOOLEAN :
       /\ hdl' = [hdl EXCEPT ![h] = [hdl[h] EXCEPT
                    !.pc = "urls", !.todo = hdl[h].urls,
                    !.existing = IF failed THEN 0 ELSE Cardinality(UrlsOf(hdl[h].user))]]
       /\ misled' = IF failed THEN misled \cup {h} ELSE misled
  /\ UNCHANGED <<pro, owner, probed, misread>>

(* One URL of the batch; a batch over the budget is dropped as a whole.    *)
CheckUrl(h, url) ==
  /\ hdl[h].pc = "urls" /\ url \in hdl[h].todo
  /\ \E known \in {KnownTo(hdl[h].user, url), FALSE} :
       IF known \/ hdl[h].existing < FreeProbeLimit
       THEN /\ hdl' = [hdl EXCEPT ![h] = [hdl[h] EXCEPT
                         !.todo = hdl[h].todo \ {url},
                         !.existing = IF known THEN @ ELSE @ + 1]]
            /\ UNCHANGED misled
       ELSE /\ hdl' = [hdl EXCEPT ![h] = IdleHandler]
            /\ misled' = misled \ {h}
  /\ UNCHANGED <<pro, owner, probed, misread>>

(* One transaction under p.mu.                                             *)
RecordProbeResults(h) ==
  /\ hdl[h].pc = "urls" /\ hdl[h].todo = {}
  /\ \/ probed' = [probed EXCEPT ![hdl[h].node] = @ \cup hdl[h].urls]
     \/ UNCHANGED probed
  /\ UNCHANGED <<pro, owner, misread>>
  /\ misled' = (misled \cup Overtaken) \ {h}
  /\ hdl' = [hdl EXCEPT ![h] = IdleHandler]

(* The janitor's retention: results older than the window go away.         *)
PruneProbeResults(n, url) ==
  /\ url \in probed[n]
  /\ probed' = [probed EXCEPT ![n] = @ \ {url}]
  /\ UNCHANGED <<pro, owner, hdl, misread>>
  /\ misled' = misled \cup Overtaken

Upgrade(u) ==
  /\ MayUpgrade /\ u \notin pro
  /\ pro' = pro \cup {u}
  /\ UNCHANGED <<owner, probed, hdl, misread, misled>>

Init ==
  /\ pro = {}
  /\ owner = [n \in Nodes |-> NoUser]
  /\ probed = [n \in Nodes |-> {}]
  /\ hdl = [h \in Handlers |-> IdleHandler]
  /\ misread = [u \in Users |-> 0]
  /\ misled = {}

Next ==
  \/ \E h \in Handlers :
       \/ \E u \in Users, n \in Nodes, urls \in SUBSET Urls : Heartbeat(h, u, n, urls)
       \/ CountNodes(h) \/ BindNode(h) \/ BindFails(h)
       \/ CheckProbes(h) \/ CountProbes(h) \/ RecordProbeResults(h)
       \/ \E url \in Urls : CheckUrl(h, url)
  \/ \E n \in Nodes, url \in Urls : PruneProbeResults(n, url)
  \/ \E u \in Users : Upgrade(u)

Spec == Init /\ [][Next]_vars

-----------------------------------------------------------------------------
Pcs == {"idle", "nodes", "bind", "probe", "count", "urls"}

TypeOK ==
  /\ pro \subseteq Users
  /\ owner \in [Nodes -> Users \cup {NoUser}]
  /\ probed \in [Nodes -> SUBSET Urls]
  /\ hdl \in [Handlers -> [pc : Pcs, user : Users \cup {NoUser}, node : Nodes \cup {NoUser},
                           urls : SUBSET Urls, todo : SUBSET Urls, existing : Nat]]
  /\ misread \in [Users -> Nat]
  /\ misled \subseteq {h \in Handlers : hdl[h].pc = "urls"}
  /\ \A h \in Handlers : hdl[h].pc # "idle" => hdl[h].user \in Users /\ hdl[h].node \in Nodes

Limited == Users \ (pro \cup {Admin})
Binding(u) == {h \in Handlers : hdl[h].pc = "bind" /\ hdl[h].user = u}

(* Overlapping heartbeats can carry a free user over the node limit, and   *)
(* so can counts that failed: by fewer nodes than there are requests in    *)
(* flight, and one more for every such count.  Any other request passed    *)
(* CanAddNode with room for at least one node.                             *)
NodeOvershoot ==
  \A u \in Limited :
    Cardinality(NodesOf(u)) + Cardinality(Binding(u))
      <= FreeNodeLimit - 1 + Cardinality(Handlers) + misread[u]

(* A request takes a free user's distinct URLs past the budget only if its *)
(* count failed or other requests or the janitor changed those URLs while  *)
(* CanAddProbe went through the batch; the other ways past it are a node   *)
(* that changed hands, before its batch is recorded or with the URLs it    *)
(* has (RecordProbeResults, BindNode).                                     *)
ProbeBudget ==
  [][\A u \in Limited :
       /\ ~(UrlsOf(u)' \subseteq UrlsOf(u))
       /\ Cardinality(UrlsOf(u)') > FreeProbeLimit
       => \E h \in Handlers :
            \/ RecordProbeResults(h) /\ (h \in misled \/ hdl[h].user # u)
            \/ BindNode(h) /\ hdl[h].user = u /\ owner[hdl[h].node] # u]_vars

-----------------------------------------------------------------------------
(* main.go promises that only going past the limit requires an upgrade;    *)
(* the code does not keep it: CanAddNode wants room for one more node even *)
(* when the heartbeat is of a node the user already has.                   *)
WithinLimitAccepted ==
  \A h \in Handlers :
    LET u == hdl[h].user IN
    /\ hdl[h].pc = "nodes" /\ owner[hdl[h].node] = u
    /\ Cardinality(NodesOf(u)) <= FreeNodeLimit
    => RoomForNode(Cardinality(NodesOf(u)))
=============================================================================
