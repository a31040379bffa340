--------------------------- MODULE TopologyMapper ---------------------------
(***************************************************************************)
(* TopologyMapper and the map topo|:map builds with it from the discovered *)
(* hosts, the local interfaces and the route to the Internet: nodes in     *)
(* insertion order without duplicates, and directed edges from the local   *)
(* address.                                                                *)
(***************************************************************************)
EXTENDS Naturals, Sequences, FiniteSets, Vectors

NoAddress == ""

Node(name, address, type) == [name |-> name, address |-> address, type |-> type]
Edge(from, to) == [from |-> from, to |-> to]

(* Address is the identity of a node; without one, its name.               *)
hasNode(nodes, node) ==
  \E i \in DOMAIN nodes :
    IF node.address # NoAddress THEN nodes[i].address = node.address
    ELSE node.name # "" /\ nodes[i].name = node.name

addNode(nodes, node) ==
  IF (node.name = "" /\ node.address = NoAddress) \/ hasNode(nodes, node)
  THEN nodes ELSE Append(nodes, node)

hasEdge(edges, edge) == \E i \in DOMAIN edges : edges[i] = edge

addEdge(edges, edge) ==
  IF \/ edge.from = NoAddress \/ edge.to = NoAddress
     \/ edge.from = edge.to
     \/ hasEdge(edges, edge)
  THEN edges ELSE Append(edges, edge)

-----------------------------------------------------------------------------
(* The local side: `interfaces` is what getNetworkInterfaces delivers --   *)
(* IPv4 interfaces other than lo, in the system's order -- and `route`     *)
(* what getLocalTopologyInfo reads from `ip route get`, empty addresses    *)
(* where there is no route or no gateway on it.                            *)
Active(interfaces) ==
  Selected(interfaces, {i \in DOMAIN interfaces :
                          interfaces[i].up /\ interfaces[i].address # NoAddress})

localIP(interfaces, route) ==
  IF route.localAddress # NoAddress THEN route.localAddress
  ELSE IF Active(interfaces) # <<>> THEN Active(interfaces)[1].address
  ELSE NoAddress

LocalNodes(interfaces) ==
  [i \in DOMAIN Active(interfaces) |->
     Node(Active(interfaces)[i].name, Active(interfaces)[i].address, "LOCAL")]

(* The online hosts in the order of the store, but those with an excluded  *)
(* address.                                                                *)
OnlineBut(hosts, excluded) ==
  Selected(hosts, {i \in DOMAIN hosts : hosts[i].online /\ hosts[i].ip \notin excluded})

(* Fault: the gateway is left to its edge and gets no node.                *)
HostNodesNoGateway(hosts, local, gateway) ==
  LET others == OnlineBut(hosts, {local, gateway})
  IN  [i \in DOMAIN others |-> Node(others[i].ip, others[i].ip, "HOST")]

(* The online hosts other than the local machine.                          *)
HostNodes(hosts, local, gateway) ==
  LET others == OnlineBut(hosts, {local})
  IN  [i \in DOMAIN others |->
         IF others[i].ip = gateway THEN Node("gateway", others[i].ip, "GATEWAY")
                                   ELSE Node(others[i].ip, others[i].ip, "HOST")]

(* The edge to the gateway first, then one to every other online host.     *)
HostEdges(hosts, local, gateway) ==
  LET others == OnlineBut(hosts, {local, gateway})
  IN  <<Edge(local, gateway)>>
      \o [i \in DOMAIN others |-> Edge(local, others[i].ip)]

AddingNodes == INSTANCE VectorLoop WITH Step <- addNode
AddingEdges == INSTANCE VectorLoop WITH Step <- addEdge

topologyMap(hosts, interfaces, route) ==
  LET local == localIP(interfaces, route)
      gateway == route.gatewayAddress
  IN  [nodes |-> AddingNodes!Run(<<>>,
                   LocalNodes(interfaces) \o HostNodes(hosts, local, gateway)),
       edges |-> AddingEdges!Run(<<>>, HostEdges(hosts, local, gateway))]
=============================================================================
