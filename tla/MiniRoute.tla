----------------------------- MODULE MiniRoute -----------------------------
(***************************************************************************)
(* Source routing: miniroute.c, the network interrupt network_handler of   *)
(* minithread.c and the lossy datagram network of network.c.               *)
(*                                                                         *)
(* Sections between P and V of route_cache_semaphore are single steps.  A  *)
(* path is a sequence; "junk" is a place of a header that nobody has       *)
(* written, and holds whatever the memory of the header held before.  The  *)
(* cache keeps the newest entry of a destination, which hashmap_get finds. *)
(***************************************************************************)
EXTENDS Integers, Sequences, FiniteSets

CONSTANTS Hosts,
          Senders,            \* threads that call miniroute_send_pkt
          HostOf,             \* the host of each sender
          Targets,            \* the hosts it sends to
          Topology,           \* the links of each host in topology.txt
          Residues,           \* what unwritten memory may hold
          MAX_ROUTE_LENGTH,
          UnstableLinks,      \* those that may be added and removed
          MaxEvents           \* bound on sends, changes and duplicates together

ASSUME MiniRouteAssumption ==
    /\ HostOf \in [Senders -> Hosts]
    /\ Targets \in [Senders -> SUBSET Hosts]
    /\ Topology \in [Hosts -> SUBSET Hosts]
    /\ MAX_ROUTE_LENGTH \in Nat \ {0, 1}
    /\ "nowhere" \notin Hosts /\ "junk" \notin Hosts
    /\ UnstableLinks \subseteq Hosts \X Hosts
    /\ Residues # {} /\ Residues \subseteq Hosts \cup {"nowhere"}

VARIABLES links,         \* topology of each host
          cache,         \* route_cache of each host
          request,       \* current_discovery_requests of each host
          snd,           \* where each sender is
          net,           \* the packets under way
          arrived,       \* the data packets given to handle_data_packet
          events,        \* bounded: sends, changes and duplicates
          freedUse       \* a freed route request was used: the behaviour ends

routeVars == <<links, cache, request, snd, net, arrived, events, freedUse>>

NoRoute == [path |-> <<>>, own |-> FALSE]
NoRequest == [state |-> "none", threadsWaiting |-> 0, initiator |-> 0,
              waiting |-> 0, reply |-> <<>>]
IdleSender == [pc |-> "idle", dest |-> "nowhere", path |-> <<>>, own |-> FALSE]

RouteInit ==
    /\ links = Topology
    /\ cache = [h \in Hosts |-> [d \in Hosts |-> NoRoute]]
    /\ request = [h \in Hosts |-> [d \in Hosts |-> NoRequest]]
    /\ snd = [t \in Senders |-> IdleSender]
    /\ net = {}
    /\ arrived = {}
    /\ events = 0
    /\ freedUse = FALSE

-----------------------------------------------------------------------------
(* A packet that is lost is never taken out of net, and one that is        *)
(* duplicated is taken twice.  A packet for no host goes nowhere.  named   *)
(* is the host the caller of miniroute_send_pkt meant, own tells that the  *)
(* route was found by a discovery of this host.                            *)
network_send_pkt(others, p) == net' = others \cup (IF p.to \in Hosts THEN {p} ELSE {})

network_bcast_pkt(others, h, p) ==
    net' = others \cup {[p EXCEPT !.from = h, !.to = d] : d \in links[h]}

network_add_bcast_link ==
    /\ events < MaxEvents
    /\ events' = events + 1
    /\ \E l \in UnstableLinks :
          l[2] \notin links[l[1]] /\ links' = [links EXCEPT ![l[1]] = @ \cup {l[2]}]
    /\ UNCHANGED <<cache, request, snd, net, arrived, freedUse>>

network_remove_bcast_link ==
    /\ events < MaxEvents
    /\ events' = events + 1
    /\ \E l \in UnstableLinks :
          l[2] \in links[l[1]] /\ links' = [links EXCEPT ![l[1]] = @ \ {l[2]}]
    /\ UNCHANGED <<cache, request, snd, net, arrived, freedUse>>

-----------------------------------------------------------------------------
(* miniroute_send_pkt.                                                     *)
Host(t) == HostOf[t]
Dest(t) == snd[t].dest
IsAt(t, pc) == ~freedUse /\ snd[t].pc = pc
Goes(t, pc) == snd' = [snd EXCEPT ![t].pc = pc]
Leaves(t) == snd' = [snd EXCEPT ![t] = IdleSender]
MyRequest(t) == request[Host(t)][Dest(t)]
SetRequest(t, r) == request' = [request EXCEPT ![Host(t)][Dest(t)] = r]
environment == <<links, arrived, events>>

(* A cached route would be used if it were older than a second, but its    *)
(* age is computed in int, where ticks * QUANTA / 3 is never above SECOND: *)
(* every call goes on to a discovery.                                      *)
miniroute_send_pkt(t) ==
    /\ IsAt(t, "idle")
    /\ events < MaxEvents
    /\ events' = events + 1
    /\ \E d \in Targets[t] :
          snd' = [snd EXCEPT ![t] = [IdleSender EXCEPT !.dest = d, !.pc = "ask"]]
    /\ UNCHANGED <<links, cache, request, net, arrived, freedUse>>

(* A sender joins the request for its destination, or makes one.  One that *)
(* was freed but is still in the map is used.                              *)
FaultyAsk(t) ==
    /\ IsAt(t, "ask")
    /\ SetRequest(t, [NoRequest EXCEPT !.state = "open"])
    /\ Goes(t, "discover")
    /\ UNCHANGED <<cache, net, environment, freedUse>>

Ask(t) ==
    /\ IsAt(t, "ask")
    /\ CASE MyRequest(t).state = "none" ->
              /\ SetRequest(t, [NoRequest EXCEPT !.state = "open"])
              /\ Goes(t, "discover")
              /\ UNCHANGED freedUse
         [] MyRequest(t).state = "freed" ->
              freedUse' = TRUE /\ UNCHANGED <<request, snd>>
         [] OTHER ->
              /\ SetRequest(t, [MyRequest(t) EXCEPT !.threadsWaiting = @ + 1])
              /\ Goes(t, "joined")
              /\ UNCHANGED freedUse
    /\ UNCHANGED <<cache, net, environment>>

(* new_miniroute_header and merge_headers.                                 *)
NewPacket(t) ==
    [type |-> "DATA", to |-> "nowhere", from |-> Host(t), dst |-> "nowhere",
     path |-> <<>>, junk |-> "nowhere", ttl |-> MAX_ROUTE_LENGTH,
     named |-> Dest(t), own |-> TRUE]

(* What a place of the path holds.                                         *)
Held(p, i) == IF i > Len(p.path) \/ p.path[i] = "junk" THEN p.junk ELSE p.path[i]
Route(p) == [i \in 1 .. Len(p.path) |-> Held(p, i)]

(* One try.  Nothing but a reply wakes the initiator (alarm_wakeup_        *)
(* semaphore does nothing), so there is no second one.                     *)
Discover(t) ==
    /\ IsAt(t, "discover")
    /\ \E junk \in Residues :
          network_bcast_pkt(net, Host(t),
             [NewPacket(t) EXCEPT !.type = "DISCOVERY", !.dst = Dest(t),
                                  !.path = <<Host(t)>>, !.junk = junk])
    /\ Goes(t, "await")
    /\ UNCHANGED <<cache, request, environment, freedUse>>

Reversed(s) == [i \in 1 .. Len(s) |-> s[Len(s) + 1 - i]]

(* The reply: its path, reversed, is the route.                            *)
Answered(t) ==
    LET path == Reversed(MyRequest(t).reply)
    IN  /\ IsAt(t, "await")
        /\ MyRequest(t).initiator > 0
        /\ SetRequest(t, [MyRequest(t) EXCEPT !.initiator = @ - 1])
        /\ cache' = [cache EXCEPT ![Host(t)][Dest(t)] =
                        [path |-> path, own |-> TRUE]]
        /\ snd' = [snd EXCEPT ![t].pc = "wake", ![t].path = path, ![t].own = TRUE]
        /\ UNCHANGED <<net, environment, freedUse>>

FaultyPosts(r) == IF r.threadsWaiting = 0 THEN 0 ELSE r.threadsWaiting - 1
Posts(r) == r.threadsWaiting

Joined(t, pc) == {u \in Senders : Host(u) = Host(t) /\ Dest(u) = Dest(t) /\ snd[u].pc = pc}
MoveAll(ts, pc, t, mine) ==
    snd' = [u \in Senders |-> IF u \in ts THEN [snd[u] EXCEPT !.pc = pc]
                              ELSE IF u = t THEN [snd[u] EXCEPT !.pc = mine] ELSE snd[u]]

(* One V for each thread that joined: those asleep are woken, the others   *)
(* will find the semaphore above zero.                                     *)
WakeWaiters(t) ==
    LET posts == Posts(MyRequest(t))
        asleep == Joined(t, "asleep")
    IN  /\ IsAt(t, "wake")
        /\ \E up \in SUBSET asleep :
              /\ up = asleep \/ Cardinality(up) = posts
              /\ Cardinality(up) <= posts
              /\ MoveAll(up, "woken", t, "free")
              /\ SetRequest(t, [MyRequest(t) EXCEPT !.waiting = posts - Cardinality(up),
                                                    !.state = "woken"])
        /\ UNCHANGED <<cache, net, environment, freedUse>>

(* Then the request is freed, and only then it leaves the map.  Whoever    *)
(* sleeps on it sleeps forever, and whoever joined and has not come to     *)
(* semaphore_P yet will do that on freed memory.                           *)
FreeRequest(t) ==
    /\ IsAt(t, "free")
    /\ SetRequest(t, [MyRequest(t) EXCEPT !.state = "freed"])
    /\ snd' = [u \in Senders |->
                  CASE u \in Joined(t, "joined") -> [snd[u] EXCEPT !.pc = "late"]
                    [] u \in Joined(t, "asleep") -> [snd[u] EXCEPT !.pc = "stranded"]
                    [] u = t -> [snd[u] EXCEPT !.pc = "delete"]
                    [] OTHER -> snd[u]]
    /\ UNCHANGED <<cache, net, environment, freedUse>>

DeleteRequest(t) ==
    /\ IsAt(t, "delete")
    /\ SetRequest(t, NoRequest)
    /\ Goes(t, "send")
    /\ UNCHANGED <<cache, net, environment, freedUse>>

(* semaphore_P(routeRequest->waiting_semaphore).                           *)
Wait(t) ==
    /\ IsAt(t, "joined")
    /\ IF MyRequest(t).waiting > 0
         THEN SetRequest(t, [MyRequest(t) EXCEPT !.waiting = @ - 1]) /\ Goes(t, "woken")
         ELSE Goes(t, "asleep") /\ UNCHANGED request
    /\ UNCHANGED <<cache, net, environment, freedUse>>

WaitTooLate(t) ==
    /\ IsAt(t, "late")
    /\ freedUse' = TRUE
    /\ UNCHANGED <<cache, request, snd, net, environment>>

(* It reads the cache again; no route is too old here either.              *)
ReRead(t) ==
    LET found == cache[Host(t)][Dest(t)]
    IN  /\ IsAt(t, "woken")
        /\ IF found.path = <<>>
             THEN Leaves(t)
             ELSE snd' = [snd EXCEPT ![t].pc = "send", ![t].path = found.path,
                                     ![t].own = found.own]
        /\ UNCHANGED <<cache, request, net, environment, freedUse>>

(* The data goes to the second host of the route, for the last one.        *)
SendData(t) ==
    LET path == snd[t].path
    IN  /\ IsAt(t, "send")
        /\ \E junk \in Residues :
              LET p == [NewPacket(t) EXCEPT !.path = path, !.junk = junk, !.own = snd[t].own]
              IN  network_send_pkt(net, [p EXCEPT !.to = Held(p, 2), !.dst = Held(p, Len(path))])
        /\ Leaves(t)
        /\ UNCHANGED <<cache, request, environment, freedUse>>

-----------------------------------------------------------------------------
(* network_handler on the host a packet is sent to.                        *)
Drops(left) == net' = left

(* The first place of the path, from the second on, that holds this host,  *)
(* and the packet for the host behind it; the place behind the end of the  *)
(* path holds junk.                                                        *)
Places(p) == {i \in 2 .. Len(p.path) : Held(p, i) = p.to}
Forwards(p, left) ==
    \E i \in Places(p) :
        /\ \A j \in Places(p) : i <= j
        /\ network_send_pkt(left,
              [p EXCEPT !.from = p.to, !.to = Held(p, i + 1), !.ttl = @ - 1])

IsForMe(p) == p.dst = p.to
IsMine(p) == Held(p, 1) = p.to

HandleData(p, left) ==
    /\ p.type = "DATA"
    /\ CASE IsForMe(p) ->
              Drops(left) /\ arrived' = arrived \cup {[at |-> p.to, named |-> p.named, own |-> p.own]}
         [] ~IsForMe(p) /\ (IsMine(p) \/ Places(p) = {} \/ p.ttl = 0) ->
              Drops(left) /\ UNCHANGED arrived
         [] OTHER -> Forwards(p, left) /\ UNCHANGED arrived
    /\ UNCHANGED <<cache, request, freedUse>>

(* The destination caches the way back, as MAX_ROUTE_LENGTH hosts however  *)
(* long it is, and answers through the host the packet came from; the path *)
(* it sends is one longer than what it filled in.                          *)
Padded(s) == [i \in 1 .. MAX_ROUTE_LENGTH |-> IF i <= Len(s) THEN s[i] ELSE "junk"]

Replies(p, left) ==
    LET back == Reversed(Append(Route(p), p.to))
    IN  /\ cache' = [cache EXCEPT ![p.to][p.path[1]] =
                        [path |-> Padded(back), own |-> FALSE]]
        /\ network_send_pkt(left,
              [p EXCEPT !.type = "REPLY", !.from = p.to, !.to = p.from, !.dst = p.path[1],
                        !.path = Append(back, "junk"), !.ttl = MAX_ROUTE_LENGTH])

(* Everybody else adds itself, one place too far, and broadcasts again;    *)
(* the last place it may take is behind the end of the path.               *)
Rebroadcasts(p, left) ==
    IF Len(p.path) >= MAX_ROUTE_LENGTH \/ p.ttl = 1
      THEN Drops(left)
      ELSE network_bcast_pkt(left, p.to,
              [p EXCEPT !.ttl = @ - 1, !.path = @ \o <<"junk", p.to>>])

HandleDiscovery(p, left) ==
    /\ p.type = "DISCOVERY"
    /\ CASE IsForMe(p) -> Replies(p, left)
         [] ~IsForMe(p) /\ IsMine(p) -> Drops(left) /\ UNCHANGED cache
         [] OTHER -> Rebroadcasts(p, left) /\ UNCHANGED cache
    /\ UNCHANGED <<arrived, request, freedUse>>

(* miniroute_recieve_reply, for the host the reply is sent to in the end.  *)
FaultyAskedFor(p) == {d \in Hosts : request[p.to][d].state # "none"}
AskedFor(p) == {p.path[1]}

miniroute_recieve_reply(p, d) ==
    LET r == request[p.to][d]
    IN  CASE r.state = "none" -> UNCHANGED <<request, freedUse>>
          [] r.state = "freed" -> freedUse' = TRUE /\ UNCHANGED request
          [] OTHER -> /\ request' = [request EXCEPT ![p.to][d].reply = Route(p),
                                                    ![p.to][d].initiator = @ + 1]
                      /\ UNCHANGED freedUse

HandleReply(p, left) ==
    /\ p.type = "REPLY"
    /\ IF IsForMe(p)
         THEN Drops(left) /\ \E d \in AskedFor(p) : miniroute_recieve_reply(p, d)
         ELSE /\ IF p.ttl = 1 \/ Places(p) = {} THEN Drops(left) ELSE Forwards(p, left)
              /\ UNCHANGED <<request, freedUse>>
    /\ UNCHANGED <<arrived, cache>>

network_handler ==
    /\ ~freedUse
    /\ \E p \in net : \E left \in {net \ {p}, net} :
          /\ events' = IF left = net THEN events + 1 ELSE events
          /\ events' <= MaxEvents
          /\ HandleData(p, left) \/ HandleDiscovery(p, left) \/ HandleReply(p, left)
    /\ UNCHANGED <<links, snd>>

SenderSteps(t) ==
    \/ Ask(t) \/ Discover(t) \/ Answered(t) \/ WakeWaiters(t) \/ FreeRequest(t)
    \/ DeleteRequest(t) \/ Wait(t) \/ WaitTooLate(t) \/ ReRead(t) \/ SendData(t)

RouteNext ==
    \/ \E t \in Senders : miniroute_send_pkt(t) \/ SenderSteps(t)
    \/ network_handler
    \/ network_add_bcast_link \/ network_remove_bcast_link

RouteSpec == RouteInit /\ [][RouteNext]_routeVars

-----------------------------------------------------------------------------
Working == {"discover", "await", "wake", "free", "delete"}

(* miniroute.h: calls for one destination on a cold cache generate only    *)
(* one discovery.  At most one sender of a host works for a destination,   *)
(* and as long as it does there is the request the others can join.        *)
OneDiscovery ==
    \A t \in Senders :
        snd[t].pc \in Working =>
            /\ MyRequest(t).state # "none"
            /\ \A u \in Senders \ {t} :
                  Host(u) = Host(t) /\ Dest(u) = Dest(t) => snd[u].pc \notin Working

(* Data for which its host found a route itself arrives nowhere but on the *)
(* host its sender named, whatever replies came, late or twice, and        *)
(* whatever the memory behind the routes held.                             *)
NoMisdelivery == \A a \in arrived : a.own => a.at = a.named

(* When the initiator of a request has its reply, everybody who joined     *)
(* comes back (unless a sender joins too late and uses freed memory).      *)
WaiterWoken ==
    \A t \in Senders :
        (/\ snd[t].pc \in {"joined", "asleep"}
         /\ MyRequest(t).state = "open" /\ MyRequest(t).initiator > 0)
            ~> (snd[t].pc \notin {"joined", "asleep", "stranded"} \/ freedUse)
=============================================================================
