-------------------------- MODULE MiniRouteProofs --------------------------
(***************************************************************************)
(* Theorems about MiniRoute, for any hosts, links, senders and packets,    *)
(* lost, delayed or taken twice, and any contents of unwritten memory.     *)
(***************************************************************************)
EXTENDS MiniRoute, SequenceTheorems, TLAPS

(* Requests and senders are records, whatever is in their fields, and a    *)
(* sender that is busy has a host for its destination.                     *)
RequestShape ==
    /\ request = [h \in Hosts |-> [d \in Hosts |-> request[h][d]]]
    /\ \A h, d \in Hosts : "state" \in DOMAIN request[h][d]

SenderShape ==
    /\ snd = [t \in Senders |-> snd[t]]
    /\ \A t \in Senders :
          /\ {"pc", "dest", "path", "own"} \subseteq DOMAIN snd[t]
          /\ snd[t].pc # "idle" => snd[t].dest \in Hosts

IInv == RequestShape /\ SenderShape /\ OneDiscovery

(* Nobody works and nothing is asked for.                                  *)
LEMMA InitIInv == RouteInit => IInv
BY DEF RouteInit, IInv, RequestShape, SenderShape, OneDiscovery, NoRequest, IdleSender, Working

(* A step that takes nobody into the work on a request, and no request out *)
(* of the map, leaves one worker for each.                                 *)
LEMMA NoNewWorker ==
  ASSUME IInv,
         \A u \in Senders : snd'[u].pc \in Working =>
             snd[u].pc \in Working /\ snd'[u].dest = snd[u].dest,
         \A h, d \in Hosts : request[h][d].state # "none" => request'[h][d].state # "none"
  PROVE  OneDiscovery'
<1>1. ASSUME NEW t \in Senders, snd'[t].pc \in Working
      PROVE  MyRequest(t).state # "none" /\ MyRequest(t)'.state # "none"
  <2>1. snd[t].pc \in Working /\ snd'[t].dest = snd[t].dest
    BY <1>1
  <2>2. snd[t].dest \in Hosts /\ HostOf[t] \in Hosts
    BY <2>1, MiniRouteAssumption DEF IInv, SenderShape, Working
  <2>3. MyRequest(t).state # "none"
    BY <2>1 DEF IInv, OneDiscovery
  <2> QED
    BY <2>1, <2>2, <2>3 DEF MyRequest, Host, Dest
<1>2. ASSUME NEW t \in Senders, snd'[t].pc \in Working,
             NEW u \in Senders \ {t}, HostOf[u] = HostOf[t], snd'[u].dest = snd'[t].dest
      PROVE  snd'[u].pc \notin Working
  BY <1>2 DEF IInv, OneDiscovery, Host, Dest
<1> QED
  BY <1>1, <1>2 DEF OneDiscovery, MyRequest, Host, Dest

(* SetRequest replaces the request of one sender and leaves the others.    *)
LEMMA RequestSet ==
  ASSUME IInv, NEW t \in Senders, snd[t].pc # "idle", NEW r, "state" \in DOMAIN r,
         SetRequest(t, r)
  PROVE  /\ RequestShape'
         /\ \A h, d \in Hosts : request'[h][d] =
                IF h = Host(t) /\ d = Dest(t) THEN r ELSE request[h][d]
<1>1. HostOf[t] \in Hosts /\ snd[t].dest \in Hosts
  BY MiniRouteAssumption DEF IInv, SenderShape
<1>2. request' = [request EXCEPT ![HostOf[t]][snd[t].dest] = r]
  BY DEF SetRequest, Host, Dest
<1>3. \A h, d \in Hosts : request'[h][d] =
          IF h = HostOf[t] /\ d = snd[t].dest THEN r ELSE request[h][d]
  BY <1>1, <1>2 DEF IInv, RequestShape
<1>4. request' = [h \in Hosts |-> [d \in Hosts |-> request'[h][d]]]
  BY <1>1, <1>2 DEF IInv, RequestShape
<1> QED
  BY <1>3, <1>4 DEF IInv, RequestShape, Host, Dest

(* The same when only fields of the request change and its state does not  *)
(* become "none".                                                          *)
LEMMA FieldsSet ==
  ASSUME IInv, NEW t \in Senders, snd[t].pc # "idle", NEW r, "state" \in DOMAIN r,
         r.state # "none", SetRequest(t, r)
  PROVE  /\ RequestShape'
         /\ \A h, d \in Hosts : request[h][d].state # "none" => request'[h][d].state # "none"
BY RequestSet

(* A step that leaves the requests alone.                                  *)
LEMMA SameRequests ==
  ASSUME IInv, UNCHANGED request
  PROVE  /\ RequestShape'
         /\ \A h, d \in Hosts : request[h][d].state # "none" => request'[h][d].state # "none"
BY DEF IInv, RequestShape

(* A step of one sender: what is left of its record is a record, and it    *)
(* keeps its destination or goes back to idle.                             *)
LEMMA SenderMoves ==
  ASSUME IInv, NEW t \in Senders, NEW r, snd' = [snd EXCEPT ![t] = r],
         {"pc", "dest", "path", "own"} \subseteq DOMAIN r,
         r.pc # "idle" => r.dest \in Hosts
  PROVE  /\ SenderShape'
         /\ \A u \in Senders : snd'[u] = IF u = t THEN r ELSE snd[u]
BY DEF IInv, SenderShape

-----------------------------------------------------------------------------
(* The call itself: t stands before "ask".                                 *)
LEMMA SendPktPreserves ==
  ASSUME IInv, NEW t \in Senders, miniroute_send_pkt(t) PROVE IInv'
<1>1. PICK d \in Targets[t] :
          snd' = [snd EXCEPT ![t] = [IdleSender EXCEPT !.dest = d, !.pc = "ask"]]
  BY DEF miniroute_send_pkt
<1>2. d \in Hosts
  BY <1>1, MiniRouteAssumption
<1> DEFINE r == [IdleSender EXCEPT !.dest = d, !.pc = "ask"]
<1>3. {"pc", "dest", "path", "own"} \subseteq DOMAIN r /\ r.dest = d /\ r.pc = "ask"
  BY DEF IdleSender
<1> HIDE DEF r
<1>4. SenderShape' /\ \A u \in Senders : snd'[u] = IF u = t THEN r ELSE snd[u]
  BY <1>1, <1>2, <1>3, SenderMoves DEF r
<1>5. UNCHANGED request
  BY DEF miniroute_send_pkt
<1>6. OneDiscovery'
  BY <1>3, <1>4, <1>5, SameRequests, NoNewWorker DEF Working
<1> QED
  BY <1>4, <1>5, <1>6, SameRequests DEF IInv

(* The one that asks first works, and no other did: there was no request.  *)
LEMMA AskPreserves ==
  ASSUME IInv, NEW t \in Senders, Ask(t) PROVE IInv'
<1>1. snd[t].pc = "ask" /\ snd[t].dest \in Hosts /\ HostOf[t] \in Hosts
  BY MiniRouteAssumption DEF Ask, IsAt, IInv, SenderShape
<1>2. CASE MyRequest(t).state = "none"
  <2> DEFINE r == [NoRequest EXCEPT !.state = "open"]
  <2>1. SetRequest(t, r) /\ Goes(t, "discover")
    BY <1>2 DEF Ask
  <2>2. "state" \in DOMAIN r /\ r.state = "open"
    BY DEF NoRequest
  <2> HIDE DEF r
  <2>3. /\ RequestShape'
        /\ \A h, d \in Hosts : request'[h][d] =
               IF h = Host(t) /\ d = Dest(t) THEN r ELSE request[h][d]
    BY <1>1, <2>1, <2>2, RequestSet
  <2>4. /\ SenderShape'
        /\ \A u \in Senders : snd'[u].dest = snd[u].dest
        /\ \A u \in Senders \ {t} : snd'[u].pc = snd[u].pc
    BY <1>1, <2>1 DEF Goes, IInv, SenderShape
  <2>5. ASSUME NEW u \in Senders, snd[u].pc \in Working
        PROVE  ~(Host(u) = Host(t) /\ Dest(u) = Dest(t))
    BY <1>2, <2>5 DEF IInv, OneDiscovery, MyRequest
  <2>6. ASSUME NEW u \in Senders, snd'[u].pc \in Working
        PROVE  /\ MyRequest(u)'.state # "none"
               /\ \A v \in Senders \ {u} :
                     HostOf[v] = HostOf[u] /\ snd'[v].dest = snd'[u].dest =>
                         snd'[v].pc \notin Working
    <3>1. CASE u = t
      BY <1>1, <2>2, <2>3, <2>4, <2>5, <3>1 DEF MyRequest, Host, Dest
    <3>2. CASE u # t
      <4>1. snd[u].pc \in Working /\ snd[u].dest \in Hosts /\ HostOf[u] \in Hosts
        BY <2>4, <2>6, <3>2, MiniRouteAssumption DEF IInv, SenderShape, Working
      <4>2. request[HostOf[u]][snd[u].dest].state # "none"
        BY <4>1 DEF IInv, OneDiscovery, MyRequest, Host, Dest
      <4>3. MyRequest(u)'.state # "none"
        BY <2>2, <2>3, <2>4, <4>1, <4>2 DEF MyRequest, Host, Dest
      <4> QED
        BY <2>4, <2>5, <4>1, <4>3 DEF IInv, OneDiscovery, Host, Dest
    <3> QED
      BY <3>1, <3>2
  <2> QED
    BY <2>3, <2>4, <2>6 DEF IInv, OneDiscovery, Host, Dest
<1>3. CASE MyRequest(t).state = "freed"
  BY <1>3, SameRequests, NoNewWorker DEF Ask, IInv, SenderShape
<1>4. CASE MyRequest(t).state \notin {"none", "freed"}
  <2> DEFINE r == [MyRequest(t) EXCEPT !.threadsWaiting = @ + 1]
  <2>1. SetRequest(t, r) /\ Goes(t, "joined")
    BY <1>4 DEF Ask
  <2>2. "state" \in DOMAIN r /\ r.state # "none"
    BY <1>1, <1>4 DEF IInv, RequestShape, MyRequest, Host, Dest
  <2> HIDE DEF r
  <2>3. SenderShape' /\ \A u \in Senders :
            snd'[u].pc \in Working => snd[u].pc \in Working /\ snd'[u].dest = snd[u].dest
    BY <1>1, <2>1 DEF Goes, IInv, SenderShape, Working
  <2> QED
    BY <1>1, <2>1, <2>2, <2>3, FieldsSet, NoNewWorker DEF IInv
<1> QED
  BY <1>2, <1>3, <1>4

(* Steps of one sender that leave the requests alone and take it nowhere   *)
(* it works from before.                                                   *)
LEMMA SenderOnlyPreserves ==
  ASSUME IInv, NEW t \in Senders, snd[t].pc # "idle", UNCHANGED request, NEW r,
         snd' = [snd EXCEPT ![t] = r],
         {"pc", "dest", "path", "own"} \subseteq DOMAIN r,
         r = IdleSender \/ r.dest = snd[t].dest,
         r.pc \in Working => snd[t].pc \in Working
  PROVE  IInv'
<1>1. /\ r.pc # "idle" => r.dest \in Hosts
      /\ r.pc \in Working => r.dest = snd[t].dest
  BY DEF IInv, SenderShape, IdleSender, Working
<1>2. SenderShape' /\ \A u \in Senders : snd'[u] = IF u = t THEN r ELSE snd[u]
  BY <1>1, SenderMoves
<1>3. OneDiscovery'
  BY <1>1, <1>2, SameRequests, NoNewWorker
<1> QED
  BY <1>2, <1>3, SameRequests DEF IInv

(* The broadcast: the initiator works on, and waits.                       *)
LEMMA DiscoverPreserves ==
  ASSUME IInv, NEW t \in Senders, Discover(t) PROVE IInv'
<1>1. snd[t].pc = "discover" /\ UNCHANGED request /\ snd' = [snd EXCEPT ![t].pc = "await"]
  BY DEF Discover, IsAt, Goes
<1> DEFINE r == [snd[t] EXCEPT !.pc = "await"]
<1>2. {"pc", "dest", "path", "own"} \subseteq DOMAIN r /\ r.dest = snd[t].dest
  BY DEF IInv, SenderShape
<1>3. snd' = [snd EXCEPT ![t] = r] /\ snd[t].pc \in Working
  BY <1>1 DEF Working
<1> HIDE DEF r
<1> QED
  BY <1>1, <1>2, <1>3, SenderOnlyPreserves

(* A sender that was woken takes the route from the cache, or gives up.    *)
LEMMA ReReadPreserves ==
  ASSUME IInv, NEW t \in Senders, ReRead(t) PROVE IInv'
<1>1. snd[t].pc = "woken" /\ UNCHANGED request
  BY DEF ReRead, IsAt
<1>2. PICK r : /\ snd' = [snd EXCEPT ![t] = r]
               /\ {"pc", "dest", "path", "own"} \subseteq DOMAIN r
               /\ r = IdleSender \/ r.dest = snd[t].dest
               /\ r.pc \in {"idle", "send"}
  <2> DEFINE found == cache[Host(t)][Dest(t)]
             r == [snd[t] EXCEPT !.pc = "send", !.path = found.path, !.own = found.own]
  <2>1. CASE found.path = <<>>
    <3>1. snd' = [snd EXCEPT ![t] = IdleSender]
      BY <2>1 DEF ReRead, Leaves
    <3>2. {"pc", "dest", "path", "own"} \subseteq DOMAIN IdleSender /\ IdleSender.pc = "idle"
      BY DEF IdleSender
    <3> QED
      BY <3>1, <3>2
  <2>2. CASE found.path # <<>>
    <3>1. snd' = [snd EXCEPT ![t] = r]
      BY <2>2 DEF ReRead
    <3>2. /\ {"pc", "dest", "path", "own"} \subseteq DOMAIN r
          /\ r.dest = snd[t].dest /\ r.pc = "send"
      BY DEF IInv, SenderShape
    <3> HIDE DEF r
    <3> QED
      BY <3>1, <3>2
  <2> QED
    BY <2>1, <2>2
<1> QED
  BY <1>1, <1>2, SenderOnlyPreserves DEF Working

(* The data is sent, and the sender is done.                               *)
LEMMA SendDataPreserves ==
  ASSUME IInv, NEW t \in Senders, SendData(t) PROVE IInv'
<1>1. snd[t].pc = "send" /\ UNCHANGED request /\ snd' = [snd EXCEPT ![t] = IdleSender]
  BY DEF SendData, IsAt, Leaves
<1>2. {"pc", "dest", "path", "own"} \subseteq DOMAIN IdleSender /\ IdleSender.pc \notin Working
  BY DEF IdleSender, Working
<1> QED
  BY <1>1, <1>2, SenderOnlyPreserves

(* The initiator takes the reply.                                          *)
LEMMA AnsweredPreserves ==
  ASSUME IInv, NEW t \in Senders, Answered(t) PROVE IInv'
<1> DEFINE r == [MyRequest(t) EXCEPT !.initiator = @ - 1]
           path == Reversed(MyRequest(t).reply)
           s == [snd[t] EXCEPT !.pc = "wake", !.path = path, !.own = TRUE]
<1>1. /\ snd[t].pc = "await" /\ SetRequest(t, r)
      /\ snd' = [snd EXCEPT ![t].pc = "wake", ![t].path = path, ![t].own = TRUE]
  BY DEF Answered, IsAt
<1>2. snd[t].dest \in Hosts /\ HostOf[t] \in Hosts /\ snd[t].pc \in Working
  BY <1>1, MiniRouteAssumption DEF IInv, SenderShape, Working
<1>3. "state" \in DOMAIN r /\ r.state # "none"
  BY <1>2 DEF IInv, RequestShape, OneDiscovery, MyRequest, Host, Dest
<1>4. snd' = [snd EXCEPT ![t] = s]
  BY <1>1 DEF IInv, SenderShape
<1>5. {"pc", "dest", "path", "own"} \subseteq DOMAIN s /\ s.dest = snd[t].dest
  BY DEF IInv, SenderShape
<1> HIDE DEF r, s
<1>6. SenderShape' /\ \A u \in Senders : snd'[u] = IF u = t THEN s ELSE snd[u]
  BY <1>2, <1>4, <1>5, SenderMoves
<1> QED
  BY <1>1, <1>2, <1>3, <1>5, <1>6, FieldsSet, NoNewWorker DEF IInv

(* A step that moves several senders changes no destination.               *)
LEMMA SeveralMove ==
  ASSUME IInv, snd' = [u \in Senders |-> snd'[u]],
         \A u \in Senders : \E pc : 
            /\ snd'[u] = snd[u] \/ snd'[u] = [snd[u] EXCEPT !.pc = pc]
            /\ snd'[u] # snd[u] => snd[u].pc # "idle"
  PROVE  SenderShape' /\ \A u \in Senders : snd'[u].dest = snd[u].dest
<1>1. ASSUME NEW u \in Senders
      PROVE  /\ {"pc", "dest", "path", "own"} \subseteq DOMAIN snd'[u]
             /\ snd'[u].dest = snd[u].dest
             /\ snd'[u].pc # "idle" => snd[u].dest \in Hosts
  BY DEF IInv, SenderShape
<1> QED
  BY <1>1 DEF SenderShape

(* The initiator wakes those that joined, and goes on to free the request. *)
LEMMA WakeWaitersPreserves ==
  ASSUME IInv, NEW t \in Senders, WakeWaiters(t) PROVE IInv'
<1>0. PICK up \in SUBSET Joined(t, "asleep") :
        \E n : /\ MoveAll(up, "woken", t, "free")
              /\ SetRequest(t, [MyRequest(t) EXCEPT !.waiting = n, !.state = "woken"])
  BY DEF WakeWaiters
<1>1. PICK n :
        /\ MoveAll(up, "woken", t, "free")
        /\ SetRequest(t, [MyRequest(t) EXCEPT !.waiting = n, !.state = "woken"])
  BY <1>0
<1>2. snd[t].pc = "wake"
  BY DEF WakeWaiters, IsAt
<1>3. snd[t].dest \in Hosts /\ HostOf[t] \in Hosts /\ snd[t].pc \in Working
  BY <1>2, MiniRouteAssumption DEF IInv, SenderShape, Working
<1> DEFINE r == [MyRequest(t) EXCEPT !.waiting = n, !.state = "woken"]
<1>4. "state" \in DOMAIN r /\ r.state # "none"
  BY <1>3 DEF IInv, RequestShape, MyRequest, Host, Dest
<1> HIDE DEF r
<1>5. \A u \in up : u \in Senders /\ snd[u].pc = "asleep"
  BY DEF Joined
<1>6. SenderShape' /\ \A u \in Senders : snd'[u].dest = snd[u].dest
  BY <1>1, <1>2, <1>5, SeveralMove DEF MoveAll
<1>7. \A u \in Senders : snd'[u].pc \in Working => snd[u].pc \in Working
  BY <1>1, <1>3, <1>5 DEF MoveAll, IInv, SenderShape, Working
<1>8. SetRequest(t, r)
  BY <1>1 DEF r
<1> QED
  BY <1>2, <1>4, <1>6, <1>7, <1>8, FieldsSet, NoNewWorker DEF IInv

(* The request is freed but stays in the map; whoever waits for it is late *)
(* or stranded, and does not work on it.                                   *)
LEMMA FreeRequestPreserves ==
  ASSUME IInv, NEW t \in Senders, FreeRequest(t) PROVE IInv'
<1> DEFINE r == [MyRequest(t) EXCEPT !.state = "freed"]
<1>1. snd[t].pc = "free" /\ SetRequest(t, r)
  BY DEF FreeRequest, IsAt
<1>2. snd[t].dest \in Hosts /\ HostOf[t] \in Hosts /\ snd[t].pc \in Working
  BY <1>1, MiniRouteAssumption DEF IInv, SenderShape, Working
<1>3. "state" \in DOMAIN r /\ r.state # "none"
  BY <1>2 DEF IInv, RequestShape, MyRequest, Host, Dest
<1> HIDE DEF r
<1>4. snd' = [u \in Senders |->
                 CASE u \in Joined(t, "joined") -> [snd[u] EXCEPT !.pc = "late"]
                   [] u \in Joined(t, "asleep") -> [snd[u] EXCEPT !.pc = "stranded"]
                   [] u = t -> [snd[u] EXCEPT !.pc = "delete"]
                   [] OTHER -> snd[u]]
  BY DEF FreeRequest
<1>5. ASSUME NEW u \in Senders
      PROVE  \E pc \in {"late", "stranded", "delete"} :
                 /\ snd'[u] = snd[u] \/ snd'[u] = [snd[u] EXCEPT !.pc = pc]
                 /\ snd'[u] # snd[u] => snd[u].pc # "idle"
                 /\ snd'[u] # snd[u] /\ pc = "delete" => u = t
  BY <1>1, <1>4 DEF Joined
<1>6. SenderShape' /\ \A u \in Senders : snd'[u].dest = snd[u].dest
  <2>1. snd' = [u \in Senders |-> snd'[u]]
    BY <1>4
  <2>2. \A u \in Senders : \E pc :
           /\ snd'[u] = snd[u] \/ snd'[u] = [snd[u] EXCEPT !.pc = pc]
           /\ snd'[u] # snd[u] => snd[u].pc # "idle"
    BY <1>5
  <2> QED
    BY <2>1, <2>2, SeveralMove
<1>7. \A u \in Senders : snd'[u].pc \in Working => snd[u].pc \in Working
  BY <1>2, <1>5 DEF IInv, SenderShape, Working
<1> QED
  BY <1>1, <1>3, <1>6, <1>7, FieldsSet, NoNewWorker DEF IInv

(* Only now the request leaves the map: nobody else works on it.           *)
LEMMA DeleteRequestPreserves ==
  ASSUME IInv, NEW t \in Senders, DeleteRequest(t) PROVE IInv'
<1>1. /\ snd[t].pc = "delete" /\ SetRequest(t, NoRequest)
      /\ snd' = [snd EXCEPT ![t].pc = "send"]
  BY DEF DeleteRequest, IsAt, Goes
<1>2. snd[t].pc \in Working
  BY <1>1 DEF Working
<1>3. "state" \in DOMAIN NoRequest
  BY DEF NoRequest
<1>4. /\ RequestShape'
      /\ \A h, d \in Hosts :
           (h = Host(t) /\ d = Dest(t)) \/ request'[h][d] = request[h][d]
  BY <1>1, <1>3, RequestSet
<1>5. /\ SenderShape'
      /\ \A u \in Senders : snd'[u].dest = snd[u].dest
      /\ \A u \in Senders : snd'[u].pc \in Working => u # t /\ snd[u].pc \in Working
  BY <1>1 DEF IInv, SenderShape, Working
<1>6. ASSUME NEW u \in Senders, snd'[u].pc \in Working
      PROVE  /\ MyRequest(u)'.state # "none"
             /\ \A v \in Senders \ {u} :
                   HostOf[v] = HostOf[u] /\ snd'[v].dest = snd'[u].dest =>
                       snd'[v].pc \notin Working
  <2>1. /\ u # t /\ snd[u].pc \in Working
        /\ snd[u].dest \in Hosts /\ HostOf[u] \in Hosts
    BY <1>5, <1>6, MiniRouteAssumption DEF IInv, SenderShape, Working
  <2>2. ~(HostOf[u] = Host(t) /\ snd[u].dest = Dest(t))
    BY <1>2, <2>1 DEF IInv, OneDiscovery, Host, Dest
  <2>3. request'[HostOf[u]][snd[u].dest] = request[HostOf[u]][snd[u].dest]
    BY <1>4, <2>1, <2>2
  <2>4. request[HostOf[u]][snd[u].dest].state # "none"
    BY <2>1 DEF IInv, OneDiscovery, MyRequest, Host, Dest
  <2>5. MyRequest(u)'.state # "none"
    BY <1>5, <2>3, <2>4 DEF MyRequest, Host, Dest
  <2> QED
    BY <1>5, <2>1, <2>5 DEF IInv, OneDiscovery, Host, Dest
<1> QED
  BY <1>4, <1>5, <1>6 DEF IInv, OneDiscovery, Host, Dest

(* A sender that joined takes a count or goes to sleep.                    *)
LEMMA WaitPreserves ==
  ASSUME IInv, NEW t \in Senders, Wait(t) PROVE IInv'
<1> DEFINE r == [MyRequest(t) EXCEPT !.waiting = @ - 1]
<1>1. snd[t].pc = "joined" /\ snd[t].dest \in Hosts /\ HostOf[t] \in Hosts
  BY MiniRouteAssumption DEF Wait, IsAt, IInv, SenderShape
<1>2. "state" \in DOMAIN r /\ r.state = MyRequest(t).state
  BY <1>1 DEF IInv, RequestShape, MyRequest, Host, Dest
<1>3. \/ SetRequest(t, r) /\ Goes(t, "woken")
      \/ UNCHANGED request /\ Goes(t, "asleep")
  BY DEF Wait
<1> HIDE DEF r
<1>4. /\ RequestShape'
      /\ \A h, d \in Hosts : request[h][d].state # "none" => request'[h][d].state # "none"
  <2>1. CASE UNCHANGED request
    BY <2>1, SameRequests
  <2>2. CASE SetRequest(t, r)
    BY <1>1, <1>2, <2>2, RequestSet DEF MyRequest
  <2> QED
    BY <1>3, <2>1, <2>2
<1>5. PICK pc \in {"woken", "asleep"} : snd' = [snd EXCEPT ![t].pc = pc]
  BY <1>3 DEF Goes
<1>6. SenderShape' /\ \A u \in Senders :
          snd'[u].pc \in Working => snd[u].pc \in Working /\ snd'[u].dest = snd[u].dest
  BY <1>1, <1>5 DEF IInv, SenderShape, Working
<1> QED
  BY <1>4, <1>6, NoNewWorker DEF IInv

(* A reply, whoever sent it and however often, opens and removes no        *)
(* request.                                                                *)
LEMMA HandlerPreserves ==
  ASSUME IInv, network_handler PROVE IInv'
<1>1. PICK p, left : HandleData(p, left) \/ HandleDiscovery(p, left) \/ HandleReply(p, left)
  BY DEF network_handler
<1>2. UNCHANGED request \/ \E d : miniroute_recieve_reply(p, d)
  BY <1>1 DEF HandleData, HandleDiscovery, HandleReply
<1>3. /\ RequestShape'
      /\ \A h, d \in Hosts : request[h][d].state # "none" => request'[h][d].state # "none"
  <2>1. CASE UNCHANGED request
    BY <2>1, SameRequests
  <2>2. ASSUME NEW d, NEW reply,
               request' = [request EXCEPT ![p.to][d].reply = reply, ![p.to][d].initiator = @ + 1]
        PROVE  /\ RequestShape'
               /\ \A h, e \in Hosts : request'[h][e].state = request[h][e].state
    <3>1. ASSUME NEW h \in Hosts, NEW e \in Hosts
          PROVE  /\ "state" \in DOMAIN request'[h][e]
                 /\ request'[h][e].state = request[h][e].state
      BY <2>2 DEF IInv, RequestShape
    <3>2. request' = [h \in Hosts |-> [e \in Hosts |-> request'[h][e]]]
      BY <2>2 DEF IInv, RequestShape
    <3> QED
      BY <3>1, <3>2 DEF RequestShape
  <2>3. ASSUME NEW d, miniroute_recieve_reply(p, d)
        PROVE  UNCHANGED request \/ \E reply :
                  request' = [request EXCEPT ![p.to][d].reply = reply,
                                             ![p.to][d].initiator = @ + 1]
    BY <2>3 DEF miniroute_recieve_reply
  <2> QED
    BY <1>2, <2>1, <2>2, <2>3
<1>4. UNCHANGED snd
  BY DEF network_handler
<1>5. OneDiscovery'
  BY <1>3, <1>4, NoNewWorker
<1> QED
  BY <1>3, <1>4, <1>5 DEF IInv, SenderShape

(* Neither the links nor the age of a route say who works.                 *)
LEMMA OthersPreserve ==
  ASSUME IInv, UNCHANGED <<snd, request>> PROVE IInv'
BY SameRequests, NoNewWorker DEF IInv, SenderShape

(* Every step keeps the invariant.                                         *)
LEMMA NextPreserves == IInv /\ [RouteNext]_routeVars => IInv'
<1> SUFFICES ASSUME IInv, [RouteNext]_routeVars PROVE IInv'
  OBVIOUS
<1>1. ASSUME NEW t \in Senders, miniroute_send_pkt(t) \/ SenderSteps(t) PROVE IInv'
  <2>1. CASE WaitTooLate(t)
    BY <2>1, OthersPreserve DEF WaitTooLate
  <2> QED
    BY <1>1, <2>1, SendPktPreserves, AskPreserves, DiscoverPreserves, AnsweredPreserves,
       WakeWaitersPreserves, FreeRequestPreserves, DeleteRequestPreserves, WaitPreserves,
       ReReadPreserves, SendDataPreserves DEF SenderSteps
<1>2. CASE network_add_bcast_link \/ network_remove_bcast_link \/ UNCHANGED routeVars
  BY <1>2, OthersPreserve DEF network_add_bcast_link, network_remove_bcast_link, routeVars
<1> QED
  BY <1>1, <1>2, HandlerPreserves DEF RouteNext

(* However many threads of a host send to a destination that is not        *)
(* cached, at most one of them discovers a route to it at a time, and      *)
(* until it is through its request is in the map for the others to join.   *)
THEOREM OneDiscoveryAtATime == RouteSpec => []OneDiscovery
<1>1. IInv => OneDiscovery
  BY DEF IInv
<1> QED
  BY <1>1, InitIInv, NextPreserves, PTL DEF RouteSpec

-----------------------------------------------------------------------------
(* The contents of a header and of a route; a route that ends in d, and a  *)
(* reply that starts with it.                                              *)
Words == Hosts \cup {"nowhere", "junk"}
EndsIn(s, d) == s \in Seq(Words) /\ s # <<>> /\ s[Len(s)] = d
StartsWith(s, d) == s \in Seq(Words) /\ s # <<>> /\ s[1] = d

(* A route that a host found itself ends with the destination it is kept   *)
(* under, in the cache and at a sender, and the reply that has come for a  *)
(* request starts with it.                                                 *)
LinksOfHosts == links \in [Hosts -> SUBSET Hosts]

OwnRoutesEnd ==
    /\ cache = [h \in Hosts |-> [d \in Hosts |-> cache[h][d]]]
    /\ \A h, d \in Hosts :
          /\ {"path", "own"} \subseteq DOMAIN cache[h][d]
          /\ cache[h][d].own => EndsIn(cache[h][d].path, d)

SendersEnd == \A t \in Senders : snd[t].own => EndsIn(snd[t].path, snd[t].dest)

ReplyFits(r, d) ==
    /\ {"initiator", "reply"} \subseteq DOMAIN r
    /\ r.initiator \in Int
    /\ r.initiator > 0 => StartsWith(r.reply, d)

RepliesStart == \A h, d \in Hosts : ReplyFits(request[h][d], d)

(* A discovery starts with the host that asks and a reply with the one     *)
(* that answers, and data on a route of one's own is for the host meant.   *)
PacketFields == {"type", "to", "from", "dst", "path", "junk", "ttl", "named", "own"}

Carries(p) ==
    /\ PacketFields \subseteq DOMAIN p
    /\ IF p.type = "DATA" THEN p.own => p.dst = p.named
       ELSE /\ p.from \in Hosts /\ p.junk \in Words
            /\ p.path \in Seq(Words) /\ p.path # <<>> /\ p.path[1] \in Hosts

PacketsAim == \A p \in net : Carries(p) /\ p.to \in Hosts

RInv == LinksOfHosts /\ OwnRoutesEnd /\ SendersEnd /\ RepliesStart /\ PacketsAim /\ NoMisdelivery

(* Nothing is known and nothing is under way.                              *)
LEMMA InitRInv == RouteInit => RInv
<1> SUFFICES ASSUME RouteInit PROVE RInv
  OBVIOUS
<1>1. LinksOfHosts
  BY MiniRouteAssumption DEF RouteInit, LinksOfHosts
<1>2. OwnRoutesEnd
  BY DEF RouteInit, OwnRoutesEnd, NoRoute
<1>3. SendersEnd
  BY DEF RouteInit, SendersEnd, IdleSender
<1>4. ReplyFits(NoRequest, "nowhere") /\ \A d : ReplyFits(NoRequest, d)
  BY DEF ReplyFits, NoRequest
<1>5. RepliesStart
  BY <1>4 DEF RouteInit, RepliesStart
<1>6. PacketsAim /\ NoMisdelivery
  BY DEF RouteInit, PacketsAim, NoMisdelivery
<1> QED
  BY <1>1, <1>2, <1>3, <1>5, <1>6 DEF RInv

(* A place of a header holds a word, and a host that is written in it is   *)
(* what is read.                                                           *)
LEMMA HeldWords ==
  ASSUME NEW p, p.path \in Seq(Words), p.junk \in Words, NEW i \in Nat \ {0}
  PROVE  /\ Held(p, i) \in Words
         /\ i <= Len(p.path) /\ p.path[i] \in Hosts => Held(p, i) = p.path[i]
BY MiniRouteAssumption DEF Held, Words

(* The words of a path, read one after the other.                          *)
LEMMA RouteWords ==
  ASSUME NEW p, p.path \in Seq(Words), p.junk \in Words
  PROVE  /\ Route(p) \in Seq(Words) /\ Len(Route(p)) = Len(p.path)
         /\ p.path # <<>> /\ p.path[1] \in Hosts => StartsWith(Route(p), p.path[1])
<1> DEFINE n == Len(p.path)
<1>1. n \in Nat
  OBVIOUS
<1>2. \A i \in 1 .. n : Held(p, i) \in Words
  BY HeldWords
<1>3. Route(p) \in [1 .. n -> Words]
  BY <1>2 DEF Route
<1>4. Route(p) \in Seq(Words) /\ Len(Route(p)) = n
  BY <1>1, <1>3, SeqDef
<1>5. ASSUME p.path # <<>>, p.path[1] \in Hosts PROVE StartsWith(Route(p), p.path[1])
  <2>1. 1 \in 1 .. n
    BY <1>5, EmptySeq, LenProperties
  <2>2. Route(p)[1] = Held(p, 1)
    BY <2>1 DEF Route
  <2>3. Held(p, 1) = p.path[1]
    BY <1>5, <2>1, HeldWords
  <2>4. Route(p) # <<>>
    BY <1>4, <2>1, EmptySeq
  <2> QED
    BY <1>4, <2>2, <2>3, <2>4 DEF StartsWith
<1> QED
  BY <1>4, <1>5

(* A path that is turned round ends with what it started with.             *)
LEMMA ReversedEnds ==
  ASSUME NEW s \in Seq(Words), s # <<>>
  PROVE  /\ Reversed(s) \in Seq(Words) /\ Reversed(s) # <<>>
         /\ Reversed(s)[1] = s[Len(s)]
         /\ EndsIn(Reversed(s), s[1])
<1> DEFINE n == Len(s)
<1>1. n \in Nat /\ n > 0
  BY EmptySeq, LenProperties
<1>2. \A i \in 1 .. n : n + 1 - i \in 1 .. n
  BY <1>1
<1>3. \A i \in 1 .. n : s[i] \in Words
  BY ElementOfSeq
<1>4. Reversed(s) \in [1 .. n -> Words]
  BY <1>2, <1>3 DEF Reversed
<1>5. Reversed(s) \in Seq(Words) /\ Len(Reversed(s)) = n
  BY <1>1, <1>4, SeqDef
<1>6. Reversed(s)[1] = s[n + 1 - 1] /\ Reversed(s)[n] = s[n + 1 - n]
  BY <1>1 DEF Reversed
<1>7. n + 1 - 1 = n /\ n + 1 - n = 1
  BY <1>1
<1> QED
  BY <1>1, <1>5, <1>6, <1>7 DEF EndsIn

-----------------------------------------------------------------------------
(* A step in which requests keep their replies, or count one less.         *)
LEMMA RepliesKept ==
  ASSUME RInv, \A h, d \in Hosts :
            \/ request'[h][d] = request[h][d]
            \/ ReplyFits(request'[h][d], d)
  PROVE  RepliesStart'
BY DEF RInv, RepliesStart, ReplyFits

(* A sender puts another request in the place of its own.                  *)
LEMMA ReplyFitsSet ==
  ASSUME IInv, RInv, NEW t \in Senders, snd[t].pc # "idle", NEW r, "state" \in DOMAIN r,
         SetRequest(t, r), ReplyFits(r, snd[t].dest)
  PROVE  RepliesStart'
<1>1. \A h, d \in Hosts : request'[h][d] =
          IF h = Host(t) /\ d = Dest(t) THEN r ELSE request[h][d]
  BY RequestSet
<1> QED
  BY <1>1, RepliesKept DEF Dest

(* The request of a sender that is busy is one that RepliesStart is about. *)
LEMMA MyReplyFits ==
  ASSUME IInv, RInv, NEW t \in Senders, snd[t].pc # "idle"
  PROVE  /\ ReplyFits(MyRequest(t), snd[t].dest) /\ "state" \in DOMAIN MyRequest(t)
         /\ HostOf[t] \in Hosts /\ snd[t].dest \in Hosts
<1>1. HostOf[t] \in Hosts /\ snd[t].dest \in Hosts
  BY MiniRouteAssumption DEF IInv, SenderShape
<1> QED
  BY <1>1 DEF RInv, RepliesStart, IInv, RequestShape, MyRequest, Host, Dest

(* Senders that only go elsewhere keep their routes.                       *)
LEMMA SendersKept ==
  ASSUME RInv, \A u \in Senders :
            /\ snd'[u].own = snd[u].own
            /\ snd'[u].path = snd[u].path
            /\ snd'[u].dest = snd[u].dest
  PROVE  SendersEnd'
BY DEF RInv, SendersEnd, EndsIn

(* Packets that carry what they should join those under way.               *)
LEMMA PacketsJoin ==
  ASSUME RInv, NEW others, others \subseteq net,
         \A p \in net' : p \in others \/ (Carries(p) /\ p.to \in Hosts)
  PROVE  PacketsAim'
BY DEF RInv, PacketsAim

(* One packet is sent, to a host or nowhere.                               *)
LEMMA SentAims ==
  ASSUME RInv, NEW others, others \subseteq net, NEW p, Carries(p), network_send_pkt(others, p)
  PROVE  PacketsAim'
BY PacketsJoin DEF network_send_pkt

(* One packet is sent to each neighbour.                                   *)
LEMMA BroadcastAims ==
  ASSUME RInv, NEW others, others \subseteq net, NEW h \in Hosts, NEW p, Carries(p),
         p.type # "DATA", network_bcast_pkt(others, h, p)
  PROVE  PacketsAim'
<1>1. ASSUME NEW d \in links[h] PROVE LET q == [p EXCEPT !.from = h, !.to = d]
                                      IN  Carries(q) /\ q.to \in Hosts
  <2>1. d \in Hosts
    BY DEF RInv, LinksOfHosts
  <2> QED
    BY <2>1 DEF Carries, PacketFields
<1>2. \A q \in net' : q \in others \/ (Carries(q) /\ q.to \in Hosts)
  BY <1>1 DEF network_bcast_pkt
<1> QED
  BY <1>2, PacketsJoin

(* Steps of one sender that change nothing but the request it works on and *)
(* where senders are.                                                      *)
LEMMA RequestStepAims ==
  ASSUME RInv, RepliesStart', UNCHANGED <<cache, net, environment>>,
         \A u \in Senders :
            /\ snd'[u].own = snd[u].own
            /\ snd'[u].path = snd[u].path
            /\ snd'[u].dest = snd[u].dest
  PROVE  RInv'
<1>1. SendersEnd'
  BY SendersKept
<1> QED
  BY <1>1 DEF RInv, environment, LinksOfHosts, OwnRoutesEnd, PacketsAim, NoMisdelivery

(* The call: it starts without a route.                                    *)
LEMMA SendPktAims ==
  ASSUME IInv, RInv, NEW t \in Senders, miniroute_send_pkt(t) PROVE RInv'
<1>1. PICK d \in Targets[t] :
          snd' = [snd EXCEPT ![t] = [IdleSender EXCEPT !.dest = d, !.pc = "ask"]]
  BY DEF miniroute_send_pkt
<1>2. UNCHANGED <<links, cache, request, net, arrived>>
  BY DEF miniroute_send_pkt
<1>3. ASSUME NEW u \in Senders, snd'[u].own PROVE EndsIn(snd'[u].path, snd'[u].dest)
  <2>1. u # t
    BY <1>1, <1>3 DEF IdleSender, IInv, SenderShape
  <2> QED
    BY <1>1, <1>3, <2>1 DEF IInv, SenderShape, RInv, SendersEnd
<1> QED
  BY <1>2, <1>3 DEF RInv, LinksOfHosts, OwnRoutesEnd, SendersEnd, RepliesStart, PacketsAim,
     NoMisdelivery

(* One sender goes to another place of its code.                           *)
LEMMA GoesKeeps ==
  ASSUME IInv, NEW t \in Senders, NEW pc, Goes(t, pc)
  PROVE  \A u \in Senders :
            /\ snd'[u].own = snd[u].own
            /\ snd'[u].path = snd[u].path
            /\ snd'[u].dest = snd[u].dest
BY DEF Goes, IInv, SenderShape

(* A new request has no reply, and one that is joined keeps its own.       *)
LEMMA AskAims ==
  ASSUME IInv, RInv, NEW t \in Senders, Ask(t) PROVE RInv'
<1>1. snd[t].pc # "idle" /\ UNCHANGED <<cache, net, environment>>
  BY DEF Ask, IsAt
<1>2. CASE MyRequest(t).state = "none"
  <2> DEFINE r == [NoRequest EXCEPT !.state = "open"]
  <2>1. SetRequest(t, r) /\ Goes(t, "discover")
    BY <1>2 DEF Ask
  <2>2. "state" \in DOMAIN r /\ ReplyFits(r, snd[t].dest)
    BY DEF NoRequest, ReplyFits
  <2> HIDE DEF r
  <2> QED
    BY <1>1, <2>1, <2>2, ReplyFitsSet, GoesKeeps, RequestStepAims
<1>3. CASE MyRequest(t).state = "freed"
  BY <1>1, <1>3, RequestStepAims, RepliesKept DEF Ask
<1>4. CASE MyRequest(t).state \notin {"none", "freed"}
  <2> DEFINE r == [MyRequest(t) EXCEPT !.threadsWaiting = @ + 1]
  <2>1. SetRequest(t, r) /\ Goes(t, "joined")
    BY <1>4 DEF Ask
  <2>2. "state" \in DOMAIN r /\ ReplyFits(r, snd[t].dest)
    BY <1>1, MyReplyFits DEF ReplyFits
  <2> HIDE DEF r
  <2> QED
    BY <1>1, <2>1, <2>2, ReplyFitsSet, GoesKeeps, RequestStepAims
<1> QED
  BY <1>2, <1>3, <1>4

(* What is broadcast starts with the host that asks.                       *)
LEMMA DiscoverAims ==
  ASSUME IInv, RInv, NEW t \in Senders, Discover(t) PROVE RInv'
<1>1. PICK junk \in Residues :
        network_bcast_pkt(net, Host(t),
             [NewPacket(t) EXCEPT !.type = "DISCOVERY", !.dst = Dest(t),
                                  !.path = <<Host(t)>>, !.junk = junk])
  BY DEF Discover
<1> DEFINE p == [NewPacket(t) EXCEPT !.type = "DISCOVERY", !.dst = Dest(t),
                                     !.path = <<Host(t)>>, !.junk = junk]
<1>2. Host(t) \in Hosts /\ junk \in Words
  BY MiniRouteAssumption DEF Host, Words
<1>3. p.path = <<Host(t)>> /\ p.junk = junk /\ p.from = Host(t) /\ p.type = "DISCOVERY"
  BY DEF NewPacket
<1>4. PacketFields \subseteq DOMAIN p
  BY DEF PacketFields, NewPacket
<1>5. <<Host(t)>> \in Seq(Words) /\ <<Host(t)>> # <<>> /\ <<Host(t)>>[1] = Host(t)
  BY <1>2 DEF Words
<1> HIDE DEF p
<1>6. Carries(p)
  BY <1>2, <1>3, <1>4, <1>5 DEF Carries
<1>7. PacketsAim'
  BY <1>1, <1>2, <1>3, <1>6, BroadcastAims DEF p
<1>8. SendersEnd'
  BY GoesKeeps, SendersKept DEF Discover
<1>9. UNCHANGED <<cache, request, links, arrived>>
  BY DEF Discover, environment
<1> QED
  BY <1>7, <1>8, <1>9 DEF RInv, LinksOfHosts, OwnRoutesEnd, RepliesStart, NoMisdelivery

(* The reply starts with the destination, so the route ends there.         *)
LEMMA AnsweredAims ==
  ASSUME IInv, RInv, NEW t \in Senders, Answered(t) PROVE RInv'
<1> DEFINE d == snd[t].dest
           r == [MyRequest(t) EXCEPT !.initiator = @ - 1]
           path == Reversed(MyRequest(t).reply)
<1>1. snd[t].pc # "idle" /\ SetRequest(t, r) /\ MyRequest(t).initiator > 0
  BY DEF Answered, IsAt
<1>2. /\ ReplyFits(MyRequest(t), d) /\ "state" \in DOMAIN MyRequest(t)
      /\ HostOf[t] \in Hosts /\ d \in Hosts
  BY <1>1, MyReplyFits
<1>3. EndsIn(path, d)
  BY <1>1, <1>2, ReversedEnds DEF ReplyFits, StartsWith
<1>4. "state" \in DOMAIN r /\ ReplyFits(r, d)
  BY <1>1, <1>2 DEF ReplyFits
<1>5. /\ cache' = [cache EXCEPT ![HostOf[t]][d] = [path |-> path, own |-> TRUE]]
      /\ snd' = [snd EXCEPT ![t].pc = "wake", ![t].path = path, ![t].own = TRUE]
      /\ UNCHANGED <<net, environment>>
  BY DEF Answered, Host, Dest
<1> HIDE DEF r, path
<1>6. RepliesStart'
  BY <1>1, <1>4, ReplyFitsSet
<1>7. OwnRoutesEnd'
  <2>1. cache' = [h \in Hosts |-> [e \in Hosts |-> cache'[h][e]]]
    BY <1>5 DEF RInv, OwnRoutesEnd
  <2>2. ASSUME NEW h \in Hosts, NEW e \in Hosts
        PROVE  /\ {"path", "own"} \subseteq DOMAIN cache'[h][e]
               /\ cache'[h][e].own => EndsIn(cache'[h][e].path, e)
    <3>1. CASE h = HostOf[t] /\ e = d
      <4>1. cache'[h][e] = [path |-> path, own |-> TRUE]
        BY <1>2, <1>5, <3>1 DEF RInv, OwnRoutesEnd
      <4> QED
        BY <1>3, <3>1, <4>1
    <3>2. CASE ~(h = HostOf[t] /\ e = d)
      <4>1. cache'[h][e] = cache[h][e]
        BY <1>2, <1>5, <3>2 DEF RInv, OwnRoutesEnd
      <4> QED
        BY <4>1 DEF RInv, OwnRoutesEnd
    <3> QED
      BY <3>1, <3>2
  <2> QED
    BY <2>1, <2>2 DEF OwnRoutesEnd
<1>8. SendersEnd'
  <2>1. snd'[t].path = path /\ snd'[t].dest = d
    BY <1>5 DEF IInv, SenderShape
  <2>2. \A u \in Senders \ {t} : snd'[u] = snd[u]
    BY <1>5 DEF IInv, SenderShape
  <2> QED
    BY <1>3, <2>1, <2>2 DEF RInv, SendersEnd
<1> QED
  BY <1>5, <1>6, <1>7, <1>8 DEF RInv, environment, LinksOfHosts, PacketsAim, NoMisdelivery

(* Steps that only move senders, whatever they do to the request of t.     *)
LEMMA MovesAim ==
  ASSUME IInv, RInv, NEW t \in Senders, snd[t].pc # "idle", NEW r,
         "state" \in DOMAIN r, SetRequest(t, r),
         ReplyFits(r, snd[t].dest),
         \A u \in Senders : \E pc : snd'[u] = snd[u] \/ snd'[u] = [snd[u] EXCEPT !.pc = pc],
         UNCHANGED <<cache, net, environment>>
  PROVE  RInv'
<1>1. RepliesStart'
  BY ReplyFitsSet
<1>2. \A u \in Senders :
         /\ snd'[u].own = snd[u].own
         /\ snd'[u].path = snd[u].path
         /\ snd'[u].dest = snd[u].dest
  BY DEF IInv, SenderShape
<1> QED
  BY <1>1, <1>2, RequestStepAims

(* The initiator wakes the others, frees the request and deletes it.       *)
LEMMA WakeWaitersAims ==
  ASSUME IInv, RInv, NEW t \in Senders, WakeWaiters(t) PROVE RInv'
<1>1. PICK up \in SUBSET Joined(t, "asleep") :
        \E n : /\ MoveAll(up, "woken", t, "free")
               /\ SetRequest(t, [MyRequest(t) EXCEPT !.waiting = n, !.state = "woken"])
  BY DEF WakeWaiters
<1>2. PICK n :
        /\ MoveAll(up, "woken", t, "free")
        /\ SetRequest(t, [MyRequest(t) EXCEPT !.waiting = n, !.state = "woken"])
  BY <1>1
<1> DEFINE r == [MyRequest(t) EXCEPT !.waiting = n, !.state = "woken"]
<1>3. snd[t].pc # "idle" /\ UNCHANGED <<cache, net, environment>>
  BY DEF WakeWaiters, IsAt
<1>4. "state" \in DOMAIN r /\ ReplyFits(r, snd[t].dest)
  BY <1>3, MyReplyFits DEF ReplyFits
<1>5. SetRequest(t, r)
  BY <1>2
<1> HIDE DEF r
<1>6. \A u \in Senders : \E pc : snd'[u] = snd[u] \/ snd'[u] = [snd[u] EXCEPT !.pc = pc]
  BY <1>2 DEF MoveAll
<1> QED
  BY <1>3, <1>4, <1>5, <1>6, MovesAim

LEMMA FreeRequestAims ==
  ASSUME IInv, RInv, NEW t \in Senders, FreeRequest(t) PROVE RInv'
<1> DEFINE r == [MyRequest(t) EXCEPT !.state = "freed"]
<1>1. snd[t].pc # "idle" /\ SetRequest(t, r) /\ UNCHANGED <<cache, net, environment>>
  BY DEF FreeRequest, IsAt
<1>2. "state" \in DOMAIN r /\ ReplyFits(r, snd[t].dest)
  BY <1>1, MyReplyFits DEF ReplyFits
<1> HIDE DEF r
<1>3. snd[t].pc = "free"
  BY DEF FreeRequest, IsAt
<1>4. snd' = [u \in Senders |->
                 CASE u \in Joined(t, "joined") -> [snd[u] EXCEPT !.pc = "late"]
                   [] u \in Joined(t, "asleep") -> [snd[u] EXCEPT !.pc = "stranded"]
                   [] u = t -> [snd[u] EXCEPT !.pc = "delete"]
                   [] OTHER -> snd[u]]
  BY DEF FreeRequest
<1>5. \A u \in Senders : \E pc \in {"late", "stranded", "delete"} :
         snd'[u] = snd[u] \/ snd'[u] = [snd[u] EXCEPT !.pc = pc]
  BY <1>3, <1>4 DEF Joined
<1> QED
  BY <1>1, <1>2, <1>5, MovesAim

LEMMA DeleteRequestAims ==
  ASSUME IInv, RInv, NEW t \in Senders, DeleteRequest(t) PROVE RInv'
<1>1. /\ snd[t].pc # "idle" /\ SetRequest(t, NoRequest)
      /\ UNCHANGED <<cache, net, environment>> /\ Goes(t, "send")
  BY DEF DeleteRequest, IsAt
<1>2. "state" \in DOMAIN NoRequest /\ ReplyFits(NoRequest, snd[t].dest)
  BY DEF NoRequest, ReplyFits
<1>3. RepliesStart'
  BY <1>1, <1>2, ReplyFitsSet
<1> QED
  BY <1>1, <1>3, GoesKeeps, RequestStepAims

(* A sender that joined takes a count, or sleeps.                          *)
LEMMA WaitAims ==
  ASSUME IInv, RInv, NEW t \in Senders, Wait(t) PROVE RInv'
<1> DEFINE r == [MyRequest(t) EXCEPT !.waiting = @ - 1]
<1>1. /\ snd[t].pc # "idle" /\ UNCHANGED <<cache, net, environment>>
      /\ (SetRequest(t, r) /\ Goes(t, "woken")) \/ (UNCHANGED request /\ Goes(t, "asleep"))
  BY DEF Wait, IsAt
<1>2. "state" \in DOMAIN r /\ ReplyFits(r, snd[t].dest)
  BY <1>1, MyReplyFits DEF ReplyFits
<1> HIDE DEF r
<1>3. RepliesStart'
  BY <1>1, <1>2, ReplyFitsSet, RepliesKept
<1> QED
  BY <1>1, <1>3, GoesKeeps, RequestStepAims

(* A sender that was woken takes what the cache has for its destination.   *)
LEMMA ReReadAims ==
  ASSUME IInv, RInv, NEW t \in Senders, ReRead(t) PROVE RInv'
<1> DEFINE found == cache[HostOf[t]][snd[t].dest]
<1>1. /\ snd[t].pc # "idle" /\ UNCHANGED <<cache, request, net, environment>>
      /\ \/ snd' = [snd EXCEPT ![t] = IdleSender]
         \/ snd' = [snd EXCEPT ![t].pc = "send", ![t].path = found.path, ![t].own = found.own]
  BY DEF ReRead, IsAt, Host, Dest, Leaves
<1>2. HostOf[t] \in Hosts /\ snd[t].dest \in Hosts
  BY <1>1, MyReplyFits
<1>3. found.own => EndsIn(found.path, snd[t].dest)
  BY <1>2 DEF RInv, OwnRoutesEnd
<1> HIDE DEF found
<1>4. \A u \in Senders \ {t} : snd'[u] = snd[u]
  BY <1>1 DEF IInv, SenderShape
<1>5. \/ ~snd'[t].own
      \/ snd'[t].own = found.own /\ snd'[t].path = found.path /\ snd'[t].dest = snd[t].dest
  <2>1. CASE snd' = [snd EXCEPT ![t] = IdleSender]
    <3>1. snd'[t] = IdleSender
      BY <2>1 DEF IInv, SenderShape
    <3> QED
      BY <3>1 DEF IdleSender
  <2>2. CASE snd' = [snd EXCEPT ![t].pc = "send", ![t].path = found.path, ![t].own = found.own]
    BY <2>2 DEF IInv, SenderShape
  <2> QED
    BY <1>1, <2>1, <2>2
<1>6. SendersEnd'
  BY <1>3, <1>4, <1>5 DEF RInv, SendersEnd
<1> QED
  BY <1>1, <1>6 DEF RInv, environment, LinksOfHosts, OwnRoutesEnd, RepliesStart, PacketsAim,
     NoMisdelivery

(* The data is for the last host of the route, which is the one meant when *)
(* the route is one of its own host.                                       *)
LEMMA SendDataAims ==
  ASSUME IInv, RInv, NEW t \in Senders, SendData(t) PROVE RInv'
<1> DEFINE path == snd[t].path
           Data(junk) == [NewPacket(t) EXCEPT !.path = path, !.junk = junk, !.own = snd[t].own]
<1>1. PICK junk \in Residues :
        LET p == Data(junk)
        IN  network_send_pkt(net, [p EXCEPT !.to = Held(p, 2), !.dst = Held(p, Len(path))])
  BY DEF SendData
<1> DEFINE p == Data(junk)
           q == [p EXCEPT !.to = Held(p, 2), !.dst = Held(p, Len(path))]
<1>2. /\ q.type = "DATA" /\ q.own = snd[t].own /\ q.named = snd[t].dest
      /\ q.dst = Held(p, Len(path))
      /\ PacketFields \subseteq DOMAIN q
      /\ p.path = path /\ p.junk = junk
  BY DEF NewPacket, PacketFields, Host, Dest
<1>3. network_send_pkt(net, q)
  BY <1>1
<1>4. HostOf[t] \in Hosts /\ snd[t].dest \in Hosts /\ junk \in Words
  BY MyReplyFits, MiniRouteAssumption DEF SendData, IsAt, Words
<1> HIDE DEF p, q
<1>5. ASSUME snd[t].own PROVE Held(p, Len(path)) = snd[t].dest
  <2>1. EndsIn(path, snd[t].dest)
    BY <1>5 DEF RInv, SendersEnd
  <2>2. /\ Len(p.path) \in Nat \ {0} /\ p.path \in Seq(Words) /\ p.junk \in Words
        /\ p.path[Len(path)] = snd[t].dest
    BY <1>2, <1>4, <2>1, EmptySeq DEF EndsIn
  <2>3. Len(path) = Len(p.path)
    BY <1>2
  <2> QED
    BY <1>4, <2>2, <2>3, HeldWords
<1>6. Carries(q)
  BY <1>2, <1>4, <1>5 DEF Carries
<1>7. PacketsAim'
  BY <1>3, <1>6, SentAims
<1>8. SendersEnd'
  BY DEF SendData, Leaves, IdleSender, IInv, SenderShape, RInv, SendersEnd
<1>9. UNCHANGED <<cache, request, links, arrived>>
  BY DEF SendData, environment
<1> QED
  BY <1>7, <1>8, <1>9 DEF RInv, LinksOfHosts, OwnRoutesEnd, RepliesStart, NoMisdelivery

-----------------------------------------------------------------------------
(* What network_handler does with a packet p that is under way.            *)
LEMMA HandlerPacket ==
  ASSUME RInv, network_handler
  PROVE  /\ UNCHANGED <<links, snd>>
         /\ \E p \in net : \E left \in SUBSET net :
               HandleData(p, left) \/ HandleDiscovery(p, left) \/ HandleReply(p, left)
BY DEF network_handler

(* A packet that is passed on carries what it did.                         *)
LEMMA ForwardsAim ==
  ASSUME RInv, NEW p \in net, NEW left \in SUBSET net, Forwards(p, left)
  PROVE  PacketsAim'
<1>1. Carries(p) /\ p.to \in Hosts
  BY DEF RInv, PacketsAim
<1>2. PICK i \in Places(p) :
        network_send_pkt(left, [p EXCEPT !.from = p.to, !.to = Held(p, i + 1), !.ttl = @ - 1])
  BY DEF Forwards
<1> DEFINE next == Held(p, i + 1)
           left1 == p.ttl - 1
           q == [p EXCEPT !.from = p.to, !.to = next, !.ttl = left1]
<1>3. network_send_pkt(left, q)
  BY <1>2
<1> HIDE DEF next, left1
<1>4. Carries(q)
  BY <1>1 DEF Carries, PacketFields
<1> QED
  BY <1>3, <1>4, SentAims

(* Packets that are dropped.                                               *)
LEMMA DropsAim ==
  ASSUME RInv, NEW left \in SUBSET net, Drops(left) PROVE PacketsAim'
BY PacketsJoin DEF Drops

(* Data that arrives is on the host in its header, which is the one meant. *)
LEMMA HandleDataAims ==
  ASSUME RInv, NEW p \in net, NEW left \in SUBSET net, HandleData(p, left),
         UNCHANGED <<links, snd>>
  PROVE  RInv'
<1>1. Carries(p) /\ p.type = "DATA"
  BY DEF RInv, PacketsAim, HandleData
<1>2. UNCHANGED <<cache, request, links, snd>>
  BY DEF HandleData
<1>3. PacketsAim' /\ NoMisdelivery'
  <2>1. CASE IsForMe(p)
    <3>1. Drops(left) /\ arrived' = arrived \cup {[at |-> p.to, named |-> p.named, own |-> p.own]}
      BY <2>1 DEF HandleData
    <3>2. p.own => p.to = p.named
      BY <1>1, <2>1 DEF Carries, IsForMe
    <3>3. NoMisdelivery'
      BY <3>1, <3>2 DEF RInv, NoMisdelivery
    <3> QED
      BY <3>1, <3>3, DropsAim
  <2>2. CASE ~IsForMe(p) /\ (IsMine(p) \/ Places(p) = {} \/ p.ttl = 0)
    <3>1. Drops(left) /\ UNCHANGED arrived
      BY <2>2 DEF HandleData
    <3> QED
      BY <3>1, DropsAim DEF RInv, NoMisdelivery
  <2>3. CASE ~IsForMe(p) /\ ~(IsMine(p) \/ Places(p) = {} \/ p.ttl = 0)
    <3>1. Forwards(p, left) /\ UNCHANGED arrived
      BY <2>3 DEF HandleData
    <3> QED
      BY <3>1, ForwardsAim DEF RInv, NoMisdelivery
  <2> QED
    BY <2>1, <2>2, <2>3
<1> QED
  BY <1>2, <1>3 DEF RInv, LinksOfHosts, OwnRoutesEnd, SendersEnd, RepliesStart

(* The way back begins with the host that answers.                         *)
LEMMA BackStarts ==
  ASSUME NEW p, p.path \in Seq(Words), p.junk \in Words, p.to \in Hosts
  PROVE  LET path == Append(Reversed(Append(Route(p), p.to)), "junk")
         IN  path \in Seq(Words) /\ path # <<>> /\ path[1] = p.to
<1> DEFINE s == Append(Route(p), p.to)
           back == Reversed(s)
<1>1. Route(p) \in Seq(Words) /\ p.to \in Words /\ "junk" \in Words
  BY RouteWords DEF Words
<1>2. s \in Seq(Words) /\ s # <<>> /\ s[Len(s)] = p.to
  BY <1>1, AppendProperties
<1> HIDE DEF s
<1>3. back \in Seq(Words) /\ back # <<>> /\ back[1] = p.to
  BY <1>2, ReversedEnds
<1>4. Len(back) \in Nat \ {0}
  BY <1>3, EmptySeq
<1> HIDE DEF back
<1>5. Append(back, "junk") \in Seq(Words) /\ Append(back, "junk") # <<>>
  BY <1>1, <1>3, AppendProperties
<1>6. Append(back, "junk")[1] = back[1]
  BY <1>1, <1>3, <1>4, AppendProperties
<1> QED
  BY <1>3, <1>5, <1>6 DEF back, s

(* The destination answers; the route back it keeps is not one it found.   *)
LEMMA RepliesAim ==
  ASSUME RInv, NEW p \in net, NEW left \in SUBSET net, p.type = "DISCOVERY", Replies(p, left)
  PROVE  PacketsAim' /\ OwnRoutesEnd'
<1>1. Carries(p) /\ p.to \in Hosts /\ p.type # "DATA"
  BY DEF RInv, PacketsAim
<1>2. /\ p.from \in Hosts /\ p.junk \in Words
      /\ p.path \in Seq(Words) /\ p.path # <<>> /\ p.path[1] \in Hosts
  BY <1>1 DEF Carries
<1> DEFINE back == Reversed(Append(Route(p), p.to))
           path == Append(back, "junk")
           d == p.path[1]
           kept == Padded(back)
           q == [p EXCEPT !.type = "REPLY", !.from = p.to, !.to = p.from, !.dst = d,
                          !.path = path, !.ttl = MAX_ROUTE_LENGTH]
<1>3. /\ cache' = [cache EXCEPT ![p.to][d] = [path |-> kept, own |-> FALSE]]
      /\ network_send_pkt(left, q)
  BY DEF Replies
<1>4. path \in Seq(Words) /\ path # <<>> /\ path[1] = p.to
  BY <1>1, <1>2, BackStarts
<1>5. d \in Hosts
  BY <1>2
<1> HIDE DEF path, d, kept
<1>6. /\ q.type = "REPLY" /\ q.from = p.to /\ q.junk = p.junk /\ q.path = path
      /\ PacketFields \subseteq DOMAIN q
  BY <1>1 DEF Carries, PacketFields
<1>7. Carries(q)
  BY <1>1, <1>2, <1>4, <1>6 DEF Carries
<1>8. PacketsAim'
  BY <1>3, <1>7, SentAims
<1>9. OwnRoutesEnd'
  <2>1. cache' = [h \in Hosts |-> [e \in Hosts |-> cache'[h][e]]]
    BY <1>3 DEF RInv, OwnRoutesEnd
  <2>2. ASSUME NEW h \in Hosts, NEW e \in Hosts
        PROVE  \/ cache'[h][e] = cache[h][e]
               \/ cache'[h][e] = [path |-> kept, own |-> FALSE]
    BY <1>1, <1>3, <1>5 DEF RInv, OwnRoutesEnd
  <2>3. ASSUME NEW h \in Hosts, NEW e \in Hosts
        PROVE  /\ {"path", "own"} \subseteq DOMAIN cache'[h][e]
               /\ cache'[h][e].own => EndsIn(cache'[h][e].path, e)
    <3>1. CASE cache'[h][e] = cache[h][e]
      BY <3>1 DEF RInv, OwnRoutesEnd
    <3>2. CASE cache'[h][e] = [path |-> kept, own |-> FALSE]
      BY <3>2
    <3> QED
      BY <2>2, <3>1, <3>2
  <2> QED
    BY <2>1, <2>3 DEF OwnRoutesEnd
<1> QED
  BY <1>8, <1>9

(* Every other host leaves the beginning of the path as it is.             *)
LEMMA RebroadcastsAim ==
  ASSUME RInv, NEW p \in net, NEW left \in SUBSET net, p.type = "DISCOVERY", Rebroadcasts(p, left)
  PROVE  PacketsAim'
<1>1. Carries(p) /\ p.to \in Hosts
  BY DEF RInv, PacketsAim
<1>2. CASE Drops(left)
  BY <1>2, DropsAim
<1>3. CASE ~Drops(left)
  <2> DEFINE more == p.path \o <<"junk", p.to>>
             left1 == p.ttl - 1
             q == [p EXCEPT !.ttl = left1, !.path = more]
  <2>1. network_bcast_pkt(left, p.to, q)
    BY <1>3 DEF Rebroadcasts
  <2>2. /\ p.from \in Hosts /\ p.junk \in Words
        /\ p.path \in Seq(Words) /\ p.path # <<>> /\ p.path[1] \in Hosts
    BY <1>1 DEF Carries
  <2>3. <<"junk", p.to>> \in Seq(Words)
    BY <1>1 DEF Words
  <2>4. Len(p.path) \in Nat \ {0} /\ Len(<<"junk", p.to>>) = 2
    BY <2>2, EmptySeq
  <2>5. more \in Seq(Words) /\ Len(more) = Len(p.path) + 2 /\ more[1] = p.path[1]
    BY <2>2, <2>3, <2>4, ConcatProperties
  <2>6. more # <<>>
    BY <2>4, <2>5, EmptySeq
  <2> HIDE DEF more, left1
  <2>7. /\ q.type = p.type /\ q.from = p.from /\ q.junk = p.junk /\ q.path = more
        /\ PacketFields \subseteq DOMAIN q
    BY <1>1 DEF Carries, PacketFields
  <2>8. Carries(q) /\ q.type # "DATA"
    BY <2>2, <2>5, <2>6, <2>7 DEF Carries
  <2> QED
    BY <1>1, <2>1, <2>8, BroadcastAims
<1> QED
  BY <1>2, <1>3

LEMMA HandleDiscoveryAims ==
  ASSUME RInv, NEW p \in net, NEW left \in SUBSET net, HandleDiscovery(p, left),
         UNCHANGED <<links, snd>>
  PROVE  RInv'
<1>1. p.type = "DISCOVERY" /\ UNCHANGED <<arrived, request>>
  BY DEF HandleDiscovery
<1>2. \/ Replies(p, left)
      \/ Drops(left) /\ UNCHANGED cache
      \/ Rebroadcasts(p, left) /\ UNCHANGED cache
  BY DEF HandleDiscovery
<1>3. PacketsAim' /\ OwnRoutesEnd'
  BY <1>1, <1>2, RepliesAim, DropsAim, RebroadcastsAim DEF RInv, OwnRoutesEnd
<1> QED
  BY <1>1, <1>3 DEF RInv, LinksOfHosts, SendersEnd, RepliesStart, NoMisdelivery

(* A reply is kept with the request for the host it starts with.           *)
LEMMA ReplyKept ==
  ASSUME IInv, RInv, NEW p \in net, p.type = "REPLY", p.path[1] \in Hosts,
         miniroute_recieve_reply(p, p.path[1])
  PROVE  RepliesStart'
<1>1. /\ Carries(p) /\ p.to \in Hosts /\ p.type # "DATA"
  BY DEF RInv, PacketsAim
<1> DEFINE d == p.path[1]
           reply == Route(p)
           old == request[p.to][d]
           r == [old EXCEPT !.reply = reply, !.initiator = @ + 1]
<1>2. StartsWith(reply, d)
  BY <1>1, RouteWords DEF Carries
<1>3. \/ UNCHANGED request
      \/ request' = [request EXCEPT ![p.to][d].reply = reply, ![p.to][d].initiator = @ + 1]
  BY DEF miniroute_recieve_reply
<1>4. d \in Hosts
  OBVIOUS
<1> HIDE DEF reply, d
<1>5. CASE UNCHANGED request
  BY <1>5, RepliesKept
<1>6. CASE request' = [request EXCEPT ![p.to][d].reply = reply, ![p.to][d].initiator = @ + 1]
  <2>1. ReplyFits(old, d)
    BY <1>1, <1>4 DEF RInv, RepliesStart
  <2>2. ReplyFits(r, d)
    BY <1>2, <2>1 DEF ReplyFits
  <2>3. ASSUME NEW h \in Hosts, NEW e \in Hosts
        PROVE  \/ request'[h][e] = request[h][e]
               \/ request'[h][e] = r /\ e = d
    BY <1>1, <1>4, <1>6, <2>1 DEF IInv, RequestShape, ReplyFits
  <2> QED
    BY <2>2, <2>3, RepliesKept
<1> QED
  BY <1>3, <1>5, <1>6

LEMMA HandleReplyAims ==
  ASSUME IInv, RInv, NEW p \in net, NEW left \in SUBSET net, HandleReply(p, left),
         UNCHANGED <<links, snd>>
  PROVE  RInv'
<1>1. p.type = "REPLY" /\ UNCHANGED <<arrived, cache>>
  BY DEF HandleReply
<1>2. p.path[1] \in Hosts
  BY <1>1 DEF RInv, PacketsAim, Carries
<1>3. CASE IsForMe(p)
  <2>1. Drops(left) /\ miniroute_recieve_reply(p, p.path[1])
    BY <1>3 DEF HandleReply, AskedFor
  <2> QED
    BY <1>1, <1>2, <2>1, ReplyKept, DropsAim DEF RInv, LinksOfHosts, OwnRoutesEnd, SendersEnd,
       NoMisdelivery
<1>4. CASE ~IsForMe(p)
  <2>1. (Drops(left) \/ Forwards(p, left)) /\ UNCHANGED request
    BY <1>4 DEF HandleReply
  <2> QED
    BY <1>1, <2>1, DropsAim, ForwardsAim DEF RInv, LinksOfHosts, OwnRoutesEnd, SendersEnd,
       RepliesStart, NoMisdelivery
<1> QED
  BY <1>3, <1>4

(* Links come and go between hosts.                                        *)
LEMMA LinksAim ==
  ASSUME RInv, network_add_bcast_link \/ network_remove_bcast_link PROVE RInv'
<1>1. LinksOfHosts'
  BY MiniRouteAssumption DEF network_add_bcast_link, network_remove_bcast_link, RInv, LinksOfHosts
<1> QED
  BY <1>1 DEF network_add_bcast_link, network_remove_bcast_link, RInv, OwnRoutesEnd, SendersEnd,
     RepliesStart, PacketsAim, NoMisdelivery

(* Every step keeps what routes and packets say.                           *)
LEMMA NextAims == IInv /\ RInv /\ [RouteNext]_routeVars => RInv'
<1> SUFFICES ASSUME IInv, RInv, [RouteNext]_routeVars PROVE RInv'
  OBVIOUS
<1>1. CASE UNCHANGED <<links, cache, request, snd, net, arrived>>
  BY <1>1 DEF RInv, LinksOfHosts, OwnRoutesEnd, SendersEnd, RepliesStart, PacketsAim,
     NoMisdelivery
<1>2. ASSUME NEW t \in Senders, miniroute_send_pkt(t) \/ SenderSteps(t) PROVE RInv'
  <2>1. CASE WaitTooLate(t)
    BY <1>1, <2>1 DEF WaitTooLate, environment
  <2> QED
    BY <1>2, <2>1, SendPktAims, AskAims, DiscoverAims, AnsweredAims, WakeWaitersAims,
       FreeRequestAims, DeleteRequestAims, WaitAims, ReReadAims, SendDataAims DEF SenderSteps
<1>3. CASE network_handler
  BY <1>3, HandlerPacket, HandleDataAims, HandleDiscoveryAims, HandleReplyAims
<1> QED
  BY <1>1, <1>2, <1>3, LinksAim DEF RouteNext, routeVars

(* Data that goes along a route its own host discovered arrives on the     *)
(* host miniroute_send_pkt was called for or nowhere, whatever packets are *)
(* lost, late or taken twice, whatever links change, and whatever the      *)
(* unwritten memory of a header holds.                                     *)
THEOREM DataArrivesWhereMeant == RouteSpec => []NoMisdelivery
<1>1. IInv /\ RInv /\ [RouteNext]_routeVars => (IInv /\ RInv)'
  BY NextPreserves, NextAims
<1>2. RInv => NoMisdelivery
  BY DEF RInv
<1> QED
  BY <1>1, <1>2, InitIInv, InitRInv, PTL DEF RouteSpec
=============================================================================
