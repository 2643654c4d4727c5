----------------------------- MODULE Net_proofs -----------------------------
(***************************************************************************)
(* What holds of ARP, IPv4 and ICMP for every size of the cache and of the *)
(* queue, every set of stations, every depth to which handlers nest and    *)
(* every order of their steps.                                             *)
(***************************************************************************)
EXTENDS Net, InductionLemmas, FiniteSetTheorems

-----------------------------------------------------------------------------
(* The inductive invariants *)

(* Only the running activity is at an update, unless one was overtaken.    *)
UpdatesOnTop ==
  ~overtaken => \A i \in 1 .. (Len(run) - 1) : run[i].at # "update"

(* Empty slots lie behind the others, so that the first slot which is      *)
(* empty or holds an address is the only one that can hold it; and a slot  *)
(* that is not empty has the MAC its station announced last.               *)
Ordered ==
  /\ \A i, j \in Slots : i <= j /\ arp_cache[i].ip = NoIp => arp_cache[j].ip = NoIp
  /\ \A i \in Slots : arp_cache[i].ip # NoIp =>
       /\ arp_cache[i].mac = latest[arp_cache[i].ip]
       /\ \A j \in Slots : arp_cache[j].ip = arp_cache[i].ip => j = i

(* The slot of an update under way is still the one it would choose.       *)
SlotStands ==
  Top.at = "update" => /\ UpdateSlots(Top.ip) # {}
                       /\ Top.slot = First(UpdateSlots(Top.ip))

CacheInv == UpdatesOnTop /\ (~overtaken => Ordered /\ SlotStands)

(* Activities that have found room in the queue and not counted a packet.  *)
InFlight == { i \in 1 .. Len(run) : run[i].at \in {"choose", "malloc", "fill", "count"} }

(* Whoever has read the count of packets has read no more than an activity *)
(* that broke into it, and no more than there are.                         *)
CountInv ==
  /\ pending_count + Cardinality(InFlight) <= MAX_PENDING_PACKETS + MaxNest
  /\ \A i \in 1 .. Len(run) : run[i].at = "count" =>
       /\ run[i].n <= pending_count
       /\ \A j \in i .. Len(run) : run[j].at = "count" => run[i].n <= run[j].n
  /\ \A i \in 1 .. Len(run) :
       run[i].at \in {"malloc", "fill"} => run[i].slot < MAX_PENDING_PACKETS + MaxNest

-----------------------------------------------------------------------------
(* Constants, slots and places *)

(* What the assumption on the constants says, part by part.                *)
LEMMA Sizes ==
  /\ ARP_CACHE_SIZE \in Nat \ {0} /\ MAX_PENDING_PACKETS \in Nat \ {0}
  /\ IdMod \in Nat \ {0} /\ MaxNest \in Nat
  /\ gateway_ip \in LocalIps /\ NoIp \notin Ips
BY NetAssumption

(* The loops over the cache stop at the lowest slot that fits, if any does.*)
LEMMA FirstSlot ==
  ASSUME NEW S \in SUBSET Slots, S # {}
  PROVE  First(S) \in S /\ \A j \in S : First(S) <= j
<1>1. S \in SUBSET Nat
  BY Sizes DEF Slots
<1>2. \E i \in S : \A j \in S : i <= j
  BY <1>1, LeastNatural
<1> QED
  BY <1>2 DEF First

(* What an activity that is somewhere has in its locals.                   *)
LEMMA PlaceFields ==
  ASSUME NEW p \in Places
  PROVE  /\ p.at = "send" => p.dst \in Ips
         /\ p.at \in {"malloc", "fill"} => p.slot \in Nat
         /\ p.at = "count" => p.n \in Nat
         /\ p.at = "update" => p.ip \in LocalIps /\ p.mac \in Macs /\ p.slot \in Slots
         /\ p.at = "report" => p.id \in Ids
BY DEF Places, Idle

(* The running activity is the last of those under way.                    *)
LEMMA Running ==
  ASSUME TypeOK
  PROVE  /\ Len(run) \in 1 .. (MaxNest + 1) /\ Len(run) \in Nat
         /\ Top \in Places
         /\ \A i \in 1 .. Len(run) : run[i] \in Places
BY Sizes DEF TypeOK, Top

(* A step of the running activity leaves the others where they are.        *)
LEMMA Goes ==
  ASSUME TypeOK, NEW p \in Places, GoesTo(p)
  PROVE  /\ run' \in Seq(Places)
         /\ Len(run') = Len(run)
         /\ run'[Len(run)] = p
         /\ \A i \in 1 .. Len(run) : i # Len(run) => run'[i] = run[i]
BY Running DEF TypeOK, GoesTo

(* An interrupt puts a handler on top of the activities under way.         *)
LEMMA Enters ==
  ASSUME TypeOK, Interrupt
  PROVE  /\ run' \in Seq(Places)
         /\ Len(run') = Len(run) + 1 /\ Len(run') <= MaxNest + 1
         /\ run'[Len(run')] = Idle
         /\ \A i \in 1 .. Len(run) : run'[i] = run[i]
<1>1. Idle \in Places /\ run \in Seq(Places) /\ run' = Append(run, Idle)
      /\ Len(run) <= MaxNest /\ Len(run) \in Nat
  BY Running DEF Places, TypeOK, Interrupt
<1>2. /\ run' \in Seq(Places) /\ Len(run') = Len(run) + 1
      /\ run'[Len(run) + 1] = Idle
      /\ \A i \in 1 .. Len(run) : run'[i] = run[i]
  BY <1>1
<1> QED
  BY <1>1, <1>2, Sizes

(* A handler that ends uncovers the activity that it broke into.           *)
LEMMA Leaves ==
  ASSUME TypeOK, Return
  PROVE  /\ run' \in Seq(Places)
         /\ Len(run') = Len(run) - 1 /\ Len(run') >= 1
         /\ run[Len(run)] = Idle
         /\ \A i \in 1 .. (Len(run) - 1) : run'[i] = run[i]
<1>1. /\ run \in Seq(Places) /\ Len(run) \in Nat /\ Len(run) > 1
      /\ run' = SubSeq(run, 1, Len(run) - 1) /\ run[Len(run)] = Idle
  BY Running DEF TypeOK, Return, Top
<1> DEFINE m == Len(run) - 1
<1>2. m \in 1 .. Len(run) /\ run' = SubSeq(run, 1, m)
  BY <1>1
<1>3. \A i \in 1 .. m : run[i] \in Places
  BY <1>1
<1> HIDE DEF m
<1>4. /\ Len(run') = m /\ run' \in Seq(Places)
      /\ \A i \in 1 .. m : run'[i] = run[i]
  BY <1>1, <1>2, <1>3
<1> QED
  BY <1>1, <1>4 DEF m

(* The next hop is on the local network. *)
LEMMA NextHopLocal == ASSUME NEW ip \in Ips PROVE next_hop(ip) \in LocalIps
BY Sizes DEF next_hop, is_local_ip

-----------------------------------------------------------------------------
(* Types *)

(* A place that the running activity goes to keeps the list well formed.   *)
LEMMA GoesTyped ==
  ASSUME TypeOK, NEW p \in Places, GoesTo(p)
  PROVE  run' \in Seq(Places) /\ Len(run') \in 1 .. (MaxNest + 1)
BY Goes, Running

(* An announcement that is looked at goes on to an update or is dropped.   *)
LEMMA UpdateTyped ==
  ASSUME TypeOK, NEW ip \in LocalIps, NEW mac \in Macs, arp_cache_update(ip, mac)
  PROVE  /\ run' \in Seq(Places) /\ Len(run') \in 1 .. (MaxNest + 1)
         /\ latest' \in [LocalIps -> Macs \cup {"none"}]
<1>1. CASE UpdateSlots(ip) = {}
  <2>1. run' = run /\ latest' = [latest EXCEPT ![ip] = mac]
    BY <1>1 DEF arp_cache_update
  <2> QED
    BY <2>1 DEF TypeOK
<1>2. CASE UpdateSlots(ip) # {}
  <2> DEFINE p == [at |-> "update", ip |-> ip, mac |-> mac, slot |-> First(UpdateSlots(ip))]
  <2>1. First(UpdateSlots(ip)) \in Slots
    BY <1>2, FirstSlot DEF UpdateSlots
  <2>2. p \in Places
    BY <2>1 DEF Places
  <2>3. GoesTo(p) /\ latest' = latest
    BY <1>2 DEF arp_cache_update
  <2> HIDE DEF p
  <2>4. latest \in [LocalIps -> Macs \cup {"none"}]
    BY DEF TypeOK
  <2> QED
    BY <2>2, <2>3, <2>4, GoesTyped
<1> QED
  BY <1>1, <1>2

(* The places that have no locals, and where a lookup leads.               *)
LEMMA PlainPlaces ==
  /\ Idle \in Places /\ [at |-> "queue"] \in Places /\ [at |-> "choose"] \in Places
BY DEF Places

LEMMA SendTyped ==
  ASSUME TypeOK, NEW dst, net_send_ipv4_packet(dst)
  PROVE  run' \in Seq(Places) /\ Len(run') \in 1 .. (MaxNest + 1)
<1>1. \E p \in Places : GoesTo(p)
  BY PlainPlaces DEF net_send_ipv4_packet
<1> QED
  BY <1>1, GoesTyped

(* Every step keeps the types. *)
LEMMA NetStep == ASSUME TypeOK, [Next]_vars PROVE TypeOK'
<1> DEFINE Run == run \in Seq(Places) /\ Len(run) \in 1 .. (MaxNest + 1)
           Rest == /\ arp_cache \in [Slots -> [ip : LocalIps \cup {NoIp}, mac : Macs \cup {"none"}]]
                   /\ latest \in [LocalIps -> Macs \cup {"none"}]
                   /\ pending_count \in Nat /\ prev_id \in Ids
                   /\ IF_ \in BOOLEAN /\ overtaken \in BOOLEAN
<1>0. Run /\ Rest
  BY DEF TypeOK
<1>1. SUFFICES Run' /\ Rest'
  BY Zenon DEF TypeOK
<1>2. CASE Interrupt
  <2>1. Run'
    BY <1>2, Enters, Running
  <2> QED
    BY <1>0, <1>2, <2>1 DEF Interrupt
<1>3. CASE Return
  <2>1. Run'
    BY <1>3, Leaves, Running, Sizes
  <2> QED
    BY <1>0, <1>3, <2>1 DEF Return
<1>4. ASSUME NEW ip \in LocalIps, NEW mac \in Macs, ArpReply(ip, mac)
      PROVE  Run' /\ Rest'
  <2>1. arp_cache_update(ip, mac) /\ UNCHANGED <<arp_cache, pending_count, prev_id, IF_, overtaken>>
    BY <1>4 DEF ArpReply
  <2> QED
    BY <1>0, <2>1, UpdateTyped
<1>5. ASSUME NEW ip \in LocalIps, NEW mac \in Macs, NEW target,
             ArpRequestReceived(ip, mac, target)
      PROVE  Run' /\ Rest'
  <2>1. UNCHANGED <<arp_cache, pending_count, prev_id, IF_, overtaken>>
    BY <1>5 DEF ArpRequestReceived
  <2>2. arp_cache_update(ip, mac) \/ UNCHANGED <<run, latest>>
    BY <1>5 DEF ArpRequestReceived
  <2>3. Run' /\ latest' \in [LocalIps -> Macs \cup {"none"}]
    BY <1>0, <2>2, UpdateTyped
  <2> QED
    BY <1>0, <2>1, <2>3
<1>6. CASE WriteSlot
  <2>1. /\ Top.ip \in LocalIps /\ Top.mac \in Macs /\ Top.slot \in Slots
    BY <1>6, Running, PlaceFields DEF WriteSlot
  <2>2. GoesTo(Idle)
    BY <1>6 DEF WriteSlot
  <2>3. Run'
    BY <2>2, PlainPlaces, GoesTyped
  <2> DEFINE e == [ip |-> Top.ip, mac |-> Top.mac]
  <2>4. e \in [ip : LocalIps \cup {NoIp}, mac : Macs \cup {"none"}]
    BY <1>0, <2>1
  <2>5. arp_cache' = [arp_cache EXCEPT ![Top.slot] = e]
    BY <1>6 DEF WriteSlot
  <2> HIDE DEF e
  <2>6. arp_cache' \in [Slots -> [ip : LocalIps \cup {NoIp}, mac : Macs \cup {"none"}]]
    BY <1>0, <2>1, <2>4, <2>5
  <2>7. latest' \in [LocalIps -> Macs \cup {"none"}]
    BY <1>0, <1>6, <2>1 DEF WriteSlot
  <2>8. UNCHANGED <<pending_count, prev_id, IF_, overtaken>>
    BY <1>6 DEF WriteSlot
  <2> QED
    BY <1>0, <2>3, <2>6, <2>7, <2>8
<1>7. ASSUME NEW src \in Ips, NEW id \in Ids, EchoRequest(src, id)
      PROVE  Run' /\ Rest'
  BY <1>0, <1>7, SendTyped DEF EchoRequest, SameNet
<1>8. ASSUME NEW dst \in Ips, NEW alloc \in BOOLEAN, TcpSegment(dst, alloc)
      PROVE  Run' /\ Rest'
  <2>1. (IF_ \/ alloc) \in BOOLEAN
    OBVIOUS
  <2> QED
    BY <1>0, <1>8, <2>1, SendTyped DEF TcpSegment, SameNet
<1>9. ASSUME NEW alloc \in BOOLEAN, Silent(alloc)
      PROVE  Run' /\ Rest'
  <2>1. (IF_ \/ alloc) \in BOOLEAN
    OBVIOUS
  <2> QED
    BY <1>0, <1>9, <2>1 DEF Silent, SameNet
<1>10. ASSUME NEW id \in Ids, EchoReply(id)
       PROVE  Run' /\ Rest'
  <2>1. [at |-> "report", id |-> id] \in Places
    BY DEF Places
  <2>2. GoesTo([at |-> "report", id |-> id])
    BY <1>10 DEF EchoReply
  <2>3. Run'
    BY <2>1, <2>2, GoesTyped
  <2> QED
    BY <1>0, <1>10, <2>3 DEF EchoReply, SameNet
<1>11. CASE Remember
  <2>1. Top.id \in Ids
    BY <1>11, Running, PlaceFields DEF Remember
  <2>2. Run'
    BY <1>11, PlainPlaces, GoesTyped DEF Remember
  <2> QED
    BY <1>0, <1>11, <2>1, <2>2 DEF Remember
<1>12. ASSUME NEW dst \in Ips, Ping(dst)
       PROVE  Run' /\ Rest'
  <2>1. [at |-> "send", dst |-> dst] \in Places
    BY DEF Places
  <2>2. \E p \in Places : GoesTo(p)
    BY <1>12, <2>1, PlainPlaces DEF Ping
  <2>3. Run'
    BY <2>2, GoesTyped
  <2> QED
    BY <1>0, <1>12, <2>3 DEF Ping, SameNet
<1>13. CASE Send
  BY <1>0, <1>13, SendTyped DEF Send, SameNet
<1>14. CASE QueueTest
  <2>1. \E p \in Places : GoesTo(p)
    BY <1>14, PlainPlaces DEF QueueTest
  <2>2. Run'
    BY <2>1, GoesTyped
  <2> QED
    BY <1>0, <1>14, <2>2 DEF QueueTest, SameNet
<1>15. CASE QueueSlot
  <2>1. [at |-> "malloc", slot |-> pending_count] \in Places
    BY <1>0 DEF Places
  <2>2. GoesTo([at |-> "malloc", slot |-> pending_count])
    BY <1>15 DEF QueueSlot
  <2>3. Run'
    BY <2>1, <2>2, GoesTyped
  <2> QED
    BY <1>0, <1>15, <2>3 DEF QueueSlot, SameNet
<1>16. ASSUME NEW ok \in Malloc, QueueMalloc(ok)
       PROVE  Run' /\ Rest'
  <2>1. Top.slot \in Nat
    BY <1>16, Running, PlaceFields DEF QueueMalloc
  <2>2. [at |-> "fill", slot |-> Top.slot] \in Places
    BY <2>1 DEF Places
  <2>3. \E p \in Places : GoesTo(p)
    BY <1>16, <2>2, PlainPlaces DEF QueueMalloc
  <2>4. Run'
    BY <2>3, GoesTyped
  <2> QED
    BY <1>0, <1>16, <2>4 DEF QueueMalloc, SameNet
<1>17. CASE QueueFill
  <2>1. [at |-> "count", n |-> pending_count] \in Places
    BY <1>0 DEF Places
  <2>2. GoesTo([at |-> "count", n |-> pending_count])
    BY <1>17 DEF QueueFill
  <2>3. Run'
    BY <2>1, <2>2, GoesTyped
  <2> QED
    BY <1>0, <1>17, <2>3 DEF QueueFill, SameNet
<1>18. CASE QueueCount
  <2>1. Top.n \in Nat
    BY <1>18, Running, PlaceFields DEF QueueCount
  <2>2. Run'
    BY <1>18, PlainPlaces, GoesTyped DEF QueueCount
  <2> QED
    BY <1>0, <1>18, <2>1, <2>2 DEF QueueCount, SameNet
<1>19. CASE UNCHANGED vars
  BY <1>0, <1>19 DEF vars
<1> QED
  BY <1>2, <1>3, <1>4, <1>5, <1>6, <1>7, <1>8, <1>9, <1>10, <1>11, <1>12, <1>13, <1>14,
     <1>15, <1>16, <1>17, <1>18, <1>19
  DEF Next, queue_packet

(* The state that the boot leaves. *)
LEMMA NetInit == Init => TypeOK
<1> SUFFICES ASSUME Init PROVE TypeOK
  OBVIOUS
<1>1. <<Idle>> \in Seq(Places) /\ Len(<<Idle>>) = 1
  BY PlainPlaces
<1>2. run \in Seq(Places) /\ Len(run) \in 1 .. (MaxNest + 1)
  BY <1>1, Sizes DEF Init
<1>3. /\ arp_cache \in [Slots -> [ip : LocalIps \cup {NoIp}, mac : Macs \cup {"none"}]]
      /\ latest \in [LocalIps -> Macs \cup {"none"}]
  BY Sizes DEF Init
<1>4. /\ pending_count \in Nat /\ prev_id \in Ids
  BY Sizes DEF Init, Ids
<1>5. IF_ \in BOOLEAN /\ overtaken \in BOOLEAN
  BY Zenon DEF Init
<1> QED
  BY <1>2, <1>3, <1>4, <1>5 DEF TypeOK

LEMMA NetTyped == Spec => []TypeOK
<1>1. TypeOK /\ [Next]_vars => TypeOK'
  BY NetStep
<1> QED
  BY <1>1, NetInit, PTL DEF Spec

-----------------------------------------------------------------------------
(* The cache *)

(* A step that leaves the cache and the ghosts alone, and whose activity   *)
(* does not go to an update.                                               *)
LEMMA SameCache ==
  ASSUME TypeOK, CacheInv, UNCHANGED <<arp_cache, latest, overtaken>>,
         NEW p \in Places, p.at # "update", GoesTo(p)
  PROVE  CacheInv'
<1>1. Len(run') = Len(run) /\ run'[Len(run)] = p /\ Len(run) \in Nat
      /\ \A i \in 1 .. (Len(run) - 1) : run'[i] = run[i]
  BY Goes, Running
<1>2. Top'.at # "update"
  BY <1>1 DEF Top
<1>3. UpdatesOnTop'
  BY <1>1 DEF CacheInv, UpdatesOnTop
<1>4. (~overtaken => Ordered)'
  BY DEF CacheInv, Ordered
<1> QED
  BY <1>2, <1>3, <1>4 DEF CacheInv, SlotStands

(* A step that changes nothing of it. *)
LEMMA QuietCache ==
  ASSUME CacheInv, UNCHANGED <<arp_cache, latest, overtaken, run>>
  PROVE  CacheInv'
BY DEF CacheInv, UpdatesOnTop, Ordered, SlotStands, Top, UpdateSlots

(* The choice of a slot for an announcement.                               *)
LEMMA ChooseSlot ==
  ASSUME TypeOK, CacheInv, NEW ip \in LocalIps, NEW mac \in Macs,
         arp_cache_update(ip, mac), UNCHANGED <<arp_cache, overtaken>>
  PROVE  CacheInv'
<1>1. CASE UpdateSlots(ip) = {}
  <2>1. run' = run /\ latest' = [latest EXCEPT ![ip] = mac]
    BY <1>1 DEF arp_cache_update
  <2>2. \A i \in Slots : arp_cache[i].ip # ip
    BY <1>1 DEF UpdateSlots
  <2>3. \A i \in Slots : arp_cache[i].ip # NoIp => latest'[arp_cache[i].ip] = latest[arp_cache[i].ip]
    BY <2>1, <2>2 DEF TypeOK
  <2>4. (~overtaken => Ordered)'
    BY <2>3 DEF CacheInv, Ordered
  <2>5. (~overtaken => SlotStands)' /\ UpdatesOnTop'
    BY <2>1 DEF CacheInv, UpdatesOnTop, SlotStands, Top, UpdateSlots
  <2> QED
    BY <2>4, <2>5 DEF CacheInv
<1>2. CASE UpdateSlots(ip) # {}
  <2> DEFINE p == [at |-> "update", ip |-> ip, mac |-> mac, slot |-> First(UpdateSlots(ip))]
  <2>1. GoesTo(p) /\ latest' = latest
    BY <1>2 DEF arp_cache_update
  <2>2. First(UpdateSlots(ip)) \in Slots
    BY <1>2, FirstSlot DEF UpdateSlots
  <2>3. p \in Places
    BY <2>2 DEF Places
  <2>4. p.ip = ip /\ p.slot = First(UpdateSlots(ip))
    OBVIOUS
  <2> HIDE DEF p
  <2>5. Len(run') = Len(run) /\ run'[Len(run)] = p /\ Len(run) \in Nat
        /\ \A i \in 1 .. (Len(run) - 1) : run'[i] = run[i]
    BY <2>1, <2>3, Goes, Running
  <2>6. UpdatesOnTop'
    BY <2>5 DEF CacheInv, UpdatesOnTop
  <2>7. Top' = p
    BY <2>5 DEF Top
  <2>8. SlotStands'
    <3>1. Top'.ip = ip /\ Top'.slot = First(UpdateSlots(ip))
      BY <2>4, <2>7
    <3>2. \A w : w = ip => { i \in Slots : arp_cache'[i].ip \in {w, NoIp} } = UpdateSlots(ip)
      BY DEF UpdateSlots
    <3> QED
      BY <3>1, <3>2, <1>2 DEF SlotStands, UpdateSlots
  <2>9. (~overtaken => Ordered)'
    BY <2>1 DEF CacheInv, Ordered
  <2> QED
    BY <2>6, <2>8, <2>9 DEF CacheInv
<1> QED
  BY <1>1, <1>2

(* The write to the slot that was chosen, when no one came in between.     *)
LEMMA WriteOrdered ==
  ASSUME TypeOK, Ordered, SlotStands, WriteSlot
  PROVE  Ordered'
<1> DEFINE ip == Top.ip
           mac == Top.mac
           k == Top.slot
           U == UpdateSlots(ip)
<1>0. ip \in LocalIps /\ mac \in Macs /\ k \in Slots
  BY Running, PlaceFields DEF WriteSlot
<1>1. ip # NoIp
  BY <1>0, Sizes DEF Ips
<1>2. U # {} /\ k = First(U)
  BY DEF WriteSlot, SlotStands
<1>3. U \in SUBSET Slots
  BY DEF UpdateSlots
<1>4. /\ arp_cache' = [arp_cache EXCEPT ![k] = [ip |-> ip, mac |-> mac]]
      /\ latest' = [latest EXCEPT ![ip] = mac]
  BY DEF WriteSlot
<1>5. k \in U /\ \A j \in U : k <= j
  BY <1>2, <1>3, FirstSlot
<1>6. arp_cache[k].ip \in {ip, NoIp} /\ \A j \in Slots : j < k => arp_cache[j].ip \notin {ip, NoIp}
  BY <1>0, <1>5, Sizes DEF UpdateSlots, Slots
<1> HIDE DEF ip, mac, k, U
<1>7. \A j \in Slots : arp_cache[j].ip = ip => j = k
  BY <1>0, <1>1, <1>6, Sizes DEF Ordered, Slots
<1>8. /\ arp_cache'[k].ip = ip /\ arp_cache'[k].mac = mac
      /\ \A j \in Slots : j # k => arp_cache'[j] = arp_cache[j]
      /\ latest'[ip] = mac
      /\ \A a \in LocalIps : a # ip => latest'[a] = latest[a]
  BY <1>0, <1>4 DEF TypeOK
<1>9. ASSUME NEW i \in Slots, NEW j \in Slots, i <= j, arp_cache'[i].ip = NoIp
      PROVE  arp_cache'[j].ip = NoIp
  <2>1. i # k /\ arp_cache[i].ip = NoIp
    BY <1>1, <1>8, <1>9
  <2>2. k < i
    BY <1>0, <1>6, <2>1, Sizes DEF Slots
  <2>3. j # k
    BY <1>0, <1>9, <2>2, Sizes DEF Slots
  <2> QED
    BY <1>8, <1>9, <2>1, <2>3 DEF Ordered
<1>10. ASSUME NEW i \in Slots, arp_cache'[i].ip # NoIp
       PROVE  /\ arp_cache'[i].mac = latest'[arp_cache'[i].ip]
              /\ \A j \in Slots : arp_cache'[j].ip = arp_cache'[i].ip => j = i
  <2>1. CASE i = k
    BY <1>7, <1>8, <2>1
  <2>2. CASE i # k
    <3>1. arp_cache[i].ip # ip /\ arp_cache'[i] = arp_cache[i]
      BY <1>7, <1>8, <2>2
    <3>2. arp_cache[i].ip \in LocalIps
      BY <1>10, <3>1 DEF TypeOK
    <3> QED
      BY <1>8, <1>10, <3>1, <3>2 DEF Ordered
  <2> QED
    BY <2>1, <2>2
<1> QED
  BY <1>9, <1>10 DEF Ordered

LEMMA CacheStep == ASSUME TypeOK, CacheInv, [Next]_vars PROVE CacheInv'
<1>1. CASE Interrupt
  <2>1. /\ Len(run') = Len(run) + 1 /\ run'[Len(run')] = Idle /\ Len(run) \in Nat
        /\ \A i \in 1 .. Len(run) : run'[i] = run[i]
        /\ Len(run) \in 1 .. Len(run)
    BY <1>1, Enters, Running
  <2>2. overtaken' = (overtaken \/ Top.at = "update") /\ UNCHANGED <<arp_cache, latest>>
    BY <1>1 DEF Interrupt
  <2>3. Top'.at = "idle"
    BY <2>1 DEF Top, Idle
  <2>4. UpdatesOnTop'
    <3> SUFFICES ASSUME ~overtaken', NEW i \in 1 .. (Len(run') - 1)
                 PROVE  run'[i].at # "update"
      BY DEF UpdatesOnTop
    <3>1. ~overtaken /\ run[Len(run)].at # "update"
      BY <2>2 DEF Top
    <3>2. i \in 1 .. Len(run) /\ run'[i] = run[i]
      BY <2>1
    <3>3. i = Len(run) \/ i \in 1 .. (Len(run) - 1)
      BY <2>1, <3>2
    <3> QED
      BY <3>1, <3>2, <3>3 DEF CacheInv, UpdatesOnTop
  <2>5. (~overtaken => Ordered)'
    BY <2>2 DEF CacheInv, Ordered
  <2> QED
    BY <2>3, <2>4, <2>5 DEF CacheInv, SlotStands
<1>2. CASE Return
  <2>1. /\ Len(run') = Len(run) - 1 /\ Len(run') >= 1 /\ Len(run) \in Nat
        /\ \A i \in 1 .. (Len(run) - 1) : run'[i] = run[i]
    BY <1>2, Leaves, Running
  <2>2. UNCHANGED <<arp_cache, latest, overtaken>>
    BY <1>2 DEF Return
  <2>3. UpdatesOnTop' /\ (~overtaken => Top'.at # "update")
    BY <2>1, <2>2 DEF CacheInv, UpdatesOnTop, Top
  <2>4. (~overtaken => Ordered)'
    BY <2>2 DEF CacheInv, Ordered
  <2> QED
    BY <2>2, <2>3, <2>4 DEF CacheInv, SlotStands
<1>3. ASSUME NEW ip \in LocalIps, NEW mac \in Macs, ArpReply(ip, mac)
      PROVE  CacheInv'
  BY <1>3, ChooseSlot DEF ArpReply
<1>4. ASSUME NEW ip \in LocalIps, NEW mac \in Macs, NEW target,
             ArpRequestReceived(ip, mac, target)
      PROVE  CacheInv'
  <2>1. UNCHANGED <<arp_cache, overtaken>>
    BY <1>4 DEF ArpRequestReceived
  <2>2. arp_cache_update(ip, mac) \/ UNCHANGED <<run, latest>>
    BY <1>4 DEF ArpRequestReceived
  <2> QED
    BY <2>1, <2>2, ChooseSlot, QuietCache
<1>5. CASE WriteSlot
  <2>1. GoesTo(Idle) /\ UNCHANGED overtaken
    BY <1>5 DEF WriteSlot
  <2>2. Len(run') = Len(run) /\ run'[Len(run)] = Idle /\ Len(run) \in Nat
        /\ \A i \in 1 .. (Len(run) - 1) : run'[i] = run[i]
    BY <2>1, PlainPlaces, Goes, Running
  <2>3. Top'.at = "idle"
    BY <2>2 DEF Top, Idle
  <2>4. UpdatesOnTop'
    BY <2>1, <2>2 DEF CacheInv, UpdatesOnTop
  <2>5. (~overtaken => Ordered)'
    BY <1>5, <2>1, WriteOrdered DEF CacheInv
  <2> QED
    BY <2>3, <2>4, <2>5 DEF CacheInv, SlotStands
<1>6. ASSUME NEW p \in Places, p.at # "update", GoesTo(p), UNCHANGED <<arp_cache, latest, overtaken>>
      PROVE  CacheInv'
  BY <1>6, SameCache
<1>7. ASSUME NEW dst, net_send_ipv4_packet(dst), UNCHANGED <<arp_cache, latest, overtaken>>
      PROVE  CacheInv'
  <2>1. \E p \in Places : p.at # "update" /\ GoesTo(p)
    BY <1>7, PlainPlaces DEF net_send_ipv4_packet, Idle
  <2> QED
    BY <1>7, <2>1, <1>6
<1>8. ASSUME NEW id \in Ids, EchoReply(id)
      PROVE  CacheInv'
  <2>1. [at |-> "report", id |-> id] \in Places
    BY DEF Places
  <2> QED
    BY <1>6, <1>8, <2>1 DEF EchoReply, SameNet
<1>9. CASE Remember
  BY <1>6, <1>9, PlainPlaces DEF Remember, Idle
<1>10. ASSUME NEW dst \in Ips, Ping(dst)
       PROVE  CacheInv'
  <2>1. [at |-> "send", dst |-> dst] \in Places
    BY DEF Places
  <2>2. \E p \in Places : p.at # "update" /\ GoesTo(p)
    BY <1>10, <2>1, PlainPlaces DEF Ping
  <2> QED
    BY <1>6, <1>10, <2>2 DEF Ping, SameNet
<1>11. CASE queue_packet
  <2>1. UNCHANGED <<arp_cache, latest, overtaken>>
    BY <1>11 DEF queue_packet, QueueTest, QueueSlot, QueueMalloc, QueueFill, QueueCount, SameNet
  <2>2. \E p \in Places : p.at # "update" /\ GoesTo(p)
    <3>1. CASE QueueTest
      BY <3>1, PlainPlaces DEF QueueTest, Idle
    <3>2. CASE QueueSlot
      <4>1. [at |-> "malloc", slot |-> pending_count] \in Places
        BY DEF Places, TypeOK
      <4> QED
        BY <3>2, <4>1 DEF QueueSlot
    <3>3. ASSUME NEW ok \in Malloc, QueueMalloc(ok)
          PROVE  \E p \in Places : p.at # "update" /\ GoesTo(p)
      <4>1. Top.slot \in Nat
        BY <3>3, Running, PlaceFields DEF QueueMalloc
      <4>2. [at |-> "fill", slot |-> Top.slot] \in Places
        BY <4>1 DEF Places
      <4> QED
        BY <3>3, <4>2, PlainPlaces DEF QueueMalloc, Idle
    <3>4. CASE QueueFill
      <4>1. [at |-> "count", n |-> pending_count] \in Places
        BY DEF Places, TypeOK
      <4> QED
        BY <3>4, <4>1 DEF QueueFill
    <3>5. CASE QueueCount
      BY <3>5, PlainPlaces DEF QueueCount, Idle
    <3> QED
      BY <1>11, <3>1, <3>2, <3>3, <3>4, <3>5 DEF queue_packet
  <2> QED
    BY <1>6, <2>1, <2>2
<1>12. ASSUME NEW src \in Ips, NEW id \in Ids, EchoRequest(src, id)
       PROVE  CacheInv'
  BY <1>7, <1>12 DEF EchoRequest, SameNet
<1>13. ASSUME NEW dst \in Ips, NEW alloc \in BOOLEAN, TcpSegment(dst, alloc)
       PROVE  CacheInv'
  BY <1>7, <1>13 DEF TcpSegment, SameNet
<1>14. CASE Send
  BY <1>7, <1>14 DEF Send, SameNet
<1>15. ASSUME NEW alloc \in BOOLEAN, Silent(alloc)
       PROVE  CacheInv'
  BY <1>15, QuietCache DEF Silent, SameNet
<1>16. CASE UNCHANGED vars
  BY <1>16, QuietCache DEF vars
<1> QED
  BY <1>1, <1>2, <1>3, <1>4, <1>5, <1>8, <1>9, <1>10, <1>11, <1>12, <1>13, <1>14, <1>15, <1>16
  DEF Next

LEMMA CacheStart == Init => CacheInv
<1> SUFFICES ASSUME Init PROVE CacheInv
  OBVIOUS
<1>1. Len(run) = 1 /\ Top = Idle
  BY DEF Init, Top
<1>2. Ordered
  BY DEF Init, Ordered
<1> QED
  BY <1>1, <1>2 DEF CacheInv, UpdatesOnTop, SlotStands, Idle

-----------------------------------------------------------------------------
(* The queue *)

InFlightPlaces == {"choose", "malloc", "fill", "count"}

(* How many activities are in flight when the running one moves.           *)
LEMMA FlightsCount ==
  ASSUME TypeOK
  PROVE  /\ IsFiniteSet(InFlight) /\ Cardinality(InFlight) \in Nat
         /\ Top.at \notin InFlightPlaces => Cardinality(InFlight) <= MaxNest
<1>1. Len(run) \in 1 .. (MaxNest + 1) /\ Len(run) \in Nat /\ MaxNest \in Nat
  BY Running, Sizes
<1>2. IsFiniteSet(1 .. Len(run)) /\ InFlight \subseteq 1 .. Len(run)
  BY <1>1, FS_Interval DEF InFlight
<1>3. IsFiniteSet(InFlight) /\ Cardinality(InFlight) \in Nat
  BY <1>2, FS_Subset, FS_CardinalityType
<1>4. ASSUME Top.at \notin InFlightPlaces
      PROVE  Cardinality(InFlight) <= MaxNest
  <2>1. InFlight \subseteq 1 .. (Len(run) - 1)
    BY <1>1, <1>4 DEF InFlight, InFlightPlaces, Top
  <2> DEFINE m == Len(run) - 1
  <2>2. m \in Nat /\ m <= MaxNest
    BY <1>1
  <2> HIDE DEF m
  <2>3. IsFiniteSet(1 .. m) /\ Cardinality(1 .. m) = m
    BY <2>2, FS_Interval
  <2>4. Cardinality(InFlight) <= m
    BY <2>1, <2>3, FS_Subset DEF m
  <2> QED
    BY <1>1, <1>3, <2>2, <2>4
<1> QED
  BY <1>3, <1>4

(* A step of the running activity adds it to those in flight, takes it     *)
(* away, or changes nothing.                                               *)
LEMMA FlightsMove ==
  ASSUME TypeOK, NEW p \in Places, GoesTo(p)
  PROVE  /\ p.at \notin InFlightPlaces /\ Top.at \in InFlightPlaces
              => Cardinality(InFlight') = Cardinality(InFlight) - 1
         /\ p.at \in InFlightPlaces /\ Top.at \notin InFlightPlaces
              => Cardinality(InFlight') = Cardinality(InFlight) + 1
         /\ (p.at \in InFlightPlaces <=> Top.at \in InFlightPlaces) => InFlight' = InFlight
<1> DEFINE d == Len(run)
<1>1. /\ Len(run') = d /\ run'[d] = p /\ d \in 1 .. d /\ run[d] = Top
      /\ \A i \in 1 .. d : i # d => run'[i] = run[i]
  BY Goes, Running DEF Top
<1>2. IsFiniteSet(InFlight)
  BY FlightsCount
<1>3. /\ InFlight = { i \in 1 .. d : run[i].at \in InFlightPlaces }
      /\ InFlight' = { i \in 1 .. d : run'[i].at \in InFlightPlaces }
  BY <1>1 DEF InFlight, InFlightPlaces
<1> HIDE DEF d
<1>4. ASSUME p.at \notin InFlightPlaces, Top.at \in InFlightPlaces
      PROVE  Cardinality(InFlight') = Cardinality(InFlight) - 1
  <2>1. InFlight' = InFlight \ {d} /\ d \in InFlight
    BY <1>1, <1>3, <1>4
  <2> QED
    BY <1>2, <2>1, FS_RemoveElement
<1>5. ASSUME p.at \in InFlightPlaces, Top.at \notin InFlightPlaces
      PROVE  Cardinality(InFlight') = Cardinality(InFlight) + 1
  <2>1. InFlight' = InFlight \cup {d} /\ d \notin InFlight
    BY <1>1, <1>3, <1>5
  <2> QED
    BY <1>2, <2>1, FS_AddElement
<1>6. ASSUME p.at \in InFlightPlaces <=> Top.at \in InFlightPlaces
      PROVE  InFlight' = InFlight
  BY <1>1, <1>3, <1>6
<1> QED
  BY <1>4, <1>5, <1>6

(* A step of an activity that is not in flight and does not get there.     *)
LEMMA QueueAlone ==
  ASSUME TypeOK, CountInv, NEW p \in Places, GoesTo(p), p.at \notin InFlightPlaces,
         UNCHANGED pending_count
  PROVE  CountInv'
<1>1. Cardinality(InFlight') <= Cardinality(InFlight) /\ Cardinality(InFlight') \in Int
  BY FlightsMove, FlightsCount
<1>2. pending_count + Cardinality(InFlight') <= MAX_PENDING_PACKETS + MaxNest
  BY <1>1, FlightsCount, Sizes DEF CountInv, TypeOK
<1>3. /\ Len(run') = Len(run) /\ run'[Len(run)] = p /\ Len(run) \in Nat
      /\ \A i \in 1 .. Len(run) : i # Len(run) => run'[i] = run[i]
  BY Goes, Running
<1>4. \A i \in 1 .. Len(run) : run'[i].at \in InFlightPlaces => run'[i] = run[i]
  BY <1>3
<1> QED
  BY <1>2, <1>3, <1>4 DEF CountInv, InFlightPlaces

(* Interrupts, and what leaves the activities alone, do not reach it.      *)
LEMMA QueueQuiet ==
  ASSUME TypeOK, CountInv, UNCHANGED pending_count,
         UNCHANGED run \/ Interrupt \/ Return
  PROVE  CountInv'
<1>1. CASE UNCHANGED run
  BY <1>1 DEF CountInv, InFlight
<1>2. CASE Interrupt
  <2>1. /\ Len(run') = Len(run) + 1 /\ run'[Len(run')] = Idle /\ Len(run) \in Nat
        /\ \A i \in 1 .. Len(run) : run'[i] = run[i]
    BY <1>2, Enters, Running
  <2>2. \A i \in 1 .. Len(run') : run'[i].at \in InFlightPlaces => i \in 1 .. Len(run) /\ run'[i] = run[i]
    BY <2>1 DEF Idle, InFlightPlaces
  <2>3. InFlight' = InFlight
    BY <2>1, <2>2 DEF InFlight, InFlightPlaces
  <2> QED
    BY <2>1, <2>2, <2>3 DEF CountInv, InFlightPlaces
<1>3. CASE Return
  <2>1. /\ Len(run') = Len(run) - 1 /\ Len(run') >= 1 /\ Len(run) \in Nat
        /\ run[Len(run)] = Idle
        /\ \A i \in 1 .. (Len(run) - 1) : run'[i] = run[i]
    BY <1>3, Leaves, Running
  <2>2. \A i \in 1 .. Len(run) : run[i].at \in InFlightPlaces => i \in 1 .. Len(run')
    BY <2>1 DEF Idle, InFlightPlaces
  <2>3. InFlight' = InFlight
    BY <2>1, <2>2 DEF InFlight, InFlightPlaces
  <2> QED
    BY <2>1, <2>3 DEF CountInv
<1> QED
  BY <1>1, <1>2, <1>3

LEMMA CountStep == ASSUME TypeOK, CountInv, [Next]_vars PROVE CountInv'
<1>0. /\ pending_count \in Nat /\ Cardinality(InFlight) \in Nat /\ MaxNest \in Nat
      /\ MAX_PENDING_PACKETS \in Nat
      /\ Len(run) \in Nat /\ Len(run) \in 1 .. Len(run) /\ Top = run[Len(run)] /\ Top \in Places
  BY FlightsCount, Sizes, Running DEF TypeOK, Top
<1>1. CASE QueueTest
  <2>1. CASE ~QueueHasRoom
    BY <1>1, <2>1, PlainPlaces, QueueAlone DEF QueueTest, Idle, InFlightPlaces
  <2>2. CASE QueueHasRoom
    <3> DEFINE p == [at |-> "choose"]
    <3>1. p \in Places /\ GoesTo(p) /\ p.at = "choose" /\ pending_count' = pending_count
          /\ pending_count < MAX_PENDING_PACKETS /\ Top.at = "queue"
      BY <1>1, <2>2, PlainPlaces DEF QueueTest, QueueHasRoom
    <3> HIDE DEF p
    <3>2. /\ Len(run') = Len(run) /\ run'[Len(run)] = p
          /\ \A i \in 1 .. Len(run) : i # Len(run) => run'[i] = run[i]
      BY <3>1, Goes
    <3>3. Cardinality(InFlight') = Cardinality(InFlight) + 1 /\ Cardinality(InFlight) <= MaxNest
      BY <3>1, FlightsMove, FlightsCount DEF InFlightPlaces
    <3>4. pending_count' + Cardinality(InFlight') <= MAX_PENDING_PACKETS + MaxNest
      BY <1>0, <3>1, <3>3
    <3>5. \A i \in 1 .. Len(run) : run'[i].at \in {"malloc", "fill", "count"} => run'[i] = run[i]
      BY <3>1, <3>2
    <3> QED
      BY <3>1, <3>2, <3>4, <3>5 DEF CountInv
  <2> QED
    BY <2>1, <2>2
<1>2. CASE QueueSlot
  <2> DEFINE p == [at |-> "malloc", slot |-> pending_count]
  <2>1. p \in Places /\ GoesTo(p) /\ p.at = "malloc" /\ p.slot = pending_count
        /\ pending_count' = pending_count /\ Top.at = "choose"
    BY <1>0, <1>2 DEF QueueSlot, Places
  <2> HIDE DEF p
  <2>2. /\ Len(run') = Len(run) /\ run'[Len(run)] = p
        /\ \A i \in 1 .. Len(run) : i # Len(run) => run'[i] = run[i]
    BY <2>1, Goes
  <2>3. InFlight' = InFlight
    BY <2>1, FlightsMove DEF InFlightPlaces
  <2>4. Len(run) \in InFlight
    BY <1>0, <2>1 DEF InFlight
  <2>5. Cardinality(InFlight) # 0
    BY <2>4, FlightsCount, FS_EmptySet
  <2>6. pending_count < MAX_PENDING_PACKETS + MaxNest
    BY <1>0, <2>5 DEF CountInv
  <2>7. \A i \in 1 .. Len(run) : i # Len(run) => run'[i] = run[i]
    BY <2>2
  <2>8. \A i \in 1 .. Len(run) : run'[i].at = "count" => run'[i] = run[i]
    BY <2>1, <2>2
  <2> QED
    BY <2>1, <2>2, <2>3, <2>6, <2>8 DEF CountInv
<1>3. ASSUME NEW ok \in Malloc, QueueMalloc(ok)
      PROVE  CountInv'
  <2>1. CASE ~ok
    BY <1>3, <2>1, PlainPlaces, QueueAlone DEF QueueMalloc, Idle, InFlightPlaces
  <2>2. CASE ok
    <3> DEFINE p == [at |-> "fill", slot |-> Top.slot]
    <3>1. Top.at = "malloc" /\ Top.slot \in Nat
      BY <1>3, Running, PlaceFields DEF QueueMalloc
    <3>2. p \in Places /\ GoesTo(p) /\ p.at = "fill" /\ p.slot = Top.slot
          /\ pending_count' = pending_count
      BY <1>3, <2>2, <3>1 DEF QueueMalloc, Places
    <3> HIDE DEF p
    <3>3. /\ Len(run') = Len(run) /\ run'[Len(run)] = p
          /\ \A i \in 1 .. Len(run) : i # Len(run) => run'[i] = run[i]
      BY <3>2, Goes
    <3>4. InFlight' = InFlight
      BY <3>1, <3>2, FlightsMove DEF InFlightPlaces
    <3>5. Top.slot < MAX_PENDING_PACKETS + MaxNest
      BY <1>0, <3>1 DEF CountInv
    <3>6. \A i \in 1 .. Len(run) : run'[i].at = "count" => run'[i] = run[i]
      BY <3>2, <3>3
    <3> QED
      BY <3>2, <3>3, <3>4, <3>5, <3>6 DEF CountInv
  <2> QED
    BY <2>1, <2>2
<1>4. CASE QueueFill
  <2> DEFINE p == [at |-> "count", n |-> pending_count]
  <2>1. p \in Places /\ GoesTo(p) /\ p.at = "count" /\ p.n = pending_count
        /\ pending_count' = pending_count /\ Top.at = "fill"
    BY <1>0, <1>4 DEF QueueFill, Places
  <2> HIDE DEF p
  <2>2. /\ Len(run') = Len(run) /\ run'[Len(run)] = p
        /\ \A i \in 1 .. Len(run) : i # Len(run) => run'[i] = run[i]
    BY <2>1, Goes
  <2>3. InFlight' = InFlight
    BY <2>1, FlightsMove DEF InFlightPlaces
  <2>4. ASSUME NEW i \in 1 .. Len(run), run'[i].at = "count"
        PROVE  /\ run'[i].n <= pending_count
               /\ \A j \in i .. Len(run) : run'[j].at = "count" => run'[i].n <= run'[j].n
    <3>1. CASE i = Len(run)
      BY <1>0, <2>1, <2>2, <3>1
    <3>2. CASE i # Len(run)
      <4>1. run'[i] = run[i] /\ run[i].at = "count" /\ run[i].n <= pending_count
        BY <2>2, <2>4, <3>2 DEF CountInv
      <4>2. ASSUME NEW j \in i .. Len(run), run'[j].at = "count"
            PROVE  run'[i].n <= run'[j].n
        <5>1. CASE j = Len(run)
          BY <2>1, <2>2, <4>1, <5>1
        <5>2. CASE j # Len(run)
          <6>1. j \in 1 .. Len(run) /\ run'[j] = run[j]
            BY <1>0, <2>2, <5>2
          <6> QED
            BY <4>1, <4>2, <6>1 DEF CountInv
        <5> QED
          BY <5>1, <5>2
      <4> QED
        BY <4>1, <4>2
    <3> QED
      BY <3>1, <3>2
  <2>5. \A i \in 1 .. Len(run) : run'[i].at \in {"malloc", "fill"} => run'[i] = run[i]
    BY <2>1, <2>2
  <2> QED
    BY <2>1, <2>2, <2>3, <2>4, <2>5 DEF CountInv
<1>5. CASE QueueCount
  <2>1. Top.at = "count" /\ Top.n \in Nat /\ GoesTo(Idle) /\ pending_count' = Top.n + 1
    BY <1>5, Running, PlaceFields DEF QueueCount
  <2>2. /\ Len(run') = Len(run) /\ run'[Len(run)] = Idle
        /\ \A i \in 1 .. Len(run) : i # Len(run) => run'[i] = run[i]
    BY <2>1, PlainPlaces, Goes
  <2>3. Cardinality(InFlight') = Cardinality(InFlight) - 1
    BY <2>1, PlainPlaces, FlightsMove DEF InFlightPlaces, Idle
  <2>4. Top.n <= pending_count
    BY <1>0, <2>1 DEF CountInv
  <2>5. pending_count' + Cardinality(InFlight') <= MAX_PENDING_PACKETS + MaxNest
    BY <1>0, <2>1, <2>3, <2>4 DEF CountInv
  <2>6. ASSUME NEW i \in 1 .. Len(run), run'[i].at \in InFlightPlaces
        PROVE  i # Len(run) /\ run'[i] = run[i]
    BY <2>2, <2>6 DEF Idle, InFlightPlaces
  <2>7. ASSUME NEW i \in 1 .. Len(run), run'[i].at = "count"
        PROVE  /\ run'[i].n <= pending_count'
               /\ \A j \in i .. Len(run) : run'[j].at = "count" => run'[i].n <= run'[j].n
    <3>1. i # Len(run) /\ run'[i] = run[i] /\ run[i].n \in Nat
      BY <2>6, <2>7, Running, PlaceFields DEF InFlightPlaces
    <3>2. Len(run) \in i .. Len(run) /\ i .. Len(run) \subseteq 1 .. Len(run)
      BY <1>0
    <3>3. run[i].n <= Top.n
      BY <1>0, <2>1, <2>7, <3>1, <3>2 DEF CountInv
    <3>4. \A j \in i .. Len(run) : run'[j].at = "count" => run[j] = run'[j]
      BY <2>6, <3>2 DEF InFlightPlaces
    <3>5. \A j \in i .. Len(run) : run'[j].at = "count" => run[i].n <= run'[j].n
      BY <2>7, <3>1, <3>4 DEF CountInv
    <3> QED
      BY <2>1, <3>1, <3>3, <3>5
  <2>8. \A i \in 1 .. Len(run) : run'[i].at \in {"malloc", "fill"} => run'[i] = run[i]
    BY <2>6 DEF InFlightPlaces
  <2> QED
    BY <2>2, <2>5, <2>7, <2>8 DEF CountInv
<1>6. ASSUME UNCHANGED pending_count, NEW dst, net_send_ipv4_packet(dst)
      PROVE  CountInv'
  BY <1>6, PlainPlaces, QueueAlone DEF net_send_ipv4_packet, Idle, InFlightPlaces
<1>7. ASSUME UNCHANGED pending_count, NEW ip \in LocalIps, NEW mac \in Macs,
             arp_cache_update(ip, mac)
      PROVE  CountInv'
  <2>1. CASE UpdateSlots(ip) = {}
    BY <1>7, <2>1, QueueQuiet DEF arp_cache_update
  <2>2. CASE UpdateSlots(ip) # {}
    <3> DEFINE p == [at |-> "update", ip |-> ip, mac |-> mac, slot |-> First(UpdateSlots(ip))]
    <3>1. First(UpdateSlots(ip)) \in Slots
      BY <2>2, FirstSlot DEF UpdateSlots
    <3>2. p \in Places /\ p.at = "update" /\ GoesTo(p)
      BY <1>7, <2>2, <3>1 DEF Places, arp_cache_update
    <3> HIDE DEF p
    <3> QED
      BY <1>7, <3>2, QueueAlone DEF InFlightPlaces
  <2> QED
    BY <2>1, <2>2
<1>8. ASSUME NEW ip \in LocalIps, NEW mac \in Macs, NEW target,
             ArpReply(ip, mac) \/ ArpRequestReceived(ip, mac, target)
      PROVE  CountInv'
  <2>1. pending_count' = pending_count /\ (arp_cache_update(ip, mac) \/ UNCHANGED run)
    BY <1>8 DEF ArpReply, ArpRequestReceived
  <2> QED
    BY <1>7, <2>1, QueueQuiet
<1>9. CASE WriteSlot \/ Remember
  BY <1>9, PlainPlaces, QueueAlone DEF WriteSlot, Remember, Idle, InFlightPlaces
<1>10. ASSUME NEW src \in Ips, NEW id \in Ids, EchoRequest(src, id)
       PROVE  CountInv'
  BY <1>6, <1>10 DEF EchoRequest
<1>11. ASSUME NEW dst \in Ips, NEW alloc \in BOOLEAN, TcpSegment(dst, alloc)
       PROVE  CountInv'
  BY <1>6, <1>11 DEF TcpSegment
<1>12. CASE Send
  BY <1>6, <1>12 DEF Send
<1>13. ASSUME NEW id \in Ids, EchoReply(id)
       PROVE  CountInv'
  <2>1. [at |-> "report", id |-> id] \in Places
    BY DEF Places
  <2> QED
    BY <1>13, <2>1, QueueAlone DEF EchoReply, InFlightPlaces
<1>14. ASSUME NEW dst \in Ips, Ping(dst)
       PROVE  CountInv'
  <2>1. [at |-> "send", dst |-> dst] \in Places
    BY DEF Places
  <2>2. pending_count' = pending_count /\ \E p \in Places : p.at \notin InFlightPlaces /\ GoesTo(p)
    BY <1>14, <2>1, PlainPlaces DEF Ping, InFlightPlaces
  <2> QED
    BY <2>2, QueueAlone
<1>15. ASSUME NEW alloc \in BOOLEAN, Silent(alloc)
       PROVE  CountInv'
  BY <1>15, QueueQuiet DEF Silent
<1>16. CASE Interrupt \/ Return \/ UNCHANGED vars
  <2>1. pending_count' = pending_count /\ (UNCHANGED run \/ Interrupt \/ Return)
    BY <1>16 DEF Interrupt, Return, vars
  <2> QED
    BY <2>1, QueueQuiet
<1> QED
  BY <1>1, <1>2, <1>3, <1>4, <1>5, <1>8, <1>9, <1>10, <1>11, <1>12, <1>13, <1>14, <1>15, <1>16
  DEF Next, queue_packet

LEMMA CountStart == Init => CountInv
<1> SUFFICES ASSUME Init PROVE CountInv
  OBVIOUS
<1>1. Len(run) = 1 /\ run[1].at = "idle" /\ pending_count = 0
  BY DEF Init, Idle
<1>2. InFlight = {}
  BY <1>1 DEF InFlight
<1>3. Cardinality(InFlight) = 0
  BY <1>2, FS_EmptySet
<1> QED
  BY <1>1, <1>3, Sizes DEF CountInv

-----------------------------------------------------------------------------
(* Theorems *)

(* While no handler breaks into an update of the cache, an address has at  *)
(* most one slot of it, and the slot holds the MAC announced last: for     *)
(* caches of every size, whatever else the nested handlers do.             *)
THEOREM CacheStaysCurrent == Spec => []CacheCurrent
<1>1. TypeOK /\ CacheInv /\ [Next]_vars => CacheInv'
  BY CacheStep
<1>2. TypeOK /\ CacheInv => CacheCurrent
  BY DEF CacheInv, Ordered, CacheCurrent
<1> QED
  BY <1>1, <1>2, CacheStart, NetTyped, PTL DEF Spec

(* The count of queued packets, and the slots that are written, overshoot  *)
(* the queue by no more than handlers nest.                                *)
THEOREM OvershootIsBounded == Spec => []PendingInBounds
<1>1. TypeOK /\ CountInv /\ [Next]_vars => CountInv'
  BY CountStep
<1>2. TypeOK /\ CountInv => PendingInBounds
  <2> SUFFICES ASSUME TypeOK, CountInv PROVE PendingInBounds
    OBVIOUS
  <2>1. pending_count <= MAX_PENDING_PACKETS + MaxNest
    BY FlightsCount, Sizes DEF CountInv, TypeOK
  <2>2. DOMAIN run = 1 .. Len(run)
    BY DEF TypeOK
  <2> QED
    BY <2>1, <2>2 DEF CountInv, PendingInBounds
<1> QED
  BY <1>1, <1>2, CountStart, NetTyped, PTL DEF Spec

(* An identifier that is settled is never reported again, by the running   *)
(* handler or by one that it broke into.                                   *)
THEOREM SettledRepliesStay == Spec => RepliesSettle
<1>1. ASSUME TypeOK, [Next]_vars, NEW id \in Ids, Settled(id)
      PROVE  Settled(id)'
  <2> DEFINE Others == \A i \in 1 .. Len(run') : run'[i].at = "report" =>
                          i \in 1 .. Len(run) /\ run'[i] = run[i]
  <2>0. /\ prev_id \in Ids /\ Ids \subseteq Nat /\ id \in Nat /\ id <= prev_id
        /\ \A i \in 1 .. Len(run) : run[i].at = "report" => id < run[i].id
        /\ Len(run) \in 1 .. Len(run) /\ Top = run[Len(run)]
    BY <1>1, Sizes, Running DEF TypeOK, Ids, Settled, Top
  <2>1. ASSUME UNCHANGED prev_id, Others, run' \in Seq(Places)
        PROVE  Settled(id)'
    <3>1. DOMAIN run' = 1 .. Len(run')
      BY <2>1
    <3> QED
      BY <2>0, <2>1, <3>1 DEF Settled
  <2>2. ASSUME NEW p \in Places, p.at # "report", GoesTo(p)
        PROVE  Others /\ run' \in Seq(Places)
    BY <1>1, <2>2, Goes
  <2>3. ASSUME UNCHANGED run
        PROVE  Others /\ run' \in Seq(Places)
    BY <1>1, <2>3 DEF TypeOK
  <2>4. CASE Interrupt
    <3>1. Others /\ run' \in Seq(Places)
      BY <1>1, <2>4, Enters, Running DEF Idle
    <3> QED
      BY <2>1, <2>4, <3>1 DEF Interrupt
  <2>5. CASE Return
    <3>1. Others /\ run' \in Seq(Places)
      BY <1>1, <2>5, Leaves, Running
    <3> QED
      BY <2>1, <2>5, <3>1 DEF Return
  <2>6. ASSUME NEW new \in Ids, EchoReply(new)
        PROVE  Settled(id)'
    <3> DEFINE p == [at |-> "report", id |-> new]
    <3>1. p \in Places /\ GoesTo(p) /\ p.id = new /\ prev_id < new /\ prev_id' = prev_id
      BY <2>6 DEF EchoReply, Places, Unprocessed, SameNet
    <3> HIDE DEF p
    <3>2. /\ Len(run') = Len(run) /\ run'[Len(run)] = p /\ run' \in Seq(Places)
          /\ \A i \in 1 .. Len(run) : i # Len(run) => run'[i] = run[i]
      BY <1>1, <3>1, Goes
    <3>3. id < new
      BY <2>0, <3>1
    <3>4. \A i \in 1 .. Len(run') : run'[i].at = "report" => id < run'[i].id
      BY <2>0, <3>1, <3>2, <3>3
    <3>5. DOMAIN run' = 1 .. Len(run')
      BY <3>2
    <3> QED
      BY <2>0, <3>1, <3>4, <3>5 DEF Settled
  <2>7. CASE Remember
    <3>1. Top.at = "report" /\ prev_id' = Top.id /\ GoesTo(Idle) /\ Top.id \in Ids
      BY <1>1, <2>7, Running, PlaceFields DEF Remember
    <3>2. id < Top.id
      BY <2>0, <3>1
    <3>3. Others /\ run' \in Seq(Places)
      BY <2>2, <3>1, PlainPlaces DEF Idle
    <3>4. DOMAIN run' = 1 .. Len(run')
      BY <3>3
    <3>5. id <= prev_id'
      <4>1. id \in Nat /\ Top.id \in Nat
        BY <2>0, <3>1
      <4>2. prev_id' = Top.id
        BY <3>1
      <4> QED
        BY <3>2, <4>1, <4>2
    <3>6. \A i \in 1 .. Len(run') : run'[i].at = "report" => id < run'[i].id
      BY <2>0, <3>3
    <3> QED
      BY <3>4, <3>5, <3>6 DEF Settled
  <2>8. ASSUME NEW ip \in LocalIps, NEW mac \in Macs, arp_cache_update(ip, mac)
        PROVE  Others /\ run' \in Seq(Places)
    <3>1. CASE UpdateSlots(ip) = {}
      BY <2>3, <2>8, <3>1 DEF arp_cache_update
    <3>2. CASE UpdateSlots(ip) # {}
      <4> DEFINE p == [at |-> "update", ip |-> ip, mac |-> mac, slot |-> First(UpdateSlots(ip))]
      <4>1. First(UpdateSlots(ip)) \in Slots
        BY <3>2, FirstSlot DEF UpdateSlots
      <4>2. p \in Places /\ p.at = "update" /\ GoesTo(p)
        BY <2>8, <3>2, <4>1 DEF Places, arp_cache_update
      <4> HIDE DEF p
      <4> QED
        BY <2>2, <4>2
    <3> QED
      BY <3>1, <3>2
  <2>9. ASSUME NEW dst, net_send_ipv4_packet(dst)
        PROVE  Others /\ run' \in Seq(Places)
    BY <2>2, <2>9, PlainPlaces DEF net_send_ipv4_packet, Idle
  <2> HIDE DEF Others
  <2>10. CASE queue_packet
    <3>1. prev_id' = prev_id
      BY <2>10 DEF queue_packet, QueueTest, QueueSlot, QueueMalloc, QueueFill, QueueCount, SameNet
    <3>2. pending_count \in Nat
      BY <1>1 DEF TypeOK
    <3>3. ASSUME NEW ok \in Malloc, QueueMalloc(ok)
          PROVE  \E p \in Places : p.at # "report" /\ GoesTo(p)
      <4>1. Top.slot \in Nat
        BY <1>1, <3>3, Running, PlaceFields DEF QueueMalloc
      <4>2. [at |-> "fill", slot |-> Top.slot] \in Places
        BY <4>1 DEF Places
      <4> QED
        BY <3>3, <4>2, PlainPlaces DEF QueueMalloc, Idle
    <3>4. CASE QueueTest \/ QueueCount
      BY <2>1, <2>2, <3>1, <3>4, PlainPlaces DEF QueueTest, QueueCount, Idle
    <3>5. CASE QueueSlot
      <4>1. [at |-> "malloc", slot |-> pending_count] \in Places
        BY <3>2 DEF Places
      <4> QED
        BY <2>1, <2>2, <3>1, <3>5, <4>1 DEF QueueSlot
    <3>6. CASE QueueFill
      <4>1. [at |-> "count", n |-> pending_count] \in Places
        BY <3>2 DEF Places
      <4> QED
        BY <2>1, <2>2, <3>1, <3>6, <4>1 DEF QueueFill
    <3> QED
      BY <2>1, <2>2, <2>10, <3>1, <3>3, <3>4, <3>5, <3>6 DEF queue_packet
  <2>11. ASSUME NEW ip \in LocalIps, NEW mac \in Macs, NEW target,
                ArpReply(ip, mac) \/ ArpRequestReceived(ip, mac, target)
         PROVE  Settled(id)'
    <3>1. prev_id' = prev_id /\ (arp_cache_update(ip, mac) \/ UNCHANGED run)
      BY <2>11 DEF ArpReply, ArpRequestReceived
    <3> QED
      BY <2>1, <2>3, <2>8, <3>1
  <2>12. CASE WriteSlot
    BY <2>1, <2>2, <2>12, PlainPlaces DEF WriteSlot, Idle
  <2>13. ASSUME NEW src \in Ips, NEW new \in Ids, EchoRequest(src, new)
         PROVE  Settled(id)'
    BY <2>1, <2>9, <2>13 DEF EchoRequest, SameNet
  <2>14. ASSUME NEW dst \in Ips, NEW alloc \in BOOLEAN, TcpSegment(dst, alloc)
         PROVE  Settled(id)'
    BY <2>1, <2>9, <2>14 DEF TcpSegment, SameNet
  <2>15. CASE Send
    BY <2>1, <2>9, <2>15 DEF Send, SameNet
  <2>16. ASSUME NEW dst \in Ips, Ping(dst)
         PROVE  Settled(id)'
    <3>1. [at |-> "send", dst |-> dst] \in Places
      BY DEF Places
    <3>2. prev_id' = prev_id /\ \E p \in Places : p.at # "report" /\ GoesTo(p)
      BY <2>16, <3>1, PlainPlaces DEF Ping, SameNet
    <3> QED
      BY <2>1, <2>2, <3>2
  <2>17. ASSUME NEW alloc \in BOOLEAN, Silent(alloc)
         PROVE  Settled(id)'
    BY <2>1, <2>3, <2>17 DEF Silent, SameNet
  <2>18. CASE UNCHANGED vars
    BY <2>1, <2>3, <2>18 DEF vars
  <2> QED
    BY <1>1, <2>4, <2>5, <2>6, <2>7, <2>10, <2>11, <2>12, <2>13, <2>14, <2>15, <2>16, <2>17, <2>18
    DEF Next
<1>2. TypeOK /\ [Next]_vars => [\A id \in Ids : Settled(id) => Settled(id)']_vars
  BY <1>1
<1> QED
  BY <1>2, NetTyped, PTL DEF Spec, RepliesSettle

=============================================================================
