-------------------------------- MODULE Net --------------------------------
(***************************************************************************)
(* ARP, IPv4 and ICMP: src/src/drivers/net/arp.c, ipv4.c, icmp.c, eth.c    *)
(* and the dispatch in network.c.                                          *)
(*                                                                         *)
(* Several activities share this code without any lock: the shell, which   *)
(* runs with interrupts on, and the card's interrupt handler.  The handler *)
(* starts with interrupts off, but every malloc and free that it calls     *)
(* turns them on (liballoc_hook.c:13), and then a further interrupt of the *)
(* card is let in (module Interrupts), whose handler runs to its end while *)
(* the first one waits.  The variable `run` holds all that are under way:  *)
(* the shell first, the running one last.                                  *)
(*                                                                         *)
(* An address is its four octets, most significant first; a MAC address is *)
(* a value that is only compared.  What frames hold, and the buffers they  *)
(* are built in, are left out.                                             *)
(***************************************************************************)
EXTENDS Integers, Sequences, FiniteSets

CONSTANTS
  Self,                 \* nic.ip_addr
  gateway_ip,
  LocalIps,             \* addresses of the local network, the gateway's included
  RemoteIps,            \* addresses behind the gateway
  Macs,                 \* MAC addresses that stations announce
  ARP_CACHE_SIZE, MAX_PENDING_PACKETS,
  Malloc,               \* outcomes of malloc: TRUE for a block, FALSE for NULL
  IdMod,                \* size of the space of echo identifiers (2^16)
  MaxNest               \* bound: receive handlers under way at a time

Ips == LocalIps \cup RemoteIps
NoIp == <<0, 0, 0, 0>>

ASSUME NetAssumption ==
  /\ {Self} \cup Ips \subseteq Seq(0 .. 255)
  /\ gateway_ip \in LocalIps /\ Self \notin Ips /\ NoIp \notin Ips
  /\ ARP_CACHE_SIZE \in Nat \ {0} /\ MAX_PENDING_PACKETS \in Nat \ {0}
  /\ Malloc \subseteq BOOLEAN
  /\ IdMod \in Nat \ {0} /\ MaxNest \in Nat

VARIABLES
  arp_cache,            \* the slots, in order
  pending_count,        \* packets counted in pending_queue
  prev_id,              \* identifier of the last echo reply reported
  IF_,                  \* the processor's interrupt flag
  run,                  \* the activities under way, each in the one after it
  latest,               \* ghost: the MAC that a station announced last
  overtaken             \* ghost: an update of the cache was broken into

vars == <<arp_cache, pending_count, prev_id, IF_, run, latest, overtaken>>

Slots == 1 .. ARP_CACHE_SIZE
Ids == 0 .. (IdMod - 1)

(* The shell at its prompt, or a handler between two frames. *)
Idle == [at |-> "idle"]

Top == run[Len(run)]
GoesTo(place) == run' = [run EXCEPT ![Len(run)] = place]

-----------------------------------------------------------------------------
(* Interrupts *)

(* The card interrupts, wherever the activity that runs is; the entry code *)
(* turns interrupts off.                                                   *)
Interrupt ==
  /\ IF_ /\ Len(run) <= MaxNest
  /\ IF_' = FALSE
  /\ run' = Append(run, Idle)
  /\ overtaken' = (overtaken \/ Top.at = "update")
  /\ UNCHANGED <<arp_cache, pending_count, prev_id, latest>>

(* The flags of the code that was broken into come back.                   *)
Return ==
  /\ Len(run) > 1 /\ Top = Idle
  /\ IF_' = TRUE
  /\ run' = SubSeq(run, 1, Len(run) - 1)
  /\ UNCHANGED <<arp_cache, pending_count, prev_id, latest, overtaken>>

-----------------------------------------------------------------------------
(* Addresses *)

(* htonl and ntohl turn the octets around. *)
ntohl(ip) == <<ip[4], ip[3], ip[2], ip[1]>>

is_local_ip(ip) == ip \in LocalIps

next_hop(ip) == IF is_local_ip(ip) THEN ip ELSE gateway_ip

-----------------------------------------------------------------------------
(* The ARP cache *)

(* What a lookup may find: it goes through the gateway for an address that *)
(* is not local, and passes over entries older than ARP_CACHE_TIMEOUT.  No *)
(* time is kept here: an entry may be too old or not, whenever it is       *)
(* looked up.                                                              *)
arp_lookup(ip) ==
  { found \in BOOLEAN : found => \E i \in Slots : arp_cache[i].ip = next_hop(ip) }

(* Mutant: an empty slot is preferred to the one that holds the address. *)
EmptySlotsFirst(ip) ==
  LET empty == { i \in Slots : arp_cache[i].ip = NoIp }
  IN IF empty # {} THEN empty ELSE { i \in Slots : arp_cache[i].ip = ip }

(* Slots never become empty again, whatever their age. *)
UpdateSlots(ip) == { i \in Slots : arp_cache[i].ip \in {ip, NoIp} }

First(S) == CHOOSE i \in S : \A j \in S : i <= j

(* The loop of arp_cache_update stops at the first slot that holds the     *)
(* address or is empty; without one the announcement is dropped.           *)
arp_cache_update(ip, mac) ==
  IF UpdateSlots(ip) = {}
    THEN latest' = [latest EXCEPT ![ip] = mac] /\ UNCHANGED run
    ELSE /\ GoesTo([at |-> "update", ip |-> ip, mac |-> mac, slot |-> First(UpdateSlots(ip))])
         /\ UNCHANGED latest

(* The slot is written, whatever it holds by now. *)
WriteSlot ==
  /\ Top.at = "update"
  /\ arp_cache' = [arp_cache EXCEPT ![Top.slot] =
                     [ip |-> Top.ip, mac |-> Top.mac]]
  /\ latest' = [latest EXCEPT ![Top.ip] = Top.mac]
  /\ GoesTo(Idle)
  /\ UNCHANGED <<pending_count, prev_id, IF_, overtaken>>

-----------------------------------------------------------------------------
(* Sending *)

SameNet == UNCHANGED <<arp_cache, prev_id, latest, overtaken>>

(* net_send_ipv4_packet up to its lookup: the frame is sent, or            *)
(* queue_packet called.                                                    *)
net_send_ipv4_packet(dst) ==
  \E found \in arp_lookup(next_hop(dst)) : GoesTo(IF found THEN Idle ELSE [at |-> "queue"])

(* Mutant: the test is off by one. *)
RoomForOneMore == pending_count <= MAX_PENDING_PACKETS

QueueHasRoom == pending_count < MAX_PENDING_PACKETS

(* queue_packet tests the count; reads it once more for the slot that it   *)
(* fills; takes memory for the payload; and counts the packet, reading the *)
(* count before it writes it.  Without room, or without memory, the packet *)
(* is dropped.                                                             *)
QueueTest ==
  /\ Top.at = "queue"
  /\ GoesTo(IF QueueHasRoom THEN [at |-> "choose"] ELSE Idle)
  /\ SameNet /\ UNCHANGED <<pending_count, IF_>>

QueueSlot ==
  /\ Top.at = "choose"
  /\ GoesTo([at |-> "malloc", slot |-> pending_count])
  /\ SameNet /\ UNCHANGED <<pending_count, IF_>>

QueueMalloc(ok) ==
  /\ Top.at = "malloc"
  /\ GoesTo(IF ok THEN [at |-> "fill", slot |-> Top.slot] ELSE Idle)
  /\ IF_' = TRUE
  /\ SameNet /\ UNCHANGED pending_count

QueueFill ==
  /\ Top.at = "fill"
  /\ GoesTo([at |-> "count", n |-> pending_count])
  /\ SameNet /\ UNCHANGED <<pending_count, IF_>>

QueueCount ==
  /\ Top.at = "count"
  /\ pending_count' = Top.n + 1
  /\ GoesTo(Idle)
  /\ SameNet /\ UNCHANGED IF_

queue_packet == \/ QueueTest \/ QueueSlot \/ QueueFill \/ QueueCount
                \/ \E ok \in Malloc : QueueMalloc(ok)

-----------------------------------------------------------------------------
(* The receive handler: net_process_packet *)

Receives == Len(run) > 1 /\ Top = Idle

(* Anyone on the local network may announce itself at any time. *)
ArpReply(ip, mac) ==
  /\ Receives
  /\ arp_cache_update(ip, mac)
  /\ UNCHANGED <<arp_cache, pending_count, prev_id, IF_, overtaken>>

(* The four octets are put together in host order and then turned around   *)
(* once more, as if they were in network order.                            *)
RequestIsForUs(target_ip) == ntohl(target_ip) = Self

ArpRequestReceived(sender, mac, target) ==
  /\ Receives
  /\ IF RequestIsForUs(target) THEN arp_cache_update(sender, mac)
                               ELSE UNCHANGED <<run, latest>>
  /\ UNCHANGED <<arp_cache, pending_count, prev_id, IF_, overtaken>>

(* A frame that none of the layers sends an answer to or reports.  When it *)
(* held a TCP segment, malloc or free may have been called for it.         *)
Silent(alloc) ==
  /\ Receives
  /\ IF_' = (IF_ \/ alloc)
  /\ SameNet /\ UNCHANGED <<pending_count, run>>

(* The TCP layer sends a segment: the handler answers one, or telnet, in   *)
(* the shell, has something to send.                                       *)
TcpSegment(dst, alloc) ==
  /\ Top = Idle
  /\ IF_' = (IF_ \/ alloc)
  /\ net_send_ipv4_packet(dst)
  /\ SameNet /\ UNCHANGED pending_count

(* Mutant: the identifier reported last is let through again. *)
NotOlder(id) == prev_id <= id

(* The test at the head of icmp_handle_packet. *)
Unprocessed(id) == prev_id < id

EchoRequest(src, id) ==
  /\ Receives /\ Unprocessed(id)
  /\ net_send_ipv4_packet(src)
  /\ SameNet /\ UNCHANGED <<pending_count, IF_>>

(* A reply is printed on the console, line by line, and its identifier     *)
(* remembered after that.                                                  *)
EchoReply(id) ==
  /\ Receives /\ Unprocessed(id)
  /\ GoesTo([at |-> "report", id |-> id])
  /\ SameNet /\ UNCHANGED <<pending_count, IF_>>

Remember ==
  /\ Top.at = "report"
  /\ prev_id' = Top.id
  /\ GoesTo(Idle)
  /\ UNCHANGED <<arp_cache, pending_count, IF_, latest, overtaken>>

-----------------------------------------------------------------------------
(* The shell: icmp_send_echo_request *)

Ping(dst) ==
  /\ Len(run) = 1 /\ Top = Idle
  /\ \E found \in arp_lookup(dst) :
       GoesTo(IF found THEN [at |-> "send", dst |-> dst] ELSE [at |-> "queue"])
  /\ SameNet /\ UNCHANGED <<pending_count, IF_>>

(* net_send_ipv4_packet looks the address up again. *)
Send ==
  /\ Top.at = "send"
  /\ net_send_ipv4_packet(Top.dst)
  /\ SameNet /\ UNCHANGED <<pending_count, IF_>>

-----------------------------------------------------------------------------
Init == /\ arp_cache = [i \in Slots |-> [ip |-> NoIp, mac |-> "none"]]
        /\ pending_count = 0
        /\ prev_id = 0
        /\ IF_ = TRUE /\ run = <<Idle>>
        /\ latest = [ip \in LocalIps |-> "none"]
        /\ overtaken = FALSE

Next == \/ Interrupt \/ Return
        \/ \E ip \in LocalIps, mac \in Macs : ArpReply(ip, mac)
        \/ \E ip \in LocalIps, mac \in Macs, target \in {Self, ntohl(Self)} :
             ArpRequestReceived(ip, mac, target)
        \/ WriteSlot
        \/ \E src \in Ips, id \in Ids : EchoRequest(src, id)
        \/ \E dst \in Ips, alloc \in BOOLEAN : TcpSegment(dst, alloc)
        \/ \E alloc \in BOOLEAN : Silent(alloc)
        \/ \E id \in Ids : EchoReply(id)
        \/ Remember
        \/ \E dst \in Ips : Ping(dst)
        \/ Send
        \/ queue_packet

Spec == Init /\ [][Next]_vars

-----------------------------------------------------------------------------
(* Properties *)

Places ==
  {Idle} \cup [at : {"queue", "choose"}] \cup [at : {"send"}, dst : Ips]
         \cup [at : {"malloc", "fill"}, slot : Nat] \cup [at : {"count"}, n : Nat]
         \cup [at : {"update"}, ip : LocalIps, mac : Macs, slot : Slots]
         \cup [at : {"report"}, id : Ids]

(* The cache, the counters and the activities under way are well formed.   *)
TypeOK ==
  /\ arp_cache \in [Slots -> [ip : LocalIps \cup {NoIp}, mac : Macs \cup {"none"}]]
  /\ latest \in [LocalIps -> Macs \cup {"none"}]
  /\ pending_count \in Nat /\ prev_id \in Ids
  /\ IF_ \in BOOLEAN /\ overtaken \in BOOLEAN
  /\ run \in Seq(Places) /\ Len(run) \in 1 .. (MaxNest + 1)

(* arp_cache_update takes the first slot that is empty or holds the        *)
(* address: no address gets two slots, one of which lookups would go on    *)
(* finding with an old MAC, and an entry is always the latest announcement,*)
(* also when there are more addresses than slots, in whatever order the    *)
(* handlers that nest take the frames.  (Unless a handler breaks into an   *)
(* update between the choice of its slot and the write: then the update    *)
(* may put an older MAC back, or its address into a second slot.)          *)
CacheCurrent ==
  /\ TypeOK
  /\ ~overtaken =>
       \A i \in Slots : arp_cache[i].ip # NoIp =>
         /\ arp_cache[i].mac = latest[arp_cache[i].ip]
         /\ \A j \in Slots : arp_cache[j].ip = arp_cache[i].ip => j = i

(* Between the test of pending_count and its increment the shell and every *)
(* handler under way may be broken into by one that queues a packet too:   *)
(* the count overshoots the queue by the packets that were in flight at    *)
(* the same time, and no slot lies further behind the end of the queue,    *)
(* however tests, reads and increments fall, and although some increments  *)
(* are lost.                                                               *)
PendingInBounds ==
  /\ pending_count <= MAX_PENDING_PACKETS + MaxNest
  /\ \A i \in DOMAIN run :
       run[i].at \in {"malloc", "fill"} => run[i].slot < MAX_PENDING_PACKETS + MaxNest

(* All identifiers up to this one have been reported or are given up: none *)
(* of them is being reported or will be put back by a handler under way.   *)
Settled(id) ==
  /\ id <= prev_id
  /\ \A i \in DOMAIN run : run[i].at = "report" => id < run[i].id

(* icmp.c:39, "dont process same packet two times": an identifier that is  *)
(* settled stays so.  It is never reported again, however often the reply  *)
(* is delivered and in whatever order the handlers report and remember     *)
(* others, although a handler may put prev_id back to a lower identifier.  *)
(* One that is not settled may be reported twice: it is remembered after   *)
(* it was printed, and a handler that comes in between starts again at the *)
(* place in the ring where this frame is.                                  *)
RepliesSettle == [][\A id \in Ids : Settled(id) => Settled(id)']_vars
=============================================================================
