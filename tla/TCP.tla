-------------------------------- MODULE TCP --------------------------------
(***************************************************************************)
(* The passive side of the TCP stack, src/src/drivers/net/tcp.c: the web   *)
(* server that eth_init opens with tcp_listen(8080).  Segments are handled *)
(* in the receive interrupt, one at a time: that malloc lets the handler   *)
(* be entered again is in Interrupts, and not here.  Timers are looked at  *)
(* by check_tcp_timers, in the handler of a segment of an established      *)
(* connection and, with interrupts on, in the loops of the shell's telnet  *)
(* command.  Handlers come into the shell's walk of the list at any point. *)
(*                                                                         *)
(* The network may lose, repeat, delay and reorder segments: a handler     *)
(* therefore runs for any segment of any peer at any time.  A peer stands  *)
(* for the remote address and port that find_connection matches; sequence  *)
(* numbers of the peer are left out, since the stack never compares them   *)
(* with anything that is not derived from the same segment.  A segment     *)
(* sent shows as its retransmit entry and the advance of next_seq.         *)
(***************************************************************************)
EXTENDS Integers, Sequences, FiniteSets

CONSTANTS
  Peers,              \* remote endpoints
  Clients,            \* those of them that send HTTP requests
  SeqMod,             \* size of the sequence number space (2^32)
  InitialSeqs,        \* values generate_secure_initial_seq may return
  AckNos,             \* acknowledgement numbers that segments carry
  HeaderLen,          \* length of the response headers
  BodyLens,           \* lengths the served file may have
  NotFoundLen,        \* length of the 404 response
  MAX_SYN_RETRIES,
  Malloc,             \* outcomes of malloc: TRUE for a block, FALSE for NULL
  TelnetRuns,         \* telnet_command is at work in the foreground
  Lossy,              \* bound: peers to which segments are lost
  MaxTicks,           \* bound: retransmission timeouts in a behaviour
  MaxSeq              \* bound: sequence numbers up to which segments are repeated

ASSUME TCPAssumption ==
  /\ Clients \subseteq Peers
  /\ SeqMod \in Nat \ {0}
  /\ InitialSeqs \subseteq 0 .. (SeqMod - 1)
  /\ AckNos \subseteq 0 .. (SeqMod - 1)
  /\ HeaderLen \in Nat \ {0} /\ NotFoundLen \in Nat \ {0}
  /\ BodyLens \subseteq Nat
  /\ MAX_SYN_RETRIES \in Nat
  /\ Malloc \subseteq BOOLEAN /\ TelnetRuns \in BOOLEAN /\ Lossy \subseteq Peers
  /\ MaxTicks \in Nat /\ MaxSeq \in Nat

VARIABLES
  conn,           \* connection_list: the control block of a peer, if any
  active_timers,  \* sequence of timers, newest first
  walk,           \* the segment whose handler is inside check_tcp_timers
  shell,          \* where the foreground is in check_tcp_timers
  missed,         \* peers that have missed a segment of their connection
  ticks,          \* timeouts that have passed
  halted          \* a walk followed a wild pointer, or one to freed memory

tcpVars == <<conn, active_timers, walk, ticks, halted>>
vars == <<conn, active_timers, walk, shell, missed, ticks, halted>>

None == [state |-> "TCP_CLOSED"]     \* no control block
Idle == [peer |-> "none"]            \* no handler is walking the timers
NoWalk == [on |-> FALSE]             \* nor is the shell
Front == "active_timers"             \* the head of the list

States == {"TCP_SYN_RECEIVED", "TCP_ESTABLISHED", "TCP_WAIT_FOR_ACK",
           "TCP_CLOSE_WAIT", "TCP_LAST_ACK"}

(* A segment: its flags, its payload and its acknowledgement number.  Of   *)
(* the payloads only a GET request changes more than the receive buffer.   *)
Segments == [flags : {{"SYN"}, {"RST"}}, data : {"none"}, ack : AckNos]
              \cup [flags : {{"ACK"}, {"FIN", "ACK"}}, data : {"none", "GET"}, ack : AckNos]
SegmentsOf(p) == { s \in Segments : s.data = "GET" => p \in Clients }

Exists(p) == conn[p] # None

-----------------------------------------------------------------------------
(* Timers *)

HasTimer(p) == \E i \in DOMAIN active_timers : active_timers[i].conn = p

Without(s, i) == SubSeq(s, 1, i - 1) \o SubSeq(s, i + 1, Len(s))

(* Unlink the first timer of p, if there is one. *)
cancel_retransmission_timer(timers, p) ==
  LET mine == { i \in DOMAIN timers : timers[i].conn = p }
  IN  IF mine = {} THEN timers
      ELSE Without(timers, CHOOSE i \in mine : \A j \in mine : i <= j)

(* A timer whose malloc failed is not started. *)
start_retransmission_timer(timers, p, ok) ==
  IF ok THEN <<[conn |-> p, retries |-> 0, expired |-> FALSE]>> \o timers
        ELSE timers

-----------------------------------------------------------------------------
(* Sending *)

(* A retransmit entry is pushed at the HEAD of the queue.  The sequence    *)
(* number is always next_seq, whether the payload is new or not.           *)
tcp_send_segment(c, flags, len, ok) ==
  LET control == flags \cap {"SYN", "FIN"} # {}
      entry   == [seq |-> c.next_seq, length |-> len, flags |-> flags, retries |-> 0]
  IN [c EXCEPT
        !.next_seq = (@ + len + (IF control THEN 1 ELSE 0)) % SeqMod,
        !.retransmit_queue =
           IF (control \/ len > 0) /\ ok THEN <<entry>> \o @ ELSE @]

(* A reset is sent from a temporary block: nothing is kept of it. *)
tcp_send_reset(p) == UNCHANGED tcpVars

-----------------------------------------------------------------------------
(* The handlers of tcp_handle_packet *)

Ready == walk = Idle /\ ~halted

(* Mutant: the timer is left running. *)
RemoveKeepsTimer(p) ==
  /\ conn' = [conn EXCEPT ![p] = None]
  /\ UNCHANGED active_timers

(* remove_connection: the timer (one of them), the queue, the block. *)
remove_connection(p) ==
  /\ conn' = [conn EXCEPT ![p] = None]
  /\ active_timers' = cancel_retransmission_timer(active_timers, p)

ReceiveReset(p, s) ==
  /\ Ready /\ "RST" \in s.flags
  /\ IF Exists(p) THEN remove_connection(p) ELSE UNCHANGED <<conn, active_timers>>
  /\ UNCHANGED <<walk, ticks, halted>>

(* A SYN for no connection opens one; port 8080 is the only port in use.   *)
ReceiveSyn(p, s) ==
  /\ Ready /\ "RST" \notin s.flags /\ "SYN" \in s.flags /\ ~Exists(p)
  /\ \/ /\ FALSE \in Malloc
        /\ UNCHANGED <<conn, active_timers>>
     \/ \E iss \in InitialSeqs, entryOk \in Malloc, timerOk \in Malloc :
          LET c == [state |-> "TCP_SYN_RECEIVED", next_seq |-> iss, last_ack |-> 0,
                    dup_ack_count |-> 0, retransmit_queue |-> <<>>, acked |-> 0]
          IN /\ conn' = [conn EXCEPT ![p] = tcp_send_segment(c, {"SYN", "ACK"}, 0, entryOk)]
             /\ active_timers' = start_retransmission_timer(active_timers, p, timerOk)
  /\ UNCHANGED <<walk, ticks, halted>>

ReceiveUnknown(p, s) ==
  /\ Ready /\ s.flags \cap {"RST", "SYN"} = {} /\ ~Exists(p)
  /\ tcp_send_reset(p)

(* Mutant: the timer of the SYN is not cancelled by its acknowledgement. *)
SynTimerKept(p, s) ==
  /\ Ready /\ "RST" \notin s.flags /\ conn[p].state = "TCP_SYN_RECEIVED"
  /\ IF "ACK" \in s.flags /\ s.ack = conn[p].next_seq
       THEN conn' = [conn EXCEPT ![p].state = "TCP_ESTABLISHED"]
       ELSE UNCHANGED conn
  /\ UNCHANGED <<active_timers, walk, ticks, halted>>

ReceiveSynReceived(p, s) ==
  /\ Ready /\ "RST" \notin s.flags /\ conn[p].state = "TCP_SYN_RECEIVED"
  /\ IF "ACK" \in s.flags /\ s.ack = conn[p].next_seq
       THEN /\ conn' = [conn EXCEPT ![p].state = "TCP_ESTABLISHED"]
            /\ active_timers' = cancel_retransmission_timer(active_timers, p)
       ELSE UNCHANGED <<conn, active_timers>>
  /\ UNCHANGED <<walk, ticks, halted>>

(* Mutant: an acknowledgement up to the entry takes it off the queue. *)
PopsTooEarly(p, s, ok) ==
  LET c == conn[p]
  IN IF c.retransmit_queue = <<>> \/ s.ack < Head(c.retransmit_queue).seq
       THEN UNCHANGED <<conn, active_timers>>
     ELSE IF Len(c.retransmit_queue) = 1
       THEN remove_connection(p)
     ELSE /\ conn' = [conn EXCEPT ![p].retransmit_queue = Tail(@),
                                  ![p].acked = IF s.ack > @ THEN s.ack ELSE @]
          /\ UNCHANGED active_timers

(* `acked` is not in the program: the highest acknowledgement seen while   *)
(* waiting.  One acknowledgement takes at most the newest entry off the    *)
(* queue; the connection is dropped when that leaves the queue empty.      *)
handle_wait_for_ack_state(p, s, ok) ==
  LET c     == conn[p]
      entry == Head(c.retransmit_queue)
      end   == (entry.seq + entry.length
                  + (IF entry.flags \cap {"SYN", "FIN"} # {} THEN 1 ELSE 0)) % SeqMod
      seen  == IF s.ack > c.acked THEN s.ack ELSE c.acked
      fast  == c.dup_ack_count + 1 >= 3
  IN IF c.retransmit_queue = <<>>
       THEN UNCHANGED <<conn, active_timers>>
     ELSE IF s.ack >= end
       THEN /\ IF Len(c.retransmit_queue) = 1
                 THEN remove_connection(p)
                 ELSE /\ conn' = [conn EXCEPT ![p].retransmit_queue = Tail(@), ![p].acked = seen]
                      /\ UNCHANGED active_timers
     ELSE IF s.ack > c.last_ack
       THEN /\ conn' = [conn EXCEPT ![p].last_ack = s.ack, ![p].acked = seen,
                                    ![p].retransmit_queue[1].retries = 0]
            /\ UNCHANGED active_timers
     ELSE /\ conn' = [conn EXCEPT ![p] =
                IF fast THEN [tcp_send_segment(c, entry.flags, entry.length, ok)
                                EXCEPT !.dup_ack_count = 0]
                        ELSE [c EXCEPT !.dup_ack_count = @ + 1]]
          /\ UNCHANGED active_timers

ReceiveWaitForAck(p, s) ==
  /\ Ready /\ "RST" \notin s.flags /\ conn[p].state = "TCP_WAIT_FOR_ACK"
  /\ \E ok \in Malloc : handle_wait_for_ack_state(p, s, ok)
  /\ conn'[p] # None => conn'[p].next_seq \in {conn[p].next_seq} \cup 0 .. MaxSeq
  /\ UNCHANGED <<walk, ticks, halted>>

(* Mutant: the FIN is not counted in the acknowledgement that is waited for. *)
FinNotCounted(p, s) ==
  IF "ACK" \in s.flags /\ s.ack = conn[p].next_seq - 1
    THEN remove_connection(p)
    ELSE UNCHANGED <<conn, active_timers>>

handle_last_ack_state(p, s) ==
  IF "ACK" \in s.flags /\ s.ack = conn[p].next_seq
    THEN remove_connection(p)
    ELSE UNCHANGED <<conn, active_timers>>

ReceiveLastAck(p, s) ==
  /\ Ready /\ "RST" \notin s.flags /\ conn[p].state = "TCP_LAST_ACK"
  /\ handle_last_ack_state(p, s)
  /\ UNCHANGED <<walk, ticks, halted>>

-----------------------------------------------------------------------------
(* handle_established_state, in three parts: it starts check_tcp_timers,   *)
(* which visits the timers one by one, and then treats the segment.        *)

ReceiveEstablished(p, s) ==
  /\ Ready /\ "RST" \notin s.flags /\ conn[p].state = "TCP_ESTABLISHED"
  /\ walk' = [peer |-> p, seg |-> s, pp |-> 1]
  /\ UNCHANGED <<conn, active_timers, ticks, halted>>

Timer == active_timers[walk.pp]
Walking == walk # Idle /\ ~halted /\ walk.pp <= Len(active_timers)
Advance == walk' = [walk EXCEPT !.pp = @ + 1]

SkipTimer == /\ Walking /\ ~Timer.expired
             /\ Advance
             /\ UNCHANGED <<conn, active_timers, ticks, halted>>

(* The newest entry is sent again, which queues it again in front of       *)
(* itself; the entry whose retries are counted is the old one.             *)
ResendDataOf(i) ==
  /\ LET p == active_timers[i].conn
         c == conn[p]
     IN /\ c.state = "TCP_WAIT_FOR_ACK"
        /\ c.retransmit_queue # <<>>
        /\ Head(c.retransmit_queue).retries < MAX_SYN_RETRIES
        /\ \E ok \in Malloc :
             LET entry == Head(c.retransmit_queue)
                 sent  == tcp_send_segment(c, {"ACK"}, entry.length, ok)
                 old   == Len(sent.retransmit_queue) - Len(c.retransmit_queue) + 1
             IN conn' = [conn EXCEPT ![p] =
                           [sent EXCEPT !.retransmit_queue[old].retries = @ + 1]]
  /\ active_timers' = [active_timers EXCEPT ![i].expired = FALSE]

(* No SYN_SENT connection has a timer: the control segment that is sent    *)
(* again is always a FIN.                                                  *)
ResendControlOf(i) ==
  /\ LET p == active_timers[i].conn
     IN /\ conn[p].state # "TCP_WAIT_FOR_ACK"
        /\ active_timers[i].retries < MAX_SYN_RETRIES
        /\ \E ok \in Malloc : conn' = [conn EXCEPT ![p] = tcp_send_segment(@, {"FIN"}, 0, ok)]
  /\ active_timers' = [active_timers EXCEPT ![i].retries = @ + 1, ![i].expired = FALSE]

GivesUp(i) == LET c == conn[active_timers[i].conn]
              IN IF c.state = "TCP_WAIT_FOR_ACK"
                   THEN ~(/\ c.retransmit_queue # <<>>
                          /\ Head(c.retransmit_queue).retries < MAX_SYN_RETRIES)
                   ELSE active_timers[i].retries >= MAX_SYN_RETRIES

(* remove_connection has already unlinked and freed the expired timer, so  *)
(* the timer that is unlinked and freed after it is the NEXT one.  If there *)
(* is none, its `next` is read through NULL: the word found there ends the *)
(* list if it is 0 and is followed as a wild pointer otherwise.            *)
DropConnectionOf(i) ==
  /\ GivesUp(i)
  /\ conn' = [conn EXCEPT ![active_timers[i].conn] = None]
  /\ LET rest == cancel_retransmission_timer(active_timers, active_timers[i].conn)
     IN IF i <= Len(rest)
          THEN active_timers' = Without(rest, i) /\ UNCHANGED halted
          ELSE active_timers' = rest /\ halted' \in BOOLEAN

ResendData == /\ Walking /\ Timer.expired
              /\ ResendDataOf(walk.pp)
              /\ Advance
              /\ UNCHANGED <<ticks, halted>>

ResendControl == /\ Walking /\ Timer.expired
                 /\ ResendControlOf(walk.pp)
                 /\ Advance
                 /\ UNCHANGED <<ticks, halted>>

DropConnection == /\ Walking /\ Timer.expired
                  /\ DropConnectionOf(walk.pp)
                  /\ UNCHANGED <<walk, ticks>>

(* Entries that the segment acknowledges leave the queue; the flags of an  *)
(* entry are not counted.                                                  *)
Unacked(queue, ack) ==
  LET Kept(e) == ack < (e.seq + e.length) % SeqMod
      keep[i \in 0 .. Len(queue)] ==
        IF i = 0 THEN <<>>
        ELSE IF Kept(queue[i]) THEN Append(keep[i - 1], queue[i]) ELSE keep[i - 1]
  IN keep[Len(queue)]

(* What the rest of the handler may have made of the control block, and    *)
(* whether it started a timer.  The state that handle_http_request leaves  *)
(* behind is overwritten by its caller, and its timer starts only after a  *)
(* complete response.                                                      *)
Outcome(c, timer) == [conn |-> c, timer |-> timer]

(* Mutant: a missing file is not answered. *)
NoAnswer(c) == {Outcome([c EXCEPT !.state = "TCP_WAIT_FOR_ACK"], FALSE)}

handle_http_request(c) ==
  LET waiting == [c EXCEPT !.state = "TCP_WAIT_FOR_ACK"]
      notFound == { Outcome(tcp_send_segment(waiting, {"PSH", "ACK"}, NotFoundLen, ok), FALSE) :
                      ok \in Malloc }
      noBuffer == IF FALSE \in Malloc THEN {Outcome(waiting, FALSE)} ELSE {}
      headers  == { tcp_send_segment(waiting, {"PSH", "ACK"}, HeaderLen, ok) : ok \in Malloc }
      response == { tcp_send_segment(h, {"PSH", "ACK"}, len, ok) :
                      h \in headers, len \in BodyLens, ok \in Malloc }
  IN notFound \cup noBuffer
       \cup { Outcome(r, timer) : r \in response, timer \in Malloc }

(* The duplicate count saturates where the code tells its values apart; a  *)
(* retransmission it triggers carries the newest entry.                    *)
Acknowledged(c, s, ok) ==
  LET dup   == s.ack = c.last_ack
      again == dup /\ c.dup_ack_count = 2 /\ c.retransmit_queue # <<>>
      c1    == IF again THEN tcp_send_segment(c, {"ACK"}, Head(c.retransmit_queue).length, ok)
                        ELSE c
  IN [c1 EXCEPT !.dup_ack_count = IF dup /\ @ < 4 THEN @ + 1 ELSE @,
                !.next_seq = IF s.ack > @ THEN s.ack ELSE @,
                !.retransmit_queue = Unacked(@, s.ack)]

(* With a FIN the connection answers with its own and waits for the last   *)
(* acknowledgement.                                                        *)
Closed(c, s, ok) ==
  IF "FIN" \in s.flags
    THEN [tcp_send_segment(c, {"FIN", "ACK"}, 0, ok) EXCEPT !.state = "TCP_LAST_ACK"]
    ELSE c

FinishEstablished ==
  /\ walk # Idle /\ ~halted /\ walk.pp > Len(active_timers)
  /\ \E ok1 \in Malloc, ok2 \in Malloc :
       LET p == walk.peer
           s == walk.seg
           c == Acknowledged(conn[p], s, ok1)
       IN \E o \in IF s.data = "GET" THEN handle_http_request(c) ELSE {Outcome(c, FALSE)} :
            /\ conn' = [conn EXCEPT ![p] = Closed(o.conn, s, ok2)]
            /\ active_timers' = start_retransmission_timer(active_timers, p, o.timer)
  /\ walk' = Idle
  /\ UNCHANGED <<ticks, halted>>

-----------------------------------------------------------------------------
(* The shell's walk, with interrupts on.  `after` is the connection of the *)
(* timer whose link it has got to; while `held` it is at work on the timer *)
(* behind that link; `due` are the timers that have run out by the time it *)
(* read when it began, or that seem to have: for one that was started      *)
(* since, the unsigned difference wraps.                                   *)

ShellRuns == Ready /\ shell.on
Place == IF shell.after = Front THEN 1
      ELSE 1 + (CHOOSE i \in DOMAIN active_timers : active_timers[i].conn = shell.after)
Due == active_timers[Place].conn \in shell.due

ShellStarts ==
  /\ Ready /\ TelnetRuns /\ ~shell.on
  /\ shell' = [on |-> TRUE, after |-> Front, held |-> FALSE, stale |-> FALSE,
               due |-> { active_timers[i].conn : i \in { j \in DOMAIN active_timers :
                                                          active_timers[j].expired } }]
  /\ UNCHANGED tcpVars

ShellLooks ==
  /\ ShellRuns /\ ~shell.stale /\ ~shell.held
  /\ shell' = IF Place \in DOMAIN active_timers THEN [shell EXCEPT !.held = TRUE] ELSE NoWalk
  /\ UNCHANGED tcpVars

ShellHolds == ShellRuns /\ ~shell.stale /\ shell.held /\ Place \in DOMAIN active_timers
ShellAdvances == shell' = [shell EXCEPT !.after = active_timers[Place].conn, !.held = FALSE]

ShellSkips == ShellHolds /\ ~Due /\ ShellAdvances /\ UNCHANGED tcpVars

ShellResends == /\ ShellHolds /\ Due
                /\ ResendDataOf(Place) \/ ResendControlOf(Place)
                /\ ShellAdvances
                /\ UNCHANGED <<walk, ticks, halted>>

ShellDrops == /\ ShellHolds /\ Due
              /\ DropConnectionOf(Place)
              /\ shell' = [shell EXCEPT !.held = FALSE]
              /\ UNCHANGED <<walk, ticks>>

(* The timer, the connection or the link that the walk goes on with has    *)
(* changed under it.                                                       *)
ShellGoesAstray == /\ ShellRuns /\ shell.stale
                   /\ halted' = TRUE
                   /\ UNCHANGED <<conn, active_timers, walk, shell, ticks>>

ShellWalk == ShellStarts \/ ShellLooks \/ ShellSkips \/ ShellResends \/ ShellDrops \/ ShellGoesAstray

TimersOfPeer(timers, p) == { timers[i] : i \in { j \in DOMAIN timers : timers[j].conn = p } }
Order(timers) == [i \in DOMAIN timers |-> timers[i].conn]

(* A handler takes the timer or the connection away that the walk holds,   *)
(* or adds to or removes from a list that the walk is about to change, or  *)
(* frees the timer whose link the walk has got to.                         *)
Spoils ==
  \/ /\ shell.held
     /\ \/ Order(active_timers') # Order(active_timers)
        \/ conn'[active_timers[Place].conn] # conn[active_timers[Place].conn]
        \/ \E p \in Peers : Exists(p) # (conn'[p] # None)
  \/ shell.after # Front /\ TimersOfPeer(active_timers', shell.after) = {}

(* What a handler's step does to the shell's walk. *)
ShellDisturbed ==
  IF ~shell.on THEN UNCHANGED shell
  ELSE LET started == { p \in Peers : TimersOfPeer(active_timers', p)
                                         \ TimersOfPeer(active_timers, p) # {} }
       IN \E due \in {shell.due \cup started, shell.due \ started} :
            shell' = [shell EXCEPT !.due = due, !.stale = @ \/ Spoils]

-----------------------------------------------------------------------------
(* Time: a retransmission timeout passes for every running timer. *)

Tick == /\ Ready /\ ticks < MaxTicks
        /\ \A p \in Peers : Exists(p) => conn[p].next_seq < MaxSeq
        /\ \E i \in DOMAIN active_timers : ~active_timers[i].expired
        /\ ticks' = ticks + 1
        /\ active_timers' = [i \in DOMAIN active_timers |->
                               [active_timers[i] EXCEPT !.expired = TRUE]]
        /\ UNCHANGED <<conn, walk, shell, halted>>

-----------------------------------------------------------------------------
Init == /\ conn = [p \in Peers |-> None]
        /\ active_timers = <<>>
        /\ walk = Idle
        /\ shell = NoWalk
        /\ missed = {}
        /\ ticks = 0
        /\ halted = FALSE

Receive(p, s) == \/ ReceiveReset(p, s)
                 \/ ReceiveSyn(p, s)
                 \/ ReceiveUnknown(p, s)
                 \/ ReceiveSynReceived(p, s)
                 \/ ReceiveEstablished(p, s)
                 \/ ReceiveWaitForAck(p, s)
                 \/ ReceiveLastAck(p, s)

check_tcp_timers == SkipTimer \/ ResendData \/ ResendControl \/ DropConnection

(* What a peer has missed belongs to the connection it was sent on. *)
Forgets == missed' = { p \in missed : conn'[p] # None }

(* A segment to p does not arrive.  The same bytes are not sent again      *)
(* under the same sequence number, nor is a FIN of TCP_LAST_ACK sent       *)
(* again: p will never be able to acknowledge all of it.                   *)
Lose(p) == /\ ~halted /\ Exists(p) /\ p \in Lossy \ missed
           /\ missed' = missed \cup {p}
           /\ UNCHANGED <<tcpVars, shell>>

HandlerGoesOn == (check_tcp_timers \/ FinishEstablished) /\ ShellDisturbed /\ Forgets

(* A peer that has closed its side, and has received all it was sent,      *)
(* repeats its FIN with the acknowledgement of that until the connection   *)
(* is gone: TCP obliges it to.                                             *)
PeerCloses(p) ==
  /\ Exists(p) /\ p \notin missed
  /\ Receive(p, [flags |-> {"FIN", "ACK"}, data |-> "none", ack |-> conn[p].next_seq])
  /\ ShellDisturbed /\ Forgets

Next == \/ \E p \in Peers : \E s \in SegmentsOf(p) : Receive(p, s) /\ ShellDisturbed /\ Forgets
        \/ \E p \in Peers : PeerCloses(p)
        \/ HandlerGoesOn
        \/ ShellWalk /\ Forgets
        \/ \E p \in Peers : Lose(p)
        \/ Tick /\ Forgets

(* A handler that has started runs to its end, and of the FINs that a peer *)
(* repeats some get through between the segments of other peers.           *)
Fairness == /\ WF_vars(HandlerGoesOn)
            /\ \A p \in Peers : SF_vars(PeerCloses(p))

Spec == Init /\ [][Next]_vars /\ Fairness

-----------------------------------------------------------------------------
(* Properties *)

Entries == [seq : 0 .. (SeqMod - 1), length : Nat,
            flags : SUBSET {"SYN", "ACK", "PSH", "FIN"}, retries : 0 .. MAX_SYN_RETRIES]

(* The control blocks, the timers and the retransmit queues are well       *)
(* formed, and no entry is retried more often than MAX_SYN_RETRIES.        *)
TypeOK ==
  /\ \A p \in Peers : Exists(p) =>
       /\ conn[p].state \in States
       /\ conn[p].next_seq \in 0 .. (SeqMod - 1)
       /\ \A i \in DOMAIN conn[p].retransmit_queue : conn[p].retransmit_queue[i] \in Entries
  /\ active_timers \in Seq([conn : Peers, retries : 0 .. MAX_SYN_RETRIES, expired : BOOLEAN])
  /\ walk # Idle => walk.peer \in Peers /\ walk.seg.ack \in 0 .. (SeqMod - 1)
  /\ ticks \in 0 .. MaxTicks /\ halted \in BOOLEAN

(* remove_connection cancels a single timer, and no list entry keeps a     *)
(* connection alive: a timer that outlived its connection would be read    *)
(* through a freed pointer by the next check_tcp_timers.  No connection    *)
(* ever has two timers, so none does, through the walks of handlers and    *)
(* the shell's, until one of these goes on with what a handler has changed *)
(* under it, or past the end of the list: nothing is claimed from then on. *)
TimersAreLive ==
  ~halted =>
    /\ TypeOK
    /\ \A i \in DOMAIN active_timers : Exists(active_timers[i].conn)
    /\ \A i, j \in DOMAIN active_timers :
         active_timers[i].conn = active_timers[j].conn => i = j

(* handle_established_state goes on using its connection after             *)
(* check_tcp_timers, which frees the connections whose retries are used    *)
(* up.  The connection survives because an established one has no timer.   *)
SurvivesItsOwnTimerWalk ==
  walk # Idle => /\ Exists(walk.peer)
                 /\ conn[walk.peer].state = "TCP_ESTABLISHED"
                 /\ ~HasTimer(walk.peer)

(* A connection that waits for an acknowledgement has a segment that the   *)
(* acknowledgement can be about; with an empty queue no segment of the     *)
(* peer could end it.  This is for runs in which malloc succeeds: a        *)
(* response for which it fails does leave the queue empty.                 *)
WaitsForSomething ==
  \A p \in Peers : conn[p].state = "TCP_WAIT_FOR_ACK" => conn[p].retransmit_queue # <<>>

(* When an acknowledgement ends a connection that waits for one, the peer  *)
(* has acknowledged everything it was sent: although entries are taken off *)
(* newest first, one per segment, and are queued again when sent again, no *)
(* part of the response is forgotten.                                      *)
ClosesOnlyWhenAcknowledged ==
  [][\A p \in Peers, n \in 0 .. (SeqMod - 1) :
       /\ conn[p].state = "TCP_WAIT_FOR_ACK" /\ conn'[p] = None
       /\ handle_wait_for_ack_state(p, [ack |-> n], TRUE)
       => n >= conn[p].next_seq \/ conn[p].acked >= conn[p].next_seq]_vars

(* A peer that closes its side gets rid of the connection in the end, in   *)
(* whatever state the handshake, the response or the retransmissions have  *)
(* left it, if everything the server sends it arrives, its one FIN too;    *)
(* and unless a walk of the timers went astray before.  A peer that misses *)
(* the FIN keeps the connection in TCP_LAST_ACK for ever: no timer runs    *)
(* there, and a lower acknowledgement is ignored.                          *)
ClosingPeerIsReleased ==
  \A p \in Peers : Exists(p) ~> (~Exists(p) \/ halted \/ p \in missed)

=============================================================================
