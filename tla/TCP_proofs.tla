----------------------------- MODULE TCP_proofs -----------------------------
(***************************************************************************)
(* Proofs about TCP, for any number of peers and any lengths: timers only  *)
(* belong to connections that exist, a connection has at most one of them, *)
(* and an established connection, which is the one whose segment is being  *)
(* handled while a handler looks at the timers, has none.  The shell's     *)
(* walk of the timers takes the same steps (Visit).  A connection that     *)
(* waits for an acknowledgement has something to be acknowledged, and is   *)
(* dropped by an acknowledgement only when everything was.                 *)
(***************************************************************************)
EXTENDS TCP, InductionLemmas, SequenceTheorems

-----------------------------------------------------------------------------
(* Types *)

Flags == {"SYN", "RST", "ACK", "PSH", "FIN"}
SentFlags == {"SYN", "ACK", "PSH", "FIN"}

SegmentType == [flags : SUBSET Flags, data : {"none", "GET"}, ack : 0 .. (SeqMod - 1)]

ConnType == [state : States, next_seq : 0 .. (SeqMod - 1), last_ack : Nat,
             dup_ack_count : Nat, retransmit_queue : Seq(Entries), acked : Nat]

TimerType == [conn : Peers, retries : 0 .. MAX_SYN_RETRIES, expired : BOOLEAN]

WalkType == [peer : Peers, seg : SegmentType, pp : Nat \ {0}]

Typed == /\ conn \in [Peers -> ConnType \cup {None}]
         /\ active_timers \in Seq(TimerType)
         /\ walk \in WalkType \cup {Idle}
         /\ ticks \in 0 .. MaxTicks /\ halted \in BOOLEAN

-----------------------------------------------------------------------------
(* The inductive invariant *)

(* No two timers of the list belong to one connection. *)
OnePerConn(timers) ==
  \A i, j \in 1 .. Len(timers) : timers[i].conn = timers[j].conn => i = j

(* The state of a connection that may have a timer. *)
MayHaveTimer == States \ {"TCP_ESTABLISHED"}

(* Every timer of the list belongs to a connection in such a state. *)
TimersOf(c, timers) == \A i \in 1 .. Len(timers) : c[timers[i].conn].state \in MayHaveTimer

(* The segment that is being handled is of an established connection. *)
WalkInv == walk # Idle => conn[walk.peer].state = "TCP_ESTABLISHED"

TCPInv == /\ Typed
          /\ OnePerConn(active_timers)
          /\ TimersOf(conn, active_timers)
          /\ WalkInv

-----------------------------------------------------------------------------
(* Operators *)

(* A segment that a peer sends is well formed. *)
LEMMA SegmentTyped ==
  ASSUME NEW p, NEW s \in SegmentsOf(p)
  PROVE  s \in SegmentType
<1>1. s \in Segments
  BY DEF SegmentsOf
<1>2. AckNos \subseteq 0 .. (SeqMod - 1)
  BY TCPAssumption
<1> QED
  BY <1>1, <1>2 DEF Segments, SegmentType, Flags

(* What a connection sends leaves its block well formed and in its state,  *)
(* and its queue no shorter; with memory, a segment that has to be         *)
(* acknowledged is in the queue.                                           *)
LEMMA SendTyped ==
  ASSUME NEW c \in ConnType, NEW flags \in SUBSET SentFlags, NEW len \in Nat, NEW ok
  PROVE  LET d == tcp_send_segment(c, flags, len, ok)
         IN /\ d \in ConnType
            /\ d.state = c.state
            /\ d.retransmit_queue # <<>> \/ d.retransmit_queue = c.retransmit_queue
            /\ Len(d.retransmit_queue) \in
                 {Len(c.retransmit_queue), Len(c.retransmit_queue) + 1}
            /\ (len > 0 /\ ok) => d.retransmit_queue # <<>>
<1> DEFINE control == flags \cap {"SYN", "FIN"} # {}
           entry == [seq |-> c.next_seq, length |-> len, flags |-> flags, retries |-> 0]
           q == c.retransmit_queue
           d == tcp_send_segment(c, flags, len, ok)
           next == (c.next_seq + len + (IF control THEN 1 ELSE 0)) % SeqMod
           queue == IF (control \/ len > 0) /\ ok THEN <<entry>> \o q ELSE q
<1>1. c.next_seq \in 0 .. (SeqMod - 1) /\ q \in Seq(Entries) /\ SeqMod \in Nat \ {0}
       /\ MAX_SYN_RETRIES \in Nat
  BY TCPAssumption DEF ConnType
<1>2. next \in 0 .. (SeqMod - 1)
  <2> DEFINE x == c.next_seq + len + (IF control THEN 1 ELSE 0)
  <2>1. x \in Nat
    <3> HIDE DEF control
    <3> QED BY <1>1
  <2> HIDE DEF x
  <2>2. x % SeqMod \in 0 .. (SeqMod - 1)
    BY <2>1, <1>1
  <2> QED BY <2>2 DEF x
<1>3. entry \in Entries
  BY <1>1 DEF Entries, SentFlags
<1>4. <<entry>> \o q \in Seq(Entries) /\ Len(<<entry>> \o q) = Len(q) + 1
  <2> HIDE DEF entry, q
  <2> QED BY <1>1, <1>3
<1>5. <<entry>> \o q # <<>>
  <2> HIDE DEF entry, q
  <2>1. Len(q) \in Nat /\ Len(<<>>) = 0
    BY <1>1
  <2> QED BY <1>4, <2>1
<1>6. d = [c EXCEPT !.next_seq = next, !.retransmit_queue = queue]
  BY DEF tcp_send_segment
<1>7. queue \in Seq(Entries) /\ Len(queue) \in {Len(q), Len(q) + 1}
       /\ (queue # <<>> \/ queue = q) /\ ((len > 0 /\ ok) => queue # <<>>)
  <2> HIDE DEF entry, control, q
  <2> QED BY <1>1, <1>4, <1>5
<1> HIDE DEF next, queue, d
<1>8. d \in ConnType
  BY <1>2, <1>6, <1>7 DEF ConnType
<1>9. d.state = c.state /\ d.retransmit_queue = queue
  BY <1>6 DEF ConnType
<1> QED
  BY <1>7, <1>8, <1>9 DEF d

(* What is left of a queue after an acknowledgement is a queue. *)
LEMMA UnackedTyped ==
  ASSUME NEW queue \in Seq(Entries), NEW ack
  PROVE  Unacked(queue, ack) \in Seq(Entries)
<1> DEFINE n == Len(queue)
           T == Seq(Entries)
           Kept(e) == ack < (e.seq + e.length) % SeqMod
           Next1(q, i) == IF Kept(queue[i]) THEN Append(q, queue[i]) ELSE q
           Def(k) == [i \in 0 .. n |-> IF i = 0 THEN <<>>
                                     ELSE IF Kept(queue[i]) THEN Append(k[i - 1], queue[i]) ELSE k[i-1]]
           K == CHOOSE k : k = Def(k)
           G == [x \in T \X (1 .. n) |-> Next1(x[1], x[2])]
<1>1. Unacked(queue, ack) = K[n]
  BY DEF Unacked
<1>2. n \in Nat /\ <<>> \in T
  OBVIOUS
<1>3. ASSUME NEW q \in T, NEW i \in 1 .. n PROVE Next1(q, i) \in T
  <2>1. queue[i] \in Entries
    OBVIOUS
  <2> QED BY <2>1
<1>4. G \in [T \X (1 .. n) -> T]
  BY <1>3
<1>5. \A q \in T, i \in 1 .. n : G[<<q, i>>] = Next1(q, i)
  OBVIOUS
<1>6. \E k \in [0 .. n -> T] : Recursion(k, n, <<>>, G)
  <2> HIDE DEF T, n, G
  <2> QED BY <1>2, <1>4, RecursionUpTo, Zenon
<1>7. PICK k \in [0 .. n -> T] : k[0] = <<>> /\ \A i \in 1 .. n : k[i] = G[<<k[i - 1], i>>]
  BY <1>6 DEF Recursion
<1>8. \A i \in 1 .. n : k[i] = Next1(k[i - 1], i)
  <2> SUFFICES ASSUME NEW i \in 1 .. n PROVE k[i] = Next1(k[i - 1], i)
    OBVIOUS
  <2> HIDE DEF T, n, G, Next1
  <2>1. i - 1 \in 0 .. n
    BY <1>2
  <2>2. k[i - 1] \in T
    BY <2>1
  <2> QED BY <2>2, <1>5, <1>7
<1>9. k = Def(k)
  <2> HIDE DEF T, n, Kept
  <2>1. \A i \in 0 .. n : i # 0 => i \in 1 .. n
     BY <1>2
  <2>2. \A i \in 0 .. n : k[i] = Def(k)[i]
     BY <2>1, <1>7, <1>8
  <2>3. k = [i \in 0 .. n |-> k[i]]
     OBVIOUS
  <2>4. DOMAIN Def(k) = 0 .. n /\ Def(k) = [i \in 0 .. n |-> Def(k)[i]]
     OBVIOUS
  <2> HIDE DEF Def
  <2> QED BY <2>2, <2>3, <2>4
<1>10. K = Def(K)
  <2> HIDE DEF Def
  <2> QED BY <1>9
<1>11. K[0] \in T /\ \A i \in 1 .. n : K[i] = Next1(K[i - 1], i)
  <2> HIDE DEF T, n, Kept, K
  <2>1. Def(K)[0] = <<>>
    BY <1>2
  <2>2. \A i \in 1 .. n : i \in 0 .. n /\ i # 0
    BY <1>2
  <2>3. \A i \in 1 .. n : Def(K)[i] = Next1(K[i - 1], i)
    BY <2>2
  <2> HIDE DEF Def, Next1
  <2> QED BY <1>10, <1>2, <2>1, <2>3
<1>12. \A i \in 1 .. n : K[i - 1] \in T => K[i] \in T
  <2> HIDE DEF T, n, K, Next1
  <2> QED BY <1>11, <1>3
<1>13. \A i \in 0 .. n : K[i] \in T
  <2> HIDE DEF T, n, K
  <2> QED BY <1>2, <1>11, <1>12, RecursionStaysIn
<1>14. n \in 0 .. n
  BY <1>2
<1> HIDE DEF T, n, K
<1>15. K[n] \in T
  BY <1>13, <1>14
<1> QED
  BY <1>1, <1>15 DEF T

(* The list without one of its timers. *)
LEMMA WithoutIs ==
  ASSUME NEW T, NEW s \in Seq(T), NEW i \in 1 .. Len(s)
  PROVE  /\ Without(s, i) \in Seq(T)
         /\ Len(Without(s, i)) = Len(s) - 1
         /\ \A k \in 1 .. (Len(s) - 1) : Without(s, i)[k] = s[IF k < i THEN k ELSE k + 1]
<1> DEFINE a == SubSeq(s, 1, i - 1)
           b == SubSeq(s, i + 1, Len(s))
<1>0. Len(s) \in Nat
  OBVIOUS
<1>1. a \in Seq(T) /\ Len(a) = i - 1 /\ \A k \in 1 .. (i - 1) : a[k] = s[k]
  OBVIOUS
<1>2. b \in Seq(T) /\ Len(b) = Len(s) - i /\ \A k \in 1 .. (Len(s) - i) : b[k] = s[i + k]
  OBVIOUS
<1>3. Without(s, i) = a \o b
  BY DEF Without
<1> HIDE DEF a, b
<1>4. a \o b \in Seq(T) /\ Len(a \o b) = Len(a) + Len(b)
  BY <1>1, <1>2, ConcatProperties, Zenon
<1>5. ASSUME NEW k \in 1 .. (Len(s) - 1)
      PROVE  (a \o b)[k] = s[IF k < i THEN k ELSE k + 1]
  <2>1. CASE k < i
    <3>1. k \in 1 .. (i - 1) /\ k \in 1 .. Len(a)
      BY <2>1, <1>0, <1>1
    <3>2. (a \o b)[k] = a[k]
      BY <1>1, <1>2, <3>1
    <3> QED BY <2>1, <3>1, <3>2, <1>1
  <2>2. CASE ~(k < i)
    <3>1. k - (i - 1) \in 1 .. (Len(s) - i) /\ k \in (Len(a) + 1) .. (Len(a) + Len(b))
      BY <2>2, <1>0, <1>1, <1>2
    <3>2. (a \o b)[k] = b[k - Len(a)]
      BY <1>1, <1>2, <3>1
    <3>3. i + (k - (i - 1)) = k + 1
      BY <1>0
    <3> QED BY <2>2, <3>1, <3>2, <3>3, <1>1, <1>2
  <2> QED BY <2>1, <2>2
<1> QED
  BY <1>0, <1>1, <1>2, <1>3, <1>4, <1>5

(* Taking a timer away keeps the list good; every timer that is left was   *)
(* in it, at another place than the one that is gone.                      *)
LEMMA WithoutGood ==
  ASSUME NEW timers \in Seq(TimerType), OnePerConn(timers), NEW i \in 1 .. Len(timers)
  PROVE  /\ Without(timers, i) \in Seq(TimerType)
         /\ OnePerConn(Without(timers, i))
         /\ \A k \in 1 .. Len(Without(timers, i)) :
              \E m \in 1 .. Len(timers) : m # i /\ Without(timers, i)[k] = timers[m]
<1> DEFINE W == Without(timers, i)
           At(k) == IF k < i THEN k ELSE k + 1
<1>0. Len(timers) \in Nat
  OBVIOUS
<1>1. W \in Seq(TimerType) /\ Len(W) = Len(timers) - 1
  BY WithoutIs
<1>2. \A k \in 1 .. (Len(timers) - 1) : W[k] = timers[At(k)]
  BY WithoutIs
<1>3. \A k \in 1 .. (Len(timers) - 1) : At(k) \in 1 .. Len(timers) /\ At(k) # i
  BY <1>0
<1>4. \A k, l \in 1 .. (Len(timers) - 1) : At(k) = At(l) => k = l
  BY <1>0
<1> HIDE DEF W, At
<1>5. OnePerConn(W)
  <2> SUFFICES ASSUME NEW k \in 1 .. Len(W), NEW l \in 1 .. Len(W), W[k].conn = W[l].conn
               PROVE  k = l
    BY DEF OnePerConn
  <2>1. k \in 1 .. (Len(timers) - 1) /\ l \in 1 .. (Len(timers) - 1)
    BY <1>1
  <2>2. timers[At(k)].conn = timers[At(l)].conn
    BY <1>2, <2>1
  <2>3. At(k) = At(l)
    BY <1>3, <2>1, <2>2 DEF OnePerConn
  <2> QED BY <1>4, <2>1, <2>3
<1>6. ASSUME NEW k \in 1 .. Len(W)
      PROVE  \E m \in 1 .. Len(timers) : m # i /\ W[k] = timers[m]
  <2>1. k \in 1 .. (Len(timers) - 1)
    BY <1>1
  <2> QED BY <1>2, <1>3, <2>1
<1> QED
  BY <1>1, <1>5, <1>6 DEF W

(* cancel_retransmission_timer leaves no timer of p, and of the others     *)
(* only timers that were in the list.                                      *)
LEMMA CancelGood ==
  ASSUME NEW timers \in Seq(TimerType), OnePerConn(timers), NEW p
  PROVE  LET R == cancel_retransmission_timer(timers, p)
         IN /\ R \in Seq(TimerType)
            /\ OnePerConn(R)
            /\ \A k \in 1 .. Len(R) :
                 R[k].conn # p /\ \E m \in 1 .. Len(timers) : R[k] = timers[m]
<1> DEFINE mine == { i \in DOMAIN timers : timers[i].conn = p }
           R == cancel_retransmission_timer(timers, p)
<1>0. DOMAIN timers = 1 .. Len(timers) /\ Len(timers) \in Nat
  OBVIOUS
<1>1. CASE mine = {}
  <2>1. R = timers
    BY <1>1 DEF cancel_retransmission_timer
  <2>2. \A k \in 1 .. Len(timers) : timers[k].conn # p
    BY <1>0, <1>1
  <2> QED BY <2>1, <2>2
<1>2. CASE mine # {}
  <2> DEFINE i == CHOOSE i \in mine : \A j \in mine : i <= j
  <2>1. R = Without(timers, i)
    BY <1>2 DEF cancel_retransmission_timer
  <2>2. mine \in SUBSET Nat
    BY <1>0
  <2>3. i \in mine
    <3> HIDE DEF mine
    <3>1. \E x \in mine : \A y \in mine : x <= y
      BY <1>2, <2>2, LeastNatural
    <3> QED BY <3>1
  <2>4. i \in 1 .. Len(timers) /\ timers[i].conn = p
    BY <2>3, <1>0
  <2> HIDE DEF i
  <2>5. /\ R \in Seq(TimerType) /\ OnePerConn(R)
        /\ \A k \in 1 .. Len(R) : \E m \in 1 .. Len(timers) : m # i /\ R[k] = timers[m]
    BY <2>1, <2>4, WithoutGood
  <2>6. \A m \in 1 .. Len(timers) : m # i => timers[m].conn # p
    BY <2>4 DEF OnePerConn
  <2> QED BY <2>5, <2>6
<1> QED
  BY <1>1, <1>2

(* start_retransmission_timer for a connection without a timer. *)
LEMMA StartGood ==
  ASSUME NEW timers \in Seq(TimerType), OnePerConn(timers), NEW p \in Peers, NEW ok,
         \A k \in 1 .. Len(timers) : timers[k].conn # p
  PROVE  LET R == start_retransmission_timer(timers, p, ok)
         IN /\ R \in Seq(TimerType)
            /\ OnePerConn(R)
            /\ \A k \in 1 .. Len(R) :
                 (ok /\ R[k].conn = p) \/ \E m \in 1 .. Len(timers) : R[k] = timers[m]
<1> DEFINE t == [conn |-> p, retries |-> 0, expired |-> FALSE]
           R == start_retransmission_timer(timers, p, ok)
<1>1. CASE ~ok
  BY <1>1 DEF start_retransmission_timer
<1>2. CASE ok
  <2>1. R = <<t>> \o timers
    BY <1>2 DEF start_retransmission_timer
  <2>2. t \in TimerType /\ t.conn = p
    BY TCPAssumption DEF TimerType
  <2>3. Len(timers) \in Nat
    OBVIOUS
  <2> HIDE DEF t, R
  <2>4. R \in Seq(TimerType) /\ Len(R) = Len(timers) + 1
    BY <2>1, <2>2
  <2>5. R[1] = t /\ \A k \in 2 .. (Len(timers) + 1) : R[k] = timers[k - 1]
    BY <2>1, <2>2
  <2>6. OnePerConn(R)
    <3> SUFFICES ASSUME NEW k \in 1 .. Len(R), NEW l \in 1 .. Len(R), R[k].conn = R[l].conn
                 PROVE  k = l
      BY DEF OnePerConn
    <3>1. \A m \in 1 .. Len(R) : m # 1 =>
            m \in 2 .. (Len(timers) + 1) /\ m - 1 \in 1 .. Len(timers)
      BY <2>3, <2>4
    <3>2. CASE k = 1 \/ l = 1
      BY <2>2, <2>5, <3>1, <3>2
    <3>3. CASE k # 1 /\ l # 1
      <4>1. timers[k - 1].conn = timers[l - 1].conn
        BY <2>5, <3>1, <3>3
      <4>2. k - 1 = l - 1
        BY <3>1, <3>3, <4>1 DEF OnePerConn
      <4> QED BY <4>2
    <3> QED BY <3>2, <3>3
  <2>7. ASSUME NEW k \in 1 .. Len(R)
        PROVE  R[k].conn = p \/ \E m \in 1 .. Len(timers) : R[k] = timers[m]
    <3>1. CASE k = 1
      BY <2>2, <2>5, <3>1
    <3>2. CASE k # 1
      <4>1. k \in 2 .. (Len(timers) + 1) /\ k - 1 \in 1 .. Len(timers)
        BY <2>3, <2>4, <3>2
      <4> QED BY <2>5, <4>1
    <3> QED BY <3>1, <3>2
  <2> QED BY <1>2, <2>4, <2>6, <2>7 DEF R
<1> QED
  BY <1>1, <1>2

(* The timers of a list belong to connections that may have one, also      *)
(* after the block of p has changed to d and the list to R: timers of p    *)
(* are in R only if d may have one, and the others were there before.      *)
LEMMA TimersOfUpdate ==
  ASSUME NEW c \in [Peers -> ConnType \cup {None}], NEW timers \in Seq(TimerType),
         TimersOf(c, timers), NEW p \in Peers, NEW d, NEW R \in Seq(TimerType),
         \A k \in 1 .. Len(R) :
           \/ R[k].conn = p /\ d.state \in MayHaveTimer
           \/ R[k].conn # p /\ \E m \in 1 .. Len(timers) : R[k].conn = timers[m].conn
  PROVE  TimersOf([c EXCEPT ![p] = d], R)
<1> SUFFICES ASSUME NEW k \in 1 .. Len(R)
             PROVE  [c EXCEPT ![p] = d][R[k].conn].state \in MayHaveTimer
  BY DEF TimersOf
<1>1. R[k] \in TimerType
  OBVIOUS
<1>2. R[k].conn \in Peers
  BY <1>1 DEF TimerType
<1>3. CASE R[k].conn = p
  BY <1>2, <1>3
<1>4. CASE R[k].conn # p
  <2>1. PICK m \in 1 .. Len(timers) : R[k].conn = timers[m].conn
    BY <1>4
  <2>2. c[timers[m].conn].state \in MayHaveTimer
    BY DEF TimersOf
  <2> QED BY <1>2, <1>4, <2>1, <2>2
<1> QED
  BY <1>3, <1>4

(* A peer has a control block exactly if its state is not "closed". *)
LEMMA ConnCases ==
  ASSUME Typed, NEW p \in Peers
  PROVE  /\ conn[p] \in ConnType \cup {None}
         /\ Exists(p) <=> conn[p] \in ConnType
         /\ Exists(p) <=> conn[p].state # "TCP_CLOSED"
         /\ conn[p].state \in States => conn[p] \in ConnType
<1>1. conn[p] \in ConnType \cup {None}
  BY DEF Typed
<1>2. None.state = "TCP_CLOSED" /\ \A c \in ConnType : c.state \in States
  BY DEF None, ConnType
<1>3. "TCP_CLOSED" \notin States
  BY DEF States
<1> QED
  BY <1>1, <1>2, <1>3 DEF Exists

(* The connection whose segment is handled has no timer. *)
LEMMA EstablishedHasNone ==
  ASSUME TCPInv, NEW p \in Peers, conn[p].state \notin MayHaveTimer
  PROVE  \A k \in 1 .. Len(active_timers) : active_timers[k].conn # p
  BY DEF TCPInv, TimersOf

-----------------------------------------------------------------------------
(* The invariant is kept by every step *)

(* remove_connection, while no timers are being looked at. *)
LEMMA RemoveKeeps ==
  ASSUME TCPInv, NEW p \in Peers, remove_connection(p), walk = Idle,
         UNCHANGED <<walk, ticks, halted>>
  PROVE  TCPInv'
<1> DEFINE R == cancel_retransmission_timer(active_timers, p)
<1>1. /\ conn \in [Peers -> ConnType \cup {None}]
      /\ active_timers \in Seq(TimerType) /\ OnePerConn(active_timers)
      /\ TimersOf(conn, active_timers)
  BY DEF TCPInv, Typed
<1>2. conn' = [conn EXCEPT ![p] = None] /\ active_timers' = R
  BY DEF remove_connection
<1>3. /\ R \in Seq(TimerType) /\ OnePerConn(R)
      /\ \A k \in 1 .. Len(R) :
           R[k].conn # p /\ \E m \in 1 .. Len(active_timers) : R[k] = active_timers[m]
  BY <1>1, CancelGood
<1> HIDE DEF R
<1>4. TimersOf([conn EXCEPT ![p] = None], R)
  <2>1. \A k \in 1 .. Len(R) :
          \/ R[k].conn = p /\ None.state \in MayHaveTimer
          \/ R[k].conn # p /\ \E m \in 1 .. Len(active_timers) : R[k].conn = active_timers[m].conn
    BY <1>3
  <2> QED BY <1>1, <1>3, <2>1, TimersOfUpdate
<1>5. Typed'
  BY <1>1, <1>2, <1>3 DEF TCPInv, Typed
<1>6. WalkInv'
  BY DEF WalkInv
<1> QED
  BY <1>2, <1>3, <1>4, <1>5, <1>6 DEF TCPInv

(* A block that is changed without a change of its state, or of a state    *)
(* that may have a timer, and timers that stay with their connections.     *)
LEMMA ChangeKeeps ==
  ASSUME TCPInv, NEW p \in Peers, NEW d \in ConnType,
         conn' = [conn EXCEPT ![p] = d],
         d.state = conn[p].state,
         active_timers' \in Seq(TimerType), Len(active_timers') = Len(active_timers),
         \A k \in 1 .. Len(active_timers) : active_timers'[k].conn = active_timers[k].conn,
         walk' \in WalkType \cup {Idle}, walk' # Idle => walk # Idle /\ walk'.peer = walk.peer,
         UNCHANGED <<ticks, halted>>
  PROVE  TCPInv'
<1> DEFINE T == active_timers
           R == active_timers'
<1>1. /\ conn \in [Peers -> ConnType \cup {None}]
      /\ T \in Seq(TimerType) /\ OnePerConn(T) /\ TimersOf(conn, T)
  BY DEF TCPInv, Typed
<1>2. ASSUME NEW k \in 1 .. Len(R)
      PROVE  \/ R[k].conn = p /\ d.state \in MayHaveTimer
             \/ R[k].conn # p /\ \E m \in 1 .. Len(T) : R[k].conn = T[m].conn
  <2>1. k \in 1 .. Len(T) /\ R[k].conn = T[k].conn
    OBVIOUS
  <2>2. conn[T[k].conn].state \in MayHaveTimer
    BY <1>1, <2>1 DEF TimersOf
  <2> QED BY <2>1, <2>2
<1>3. TimersOf(conn', R)
  <2> HIDE DEF R, T
  <2>1. R \in Seq(TimerType)
    BY DEF R
  <2>2. TimersOf([conn EXCEPT ![p] = d], R)
    BY <1>1, <1>2, <2>1, TimersOfUpdate
  <2> QED BY <2>2
<1>4. OnePerConn(R)
  BY <1>1 DEF OnePerConn
<1>5. Typed'
  BY <1>1 DEF TCPInv, Typed
<1>6. WalkInv'
  <2> SUFFICES ASSUME walk' # Idle PROVE conn'[walk'.peer].state = "TCP_ESTABLISHED"
    BY DEF WalkInv
  <2>1. walk # Idle /\ walk'.peer = walk.peer /\ walk.peer \in Peers
    BY DEF TCPInv, Typed, WalkType
  <2>2. conn[walk.peer].state = "TCP_ESTABLISHED"
    BY <2>1 DEF TCPInv, WalkInv
  <2> QED BY <1>1, <2>1, <2>2
<1> QED
  BY <1>3, <1>4, <1>5, <1>6 DEF TCPInv

(* A new connection starts with a timer at most. *)
LEMMA SynKeeps ==
  ASSUME TCPInv, NEW p \in Peers, NEW s \in SegmentType, ReceiveSyn(p, s)
  PROVE  TCPInv'
<1>1. /\ conn \in [Peers -> ConnType \cup {None}]
      /\ active_timers \in Seq(TimerType) /\ OnePerConn(active_timers)
      /\ TimersOf(conn, active_timers) /\ Typed
  BY DEF TCPInv, Typed
<1>2. walk = Idle /\ UNCHANGED <<walk, ticks, halted>> /\ ~Exists(p)
  BY DEF ReceiveSyn, Ready
<1>3. WalkInv'
  BY <1>2 DEF WalkInv
<1>4. CASE UNCHANGED <<conn, active_timers>>
  BY <1>2, <1>3, <1>4 DEF TCPInv, Typed
<1>5. ASSUME NEW iss \in InitialSeqs, NEW entryOk \in Malloc, NEW timerOk \in Malloc,
             conn' = [conn EXCEPT ![p] = tcp_send_segment(
               [state |-> "TCP_SYN_RECEIVED", next_seq |-> iss, last_ack |-> 0,
                dup_ack_count |-> 0, retransmit_queue |-> <<>>, acked |-> 0],
               {"SYN", "ACK"}, 0, entryOk)],
             active_timers' = start_retransmission_timer(active_timers, p, timerOk)
      PROVE  TCPInv'
  <2> DEFINE c == [state |-> "TCP_SYN_RECEIVED", next_seq |-> iss, last_ack |-> 0,
                   dup_ack_count |-> 0, retransmit_queue |-> <<>>, acked |-> 0]
             d == tcp_send_segment(c, {"SYN", "ACK"}, 0, entryOk)
             R == start_retransmission_timer(active_timers, p, timerOk)
  <2>1. iss \in 0 .. (SeqMod - 1) /\ <<>> \in Seq(Entries) /\ "TCP_SYN_RECEIVED" \in States
    BY TCPAssumption DEF States
  <2>2. c \in ConnType /\ c.state = "TCP_SYN_RECEIVED"
    BY <2>1 DEF ConnType
  <2>3. {"SYN", "ACK"} \in SUBSET SentFlags /\ 0 \in Nat
    BY DEF SentFlags
  <2>4. d \in ConnType /\ d.state = c.state
    <3> HIDE DEF c
    <3> QED BY <2>2, <2>3, SendTyped
  <2> HIDE DEF c, d
  <2>5. d.state \in MayHaveTimer
    BY <2>2, <2>4 DEF MayHaveTimer, States
  <2>6. conn[p].state \notin MayHaveTimer
    BY <1>1, <1>2, ConnCases DEF MayHaveTimer, States
  <2>7. \A k \in 1 .. Len(active_timers) : active_timers[k].conn # p
    BY <2>6, EstablishedHasNone
  <2>8. /\ R \in Seq(TimerType) /\ OnePerConn(R)
        /\ \A k \in 1 .. Len(R) : (timerOk /\ R[k].conn = p)
                                     \/ \E m \in 1 .. Len(active_timers) : R[k] = active_timers[m]
    BY <1>1, <2>7, StartGood
  <2> HIDE DEF R
  <2>9. \A k \in 1 .. Len(R) :
           \/ R[k].conn = p /\ d.state \in MayHaveTimer
           \/ R[k].conn # p /\ \E m \in 1 .. Len(active_timers) : R[k].conn = active_timers[m].conn
    BY <2>5, <2>7, <2>8
  <2>10. TimersOf([conn EXCEPT ![p] = d], R)
    BY <1>1, <2>8, <2>9, TimersOfUpdate
  <2>11. conn' = [conn EXCEPT ![p] = d] /\ active_timers' = R
    BY <1>5 DEF c, d, R
  <2>12. Typed'
    BY <1>1, <1>2, <2>4, <2>8, <2>11 DEF Typed
  <2> QED
    BY <1>3, <2>8, <2>10, <2>11, <2>12 DEF TCPInv
<1> QED
  BY <1>4, <1>5 DEF ReceiveSyn

(* The handshake's acknowledgement takes the connection's timer away. *)
LEMMA SynReceivedKeeps ==
  ASSUME TCPInv, NEW p \in Peers, NEW s \in SegmentType, ReceiveSynReceived(p, s)
  PROVE  TCPInv'
<1> DEFINE R == cancel_retransmission_timer(active_timers, p)
           d == [conn[p] EXCEPT !.state = "TCP_ESTABLISHED"]
<1>1. /\ conn \in [Peers -> ConnType \cup {None}]
      /\ active_timers \in Seq(TimerType) /\ OnePerConn(active_timers)
      /\ TimersOf(conn, active_timers) /\ Typed
  BY DEF TCPInv, Typed
<1>2. /\ walk = Idle /\ UNCHANGED <<walk, ticks, halted>>
      /\ conn[p].state = "TCP_SYN_RECEIVED"
  BY DEF ReceiveSynReceived, Ready
<1>3. WalkInv'
  BY <1>2 DEF WalkInv
<1>4. CASE UNCHANGED <<conn, active_timers>>
  BY <1>2, <1>3, <1>4 DEF TCPInv, Typed
<1>5. CASE conn' = [conn EXCEPT ![p].state = "TCP_ESTABLISHED"] /\ active_timers' = R
  <2>1. conn[p] \in ConnType
    BY <1>1, <1>2, ConnCases DEF States
  <2>2. d \in ConnType /\ conn' = [conn EXCEPT ![p] = d]
    BY <1>1, <1>5, <2>1 DEF ConnType, States
  <2>3. /\ R \in Seq(TimerType) /\ OnePerConn(R)
        /\ \A k \in 1 .. Len(R) :
             R[k].conn # p /\ \E m \in 1 .. Len(active_timers) : R[k] = active_timers[m]
    BY <1>1, CancelGood
  <2> HIDE DEF R, d
  <2>4. \A k \in 1 .. Len(R) :
          \/ R[k].conn = p /\ d.state \in MayHaveTimer
          \/ R[k].conn # p /\ \E m \in 1 .. Len(active_timers) : R[k].conn = active_timers[m].conn
    BY <2>3
  <2>5. TimersOf([conn EXCEPT ![p] = d], R)
    BY <1>1, <2>3, <2>4, TimersOfUpdate
  <2>6. active_timers' = R
    BY <1>5
  <2>7. Typed'
    BY <1>1, <1>2, <2>2, <2>3, <2>6 DEF Typed
  <2> QED
    BY <1>3, <2>2, <2>3, <2>5, <2>6, <2>7 DEF TCPInv
<1> QED
  BY <1>4, <1>5 DEF ReceiveSynReceived

(* An acknowledgement of the response takes an entry off the queue, counts *)
(* as a repeated one or ends the connection.                               *)
LEMMA WaitForAckKeeps ==
  ASSUME TCPInv, NEW p \in Peers, NEW s \in SegmentType, ReceiveWaitForAck(p, s)
  PROVE  TCPInv'
<1> DEFINE c == conn[p]
           q == c.retransmit_queue
           seen == IF s.ack > c.acked THEN s.ack ELSE c.acked
<1>1. /\ conn \in [Peers -> ConnType \cup {None}]
      /\ active_timers \in Seq(TimerType) /\ Typed
  BY DEF TCPInv, Typed
<1>2. /\ walk = Idle /\ UNCHANGED <<walk, ticks, halted>>
      /\ c.state = "TCP_WAIT_FOR_ACK"
  BY DEF ReceiveWaitForAck, Ready
<1>3. c \in ConnType
  BY <1>1, <1>2, ConnCases DEF States
<1>4. /\ q \in Seq(Entries) /\ c.acked \in Nat /\ c.dup_ack_count \in Nat
      /\ s.ack \in Nat
  BY <1>3 DEF ConnType, SegmentType
<1>5. seen \in Nat
  BY <1>4
<1>6. ASSUME NEW d \in ConnType, d.state = c.state, conn' = [conn EXCEPT ![p] = d],
             UNCHANGED active_timers
      PROVE  TCPInv'
  <2>1. walk' \in WalkType \cup {Idle} /\ (walk' # Idle => walk # Idle /\ walk'.peer = walk.peer)
    BY <1>1, <1>2 DEF Typed
  <2> QED BY <1>1, <1>2, <1>6, <2>1, ChangeKeeps
<1>7. PICK ok \in Malloc : handle_wait_for_ack_state(p, s, ok)
  BY DEF ReceiveWaitForAck
<1>8. CASE UNCHANGED <<conn, active_timers>>
  BY <1>2, <1>8 DEF TCPInv, Typed, WalkInv
<1>9. CASE remove_connection(p)
  BY <1>2, <1>9, RemoveKeeps
<1>10. CASE /\ q # <<>> /\ UNCHANGED active_timers
            /\ conn' = [conn EXCEPT ![p].retransmit_queue = Tail(@), ![p].acked = seen]
  <2> DEFINE d == [c EXCEPT !.retransmit_queue = Tail(q), !.acked = seen]
  <2>1. Tail(q) \in Seq(Entries)
    BY <1>4, <1>10, HeadTailProperties
  <2>2. d \in ConnType /\ d.state = c.state
    BY <1>3, <1>5, <2>1 DEF ConnType
  <2>3. conn' = [conn EXCEPT ![p] = d]
    BY <1>1, <1>10
  <2> QED BY <1>6, <1>10, <2>2, <2>3
<1>11. CASE /\ q # <<>> /\ UNCHANGED active_timers
            /\ conn' = [conn EXCEPT ![p].last_ack = s.ack, ![p].acked = seen,
                                     ![p].retransmit_queue[1].retries = 0]
  <2> DEFINE e == [q[1] EXCEPT !.retries = 0]
             r == [q EXCEPT ![1] = e]
             d == [c EXCEPT !.last_ack = s.ack, !.acked = seen, !.retransmit_queue = r]
  <2>1. 1 \in 1 .. Len(q) /\ q[1] \in Entries
    BY <1>4, <1>11
  <2>2. e \in Entries
    <3>1. ASSUME NEW x \in Entries PROVE [x EXCEPT !.retries = 0] \in Entries
      BY TCPAssumption DEF Entries
    <3> QED BY <2>1, <3>1
  <2>3. r \in Seq(Entries)
    BY <1>4, <2>1, <2>2, ExceptSeq
  <2>4. d \in ConnType /\ d.state = c.state
    BY <1>3, <1>4, <1>5, <2>3 DEF ConnType
  <2>5. conn' = [conn EXCEPT ![p] = d]
    BY <1>1, <1>11
  <2> QED BY <1>6, <1>11, <2>4, <2>5
<1>12. CASE /\ q # <<>> /\ UNCHANGED active_timers
            /\ conn' = [conn EXCEPT ![p] =
                 [tcp_send_segment(c, Head(q).flags, Head(q).length, ok) EXCEPT !.dup_ack_count = 0]]
  <2> DEFINE x == tcp_send_segment(c, Head(q).flags, Head(q).length, ok)
             d == [x EXCEPT !.dup_ack_count = 0]
  <2>1. Head(q) \in Entries
    BY <1>4, <1>12, HeadTailProperties
  <2>2. Head(q).flags \in SUBSET SentFlags /\ Head(q).length \in Nat
    BY <2>1 DEF Entries, SentFlags
  <2>3. x \in ConnType /\ x.state = c.state
    BY <1>3, <2>2, SendTyped
  <2> HIDE DEF x
  <2>4. d \in ConnType /\ d.state = c.state
    BY <2>3 DEF ConnType
  <2>5. conn' = [conn EXCEPT ![p] = d]
    BY <1>12 DEF x
  <2> QED BY <1>6, <1>12, <2>4, <2>5
<1>13. CASE /\ UNCHANGED active_timers
            /\ conn' = [conn EXCEPT ![p] = [c EXCEPT !.dup_ack_count = @ + 1]]
  <2> DEFINE d == [c EXCEPT !.dup_ack_count = @ + 1]
  <2>1. d \in ConnType /\ d.state = c.state
    BY <1>3, <1>4 DEF ConnType
  <2> QED BY <1>6, <1>13, <2>1
<1> QED
  BY <1>7, <1>8, <1>9, <1>10, <1>11, <1>12, <1>13 DEF handle_wait_for_ack_state

(* A segment of a peer, in whatever state its connection is. *)
LEMMA ReceiveKeeps ==
  ASSUME TCPInv, NEW p \in Peers, NEW s \in SegmentType, Receive(p, s)
  PROVE  TCPInv'
<1>1. ASSUME walk = Idle, UNCHANGED tcpVars PROVE TCPInv'
  BY <1>1 DEF tcpVars, TCPInv, Typed, WalkInv
<1>2. CASE ReceiveReset(p, s)
  <2>1. walk = Idle /\ UNCHANGED <<walk, ticks, halted>>
    BY <1>2 DEF ReceiveReset, Ready
  <2>2. CASE remove_connection(p)
    BY <2>1, <2>2, RemoveKeeps
  <2>3. CASE UNCHANGED <<conn, active_timers>>
    BY <2>1, <2>3, <1>1 DEF tcpVars
  <2> QED BY <1>2, <2>2, <2>3 DEF ReceiveReset
<1>3. CASE ReceiveSyn(p, s)
  BY <1>3, SynKeeps
<1>4. CASE ReceiveUnknown(p, s)
  BY <1>1, <1>4 DEF ReceiveUnknown, Ready, tcp_send_reset
<1>5. CASE ReceiveSynReceived(p, s)
  BY <1>5, SynReceivedKeeps
<1>6. CASE ReceiveEstablished(p, s)
  <2>1. /\ walk' = [peer |-> p, seg |-> s, pp |-> 1] /\ conn[p].state = "TCP_ESTABLISHED"
        /\ UNCHANGED <<conn, active_timers, ticks, halted>>
    BY <1>6 DEF ReceiveEstablished
  <2>2. walk' \in WalkType /\ walk'.peer = p
    BY <2>1 DEF WalkType
  <2> QED BY <2>1, <2>2 DEF TCPInv, Typed, WalkInv
<1>7. CASE ReceiveWaitForAck(p, s)
  BY <1>7, WaitForAckKeeps
<1>8. CASE ReceiveLastAck(p, s)
  <2>1. walk = Idle /\ UNCHANGED <<walk, ticks, halted>>
    BY <1>8 DEF ReceiveLastAck, Ready
  <2>2. CASE remove_connection(p)
    BY <2>1, <2>2, RemoveKeeps
  <2>3. CASE UNCHANGED <<conn, active_timers>>
    BY <2>1, <2>3, <1>1 DEF tcpVars
  <2> QED BY <1>8, <2>2, <2>3 DEF ReceiveLastAck, handle_last_ack_state
<1> QED
  BY <1>2, <1>3, <1>4, <1>5, <1>6, <1>7, <1>8 DEF Receive

(* The timer that a walk visits, and its connection. *)
LEMMA VisitFacts ==
  ASSUME TCPInv, NEW i \in 1 .. Len(active_timers)
  PROVE  /\ active_timers[i] \in TimerType /\ active_timers[i].conn \in Peers
         /\ conn[active_timers[i].conn] \in ConnType
         /\ conn[active_timers[i].conn].state \in MayHaveTimer
<1>1. active_timers[i] \in TimerType
  BY DEF TCPInv, Typed
<1>2. active_timers[i].conn \in Peers
  BY <1>1 DEF TimerType
<1>3. conn[active_timers[i].conn].state \in MayHaveTimer
  BY DEF TCPInv, TimersOf
<1>4. conn[active_timers[i].conn] \in ConnType
  BY <1>2, <1>3, ConnCases DEF TCPInv, MayHaveTimer
<1> QED
  BY <1>1, <1>2, <1>3, <1>4

(* Where the handler is, or that there is none, does not change. *)
WalkStays == /\ walk' \in WalkType \cup {Idle}
             /\ walk' # Idle => walk # Idle /\ walk'.peer = walk.peer

(* A walk's visit of a timer, the handler's or the shell's. *)
LEMMA ResendDataKeeps ==
  ASSUME TCPInv, NEW i \in 1 .. Len(active_timers), ResendDataOf(i), WalkStays,
         UNCHANGED <<ticks, halted>>
  PROVE  TCPInv'
<1> DEFINE p == active_timers[i].conn
           c == conn[p]
           q == c.retransmit_queue
           T == active_timers
<1>a. /\ p \in Peers /\ c \in ConnType /\ c.state \in MayHaveTimer /\ T[i] \in TimerType
  BY VisitFacts
<1>b. /\ conn \in [Peers -> ConnType \cup {None}] /\ Typed
      /\ T \in Seq(TimerType) /\ OnePerConn(T) /\ TimersOf(conn, T)
  BY DEF TCPInv, Typed
<1>1. /\ UNCHANGED <<ticks, halted>>
      /\ q # <<>> /\ Head(q).retries < MAX_SYN_RETRIES
      /\ active_timers' = [T EXCEPT ![i].expired = FALSE]
  BY DEF ResendDataOf
<1>2. PICK ok \in Malloc :
        LET sent == tcp_send_segment(c, {"ACK"}, Head(q).length, ok)
            old  == Len(sent.retransmit_queue) - Len(c.retransmit_queue) + 1
        IN conn' = [conn EXCEPT ![p] = [sent EXCEPT !.retransmit_queue[old].retries = @ + 1]]
  BY DEF ResendDataOf
<1> DEFINE sent == tcp_send_segment(c, {"ACK"}, Head(q).length, ok)
           r == sent.retransmit_queue
           old == Len(r) - Len(q) + 1
           e == [r[old] EXCEPT !.retries = @ + 1]
           d == [sent EXCEPT !.retransmit_queue = [r EXCEPT ![old] = e]]
<1>3. q \in Seq(Entries) /\ Head(q) \in Entries /\ Len(q) \in Nat \ {0} /\ Head(q) = q[1]
  <2>1. q \in Seq(Entries)
    BY <1>a DEF ConnType
  <2>2. Len(q) \in Nat \ {0} /\ Head(q) = q[1]
    BY <1>1, <2>1
  <2> QED BY <1>1, <2>1, <2>2, HeadTailProperties
<1>4. Head(q).length \in Nat /\ {"ACK"} \in SUBSET SentFlags
  BY <1>3 DEF Entries, SentFlags
<1>5. /\ sent \in ConnType /\ sent.state = c.state
      /\ Len(r) \in {Len(q), Len(q) + 1}
  BY <1>a, <1>4, SendTyped
<1>6. r[old] = Head(q) /\ r \in Seq(Entries)
  <2> DEFINE entry == [seq |-> c.next_seq, length |-> Head(q).length, flags |-> {"ACK"}, retries |-> 0]
  <2>1. r = q \/ r = <<entry>> \o q
    <3>1. r = IF ({"ACK"} \cap {"SYN", "FIN"} # {} \/ Head(q).length > 0) /\ ok
                THEN <<entry>> \o q ELSE q
      BY <1>a DEF tcp_send_segment, ConnType
    <3> HIDE DEF r, q, entry
    <3> QED BY <3>1
  <2>2. r \in Seq(Entries)
    BY <1>5 DEF ConnType
  <2> HIDE DEF r, q, entry, c
  <2>3. CASE r = q
    <3>1. old = 1
      BY <1>3, <2>3
    <3> QED BY <1>3, <2>2, <2>3, <3>1
  <2>4. CASE r = <<entry>> \o q
    <3>1. Len(r) = Len(q) + 1 /\ r[2] = q[1]
      BY <1>3, <2>4
    <3>2. old = 2
      BY <1>3, <3>1
    <3> QED BY <1>3, <2>2, <3>1, <3>2
  <2> QED BY <2>1, <2>3, <2>4
<1>7. old \in 1 .. Len(r)
  <2> HIDE DEF r, q, c
  <2> QED BY <1>3, <1>5
<1>8. e \in Entries
  <2>1. ASSUME NEW x \in Entries, x.retries < MAX_SYN_RETRIES
        PROVE  [x EXCEPT !.retries = @ + 1] \in Entries
    BY <2>1, TCPAssumption DEF Entries
  <2> QED BY <1>1, <1>3, <1>6, <2>1
<1>9. [r EXCEPT ![old] = e] \in Seq(Entries)
  <2> HIDE DEF old, e, r
  <2> QED BY <1>6, <1>7, <1>8, ExceptSeq
<1>10. d \in ConnType /\ d.state = c.state
  <2> DEFINE rr == [r EXCEPT ![old] = e]
  <2> HIDE DEF rr, sent, c
  <2>1. [sent EXCEPT !.retransmit_queue = rr] \in ConnType
         /\ [sent EXCEPT !.retransmit_queue = rr].state = c.state
    BY <1>5, <1>9 DEF ConnType, rr
  <2> QED BY <2>1 DEF rr
<1>11. conn' = [conn EXCEPT ![p] = d]
  BY <1>2
<1> DEFINE t == [T[i] EXCEPT !.expired = FALSE]
<1>12. t \in TimerType /\ t.conn = T[i].conn /\ active_timers' = [T EXCEPT ![i] = t]
  BY <1>a, <1>b, <1>1 DEF TimerType, Timer
<1> HIDE DEF t, d
<1>13. /\ active_timers' \in Seq(TimerType) /\ Len(active_timers') = Len(T)
       /\ \A k \in 1 .. Len(T) : active_timers'[k].conn = T[k].conn
  BY <1>a, <1>b, <1>12, ExceptSeq
<1> QED
  BY <1>a, <1>1, <1>10, <1>11, <1>13, ChangeKeeps DEF WalkStays

LEMMA ResendControlKeeps ==
  ASSUME TCPInv, NEW i \in 1 .. Len(active_timers), ResendControlOf(i), WalkStays,
         UNCHANGED <<ticks, halted>>
  PROVE  TCPInv'
<1> DEFINE p == active_timers[i].conn
           c == conn[p]
           q == c.retransmit_queue
           T == active_timers
<1>a. /\ p \in Peers /\ c \in ConnType /\ c.state \in MayHaveTimer /\ T[i] \in TimerType
  BY VisitFacts
<1>b. /\ conn \in [Peers -> ConnType \cup {None}] /\ Typed
      /\ T \in Seq(TimerType) /\ OnePerConn(T) /\ TimersOf(conn, T)
  BY DEF TCPInv, Typed
<1>1. /\ UNCHANGED <<ticks, halted>>
      /\ T[i].retries < MAX_SYN_RETRIES
      /\ active_timers' = [T EXCEPT ![i].retries = @ + 1, ![i].expired = FALSE]
  BY DEF ResendControlOf
<1>2. PICK ok \in Malloc : conn' = [conn EXCEPT ![p] = tcp_send_segment(@, {"FIN"}, 0, ok)]
  BY DEF ResendControlOf
<1> DEFINE d == tcp_send_segment(c, {"FIN"}, 0, ok)
<1>3. {"FIN"} \in SUBSET SentFlags /\ 0 \in Nat
  BY DEF SentFlags
<1>4. d \in ConnType /\ d.state = c.state
  BY <1>a, <1>3, SendTyped
<1>5. conn' = [conn EXCEPT ![p] = d]
  BY <1>a, <1>b, <1>2
<1> DEFINE t == [T[i] EXCEPT !.retries = @ + 1, !.expired = FALSE]
<1>6. t \in TimerType /\ t.conn = T[i].conn
  <2>1. ASSUME NEW x \in TimerType, x.retries < MAX_SYN_RETRIES
        PROVE  LET y == [x EXCEPT !.retries = @ + 1, !.expired = FALSE]
               IN y \in TimerType /\ y.conn = x.conn
    <3>1. x.retries + 1 \in 0 .. MAX_SYN_RETRIES
      BY <2>1, TCPAssumption DEF TimerType
    <3> DEFINE n == x.retries + 1
    <3> HIDE DEF n
    <3>2. [x EXCEPT !.retries = n, !.expired = FALSE] \in TimerType
      BY <3>1, Zenon DEF TimerType, n
    <3>3. [x EXCEPT !.retries = n, !.expired = FALSE].conn = x.conn
      BY DEF TimerType
    <3> QED BY <3>2, <3>3 DEF n
  <2> QED BY <1>a, <1>1, <2>1 DEF Timer
<1>7. active_timers' = [T EXCEPT ![i] = t]
  BY <1>a, <1>b, <1>1
<1> HIDE DEF t, d
<1>8. /\ active_timers' \in Seq(TimerType) /\ Len(active_timers') = Len(T)
      /\ \A k \in 1 .. Len(T) : active_timers'[k].conn = T[k].conn
  BY <1>a, <1>b, <1>6, <1>7, ExceptSeq
<1> QED
  BY <1>a, <1>1, <1>4, <1>5, <1>8, ChangeKeeps DEF WalkStays

LEMMA DropConnectionKeeps ==
  ASSUME TCPInv, NEW i \in 1 .. Len(active_timers), DropConnectionOf(i),
         UNCHANGED <<walk, ticks>>
  PROVE  TCPInv'
<1> DEFINE p == active_timers[i].conn
           c == conn[p]
           q == c.retransmit_queue
           T == active_timers
<1>a. /\ p \in Peers /\ c \in ConnType /\ c.state \in MayHaveTimer /\ T[i] \in TimerType
  BY VisitFacts
<1>b. /\ conn \in [Peers -> ConnType \cup {None}] /\ Typed
      /\ T \in Seq(TimerType) /\ OnePerConn(T) /\ TimersOf(conn, T)
  BY DEF TCPInv, Typed
<1> DEFINE rest == cancel_retransmission_timer(T, p)
           R == active_timers'
<1>1. /\ conn' = [conn EXCEPT ![p] = None] /\ UNCHANGED <<walk, ticks>>
      /\ halted' \in BOOLEAN
      /\ \/ i <= Len(rest) /\ R = Without(rest, i)
         \/ R = rest
  BY <1>b DEF DropConnectionOf, Typed
<1>2. /\ rest \in Seq(TimerType) /\ OnePerConn(rest)
      /\ \A k \in 1 .. Len(rest) : rest[k].conn # p /\ \E m \in 1 .. Len(T) : rest[k] = T[m]
  BY <1>b, CancelGood
<1> HIDE DEF rest
<1>3. /\ R \in Seq(TimerType) /\ OnePerConn(R)
      /\ \A k \in 1 .. Len(R) : \E m \in 1 .. Len(rest) : R[k] = rest[m]
  <2>1. CASE R = rest
    BY <1>2, <2>1
  <2>2. CASE i <= Len(rest) /\ R = Without(rest, i)
    <3>1. i \in 1 .. Len(rest)
      <4>1. Len(rest) \in Nat /\ Len(T) \in Nat
        BY <1>b, <1>2
      <4> QED BY <1>a, <2>2, <4>1
    <3>2. /\ Without(rest, i) \in Seq(TimerType) /\ OnePerConn(Without(rest, i))
          /\ \A k \in 1 .. Len(Without(rest, i)) :
               \E m \in 1 .. Len(rest) : m # i /\ Without(rest, i)[k] = rest[m]
      BY <1>2, <3>1, WithoutGood
    <3> QED BY <2>2, <3>2
  <2> QED BY <1>1, <2>1, <2>2
<1>4. \A k \in 1 .. Len(R) :
        \/ R[k].conn = p /\ None.state \in MayHaveTimer
        \/ R[k].conn # p /\ \E m \in 1 .. Len(T) : R[k].conn = T[m].conn
  <2> SUFFICES ASSUME NEW k \in 1 .. Len(R)
               PROVE  R[k].conn # p /\ \E m \in 1 .. Len(T) : R[k].conn = T[m].conn
    OBVIOUS
  <2>1. PICK l \in 1 .. Len(rest) : R[k] = rest[l]
    BY <1>3
  <2>2. PICK m \in 1 .. Len(T) : rest[l] = T[m]
    BY <1>2
  <2> QED BY <1>2, <2>1, <2>2
<1>5. TimersOf(conn', R)
  <2> DEFINE RR == R
  <2> HIDE DEF RR
  <2>1. TimersOf([conn EXCEPT ![p] = None], RR)
    <3>1. p \in Peers
      BY <1>a
    <3>2. T \in Seq(TimerType) /\ TimersOf(conn, T) /\ conn \in [Peers -> ConnType \cup {None}]
      BY <1>b
    <3>3. /\ RR \in Seq(TimerType)
          /\ \A k \in 1 .. Len(RR) :
               \/ RR[k].conn = p /\ None.state \in MayHaveTimer
               \/ RR[k].conn # p /\ \E m \in 1 .. Len(T) : RR[k].conn = T[m].conn
      BY <1>3, <1>4 DEF RR
    <3> HIDE DEF p, T
    <3> QED BY <3>1, <3>2, <3>3, TimersOfUpdate
  <2> QED BY <1>1, <2>1 DEF RR
<1>6. Typed'
  BY <1>b, <1>1, <1>3 DEF Typed
<1>7. WalkInv'
  <2> SUFFICES ASSUME walk # Idle PROVE conn'[walk.peer].state = "TCP_ESTABLISHED"
    BY <1>1 DEF WalkInv
  <2>1. walk.peer \in Peers /\ conn[walk.peer].state = "TCP_ESTABLISHED"
    BY <1>b DEF TCPInv, Typed, WalkType, WalkInv
  <2>2. p # walk.peer
    BY <1>a, <2>1 DEF MayHaveTimer
  <2> QED BY <1>1, <1>b, <2>1, <2>2
<1> QED
  BY <1>3, <1>5, <1>6, <1>7 DEF TCPInv

(* The handler's place in the list. *)
LEMMA WalkFacts ==
  ASSUME TCPInv, Walking
  PROVE  walk \in WalkType /\ walk.pp \in 1 .. Len(active_timers) /\ (Advance => WalkStays)
<1>1. walk \in WalkType /\ walk.pp <= Len(active_timers) /\ active_timers \in Seq(TimerType)
  BY DEF TCPInv, Typed, Walking
<1>2. walk.pp \in Nat \ {0} /\ walk.peer \in Peers
  BY <1>1 DEF WalkType
<1>3. Len(active_timers) \in Nat
  BY <1>1
<1>4. walk # Idle
  BY DEF Walking
<1> QED
  BY <1>1, <1>2, <1>3, <1>4 DEF Advance, WalkType, WalkStays

(* What a step of either walk does to the connections, at some timer. *)
Visit == \E i \in 1 .. Len(active_timers) :
           ResendDataOf(i) \/ ResendControlOf(i) \/ DropConnectionOf(i)

LEMMA WalksVisit ==
  ASSUME TCPInv, check_tcp_timers \/ ShellWalk
  PROVE  Visit \/ UNCHANGED conn
<1>0. active_timers \in Seq(TimerType)
  BY DEF TCPInv, Typed
<1>1. CASE check_tcp_timers
  <2>1. Walking
    BY <1>1 DEF check_tcp_timers, SkipTimer, ResendData, ResendControl, DropConnection
  <2>2. walk.pp \in 1 .. Len(active_timers)
    BY <2>1, WalkFacts
  <2> QED
    BY <1>1, <2>2 DEF check_tcp_timers, SkipTimer, ResendData, ResendControl, DropConnection, Visit
<1>2. CASE ShellWalk
  <2>1. ShellHolds => Place \in 1 .. Len(active_timers)
    BY <1>0 DEF ShellHolds
  <2> QED
    BY <1>2, <2>1 DEF ShellWalk, ShellStarts, ShellLooks, ShellSkips, ShellResends, ShellDrops,
                      ShellGoesAstray, tcpVars, Visit
<1> QED
  BY <1>1, <1>2

(* check_tcp_timers in a handler, one timer at a time. *)
LEMMA TimerWalkKeeps ==
  ASSUME TCPInv, check_tcp_timers
  PROVE  TCPInv'
<1>0. Walking
  BY DEF check_tcp_timers, SkipTimer, ResendData, ResendControl, DropConnection
<1>1. walk \in WalkType /\ walk.pp \in 1 .. Len(active_timers) /\ (Advance => WalkStays)
  BY <1>0, WalkFacts
<1>2. CASE SkipTimer
  BY <1>0, <1>1, <1>2 DEF SkipTimer, TCPInv, Typed, WalkInv, WalkStays
<1>3. CASE ResendData
  BY <1>1, <1>3, ResendDataKeeps DEF ResendData
<1>4. CASE ResendControl
  BY <1>1, <1>4, ResendControlKeeps DEF ResendControl
<1>5. CASE DropConnection
  BY <1>1, <1>5, DropConnectionKeeps DEF DropConnection
<1> QED
  BY <1>2, <1>3, <1>4, <1>5 DEF check_tcp_timers

(* check_tcp_timers in the foreground. *)
LEMMA ShellWalkKeeps ==
  ASSUME TCPInv, ShellWalk
  PROVE  TCPInv'
<1>1. ShellHolds => Place \in 1 .. Len(active_timers)
  <2>1. active_timers \in Seq(TimerType)
    BY DEF TCPInv, Typed
  <2> QED BY <2>1 DEF ShellHolds
<1>2. ASSUME UNCHANGED tcpVars PROVE TCPInv'
  BY <1>2 DEF tcpVars, TCPInv, Typed, WalkInv
<1>3. UNCHANGED walk => WalkStays
  BY DEF WalkStays, TCPInv, Typed
<1>4. CASE ShellResends
  <2>1. Place \in 1 .. Len(active_timers) /\ WalkStays /\ UNCHANGED <<ticks, halted>>
    BY <1>1, <1>3, <1>4 DEF ShellResends
  <2> QED BY <1>4, <2>1, ResendDataKeeps, ResendControlKeeps DEF ShellResends
<1>5. CASE ShellDrops
  <2>1. Place \in 1 .. Len(active_timers) /\ UNCHANGED <<walk, ticks>>
    BY <1>1, <1>5 DEF ShellDrops
  <2> QED BY <1>5, <2>1, DropConnectionKeeps DEF ShellDrops
<1>6. CASE ShellGoesAstray
  BY <1>6 DEF ShellGoesAstray, TCPInv, Typed, WalkInv
<1> QED
  BY <1>2, <1>4, <1>5, <1>6 DEF ShellWalk, ShellStarts, ShellLooks, ShellSkips

(* What the acknowledgement of a segment makes of the block. *)
LEMMA AcknowledgedTyped ==
  ASSUME NEW c \in ConnType, NEW s \in SegmentType, NEW ok
  PROVE  Acknowledged(c, s, ok) \in ConnType /\ Acknowledged(c, s, ok).state = c.state
<1> DEFINE dup == s.ack = c.last_ack
           q == c.retransmit_queue
           again == dup /\ c.dup_ack_count = 2 /\ q # <<>>
           x == tcp_send_segment(c, {"ACK"}, Head(q).length, ok)
           c1 == IF again THEN x ELSE c
<1>1. q \in Seq(Entries) /\ s.ack \in 0 .. (SeqMod - 1)
  BY DEF ConnType, SegmentType
<1>2. c1 \in ConnType /\ c1.state = c.state
  <2>1. CASE q # <<>>
    <3>1. Head(q) \in Entries
      BY <1>1, <2>1, HeadTailProperties
    <3>2. Head(q).length \in Nat /\ {"ACK"} \in SUBSET SentFlags
      BY <3>1 DEF Entries, SentFlags
    <3>3. x \in ConnType /\ x.state = c.state
      BY <3>2, SendTyped
    <3> HIDE DEF x, q, dup
    <3> QED BY <3>3
  <2>2. CASE q = <<>>
    BY <2>2
  <2> QED BY <2>1, <2>2
<1> HIDE DEF c1
<1> DEFINE n == IF dup /\ c1.dup_ack_count < 4 THEN c1.dup_ack_count + 1 ELSE c1.dup_ack_count
           m == IF s.ack > c1.next_seq THEN s.ack ELSE c1.next_seq
           r == Unacked(c1.retransmit_queue, s.ack)
<1>3. c1.dup_ack_count \in Nat /\ c1.next_seq \in 0 .. (SeqMod - 1)
       /\ c1.retransmit_queue \in Seq(Entries)
  BY <1>2 DEF ConnType
<1>4. n \in Nat
  <2> HIDE DEF dup
  <2> QED BY <1>3
<1>5. m \in 0 .. (SeqMod - 1)
  BY <1>1, <1>3
<1>6. r \in Seq(Entries)
  BY <1>3, UnackedTyped
<1>7. Acknowledged(c, s, ok)
        = [c1 EXCEPT !.dup_ack_count = n, !.next_seq = m, !.retransmit_queue = r]
  BY DEF Acknowledged, c1
<1> HIDE DEF n, m, r
<1> QED
  BY <1>2, <1>4, <1>5, <1>6, <1>7 DEF ConnType

(* What the rest of the handler makes of it: a timer is started only for a *)
(* connection that waits for an acknowledgement, and if malloc succeeds    *)
(* such a connection has something in its queue.                           *)
LEMMA RequestTyped ==
  ASSUME NEW c \in ConnType, NEW o \in handle_http_request(c)
  PROVE  /\ o.conn \in ConnType
         /\ o.conn.state = "TCP_WAIT_FOR_ACK"
         /\ Malloc = {TRUE} => o.conn.retransmit_queue # <<>>
<1> DEFINE w == [c EXCEPT !.state = "TCP_WAIT_FOR_ACK"]
           F == {"PSH", "ACK"}
           notFound == { Outcome(tcp_send_segment(w, F, NotFoundLen, ok), FALSE) : ok \in Malloc }
           noBuffer == IF FALSE \in Malloc THEN {Outcome(w, FALSE)} ELSE {}
           headers  == { tcp_send_segment(w, F, HeaderLen, ok) : ok \in Malloc }
           response == { tcp_send_segment(h, F, len, ok) :
                           h \in headers, len \in BodyLens, ok \in Malloc }
           full     == { Outcome(r, timer) : r \in response, timer \in Malloc }
<1>1. w \in ConnType /\ w.state = "TCP_WAIT_FOR_ACK"
  BY DEF ConnType, States
<1>2. /\ F \in SUBSET SentFlags /\ NotFoundLen \in Nat /\ NotFoundLen > 0
      /\ HeaderLen \in Nat /\ HeaderLen > 0 /\ BodyLens \subseteq Nat
  BY TCPAssumption DEF SentFlags
<1>3. Malloc = {TRUE} => \A ok \in Malloc : ok
  OBVIOUS
<1>4. o \in notFound \/ o \in noBuffer \/ o \in full
  <2>1. handle_http_request(c) = notFound \cup noBuffer \cup full
    BY SMT DEF handle_http_request
  <2> HIDE DEF notFound, noBuffer, full
  <2> QED BY <2>1
<1> HIDE DEF w, F
<1>5. CASE o \in notFound
  <2>1. PICK ok \in Malloc : o = Outcome(tcp_send_segment(w, F, NotFoundLen, ok), FALSE)
    BY <1>5
  <2> DEFINE d == tcp_send_segment(w, F, NotFoundLen, ok)
  <2>2. /\ d \in ConnType /\ d.state = w.state
        /\ (NotFoundLen > 0 /\ ok) => d.retransmit_queue # <<>>
    BY <1>1, <1>2, SendTyped
  <2> HIDE DEF d
  <2>3. o.conn = d
    BY <2>1 DEF Outcome, d
  <2> QED BY <1>1, <1>2, <1>3, <2>2, <2>3
<1>6. CASE o \in noBuffer
  <2>1. FALSE \in Malloc /\ o = Outcome(w, FALSE)
    BY <1>6
  <2>2. o.conn = w /\ Malloc # {TRUE}
    BY <2>1 DEF Outcome
  <2> QED BY <1>1, <2>2
<1>7. CASE o \in full
  <2>1. PICK r \in response, timer \in Malloc : o = Outcome(r, timer)
    BY <1>7
  <2>2. PICK h \in headers, len \in BodyLens, ok \in Malloc : r = tcp_send_segment(h, F, len, ok)
    OBVIOUS
  <2>3. PICK ok1 \in Malloc : h = tcp_send_segment(w, F, HeaderLen, ok1)
    OBVIOUS
  <2> HIDE DEF headers, response, full, notFound, noBuffer
  <2>4. /\ h \in ConnType /\ h.state = w.state
        /\ (HeaderLen > 0 /\ ok1) => h.retransmit_queue # <<>>
    BY <1>1, <1>2, <2>3, SendTyped
  <2>5. len \in Nat
    BY <1>2
  <2>6. /\ r \in ConnType /\ r.state = h.state
        /\ r.retransmit_queue # <<>> \/ r.retransmit_queue = h.retransmit_queue
    BY <1>2, <2>2, <2>4, <2>5, SendTyped
  <2>7. o.conn = r
    BY <2>1 DEF Outcome
  <2> QED BY <1>1, <1>2, <1>3, <2>4, <2>6, <2>7
<1> HIDE DEF notFound, noBuffer, full
<1> QED
  BY <1>4, <1>5, <1>6, <1>7

(* The block after the rest of handle_established_state. *)
LEMMA FinishTyped ==
  ASSUME NEW c \in ConnType, c.state = "TCP_ESTABLISHED", NEW s \in SegmentType, NEW ok,
         NEW o \in IF s.data = "GET" THEN handle_http_request(c) ELSE {Outcome(c, FALSE)}
  PROVE  LET d == Closed(o.conn, s, ok)
         IN /\ d \in ConnType
            /\ o.timer => d.state \in MayHaveTimer
            /\ Malloc = {TRUE} /\ d.state = "TCP_WAIT_FOR_ACK" => d.retransmit_queue # <<>>
<1> DEFINE d == Closed(o.conn, s, ok)
           x == tcp_send_segment(o.conn, {"FIN", "ACK"}, 0, ok)
<1>1. /\ o.conn \in ConnType
      /\ o.timer => o.conn.state = "TCP_WAIT_FOR_ACK"
      /\ Malloc = {TRUE} /\ o.conn.state = "TCP_WAIT_FOR_ACK" => o.conn.retransmit_queue # <<>>
  <2>1. CASE s.data = "GET"
    BY <2>1, RequestTyped
  <2>2. CASE s.data # "GET"
    <3>1. o = Outcome(c, FALSE)
      BY <2>2
    <3>2. o.conn = c /\ o.timer = FALSE
      BY <3>1 DEF Outcome
    <3> QED BY <3>2
  <2> QED BY <2>1, <2>2
<1>2. {"FIN", "ACK"} \in SUBSET SentFlags /\ 0 \in Nat
  BY DEF SentFlags
<1>3. x \in ConnType
  BY <1>1, <1>2, SendTyped
<1>4. CASE "FIN" \in s.flags
  <2>1. d = [x EXCEPT !.state = "TCP_LAST_ACK"]
    BY <1>4 DEF Closed
  <2> HIDE DEF x, d
  <2>2. d \in ConnType /\ d.state = "TCP_LAST_ACK"
    BY <1>3, <2>1 DEF ConnType, States
  <2>3. d.state \in MayHaveTimer /\ d.state # "TCP_WAIT_FOR_ACK"
    BY <2>2 DEF MayHaveTimer, States
  <2> QED BY <2>2, <2>3 DEF d
<1>5. CASE "FIN" \notin s.flags
  <2>1. d = o.conn
    BY <1>5 DEF Closed
  <2>2. "TCP_WAIT_FOR_ACK" \in MayHaveTimer
    BY DEF MayHaveTimer, States
  <2> HIDE DEF d
  <2> QED BY <1>1, <2>1, <2>2 DEF d
<1> QED
  BY <1>4, <1>5

(* The end of handle_established_state. *)
LEMMA FinishKeeps ==
  ASSUME TCPInv, FinishEstablished
  PROVE  TCPInv'
<1> DEFINE T == active_timers
           p == walk.peer
           s == walk.seg
<1>1. /\ conn \in [Peers -> ConnType \cup {None}] /\ Typed
      /\ T \in Seq(TimerType) /\ OnePerConn(T) /\ TimersOf(conn, T)
  BY DEF TCPInv, Typed
<1>2. walk # Idle /\ walk' = Idle /\ UNCHANGED <<ticks, halted>>
  BY DEF FinishEstablished
<1>3. p \in Peers /\ s \in SegmentType /\ conn[p].state = "TCP_ESTABLISHED"
  BY <1>1, <1>2 DEF Typed, WalkType, TCPInv, WalkInv
<1>4. conn[p] \in ConnType
  BY <1>1, <1>3, ConnCases DEF States
<1>5. PICK ok1 \in Malloc, ok2 \in Malloc :
        LET c == Acknowledged(conn[p], s, ok1)
        IN \E o \in IF s.data = "GET" THEN handle_http_request(c) ELSE {Outcome(c, FALSE)} :
             /\ conn' = [conn EXCEPT ![p] = Closed(o.conn, s, ok2)]
             /\ active_timers' = start_retransmission_timer(T, p, o.timer)
  BY DEF FinishEstablished
<1> DEFINE c == Acknowledged(conn[p], s, ok1)
<1>6. c \in ConnType /\ c.state = "TCP_ESTABLISHED"
  BY <1>3, <1>4, AcknowledgedTyped
<1>7. PICK o \in IF s.data = "GET" THEN handle_http_request(c) ELSE {Outcome(c, FALSE)} :
        /\ conn' = [conn EXCEPT ![p] = Closed(o.conn, s, ok2)]
        /\ active_timers' = start_retransmission_timer(T, p, o.timer)
  BY <1>5
<1> DEFINE d == Closed(o.conn, s, ok2)
           R == start_retransmission_timer(T, p, o.timer)
<1>8. d \in ConnType /\ (o.timer => d.state \in MayHaveTimer)
  <2> HIDE DEF c, s
  <2> QED BY <1>3, <1>6, FinishTyped
<1>9. \A k \in 1 .. Len(T) : T[k].conn # p
  BY <1>3, EstablishedHasNone DEF MayHaveTimer
<1>10. /\ R \in Seq(TimerType) /\ OnePerConn(R)
       /\ \A k \in 1 .. Len(R) : (o.timer /\ R[k].conn = p) \/ \E m \in 1 .. Len(T) : R[k] = T[m]
  BY <1>1, <1>3, <1>9, StartGood
<1> HIDE DEF R, d
<1>11. \A k \in 1 .. Len(R) :
         \/ R[k].conn = p /\ d.state \in MayHaveTimer
         \/ R[k].conn # p /\ \E m \in 1 .. Len(T) : R[k].conn = T[m].conn
  BY <1>8, <1>9, <1>10
<1>12. TimersOf([conn EXCEPT ![p] = d], R)
  BY <1>1, <1>3, <1>10, <1>11, TimersOfUpdate
<1>13. conn' = [conn EXCEPT ![p] = d] /\ active_timers' = R
  BY <1>7 DEF d, R
<1>14. Typed'
  BY <1>1, <1>2, <1>8, <1>10, <1>13 DEF Typed
<1>15. WalkInv'
  BY <1>2 DEF WalkInv
<1> QED
  BY <1>10, <1>12, <1>13, <1>14, <1>15 DEF TCPInv

(* A timeout passes. *)
LEMMA TickKeeps ==
  ASSUME TCPInv, Tick
  PROVE  TCPInv'
<1> DEFINE T == active_timers
<1>1. T \in Seq(TimerType) /\ Typed
  BY DEF TCPInv, Typed
<1>2. /\ active_timers' = [i \in DOMAIN T |-> [T[i] EXCEPT !.expired = TRUE]]
      /\ ticks' = ticks + 1 /\ ticks < MaxTicks /\ UNCHANGED <<conn, walk, halted>>
  BY DEF Tick
<1>3. DOMAIN T = 1 .. Len(T) /\ Len(T) \in Nat
  BY <1>1
<1>4. ASSUME NEW x \in TimerType
      PROVE  LET y == [x EXCEPT !.expired = TRUE] IN y \in TimerType /\ y.conn = x.conn
  BY DEF TimerType
<1>5. \A i \in 1 .. Len(T) : /\ [T[i] EXCEPT !.expired = TRUE] \in TimerType
                             /\ [T[i] EXCEPT !.expired = TRUE].conn = T[i].conn
  BY <1>1, <1>4
<1> DEFINE R == [i \in 1 .. Len(T) |-> [T[i] EXCEPT !.expired = TRUE]]
<1>6. R \in Seq(TimerType) /\ Len(R) = Len(T)
  BY <1>3, <1>5, IsASeq
<1>7. \A i \in 1 .. Len(T) : R[i].conn = T[i].conn
  BY <1>5
<1>8. active_timers' = R
  BY <1>2, <1>3
<1> HIDE DEF R
<1>9. ticks' \in 0 .. MaxTicks
  BY <1>1, <1>2, TCPAssumption DEF Typed
<1>10. Typed'
  BY <1>1, <1>2, <1>6, <1>8, <1>9 DEF Typed
<1>11. OnePerConn(active_timers')
  BY <1>6, <1>7, <1>8 DEF TCPInv, OnePerConn
<1>12. TimersOf(conn', active_timers')
  BY <1>2, <1>6, <1>7, <1>8 DEF TCPInv, TimersOf
<1>13. WalkInv'
  BY <1>2 DEF TCPInv, WalkInv
<1> QED
  BY <1>10, <1>11, <1>12, <1>13 DEF TCPInv

(* What a step does to the connections and the timers. *)
LEMMA NextSteps ==
  ASSUME Next
  PROVE  \/ \E p \in Peers : \E s \in SegmentsOf(p) : Receive(p, s)
         \/ \E p \in Peers : PeerCloses(p)
         \/ check_tcp_timers \/ FinishEstablished \/ ShellWalk \/ Tick \/ UNCHANGED tcpVars
BY DEF Next, HandlerGoesOn, Lose

(* The invariant is inductive. *)
LEMMA TCPInductive == TCPInv /\ [Next]_vars => TCPInv'
<1> SUFFICES ASSUME TCPInv, [Next]_vars PROVE TCPInv'
  OBVIOUS
<1>1. ASSUME NEW p \in Peers, NEW s \in SegmentsOf(p), Receive(p, s) PROVE TCPInv'
  BY <1>1, SegmentTyped, ReceiveKeeps
<1>2. ASSUME NEW p \in Peers, PeerCloses(p) PROVE TCPInv'
  <2> DEFINE s == [flags |-> {"FIN", "ACK"}, data |-> "none", ack |-> conn[p].next_seq]
  <2>1. Exists(p) /\ Receive(p, s)
    BY <1>2 DEF PeerCloses
  <2>2. conn[p] \in ConnType
    BY <2>1, ConnCases DEF TCPInv
  <2>3. s \in SegmentType
    BY <2>2 DEF SegmentType, ConnType, Flags
  <2> HIDE DEF s
  <2> QED BY <2>1, <2>3, ReceiveKeeps
<1>3. CASE UNCHANGED tcpVars
  BY <1>3 DEF tcpVars, TCPInv, Typed, WalkInv
<1>4. Next => \/ \E p \in Peers : \E s \in SegmentsOf(p) : Receive(p, s)
              \/ \E p \in Peers : PeerCloses(p)
              \/ check_tcp_timers \/ FinishEstablished \/ ShellWalk \/ Tick \/ UNCHANGED tcpVars
  BY NextSteps
<1> QED
  BY <1>1, <1>2, <1>3, <1>4, TimerWalkKeeps, ShellWalkKeeps, FinishKeeps, TickKeeps DEF vars, tcpVars

(* The invariant holds when eth_init has opened the port. *)
LEMMA TCPInitial == Init => TCPInv
<1> SUFFICES ASSUME Init PROVE TCPInv
  OBVIOUS
<1>1. <<>> \in Seq(TimerType) /\ Len(<<>>) = 0
  OBVIOUS
<1>2. Typed
  <2>1. conn \in [Peers -> ConnType \cup {None}]
    BY DEF Init
  <2>2. ticks \in 0 .. MaxTicks
    BY TCPAssumption DEF Init
  <2>3. walk \in WalkType \cup {Idle} /\ halted \in BOOLEAN /\ active_timers \in Seq(TimerType)
    BY <1>1 DEF Init
  <2> QED BY <2>1, <2>2, <2>3 DEF Typed
<1>3. OnePerConn(active_timers) /\ TimersOf(conn, active_timers)
  BY <1>1 DEF Init, OnePerConn, TimersOf
<1> QED
  BY <1>2, <1>3 DEF Init, TCPInv, WalkInv

-----------------------------------------------------------------------------
(* The theorems *)

(* Timers belong to connections that exist, one to each at most: no timer  *)
(* is left behind by remove_connection, which cancels a single one, by the *)
(* handlers' walks of the list or the shell's, until one of these goes on  *)
(* with what a handler has changed under it or past the end of the list.   *)
THEOREM TimersStayLive == Spec => []TimersAreLive
<1>1. TCPInv => TimersAreLive
  <2> SUFFICES ASSUME TCPInv PROVE TimersAreLive
    OBVIOUS
  <2>1. Typed /\ DOMAIN active_timers = 1 .. Len(active_timers)
    BY DEF TCPInv, Typed
  <2>2. ASSUME NEW p \in Peers, Exists(p)
        PROVE  /\ conn[p].state \in States
               /\ conn[p].next_seq \in 0 .. (SeqMod - 1)
               /\ \A i \in DOMAIN conn[p].retransmit_queue : conn[p].retransmit_queue[i] \in Entries
    <3>1. conn[p] \in ConnType
      BY <2>1, <2>2, ConnCases
    <3>2. /\ conn[p].state \in States /\ conn[p].next_seq \in 0 .. (SeqMod - 1)
          /\ conn[p].retransmit_queue \in Seq(Entries)
      BY <3>1 DEF ConnType
    <3> QED BY <3>2
  <2>3. active_timers \in Seq([conn : Peers, retries : 0 .. MAX_SYN_RETRIES, expired : BOOLEAN])
    BY <2>1 DEF Typed, TimerType
  <2>4. walk # Idle => walk.peer \in Peers /\ walk.seg.ack \in 0 .. (SeqMod - 1)
    BY <2>1 DEF Typed, WalkType, SegmentType
  <2>5. TypeOK
    BY <2>1, <2>2, <2>3, <2>4 DEF TypeOK, Typed
  <2>6. ASSUME NEW i \in DOMAIN active_timers PROVE Exists(active_timers[i].conn)
    <3>0. active_timers[i] \in TimerType
      BY <2>1 DEF Typed
    <3>1. active_timers[i].conn \in Peers
      BY <3>0 DEF TimerType
    <3>2. conn[active_timers[i].conn].state # "TCP_CLOSED"
      BY <2>1 DEF TCPInv, TimersOf, MayHaveTimer, States
    <3> QED BY <2>1, <3>1, <3>2, ConnCases
  <2> QED
    BY <2>1, <2>5, <2>6 DEF TimersAreLive, TCPInv, OnePerConn
<1> QED
  BY <1>1, TCPInitial, TCPInductive, PTL DEF Spec

(* The connection whose segment is handled is still there, established and *)
(* without a timer, whichever connections check_tcp_timers has dropped.    *)
THEOREM WalkIsSurvived == Spec => []SurvivesItsOwnTimerWalk
<1>1. TCPInv => SurvivesItsOwnTimerWalk
  <2> SUFFICES ASSUME TCPInv, walk # Idle
               PROVE  /\ Exists(walk.peer) /\ conn[walk.peer].state = "TCP_ESTABLISHED"
                      /\ ~HasTimer(walk.peer)
    BY DEF SurvivesItsOwnTimerWalk
  <2>1. walk.peer \in Peers /\ conn[walk.peer].state = "TCP_ESTABLISHED"
    BY DEF TCPInv, Typed, WalkType, WalkInv
  <2>2. Exists(walk.peer)
    BY <2>1, ConnCases DEF TCPInv
  <2>3. \A k \in 1 .. Len(active_timers) : active_timers[k].conn # walk.peer
    BY <2>1, EstablishedHasNone DEF MayHaveTimer
  <2>4. DOMAIN active_timers = 1 .. Len(active_timers)
    BY DEF TCPInv, Typed
  <2> QED BY <2>1, <2>2, <2>3, <2>4 DEF HasTimer
<1> QED
  BY <1>1, TCPInitial, TCPInductive, PTL DEF Spec

-----------------------------------------------------------------------------
(* With memory, a connection that waits has something to wait for *)

(* A block that is changed to d. *)
LEMMA WaitingUpdate ==
  ASSUME TCPInv, WaitsForSomething, NEW p \in Peers, NEW d,
         conn' = [conn EXCEPT ![p] = d],
         d.state = "TCP_WAIT_FOR_ACK" => d.retransmit_queue # <<>>
  PROVE  WaitsForSomething'
<1> SUFFICES ASSUME NEW r \in Peers, conn'[r].state = "TCP_WAIT_FOR_ACK"
             PROVE  conn'[r].retransmit_queue # <<>>
  BY DEF WaitsForSomething
<1>1. conn \in [Peers -> ConnType \cup {None}]
  BY DEF TCPInv, Typed
<1>2. CASE r = p
  BY <1>1, <1>2
<1>3. CASE r # p
  BY <1>1, <1>3 DEF WaitsForSomething
<1> QED
  BY <1>2, <1>3

(* A segment of a peer.  An acknowledgement that takes the last entry off  *)
(* the queue ends the connection.                                          *)
LEMMA WaitingReceive ==
  ASSUME TCPInv, WaitsForSomething, NEW p \in Peers, NEW s \in SegmentType, Receive(p, s)
  PROVE  WaitsForSomething'
<1>0. conn \in [Peers -> ConnType \cup {None}] /\ Typed
  BY DEF TCPInv, Typed
<1>1. ASSUME UNCHANGED conn PROVE WaitsForSomething'
  BY <1>1 DEF WaitsForSomething
<1>2. ASSUME remove_connection(p) PROVE WaitsForSomething'
  <2>1. None.state # "TCP_WAIT_FOR_ACK"
    BY DEF None
  <2>2. conn' = [conn EXCEPT ![p] = None]
    BY <1>2 DEF remove_connection
  <2> QED BY <2>1, <2>2, WaitingUpdate
<1>3. CASE ReceiveReset(p, s) \/ ReceiveLastAck(p, s)
  BY <1>1, <1>2, <1>3 DEF ReceiveReset, ReceiveLastAck, handle_last_ack_state
<1>4. CASE ReceiveUnknown(p, s) \/ ReceiveEstablished(p, s)
  BY <1>1, <1>4 DEF ReceiveUnknown, tcp_send_reset, tcpVars, ReceiveEstablished
<1>5. CASE ReceiveSyn(p, s)
  <2>1. ASSUME NEW iss \in InitialSeqs, NEW ok \in Malloc,
               conn' = [conn EXCEPT ![p] = tcp_send_segment(
                 [state |-> "TCP_SYN_RECEIVED", next_seq |-> iss, last_ack |-> 0,
                  dup_ack_count |-> 0, retransmit_queue |-> <<>>, acked |-> 0],
                 {"SYN", "ACK"}, 0, ok)]
        PROVE  WaitsForSomething'
    <3> DEFINE c == [state |-> "TCP_SYN_RECEIVED", next_seq |-> iss, last_ack |-> 0,
                     dup_ack_count |-> 0, retransmit_queue |-> <<>>, acked |-> 0]
               d == tcp_send_segment(c, {"SYN", "ACK"}, 0, ok)
    <3>1. iss \in 0 .. (SeqMod - 1) /\ <<>> \in Seq(Entries) /\ "TCP_SYN_RECEIVED" \in States
      BY TCPAssumption DEF States
    <3>2. c \in ConnType /\ c.state = "TCP_SYN_RECEIVED"
      BY <3>1 DEF ConnType
    <3>3. {"SYN", "ACK"} \in SUBSET SentFlags /\ 0 \in Nat
      BY DEF SentFlags
    <3>4. d.state = "TCP_SYN_RECEIVED"
      <4> HIDE DEF c
      <4> QED BY <3>2, <3>3, SendTyped
    <3>5. conn' = [conn EXCEPT ![p] = d]
      BY <2>1
    <3> HIDE DEF d
    <3> QED BY <3>4, <3>5, WaitingUpdate
  <2> QED BY <1>1, <1>5, <2>1 DEF ReceiveSyn
<1>6. CASE ReceiveSynReceived(p, s)
  <2> DEFINE d == [conn[p] EXCEPT !.state = "TCP_ESTABLISHED"]
  <2>1. conn[p] \in ConnType
    BY <1>0, <1>6, ConnCases DEF ReceiveSynReceived, States
  <2>2. CASE conn' = [conn EXCEPT ![p].state = "TCP_ESTABLISHED"]
    <3>1. conn' = [conn EXCEPT ![p] = d] /\ d.state = "TCP_ESTABLISHED"
      BY <1>0, <2>1, <2>2 DEF ConnType
    <3> HIDE DEF d
    <3> QED BY <3>1, WaitingUpdate
  <2> QED BY <1>1, <1>6, <2>2 DEF ReceiveSynReceived
<1>7. CASE ReceiveWaitForAck(p, s)
  <2> DEFINE c == conn[p]
             q == c.retransmit_queue
             seen == IF s.ack > c.acked THEN s.ack ELSE c.acked
  <2>1. c \in ConnType
    BY <1>0, <1>7, ConnCases DEF ReceiveWaitForAck, States
  <2>2. q \in Seq(Entries) /\ Len(q) \in Nat
    BY <2>1 DEF ConnType
  <2>3. PICK ok \in Malloc : handle_wait_for_ack_state(p, s, ok)
    BY <1>7 DEF ReceiveWaitForAck
  <2>4. CASE /\ q # <<>> /\ Len(q) # 1
             /\ conn' = [conn EXCEPT ![p].retransmit_queue = Tail(@), ![p].acked = seen]
    <3> DEFINE d == [c EXCEPT !.retransmit_queue = Tail(q), !.acked = seen]
    <3>1. conn' = [conn EXCEPT ![p] = d] /\ d.retransmit_queue = Tail(q)
      BY <1>0, <2>1, <2>4 DEF ConnType
    <3>2. Tail(q) # <<>>
      <4>1. Len(q) # 0
        BY <2>2, <2>4
      <4>2. Len(Tail(q)) = Len(q) - 1
        BY <2>2, <2>4, HeadTailProperties
      <4>3. Len(Tail(q)) # 0 /\ Len(<<>>) = 0
        BY <2>2, <2>4, <4>1, <4>2
      <4> HIDE DEF q
      <4> QED BY <4>3
    <3> HIDE DEF d
    <3> QED BY <3>1, <3>2, WaitingUpdate
  <2>5. CASE /\ q # <<>>
             /\ conn' = [conn EXCEPT ![p].last_ack = s.ack, ![p].acked = seen,
                                      ![p].retransmit_queue[1].retries = 0]
    <3> DEFINE r == [q EXCEPT ![1].retries = 0]
               d == [c EXCEPT !.last_ack = s.ack, !.acked = seen, !.retransmit_queue = r]
    <3>1. conn' = [conn EXCEPT ![p] = d] /\ d.retransmit_queue = r
      BY <1>0, <2>1, <2>5 DEF ConnType
    <3>2. 1 \in DOMAIN q /\ DOMAIN r = DOMAIN q
      BY <2>2, <2>5
    <3>3. r # <<>>
      BY <3>2
    <3> HIDE DEF d, r
    <3> QED BY <3>1, <3>3, WaitingUpdate
  <2>6. CASE /\ q # <<>>
             /\ conn' = [conn EXCEPT ![p] =
                  [tcp_send_segment(c, Head(q).flags, Head(q).length, ok) EXCEPT !.dup_ack_count = 0]]
    <3> DEFINE x == tcp_send_segment(c, Head(q).flags, Head(q).length, ok)
               d == [x EXCEPT !.dup_ack_count = 0]
    <3>1. Head(q) \in Entries
      BY <2>2, <2>6, HeadTailProperties
    <3>2. Head(q).flags \in SUBSET SentFlags /\ Head(q).length \in Nat
      BY <3>1 DEF Entries, SentFlags
    <3>3. x \in ConnType /\ (x.retransmit_queue # <<>> \/ x.retransmit_queue = q)
      BY <2>1, <3>2, SendTyped
    <3> HIDE DEF x
    <3>4. d.retransmit_queue = x.retransmit_queue
      BY <3>3 DEF ConnType
    <3>5. conn' = [conn EXCEPT ![p] = d]
      BY <2>6 DEF x
    <3> HIDE DEF d
    <3> QED BY <2>6, <3>3, <3>4, <3>5, WaitingUpdate
  <2>7. CASE /\ q # <<>>
             /\ conn' = [conn EXCEPT ![p] = [c EXCEPT !.dup_ack_count = @ + 1]]
    <3> DEFINE d == [c EXCEPT !.dup_ack_count = @ + 1]
    <3>1. d.retransmit_queue = q
      BY <2>1 DEF ConnType
    <3>2. conn' = [conn EXCEPT ![p] = d]
      BY <2>7
    <3> HIDE DEF d
    <3> QED BY <2>7, <3>1, <3>2, WaitingUpdate
  <2> QED
    BY <1>1, <1>2, <2>3, <2>4, <2>5, <2>6, <2>7 DEF handle_wait_for_ack_state
<1> QED
  BY <1>3, <1>4, <1>5, <1>6, <1>7 DEF Receive

(* check_tcp_timers: what is sent again does not make the queue shorter. *)
LEMMA WaitingTimers ==
  ASSUME TCPInv, WaitsForSomething, check_tcp_timers \/ ShellWalk
  PROVE  WaitsForSomething'
<1>u. CASE UNCHANGED conn
  BY <1>u DEF WaitsForSomething
<1> SUFFICES ASSUME Visit PROVE WaitsForSomething'
  BY <1>u, WalksVisit
<1>0. PICK i \in 1 .. Len(active_timers) :
        ResendDataOf(i) \/ ResendControlOf(i) \/ DropConnectionOf(i)
  BY DEF Visit
<1> DEFINE p == active_timers[i].conn
           c == conn[p]
           q == c.retransmit_queue
<1>1. p \in Peers /\ c \in ConnType
  BY VisitFacts
<1>2. q \in Seq(Entries) /\ conn \in [Peers -> ConnType \cup {None}]
  BY <1>1 DEF ConnType, TCPInv, Typed
<1>4. CASE ResendDataOf(i)
  <2>1. q # <<>>
    BY <1>4 DEF ResendDataOf
  <2>2. PICK ok \in Malloc :
          LET sent == tcp_send_segment(c, {"ACK"}, Head(q).length, ok)
              old  == Len(sent.retransmit_queue) - Len(c.retransmit_queue) + 1
          IN conn' = [conn EXCEPT ![p] = [sent EXCEPT !.retransmit_queue[old].retries = @ + 1]]
    BY <1>4 DEF ResendDataOf
  <2> DEFINE sent == tcp_send_segment(c, {"ACK"}, Head(q).length, ok)
             r == sent.retransmit_queue
             old == Len(r) - Len(q) + 1
             rr == [r EXCEPT ![old].retries = @ + 1]
             d == [sent EXCEPT !.retransmit_queue = rr]
  <2>3. Head(q) \in Entries
    BY <1>2, <2>1, HeadTailProperties
  <2>4. Head(q).length \in Nat /\ {"ACK"} \in SUBSET SentFlags
    BY <2>3 DEF Entries, SentFlags
  <2>5. sent \in ConnType /\ (r # <<>> \/ r = q)
    BY <1>1, <2>4, SendTyped
  <2>6. r \in Seq(Entries) /\ r # <<>>
    BY <2>1, <2>5 DEF ConnType
  <2>7. d.retransmit_queue = rr /\ conn' = [conn EXCEPT ![p] = d]
    <3>1. conn' = [conn EXCEPT ![p] = d]
      BY <2>2
    <3> HIDE DEF rr, sent
    <3>2. d.retransmit_queue = rr
      BY <2>5 DEF ConnType
    <3> QED BY <3>1, <3>2
  <2>8. rr # <<>>
    <3> HIDE DEF r, old
    <3>1. DOMAIN rr = DOMAIN r /\ 1 \in DOMAIN r
      BY <2>6
    <3> QED BY <3>1
  <2> HIDE DEF d, rr
  <2> QED BY <1>1, <2>7, <2>8, WaitingUpdate
<1>5. CASE ResendControlOf(i)
  <2>1. PICK ok \in Malloc : conn' = [conn EXCEPT ![p] = tcp_send_segment(@, {"FIN"}, 0, ok)]
    BY <1>5 DEF ResendControlOf
  <2> DEFINE d == tcp_send_segment(c, {"FIN"}, 0, ok)
  <2>2. {"FIN"} \in SUBSET SentFlags /\ 0 \in Nat
    BY DEF SentFlags
  <2>3. d.state = c.state /\ (d.retransmit_queue # <<>> \/ d.retransmit_queue = q)
    BY <1>1, <2>2, SendTyped
  <2>4. conn' = [conn EXCEPT ![p] = d]
    BY <1>1, <1>2, <2>1
  <2>5. c.state = "TCP_WAIT_FOR_ACK" => q # <<>>
    BY <1>1 DEF WaitsForSomething
  <2> HIDE DEF d
  <2> QED BY <1>1, <2>3, <2>4, <2>5, WaitingUpdate
<1>6. CASE DropConnectionOf(i)
  <2>1. None.state # "TCP_WAIT_FOR_ACK" /\ conn' = [conn EXCEPT ![p] = None]
    BY <1>6 DEF None, DropConnectionOf
  <2> QED BY <1>1, <2>1, WaitingUpdate
<1> QED
  BY <1>0, <1>4, <1>5, <1>6

(* The end of handle_established_state: a response was queued. *)
LEMMA WaitingFinish ==
  ASSUME Malloc = {TRUE}, TCPInv, WaitsForSomething, FinishEstablished
  PROVE  WaitsForSomething'
<1> DEFINE p == walk.peer
           s == walk.seg
<1>1. p \in Peers /\ s \in SegmentType /\ conn[p].state = "TCP_ESTABLISHED"
  BY DEF FinishEstablished, Typed, WalkType, TCPInv, WalkInv
<1>2. conn[p] \in ConnType
  BY <1>1, ConnCases DEF States, TCPInv
<1>3. PICK ok1 \in Malloc, ok2 \in Malloc :
        LET c == Acknowledged(conn[p], s, ok1)
        IN \E o \in IF s.data = "GET" THEN handle_http_request(c) ELSE {Outcome(c, FALSE)} :
             conn' = [conn EXCEPT ![p] = Closed(o.conn, s, ok2)]
  BY DEF FinishEstablished
<1> DEFINE c == Acknowledged(conn[p], s, ok1)
<1>4. c \in ConnType /\ c.state = "TCP_ESTABLISHED"
  BY <1>1, <1>2, AcknowledgedTyped
<1>5. PICK o \in IF s.data = "GET" THEN handle_http_request(c) ELSE {Outcome(c, FALSE)} :
        conn' = [conn EXCEPT ![p] = Closed(o.conn, s, ok2)]
  BY <1>3
<1> DEFINE d == Closed(o.conn, s, ok2)
<1>6. d.state = "TCP_WAIT_FOR_ACK" => d.retransmit_queue # <<>>
  <2> HIDE DEF c, s
  <2> QED BY <1>1, <1>4, FinishTyped
<1> HIDE DEF d
<1>7. conn' = [conn EXCEPT ![p] = d]
  BY <1>5 DEF d
<1> QED
  BY <1>1, <1>6, <1>7, WaitingUpdate

(* As long as malloc succeeds, a connection that waits for an              *)
(* acknowledgement has a segment in its queue that one can be about, so    *)
(* that handle_wait_for_ack_state can end it.                              *)
THEOREM WaitingIsForSomething ==
  ASSUME Malloc = {TRUE}
  PROVE  Spec => []WaitsForSomething
<1>1. Init => WaitsForSomething
  BY DEF Init, WaitsForSomething, None
<1>2. TCPInv /\ WaitsForSomething /\ [Next]_vars => WaitsForSomething'
  <2> SUFFICES ASSUME TCPInv, WaitsForSomething, [Next]_vars PROVE WaitsForSomething'
    OBVIOUS
  <2>1. ASSUME NEW p \in Peers, NEW s \in SegmentsOf(p), Receive(p, s) PROVE WaitsForSomething'
    BY <2>1, SegmentTyped, WaitingReceive
  <2>2. ASSUME NEW p \in Peers, PeerCloses(p) PROVE WaitsForSomething'
    <3> DEFINE s == [flags |-> {"FIN", "ACK"}, data |-> "none", ack |-> conn[p].next_seq]
    <3>1. Exists(p) /\ Receive(p, s)
      BY <2>2 DEF PeerCloses
    <3>2. conn[p] \in ConnType
      BY <3>1, ConnCases DEF TCPInv
    <3>3. s \in SegmentType
      BY <3>2 DEF SegmentType, ConnType, Flags
    <3> HIDE DEF s
    <3> QED BY <3>1, <3>3, WaitingReceive
  <2>3. CASE Tick \/ UNCHANGED tcpVars
    BY <2>3 DEF Tick, tcpVars, WaitsForSomething
  <2> QED
    BY <2>1, <2>2, <2>3, NextSteps, WaitingTimers, WaitingFinish DEF vars, tcpVars
<1> QED
  BY <1>1, <1>2, TCPInitial, TCPInductive, PTL DEF Spec

-----------------------------------------------------------------------------
(* With memory, a response is given up only when it is acknowledged *)

(* malloc never returns NULL. *)
MallocSucceeds == Malloc = {TRUE}

(* The sequence number that follows a segment in the queue. *)
EndOf(e) == (e.seq + e.length + (IF e.flags \cap {"SYN", "FIN"} # {} THEN 1 ELSE 0)) % SeqMod

(* Everything has been acknowledged, or the newest entry of the queue is   *)
(* about the last of it.                                                   *)
Accounted(c) ==
  \/ c.acked >= c.next_seq
  \/ /\ c.retransmit_queue # <<>>
     /\ EndOf(Head(c.retransmit_queue)) >= c.next_seq

(* This holds of every connection that waits for an acknowledgement. *)
AllAccounted ==
  \A p \in Peers : conn[p].state = "TCP_WAIT_FOR_ACK" => Accounted(conn[p])

(* A change of other fields does not matter. *)
LEMMA AccountedSame ==
  ASSUME NEW c, NEW d, Accounted(c), d.acked = c.acked, d.next_seq = c.next_seq,
         d.retransmit_queue = c.retransmit_queue
  PROVE  Accounted(d)
BY DEF Accounted

(* SendTyped for a malloc that succeeds. *)
LEMMA SendSucceeds ==
  ASSUME NEW c \in ConnType, NEW flags \in SUBSET SentFlags, NEW len \in Nat
  PROVE  LET d == tcp_send_segment(c, flags, len, TRUE)
         IN /\ d \in ConnType
            /\ d.state = c.state
            /\ d.retransmit_queue # <<>> \/ d.retransmit_queue = c.retransmit_queue
<1> DEFINE ok == TRUE
           d == tcp_send_segment(c, flags, len, ok)
<1> HIDE DEF ok
<1>1. /\ d \in ConnType
      /\ d.state = c.state
      /\ d.retransmit_queue # <<>> \/ d.retransmit_queue = c.retransmit_queue
  BY SendTyped
<1> QED BY <1>1 DEF ok

(* A segment is queued with the number at which it ends. *)
LEMMA SendAccounted ==
  ASSUME NEW c \in ConnType, NEW flags \in SUBSET SentFlags, NEW len \in Nat
  PROVE  LET d == tcp_send_segment(c, flags, len, TRUE)
         IN (len > 0 \/ Accounted(c)) => Accounted(d)
<1> DEFINE control == flags \cap {"SYN", "FIN"} # {}
           entry == [seq |-> c.next_seq, length |-> len, flags |-> flags, retries |-> 0]
           q == c.retransmit_queue
           d == tcp_send_segment(c, flags, len, TRUE)
           more == len + (IF control THEN 1 ELSE 0)
           next == (c.next_seq + len + (IF control THEN 1 ELSE 0)) % SeqMod
           queue == IF control \/ len > 0 THEN <<entry>> \o q ELSE q
<1>1. c.next_seq \in 0 .. (SeqMod - 1) /\ q \in Seq(Entries) /\ SeqMod \in Nat \ {0}
  BY TCPAssumption DEF ConnType
<1>2. d = [c EXCEPT !.next_seq = next, !.retransmit_queue = queue]
  BY DEF tcp_send_segment
<1>3. EndOf(entry) = next
  BY DEF EndOf
<1>4. next \in Nat
  <2> DEFINE x == c.next_seq + len + (IF control THEN 1 ELSE 0)
  <2>1. x \in Nat
    <3> HIDE DEF control
    <3> QED BY <1>1
  <2> HIDE DEF x
  <2>2. x % SeqMod \in Nat
    BY <2>1, <1>1
  <2> QED BY <2>2 DEF x
<1>5. ~control /\ ~(len > 0) => next = c.next_seq
  <2> SUFFICES ASSUME ~control, ~(len > 0) PROVE next = c.next_seq
    OBVIOUS
  <2>1. c.next_seq + len + (IF control THEN 1 ELSE 0) = c.next_seq
    BY <1>1
  <2>2. \A x \in 0 .. (SeqMod - 1) : x % SeqMod = x
    BY <1>1
  <2> QED BY <1>1, <2>1, <2>2
<1>6. entry \in Entries
  BY <1>1, TCPAssumption DEF Entries, SentFlags
<1>7. <<entry>> \o q # <<>> /\ Head(<<entry>> \o q) = entry
  <2> HIDE DEF entry, q
  <2>1. <<entry>> \in Seq(Entries) /\ <<entry>> \o q \in Seq(Entries)
        /\ Len(<<entry>> \o q) = 1 + Len(q) /\ (<<entry>> \o q)[1] = entry
    BY <1>1, <1>6
  <2>2. Len(q) \in Nat
    BY <1>1
  <2> QED BY <2>1, <2>2
<1> HIDE DEF next, d, entry
<1>8. CASE control \/ len > 0
  <2>1. d.next_seq = next /\ d.retransmit_queue = <<entry>> \o q
    BY <1>2, <1>8 DEF ConnType
  <2>2. d.retransmit_queue # <<>> /\ Head(d.retransmit_queue) = entry
    BY <2>1, <1>7
  <2>3. EndOf(Head(d.retransmit_queue)) >= d.next_seq
    BY <2>1, <2>2, <1>3, <1>4
  <2>4. Accounted(d)
    BY <2>2, <2>3 DEF Accounted
  <2> QED BY <2>4 DEF d
<1>9. CASE ~control /\ ~(len > 0)
  <2>1. d.next_seq = c.next_seq /\ d.retransmit_queue = q /\ d.acked = c.acked
    BY <1>2, <1>5, <1>9 DEF ConnType
  <2> HIDE DEF control
  <2>2. Accounted(c) => Accounted(d)
    BY <2>1, AccountedSame
  <2> QED BY <2>2, <1>9 DEF d
<1> QED BY <1>8, <1>9

(* The retries of an entry do not matter. *)
LEMMA RetriesAccounted ==
  ASSUME NEW q \in Seq(Entries), q # <<>>, NEW k, NEW x
  PROVE  LET r == [q EXCEPT ![k].retries = x]
         IN r # <<>> /\ EndOf(Head(r)) = EndOf(Head(q))
<1> DEFINE r == [q EXCEPT ![k].retries = x]
<1>0. Len(q) \in Nat /\ Len(q) # 0 /\ DOMAIN q = 1 .. Len(q)
  OBVIOUS
<1>1. 1 \in DOMAIN q /\ q[1] \in Entries /\ DOMAIN r = DOMAIN q
  <2>1. 1 \in DOMAIN q
    BY <1>0
  <2>2. DOMAIN r = DOMAIN q
    OBVIOUS
  <2>3. q[1] \in Entries
    BY <2>1
  <2> QED BY <2>1, <2>2, <2>3
<1>2. r # <<>> /\ Head(r) = r[1] /\ Head(q) = q[1]
  BY <1>1
<1>3. r[1].seq = q[1].seq /\ r[1].length = q[1].length /\ r[1].flags = q[1].flags
  <2>1. r[1] = IF k = 1 THEN [q[1] EXCEPT !.retries = x] ELSE q[1]
    BY <1>1
  <2> HIDE DEF r
  <2> QED BY <1>1, <2>1 DEF Entries
<1> HIDE DEF r
<1> QED BY <1>2, <1>3 DEF EndOf, r

(* A block that is changed to d. *)
LEMMA AccountedUpdate ==
  ASSUME TCPInv, AllAccounted, NEW p \in Peers, NEW d,
         conn' = [conn EXCEPT ![p] = d],
         d.state = "TCP_WAIT_FOR_ACK" => Accounted(d)
  PROVE  AllAccounted'
<1> SUFFICES ASSUME NEW r \in Peers, conn'[r].state = "TCP_WAIT_FOR_ACK"
             PROVE  Accounted(conn'[r])
  BY DEF AllAccounted, Accounted, EndOf
<1>1. conn \in [Peers -> ConnType \cup {None}]
  BY DEF TCPInv, Typed
<1>2. CASE r = p
  BY <1>1, <1>2
<1>3. CASE r # p
  BY <1>1, <1>3 DEF AllAccounted
<1> QED
  BY <1>2, <1>3

(* An acknowledgement to a connection that waits for one: the newest entry *)
(* leaves the queue only when it is acknowledged, and with it everything.  *)
LEMMA AccountedWaitForAck ==
  ASSUME TCPInv, AllAccounted, NEW p \in Peers, NEW s, s.ack \in 0 .. (SeqMod - 1),
         conn[p].state = "TCP_WAIT_FOR_ACK", handle_wait_for_ack_state(p, s, TRUE)
  PROVE  /\ AllAccounted'
         /\ conn'[p] = None => s.ack >= conn[p].next_seq \/ conn[p].acked >= conn[p].next_seq
<1> DEFINE c == conn[p]
           q == c.retransmit_queue
           seen == IF s.ack > c.acked THEN s.ack ELSE c.acked
           lost == s.ack >= c.next_seq \/ c.acked >= c.next_seq
<1>0. conn \in [Peers -> ConnType \cup {None}]
  BY DEF TCPInv, Typed
<1>1. c \in ConnType /\ Accounted(c)
  BY ConnCases DEF States, AllAccounted, TCPInv
<1>2. q \in Seq(Entries) /\ c.acked \in Nat /\ c.next_seq \in Nat /\ s.ack \in Nat /\ seen \in Nat
       /\ seen >= s.ack /\ seen >= c.acked
  BY <1>1, TCPAssumption DEF ConnType
<1>3. q # <<>> => EndOf(Head(q)) \in Nat
  <2> SUFFICES ASSUME q # <<>> PROVE EndOf(Head(q)) \in Nat
    OBVIOUS
  <2>1. Head(q) \in Entries
    BY <1>2, HeadTailProperties
  <2> DEFINE e == Head(q)
             x == e.seq + e.length + (IF e.flags \cap {"SYN", "FIN"} # {} THEN 1 ELSE 0)
  <2>2. e.seq \in Nat /\ e.length \in Nat
    <3>1. e \in Entries /\ SeqMod \in Nat
      BY <2>1, TCPAssumption
    <3> HIDE DEF e
    <3> QED BY <3>1 DEF Entries
  <2>3. x \in Nat
    <3> HIDE DEF e
    <3> QED BY <2>2
  <2>4. EndOf(e) = x % SeqMod
    BY DEF EndOf
  <2> HIDE DEF x
  <2>5. x % SeqMod \in Nat
    BY <2>3, TCPAssumption
  <2> QED BY <2>4, <2>5
<1>4. None.state = "TCP_CLOSED"
  BY DEF None
(* A block that stays in its state is not gone. *)
<1>5. ASSUME NEW d, conn' = [conn EXCEPT ![p] = d], d.state = "TCP_WAIT_FOR_ACK", Accounted(d)
      PROVE  AllAccounted' /\ conn'[p] # None
  <2>1. AllAccounted'
    BY <1>5, AccountedUpdate
  <2>2. conn'[p] = d
    BY <1>0, <1>5
  <2> QED BY <1>4, <1>5, <2>1, <2>2
<1>6. CASE UNCHANGED conn
  <2>1. AllAccounted'
    BY <1>6 DEF AllAccounted, Accounted, EndOf
  <2>2. conn'[p] # None
    BY <1>4, <1>6
  <2> QED BY <2>1, <2>2
<1>7. CASE q # <<>> /\ s.ack >= EndOf(Head(q))
  <2>1. s.ack >= c.next_seq \/ c.acked >= c.next_seq
    <3>1. c.acked >= c.next_seq \/ EndOf(Head(q)) >= c.next_seq
      BY <1>1 DEF Accounted
    <3> HIDE DEF c, q
    <3> QED BY <1>2, <1>3, <1>7, <3>1
  <2>2. CASE remove_connection(p)
    <3>1. None.state # "TCP_WAIT_FOR_ACK"
      BY <1>4
    <3>2. conn' = [conn EXCEPT ![p] = None]
      BY <2>2 DEF remove_connection
    <3>3. AllAccounted'
      BY <3>1, <3>2, AccountedUpdate
    <3> QED BY <2>1, <3>3
  <2>3. CASE conn' = [conn EXCEPT ![p].retransmit_queue = Tail(@), ![p].acked = seen]
    <3> DEFINE d == [c EXCEPT !.retransmit_queue = Tail(q), !.acked = seen]
    <3>1. conn' = [conn EXCEPT ![p] = d]
      BY <1>0, <1>1, <2>3 DEF ConnType
    <3>2. d.state = c.state /\ d.acked = seen /\ d.next_seq = c.next_seq
      BY <1>1 DEF ConnType
    <3>3. seen >= c.next_seq
      <4> HIDE DEF c, seen
      <4> QED BY <1>2, <2>1
    <3> HIDE DEF d, seen
    <3>4. Accounted(d)
      BY <3>2, <3>3 DEF Accounted
    <3> QED BY <1>5, <3>1, <3>2, <3>4
  <2>4. remove_connection(p)
          \/ conn' = [conn EXCEPT ![p].retransmit_queue = Tail(@), ![p].acked = seen]
    BY <1>7 DEF handle_wait_for_ack_state, EndOf
  <2> QED BY <2>2, <2>3, <2>4
<1>8. CASE /\ q # <<>>
           /\ conn' = [conn EXCEPT ![p].last_ack = s.ack, ![p].acked = seen,
                                   ![p].retransmit_queue[1].retries = 0]
  <2> DEFINE r == [q EXCEPT ![1].retries = 0]
             d == [c EXCEPT !.last_ack = s.ack, !.acked = seen, !.retransmit_queue = r]
  <2>1. conn' = [conn EXCEPT ![p] = d]
    BY <1>0, <1>1, <1>8 DEF ConnType
  <2>2. r # <<>> /\ EndOf(Head(r)) = EndOf(Head(q))
    <3> HIDE DEF q
    <3> QED BY <1>2, <1>8, RetriesAccounted
  <2> HIDE DEF r, seen
  <2>3. d.state = c.state /\ d.acked = seen /\ d.next_seq = c.next_seq /\ d.retransmit_queue = r
    BY <1>1 DEF ConnType
  <2> HIDE DEF d
  <2>4. Accounted(d)
    <3>1. CASE c.acked >= c.next_seq
      <4>1. seen >= c.next_seq
        <5> HIDE DEF c
        <5> QED BY <1>2, <3>1
      <4> QED BY <2>3, <4>1 DEF Accounted
    <3>2. CASE EndOf(Head(q)) >= c.next_seq
      BY <2>2, <2>3, <3>2 DEF Accounted
    <3> QED BY <1>1, <3>1, <3>2 DEF Accounted
  <2> QED BY <1>5, <2>1, <2>3, <2>4
<1>9. CASE /\ q # <<>>
           /\ conn' = [conn EXCEPT ![p] =
                [tcp_send_segment(c, Head(q).flags, Head(q).length, TRUE) EXCEPT !.dup_ack_count = 0]]
  <2> DEFINE x == tcp_send_segment(c, Head(q).flags, Head(q).length, TRUE)
             d == [x EXCEPT !.dup_ack_count = 0]
  <2>1. Head(q) \in Entries
    BY <1>2, <1>9, HeadTailProperties
  <2>2. Head(q).flags \in SUBSET SentFlags /\ Head(q).length \in Nat
    BY <2>1 DEF Entries, SentFlags
  <2>3. x \in ConnType /\ x.state = c.state
    BY <1>1, <2>2, SendSucceeds
  <2>4. Accounted(x)
    BY <1>1, <2>2, SendAccounted
  <2>5. conn' = [conn EXCEPT ![p] = d]
    BY <1>9
  <2> HIDE DEF x
  <2>6. /\ d.state = x.state /\ d.acked = x.acked /\ d.next_seq = x.next_seq
        /\ d.retransmit_queue = x.retransmit_queue
    BY <2>3 DEF ConnType
  <2> HIDE DEF d
  <2>7. Accounted(d)
    BY <2>4, <2>6, AccountedSame
  <2> QED BY <1>5, <2>3, <2>5, <2>6, <2>7
<1>10. CASE conn' = [conn EXCEPT ![p] = [c EXCEPT !.dup_ack_count = @ + 1]]
  <2> DEFINE d == [c EXCEPT !.dup_ack_count = @ + 1]
  <2>1. conn' = [conn EXCEPT ![p] = d]
    BY <1>10
  <2>2. /\ d.state = c.state /\ d.acked = c.acked /\ d.next_seq = c.next_seq
        /\ d.retransmit_queue = c.retransmit_queue
    BY <1>1 DEF ConnType
  <2> HIDE DEF d
  <2>3. Accounted(d)
    BY <1>1, <2>2, AccountedSame
  <2> QED BY <1>5, <2>1, <2>2, <2>3
<1> QED
  BY <1>6, <1>7, <1>8, <1>9, <1>10 DEF handle_wait_for_ack_state, EndOf

(* A segment of a peer. *)
LEMMA AccountedReceive ==
  ASSUME MallocSucceeds, TCPInv, AllAccounted, NEW p \in Peers, NEW s \in SegmentType,
         Receive(p, s)
  PROVE  AllAccounted'
<1>0. conn \in [Peers -> ConnType \cup {None}] /\ Typed
  BY DEF TCPInv, Typed
<1>1. ASSUME UNCHANGED conn PROVE AllAccounted'
  BY <1>1 DEF AllAccounted, Accounted, EndOf
<1>2. ASSUME remove_connection(p) PROVE AllAccounted'
  <2>1. None.state # "TCP_WAIT_FOR_ACK"
    BY DEF None
  <2>2. conn' = [conn EXCEPT ![p] = None]
    BY <1>2 DEF remove_connection
  <2> QED BY <2>1, <2>2, AccountedUpdate
<1>3. CASE ReceiveReset(p, s) \/ ReceiveLastAck(p, s)
  BY <1>1, <1>2, <1>3 DEF ReceiveReset, ReceiveLastAck, handle_last_ack_state
<1>4. CASE ReceiveUnknown(p, s) \/ ReceiveEstablished(p, s)
  BY <1>1, <1>4 DEF ReceiveUnknown, tcp_send_reset, tcpVars, ReceiveEstablished
<1>5. CASE ReceiveSyn(p, s)
  <2>1. ASSUME NEW iss \in InitialSeqs, NEW ok \in Malloc,
               conn' = [conn EXCEPT ![p] = tcp_send_segment(
                 [state |-> "TCP_SYN_RECEIVED", next_seq |-> iss, last_ack |-> 0,
                  dup_ack_count |-> 0, retransmit_queue |-> <<>>, acked |-> 0],
                 {"SYN", "ACK"}, 0, ok)]
        PROVE  AllAccounted'
    <3> DEFINE c == [state |-> "TCP_SYN_RECEIVED", next_seq |-> iss, last_ack |-> 0,
                     dup_ack_count |-> 0, retransmit_queue |-> <<>>, acked |-> 0]
               d == tcp_send_segment(c, {"SYN", "ACK"}, 0, ok)
    <3>1. iss \in 0 .. (SeqMod - 1) /\ <<>> \in Seq(Entries) /\ "TCP_SYN_RECEIVED" \in States
      BY TCPAssumption DEF States
    <3>2. c \in ConnType /\ c.state = "TCP_SYN_RECEIVED"
      BY <3>1 DEF ConnType
    <3>3. {"SYN", "ACK"} \in SUBSET SentFlags /\ 0 \in Nat
      BY DEF SentFlags
    <3>4. d.state = "TCP_SYN_RECEIVED"
      <4> HIDE DEF c
      <4> QED BY <3>2, <3>3, SendTyped
    <3>5. conn' = [conn EXCEPT ![p] = d]
      BY <2>1
    <3> HIDE DEF d
    <3> QED BY <3>4, <3>5, AccountedUpdate
  <2> QED BY <1>1, <1>5, <2>1 DEF ReceiveSyn
<1>6. CASE ReceiveSynReceived(p, s)
  <2> DEFINE d == [conn[p] EXCEPT !.state = "TCP_ESTABLISHED"]
  <2>1. conn[p] \in ConnType
    BY <1>0, <1>6, ConnCases DEF ReceiveSynReceived, States
  <2>2. CASE conn' = [conn EXCEPT ![p].state = "TCP_ESTABLISHED"]
    <3>1. conn' = [conn EXCEPT ![p] = d] /\ d.state = "TCP_ESTABLISHED"
      BY <1>0, <2>1, <2>2 DEF ConnType
    <3> HIDE DEF d
    <3> QED BY <3>1, AccountedUpdate
  <2> QED BY <1>1, <1>6, <2>2 DEF ReceiveSynReceived
<1>7. CASE ReceiveWaitForAck(p, s)
  <2>1. handle_wait_for_ack_state(p, s, TRUE) /\ conn[p].state = "TCP_WAIT_FOR_ACK"
    BY <1>7 DEF ReceiveWaitForAck, MallocSucceeds
  <2>2. s.ack \in 0 .. (SeqMod - 1)
    BY DEF SegmentType
  <2> QED BY <2>1, <2>2, AccountedWaitForAck
<1> QED
  BY <1>3, <1>4, <1>5, <1>6, <1>7 DEF Receive

(* check_tcp_timers: what is sent again is queued again, up to the number  *)
(* at which the connection then stands.                                    *)
LEMMA AccountedTimers ==
  ASSUME MallocSucceeds, TCPInv, AllAccounted, check_tcp_timers \/ ShellWalk
  PROVE  AllAccounted'
<1>u. CASE UNCHANGED conn
  BY <1>u DEF AllAccounted, Accounted, EndOf
<1> SUFFICES ASSUME Visit PROVE AllAccounted'
  BY <1>u, WalksVisit
<1>0. PICK i \in 1 .. Len(active_timers) :
        ResendDataOf(i) \/ ResendControlOf(i) \/ DropConnectionOf(i)
  BY DEF Visit
<1> DEFINE p == active_timers[i].conn
           c == conn[p]
           q == c.retransmit_queue
<1>1. p \in Peers /\ c \in ConnType
  BY VisitFacts
<1>2. q \in Seq(Entries) /\ conn \in [Peers -> ConnType \cup {None}]
  BY <1>1 DEF ConnType, TCPInv, Typed
<1>4. CASE ResendDataOf(i)
  <2>1. q # <<>> /\ c.state = "TCP_WAIT_FOR_ACK"
    BY <1>4 DEF ResendDataOf
  <2> DEFINE sent == tcp_send_segment(c, {"ACK"}, Head(q).length, TRUE)
             r == sent.retransmit_queue
             old == Len(r) - Len(q) + 1
             rr == [r EXCEPT ![old].retries = @ + 1]
             d == [sent EXCEPT !.retransmit_queue = rr]
  <2>2. conn' = [conn EXCEPT ![p] = d]
    <3>1. PICK ok \in Malloc :
          LET sent1 == tcp_send_segment(c, {"ACK"}, Head(q).length, ok)
              old1  == Len(sent1.retransmit_queue) - Len(c.retransmit_queue) + 1
          IN conn' = [conn EXCEPT ![p] = [sent1 EXCEPT !.retransmit_queue[old1].retries = @ + 1]]
      BY <1>4 DEF ResendDataOf
    <3>2. ok = TRUE
      BY DEF MallocSucceeds
    <3> QED BY <3>1, <3>2
  <2>3. Head(q) \in Entries
    BY <1>2, <2>1, HeadTailProperties
  <2>4. Head(q).length \in Nat /\ {"ACK"} \in SUBSET SentFlags
    BY <2>3 DEF Entries, SentFlags
  <2>5. sent \in ConnType /\ sent.state = c.state /\ (r # <<>> \/ r = q)
    BY <1>1, <2>4, SendSucceeds
  <2>6. r \in Seq(Entries) /\ r # <<>>
    BY <2>1, <2>5 DEF ConnType
  <2>7. Accounted(sent)
    <3>1. Accounted(c)
      BY <1>1, <2>1 DEF AllAccounted
    <3> QED BY <1>1, <2>4, <3>1, SendAccounted
  <2>8. rr # <<>> /\ EndOf(Head(rr)) = EndOf(Head(r))
    <3> HIDE DEF r, old
    <3> DEFINE x == r[old].retries + 1
    <3>1. rr = [r EXCEPT ![old].retries = x]
      OBVIOUS
    <3> HIDE DEF x, rr
    <3> QED BY <2>6, <3>1, RetriesAccounted
  <2> HIDE DEF rr, sent
  <2>9. /\ d.state = sent.state /\ d.acked = sent.acked /\ d.next_seq = sent.next_seq
        /\ d.retransmit_queue = rr
    BY <2>5 DEF ConnType
  <2> HIDE DEF d
  <2>10. Accounted(d)
    BY <2>7, <2>8, <2>9 DEF Accounted
  <2> QED BY <1>1, <2>2, <2>10, AccountedUpdate
<1>5. CASE ResendControlOf(i)
  <2>1. PICK ok \in Malloc : conn' = [conn EXCEPT ![p] = tcp_send_segment(@, {"FIN"}, 0, ok)]
    BY <1>5 DEF ResendControlOf
  <2> DEFINE d == tcp_send_segment(c, {"FIN"}, 0, ok)
  <2>2. {"FIN"} \in SUBSET SentFlags /\ 0 \in Nat
    BY DEF SentFlags
  <2>3. d.state = c.state
    BY <1>1, <2>2, SendTyped
  <2>4. conn' = [conn EXCEPT ![p] = d]
    BY <1>1, <1>2, <2>1
  <2>5. c.state # "TCP_WAIT_FOR_ACK"
    BY <1>5 DEF ResendControlOf
  <2> HIDE DEF d
  <2> QED BY <1>1, <2>3, <2>4, <2>5, AccountedUpdate
<1>6. CASE DropConnectionOf(i)
  <2>1. None.state # "TCP_WAIT_FOR_ACK" /\ conn' = [conn EXCEPT ![p] = None]
    BY <1>6 DEF None, DropConnectionOf
  <2> QED BY <1>1, <2>1, AccountedUpdate
<1> QED
  BY <1>0, <1>4, <1>5, <1>6

(* A response: its headers are never empty, so the newest entry is part of *)
(* it even if the served file is empty.                                    *)
LEMMA RequestAccounted ==
  ASSUME MallocSucceeds, NEW c \in ConnType, NEW o \in handle_http_request(c)
  PROVE  Accounted(o.conn)
<1> DEFINE w == [c EXCEPT !.state = "TCP_WAIT_FOR_ACK"]
           F == {"PSH", "ACK"}
           notFound == { Outcome(tcp_send_segment(w, F, NotFoundLen, ok), FALSE) : ok \in Malloc }
           noBuffer == IF FALSE \in Malloc THEN {Outcome(w, FALSE)} ELSE {}
           headers  == { tcp_send_segment(w, F, HeaderLen, ok) : ok \in Malloc }
           response == { tcp_send_segment(h, F, len, ok) :
                           h \in headers, len \in BodyLens, ok \in Malloc }
           full     == { Outcome(r, timer) : r \in response, timer \in Malloc }
<1>1. w \in ConnType
  BY DEF ConnType, States
<1>2. /\ F \in SUBSET SentFlags /\ NotFoundLen \in Nat /\ NotFoundLen > 0
      /\ HeaderLen \in Nat /\ HeaderLen > 0 /\ BodyLens \subseteq Nat
  BY TCPAssumption DEF SentFlags
<1>4. o \in notFound \/ o \in noBuffer \/ o \in full
  <2>1. handle_http_request(c) = notFound \cup noBuffer \cup full
    BY SMT DEF handle_http_request
  <2> HIDE DEF notFound, noBuffer, full
  <2> QED BY <2>1
<1> HIDE DEF w, F
<1>5. CASE o \in notFound
  <2>1. o = Outcome(tcp_send_segment(w, F, NotFoundLen, TRUE), FALSE)
    BY <1>5 DEF MallocSucceeds
  <2> DEFINE d == tcp_send_segment(w, F, NotFoundLen, TRUE)
  <2>2. Accounted(d)
    BY <1>1, <1>2, SendAccounted
  <2> HIDE DEF d
  <2>3. o.conn = d
    BY <2>1 DEF Outcome, d
  <2> QED BY <2>2, <2>3
<1>6. CASE o \in noBuffer
  BY <1>6 DEF MallocSucceeds
<1>7. CASE o \in full
  <2>1. PICK r \in response, timer \in Malloc : o = Outcome(r, timer)
    BY <1>7
  <2>2. PICK h \in headers, len \in BodyLens, ok \in Malloc : r = tcp_send_segment(h, F, len, ok)
    OBVIOUS
  <2>3. PICK ok1 \in Malloc : h = tcp_send_segment(w, F, HeaderLen, ok1)
    OBVIOUS
  <2> HIDE DEF headers, response, full, notFound, noBuffer
  <2>4. ok = TRUE /\ ok1 = TRUE /\ len \in Nat
    BY <1>2 DEF MallocSucceeds
  <2>5. h \in ConnType /\ Accounted(h)
    BY <1>1, <1>2, <2>3, <2>4, SendSucceeds, SendAccounted
  <2>6. Accounted(r)
    BY <1>2, <2>2, <2>4, <2>5, SendAccounted
  <2>7. o.conn = r
    BY <2>1 DEF Outcome
  <2> QED BY <2>6, <2>7
<1> HIDE DEF notFound, noBuffer, full
<1> QED
  BY <1>4, <1>5, <1>6, <1>7

(* The end of handle_established_state: a connection that is left waiting  *)
(* has been sent a response and no FIN after it.                           *)
LEMMA AccountedFinish ==
  ASSUME MallocSucceeds, TCPInv, AllAccounted, FinishEstablished
  PROVE  AllAccounted'
<1> DEFINE p == walk.peer
           s == walk.seg
<1>1. p \in Peers /\ s \in SegmentType /\ conn[p].state = "TCP_ESTABLISHED"
  BY DEF FinishEstablished, Typed, WalkType, TCPInv, WalkInv
<1>2. conn[p] \in ConnType
  BY <1>1, ConnCases DEF States, TCPInv
<1>3. PICK ok1 \in Malloc, ok2 \in Malloc :
        LET c == Acknowledged(conn[p], s, ok1)
        IN \E o \in IF s.data = "GET" THEN handle_http_request(c) ELSE {Outcome(c, FALSE)} :
             conn' = [conn EXCEPT ![p] = Closed(o.conn, s, ok2)]
  BY DEF FinishEstablished
<1> DEFINE c == Acknowledged(conn[p], s, ok1)
<1>4. c \in ConnType /\ c.state = "TCP_ESTABLISHED"
  BY <1>1, <1>2, AcknowledgedTyped
<1>5. PICK o \in IF s.data = "GET" THEN handle_http_request(c) ELSE {Outcome(c, FALSE)} :
        conn' = [conn EXCEPT ![p] = Closed(o.conn, s, ok2)]
  BY <1>3
<1> HIDE DEF c
<1> DEFINE d == Closed(o.conn, s, ok2)
<1>6. d.state = "TCP_WAIT_FOR_ACK" => Accounted(d)
  <2>1. CASE "FIN" \in s.flags
    <3> DEFINE x == tcp_send_segment(o.conn, {"FIN", "ACK"}, 0, ok2)
    <3>1. {"FIN", "ACK"} \in SUBSET SentFlags /\ 0 \in Nat
      BY DEF SentFlags
    <3>2. o.conn \in ConnType
      <4>1. CASE s.data = "GET"
        BY <1>4, <4>1, RequestTyped
      <4>2. CASE s.data # "GET"
        BY <1>4, <4>2 DEF Outcome
      <4> QED BY <4>1, <4>2
    <3>3. x \in ConnType
      BY <3>1, <3>2, SendTyped
    <3>4. d = [x EXCEPT !.state = "TCP_LAST_ACK"]
      BY <2>1 DEF Closed
    <3> HIDE DEF x, d
    <3>5. d.state = "TCP_LAST_ACK"
      BY <3>3, <3>4 DEF ConnType
    <3> QED BY <3>5
  <2>2. CASE "FIN" \notin s.flags
    <3>1. d = o.conn
      BY <2>2 DEF Closed
    <3>2. CASE s.data = "GET"
      BY <1>4, <3>1, <3>2, RequestAccounted
    <3>3. CASE s.data # "GET"
      <4>1. o.conn = c
        BY <3>3 DEF Outcome
      <4> HIDE DEF d
      <4> QED BY <1>4, <3>1, <4>1
    <3> QED BY <3>2, <3>3
  <2> QED BY <2>1, <2>2
<1> HIDE DEF d
<1>7. conn' = [conn EXCEPT ![p] = d]
  BY <1>5 DEF d
<1> QED
  BY <1>1, <1>6, <1>7, AccountedUpdate

(* As long as malloc succeeds, handle_wait_for_ack_state drops a           *)
(* connection only when the peer has acknowledged everything it was sent:  *)
(* one acknowledgement takes no more than the newest entry off the queue,  *)
(* and that entry always reaches up to next_seq, however often segments    *)
(* have been sent and queued again, unless all of it was acknowledged      *)
(* before.                                                                 *)
THEOREM ResponsesAreAcknowledged ==
  ASSUME Malloc = {TRUE}
  PROVE  Spec => ClosesOnlyWhenAcknowledged
<1>0. MallocSucceeds
  BY DEF MallocSucceeds
<1>1. Init => AllAccounted
  BY DEF Init, AllAccounted, None
<1>2. TCPInv /\ AllAccounted /\ [Next]_vars => AllAccounted'
  <2> SUFFICES ASSUME TCPInv, AllAccounted, [Next]_vars PROVE AllAccounted'
    OBVIOUS
  <2>1. ASSUME NEW p \in Peers, NEW s \in SegmentsOf(p), Receive(p, s) PROVE AllAccounted'
    BY <1>0, <2>1, SegmentTyped, AccountedReceive
  <2>2. ASSUME NEW p \in Peers, PeerCloses(p) PROVE AllAccounted'
    <3> DEFINE s == [flags |-> {"FIN", "ACK"}, data |-> "none", ack |-> conn[p].next_seq]
    <3>1. Exists(p) /\ Receive(p, s)
      BY <2>2 DEF PeerCloses
    <3>2. conn[p] \in ConnType
      BY <3>1, ConnCases DEF TCPInv
    <3>3. s \in SegmentType
      BY <3>2 DEF SegmentType, ConnType, Flags
    <3> HIDE DEF s
    <3> QED BY <1>0, <3>1, <3>3, AccountedReceive
  <2>3. CASE Tick \/ UNCHANGED tcpVars
    BY <2>3 DEF Tick, tcpVars, AllAccounted, Accounted, EndOf
  <2> QED
    BY <1>0, <2>1, <2>2, <2>3, NextSteps, AccountedTimers, AccountedFinish DEF vars, tcpVars
<1>3. TCPInv /\ AllAccounted =>
        \A p \in Peers, n \in 0 .. (SeqMod - 1) :
          /\ conn[p].state = "TCP_WAIT_FOR_ACK" /\ conn'[p] = None
          /\ handle_wait_for_ack_state(p, [ack |-> n], TRUE)
          => n >= conn[p].next_seq \/ conn[p].acked >= conn[p].next_seq
  <2> SUFFICES ASSUME TCPInv, AllAccounted, NEW p \in Peers, NEW n \in 0 .. (SeqMod - 1),
                      conn[p].state = "TCP_WAIT_FOR_ACK", conn'[p] = None,
                      handle_wait_for_ack_state(p, [ack |-> n], TRUE)
               PROVE  n >= conn[p].next_seq \/ conn[p].acked >= conn[p].next_seq
    OBVIOUS
  <2> DEFINE s == [ack |-> n]
  <2>1. s.ack = n /\ s.ack \in 0 .. (SeqMod - 1) /\ handle_wait_for_ack_state(p, s, TRUE)
    OBVIOUS
  <2> HIDE DEF s
  <2> QED BY <2>1, AccountedWaitForAck
<1> QED
  BY <1>1, <1>2, <1>3, TCPInitial, TCPInductive, PTL DEF Spec, ClosesOnlyWhenAcknowledged

=============================================================================
