--------------------------- MODULE Telnet_proofs ---------------------------
(***************************************************************************)
(* Proofs about Telnet, for every stream, every buffer and any number of   *)
(* keys and bytes: the control block is freed once and never leaks, no     *)
(* byte is shown twice or out of order, and the receive buffer does not    *)
(* run over as long as segments come in order and the peer was told only   *)
(* windows that count what is in the buffer.                               *)
(***************************************************************************)
EXTENDS Telnet, SequenceTheorems, TLAPS

-----------------------------------------------------------------------------
(* Types *)

PCs == {"prompt", "add", "wait", "loop", "show", "clear", "keys", "getchar", "close"}

ConnStates == {"TCP_CLOSED", "TCP_SYN_SENT", "TCP_ESTABLISHED", "TCP_LAST_ACK",
               "TCP_WAIT_FOR_ACK"}

Bytes == [b : Kinds, n : Nat]

ConnType == [live : BOOLEAN, listed : BOOLEAN, clean : BOOLEAN, state : ConnStates,
             expected_ack : Nat, recv_buffer : Seq(Bytes)]

GhostType(shown) == [taken : Nat, seen : Nat, shown : {shown}, plain : BOOLEAN,
                     inOrder : BOOLEAN, early : BOOLEAN, overrun : BOOLEAN,
                     fin : BOOLEAN, reused : BOOLEAN]

Typed == /\ pc \in PCs /\ conn \in ConnType
         /\ ghost \in GhostType(ghost.shown)
         /\ keys \in 0 .. MaxKeys
         /\ stream \in Seq(Kinds)
         /\ edge \in 0 .. Len(stream)

-----------------------------------------------------------------------------
(* The inductive invariant *)

(* The block is on the list exactly while it is allocated, except between  *)
(* tcp_connect's allocation and add_connection; at the prompt it is freed. *)
BlockInv == /\ pc = "add" => conn.live /\ ~conn.listed
            /\ pc # "add" => (conn.live <=> conn.listed)
            /\ pc = "prompt" => ~conn.live

(* Received bytes are in the buffer in the order of their arrival. *)
Ordered(buffer) ==
  \A i, j \in 1 .. Len(buffer) : i < j /\ buffer[j].n > 0 => buffer[i].n < buffer[j].n

Upto(buffer, n) == \A i \in 1 .. Len(buffer) : buffer[i].n <= n

(* None of the bytes in the buffer has been shown, except between Show and *)
(* Clear.                                                                  *)
Fresh(buffer, seen) == \A i \in 1 .. Len(buffer) : buffer[i].n > 0 => buffer[i].n > seen

ShowInv == /\ ghost.taken <= MaxTaken /\ ghost.seen <= ghost.taken
           /\ Ordered(conn.recv_buffer)
           /\ Upto(conn.recv_buffer, ghost.taken)
           /\ pc # "clear" => Fresh(conn.recv_buffer, ghost.seen)

(* While the connection can take data in: the peer may send no more than   *)
(* the space that is left, and is told no more.                            *)
Room(c) == BufferSize - Len(c.recv_buffer)

RoomInv == /\ Len(conn.recv_buffer) <= BufferSize
           /\ /\ conn.listed \/ pc = "add"
              /\ conn.state \in {"TCP_SYN_SENT", "TCP_ESTABLISHED"}
              /\ ghost.inOrder /\ ~ghost.early
              => /\ edge <= ghost.taken + Room(conn)
                 /\ conn.expected_ack <= ghost.taken
           /\ ghost.inOrder /\ ~ghost.early => ~ghost.overrun

TelnetInv == Typed /\ BlockInv /\ ShowInv /\ RoomInv

-----------------------------------------------------------------------------
(* Operators *)

(* A 16-bit difference. *)
LEMMA Word ==
  ASSUME NEW x \in Int
  PROVE  x % 65536 \in Nat /\ (x >= 0 => x % 65536 <= x)
  BY SMT

(* The window is a number, and if the buffer has not run over it is no     *)
(* more than the space left.                                               *)
LEMMA WindowBounds ==
  ASSUME NEW c \in ConnType
  PROVE  /\ Len(c.recv_buffer) \in Nat /\ c.expected_ack \in Nat
         /\ Room(c) \in Int
         /\ Window(c) \in Nat
         /\ Len(c.recv_buffer) <= BufferSize => Window(c) <= Room(c)
<1>1. c.recv_buffer \in Seq(Bytes) /\ c.expected_ack \in Nat
  BY DEF ConnType
<1>2. Len(c.recv_buffer) \in Nat /\ BufferSize \in Nat
  BY <1>1, TelnetAssumption
<1>3. Room(c) \in Int /\ (Len(c.recv_buffer) <= BufferSize => Room(c) >= 0)
  BY <1>2 DEF Room
<1>4. Window(c) = Room(c) % 65536
  BY SMT DEF Window, Room
<1> DEFINE x == Room(c)
<1> HIDE DEF x
<1>5. x % 65536 \in Nat /\ (x >= 0 => x % 65536 <= x)
  <2>1. x \in Int
    BY <1>3 DEF x
  <2> QED BY <2>1, Word, SMT
<1> DEFINE w == Window(c)
<1> HIDE DEF w
<1>6. w \in Nat /\ (x >= 0 => w <= x)
  BY <1>4, <1>5, SMT DEF x, w
<1>7. w \in Nat /\ (Len(c.recv_buffer) <= BufferSize => w <= x)
  BY <1>3, <1>6 DEF x
<1> QED
  BY <1>1, <1>2, <1>3, <1>7 DEF x, w

(* What the peer is told: no more than its stream, and with a buffer that  *)
(* has not run over no more than the space left.                           *)
LEMMA ToldBounds ==
  ASSUME Typed, NEW c \in ConnType
  PROVE  /\ Told(c) \in 0 .. Len(stream)
         /\ Len(c.recv_buffer) <= BufferSize => Told(c) <= c.expected_ack + Room(c)
<1> DEFINE a == c.expected_ack + Window(c)
           l == Len(stream)
<1>1. /\ c.expected_ack \in Nat /\ Room(c) \in Int /\ Window(c) \in Nat
      /\ Len(c.recv_buffer) <= BufferSize => Window(c) <= Room(c)
  BY WindowBounds
<1>2. l \in Nat
  BY DEF Typed
<1>3. a \in Nat /\ (Len(c.recv_buffer) <= BufferSize => a <= c.expected_ack + Room(c))
  <2> DEFINE w == Window(c)
             r == Room(c)
             e == c.expected_ack
             P == Len(c.recv_buffer) <= BufferSize
  <2>1. e \in Nat /\ r \in Int /\ w \in Nat /\ (P => w <= r)
    BY <1>1
  <2> HIDE DEF w, r, e, P
  <2>2. e + w \in Nat /\ (P => e + w <= e + r)
    BY <2>1
  <2> QED BY <2>2 DEF w, r, e, P
<1>5. Told(c) = Min({a, l})
  BY DEF Told
<1> HIDE DEF a, l
<1>6. Min({a, l}) \in {a, l} /\ Min({a, l}) <= a /\ Min({a, l}) <= l
  <2>1. \E x \in {a, l} : \A y \in {a, l} : x <= y
    BY <1>2, <1>3
  <2> QED BY <2>1 DEF Min
<1> DEFINE t == Told(c)
<1>7. t \in Nat /\ t <= a /\ t <= l
  BY <1>2, <1>3, <1>5, <1>6
<1> HIDE DEF t
<1>8. t \in 0 .. l
  BY <1>2, <1>7
<1>9. Len(c.recv_buffer) <= BufferSize => t <= c.expected_ack + Room(c)
  BY <1>1, <1>3, <1>7
<1> QED
  BY <1>8, <1>9 DEF t, l

(* A segment that is sent moves the peer's edge to what it was told by one *)
(* of the blocks, or not at all.                                           *)
LEMMA SendEdge ==
  ASSUME Typed, NEW blocks \in SUBSET ConnType, tcp_send_segment(blocks)
  PROVE  /\ edge' \in 0 .. Len(stream)
         /\ edge' = edge \/ (edge' > edge /\ \E c \in blocks : edge' = Told(c))
<1>1. edge' = edge \/ (edge' > edge /\ \E c \in blocks : edge' = Told(c))
  BY DEF tcp_send_segment
<1>2. \A c \in blocks : Told(c) \in 0 .. Len(stream)
  BY ToldBounds
<1> QED
  BY <1>1, <1>2 DEF Typed

(* remove_connection takes the block off the list and frees it if it was   *)
(* on it; what is in the block stays.                                      *)
LEMMA RemoveIs ==
  ASSUME conn \in ConnType, remove_connection
  PROVE  /\ conn' \in ConnType
         /\ ~conn'.listed
         /\ conn'.live <=> (conn.live /\ ~conn.listed)
         /\ conn'.recv_buffer = conn.recv_buffer /\ conn'.state = conn.state
         /\ conn'.expected_ack = conn.expected_ack
<1> DEFINE l == IF conn.listed THEN FALSE ELSE conn.live
<1>1. conn' = [conn EXCEPT !.live = l, !.listed = FALSE]
  BY DEF remove_connection
<1>2. l \in BOOLEAN /\ (l <=> (conn.live /\ ~conn.listed))
  BY DEF ConnType
<1> HIDE DEF l
<1>3. conn' \in ConnType
  BY <1>1, <1>2 DEF ConnType
<1>4. conn'.live = l /\ conn'.listed = FALSE
  BY <1>1 DEF ConnType
<1>5. /\ conn'.recv_buffer = conn.recv_buffer /\ conn'.state = conn.state
      /\ conn'.expected_ack = conn.expected_ack
  BY <1>1 DEF ConnType
<1> QED
  BY <1>2, <1>3, <1>4, <1>5

-----------------------------------------------------------------------------
(* The invariant is kept by every step *)

(* A step that leaves the receive buffer and the history of it alone. *)
LEMMA FrameKeeps ==
  ASSUME TelnetInv,
         pc' \in PCs, conn' \in ConnType, ghost' = ghost,
         keys' \in 0 .. MaxKeys, stream' = stream,
         edge' = edge \/ edge' = Told(conn),
         conn'.recv_buffer = conn.recv_buffer, conn'.expected_ack = conn.expected_ack,
         conn'.state = conn.state,
         (conn'.listed \/ pc' = "add") => (conn.listed \/ pc = "add"),
         pc' # "clear" => pc # "clear",
         BlockInv'
  PROVE  TelnetInv'
<1>1. Typed /\ conn \in ConnType /\ ghost \in GhostType(ghost.shown)
  BY DEF TelnetInv, Typed
<1>2. /\ Told(conn) \in 0 .. Len(stream)
      /\ Len(conn.recv_buffer) <= BufferSize => Told(conn) <= conn.expected_ack + Room(conn)
  BY <1>1, ToldBounds
<1>3. Typed'
  BY <1>1, <1>2 DEF Typed
<1>4. ShowInv'
  BY DEF TelnetInv, ShowInv
<1>5. RoomInv'
  <2>1. Room(conn') = Room(conn)
    BY DEF Room
  <2>2. Len(conn.recv_buffer) <= BufferSize
    BY DEF TelnetInv, RoomInv
  <2>3. ASSUME conn'.listed \/ pc' = "add", conn'.state \in {"TCP_SYN_SENT", "TCP_ESTABLISHED"},
               ghost.inOrder, ~ghost.early
        PROVE  edge' <= ghost.taken + Room(conn) /\ conn.expected_ack <= ghost.taken
    <3>1. edge <= ghost.taken + Room(conn) /\ conn.expected_ack <= ghost.taken
      BY <2>3 DEF TelnetInv, RoomInv
    <3>2. /\ edge \in Nat /\ ghost.taken \in Nat /\ conn.expected_ack \in Nat
          /\ Room(conn) \in Int /\ Told(conn) \in Nat
      BY <1>1, <1>2, WindowBounds DEF Typed, GhostType
    <3> QED BY <1>2, <2>2, <3>1, <3>2
  <2> QED BY <2>1, <2>2, <2>3 DEF TelnetInv, RoomInv
<1> QED
  BY <1>3, <1>4, <1>5 DEF TelnetInv

(* The steps of the shell that do not touch the receive buffer. *)
LEMMA ShellKeeps ==
  ASSUME TelnetInv,
         add_connection \/ GiveUp \/ Greet \/ Loop \/ Kbhit \/ SendKey \/ Close
  PROVE  TelnetInv'
<1>1. /\ Typed /\ conn \in ConnType /\ BlockInv /\ keys \in 0 .. MaxKeys
      /\ {conn} \in SUBSET ConnType
  BY DEF TelnetInv, Typed
<1>2. CASE add_connection
  <2>1. /\ pc = "add" /\ pc' = "wait" /\ conn' = [conn EXCEPT !.listed = TRUE]
        /\ UNCHANGED <<keys, edge, peerVars, ghost>>
    BY <1>2 DEF add_connection, Shell
  <2>2. /\ conn' \in ConnType /\ conn'.listed = TRUE /\ conn'.live = conn.live
        /\ conn'.recv_buffer = conn.recv_buffer /\ conn'.state = conn.state
        /\ conn'.expected_ack = conn.expected_ack
    BY <1>1, <2>1 DEF ConnType
  <2>3. BlockInv'
    BY <1>1, <2>1, <2>2 DEF BlockInv
  <2> QED BY <1>1, <2>1, <2>2, <2>3, FrameKeeps DEF PCs, peerVars
<1>3. CASE GiveUp \/ Close
  <2>1. /\ pc \in {"wait", "close"} /\ pc' = "prompt" /\ remove_connection
        /\ UNCHANGED <<keys, edge, peerVars, ghost>>
    BY <1>3 DEF GiveUp, Close, Shell
  <2>2. /\ conn' \in ConnType
        /\ ~conn'.listed /\ (conn'.live <=> (conn.live /\ ~conn.listed))
        /\ conn'.recv_buffer = conn.recv_buffer /\ conn'.state = conn.state
        /\ conn'.expected_ack = conn.expected_ack
    BY <1>1, <2>1, RemoveIs
  <2>3. BlockInv'
    BY <1>1, <2>1, <2>2 DEF BlockInv
  <2> QED BY <1>1, <2>1, <2>2, <2>3, FrameKeeps DEF PCs, peerVars
<1>4. CASE Greet \/ SendKey
  <2>1. /\ pc \in {"wait", "getchar"} /\ pc' = "loop" /\ tcp_send_segment({conn})
        /\ UNCHANGED <<conn, keys, peerVars, ghost>>
    BY <1>4 DEF Greet, SendKey, Shell
  <2>2. edge' = edge \/ edge' = Told(conn)
    BY <1>1, <2>1, SendEdge
  <2>3. BlockInv'
    BY <1>1, <2>1 DEF BlockInv
  <2> QED BY <1>1, <2>1, <2>2, <2>3, FrameKeeps DEF PCs, peerVars
<1>5. CASE Loop \/ Kbhit
  <2>1. /\ pc \in {"loop", "keys"} /\ pc' \in {"close", "show", "keys", "getchar", "loop"}
        /\ UNCHANGED <<conn, keys, edge, peerVars, ghost>>
    BY <1>5 DEF Loop, Kbhit, Shell
  <2>2. BlockInv'
    BY <1>1, <2>1 DEF BlockInv
  <2> QED BY <1>1, <2>1, <2>2, FrameKeeps DEF PCs, peerVars
<1> QED
  BY <1>2, <1>3, <1>4, <1>5

(* A new connection: its block is not cleared. *)
LEMMA ConnectKeeps ==
  ASSUME TelnetInv, tcp_connect
  PROVE  TelnetInv'
<1>1. Typed /\ conn \in ConnType /\ ghost \in GhostType(ghost.shown)
  BY DEF TelnetInv, Typed
<1>2. PICK clean \in BOOLEAN :
        conn' = [live |-> TRUE, listed |-> FALSE, clean |-> clean,
                 state |-> "TCP_SYN_SENT", expected_ack |-> 0,
                 recv_buffer |-> IF clean THEN <<>> ELSE <<Junk>>]
  BY DEF tcp_connect
<1>3. /\ pc = "prompt" /\ pc' = "add" /\ edge' = Told(conn') /\ UNCHANGED <<keys, stream>>
      /\ ghost' = [Plain(conn'.clean) EXCEPT !.inOrder = @ /\ conn'.clean]
  BY DEF tcp_connect, Shell
<1> DEFINE buffer == IF clean THEN <<>> ELSE <<Junk>>
<1>4. buffer \in Seq(Bytes) /\ Len(buffer) <= 1 /\ \A i \in 1 .. Len(buffer) : buffer[i].n = 0
  <2>1. Junk \in Bytes /\ Junk.n = 0
    BY DEF Junk, Byte, Bytes, Kinds
  <2>2. CASE clean
    BY <2>2
  <2>3. CASE ~clean
    <3> HIDE DEF Junk
    <3> QED BY <2>1, <2>3
  <2> QED BY <2>2, <2>3
<1>5. clean => Len(buffer) = 0
  OBVIOUS
<1> HIDE DEF buffer
<1>6. /\ conn' \in ConnType /\ conn'.recv_buffer = buffer /\ conn'.expected_ack = 0
      /\ conn'.live = TRUE /\ conn'.listed = FALSE /\ conn'.clean = clean
      /\ conn'.state = "TCP_SYN_SENT"
  BY <1>2, <1>4 DEF ConnType, ConnStates, buffer
<1>7. /\ ghost' \in GhostType(ghost'.shown)
      /\ ghost'.taken = ghost.taken /\ ghost'.seen = ghost.seen
      /\ ghost'.inOrder <=> (ghost.inOrder /\ conn'.clean)
      /\ ghost'.early = ghost.early /\ ghost'.overrun = ghost.overrun
  <2> DEFINE g == Plain(conn'.clean)
             i == g.inOrder /\ conn'.clean
  <2>1. g = ghost \/ g = [ghost EXCEPT !.plain = FALSE, !.shown = <<>>]
    BY DEF Plain
  <2>2. /\ g \in GhostType(g.shown)
        /\ g.taken = ghost.taken /\ g.seen = ghost.seen /\ g.inOrder = ghost.inOrder
        /\ g.early = ghost.early /\ g.overrun = ghost.overrun
    BY <1>1, <2>1 DEF GhostType
  <2>3. i \in BOOLEAN /\ (i <=> (g.inOrder /\ conn'.clean))
    OBVIOUS
  <2>4. ghost' = [g EXCEPT !.inOrder = i]
    BY <1>3
  <2> HIDE DEF g, i
  <2>5. /\ ghost' \in GhostType(ghost'.shown) /\ ghost'.inOrder = i
        /\ ghost'.taken = g.taken /\ ghost'.seen = g.seen
        /\ ghost'.early = g.early /\ ghost'.overrun = g.overrun
    BY <2>2, <2>3, <2>4 DEF GhostType
  <2> QED BY <2>2, <2>3, <2>5
<1>8. Typed'
  <2>1. Told(conn') \in 0 .. Len(stream)
    BY <1>1, <1>6, ToldBounds
  <2> QED BY <1>1, <1>3, <1>6, <1>7, <2>1 DEF Typed, PCs
<1>9. BlockInv'
  BY <1>3, <1>6 DEF BlockInv
<1>10. ShowInv'
  <2>1. ghost.taken \in Nat /\ ghost.seen \in Nat
    BY <1>1 DEF GhostType
  <2>2. Ordered(buffer) /\ Upto(buffer, ghost.taken) /\ Fresh(buffer, ghost.seen)
    BY <1>4, <2>1 DEF Ordered, Upto, Fresh
  <2> QED BY <1>6, <1>7, <2>2 DEF TelnetInv, ShowInv
<1>11. RoomInv'
  <2>1. BufferSize \in Nat \ {0} /\ ghost.taken \in Nat /\ Len(buffer) \in Nat
    BY <1>1, <1>4, TelnetAssumption DEF GhostType
  <2>2. Len(buffer) <= BufferSize
    BY <1>4, <2>1
  <2>3. Told(conn') <= 0 + Room(conn') /\ Told(conn') \in Nat
    BY <1>1, <1>6, <2>2, ToldBounds
  <2>4. Room(conn') = BufferSize - Len(buffer)
    BY <1>6 DEF Room
  <2>5. edge' <= ghost.taken + Room(conn')
    BY <1>3, <2>1, <2>3, <2>4
  <2> QED BY <1>6, <1>7, <2>1, <2>2, <2>5 DEF TelnetInv, RoomInv
<1> QED
  BY <1>8, <1>9, <1>10, <1>11 DEF TelnetInv

(* What is shown is remembered as seen. *)
LEMMA ShowKeeps ==
  ASSUME TelnetInv, Show
  PROVE  TelnetInv'
<1> DEFINE data == conn.recv_buffer
           upTo == IF data = <<>> \/ Last(data).n = 0 THEN ghost.seen ELSE Last(data).n
           whole == ghost.plain /\ Decode(SubSeq(stream, 1, upTo)).mode = "data"
           text == IF whole THEN ghost.shown \o telnet_filter(data, BufferSize + 1) ELSE <<>>
<1>1. Typed /\ conn \in ConnType /\ ghost \in GhostType(ghost.shown) /\ data \in Seq(Bytes)
  BY DEF TelnetInv, Typed, ConnType
<1>2. /\ pc = "show" /\ pc' = "clear" /\ UNCHANGED <<conn, keys, edge, peerVars>>
      /\ ghost' = [ghost EXCEPT !.shown = text, !.seen = upTo, !.plain = whole]
  BY DEF Show, Shell
<1>3. ghost.taken \in Nat /\ ghost.seen \in Nat /\ ghost.seen <= ghost.taken
  BY <1>1 DEF GhostType, TelnetInv, ShowInv
<1>4. upTo \in Nat /\ upTo <= ghost.taken
  <2>1. CASE data = <<>>
    BY <1>3, <2>1
  <2>2. CASE data # <<>>
    <3> DEFINE m == Len(data)
    <3>1. m \in 1 .. Len(data) /\ Last(data) = data[m]
      BY <1>1, <2>2 DEF Last
    <3>2. data[m] \in Bytes
      BY <1>1, <3>1
    <3>3. data[m].n \in Nat /\ data[m].n <= ghost.taken
      BY <3>1, <3>2 DEF Bytes, TelnetInv, ShowInv, Upto
    <3> QED BY <1>3, <3>1, <3>3
  <2> QED BY <2>1, <2>2
<1>5. whole \in BOOLEAN
  OBVIOUS
<1> HIDE DEF upTo, whole, text
<1>6. /\ ghost' \in GhostType(ghost'.shown)
      /\ ghost'.taken = ghost.taken /\ ghost'.seen = upTo /\ ghost'.inOrder = ghost.inOrder
      /\ ghost'.early = ghost.early /\ ghost'.overrun = ghost.overrun
  BY <1>1, <1>2, <1>4, <1>5 DEF GhostType
<1>7. Typed'
  BY <1>1, <1>2, <1>6 DEF Typed, PCs, peerVars
<1>8. BlockInv'
  BY <1>2 DEF TelnetInv, BlockInv
<1>9. ShowInv'
  BY <1>2, <1>4, <1>6 DEF TelnetInv, ShowInv
<1>10. RoomInv'
  BY <1>2, <1>6 DEF TelnetInv, RoomInv
<1> QED
  BY <1>7, <1>8, <1>9, <1>10 DEF TelnetInv

(* A history that is given up keeps its counts. *)
LEMMA PlainIs ==
  ASSUME ghost \in GhostType(ghost.shown), NEW still
  PROVE  /\ Plain(still) \in GhostType(Plain(still).shown)
         /\ Plain(still).taken = ghost.taken /\ Plain(still).seen = ghost.seen
         /\ Plain(still).inOrder = ghost.inOrder /\ Plain(still).early = ghost.early
         /\ Plain(still).overrun = ghost.overrun /\ Plain(still).fin = ghost.fin
         /\ Plain(still).reused = ghost.reused
<1> DEFINE g == Plain(still)
<1>1. g = ghost \/ g = [ghost EXCEPT !.plain = FALSE, !.shown = <<>>]
  BY DEF Plain
<1> HIDE DEF g
<1>2. /\ g \in GhostType(g.shown)
      /\ g.taken = ghost.taken /\ g.seen = ghost.seen /\ g.inOrder = ghost.inOrder
      /\ g.early = ghost.early /\ g.overrun = ghost.overrun /\ g.fin = ghost.fin
      /\ g.reused = ghost.reused
  BY <1>1 DEF GhostType
<1> QED
  BY <1>2 DEF g

(* The buffer is emptied, whatever it holds by then. *)
LEMMA ClearKeeps ==
  ASSUME TelnetInv, Clear
  PROVE  TelnetInv'
<1>1. Typed /\ conn \in ConnType /\ ghost \in GhostType(ghost.shown)
  BY DEF TelnetInv, Typed
<1>2. /\ pc = "clear" /\ pc' = "keys" /\ UNCHANGED <<keys, edge, peerVars>>
      /\ conn' = [conn EXCEPT !.recv_buffer = <<>>]
      /\ \E still : ghost' = Plain(still)
  BY DEF Clear, Shell
<1>3. /\ ghost' \in GhostType(ghost'.shown)
      /\ ghost'.taken = ghost.taken /\ ghost'.seen = ghost.seen /\ ghost'.inOrder = ghost.inOrder
      /\ ghost'.early = ghost.early /\ ghost'.overrun = ghost.overrun
  BY <1>1, <1>2, PlainIs
<1>4. <<>> \in Seq(Bytes) /\ Len(<<>>) = 0
  OBVIOUS
<1>5. /\ conn' \in ConnType /\ conn'.recv_buffer = <<>> /\ conn'.expected_ack = conn.expected_ack
      /\ conn'.live = conn.live /\ conn'.listed = conn.listed /\ conn'.state = conn.state
  BY <1>1, <1>2, <1>4 DEF ConnType
<1>6. Typed'
  BY <1>1, <1>2, <1>3, <1>5 DEF Typed, PCs, peerVars
<1>7. BlockInv'
  BY <1>2, <1>5 DEF TelnetInv, BlockInv
<1>8. ShowInv'
  BY <1>3, <1>4, <1>5 DEF TelnetInv, ShowInv, Ordered, Upto, Fresh
<1>9. RoomInv'
  <2>1. /\ BufferSize \in Nat /\ ghost.taken \in Nat /\ Len(conn.recv_buffer) \in Nat
        /\ edge \in Nat
    BY <1>1, WindowBounds, TelnetAssumption DEF GhostType, Typed
  <2>2. Room(conn') = BufferSize /\ Room(conn) <= BufferSize /\ Room(conn) \in Int
    BY <1>4, <1>5, <2>1 DEF Room
  <2>3. edge <= ghost.taken + Room(conn) => edge <= ghost.taken + Room(conn')
    BY <2>1, <2>2
  <2> QED BY <1>2, <1>3, <1>4, <1>5, <2>1, <2>3 DEF TelnetInv, RoomInv
<1> QED
  BY <1>6, <1>7, <1>8, <1>9 DEF TelnetInv

(* The handshake's answer. *)
LEMMA SynSentKeeps ==
  ASSUME TelnetInv, NEW s \in Sent, ReceiveSynSent(s)
  PROVE  TelnetInv'
<1>1. /\ Typed /\ conn \in ConnType /\ ghost \in GhostType(ghost.shown) /\ BlockInv
      /\ ghost.taken \in Nat
  BY DEF TelnetInv, Typed, GhostType
<1>2. /\ UNCHANGED <<pc, keys, peerVars, ghost>> /\ conn.listed /\ conn.state = "TCP_SYN_SENT"
  BY DEF ReceiveSynSent, Finds
<1>3. CASE UNCHANGED <<conn, edge>>
  <2>1. BlockInv'
    BY <1>1, <1>2, <1>3 DEF BlockInv
  <2> QED BY <1>1, <1>2, <1>3, <2>1, FrameKeeps DEF peerVars, Typed
<1>4. CASE /\ s.kind = "SYNACK"
           /\ conn' = [conn EXCEPT !.state = "TCP_ESTABLISHED", !.expected_ack = s.to]
           /\ tcp_send_segment({conn'})
  <2>1. s.to = 0
    BY <1>4 DEF Sent, Segment
  <2>2. /\ conn' \in ConnType /\ conn'.recv_buffer = conn.recv_buffer /\ conn'.expected_ack = 0
        /\ conn'.live = conn.live /\ conn'.listed = conn.listed
        /\ conn'.state = "TCP_ESTABLISHED"
    <3> DEFINE d == [conn EXCEPT !.state = "TCP_ESTABLISHED", !.expected_ack = s.to]
    <3>1. conn' = d /\ s.to \in Nat /\ "TCP_ESTABLISHED" \in ConnStates
      BY <1>4, <2>1 DEF ConnStates
    <3>2. d \in ConnType
      BY <1>1, <3>1, Zenon DEF ConnType
    <3>3. /\ d.recv_buffer = conn.recv_buffer /\ d.expected_ack = s.to
          /\ d.live = conn.live /\ d.listed = conn.listed
          /\ d.state = "TCP_ESTABLISHED"
      BY <1>1 DEF ConnType
    <3> QED BY <2>1, <3>1, <3>2, <3>3
  <2>3. edge' \in 0 .. Len(stream) /\ (edge' = edge \/ edge' = Told(conn'))
    <3>1. {conn'} \in SUBSET ConnType
      BY <2>2
    <3> QED BY <1>1, <1>4, <3>1, SendEdge
  <2>4. Typed'
    BY <1>1, <1>2, <2>2, <2>3 DEF Typed, peerVars
  <2>5. BlockInv'
    BY <1>1, <1>2, <2>2 DEF BlockInv
  <2>6. ShowInv'
    BY <1>2, <2>2 DEF TelnetInv, ShowInv
  <2>7. RoomInv'
    <3>1. Len(conn.recv_buffer) <= BufferSize /\ Room(conn') = Room(conn)
      BY <2>2 DEF TelnetInv, RoomInv, Room
    <3>2. Told(conn') <= 0 + Room(conn') /\ Told(conn') \in Nat /\ Room(conn') \in Int
      BY <1>1, <2>2, <3>1, ToldBounds, WindowBounds
    <3>3. Told(conn') <= ghost.taken + Room(conn')
      BY <1>1, <3>2
    <3> QED
      BY <1>1, <1>2, <2>2, <2>3, <3>1, <3>3 DEF TelnetInv, RoomInv
  <2> QED BY <2>4, <2>5, <2>6, <2>7 DEF TelnetInv
<1> QED
  BY <1>3, <1>4 DEF ReceiveSynSent

(* Segments that remove the connection or change nothing. *)
LEMMA QuietKeeps ==
  ASSUME TelnetInv, NEW s \in Sent,
         \/ ReceiveUnknown(s) \/ ReceiveReset(s)
         \/ handle_last_ack_state(s) \/ handle_wait_for_ack_state(s)
  PROVE  TelnetInv'
<1>1. Typed /\ conn \in ConnType /\ BlockInv
  BY DEF TelnetInv, Typed
<1>2. CASE UNCHANGED <<pc, conn, keys, edge, peerVars, ghost>>
  <2>1. BlockInv'
    BY <1>1, <1>2 DEF BlockInv
  <2> QED BY <1>1, <1>2, <2>1, FrameKeeps DEF peerVars, Typed
<1>3. CASE conn.listed /\ remove_connection /\ UNCHANGED <<pc, keys, edge, peerVars, ghost>>
  <2>1. /\ conn' \in ConnType
        /\ ~conn'.listed /\ (conn'.live <=> (conn.live /\ ~conn.listed))
        /\ conn'.recv_buffer = conn.recv_buffer /\ conn'.state = conn.state
        /\ conn'.expected_ack = conn.expected_ack
    BY <1>1, <1>3, RemoveIs
  <2>2. BlockInv'
    BY <1>1, <1>3, <2>1 DEF BlockInv
  <2> QED BY <1>1, <1>3, <2>1, <2>2, FrameKeeps DEF peerVars, Typed
<1>4. CASE ReceiveUnknown(s)
  BY <1>2, <1>4 DEF ReceiveUnknown, vars, peerVars
<1>5. CASE ReceiveReset(s)
  BY <1>3, <1>5 DEF ReceiveReset, Finds
<1>6. CASE handle_last_ack_state(s)
  BY <1>2, <1>3, <1>6 DEF handle_last_ack_state, Finds
<1>7. CASE handle_wait_for_ack_state(s)
  BY <1>2, <1>3, <1>7 DEF handle_wait_for_ack_state, Finds
<1> QED
  BY <1>4, <1>5, <1>6, <1>7

(* The freed block is written to by another owner. *)
LEMMA ReuseKeeps ==
  ASSUME TelnetInv, Reuse
  PROVE  TelnetInv'
<1>1. Typed /\ conn \in ConnType /\ ghost \in GhostType(ghost.shown) /\ BlockInv
  BY DEF TelnetInv, Typed
<1>2. /\ ~conn.live /\ UNCHANGED <<pc, keys, edge, peerVars>>
      /\ ghost' = [Plain(FALSE) EXCEPT !.reused = TRUE]
  BY DEF Reuse
<1>3. PICK state \in {"TCP_ESTABLISHED", "TCP_CLOSED"}, buffer \in {<<>>, <<Junk>>} :
        conn' = [conn EXCEPT !.state = state, !.recv_buffer = buffer]
  BY DEF Reuse
<1>4. buffer \in Seq(Bytes) /\ Len(buffer) <= 1 /\ \A i \in 1 .. Len(buffer) : buffer[i].n = 0
  <2>1. Junk \in Bytes /\ Junk.n = 0
    BY DEF Junk, Byte, Bytes, Kinds
  <2> HIDE DEF Junk
  <2>2. CASE buffer = <<>>
    BY <2>2
  <2>3. CASE buffer = <<Junk>>
    BY <2>1, <2>3
  <2> QED BY <2>2, <2>3
<1>5. /\ conn' \in ConnType /\ conn'.recv_buffer = buffer /\ conn'.expected_ack = conn.expected_ack
      /\ conn'.live = conn.live /\ conn'.listed = conn.listed
  BY <1>1, <1>3, <1>4 DEF ConnType, ConnStates
<1>6. /\ ghost' \in GhostType(ghost'.shown)
      /\ ghost'.taken = ghost.taken /\ ghost'.seen = ghost.seen /\ ghost'.inOrder = ghost.inOrder
      /\ ghost'.early = ghost.early /\ ghost'.overrun = ghost.overrun
  <2> DEFINE g == Plain(FALSE)
  <2>1. /\ g \in GhostType(g.shown)
        /\ g.taken = ghost.taken /\ g.seen = ghost.seen /\ g.inOrder = ghost.inOrder
        /\ g.early = ghost.early /\ g.overrun = ghost.overrun
    BY <1>1, PlainIs
  <2>2. ghost' = [g EXCEPT !.reused = TRUE]
    BY <1>2
  <2> HIDE DEF g
  <2>3. /\ ghost' \in GhostType(ghost'.shown)
        /\ ghost'.taken = g.taken /\ ghost'.seen = g.seen /\ ghost'.inOrder = g.inOrder
        /\ ghost'.early = g.early /\ ghost'.overrun = g.overrun
    BY <2>1, <2>2 DEF GhostType
  <2> QED BY <2>1, <2>3
<1>7. ~conn.listed /\ pc # "add"
  BY <1>1, <1>2 DEF BlockInv
<1>8. Typed'
  BY <1>1, <1>2, <1>5, <1>6 DEF Typed, peerVars
<1>9. BlockInv'
  BY <1>1, <1>2, <1>5 DEF BlockInv
<1>10. ShowInv'
  <2>1. ghost.taken \in Nat /\ ghost.seen \in Nat
    BY <1>1 DEF GhostType
  <2>2. Ordered(buffer) /\ Upto(buffer, ghost.taken) /\ Fresh(buffer, ghost.seen)
    BY <1>4, <2>1 DEF Ordered, Upto, Fresh
  <2> QED BY <1>5, <1>6, <2>2 DEF TelnetInv, ShowInv
<1>11. RoomInv'
  <2>1. BufferSize \in Nat \ {0} /\ Len(buffer) \in Nat
    BY <1>4, TelnetAssumption
  <2>2. Len(buffer) <= BufferSize
    BY <1>4, <2>1
  <2> QED BY <1>2, <1>5, <1>6, <1>7, <2>2 DEF TelnetInv, RoomInv
<1> QED
  BY <1>8, <1>9, <1>10, <1>11 DEF TelnetInv

(* The keyboard. *)
LEMMA KeysKeep ==
  ASSUME TelnetInv, KeyPress \/ KeyRelease
  PROVE  TelnetInv'
<1>1. Typed /\ conn \in ConnType /\ BlockInv
  BY DEF TelnetInv, Typed
<1>2. UNCHANGED <<pc, conn, edge, peerVars, ghost>> /\ keys' \in 0 .. MaxKeys
  BY <1>1, TelnetAssumption DEF KeyPress, KeyRelease, Typed
<1>3. BlockInv'
  BY <1>1, <1>2 DEF BlockInv
<1> QED
  BY <1>1, <1>2, <1>3, FrameKeeps DEF peerVars, Typed

-----------------------------------------------------------------------------
(* Data *)

(* Where a segment of the peer lies. *)
LEMMA SegmentIs ==
  ASSUME Typed, NEW s \in Sent, Arrives(s)
  PROVE  /\ s.from \in 0 .. Len(stream) /\ s.to \in 0 .. Len(stream) /\ s.from <= s.to
         /\ s.kind = "DATA" => s.from < s.to /\ s.to <= edge
         /\ s.kind # "DATA" => s.from = s.to
         /\ s.kind = "FIN" => s.from = Len(stream)
<1>1. Len(stream) \in Nat /\ edge \in 0 .. Len(stream) /\ MaxSegment \in Nat
  BY TelnetAssumption DEF Typed
<1>2. s.to - s.from \in 0 .. MaxSegment /\ (s.kind = "DATA" => s.from < s.to)
  BY DEF Arrives
<1>3. CASE s \in { Segment("DATA", a, b) : a \in 0 .. edge, b \in 0 .. edge }
  <2>1. s.kind = "DATA" /\ s.from \in 0 .. edge /\ s.to \in 0 .. edge
    BY <1>3 DEF Segment
  <2> QED BY <1>1, <1>2, <2>1
<1>4. CASE s \in { Segment("ACK", a, a) : a \in 0 .. edge }
  <2>1. s.kind = "ACK" /\ s.from \in 0 .. edge /\ s.to = s.from
    BY <1>4 DEF Segment
  <2> QED BY <1>1, <2>1
<1>5. CASE s \in {Segment("SYNACK", 0, 0), Segment("RST", 0, 0)}
  <2>1. s.kind \in {"SYNACK", "RST"} /\ s.from = 0 /\ s.to = 0
    BY <1>5 DEF Segment
  <2> QED BY <1>1, <2>1
<1>6. CASE s \in { Segment(kind, Len(stream), Len(stream)) : kind \in {"FIN", "LASTACK"} }
  <2>1. s.kind \in {"FIN", "LASTACK"} /\ s.from = Len(stream) /\ s.to = Len(stream)
    BY <1>6 DEF Segment
  <2> QED BY <1>1, <2>1
<1> QED
  BY <1>3, <1>4, <1>5, <1>6 DEF Sent

(* The bytes of a segment, numbered from those taken in before. *)
LEMMA PayloadIs ==
  ASSUME Typed, NEW s, s.from \in 0 .. Len(stream), s.to \in 0 .. Len(stream), s.from <= s.to
  PROVE  /\ Payload(s) \in Seq(Bytes) /\ Len(Payload(s)) = s.to - s.from
         /\ \A i \in 1 .. (s.to - s.from) : Payload(s)[i].n = ghost.taken + i
<1> DEFINE l == s.to - s.from
           D(i) == Byte(stream[s.from + i], ghost.taken + i)
<1>1. stream \in Seq(Kinds) /\ Len(stream) \in Nat /\ ghost.taken \in Nat
  BY DEF Typed, GhostType
<1>2. l \in Nat
  BY <1>1
<1>3. ASSUME NEW i \in 1 .. l PROVE D(i) \in Bytes /\ D(i).n = ghost.taken + i
  <2>1. s.from + i \in 1 .. Len(stream) /\ ghost.taken + i \in Nat
    BY <1>1
  <2>2. stream[s.from + i] \in Kinds
    BY <1>1, <2>1
  <2> QED BY <2>1, <2>2 DEF Byte, Bytes
<1>4. Payload(s) = [i \in 1 .. l |-> D(i)]
  BY DEF Payload
<1> HIDE DEF D, l
<1>5. [i \in 1 .. l |-> D(i)] \in Seq(Bytes) /\ Len([i \in 1 .. l |-> D(i)]) = l
  BY <1>2, <1>3, IsASeq
<1> QED
  BY <1>3, <1>4, <1>5 DEF l

(* Bytes whose contents are of no interest keep their numbers. *)
LEMMA KnownIs ==
  ASSUME NEW d \in Seq(Bytes), NEW plain
  PROVE  /\ Known(d, plain) \in Seq(Bytes) /\ Len(Known(d, plain)) = Len(d)
         /\ \A i \in 1 .. Len(d) : Known(d, plain)[i].n = d[i].n
<1> DEFINE K(i) == IF plain THEN d[i] ELSE Byte("x", d[i].n)
<1>1. DOMAIN d = 1 .. Len(d) /\ Len(d) \in Nat
  OBVIOUS
<1>2. ASSUME NEW i \in 1 .. Len(d) PROVE K(i) \in Bytes /\ K(i).n = d[i].n
  <2>1. d[i] \in Bytes
    OBVIOUS
  <2>2. d[i].n \in Nat /\ "x" \in Kinds
    BY <2>1 DEF Bytes, Kinds
  <2>3. Byte("x", d[i].n) \in Bytes /\ Byte("x", d[i].n).n = d[i].n
    BY <2>2 DEF Byte, Bytes
  <2> QED BY <2>1, <2>3
<1>3. Known(d, plain) = [i \in 1 .. Len(d) |-> K(i)]
  BY <1>1 DEF Known
<1> HIDE DEF K
<1>4. [i \in 1 .. Len(d) |-> K(i)] \in Seq(Bytes) /\ Len([i \in 1 .. Len(d) |-> K(i)]) = Len(d)
  BY <1>1, <1>2, IsASeq
<1> QED
  BY <1>2, <1>3, <1>4

(* Bytes appended with the next numbers keep the order. *)
LEMMA AppendKeeps ==
  ASSUME NEW buffer \in Seq(Bytes), NEW data \in Seq(Bytes), NEW t \in Nat, NEW seen \in Nat,
         seen <= t, Ordered(buffer), Upto(buffer, t),
         \A i \in 1 .. Len(data) : data[i].n = t + i,
         NEW R \in Seq(Bytes), Len(R) = Len(buffer) + Len(data),
         \A i \in 1 .. Len(R) : R[i].n = (buffer \o data)[i].n
  PROVE  /\ Ordered(R) /\ Upto(R, t + Len(data))
         /\ Fresh(buffer, seen) => Fresh(R, seen)
<1> DEFINE m == Len(buffer)
           k == Len(data)
<1>1. m \in Nat /\ k \in Nat
  OBVIOUS
<1>2. ASSUME NEW i \in 1 .. m PROVE R[i].n = buffer[i].n /\ buffer[i].n \in Nat /\ buffer[i].n <= t
  <2>1. (buffer \o data)[i] = buffer[i] /\ i \in 1 .. Len(R)
    BY <1>1
  <2>2. buffer[i] \in Bytes
    OBVIOUS
  <2> QED BY <2>1, <2>2 DEF Bytes, Upto
<1>3. ASSUME NEW i \in (m + 1) .. (m + k) PROVE R[i].n = t + (i - m)
  <2>1. i - m \in 1 .. k /\ i \in 1 .. Len(R)
    BY <1>1
  <2>2. (buffer \o data)[i] = data[i - m]
    BY <1>1, <2>1
  <2> QED BY <2>1, <2>2
<1> HIDE DEF m, k
<1>4. Len(R) = m + k
  BY DEF m, k
<1>5. \A i \in 1 .. (m + k) : i \in 1 .. m \/ i \in (m + 1) .. (m + k)
  BY <1>1
<1>6. Ordered(R)
  <2> SUFFICES ASSUME NEW i \in 1 .. (m + k), NEW j \in 1 .. (m + k), i < j, R[j].n > 0
               PROVE  R[i].n < R[j].n
    BY <1>4 DEF Ordered
  <2>1. CASE j \in 1 .. m
    <3>1. i \in 1 .. m
      BY <1>1, <2>1
    <3>2. buffer[i].n < buffer[j].n
      BY <1>2, <2>1, <3>1 DEF Ordered, m
    <3> QED BY <1>2, <2>1, <3>1, <3>2
  <2>2. CASE j \in (m + 1) .. (m + k) /\ i \in 1 .. m
    <3> DEFINE x == R[i].n
    <3>1. x \in Nat /\ x <= t
      BY <1>2, <2>2
    <3>2. R[j].n = t + (j - m) /\ j - m >= 1
      BY <1>1, <1>3, <2>2
    <3> HIDE DEF x
    <3>3. x < t + (j - m)
      BY <1>1, <3>1, <3>2
    <3> QED BY <3>2, <3>3 DEF x
  <2>3. CASE j \in (m + 1) .. (m + k) /\ i \in (m + 1) .. (m + k)
    BY <1>1, <1>3, <2>3
  <2> QED BY <1>5, <2>1, <2>2, <2>3
<1>7. Upto(R, t + k)
  <2> SUFFICES ASSUME NEW i \in 1 .. (m + k) PROVE R[i].n <= t + k
    BY <1>4 DEF Upto
  <2>1. CASE i \in 1 .. m
    <3> DEFINE x == R[i].n
    <3>1. x \in Nat /\ x <= t
      BY <1>2, <2>1
    <3> HIDE DEF x
    <3>2. x <= t + k
      BY <1>1, <3>1
    <3> QED BY <3>2 DEF x
  <2>2. CASE i \in (m + 1) .. (m + k)
    BY <1>1, <1>3, <2>2
  <2> QED BY <1>5, <2>1, <2>2
<1>8. ASSUME Fresh(buffer, seen) PROVE Fresh(R, seen)
  <2> SUFFICES ASSUME NEW i \in 1 .. (m + k), R[i].n > 0 PROVE R[i].n > seen
    BY <1>4 DEF Fresh
  <2>1. CASE i \in 1 .. m
    BY <1>2, <1>8, <2>1 DEF Fresh, m
  <2>2. CASE i \in (m + 1) .. (m + k)
    BY <1>1, <1>3, <2>2
  <2> QED BY <1>5, <2>1, <2>2
<1> QED
  BY <1>6, <1>7, <1>8 DEF k

(* What handle_established_state makes of the block: a request is served,  *)
(* data that fit are appended, and data that do not fit leave the length   *)
(* of the buffer to chance.                                                *)
Took(d, s, data, plain) ==
  /\ d \in ConnType /\ d.live = conn.live /\ d.listed = conn.listed
  /\ s.kind = "FIN" => d.state = "TCP_LAST_ACK"
  /\ s.kind # "FIN" => d.expected_ack = s.to
  /\ \/ /\ IsRequest(data) /\ d.recv_buffer = conn.recv_buffer
        /\ s.kind # "FIN" => d.state = "TCP_WAIT_FOR_ACK"
     \/ /\ ~IsRequest(data) /\ Len(conn.recv_buffer) + Len(data) <= BufferSize
        /\ d.recv_buffer = Known(conn.recv_buffer \o data, plain)
     \/ /\ ~IsRequest(data) /\ ~(Len(conn.recv_buffer) + Len(data) <= BufferSize)
        /\ d.recv_buffer \in {<<>>, <<Junk>>}

(* TakeData and TakeFin do no more than that. *)
LEMMA TakeIs ==
  ASSUME Typed, NEW s, s.to \in Nat, NEW data \in Seq(Bytes), NEW plain,
         conn.state = "TCP_ESTABLISHED",
         NEW c \in TakeData([conn EXCEPT !.expected_ack = s.to], data, plain),
         NEW d, d = TakeFin(c, s)
  PROVE  Took(d, s, data, plain)
<1> USE DEF Took
<1> DEFINE acked == [conn EXCEPT !.expected_ack = s.to]
           fits == Len(conn.recv_buffer) + Len(data) <= BufferSize
<1>1. conn \in ConnType
  BY DEF Typed
<1>2. /\ acked \in ConnType /\ acked.live = conn.live /\ acked.listed = conn.listed
      /\ acked.expected_ack = s.to /\ acked.recv_buffer = conn.recv_buffer
      /\ acked.state = conn.state
  BY <1>1 DEF ConnType
<1>3. conn.recv_buffer \in Seq(Bytes)
  BY <1>1 DEF ConnType
<1> HIDE DEF acked
<1>4. /\ c \in ConnType /\ c.live = conn.live /\ c.listed = conn.listed /\ c.expected_ack = s.to
      /\ \/ /\ IsRequest(data) /\ c.recv_buffer = conn.recv_buffer
            /\ c.state = "TCP_WAIT_FOR_ACK"
         \/ /\ ~IsRequest(data) /\ fits
            /\ c.recv_buffer = Known(conn.recv_buffer \o data, plain)
         \/ /\ ~IsRequest(data) /\ ~fits
            /\ c.recv_buffer \in {<<>>, <<Junk>>}
  <2> HIDE DEF fits
  <2>0. c \in TakeData(acked, data, plain)
    BY DEF acked
  <2>1. CASE IsRequest(data)
    <3>1. c = [acked EXCEPT !.state = "TCP_WAIT_FOR_ACK"]
      BY <2>0, <2>1 DEF TakeData
    <3>2. /\ c \in ConnType /\ c.live = acked.live /\ c.listed = acked.listed
          /\ c.expected_ack = acked.expected_ack /\ c.recv_buffer = acked.recv_buffer
          /\ c.state = "TCP_WAIT_FOR_ACK"
      BY <1>2, <3>1 DEF ConnType, ConnStates
    <3> QED BY <1>2, <2>1, <3>2
  <2>2. CASE ~IsRequest(data) /\ fits
    <3> DEFINE b == Known(acked.recv_buffer \o data, plain)
    <3>1. c = [acked EXCEPT !.recv_buffer = b]
      BY <1>2, <2>0, <2>2 DEF TakeData, fits
    <3>2. acked.recv_buffer \o data \in Seq(Bytes)
      BY <1>2, <1>3, ConcatProperties
    <3>3. b \in Seq(Bytes)
      BY <3>2, KnownIs
    <3> HIDE DEF b
    <3>4. /\ c \in ConnType /\ c.live = acked.live /\ c.listed = acked.listed
          /\ c.expected_ack = acked.expected_ack /\ c.recv_buffer = b
      BY <1>2, <3>1, <3>3 DEF ConnType
    <3> QED BY <1>2, <2>2, <3>4 DEF b
  <2>3. CASE ~IsRequest(data) /\ ~fits
    <3>1. PICK junk \in {<<>>, <<Junk>>} : c = [acked EXCEPT !.recv_buffer = junk]
      BY <1>2, <2>0, <2>3 DEF TakeData, fits
    <3>2. Junk \in Bytes
      BY DEF Junk, Byte, Bytes, Kinds
    <3> HIDE DEF Junk
    <3>3. junk \in Seq(Bytes)
      <4>1. CASE junk = <<>>
        BY <4>1
      <4>2. CASE junk = <<Junk>>
        BY <3>2, <4>2
      <4> QED BY <4>1, <4>2
    <3>4. /\ c \in ConnType /\ c.live = acked.live /\ c.listed = acked.listed
          /\ c.expected_ack = acked.expected_ack /\ c.recv_buffer = junk
      BY <1>2, <3>1, <3>3 DEF ConnType
    <3> QED BY <1>2, <2>3, <3>1, <3>4
  <2> QED BY <2>1, <2>2, <2>3
<1> HIDE DEF fits
<1>5. CASE s.kind # "FIN"
  <2>1. d = c
    BY <1>5 DEF TakeFin
  <2> QED BY <1>4, <1>5, <2>1 DEF fits
<1>6. CASE s.kind = "FIN"
  <2>1. d = [c EXCEPT !.expected_ack = @ + 1, !.state = "TCP_LAST_ACK"]
    BY <1>6 DEF TakeFin
  <2>2. c.expected_ack + 1 \in Nat /\ "TCP_LAST_ACK" \in ConnStates
    BY <1>4 DEF ConnStates
  <2>3. d \in ConnType
    BY <1>4, <2>1, <2>2, Zenon DEF ConnType
  <2>4. /\ d.live = c.live /\ d.listed = c.listed /\ d.recv_buffer = c.recv_buffer
        /\ d.state = "TCP_LAST_ACK"
    BY <1>4, <2>1 DEF ConnType
  <2> QED BY <1>4, <1>6, <2>3, <2>4 DEF fits
<1> QED
  BY <1>5, <1>6

(* handle_established_state. *)
LEMMA EstablishedKeeps ==
  ASSUME TelnetInv, NEW s \in Sent, handle_established_state(s)
  PROVE  TelnetInv'
<1> DEFINE data == Payload(s)
           acked == [conn EXCEPT !.expected_ack = s.to]
           over == ~IsRequest(data) /\ Len(conn.recv_buffer) + Len(data) > BufferSize
           plain == s.from = ghost.taken /\ ~over
           told == {conn} \cup CASE data # <<>>    -> {acked, conn'}
                                [] s.kind = "FIN" -> {conn'}
                                [] OTHER          -> {}
           T == ghost.taken
           L == Len(data)
           B == Len(conn.recv_buffer)
<1>1. /\ Typed /\ conn \in ConnType /\ ghost \in GhostType(ghost.shown) /\ BlockInv
      /\ conn.recv_buffer \in Seq(Bytes) /\ T \in Nat /\ ghost.seen \in Nat /\ B \in Nat
      /\ stream \in Seq(Kinds) /\ edge \in Nat /\ Len(stream) \in Nat
      /\ BufferSize \in Nat \ {0}
  BY TelnetAssumption DEF TelnetInv, Typed, ConnType, GhostType
<1>2. /\ Arrives(s) /\ conn.listed /\ conn.state = "TCP_ESTABLISHED"
      /\ T + s.to - s.from <= MaxTaken
      /\ UNCHANGED <<pc, key, keys, peerVars>>
  BY DEF handle_established_state, Finds
<1>3. PICK c \in TakeData(acked, data, ghost.plain /\ plain) :
        conn' = TakeFin(c, s) /\ tcp_send_segment(told)
  BY DEF handle_established_state
<1>4. ghost' = [Plain(plain) EXCEPT
             !.taken = IF IsRequest(data) THEN @ ELSE @ + Len(data),
             !.fin = @ \/ s.kind = "FIN",
             !.early = @ \/ (edge' > edge /\ edge' > Told(conn')),
             !.inOrder = @ /\ s.from = ghost.taken,
             !.overrun = over]
  BY DEF handle_established_state
<1>5. /\ s.from \in 0 .. Len(stream) /\ s.to \in 0 .. Len(stream) /\ s.from <= s.to
      /\ s.kind = "DATA" => s.from < s.to /\ s.to <= edge
      /\ s.kind # "DATA" => s.from = s.to
      /\ s.kind = "FIN" => s.from = Len(stream)
  BY <1>1, <1>2, SegmentIs
<1>6. /\ data \in Seq(Bytes) /\ L = s.to - s.from /\ L \in Nat
      /\ \A i \in 1 .. L : data[i].n = T + i
  BY <1>1, <1>5, PayloadIs
<1> HIDE DEF data
<1>7. /\ conn' \in ConnType /\ conn'.live = conn.live /\ conn'.listed = conn.listed
      /\ s.kind = "FIN" => conn'.state = "TCP_LAST_ACK"
      /\ s.kind # "FIN" => conn'.expected_ack = s.to
      /\ \/ /\ IsRequest(data) /\ conn'.recv_buffer = conn.recv_buffer
            /\ s.kind # "FIN" => conn'.state = "TCP_WAIT_FOR_ACK"
         \/ /\ ~IsRequest(data) /\ B + L <= BufferSize
            /\ conn'.recv_buffer = Known(conn.recv_buffer \o data, ghost.plain /\ plain)
         \/ /\ ~IsRequest(data) /\ ~(B + L <= BufferSize)
            /\ conn'.recv_buffer \in {<<>>, <<Junk>>}
  <2> DEFINE pl == ghost.plain /\ plain
             d == conn'
  <2>1. s.to \in Nat
    BY <1>1, <1>5
  <2>2. c \in TakeData([conn EXCEPT !.expected_ack = s.to], data, pl) /\ d = TakeFin(c, s)
    BY <1>3
  <2> HIDE DEF pl, d
  <2>3. Took(d, s, data, pl)
    <3> HIDE DEF acked
    <3> QED BY <1>1, <1>2, <1>6, <2>1, <2>2, TakeIs
  <2> QED BY <2>3 DEF Took, d, pl
<1> DEFINE taken == IF IsRequest(data) THEN T ELSE T + L
<1>8. /\ ghost' \in GhostType(ghost'.shown)
      /\ ghost'.taken = taken /\ ghost'.seen = ghost.seen
      /\ ghost'.inOrder <=> (ghost.inOrder /\ s.from = T)
      /\ ghost'.early <=> (ghost.early \/ (edge' > edge /\ edge' > Told(conn')))
      /\ ghost'.overrun <=> over
  <2> DEFINE g == Plain(plain)
             fin == g.fin \/ s.kind = "FIN"
             early == g.early \/ (edge' > edge /\ edge' > Told(conn'))
             inOrder == g.inOrder /\ s.from = T
             t == IF IsRequest(data) THEN g.taken ELSE g.taken + L
  <2>1. /\ g \in GhostType(g.shown)
        /\ g.taken = T /\ g.seen = ghost.seen /\ g.inOrder = ghost.inOrder
        /\ g.early = ghost.early
    BY <1>1, PlainIs
  <2>2. ghost' = [g EXCEPT !.taken = t, !.fin = fin, !.early = early, !.inOrder = inOrder,
                           !.overrun = over]
    BY <1>4
  <2>3. fin \in BOOLEAN /\ early \in BOOLEAN /\ inOrder \in BOOLEAN /\ over \in BOOLEAN
    OBVIOUS
  <2>4. t = taken
    BY <2>1
  <2>5. t \in Nat
    BY <1>1, <1>6, <2>4
  <2>6. /\ early <=> (ghost.early \/ (edge' > edge /\ edge' > Told(conn')))
        /\ inOrder <=> (ghost.inOrder /\ s.from = T)
    BY <2>1
  <2> HIDE DEF g, fin, early, inOrder, t, over
  <2>7. ghost' \in GhostType(ghost'.shown)
    BY <2>1, <2>2, <2>3, <2>5 DEF GhostType
  <2>8. /\ ghost'.taken = t /\ ghost'.seen = g.seen /\ ghost'.inOrder = inOrder
        /\ ghost'.early = early /\ ghost'.overrun = over
    BY <2>1, <2>2 DEF GhostType
  <2> QED BY <2>1, <2>4, <2>6, <2>7, <2>8
<1>9. edge' \in 0 .. Len(stream) /\ (edge' = edge \/ edge' > edge)
  <2>1. acked \in ConnType
    <3>1. s.to \in Nat
      BY <1>1, <1>5
    <3> QED BY <1>1, <3>1, Zenon DEF ConnType
  <2>2. told \in SUBSET ConnType
    <3> HIDE DEF acked
    <3> QED BY <1>1, <1>7, <2>1
  <2> HIDE DEF told
  <2> QED BY <1>1, <1>3, <2>2, SendEdge
<1> HIDE DEF told, acked, plain
<1>10. Typed'
  BY <1>1, <1>2, <1>7, <1>8, <1>9 DEF Typed, peerVars
<1>11. BlockInv'
  BY <1>1, <1>2, <1>7 DEF BlockInv
<1> DEFINE b == conn'.recv_buffer
<1>12. /\ b \in Seq(Bytes)
       /\ \/ IsRequest(data) /\ b = conn.recv_buffer
          \/ /\ ~IsRequest(data) /\ B + L <= BufferSize /\ Len(b) = B + L
             /\ \A i \in 1 .. Len(b) : b[i].n = (conn.recv_buffer \o data)[i].n
          \/ /\ ~IsRequest(data) /\ ~(B + L <= BufferSize) /\ Len(b) <= 1
             /\ \A i \in 1 .. Len(b) : b[i].n = 0
  <2>1. b \in Seq(Bytes)
    BY <1>7 DEF ConnType
  <2>2. CASE /\ ~IsRequest(data) /\ B + L <= BufferSize
             /\ b = Known(conn.recv_buffer \o data, ghost.plain /\ plain)
    <3> DEFINE cat == conn.recv_buffer \o data
               pl == ghost.plain /\ plain
    <3>1. cat \in Seq(Bytes) /\ Len(cat) = B + L
      BY <1>1, <1>6, ConcatProperties
    <3>0. b = Known(cat, pl)
      BY <2>2
    <3> HIDE DEF cat, pl
    <3>2. Len(b) = Len(cat) /\ \A i \in 1 .. Len(cat) : b[i].n = cat[i].n
      BY <3>0, <3>1, KnownIs
    <3>3. Len(b) = B + L /\ \A i \in 1 .. Len(b) : b[i].n = (conn.recv_buffer \o data)[i].n
      BY <3>1, <3>2 DEF cat
    <3> QED BY <2>1, <2>2, <3>3
  <2>3. CASE /\ ~IsRequest(data) /\ ~(B + L <= BufferSize)
             /\ b \in {<<>>, <<Junk>>}
    <3>1. Junk \in Bytes /\ Junk.n = 0
      BY DEF Junk, Byte, Bytes, Kinds
    <3> HIDE DEF Junk
    <3> DEFINE x == b
    <3> HIDE DEF x
    <3>4. Len(x) <= 1 /\ \A i \in 1 .. Len(x) : x[i].n = 0
      <4>1. x \in {<<>>, <<Junk>>}
        BY <2>3 DEF x
      <4>2. CASE x = <<>>
        BY <4>2
      <4>3. CASE x = <<Junk>>
        BY <3>1, <4>3
      <4> QED BY <4>1, <4>2, <4>3
    <3> QED BY <2>1, <2>3, <3>4 DEF x
  <2> QED BY <1>7, <2>1, <2>2, <2>3
<1> HIDE DEF b
<1>13. ShowInv'
  <2>1. /\ Ordered(conn.recv_buffer) /\ Upto(conn.recv_buffer, T)
        /\ pc # "clear" => Fresh(conn.recv_buffer, ghost.seen)
        /\ ghost.seen <= T /\ T <= MaxTaken
    BY DEF TelnetInv, ShowInv
  <2>2. taken \in Nat /\ T <= taken /\ taken <= MaxTaken /\ ghost.seen <= taken
    BY <1>1, <1>2, <1>5, <1>6, <2>1, TelnetAssumption
  <2>3. Ordered(b) /\ Upto(b, taken) /\ (pc # "clear" => Fresh(b, ghost.seen))
    <3>1. CASE IsRequest(data) /\ b = conn.recv_buffer
      BY <2>1, <3>1
    <3>2. CASE /\ ~IsRequest(data) /\ Len(b) = B + L
               /\ \A i \in 1 .. Len(b) : b[i].n = (conn.recv_buffer \o data)[i].n
      <4>1. taken = T + L
        BY <3>2
      <4>2. Ordered(b) /\ Upto(b, T + L) /\ (Fresh(conn.recv_buffer, ghost.seen) => Fresh(b, ghost.seen))
        BY <1>1, <1>6, <1>12, <2>1, <3>2, AppendKeeps
      <4> QED BY <2>1, <4>1, <4>2
    <3>3. CASE \A i \in 1 .. Len(b) : b[i].n = 0
      BY <1>1, <2>2, <3>3 DEF Ordered, Upto, Fresh
    <3> QED BY <1>12, <3>1, <3>2, <3>3
  <2> HIDE DEF taken
  <2> QED BY <1>2, <1>8, <2>2, <2>3 DEF ShowInv, b
<1>14. RoomInv'
  <2>0. B <= BufferSize
    BY DEF TelnetInv, RoomInv
  <2>1. Len(b) <= BufferSize
    BY <1>1, <1>12, <2>0
  <2>2. ASSUME ghost'.inOrder, ~ghost'.early
        PROVE  /\ s.from = T /\ edge <= T + (BufferSize - B)
               /\ B + L <= BufferSize
    <3>1. ghost.inOrder /\ ~ghost.early /\ s.from = T
      BY <1>8, <2>2
    <3>2. edge <= T + (BufferSize - B)
      BY <1>2, <3>1 DEF TelnetInv, RoomInv, Room
    <3>3. CASE s.kind = "DATA"
      <4>1. s.to <= edge /\ L = s.to - T
        BY <1>5, <1>6, <3>1, <3>3
      <4> QED BY <1>1, <1>5, <1>6, <3>1, <3>2, <4>1
    <3>4. CASE s.kind # "DATA"
      <4>1. L = 0
        BY <1>1, <1>5, <1>6, <3>4
      <4> QED BY <1>1, <2>0, <3>1, <3>2, <4>1
    <3> QED BY <3>3, <3>4
  <2>3. ghost'.inOrder /\ ~ghost'.early => ~ghost'.overrun
    BY <1>1, <1>6, <1>8, <2>2
  <2>4. ASSUME conn'.state \in {"TCP_SYN_SENT", "TCP_ESTABLISHED"},
               ghost'.inOrder, ~ghost'.early
        PROVE  edge' <= ghost'.taken + Room(conn') /\ conn'.expected_ack <= ghost'.taken
    <3>1. s.from = T /\ edge <= T + (BufferSize - B) /\ B + L <= BufferSize
      BY <2>2, <2>4
    <3>2. s.kind # "FIN" /\ ~IsRequest(data)
      BY <1>7, <2>4
    <3>3. Len(b) = B + L /\ taken = T + L /\ ghost'.taken = T + L
      BY <1>8, <1>12, <3>1, <3>2
    <3>4. conn'.expected_ack = T + L
      BY <1>1, <1>5, <1>6, <1>7, <3>1, <3>2
    <3>5. Room(conn') = BufferSize - (B + L)
      BY <3>3 DEF Room, b
    <3>6. Told(conn') <= conn'.expected_ack + Room(conn') /\ Told(conn') \in Nat
      BY <1>1, <1>7, <2>1, ToldBounds DEF b
    <3>7. edge' = edge \/ edge' <= Told(conn')
      <4>1. ~(edge' > edge /\ edge' > Told(conn'))
        BY <1>8, <2>4
      <4>2. edge' \in Nat
        BY <1>1, <1>9
      <4> QED BY <1>1, <1>9, <3>6, <4>1, <4>2
    <3>8. edge' <= (T + L) + (BufferSize - (B + L))
      <4> DEFINE e == edge'
                 w == Told(conn')
      <4>1. e = edge \/ e <= w
        BY <3>7
      <4>2. w \in Nat /\ w <= (T + L) + (BufferSize - (B + L)) /\ e \in Nat
        BY <1>1, <1>9, <3>4, <3>5, <3>6
      <4> HIDE DEF e, w
      <4>3. e <= (T + L) + (BufferSize - (B + L))
        BY <1>1, <1>6, <3>1, <4>1, <4>2
      <4> QED BY <4>3 DEF e
    <3>9. T + L <= T + L
      BY <1>1, <1>6
    <3> QED BY <3>3, <3>4, <3>5, <3>8, <3>9
  <2> QED BY <2>1, <2>3, <2>4 DEF RoomInv, b
<1> QED
  BY <1>10, <1>11, <1>13, <1>14 DEF TelnetInv

(* The invariant holds when the shell starts. *)
LEMMA TelnetInitial == Init => TelnetInv
<1> SUFFICES ASSUME Init PROVE TelnetInv
  OBVIOUS
<1>1. <<>> \in Seq(Bytes) /\ Len(<<>>) = 0
  OBVIOUS
<1>2. /\ conn \in ConnType /\ conn.live = FALSE /\ conn.listed = FALSE
      /\ conn.recv_buffer = <<>> /\ conn.expected_ack = 0
  BY <1>1 DEF Init, NoConn, ConnType, ConnStates
<1>3. /\ ghost \in GhostType(ghost.shown) /\ ghost.taken = 0 /\ ghost.seen = 0
      /\ ghost.overrun = FALSE
  BY DEF Init, GhostType
<1>4. stream \in Seq(Kinds)
  BY TelnetAssumption DEF Init
<1>5. Typed
  <2>1. keys \in 0 .. MaxKeys
    BY TelnetAssumption DEF Init
  <2>2. edge \in 0 .. Len(stream)
    BY <1>4 DEF Init
  <2>3. pc \in PCs
    BY DEF Init, PCs
  <2> QED BY <1>2, <1>3, <1>4, <2>1, <2>2, <2>3 DEF Typed
<1>6. BlockInv
  BY <1>2 DEF Init, BlockInv
<1>7. ShowInv
  BY <1>1, <1>2, <1>3, TelnetAssumption DEF ShowInv, Ordered, Upto, Fresh
<1>8. RoomInv
  BY <1>1, <1>2, <1>3, TelnetAssumption DEF Init, RoomInv
<1> QED
  BY <1>5, <1>6, <1>7, <1>8 DEF TelnetInv

(* The invariant is inductive. *)
LEMMA TelnetInductive == TelnetInv /\ [Next]_vars => TelnetInv'
<1> SUFFICES ASSUME TelnetInv, [Next]_vars PROVE TelnetInv'
  OBVIOUS
<1>1. ASSUME telnet_command PROVE TelnetInv'
  BY <1>1, ShellKeeps, ConnectKeeps, ShowKeeps, ClearKeeps DEF telnet_command
<1>2. ASSUME NEW s \in Sent, tcp_handle_packet(s) PROVE TelnetInv'
  BY <1>2, QuietKeeps, SynSentKeeps, EstablishedKeeps DEF tcp_handle_packet
<1>3. CASE UNCHANGED vars
  <2>1. Typed /\ conn \in ConnType /\ BlockInv
    BY DEF TelnetInv, Typed
  <2>2. BlockInv'
    BY <1>3, <2>1 DEF vars, BlockInv
  <2> QED BY <1>3, <2>1, <2>2, FrameKeeps DEF vars, Typed
<1> QED
  BY <1>1, <1>2, <1>3, ReuseKeeps, KeysKeep DEF Next

-----------------------------------------------------------------------------
(* The theorems *)

(* However a session ends, the shell is back at its prompt with the block  *)
(* freed and off the list, and the list never holds a freed block.         *)
THEOREM BlocksNeverLeak == Spec => []NoConnectionLeaks
<1>1. TelnetInv => NoConnectionLeaks
  <2> SUFFICES ASSUME TelnetInv PROVE NoConnectionLeaks
    OBVIOUS
  <2>1. Typed /\ BlockInv /\ ShowInv /\ conn.recv_buffer \in Seq(Bytes)
    BY DEF TelnetInv, Typed, ConnType
  <2>2. ghost.taken \in Nat /\ ghost.seen \in Nat
    BY <2>1 DEF Typed, GhostType
  <2>3. ghost.taken \in 0 .. MaxTaken /\ ghost.seen \in 0 .. ghost.taken
    BY <2>1, <2>2, TelnetAssumption DEF ShowInv
  <2>4. ASSUME NEW i \in DOMAIN conn.recv_buffer
        PROVE  conn.recv_buffer[i].b \in Kinds /\ conn.recv_buffer[i].n \in 0 .. ghost.taken
    <3>1. i \in 1 .. Len(conn.recv_buffer) /\ conn.recv_buffer[i] \in Bytes
      BY <2>1
    <3>2. conn.recv_buffer[i].b \in Kinds /\ conn.recv_buffer[i].n \in Nat
      BY <3>1 DEF Bytes
    <3>3. conn.recv_buffer[i].n <= ghost.taken
      BY <2>1, <3>1 DEF ShowInv, Upto
    <3> QED BY <2>2, <3>2, <3>3
  <2>5. TypeOK
    BY <2>1, <2>3, <2>4 DEF TypeOK, Typed, PCs
  <2> QED BY <2>1, <2>5 DEF NoConnectionLeaks, BlockInv
<1> QED
  BY <1>1, TelnetInitial, TelnetInductive, PTL DEF Spec

(* telnet shows no received byte twice and none out of order, however the  *)
(* interrupt's appending falls between its reading and its emptying of the *)
(* buffer.                                                                 *)
THEOREM BytesShownOnce == Spec => []ShownOnce
<1>1. TelnetInv => ShownOnce
  <2> SUFFICES ASSUME TelnetInv, pc = "show", NEW i \in DOMAIN conn.recv_buffer,
                      conn.recv_buffer[i].n > 0
               PROVE  /\ conn.recv_buffer[i].n > ghost.seen
                      /\ \A j \in 1 .. (i - 1) : conn.recv_buffer[j].n < conn.recv_buffer[i].n
    BY DEF ShownOnce
  <2>1. conn.recv_buffer \in Seq(Bytes) /\ ShowInv
    BY DEF TelnetInv, Typed, ConnType
  <2>2. i \in 1 .. Len(conn.recv_buffer) /\ Len(conn.recv_buffer) \in Nat
    BY <2>1
  <2>3. conn.recv_buffer[i].n > ghost.seen
    BY <2>1, <2>2 DEF ShowInv, Fresh
  <2>4. \A j \in 1 .. (i - 1) : j \in 1 .. Len(conn.recv_buffer) /\ j < i
    BY <2>2
  <2>5. \A j \in 1 .. (i - 1) : conn.recv_buffer[j].n < conn.recv_buffer[i].n
    BY <2>1, <2>2, <2>4 DEF ShowInv, Ordered
  <2> QED BY <2>3, <2>5
<1> QED
  BY <1>1, TelnetInitial, TelnetInductive, PTL DEF Spec

(* handle_established_state appends without looking, and yet the buffer    *)
(* does not run over while segments come in order and the peer has only    *)
(* been told windows that count what is in it.                             *)
THEOREM BufferIsLargeEnough == Spec => []BufferInBounds
<1>1. TelnetInv => BufferInBounds
  BY DEF TelnetInv, RoomInv, BufferInBounds
<1> QED
  BY <1>1, TelnetInitial, TelnetInductive, PTL DEF Spec

=============================================================================
