------------------------------- MODULE Telnet -------------------------------
(***************************************************************************)
(* The client side of TCP: the shell's telnet command,                     *)
(* src/src/shell/shell.c, on a connection of src/src/drivers/net/tcp.c.    *)
(* The command loops in the foreground; segments are handled in the        *)
(* receive interrupt, which may come between any two of its steps and      *)
(* shares the control block with it without a lock.                        *)
(*                                                                         *)
(* The remote side and the network are external.  Any segment the peer may *)
(* have sent is handled at any time, repeatedly, or never: loss,           *)
(* repetition and reordering need no steps of their own.  The peer keeps   *)
(* to the windows it was told.  Its sequence numbers are positions in its  *)
(* stream.  A connection that telnet opens has no timer (tcp_connect       *)
(* starts none), so check_tcp_timers does not touch it; what that does to  *)
(* the server's connections is in TCP.  The retransmit queue matters here  *)
(* only for its first word, which tcp_connect does not initialise: that a  *)
(* second remove_connection frees its entries again is left out.           *)
(***************************************************************************)
EXTENDS Integers, SequencesExt

CONSTANTS
  Streams,        \* byte streams the remote side may send
  BufferSize,     \* size of recv_buffer (4096)
  MaxSegment,     \* bound: bytes in a segment
  MaxTaken,       \* bound: bytes taken in, repeated ones included
  MaxKeys         \* bound: keys pressed in a session

(* The bytes that are told apart; "GET" stands for the first bytes of an    *)
(* HTTP request.                                                           *)
Kinds == {"IAC", "WILL", "SB", "SE", "x", "GET"}

ASSUME TelnetAssumption ==
  /\ Streams \subseteq Seq(Kinds)
  /\ BufferSize \in Nat \ {0}
  /\ MaxSegment \in Nat \ {0} /\ MaxTaken \in Nat /\ MaxKeys \in Nat

VARIABLES
  pc,             \* where the shell is in telnet_command
  conn,           \* the control block that telnet_command points to
  key, keys,      \* g_ch holds a character; keys pressed so far
  stream,         \* the bytes the peer sends
  open, edge,     \* the peer got the SYN; how far it may send
  ghost,          \* history of the session, for the properties
  halted          \* the kernel faulted on a wild pointer

peerVars == <<stream, open>>
vars == <<pc, conn, key, keys, stream, open, edge, ghost, halted>>

(* A byte with its place among the bytes taken in; Junk was in the buffer  *)
(* without having been received.                                           *)
Byte(b, n) == [b |-> b, n |-> n]
Junk == Byte("x", 0)

(* A segment: its payload lies after `from` and up to `to`. *)
Segment(kind, from, to) == [kind |-> kind, from |-> from, to |-> to]

-----------------------------------------------------------------------------
(* telnet_filter *)

(* Past a subnegotiation: to the next IAC, and past IAC SE. *)
AfterSub(data, i) ==
  LET iacs == { k \in i .. Len(data) : data[k].b = "IAC" }
      j    == IF iacs = {} THEN Len(data) + 1 ELSE CHOOSE k \in iacs : \A l \in iacs : k <= l
  IN  IF j + 1 <= Len(data) /\ data[j + 1].b = "SE" THEN j + 2 ELSE j

(* Mutant: an escaped IAC is passed over one byte short. *)
FilterEscapesOnce(data, outsz) ==
  LET len == Len(data)
      F[i \in 1 .. (len + 3), room \in 0 .. outsz] ==
        IF i > len \/ room = 0 THEN <<>>
        ELSE IF data[i].b # "IAC" THEN <<data[i].b>> \o F[i + 1, room - 1]
        ELSE IF i = len THEN F[i + 1, room]
        ELSE CASE data[i + 1].b = "IAC" -> <<data[i + 1].b>> \o F[i + 1, room - 1]
               [] data[i + 1].b = "SB"  -> F[AfterSub(data, i + 2), room]
               [] OTHER                 -> F[i + 3, room]
  IN F[1, outsz - 1]

(* What is shown of `data` in a buffer of outsz bytes, its end included:   *)
(* every command other than IAC IAC and SB is taken to have three bytes.   *)
telnet_filter(data, outsz) ==
  LET len == Len(data)
      F[i \in 1 .. (len + 3), room \in 0 .. outsz] ==
        IF i > len \/ room = 0 THEN <<>>
        ELSE IF data[i].b # "IAC" THEN <<data[i].b>> \o F[i + 1, room - 1]
        ELSE IF i = len THEN F[i + 1, room]
        ELSE CASE data[i + 1].b = "IAC" -> <<data[i + 1].b>> \o F[i + 2, room - 1]
               [] data[i + 1].b = "SB"  -> F[AfterSub(data, i + 2), room]
               [] OTHER                 -> F[i + 3, room]
  IN F[1, outsz - 1]

(* The reference: the receiver's automaton of the Telnet protocol, which   *)
(* sees one byte at a time.                                                *)
Decode(data) ==
  LET In(s, mode) == [s EXCEPT !.mode = mode]
      Out(s, byte) == [mode |-> "data", out |-> Append(s.out, byte)]
      Step(s, byte) ==
        CASE s.mode = "data" -> IF byte = "IAC" THEN In(s, "iac") ELSE Out(s, byte)
          [] s.mode = "iac"  -> CASE byte = "IAC" -> Out(s, byte)
                                  [] byte = "SB"  -> In(s, "sub")
                                  [] OTHER          -> In(s, "option")
          [] s.mode = "sub"  -> In(s, IF byte = "IAC" THEN "subiac" ELSE "sub")
          [] s.mode = "subiac" -> In(s, IF byte = "SE" THEN "data" ELSE "sub")
          [] OTHER -> In(s, "data")
  IN FoldLeft(Step, [mode |-> "data", out |-> <<>>], data)

-----------------------------------------------------------------------------
(* What the connection sends *)

NoConn == [live |-> FALSE, listed |-> FALSE, clean |-> TRUE, state |-> "TCP_CLOSED",
           expected_ack |-> 0, recv_buffer |-> <<>>]

(* Mutant: the window that tcp_send_segment sets first and then replaces. *)
DefaultWindow(c) == BufferSize

(* The free space of the receive buffer, a 16-bit difference. *)
Window(c) == (BufferSize - Len(c.recv_buffer)) % 65536

(* A segment of the client tells the peer how far it may send; it may not  *)
(* arrive.  `blocks` are the control blocks from which segments are sent   *)
(* in one step.  The peer has no use for more than its stream.             *)
Told(c) == Min({c.expected_ack + Window(c), Len(stream)})

tcp_send_segment(blocks) ==
  edge' \in {edge} \cup { e \in { Told(c) : c \in blocks } : e > edge }

(* The queue is freed (again, if the block is not listed any more); only a *)
(* listed block is unlinked and freed.  The block keeps its contents.      *)
(* Where the queue's end was not initialised the walk may fault.           *)
remove_connection ==
  /\ conn' = [conn EXCEPT !.live = IF conn.listed THEN FALSE ELSE @, !.listed = FALSE]
  /\ halted' \in IF conn.clean THEN {FALSE} ELSE BOOLEAN

-----------------------------------------------------------------------------
(* The shell *)

Shell(at) == pc = at /\ ~halted

(* The history, which is given up once the session is not plain. *)
Plain(still) == IF still THEN ghost ELSE [ghost EXCEPT !.plain = FALSE, !.shown = <<>>]

(* tcp_connect up to the SYN.  The block is not cleared: its receive       *)
(* length and its queue are what was in memory.  Without a block, or with  *)
(* an address that is none, the shell is back at its prompt at once.       *)
tcp_connect ==
  /\ Shell("prompt") /\ ~open
  /\ \E clean \in BOOLEAN :
       conn' = [live |-> TRUE, listed |-> FALSE, clean |-> clean,
                state |-> "TCP_SYN_SENT", expected_ack |-> 0,
                recv_buffer |-> IF clean THEN <<>> ELSE <<Junk>>]
  /\ edge' = Told(conn')
  /\ open' \in BOOLEAN                              \* the SYN arrives or is lost
  /\ pc' = "add"
  /\ ghost' = [Plain(conn'.clean) EXCEPT !.inOrder = @ /\ conn'.clean]
  /\ UNCHANGED <<key, keys, stream, halted>>

add_connection ==
  /\ Shell("add")
  /\ conn' = [conn EXCEPT !.listed = TRUE]
  /\ pc' = "wait"
  /\ UNCHANGED <<key, keys, edge, peerVars, ghost, halted>>

(* Mutant: the connection is given up without being removed. *)
GiveUpKeeps ==
  /\ Shell("wait") /\ conn.state # "TCP_ESTABLISHED"
  /\ pc' = "prompt"
  /\ UNCHANGED <<conn, key, keys, edge, peerVars, ghost, halted>>

(* No answer within 500 ticks. *)
GiveUp ==
  /\ Shell("wait") /\ conn.state # "TCP_ESTABLISHED"
  /\ remove_connection
  /\ pc' = "prompt"
  /\ UNCHANGED <<key, keys, edge, peerVars, ghost>>

(* Connected: offer to suppress go-ahead. *)
Greet ==
  /\ Shell("wait") /\ conn.state = "TCP_ESTABLISHED"
  /\ tcp_send_segment({conn})
  /\ pc' = "loop"
  /\ UNCHANGED <<conn, key, keys, peerVars, ghost, halted>>

Loop ==
  /\ Shell("loop")
  /\ pc' = CASE conn.state # "TCP_ESTABLISHED" -> "close"
             [] conn.recv_buffer # <<>>        -> "show"
             [] OTHER                          -> "keys"
  /\ UNCHANGED <<conn, key, keys, edge, peerVars, ghost, halted>>

(* Filter what is in the buffer and show it.  The history is kept while    *)
(* the session is plain: segments in order, chunks that end between two    *)
(* commands, nothing lost.                                                 *)
Show ==
  /\ Shell("show")
  /\ LET data  == conn.recv_buffer
         upTo  == IF data = <<>> \/ Last(data).n = 0 THEN ghost.seen ELSE Last(data).n
         whole == ghost.plain /\ Decode(SubSeq(stream, 1, upTo)).mode = "data"
     IN ghost' = [ghost EXCEPT
          !.shown = IF whole THEN @ \o telnet_filter(data, BufferSize + 1) ELSE <<>>,
          !.seen  = upTo,
          !.plain = whole]
  /\ pc' = "clear"
  /\ UNCHANGED <<conn, key, keys, edge, peerVars, halted>>

(* Mutant: the length is left as it is. *)
ClearForgotten ==
  /\ Shell("clear")
  /\ pc' = "keys"
  /\ UNCHANGED <<conn, key, keys, edge, peerVars, ghost, halted>>

(* recv_buffer_len = 0, whatever has been appended since it was read. *)
Clear ==
  /\ Shell("clear")
  /\ conn' = [conn EXCEPT !.recv_buffer = <<>>]
  /\ ghost' = Plain(\A i \in DOMAIN conn.recv_buffer : conn.recv_buffer[i].n <= ghost.seen)
  /\ pc' = "keys"
  /\ UNCHANGED <<key, keys, edge, peerVars, halted>>

(* kbhit and kb_getchar: a key released in between makes the second wait   *)
(* for the next one.  The keyboard's table has neither ^C nor 0xFF, so     *)
(* every key is sent, as one byte or as CR LF.  The test of the state that *)
(* follows leaves the loop for three states that end it anyway.            *)
Kbhit ==
  /\ Shell("keys")
  /\ pc' = IF key THEN "getchar" ELSE "loop"
  /\ UNCHANGED <<conn, key, keys, edge, peerVars, ghost, halted>>

SendKey ==
  /\ Shell("getchar") /\ key
  /\ key' = FALSE
  /\ tcp_send_segment({conn})
  /\ pc' = "loop"
  /\ UNCHANGED <<conn, keys, peerVars, ghost, halted>>

Close ==
  /\ Shell("close")
  /\ remove_connection
  /\ pc' = "prompt"
  /\ UNCHANGED <<key, keys, edge, peerVars, ghost>>

telnet_command == \/ tcp_connect \/ add_connection \/ GiveUp \/ Greet
                  \/ Loop \/ Show \/ Clear \/ Kbhit \/ SendKey \/ Close

-----------------------------------------------------------------------------
(* The receive interrupt: tcp_handle_packet for a segment of the peer *)

(* External: the segments the peer may have sent. *)
Sent ==
  { Segment("DATA", a, b) : a \in 0 .. edge, b \in 0 .. edge }
    \cup { Segment("ACK", a, a) : a \in 0 .. edge }
    \cup {Segment("SYNACK", 0, 0), Segment("RST", 0, 0)}
    \cup { Segment(kind, Len(stream), Len(stream)) : kind \in {"FIN", "LASTACK"} }

Arrives(s) ==
  /\ ~halted /\ open /\ pc # "prompt"              \* bound: of no interest later
  /\ s.to - s.from \in 0 .. MaxSegment
  /\ s.kind = "DATA" => s.from < s.to
  /\ s.kind = "LASTACK" => ghost.fin

Finds(s) == Arrives(s) /\ conn.listed

(* A segment for no connection is answered with a reset, of which nothing  *)
(* is kept.                                                                *)
ReceiveUnknown(s) == Arrives(s) /\ ~conn.listed /\ UNCHANGED vars

ReceiveReset(s) ==
  /\ Finds(s) /\ s.kind = "RST"
  /\ remove_connection
  /\ UNCHANGED <<pc, key, keys, edge, peerVars, ghost>>

(* Only a SYN-ACK that acknowledges the SYN does anything in SYN_SENT. *)
ReceiveSynSent(s) ==
  /\ Finds(s) /\ s.kind # "RST" /\ conn.state = "TCP_SYN_SENT"
  /\ IF s.kind = "SYNACK"
       THEN /\ conn' = [conn EXCEPT !.state = "TCP_ESTABLISHED", !.expected_ack = s.to]
            /\ tcp_send_segment({conn'})
       ELSE UNCHANGED <<conn, edge>>
  /\ UNCHANGED <<pc, key, keys, peerVars, ghost, halted>>

(* The payload goes to the end of the receive buffer, whatever its         *)
(* sequence number and the space left.  Beyond the buffer lies its length, *)
(* which a write that runs over replaces by payload bytes.  A payload that *)
(* starts like an HTTP request is served instead.                          *)
Payload(s) == [i \in 1 .. (s.to - s.from) |->
                 Byte(stream[s.from + i], ghost.taken + i)]

IsRequest(data) == data # <<>> /\ data[1].b = "GET"

(* What the bytes are is of no interest in a session that is not plain. *)
Known(data, plain) ==
  [i \in DOMAIN data |-> IF plain THEN data[i] ELSE Byte("x", data[i].n)]

TakeData(c, data, plain) ==
  IF IsRequest(data)
    THEN {[c EXCEPT !.state = "TCP_WAIT_FOR_ACK"]}
  ELSE IF Len(c.recv_buffer) + Len(data) <= BufferSize
    THEN {[c EXCEPT !.recv_buffer = Known(@ \o data, plain)]}
  ELSE {[c EXCEPT !.recv_buffer = junk] : junk \in {<<>>, <<Junk>>}}

(* Mutant: the state is not changed by a FIN. *)
FinIgnored(c, s) == IF s.kind = "FIN" THEN [c EXCEPT !.expected_ack = @ + 1] ELSE c

(* A FIN is answered with the connection's own at once. *)
TakeFin(c, s) ==
  IF s.kind = "FIN" THEN [c EXCEPT !.expected_ack = @ + 1, !.state = "TCP_LAST_ACK"] ELSE c

(* expected_ack follows the segment that came last, and is set before it   *)
(* is compared with the segment's own number: data are acknowledged at     *)
(* once, with the space there was before them, and again when they are in  *)
(* the buffer.  Before all this a third repeated acknowledgement may have  *)
(* made it send its oldest segment again.                                  *)
handle_established_state(s) ==
  /\ Finds(s) /\ s.kind # "RST" /\ conn.state = "TCP_ESTABLISHED"
  /\ ghost.taken + s.to - s.from <= MaxTaken
  /\ LET data  == Payload(s)
         acked == [conn EXCEPT !.expected_ack = s.to]
         over  == ~IsRequest(data) /\ Len(conn.recv_buffer) + Len(data) > BufferSize
         plain == s.from = ghost.taken /\ ~over
     IN /\ \E c \in TakeData(acked, data, ghost.plain /\ plain) :
             /\ conn' = TakeFin(c, s)
             /\ tcp_send_segment({conn} \cup CASE data # <<>>    -> {acked, conn'}
                                               [] s.kind = "FIN" -> {conn'}
                                               [] OTHER          -> {})
        /\ ghost' = [Plain(plain) EXCEPT
             !.taken = IF IsRequest(data) THEN @ ELSE @ + Len(data),
             !.fin = @ \/ s.kind = "FIN",
             !.early = @ \/ (edge' > edge /\ edge' > Told(conn')),
             !.inOrder = @ /\ s.from = ghost.taken,
             !.overrun = over]
  /\ halted' \in IF conn.clean THEN {FALSE} ELSE BOOLEAN
  /\ UNCHANGED <<pc, key, keys, peerVars>>

(* After a FIN: the acknowledgement of ours frees the block, also while    *)
(* the shell is using it.                                                  *)
handle_last_ack_state(s) ==
  /\ Finds(s) /\ s.kind # "RST" /\ conn.state = "TCP_LAST_ACK"
  /\ IF s.kind = "LASTACK" THEN remove_connection ELSE UNCHANGED <<conn, halted>>
  /\ UNCHANGED <<pc, key, keys, edge, peerVars, ghost>>

(* After a request: an acknowledgement may empty the queue, which frees    *)
(* the block (see TCP for when).                                           *)
handle_wait_for_ack_state(s) ==
  /\ Finds(s) /\ s.kind # "RST" /\ conn.state = "TCP_WAIT_FOR_ACK"
  /\ remove_connection \/ UNCHANGED <<conn, halted>>
  /\ UNCHANGED <<pc, key, keys, edge, peerVars, ghost>>

tcp_handle_packet(s) == \/ ReceiveUnknown(s) \/ ReceiveReset(s) \/ ReceiveSynSent(s)
                        \/ handle_established_state(s) \/ handle_last_ack_state(s)
                        \/ handle_wait_for_ack_state(s)

-----------------------------------------------------------------------------
(* The memory of the block after it was freed: another owner may write to  *)
(* it, or its pages may be gone, and the next use of it faults.            *)
Reuse ==
  /\ ~halted /\ ~conn.live /\ pc # "prompt" /\ ~ghost.reused
  /\ \E state \in {"TCP_ESTABLISHED", "TCP_CLOSED"}, buffer \in {<<>>, <<Junk>>} :
       conn' = [conn EXCEPT !.state = state, !.recv_buffer = buffer]
  /\ ghost' = [Plain(FALSE) EXCEPT !.reused = TRUE]
  /\ halted' \in BOOLEAN
  /\ UNCHANGED <<pc, key, keys, edge, peerVars>>

(* The keyboard's interrupt. *)
KeyPress == /\ ~halted /\ keys < MaxKeys /\ pc # "prompt"
            /\ key' = TRUE /\ keys' = keys + 1
            /\ UNCHANGED <<pc, conn, edge, peerVars, ghost, halted>>

KeyRelease == /\ ~halted /\ key
              /\ key' = FALSE
              /\ UNCHANGED <<pc, conn, keys, edge, peerVars, ghost, halted>>

-----------------------------------------------------------------------------
Init == /\ pc = "prompt" /\ conn = NoConn
        /\ key = FALSE /\ keys = 0
        /\ stream \in Streams /\ open = FALSE /\ edge = 0
        /\ ghost = [taken |-> 0, seen |-> 0, shown |-> <<>>, plain |-> TRUE, inOrder |-> TRUE,
                    early |-> FALSE, overrun |-> FALSE, fin |-> FALSE, reused |-> FALSE]
        /\ halted = FALSE

Next == \/ telnet_command
        \/ \E s \in Sent : tcp_handle_packet(s)
        \/ Reuse \/ KeyPress \/ KeyRelease

(* The shell is the only foreground activity and interrupts return. *)
Spec == Init /\ [][Next]_vars /\ WF_vars(telnet_command)

-----------------------------------------------------------------------------
(* Properties *)

(* The buffer and the history hold bytes, and the session's history names  *)
(* no byte that was not received.                                          *)
TypeOK ==
  /\ pc \in {"prompt", "add", "wait", "loop", "show", "clear", "keys", "getchar", "close"}
  /\ \A i \in DOMAIN conn.recv_buffer :
       conn.recv_buffer[i].b \in Kinds /\ conn.recv_buffer[i].n \in 0 .. ghost.taken
  /\ ghost.taken \in 0 .. MaxTaken /\ ghost.seen \in 0 .. ghost.taken
  /\ edge \in 0 .. Len(stream) /\ keys \in 0 .. MaxKeys

(* telnet shows received bytes in the order in which they were taken in,   *)
(* none of them twice, although the interrupt appends to the buffer        *)
(* between the loop's read of the length and its reset.                    *)
ShownOnce ==
  pc = "show" =>
    \A i \in DOMAIN conn.recv_buffer : LET n == conn.recv_buffer[i].n IN
      n > 0 => n > ghost.seen /\ \A j \in 1 .. (i - 1) : conn.recv_buffer[j].n < n

(* As long as segments are handled in order, no chunk ends inside a        *)
(* command and nothing is appended between the read of the length and its  *)
(* reset, telnet_filter, which starts afresh on every chunk, shows what    *)
(* the protocol's automaton makes of the whole stream.                     *)
ShowsDecoded == ghost.plain => ghost.shown = Decode(SubSeq(stream, 1, ghost.seen)).out

(* handle_established_state appends without a look at the space left.  The *)
(* buffer does not run over as long as segments come in order, once each,  *)
(* and the peer has only been told windows that count what is in the       *)
(* buffer, however the shell's emptying it falls between announcements.    *)
(* (The acknowledgement sent before the data are stored tells it more.)    *)
BufferInBounds == ghost.inOrder /\ ~ghost.early => ~ghost.overrun

(* Whichever way a session ends (no answer, a reset, a FIN, whose last     *)
(* acknowledgement may come before or after the shell has looked), the     *)
(* shell returns to its prompt with the block freed and off the list, and  *)
(* the list never holds a freed block.                                     *)
NoConnectionLeaks ==
  /\ TypeOK
  /\ conn.listed => conn.live
  /\ pc = "prompt" => ~conn.live /\ ~conn.listed

(* A session that the peer closes ends: the shell is at its prompt again,  *)
(* unless it waits in kb_getchar for a key, or the freed block it still    *)
(* reads has been overwritten, or the kernel faulted.                      *)
FinEndsSession ==
  ghost.fin ~> (pc = "prompt" \/ (pc = "getchar" /\ ~key) \/ ghost.reused \/ halted)

=============================================================================
