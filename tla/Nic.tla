-------------------------------- MODULE Nic ---------------------------------
(***************************************************************************)
(* The driver of the RTL8139 network card, src/src/drivers/nic/rtl8139.c:  *)
(* the receive ring, the four transmit buffers and the interrupt handler.  *)
(* The card is external and modelled from the registers the driver uses.   *)
(*                                                                         *)
(* The handler runs with interrupts off until the code that works on a     *)
(* frame allocates memory, which turns them on (see Interrupts): it may be *)
(* entered again there.  The shell's transmissions may be interrupted      *)
(* anywhere.                                                               *)
(***************************************************************************)
EXTENDS Integers, Sequences, FiniteSets

CONSTANTS
  PAGE_SIZE, RX_BUFFER_PAGES, NUM_TX_BUFFERS, TX_BUFFER_SIZE,
  CardRing,           \* bytes after which the card starts again at 0
  RxLens, TxLens,     \* lengths of frames, as in the ring's headers
  MaxRx, MaxTx,       \* bounds: frames received and sent
  MaxDepth            \* bound: nested handlers

VARIABLES
  nic,                \* struct rtl8139_dev
  card,               \* its registers, and what it has written to the ring
  stack,              \* active handlers, the innermost first
  main,               \* the shell's transmission
  count               \* frames received and sent so far

vars == <<nic, card, stack, main, count>>

RX_BUFFER_SIZE == RX_BUFFER_PAGES * PAGE_SIZE
IMR == {"ROK", "TOK"} \* 0x0005, written by rtl8139_init

Align4(n) == ((n + 3) \div 4) * 4

-----------------------------------------------------------------------------
(* rtl8139_init *)

(* Pages of a buffer for which dma_alloc is asked for `size` bytes. *)
dma_alloc(size) == (size + PAGE_SIZE - 1) \div PAGE_SIZE

tx_pages == (NUM_TX_BUFFERS * TX_BUFFER_SIZE + PAGE_SIZE - 1) \div PAGE_SIZE

(* There may be no card.  One without port or interrupt, or without one of *)
(* the buffers, gets no handler, but eth_init takes it for present and the *)
(* kernel goes on to send with it.                                         *)
rtl8139_init ==
  /\ nic.at = "boot"
  /\ \/ \E at \in {"absent", "failed"} : nic' = [nic EXCEPT !.at = at]
     \/ nic' = [nic EXCEPT !.at = "on", !.rx_buffer = dma_alloc(RX_BUFFER_PAGES),
                                        !.tx_buffer = dma_alloc(tx_pages)]
  /\ UNCHANGED <<card, stack, main, count>>

-----------------------------------------------------------------------------
(* The card *)

(* A frame goes behind the last one, with a header that holds its length.  *)
(* As bit 7 of RCR asks, a frame that starts before the end of the ring is *)
(* written on beyond it.  Own: a station sends with our own address.       *)
Arrive(len, own) ==
  /\ nic.at = "on" /\ count.rx < MaxRx /\ "RXOVW" \notin card.isr
  /\ LET next == card.cbr + Align4(len + 4)
         full == card.written + Align4(len + 4) > CardRing
     IN card' = IF full THEN [card EXCEPT !.isr = @ \cup {"RXOVW"}]
                ELSE [card EXCEPT !.mem = [p \in DOMAIN @ \cup {card.cbr} |->
                                             IF p = card.cbr THEN [len |-> len, own |-> own] ELSE @[p]],
                                  !.cbr = IF next >= CardRing THEN next - CardRing ELSE next,
                                  !.written = @ + Align4(len + 4),
                                  !.isr = @ \cup {"ROK"}]
  /\ count' = [count EXCEPT !.rx = @ + 1]
  /\ UNCHANGED <<nic, stack, main>>

(* One of the transmit buffers has gone out. *)
Transmitted(i) ==
  /\ i \in card.busy
  /\ card' = [card EXCEPT !.busy = @ \ {i}, !.isr = @ \cup {"TOK"}]
  /\ UNCHANGED <<nic, stack, main, count>>

(* What the driver reads as a header at p: behind the last frame, any      *)
(* word, of which an invalid length and a short frame are two.             *)
HeadersAt(p) == IF p \in DOMAIN card.mem THEN {card.mem[p]}
                ELSE { [len |-> n, own |-> FALSE] : n \in {0, 60} }

-----------------------------------------------------------------------------
(* rtl8139_send_packet: copy, then start the card and go to the next       *)
(* buffer, whether the card is done with that one or not.                  *)

Copy(len) ==
  /\ nic.at \in {"on", "failed"} /\ stack = <<>> /\ main = "run" /\ count.tx < MaxTx
  /\ len <= TX_BUFFER_SIZE
  /\ main' = "copied"
  /\ count' = [count EXCEPT !.tx = @ + 1]
  /\ UNCHANGED <<nic, card, stack>>

Start ==
  /\ card' = [card EXCEPT !.busy = @ \cup {nic.tx_current}]
  /\ nic' = [nic EXCEPT !.tx_current = (@ + 1) % NUM_TX_BUFFERS]

MainStarts == stack = <<>> /\ main = "copied" /\ Start /\ main' = "run" /\ UNCHANGED <<stack, count>>

-----------------------------------------------------------------------------
(* The handler *)

Top == stack[1]
At(pc) == stack # <<>> /\ Top.pc = pc
Go(f) == stack' = <<f>> \o Tail(stack)

Enter ==
  /\ nic.at = "on" /\ card.isr \cap IMR # {}
  /\ stack = <<>> \/ (At("process") /\ Len(stack) < MaxDepth)
  /\ stack' = << [pc |-> "status", status |-> {}, rx_offset |-> 0, cbr |-> 0] >> \o stack
  /\ UNCHANGED <<nic, card, main, count>>

ReadStatus ==
  /\ At("status")
  /\ Go([Top EXCEPT !.pc = "ack", !.status = card.isr])
  /\ UNCHANGED <<nic, card, main, count>>

(* Receive and transmit are acknowledged, also if they came after the      *)
(* status was read; an overflow never is.                                  *)
Acknowledge ==
  /\ At("ack")
  /\ card' = [card EXCEPT !.isr = @ \ IMR]
  /\ Go([Top EXCEPT !.pc = IF "ROK" \in Top.status THEN "receive" ELSE "errors"])
  /\ UNCHANGED <<nic, main, count>>

(* The low byte of the word at 0x3A as the high byte, and the interrupt    *)
(* mask, which is at 0x3C, as the low one.                                 *)
cbr == ((card.cbr % 256) * 256 + 5 - 16) % RX_BUFFER_SIZE

rtl8139_receive_packet ==
  /\ At("receive")
  /\ Go([Top EXCEPT !.pc = IF cbr = nic.rx_ptr THEN "errors" ELSE "loop",
                    !.rx_offset = nic.rx_ptr, !.cbr = cbr])
  /\ UNCHANGED <<nic, card, main, count>>

(* A frame of our own, and a length that is none, end the call, and rx_ptr *)
(* stays where it was.                                                     *)
NextFrame ==
  /\ At("loop") /\ Top.rx_offset # Top.cbr
  /\ \E f \in HeadersAt(Top.rx_offset) :
       Go(IF f.own \/ f.len = 0 \/ f.len > 1514 THEN [Top EXCEPT !.pc = "errors"]
          ELSE [pc |-> "process", status |-> Top.status, rx_offset |-> Top.rx_offset,
                cbr |-> Top.cbr, len |-> f.len])
  /\ UNCHANGED <<nic, card, main, count>>

(* net_process_packet returns; it may have sent an answer. *)
Processed ==
  /\ At("process")
  /\ LET next == Align4(Top.rx_offset + Top.len + 4)
     IN Go([pc |-> "loop", status |-> Top.status, cbr |-> Top.cbr,
            rx_offset |-> IF next >= RX_BUFFER_SIZE THEN next - RX_BUFFER_SIZE ELSE next])
  /\ \/ Start
     \/ UNCHANGED <<nic, card>>
  /\ UNCHANGED <<main, count>>

(* The frames up to cbr are done, and the card is told (CAPR) that it may  *)
(* use their place; the word there may say "overflow" instead.             *)
EndReceive ==
  /\ At("loop") /\ Top.rx_offset = Top.cbr
  /\ \/ /\ nic' = [nic EXCEPT !.rx_ptr = Top.rx_offset]
        /\ card' = [card EXCEPT !.written = (@ - Top.rx_offset) % CardRing]
     \/ UNCHANGED <<nic, card>>
  /\ Go([Top EXCEPT !.pc = "errors"])
  /\ UNCHANGED <<main, count>>

(* An overflow starts the ring again; then the handler ends.  Received     *)
(* frames stay in memory.                                                  *)
Return ==
  /\ At("errors")
  /\ IF "RXOVW" \in Top.status
       THEN /\ nic' = [nic EXCEPT !.rx_ptr = 0]
            /\ card' = [card EXCEPT !.cbr = 0, !.written = 0]
       ELSE UNCHANGED <<nic, card>>
  /\ stack' = Tail(stack)
  /\ UNCHANGED <<main, count>>

rtl8139_irq_handler == \/ Enter \/ ReadStatus \/ Acknowledge \/ rtl8139_receive_packet
                       \/ NextFrame \/ Processed \/ EndReceive \/ Return

-----------------------------------------------------------------------------
Init == /\ nic = [at |-> "boot", rx_buffer |-> 0, tx_buffer |-> 0, rx_ptr |-> 0, tx_current |-> 0]
        /\ card = [mem |-> [p \in {} |-> 0], cbr |-> 0, written |-> 0, busy |-> {}, isr |-> {}]
        /\ stack = <<>> /\ main = "run" /\ count = [rx |-> 0, tx |-> 0]

Next == \/ rtl8139_init
        \/ \E len \in RxLens, own \in BOOLEAN : Arrive(len, own)
        \/ \E i \in 0 .. (NUM_TX_BUFFERS - 1) : Transmitted(i)
        \/ \E len \in TxLens : Copy(len)
        \/ MainStarts
        \/ rtl8139_irq_handler

Spec == Init /\ [][Next]_vars

-----------------------------------------------------------------------------
(* Properties *)

(* rtl8139.h:18: "#define RX_BUFFER_SIZE (RX_BUFFER_PAGES * PAGE_SIZE)".   *)
(* What is handed to net_process_packet as a frame lies in the memory that *)
(* was allocated for the receive buffer.                                   *)
FramesInBuffer ==
  \A i \in DOMAIN stack : stack[i].pc = "process" =>
    stack[i].rx_offset + 4 + stack[i].len <= nic.rx_buffer * PAGE_SIZE
=============================================================================
