----------------------------- MODULE MCConsole ------------------------------
(* A screen of two rows of three characters, which a prompt, a short line  *)
(* and an answer fill and scroll.                                          *)
EXTENDS Console

ch(c) == [conv |-> "c", val |-> c]
num(conv, val, width, pad) == [conv |-> conv, val |-> val, width |-> width, pad |-> pad]

MCPrompt == <<">">>
MCKeys == {"x", BS, NL, TAB}
MCMessages == { <<num("d", 10, 0, " "), ch(TAB), ch(NL)>>, <<num("d", -1, 0, " ")>>,
                <<num("u", 19, 3, " "), ch(NL)>>, <<num("X", 0, 2, "0")>> }

(* icmp_handle_packet: begins and ends with a new line. *)
MCReplies == { <<ch(NL), ch("="), ch(NL)>> }
=============================================================================
