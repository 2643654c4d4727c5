------------------------------ MODULE MCTelnet ------------------------------
(* Telnet with streams that hold an option, an escaped IAC and a           *)
(* subnegotiation, each of which segments may cut in two, and one that     *)
(* looks like an HTTP request.                                             *)
EXTENDS Telnet

Negotiation == {<<"IAC", "IAC", "GET">>,
                <<"IAC", "WILL", "x">>,
                <<"IAC", "SB", "IAC", "SE", "x">>}
=============================================================================
