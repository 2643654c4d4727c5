------------------------------- MODULE MCNet -------------------------------
(* Net with the gateway and two stations on the local network, fewer slots *)
(* in the cache than that, and one address behind the gateway.  MAC        *)
(* addresses can be exchanged.                                             *)
EXTENDS Net, TLC

MCSelf == <<10, 0, 2, 15>>
MCGateway == <<10, 0, 2, 2>>
MCLocal == {MCGateway, <<10, 0, 2, 3>>, <<10, 0, 2, 4>>}
MCRemote == {<<8, 8, 8, 8>>}
Exchangeable == Permutations(Macs)
=============================================================================
