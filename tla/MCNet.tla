------------------------------- MODULE MCNet -------------------------------
(* Values for the constants of Net: a peer, a gateway, an address beyond.  *)
EXTENDS Net

Datagram(ip) == [kind |-> "udp",     from |-> ip, mac |-> Nobody]
Reply(ip, m) == [kind |-> "reply",   from |-> ip, mac |-> m]
Request(ip)  == [kind |-> "request", from |-> ip, mac |-> ip]

(* Datagrams of two senders, answers of the peer and the gateway, a        *)
(* question of the peer and a packet of no use.                            *)
Traffic == {Datagram("peer"), Datagram("far"), Reply("peer", "m1"), Reply("gate", "m2"),
            Request("peer"), [kind |-> "other", from |-> "far", mac |-> Nobody]}
=============================================================================
