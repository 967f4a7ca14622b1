---------------------------- MODULE MCTcpFetch ----------------------------
(* TcpFetch for TLC: when a connection is begun the server has heard all   *)
(* that the one before sent, and of its own one segment may be on its way; *)
(* of a stream that was dropped it goes on sending one byte.               *)
EXTENDS TcpFetch

Stale(net) == {m \in net : m.conn < client.n}
MCBound ==
  /\ Stale(up) = {} /\ Cardinality(Stale(down)) <= 1
  /\ \A p \in Fetches : server[p].state = "open" /\ server[p].conn < client.n =>
       server[p].una = 1 /\ server[p].nxt = 2
=============================================================================
