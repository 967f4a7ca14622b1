----------------------------- MODULE TcpFetch -----------------------------
(***************************************************************************)
(* The TCP client of drivers/net.c: tcp_get_timeout, which sends a request *)
(* and takes the reply into a buffer, and the stream of tcp_open,          *)
(* tcp_write, tcp_read and tcp_close.  One connection is used at a time; a *)
(* stream between two calls is lost to the next tcp_open.                  *)
(* Between it and the server a network loses, repeats and reorders         *)
(* segments; the server, a TCP of the usual kind, sends again what is not  *)
(* acknowledged, cut up as it likes.  This side never does.                *)
(*                                                                         *)
(* Sequence numbers count from each side's first: 0 is the SYN, 1 the      *)
(* first byte of the reply, ReplyLen + 1 its FIN.  A segment holds from    *)
(* up to, not including, to.  The request is cut into NChunks segments.    *)
(* A segment that is sent and could not be is one the network loses.       *)
(***************************************************************************)
EXTENDS Integers, Sequences, FiniteSets

CONSTANTS
  MaxFetches,  \* bound: connections
  NChunks,     \* segments of a request
  ReplyLen,    \* bytes of a reply
  SegMax,      \* sequence numbers a segment of the server takes
  Window,      \* what the server sends ahead of an acknowledgement
  Limits,      \* sizes of callers' buffers
  MaxFaults,   \* bound: segments lost or repeated
  Resets       \* the server may break off

Fetches == 1..MaxFetches
Chunks == 1..NChunks
End == ReplyLen + 2   \* past the FIN

ASSUME FetchAssumption ==
  /\ MaxFetches \in Nat /\ NChunks \in Nat \ {0} /\ ReplyLen \in Nat
  /\ SegMax \in Nat \ {0} /\ Window \in Nat \ {0}
  /\ Limits \subseteq Nat \ {0} /\ MaxFaults \in Nat /\ Resets \in BOOLEAN

VARIABLES
  client,   \* tcp_get_timeout's variables, or the stream's
  server,   \* server[p]: its end of the connection with port p
  up, down, \* segments on their way to the server, to the client
  lost,     \* history: of this fetch, what the server never got, or that it broke off
  faults

vars == <<client, server, up, down, lost, faults>>

(* A fresh local port per connection; the range outlasts the bound.        *)
Port_Mut(n) == 1      \* mutated: always the same
Port(n) == n

Idle == [pc |-> "idle", n |-> 0, mode |-> "get", next |-> 0, limit |-> 0, got |-> <<>>,
         pend |-> <<>>, fin |-> FALSE, late |-> FALSE, result |-> "failed"]
Closed == [state |-> "closed", conn |-> 0, have |-> {}, una |-> 0, nxt |-> 0]
Gone == [Closed EXCEPT !.state = "gone"]   \* over, but its port not to be used again yet

Syn(n) == [kind |-> "syn", port |-> Port(n), conn |-> n, ack |-> 0, chunk |-> 0]
Ack(n, a) == [Syn(n) EXCEPT !.kind = "ack", !.ack = a]
Chunk(n, k, a) == [Syn(n) EXCEPT !.kind = "data", !.ack = a, !.chunk = k]
Fin(n, a) == [Syn(n) EXCEPT !.kind = "fin", !.ack = a]
Request(n, a) == {Chunk(n, k, a) : k \in Chunks}

SynAck(p) == [kind |-> "data", port |-> p, conn |-> server[p].conn, from |-> 0, to |-> 1]
Seg(p, from, to) == [SynAck(p) EXCEPT !.from = from, !.to = to]
Rst(p, n) == [kind |-> "rst", port |-> p, conn |-> n, from |-> 0, to |-> 0]

Min2(a, b) == IF a < b THEN a ELSE b
(* The bytes in a segment, and whether it bears the FIN.                   *)
Bytes(m) == [i \in 1..(Min2(m.to, ReplyLen + 1) - m.from) |-> <<m.conn, m.from + i - 1>>]
HasFin(m) == m.to = End
First_Mut(s, k) == s      \* mutated: not cut at the buffer's end
First(s, k) == SubSeq(s, 1, Min2(k, Len(s)))
Rest(s, k) == SubSeq(s, k + 1, Len(s))
-----------------------------------------------------------------------------
(* The client. *)

(* tcp_get_timeout (a limit: response_maxlen) and tcp_open (none), up to   *)
(* the wait for the SYN-ACK; without a route nothing is sent.  tcp_open    *)
(* drops a stream that is still open, with no word to its server; its      *)
(* caller, between two calls, learns of it by the port.                    *)
Start(mode, limit) ==
  /\ client.pc = "idle" \/ (mode = "stream" /\ client.pc \in {"opened", "open"})
  /\ client.n + 1 \in Fetches
  /\ LET n == client.n + 1
         fresh == [Idle EXCEPT !.n = n, !.mode = mode, !.limit = limit]
     IN  \/ client' = [fresh EXCEPT !.pc = "syn", !.result = "open"] /\ up' = up \cup {Syn(n)}
         \/ client' = fresh /\ UNCHANGED up
  /\ lost' = {}
  /\ UNCHANGED <<server, down, faults>>

Ended(c, result) == [Idle EXCEPT !.n = c.n, !.mode = c.mode, !.limit = c.limit, !.got = c.got,
                                 !.result = result]
Sends(ms) == up' = up \cup ms

(* tcp_match *)
Mine(m) == m.port = Port(client.n)

TakeSynAck(m) ==
  /\ client.pc = "syn"
  /\ IF ~Mine(m) THEN UNCHANGED <<client, up>>
     ELSE IF m.kind = "rst" THEN client' = Ended(client, "failed") /\ UNCHANGED up
     ELSE IF m.from # 0 THEN UNCHANGED <<client, up>>
     ELSE IF client.mode = "get"
     THEN /\ client' = [client EXCEPT !.pc = "get", !.next = 1]
          /\ Sends({Ack(client.n, 1)} \cup Request(client.n, 1))
     ELSE /\ client' = [client EXCEPT !.pc = "opened", !.next = 1]
          /\ Sends({Ack(client.n, 1)})

(* Only the segment that comes next is taken.                              *)
InOrder_Mut(m) == Mine(m) /\ m.kind = "data" /\ m.from >= client.next      \* mutated: or a later one
InOrder(m) == Mine(m) /\ m.kind = "data" /\ m.from = client.next

(* The two acknowledgements of a segment: of its bytes and of its FIN.     *)
Acks(m) == {Ack(client.n, a) : a \in (IF Bytes(m) = <<>> THEN {} ELSE {m.from + Len(Bytes(m))})
                                      \cup (IF HasFin(m) THEN {m.to} ELSE {})}

(* The reply loop of tcp_get_timeout: anything else is dropped, and        *)
(* nothing is said of it.  A FIN or a full buffer ends the fetch.          *)
TakeReply(m) ==
  /\ client.pc = "get"
  /\ IF ~InOrder(m) THEN UNCHANGED <<client, up>>
     ELSE LET got == client.got \o First(Bytes(m), client.limit - Len(client.got))
              c == [client EXCEPT !.got = got, !.next = m.to, !.fin = HasFin(m)]
          IN  IF HasFin(m) \/ Len(got) >= client.limit
              THEN client' = Ended(c, "ok") /\ Sends(Acks(m) \cup {Fin(client.n, m.to)})
              ELSE client' = c /\ Sends(Acks(m))

(* tcp_read: of a repeated or early segment with bytes it says where it    *)
(* is; a reset it takes for the end of the stream.                         *)
AckAgain_Mut(m) == {}      \* mutated: as tcp_get does
AckAgain_Mut2(m) == {Ack(client.n, m.to)}      \* mutated: the segment's end
AckAgain(m) ==
  IF Mine(m) /\ m.kind = "data" /\ m.from # 0 /\ Bytes(m) # <<>>
  THEN {Ack(client.n, client.next)} ELSE {}
TakeRead(m, max) ==
  /\ client.pc = "read"
  /\ IF Mine(m) /\ m.kind = "rst"
     THEN client' = [client EXCEPT !.pc = "open", !.fin = TRUE] /\ UNCHANGED up
     ELSE IF ~InOrder(m) THEN Sends(AckAgain(m)) /\ UNCHANGED client
     ELSE /\ client' = [client EXCEPT !.pc = "open", !.next = m.to, !.fin = HasFin(m),
                                      !.got = @ \o First(Bytes(m), max),
                                      !.pend = Rest(Bytes(m), max)]
          /\ Sends(Acks(m))

(* A segment that comes is looked at once; the network may deliver it      *)
(* again.                                                                  *)
ClientReceives(m) ==
  /\ m \in down
  /\ \/ TakeSynAck(m) \/ TakeReply(m) \/ \E max \in 1..SegMax : TakeRead(m, max)
  /\ \/ down' = down \ {m} /\ UNCHANGED faults
     \/ faults < MaxFaults /\ faults' = faults + 1 /\ UNCHANGED down
  /\ UNCHANGED <<server, lost>>

(* The time for an answer is over, for a SYN-ACK of either kind, for the   *)
(* reply: tcp_get closes and returns what it has, with an error; for       *)
(* tcp_read, which returns -1.                                             *)
ConnectLate == client.pc = "syn" /\ client' = Ended(client, "failed") /\ UNCHANGED up
ReplyLate ==
  client.pc = "get" /\ client' = Ended(client, "failed") /\ Sends({Fin(client.n, client.next)})
ReadLate == client.pc = "read" /\ client' = [client EXCEPT !.pc = "open", !.late = TRUE] /\ UNCHANGED up
Deadline ==
  /\ ConnectLate \/ ReplyLate \/ ReadLate
  /\ UNCHANGED <<server, down, lost, faults>>

(* The stream's caller: writes its request, reads to what tcp_read calls   *)
(* the end (0) or to a read that is late (-1), closes: "ok" is what it     *)
(* makes of the first.                                                     *)
Write ==
  /\ client.pc = "opened"
  /\ client' = [client EXCEPT !.pc = "open"] /\ Sends(Request(client.n, client.next))
  /\ UNCHANGED <<server, down, lost, faults>>
Read(max) ==
  /\ client.pc = "open" /\ ~client.late
  /\ IF client.pend # <<>>
     THEN client' = [client EXCEPT !.got = @ \o First(client.pend, max), !.pend = Rest(client.pend, max)]
     ELSE ~client.fin /\ client' = [client EXCEPT !.pc = "read"]
  /\ UNCHANGED <<server, up, down, lost, faults>>
Close ==
  /\ client.pc = "open" /\ (client.late \/ (client.fin /\ client.pend = <<>>))
  /\ client' = Ended(client, IF client.late THEN "failed" ELSE "ok")
  /\ Sends({Fin(client.n, client.next)})
  /\ UNCHANGED <<server, down, lost, faults>>
-----------------------------------------------------------------------------
(* The network and the server. *)

Missed(n, what) == lost' = lost \cup (IF n = client.n THEN {what} ELSE {})
LoseUp ==
  \E m \in up :
    /\ faults < MaxFaults /\ faults' = faults + 1
    /\ up' = up \ {m} /\ Missed(m.conn, m.kind)
    /\ UNCHANGED <<client, server, down>>
LoseDown ==
  \E m \in down :
    /\ faults < MaxFaults /\ faults' = faults + 1
    /\ down' = down \ {m}
    /\ UNCHANGED <<client, server, up, lost>>

(* A SYN opens a connection, is refused, or is for one that is not over.   *)
HearSyn(m) ==
  LET p == m.port
      opened == [Closed EXCEPT !.state = "open", !.conn = m.conn, !.nxt = 1]
  IN  /\ m.kind = "syn"
      /\ IF server[p].state # "closed" THEN UNCHANGED <<server, down, lost>>
         ELSE \/ /\ UNCHANGED lost /\ server' = [server EXCEPT ![p] = opened]
                 /\ down' = down \cup {[SynAck(p) EXCEPT !.conn = m.conn]}
              \/ /\ Missed(m.conn, "reset") /\ server' = [server EXCEPT ![p] = Gone]
                 /\ down' = down \cup {Rst(p, m.conn)}
(* An acknowledgement, a piece of the request, or the client's FIN, which  *)
(* counts only when the request is all there.                              *)
Hear(m) ==
  LET p == m.port
      s == server[p]
  IN  /\ m.kind # "syn"
      /\ IF s.state # "open" \/ s.conn # m.conn \/ m.ack > s.nxt THEN UNCHANGED server
         ELSE IF m.kind = "fin" /\ s.have = Chunks THEN server' = [server EXCEPT ![p] = Gone]
         ELSE server' = [server EXCEPT ![p].una = IF m.ack > @ THEN m.ack ELSE @,
                                       ![p].have = @ \cup ({m.chunk} \cap Chunks)]
      /\ UNCHANGED <<down, lost>>
ServerReceives(m) ==
  /\ m \in up
  /\ HearSyn(m) \/ Hear(m)
  /\ \/ up' = up \ {m} /\ UNCHANGED faults
     \/ faults < MaxFaults /\ faults' = faults + 1 /\ UNCHANGED up
  /\ UNCHANGED client

ServerSends(p) ==
  /\ server[p].state = "open" /\ server[p].una > 0 /\ server[p].have = Chunks
  /\ \E to \in 1..End :
       /\ server[p].nxt < to /\ to - server[p].nxt <= SegMax /\ to - server[p].una <= Window
       /\ down' = down \cup {Seg(p, server[p].nxt, to)}
       /\ server' = [server EXCEPT ![p].nxt = to]
  /\ UNCHANGED <<client, up, lost, faults>>

(* What has not been acknowledged, when none of it is on its way.          *)
ServerRepeats(p) ==
  /\ server[p].state = "open" /\ server[p].una < server[p].nxt
  /\ \A m \in down : m.port # p
  /\ \/ server[p].una = 0 /\ down' = {SynAck(p)} \cup down
     \/ /\ server[p].una > 0
        /\ \E to \in 1..server[p].nxt :
             /\ server[p].una < to /\ to - server[p].una <= SegMax
             /\ down' = down \cup {Seg(p, server[p].una, to)}
  /\ UNCHANGED <<client, server, up, lost, faults>>

ServerResets(p) ==
  /\ Resets /\ server[p].state = "open"
  /\ server' = [server EXCEPT ![p] = Gone]
  /\ down' = down \cup {Rst(p, server[p].conn)}
  /\ Missed(server[p].conn, "reset")
  /\ UNCHANGED <<client, up, faults>>
-----------------------------------------------------------------------------
Init ==
  /\ client = Idle /\ server = [p \in Fetches |-> Closed]
  /\ up = {} /\ down = {} /\ lost = {} /\ faults = 0

Receiving == \E m \in down : ClientReceives(m)
OwnReceiving == \E m \in down : Mine(m) /\ ClientReceives(m)
Caller == Write \/ Close \/ \E max \in 1..SegMax : Read(max)
Hearing == \E m \in up : ServerReceives(m)

Next ==
  \/ \E limit \in Limits : Start("get", limit)
  \/ Start("stream", 0)
  \/ Receiving \/ Deadline \/ Caller
  \/ LoseUp \/ LoseDown \/ Hearing
  \/ \E p \in Fetches : ServerSends(p) \/ ServerRepeats(p) \/ ServerResets(p)

Spec == Init /\ [][Next]_vars
(* The loops poll, the network delivers what it does not lose, be there    *)
(* ever so much of another connection, the caller goes on and the server   *)
(* sends and sends again; the clock may take as long as it likes.          *)
FairSpec ==
  /\ Spec
  /\ WF_vars(OwnReceiving) /\ WF_vars(Caller) /\ WF_vars(Hearing)
  /\ \A p \in Fetches : WF_vars(ServerSends(p)) /\ WF_vars(ServerRepeats(p))
-----------------------------------------------------------------------------
(* Correctness. *)

(* Every variable stays in its range. *)
TypeOK ==
  /\ client.pc \in {"idle", "syn", "get", "opened", "open", "read"}
  /\ client.n \in 0..MaxFetches /\ client.next \in 0..End
  /\ client.got \in Seq(Fetches \X (1..ReplyLen)) /\ client.pend \in Seq(Fetches \X (1..ReplyLen))
  /\ client.result \in {"open", "ok", "failed"}
  /\ client.mode = "get" /\ client.n # 0 => Len(client.got) <= client.limit /\ client.pend = <<>>
  /\ \A p \in Fetches : server[p].una <= server[p].nxt /\ server[p].nxt <= End
  /\ faults \in 0..MaxFaults

(* Whatever the network loses, repeats and reorders, the caller gets the   *)
(* reply of its own connection from the first byte on, and is told of      *)
(* success only with all of it or a full buffer, a stream's reader also    *)
(* when the server broke off: 0 is its answer to a reset as to a FIN.      *)
Stream == INSTANCE ByteStream
            WITH n <- client.n, got <- client.got, limit <- client.limit, result <- client.result,
                 broken <- "reset" \in lost
InOrderBytes == Stream!Spec

(* What the server takes for delivered is here: no byte of an open         *)
(* connection is acknowledged before it is with the caller, kept for it,   *)
(* or past what its buffer takes.                                          *)
Here == Len(client.got) + Len(client.pend)
AckedIsHere ==
  client.result = "open" /\ (client.mode = "stream" \/ Here < client.limit) =>
    \A a \in {server[Port(client.n)].una} \cup {m.ack : m \in {u \in up : u.port = Port(client.n)}} :
      Min2(a, ReplyLen + 1) - 1 <= Here

(* With time enough every fetch ends: unless part of the request was lost  *)
(* or the server broke off, which nothing here makes good, and, for        *)
(* tcp_get alone, unless an acknowledgement was.                           *)
Excused ==
  lost \cap {"syn", "data", "reset"} # {} \/ (client.mode = "get" /\ "ack" \in lost)
Completes == (client.pc # "idle") ~> (client.pc = "idle" \/ Excused)
=============================================================================
