-------------------------- MODULE TcpFetch_proofs ---------------------------
(***************************************************************************)
(* What TLAPS proves of TcpFetch, for replies and segments of any length,  *)
(* any window, any number of connections, and any number of segments lost, *)
(* repeated or out of order: the byte stream of drivers/net.c.             *)
(***************************************************************************)
EXTENDS TcpFetch, SequenceTheorems, TLAPS

-----------------------------------------------------------------------------
(* Pieces of a reply. *)

Octets == Fetches \X Nat
(* s goes on with the reply of n after its first k bytes.                  *)
Follows(s, n, k) == \A i \in 1..Len(s) : s[i] = <<n, k + i>>

LEMMA Numbers ==
  /\ MaxFetches \in Nat /\ ReplyLen \in Nat /\ SegMax \in Nat /\ End = ReplyLen + 2
  /\ Limits \subseteq Nat \ {0} /\ MaxFaults \in Nat
BY FetchAssumption DEF FetchAssumption, End

LEMMA EmptyFact ==
  ASSUME NEW n, NEW k
  PROVE  <<>> \in Seq(Octets) /\ Len(<<>>) = 0 /\ Follows(<<>>, n, k)
BY DEF Follows

LEMMA AppendFact ==
  ASSUME NEW s \in Seq(Octets), NEW u \in Seq(Octets), NEW n,
         Follows(s, n, 0), Follows(u, n, Len(s))
  PROVE  /\ s \o u \in Seq(Octets) /\ Len(s \o u) = Len(s) + Len(u)
         /\ Follows(s \o u, n, 0)
<1>1. s \o u \in Seq(Octets) /\ Len(s \o u) = Len(s) + Len(u)
  OBVIOUS
<1>2. ASSUME NEW i \in 1..Len(s \o u) PROVE (s \o u)[i] = <<n, i>>
  <2>1. CASE i <= Len(s)
    BY <1>1, <2>1 DEF Follows
  <2>2. CASE i > Len(s)
    <3>1. (s \o u)[i] = u[i - Len(s)] /\ i - Len(s) \in 1..Len(u)
      BY <1>1, <2>2
    <3>2. u[i - Len(s)] = <<n, Len(s) + (i - Len(s))>>
      BY <3>1 DEF Follows
    <3> QED BY <3>1, <3>2
  <2> QED BY <2>1, <2>2
<1> QED BY <1>1, <1>2 DEF Follows

LEMMA FirstFact ==
  ASSUME NEW s \in Seq(Octets), NEW j \in Nat, NEW n, NEW k \in Nat, Follows(s, n, k)
  PROVE  /\ First(s, j) \in Seq(Octets) /\ Len(First(s, j)) = Min2(j, Len(s))
         /\ Follows(First(s, j), n, k)
<1> DEFINE l == Min2(j, Len(s))
<1>1. l \in 0..Len(s)
  BY DEF Min2
<1>2. First(s, j) = SubSeq(s, 1, l)
  BY DEF First
<1> HIDE DEF l
<1>3. /\ SubSeq(s, 1, l) \in Seq(Octets) /\ Len(SubSeq(s, 1, l)) = l
      /\ \A i \in 1..l : SubSeq(s, 1, l)[i] = s[i]
  BY <1>1, SubSeqProperties
<1> QED BY <1>1, <1>2, <1>3 DEF Follows, l

LEMMA RestFact ==
  ASSUME NEW s \in Seq(Octets), NEW j \in Nat, NEW n, NEW k \in Nat, Follows(s, n, k)
  PROVE  /\ Rest(s, j) \in Seq(Octets) /\ Len(Rest(s, j)) = Len(s) - Min2(j, Len(s))
         /\ Follows(Rest(s, j), n, k + Min2(j, Len(s)))
<1>1. CASE j < Len(s)
  <2> DEFINE u == SubSeq(s, j + 1, Len(s))
  <2>1. /\ u \in Seq(Octets) /\ Len(u) = Len(s) - j
        /\ \A i \in 1..(Len(s) - j) : u[i] = s[j + i]
    BY <1>1, SubSeqProperties
  <2>2. Min2(j, Len(s)) = j /\ Rest(s, j) = u
    BY <1>1 DEF Min2, Rest
  <2> HIDE DEF u
  <2>3. ASSUME NEW i \in 1..Len(u) PROVE u[i] = <<n, (k + j) + i>>
    <3>1. j + i \in 1..Len(s)
      BY <1>1, <2>1
    <3>2. u[i] = <<n, k + (j + i)>>
      BY <2>1, <3>1 DEF Follows
    <3> QED BY <3>2
  <2>4. Follows(u, n, k + j)
    BY <2>3 DEF Follows
  <2> QED BY <2>1, <2>2, <2>4
<1>2. CASE j >= Len(s)
  <2>1. SubSeq(s, j + 1, Len(s)) = <<>>
    BY <1>2, SubSeqEmpty
  <2>2. Min2(j, Len(s)) = Len(s)
    BY <1>2 DEF Min2
  <2>3. Rest(s, j) = <<>> /\ Len(s) - Min2(j, Len(s)) = 0
    BY <2>1, <2>2 DEF Rest
  <2> QED BY <2>3, EmptyFact
<1> QED BY <1>1, <1>2

LEMMA BytesFact ==
  ASSUME NEW m, m.conn \in Fetches, m.from \in Nat, m.to \in Nat, m.from < m.to, m.to <= End,
         m.from # 0
  PROVE  /\ Bytes(m) \in Seq(Octets)
         /\ Len(Bytes(m)) = Min2(m.to, ReplyLen + 1) - m.from
         /\ Follows(Bytes(m), m.conn, m.from - 1)
         /\ Len(Bytes(m)) \in Nat
<1> DEFINE l == Min2(m.to, ReplyLen + 1) - m.from
<1>1. l \in Nat
  BY Numbers DEF Min2
<1>2. Bytes(m) = [i \in 1..l |-> <<m.conn, m.from + i - 1>>]
  BY DEF Bytes
<1> HIDE DEF l
<1>3. \A i \in 1..l : <<m.conn, m.from + i - 1>> \in Octets /\ m.from + i - 1 = (m.from - 1) + i
  BY <1>1 DEF Octets
<1>4. Bytes(m) \in [1..l -> Octets]
  BY <1>2, <1>3
<1>5. Bytes(m) \in Seq(Octets) /\ Len(Bytes(m)) = l
  BY <1>1, <1>4
<1>6. Follows(Bytes(m), m.conn, m.from - 1)
  BY <1>2, <1>3, <1>5 DEF Follows
<1> QED BY <1>1, <1>5, <1>6 DEF l

-----------------------------------------------------------------------------
(* The network and the server. *)

(* A segment bears the port of the connection it is of; one of the server  *)
(* lies within the reply and its FIN.                                      *)
UpGood(m) ==
  /\ m.conn \in Fetches /\ m.port = m.conn /\ m.ack \in Nat
  /\ m.kind \in {"syn", "ack", "data", "fin"} /\ m.kind = "syn" => m.ack = 0
DownGood(m) ==
  /\ m.conn \in Fetches /\ m.port = m.conn /\ m.kind \in {"data", "rst"}
  /\ m.kind = "data" => m.from \in Nat /\ m.to \in Nat /\ m.from < m.to /\ m.to <= End

Ends == [state: {"closed", "open", "gone"}, conn: {0} \cup Fetches, have: SUBSET Chunks,
         una: Nat, nxt: Nat]
NetInv ==
  /\ \A m \in up : UpGood(m)
  /\ \A m \in down : DownGood(m)
  /\ server \in [Fetches -> Ends]
  /\ \A p \in Fetches :
       /\ server[p].state = "open" => server[p].conn = p
       /\ server[p].una <= server[p].nxt /\ server[p].nxt <= End

(* The client, in the middle of a connection and between two.              *)
Clients == [pc: {"idle", "syn", "get", "opened", "open", "read"}, n: {0} \cup Fetches,
            mode: {"get", "stream"}, next: 0..End, limit: Nat, got: Seq(Octets),
            pend: Seq(Octets), fin: BOOLEAN, late: BOOLEAN,
            result: {"open", "ok", "failed"}]
ClientInv ==
  /\ client \in Clients
  /\ client.pc = "idle" <=> client.result # "open"
  /\ client.pc # "idle" => client.n \in Fetches
  /\ client.pc = "get" => client.mode = "get"
  /\ client.pc \in {"opened", "open", "read"} => client.mode = "stream"
  /\ client.mode = "get" => client.pend = <<>> /\ (client.n # 0 => client.limit # 0)
  /\ client.mode = "stream" => client.limit = 0

(* What has come is the reply of this connection up to next; the part not  *)
(* yet read follows the part read.                                         *)
ReplyInv ==
  /\ Follows(client.got, client.n, 0) /\ Follows(client.pend, client.n, Len(client.got))
  /\ client.pc \in {"idle", "syn"} => Len(client.got) <= ReplyLen /\ client.pend = <<>>
  /\ client.pc = "syn" => client.got = <<>> /\ client.next = 0
  /\ client.pc \in {"get", "opened", "open", "read"} =>
       client.next > 0 /\ Here = Min2(client.next - 1, ReplyLen)
  /\ client.pc = "get" => Len(client.got) < client.limit
  /\ client.pc = "read" => client.pend = <<>>
  /\ client.n = 0 => client.got = <<>>
  /\ client.mode = "get" => Len(client.got) <= client.limit

Inv == NetInv /\ ClientInv /\ ReplyInv

(* Of a connection not yet begun nothing is on its way.  A reset on its    *)
(* way is one the server made, and an end is that of the whole reply or    *)
(* one the server made.                                                    *)
EndInv ==
  /\ \A m \in down : m.conn <= client.n
  /\ \A m \in down : m.kind = "rst" /\ m.conn = client.n => "reset" \in lost
  /\ client.fin => client.next = End \/ "reset" \in lost

LEMMA InvInit == Init => Inv
<1> SUFFICES ASSUME Init PROVE Inv
  OBVIOUS
<1> USE Numbers, EmptyFact
<1>1. NetInv
  BY DEF Init, NetInv, Closed, Ends
<1>2. ClientInv
  BY DEF Init, ClientInv, Clients, Idle
<1>3. ReplyInv
  BY DEF Init, ReplyInv, Idle, Follows
<1> QED BY <1>1, <1>2, <1>3 DEF Inv

-----------------------------------------------------------------------------
(* What the client sends and takes. *)

LEMMA SendsGood ==
  ASSUME NEW n \in Fetches, NEW a \in Nat
  PROVE  /\ UpGood(Syn(n)) /\ UpGood(Ack(n, a)) /\ UpGood(Fin(n, a))
         /\ \A u \in Request(n, a) : UpGood(u)
BY DEF UpGood, Syn, Ack, Fin, Request, Chunk, Port

LEMMA ClientNet ==
  ASSUME NetInv, \A u \in up' : u \in up \/ UpGood(u), down' \subseteq down, UNCHANGED server
  PROVE  NetInv'
<1>1. \A m \in up' : UpGood(m)
  BY DEF NetInv
<1>2. \A m \in down' : DownGood(m)
  BY DEF NetInv
<1> QED BY <1>1, <1>2 DEF NetInv

(* The segment that comes next, in the reply loop and in tcp_read.         *)
LEMMA TakenFact ==
  ASSUME Inv, NEW m \in down, InOrder(m), client.pc \in {"get", "read"}
  PROVE  /\ Bytes(m) \in Seq(Octets) /\ Len(Bytes(m)) \in Nat
         /\ Follows(Bytes(m), client.n, Len(client.got))
         /\ Len(client.got) + Len(Bytes(m)) = Min2(m.to - 1, ReplyLen)
         /\ m.to \in 1..End /\ client.n \in Fetches /\ m.from < m.to
         /\ m.from = client.next /\ client.next \in Nat
         /\ \A u \in Acks(m) : UpGood(u) /\ u.ack <= m.to
<1>1. /\ client.n \in Fetches /\ client.next \in 0..End /\ client.pend = <<>> /\ client.next > 0
      /\ client.got \in Seq(Octets) /\ Here = Min2(client.next - 1, ReplyLen)
  BY DEF Inv, ClientInv, ReplyInv, Clients
<1>2. /\ m.conn = client.n /\ m.from = client.next /\ m.to \in Nat /\ m.from < m.to /\ m.to <= End
      /\ m.from \in Nat
  BY <1>1 DEF InOrder, Mine, Port, Inv, NetInv, DownGood
<1>3. /\ Bytes(m) \in Seq(Octets) /\ Len(Bytes(m)) = Min2(m.to, ReplyLen + 1) - m.from
      /\ Follows(Bytes(m), m.conn, m.from - 1) /\ Len(Bytes(m)) \in Nat
  BY <1>1, <1>2, BytesFact
<1>4. Len(client.got) = client.next - 1
  BY <1>1, <1>2, Numbers DEF Here, Min2
<1>5. Len(client.got) + Len(Bytes(m)) = Min2(m.to - 1, ReplyLen)
  BY SMTT(30), <1>1, <1>2, <1>3, <1>4, Numbers DEF Min2
<1>6. Follows(Bytes(m), client.n, Len(client.got))
  BY <1>2, <1>3, <1>4
<1>7. ASSUME NEW u \in Acks(m) PROVE UpGood(u) /\ u.ack <= m.to
  <2>1. PICK a \in {m.from + Len(Bytes(m)), m.to} : u = Ack(client.n, a)
    BY DEF Acks
  <2>2. m.from + Len(Bytes(m)) <= m.to
    BY <1>2, <1>3, Numbers DEF Min2
  <2>3. a \in Nat /\ a <= m.to
    BY <1>2, <1>3, <2>1, <2>2
  <2> QED BY <1>1, <2>1, <2>3, SendsGood DEF Ack, Syn
<1> QED BY <1>1, <1>2, <1>3, <1>5, <1>6, <1>7, Numbers

-----------------------------------------------------------------------------
(* The client's steps: each keeps the invariant and is one of the stream's *)
(* steps, or none.                                                         *)

Mapped == Stream!Begin \/ Stream!More \/ UNCHANGED <<client.n, client.got, client.limit, client.result>>
Kept == ClientInv' /\ ReplyInv' /\ Mapped

LEMMA Both ==
  ASSUME NEW a \in Nat, NEW b \in Nat, NEW c \in Nat, a + b <= c
  PROVE  a <= c /\ b <= c
OBVIOUS

LEMMA Filled ==
  ASSUME NEW a \in Nat, NEW b \in Nat, NEW l \in Nat, a < l, NEW g, g = a + Min2(l - a, b)
  PROVE  /\ g \in Nat /\ g <= a + b /\ a <= g /\ g <= l
         /\ g < l => g = a + b
BY DEF Min2

LEMMA ClientFact ==
  ASSUME Inv
  PROVE  /\ client \in Clients /\ Len(client.got) \in Nat /\ Len(client.got) <= ReplyLen
         /\ Len(client.pend) \in Nat /\ Here <= ReplyLen
<1>1. client \in Clients /\ Len(client.got) \in Nat /\ Len(client.pend) \in Nat
  BY DEF Inv, ClientInv, Clients
<1>2. CASE client.pc \in {"idle", "syn"}
  <2>1. Len(client.got) <= ReplyLen /\ Len(client.pend) = 0
    BY <1>2, EmptyFact DEF Inv, ReplyInv
  <2> QED BY <1>1, <2>1, Numbers DEF Here
<1>3. CASE client.pc \in {"get", "opened", "open", "read"}
  <2>1. client.next > 0 /\ client.next \in Nat /\ Here = Min2(client.next - 1, ReplyLen)
    BY <1>1, <1>3, Numbers DEF Inv, ReplyInv, Clients
  <2>2. Here <= ReplyLen
    BY <2>1, Numbers DEF Min2
  <2>3. Len(client.got) <= ReplyLen
    BY <1>1, <2>2, Both, Numbers DEF Here
  <2> QED BY <1>1, <2>2, <2>3
<1>4. client.pc \in {"idle", "syn"} \/ client.pc \in {"get", "opened", "open", "read"}
  BY <1>1 DEF Clients
<1>5. Here <= ReplyLen
  BY <1>2, <1>3, <1>4
<1>6. Len(client.got) <= ReplyLen
  BY <1>1, <1>5, Both, Numbers DEF Here
<1> QED BY <1>1, <1>5, <1>6

LEMMA BoundFact ==
  ASSUME Inv
  PROVE  /\ client.mode = "get" => Len(client.got) <= client.limit
         /\ client.pc # "idle" => client.n # 0
         /\ client.limit \in Nat
BY DEF Inv, ReplyInv, ClientInv, Clients, Fetches

LEMMA MoreFact ==
  ASSUME Inv, client.pc # "idle", client'.n = client.n, client'.limit = client.limit,
         client'.got \in Seq(Octets), Follows(client'.got, client.n, 0),
         Len(client.got) <= Len(client'.got), Len(client'.got) <= ReplyLen,
         client'.result \in {"open", "ok", "failed"},
         client'.result = "ok" =>
           \/ Len(client'.got) = ReplyLen
           \/ client.limit # 0 /\ Len(client'.got) = client.limit
           \/ client.limit = 0 /\ "reset" \in lost /\ UNCHANGED lost
  PROVE  Mapped
<1>1. client.result = "open"
  BY DEF Inv, ClientInv
<1>2. Stream!PrefixOf(client'.got, client.n)
  BY DEF Stream!PrefixOf, Follows
<1>3. client'.result = "ok" => Stream!Enough(client'.got, client'.limit)
  BY DEF Stream!Enough
<1> QED BY <1>1, <1>2, <1>3 DEF Mapped, Stream!More

(* The end of a connection. *)
LEMMA EndedFact ==
  ASSUME Inv, client.pc # "idle", NEW c, NEW r \in {"ok", "failed"},
         c.n = client.n, c.mode = client.mode, c.limit = client.limit,
         c.got \in Seq(Octets), Follows(c.got, client.n, 0),
         Len(client.got) <= Len(c.got), Len(c.got) <= ReplyLen,
         r = "ok" => \/ Len(c.got) = ReplyLen
                     \/ client.limit # 0 /\ Len(c.got) = client.limit
                     \/ client.limit = 0 /\ "reset" \in lost /\ UNCHANGED lost,
         client.mode = "get" => Len(c.got) <= client.limit,
         client' = Ended(c, r)
  PROVE  Kept
<1>1. /\ client' = [pc |-> "idle", n |-> c.n, mode |-> c.mode, next |-> 0, limit |-> c.limit,
                     got |-> c.got, pend |-> <<>>, fin |-> FALSE,
                     late |-> FALSE, result |-> r]
  BY DEF Ended, Idle
<1>2. ClientInv'
  BY <1>1, EmptyFact, Numbers DEF Inv, ClientInv, Clients
<1>3. ReplyInv'
  <2>1. c.n # 0
    BY DEF Inv, ClientInv, Fetches
  <2> QED BY <1>1, <2>1, EmptyFact DEF ReplyInv, Follows
<1>4. Mapped
  <2>1. /\ client'.n = client.n /\ client'.limit = client.limit /\ client'.got = c.got
        /\ client'.result = r
    BY <1>1
  <2> QED BY <2>1, MoreFact
<1> QED BY <1>2, <1>3, <1>4 DEF Kept

LEMMA StartKept ==
  ASSUME Inv, NEW mode \in {"get", "stream"}, NEW limit \in Nat,
         mode = "get" <=> limit # 0, Start(mode, limit)
  PROVE  Inv' /\ Mapped
<1> DEFINE n == client.n + 1
<1>1. n \in Fetches /\ (client.pc = "idle" \/ client.pc \in {"opened", "open"})
  BY DEF Start
<1>2. PICK pc \in {"syn", "idle"}, r \in {"open", "failed"} :
        /\ pc = "idle" <=> r # "open"
        /\ client' = [pc |-> pc, n |-> n, mode |-> mode, next |-> 0, limit |-> limit,
                      got |-> <<>>, pend |-> <<>>, fin |-> FALSE,
                      late |-> FALSE, result |-> r]
        /\ up' \subseteq up \cup {Syn(n)}
  <2>1. CASE /\ client' = [[Idle EXCEPT !.n = n, !.mode = mode, !.limit = limit]
                             EXCEPT !.pc = "syn", !.result = "open"]
             /\ up' = up \cup {Syn(n)}
    BY <2>1 DEF Idle
  <2>2. CASE client' = [Idle EXCEPT !.n = n, !.mode = mode, !.limit = limit] /\ UNCHANGED up
    BY <2>2 DEF Idle
  <2> QED BY <2>1, <2>2 DEF Start
<1>3. NetInv'
  BY <1>1, <1>2, ClientNet, SendsGood DEF Start, Inv
<1> HIDE DEF n
<1>4. ClientInv'
  BY <1>1, <1>2, EmptyFact, Numbers DEF ClientInv, Clients
<1>5. ReplyInv'
  BY <1>1, <1>2, EmptyFact, Numbers DEF ReplyInv, Follows
<1>6. Mapped
  <2>1. client.result = "open" => client.limit = 0
    BY <1>1 DEF Inv, ClientInv
  <2>2. /\ client'.n = client.n + 1 /\ client'.got = <<>> /\ client'.limit \in Nat
        /\ client'.result \in {"open", "failed"}
    BY <1>2 DEF n
  <2> QED BY <1>1, <2>1, <2>2 DEF Mapped, Stream!Begin, n
<1> QED BY <1>3, <1>4, <1>5, <1>6 DEF Inv

LEMMA SynAckKept ==
  ASSUME Inv, NEW m \in down, TakeSynAck(m), down' \subseteq down, UNCHANGED server
  PROVE  Inv' /\ Mapped
<1>1. /\ client.pc = "syn" /\ client.n \in Fetches /\ client \in Clients
      /\ client.got = <<>> /\ client.pend = <<>>
  BY DEF TakeSynAck, Inv, ClientInv, ReplyInv
<1>2. CASE UNCHANGED <<client, up>>
  BY <1>2, ClientNet, ClientFact DEF Inv, NetInv, ClientInv, ReplyInv, Here, Mapped
<1>3. CASE client' = Ended(client, "failed") /\ UNCHANGED up
  <2>1. Kept
    BY <1>1, <1>3, ClientFact, EndedFact, EmptyFact DEF Clients
  <2>2. NetInv'
    BY <1>3, ClientNet DEF Inv
  <2> QED BY <2>1, <2>2 DEF Kept, Inv
<1>4. ASSUME NEW pc \in {"get", "opened"}, pc = "get" <=> client.mode = "get",
             client' = [client EXCEPT !.pc = pc, !.next = 1]
      PROVE  Kept
  <2>1. /\ client'.pc = pc /\ client'.next = 1 /\ client'.n = client.n /\ client'.mode = client.mode
        /\ client'.limit = client.limit /\ client'.got = <<>> /\ client'.pend = <<>>
        /\ client'.fin = client.fin /\ client'.result = client.result
    BY <1>1, <1>4 DEF Clients
  <2>9. client' \in Clients
    <3>1. 1 \in 0..End
      BY Numbers
    <3> QED BY <1>1, <1>4, <3>1 DEF Clients
  <2>2. client.result = "open" /\ client.mode \in {"get", "stream"}
    BY <1>1 DEF Inv, ReplyInv, ClientInv, Clients
  <2>3. ClientInv'
    BY <1>1, <1>4, <2>1, <2>2, <2>9 DEF Inv, ClientInv
  <2>5. Here' = Min2(1 - 1, ReplyLen)
    BY <2>1, EmptyFact, Numbers DEF Here, Min2
  <2>6. client'.pc = "get" => client'.limit > 0
    <3>1. client.limit \in Nat /\ (client.mode = "get" => client.limit # 0)
      BY <1>1 DEF Inv, ClientInv, Clients, Fetches
    <3> QED BY <1>4, <2>1, <3>1
  <2>7. ReplyInv'
    BY <1>1, <2>1, <2>5, <2>6, BoundFact, EmptyFact DEF ReplyInv
  <2>8. Mapped
    BY <1>1, <2>1 DEF Mapped
  <2> QED BY <2>3, <2>7, <2>8 DEF Kept
<1>5. CASE /\ client.mode = "get" /\ client' = [client EXCEPT !.pc = "get", !.next = 1]
           /\ Sends({Ack(client.n, 1)} \cup Request(client.n, 1))
  <2>1. NetInv'
    BY <1>1, <1>5, ClientNet, SendsGood DEF Inv, Sends
  <2> QED BY <1>4, <1>5, <2>1 DEF Kept, Inv
<1>6. CASE /\ client.mode # "get" /\ client' = [client EXCEPT !.pc = "opened", !.next = 1]
           /\ Sends({Ack(client.n, 1)})
  <2>1. NetInv'
    BY <1>1, <1>6, ClientNet, SendsGood DEF Inv, Sends
  <2> QED BY <1>4, <1>6, <2>1 DEF Kept, Inv
<1> QED BY <1>2, <1>3, <1>5, <1>6 DEF TakeSynAck

LEMMA StillFact ==
  ASSUME Inv, UNCHANGED client, \A u \in up' : u \in up \/ UpGood(u), down' \subseteq down,
         UNCHANGED server
  PROVE  Inv' /\ Mapped
BY ClientNet DEF Inv, ClientInv, ReplyInv, Here, Mapped

LEMMA ReplyKept ==
  ASSUME Inv, NEW m \in down, TakeReply(m), down' \subseteq down, UNCHANGED server
  PROVE  Inv' /\ Mapped
<1>1. client.pc = "get" /\ client.n \in Fetches /\ client \in Clients
  BY DEF TakeReply, Inv, ClientInv
<1>2. CASE ~InOrder(m)
  BY <1>2, StillFact DEF TakeReply
<1>3. CASE InOrder(m)
  <2> DEFINE k == client.limit - Len(client.got)
             got == client.got \o First(Bytes(m), k)
             c == [client EXCEPT !.got = got, !.next = m.to, !.fin = HasFin(m)]
  <2>1. /\ Bytes(m) \in Seq(Octets) /\ Len(Bytes(m)) \in Nat
        /\ Follows(Bytes(m), client.n, Len(client.got))
        /\ Len(client.got) + Len(Bytes(m)) = Min2(m.to - 1, ReplyLen)
        /\ m.to \in 1..End /\ \A u \in Acks(m) : UpGood(u)
    BY <1>1, <1>3, TakenFact
  <2>2. /\ client.limit \in Nat /\ client.got \in Seq(Octets) /\ Len(client.got) \in Nat
        /\ Len(client.got) < client.limit /\ Follows(client.got, client.n, 0) /\ k \in Nat
    BY <1>1 DEF Inv, ReplyInv, Clients
  <2>3. /\ First(Bytes(m), k) \in Seq(Octets) /\ Len(First(Bytes(m), k)) = Min2(k, Len(Bytes(m)))
        /\ Follows(First(Bytes(m), k), client.n, Len(client.got))
    BY <2>1, <2>2, FirstFact
  <2>4. /\ got \in Seq(Octets) /\ Len(got) = Len(client.got) + Min2(k, Len(Bytes(m)))
        /\ Follows(got, client.n, 0)
    BY <2>2, <2>3, AppendFact
  <2>5. /\ Len(client.got) <= Len(got) /\ Len(got) <= ReplyLen
        /\ Len(got) <= client.limit
        /\ Len(got) < client.limit => Len(got) = Min2(m.to - 1, ReplyLen)
    <3>1. /\ Len(got) \in Nat /\ Len(got) <= Len(client.got) + Len(Bytes(m))
          /\ Len(client.got) <= Len(got) /\ Len(got) <= client.limit
          /\ Len(got) < client.limit => Len(got) = Len(client.got) + Len(Bytes(m))
      <4> DEFINE g == Len(got)
      <4>1. g = Len(client.got) + Min2(client.limit - Len(client.got), Len(Bytes(m)))
        BY <2>4 DEF k
      <4> HIDE DEF g, got
      <4>2. /\ g \in Nat /\ g <= Len(client.got) + Len(Bytes(m))
            /\ Len(client.got) <= g /\ g <= client.limit
            /\ g < client.limit => g = Len(client.got) + Len(Bytes(m))
        <5> DEFINE a == Len(client.got)
                   b == Len(Bytes(m))
                   l == client.limit
        <5>1. a \in Nat /\ b \in Nat /\ l \in Nat /\ a < l /\ g = a + Min2(l - a, b)
          BY <2>1, <2>2, <4>1
        <5> HIDE DEF a, b, l
        <5>2. g \in Nat /\ g <= a + b /\ a <= g /\ g <= l /\ (g < l => g = a + b)
          BY <5>1, Filled
        <5> QED BY <5>2 DEF a, b, l
      <4> QED BY <4>2 DEF g
    <3>2. Min2(m.to - 1, ReplyLen) <= ReplyLen /\ Min2(m.to - 1, ReplyLen) \in Nat
      BY <2>1, Numbers DEF Min2
    <3> HIDE DEF got
    <3> QED BY <2>1, <2>2, <3>1, <3>2, Numbers
  <2>6. m.to = End => Min2(m.to - 1, ReplyLen) = ReplyLen
    BY Numbers DEF Min2
  <2> HIDE DEF got, k
  <2>7. CASE HasFin(m) \/ Len(got) >= client.limit
    <3>1. client' = Ended(c, "ok") /\ Sends(Acks(m) \cup {Fin(client.n, m.to)})
      BY <1>3, <2>7 DEF TakeReply, got, k
    <3>2. Len(got) = ReplyLen \/ (client.limit # 0 /\ Len(got) = client.limit)
      BY <2>2, <2>4, <2>5, <2>6, <2>7 DEF HasFin
    <3>3. c.n = client.n /\ c.mode = client.mode /\ c.limit = client.limit /\ c.got = got
      BY <1>1 DEF Clients
    <3> HIDE DEF c
    <3>4. Kept
      BY <1>1, <2>4, <2>5, <3>1, <3>2, <3>3, EndedFact
    <3>5. NetInv'
      BY <1>1, <2>1, <3>1, ClientNet, SendsGood DEF Inv, Sends
    <3> QED BY <3>4, <3>5 DEF Kept, Inv
  <2>8. CASE ~(HasFin(m) \/ Len(got) >= client.limit)
    <3>1. client' = c /\ Sends(Acks(m))
      BY <1>3, <2>8 DEF TakeReply, got, k
    <3>2. /\ client'.pc = "get" /\ client'.n = client.n /\ client'.mode = client.mode
          /\ client'.limit = client.limit /\ client'.got = got /\ client'.next = m.to
          /\ client'.pend = client.pend /\ client'.fin = FALSE /\ client'.result = client.result
      BY <1>1, <2>8, <3>1 DEF Clients
    <3>9. client' \in Clients
      <4>1. m.to \in 0..End /\ HasFin(m) \in BOOLEAN
        BY <2>1, Numbers DEF HasFin
      <4> HIDE DEF HasFin
      <4> QED BY <1>1, <2>4, <3>1, <4>1 DEF Clients
    <3> HIDE DEF c
    <3>3. client.mode = "get" /\ client.pend = <<>> /\ client.result = "open"
      BY <1>1 DEF Inv, ClientInv
    <3>4. ClientInv'
      BY <1>1, <3>2, <3>3, <3>9 DEF Inv, ClientInv
    <3>5. Len(got) < client.limit /\ Here' = Min2(m.to - 1, ReplyLen)
      BY <2>2, <2>4, <2>5, <2>8, <3>2, <3>3, EmptyFact DEF Here
    <3>6. ReplyInv'
      BY <1>1, <2>1, <2>4, <2>5, <3>2, <3>3, <3>5, BoundFact, EmptyFact DEF ReplyInv
    <3>7. Mapped
      BY <1>1, <2>4, <2>5, <3>2, <3>3, MoreFact
    <3>8. NetInv'
      BY <2>1, <3>1, ClientNet DEF Inv, Sends
    <3> QED BY <3>4, <3>6, <3>7, <3>8 DEF Inv
  <2> QED BY <2>7, <2>8
<1> QED BY <1>2, <1>3

LEMMA ReadKept ==
  ASSUME Inv, NEW m \in down, NEW max \in Nat, TakeRead(m, max), down' \subseteq down,
         UNCHANGED server
  PROVE  Inv' /\ Mapped
<1>1. /\ client.pc = "read" /\ client.n \in Fetches /\ client \in Clients
      /\ client.mode = "stream" /\ client.limit = 0 /\ client.pend = <<>>
      /\ client.result = "open" /\ client.next > 0 /\ client.next \in Nat
  BY Numbers DEF TakeRead, Inv, ClientInv, ReplyInv, Clients
<1>2. CASE Mine(m) /\ m.kind = "rst"
  <2>1. client' = [client EXCEPT !.pc = "open", !.fin = TRUE] /\ UNCHANGED up
    BY <1>2 DEF TakeRead
  <2>2. /\ client'.pc = "open" /\ client'.n = client.n /\ client'.mode = client.mode
        /\ client'.limit = client.limit /\ client'.got = client.got /\ client'.next = client.next
        /\ client'.pend = client.pend /\ client'.result = client.result
    BY <1>1, <2>1 DEF Clients
  <2>3. client' \in Clients
    BY <1>1, <2>1 DEF Clients
  <2>4. ClientInv'
    BY <1>1, <2>2, <2>3 DEF Inv, ClientInv
  <2>5. ReplyInv'
    BY <1>1, <2>2 DEF Inv, ReplyInv, Here
  <2>6. NetInv' /\ Mapped
    BY <2>1, <2>2, ClientNet DEF Inv, Mapped
  <2> QED BY <2>4, <2>5, <2>6 DEF Inv
<1>3. CASE ~(Mine(m) /\ m.kind = "rst") /\ ~InOrder(m)
  <2>1. Sends(AckAgain(m)) /\ UNCHANGED client
    BY <1>3 DEF TakeRead
  <2>2. \A u \in AckAgain(m) : UpGood(u)
    BY <1>1, SendsGood DEF AckAgain
  <2> QED BY <2>1, <2>2, StillFact DEF Sends
<1>4. CASE ~(Mine(m) /\ m.kind = "rst") /\ InOrder(m)
  <2> DEFINE b == Bytes(m)
             got == client.got \o First(b, max)
             pend == Rest(b, max)
  <2>1. /\ b \in Seq(Octets) /\ Len(b) \in Nat /\ Follows(b, client.n, Len(client.got))
        /\ Len(client.got) + Len(b) = Min2(m.to - 1, ReplyLen)
        /\ m.to \in 1..End /\ \A u \in Acks(m) : UpGood(u)
    BY <1>1, <1>4, TakenFact
  <2> HIDE DEF b
  <2>2. client.got \in Seq(Octets) /\ Len(client.got) \in Nat /\ Follows(client.got, client.n, 0)
    BY <1>1 DEF Inv, ReplyInv, Clients
  <2>3. /\ First(b, max) \in Seq(Octets) /\ Len(First(b, max)) = Min2(max, Len(b))
        /\ Follows(First(b, max), client.n, Len(client.got))
        /\ pend \in Seq(Octets) /\ Len(pend) = Len(b) - Min2(max, Len(b))
        /\ Follows(pend, client.n, Len(client.got) + Min2(max, Len(b)))
    BY <2>1, <2>2, FirstFact, RestFact
  <2>4. /\ got \in Seq(Octets) /\ Len(got) = Len(client.got) + Min2(max, Len(b))
        /\ Follows(got, client.n, 0)
    BY <2>2, <2>3, AppendFact
  <2>5. client' = [client EXCEPT !.pc = "open", !.next = m.to, !.fin = HasFin(m),
                                 !.got = got, !.pend = pend] /\ Sends(Acks(m))
    BY <1>1, <1>4 DEF TakeRead, b
  <2> HIDE DEF got, pend
  <2>6. /\ client'.pc = "open" /\ client'.n = client.n /\ client'.mode = client.mode
        /\ client'.limit = client.limit /\ client'.got = got /\ client'.next = m.to
        /\ client'.pend = pend /\ client'.fin = HasFin(m) /\ client'.result = client.result
    BY <1>1, <2>5 DEF Clients
  <2>7. client' \in Clients
    <3>1. m.to \in 0..End /\ HasFin(m) \in BOOLEAN
      BY <2>1, Numbers DEF HasFin
    <3> HIDE DEF HasFin
    <3> QED BY <1>1, <2>3, <2>4, <2>5, <3>1 DEF Clients
  <2>8. ClientInv'
    BY <1>1, <2>6, <2>7 DEF ClientInv
  <2>9. Min2(max, Len(b)) \in Nat /\ Min2(max, Len(b)) <= Len(b)
    BY <2>1 DEF Min2
  <2>10. /\ Len(got) + Len(pend) = Min2(m.to - 1, ReplyLen) /\ Len(got) \in Nat
         /\ Len(pend) \in Nat /\ Len(client.got) <= Len(got)
    BY <2>1, <2>2, <2>3, <2>4, <2>9
  <2>11. Here' = Min2(m.to - 1, ReplyLen) /\ m.to > 0
    BY <2>1, <2>6, <2>10 DEF Here
  <2>12. ReplyInv'
    BY <1>1, <2>3, <2>4, <2>6, <2>11, BoundFact DEF ReplyInv, HasFin
  <2>13. Len(got) <= ReplyLen
    <3>1. Min2(m.to - 1, ReplyLen) <= ReplyLen
      BY <2>1, Numbers DEF Min2
    <3> QED BY <2>10, <3>1, Both, Numbers
  <2>14. Mapped
    BY <1>1, <2>4, <2>6, <2>10, <2>13, MoreFact
  <2>15. NetInv'
    BY <2>1, <2>5, ClientNet DEF Inv, Sends
  <2> QED BY <2>8, <2>12, <2>14, <2>15 DEF Inv
<1> QED BY <1>2, <1>3, <1>4

LEMMA DeadlineKept == Inv /\ Deadline => Inv' /\ Mapped
<1> SUFFICES ASSUME Inv, Deadline PROVE Inv' /\ Mapped
  OBVIOUS
<1>1. /\ client \in Clients /\ client.got \in Seq(Octets) /\ Follows(client.got, client.n, 0)
      /\ Len(client.got) \in Nat /\ Len(client.got) <= ReplyLen
  BY ClientFact DEF Inv, ReplyInv, Clients
<1>2. CASE client.pc \in {"syn", "get"} /\ client' = Ended(client, "failed")
  <2>1. Kept
    BY <1>1, <1>2, BoundFact, EndedFact
  <2>2. client.n \in Fetches /\ client.next \in Nat
    BY <1>1, <1>2, Numbers DEF Inv, ClientInv, Clients
  <2>3. \A u \in up' : u \in up \/ UpGood(u)
    BY <1>2, <2>2, SendsGood DEF Deadline, ConnectLate, ReplyLate, ReadLate, Sends
  <2>4. NetInv'
    BY <2>3, ClientNet DEF Deadline, Inv
  <2> QED BY <2>1, <2>4 DEF Kept, Inv
<1>3. CASE client.pc = "read" /\ client' = [client EXCEPT !.pc = "open", !.late = TRUE] /\ UNCHANGED up
  <2>1. /\ client'.pc = "open" /\ client'.n = client.n /\ client'.mode = client.mode
        /\ client'.limit = client.limit /\ client'.got = client.got /\ client'.next = client.next
        /\ client'.pend = client.pend /\ client'.fin = client.fin
        /\ client'.result = client.result
    BY <1>1, <1>3 DEF Clients
  <2>2. client' \in Clients
    BY <1>1, <1>3 DEF Clients
  <2>3. ClientInv'
    BY <1>3, <2>1, <2>2 DEF Inv, ClientInv
  <2>4. ReplyInv'
    BY <1>3, <2>1 DEF Inv, ReplyInv, Here
  <2>5. NetInv' /\ Mapped
    BY <1>3, <2>1, ClientNet DEF Inv, Mapped, Deadline
  <2> QED BY <2>3, <2>4, <2>5 DEF Inv
<1> QED BY <1>2, <1>3 DEF Deadline, ConnectLate, ReplyLate, ReadLate

LEMMA WriteKept == Inv /\ Write => Inv' /\ Mapped
<1> SUFFICES ASSUME Inv, Write PROVE Inv' /\ Mapped
  OBVIOUS
<1>1. client \in Clients /\ client.n \in Fetches /\ client.next \in Nat /\ client.pc = "opened"
  BY Numbers DEF Write, Inv, ClientInv, Clients
<1>2. client' = [client EXCEPT !.pc = "open"]
  BY DEF Write
<1>3. /\ client'.pc = "open" /\ client'.n = client.n /\ client'.mode = client.mode
      /\ client'.limit = client.limit /\ client'.got = client.got /\ client'.next = client.next
      /\ client'.pend = client.pend /\ client'.fin = client.fin
      /\ client'.result = client.result
  BY <1>1, <1>2 DEF Clients
<1>4. client' \in Clients
  BY <1>1, <1>2 DEF Clients
<1>5. ClientInv'
  BY <1>1, <1>3, <1>4 DEF Inv, ClientInv
<1>6. ReplyInv'
  BY <1>1, <1>3 DEF Inv, ReplyInv, Here
<1>7. NetInv' /\ Mapped
  BY <1>1, <1>3, ClientNet, SendsGood DEF Inv, Mapped, Write, Sends
<1> QED BY <1>5, <1>6, <1>7 DEF Inv

LEMMA ReadOnKept ==
  ASSUME Inv, NEW max \in Nat, Read(max)
  PROVE  Inv' /\ Mapped
<1>1. /\ client.pc = "open" /\ client \in Clients /\ client.n \in Fetches
      /\ client.mode = "stream" /\ client.limit = 0 /\ client.result = "open"
      /\ UNCHANGED <<server, up, down, lost, faults>>
  BY DEF Read, Inv, ClientInv
<1>2. NetInv'
  BY <1>1, ClientNet DEF Inv
<1>3. CASE client.pend # <<>>
  <2> DEFINE b == client.pend
             got == client.got \o First(b, max)
             pend == Rest(b, max)
  <2>1. /\ b \in Seq(Octets) /\ Len(b) \in Nat /\ Follows(b, client.n, Len(client.got))
        /\ client.got \in Seq(Octets) /\ Len(client.got) \in Nat /\ Follows(client.got, client.n, 0)
        /\ Len(client.got) + Len(b) = Here /\ Here <= ReplyLen
    BY <1>1, ClientFact DEF Inv, ReplyInv, Clients, Here
  <2> HIDE DEF b
  <2>2. /\ First(b, max) \in Seq(Octets) /\ Len(First(b, max)) = Min2(max, Len(b))
        /\ Follows(First(b, max), client.n, Len(client.got))
        /\ pend \in Seq(Octets) /\ Len(pend) = Len(b) - Min2(max, Len(b))
        /\ Follows(pend, client.n, Len(client.got) + Min2(max, Len(b)))
    BY <2>1, FirstFact, RestFact
  <2>3. /\ got \in Seq(Octets) /\ Len(got) = Len(client.got) + Min2(max, Len(b))
        /\ Follows(got, client.n, 0)
    BY <2>1, <2>2, AppendFact
  <2>4. client' = [client EXCEPT !.got = got, !.pend = pend]
    BY <1>1, <1>3 DEF Read, b
  <2> HIDE DEF got, pend
  <2>5. /\ client'.pc = "open" /\ client'.n = client.n /\ client'.mode = client.mode
        /\ client'.limit = client.limit /\ client'.got = got /\ client'.next = client.next
        /\ client'.pend = pend /\ client'.fin = client.fin
        /\ client'.result = client.result
    BY <1>1, <2>4 DEF Clients
  <2>6. client' \in Clients
    BY <1>1, <2>2, <2>3, <2>4 DEF Clients
  <2>7. ClientInv'
    BY <1>1, <2>5, <2>6 DEF ClientInv
  <2>8. Min2(max, Len(b)) \in Nat /\ Min2(max, Len(b)) <= Len(b)
    BY <2>1 DEF Min2
  <2>9. /\ Len(got) + Len(pend) = Len(client.got) + Len(b) /\ Len(got) \in Nat
        /\ Len(pend) \in Nat /\ Len(client.got) <= Len(got)
    <3> DEFINE l == Min2(max, Len(b))
               x == Len(client.got)
               y == Len(b)
    <3>1. /\ l \in Nat /\ x \in Nat /\ y \in Nat /\ l <= y
          /\ Len(got) = x + l /\ Len(pend) = y - l
      BY <2>1, <2>2, <2>3, <2>8
    <3> HIDE DEF l, x, y
    <3>2. Len(got) + Len(pend) = x + y /\ Len(got) \in Nat /\ Len(pend) \in Nat /\ x <= Len(got)
      BY <3>1
    <3> QED BY <3>2 DEF x, y
  <2>10. Here' = Here
    BY <2>1, <2>5, <2>9 DEF Here
  <2>11. ReplyInv'
    BY <1>1, <2>2, <2>3, <2>5, <2>10, BoundFact DEF Inv, ReplyInv
  <2>12. Len(got) <= ReplyLen
    <3>1. Len(got) + Len(pend) <= ReplyLen
      BY <2>1, <2>9
    <3> QED BY <2>9, <3>1, Both, Numbers
  <2>13. Mapped
    BY <1>1, <2>3, <2>5, <2>9, <2>12, MoreFact
  <2> QED BY <1>2, <2>7, <2>11, <2>13 DEF Inv
<1>4. CASE client.pend = <<>>
  <2>1. client' = [client EXCEPT !.pc = "read"]
    BY <1>4 DEF Read
  <2>2. /\ client'.pc = "read" /\ client'.n = client.n /\ client'.mode = client.mode
        /\ client'.limit = client.limit /\ client'.got = client.got /\ client'.next = client.next
        /\ client'.pend = client.pend /\ client'.fin = client.fin
        /\ client'.result = client.result
    BY <1>1, <2>1 DEF Clients
  <2>3. client' \in Clients
    BY <1>1, <2>1 DEF Clients
  <2>4. ClientInv'
    BY <1>1, <2>2, <2>3 DEF Inv, ClientInv
  <2>5. ReplyInv'
    BY <1>1, <1>4, <2>2 DEF Inv, ReplyInv, Here
  <2>6. Mapped
    BY <2>2 DEF Mapped
  <2> QED BY <1>2, <2>4, <2>5, <2>6 DEF Inv
<1> QED BY <1>3, <1>4

LEMMA CloseKept == Inv /\ EndInv /\ Close => Inv' /\ Mapped
<1> SUFFICES ASSUME Inv, EndInv, Close PROVE Inv' /\ Mapped
  OBVIOUS
<1> DEFINE r == IF client.late THEN "failed" ELSE "ok"
<1>1. /\ client.pc = "open" /\ client \in Clients /\ client.n \in Fetches
      /\ client.got \in Seq(Octets) /\ Follows(client.got, client.n, 0)
      /\ Len(client.got) \in Nat /\ Len(client.got) <= ReplyLen /\ client.next \in Nat
      /\ client.limit = 0 /\ UNCHANGED lost
  BY ClientFact, Numbers DEF Close, Inv, ClientInv, ReplyInv, Clients
<1>2. r = "ok" => Len(client.got) = ReplyLen \/ "reset" \in lost
  <2> SUFFICES ASSUME r = "ok", "reset" \notin lost PROVE Len(client.got) = ReplyLen
    OBVIOUS
  <2>2. client.fin /\ client.pend = <<>>
    BY DEF Close
  <2>3. client.next = End /\ Here = Min2(client.next - 1, ReplyLen)
    BY <1>1, <2>2 DEF EndInv, Inv, ReplyInv
  <2>4. Here = Len(client.got)
    BY <1>1, <2>2, EmptyFact DEF Here
  <2> QED BY <2>3, <2>4, Numbers DEF Min2
<1>3. client' = Ended(client, r) /\ r \in {"ok", "failed"}
  BY DEF Close
<1> HIDE DEF r
<1>4. Kept
  BY <1>1, <1>2, <1>3, BoundFact, EndedFact
<1>5. NetInv'
  BY <1>1, ClientNet, SendsGood DEF Close, Sends, Inv
<1> QED BY <1>4, <1>5 DEF Kept, Inv

-----------------------------------------------------------------------------
(* Steps of the network and the server leave the client alone.             *)

LEMMA ServerNet ==
  ASSUME Inv, UNCHANGED client, up' \subseteq up, \A m \in down' : m \in down \/ DownGood(m),
         NEW p \in Fetches, NEW s \in Ends, server' = [server EXCEPT ![p] = s],
         s.state = "open" => s.conn = p, s.una <= s.nxt, s.nxt <= End
  PROVE  Inv' /\ Mapped
<1>1. server' \in [Fetches -> Ends] /\ \A q \in Fetches : server'[q] = IF q = p THEN s ELSE server[q]
  BY DEF Inv, NetInv
<1>2. NetInv'
  BY <1>1 DEF Inv, NetInv
<1> QED BY <1>2 DEF Inv, ClientInv, ReplyInv, Here, Mapped

LEMMA OthersStay ==
  ASSUME Inv, UNCHANGED <<client, server>>, up' \subseteq up,
         \A m \in down' : m \in down \/ DownGood(m)
  PROVE  Inv' /\ Mapped
<1>1. NetInv'
  BY DEF Inv, NetInv
<1> QED BY <1>1 DEF Inv, ClientInv, ReplyInv, Here, Mapped

LEMMA EndsFact ==
  ASSUME Inv, NEW p \in Fetches
  PROVE  /\ server[p] \in Ends /\ server \in [Fetches -> Ends]
         /\ server[p].state = "open" => server[p].conn = p
         /\ server[p].una <= server[p].nxt /\ server[p].nxt <= End
         /\ server[p].una \in Nat /\ server[p].nxt \in Nat
BY DEF Inv, NetInv, Ends

LEMMA OpenedFact ==
  ASSUME NEW c \in Fetches, NEW s, s = [Closed EXCEPT !.state = "open", !.conn = c, !.nxt = 1]
  PROVE  s \in Ends /\ s.conn = c /\ s.una = 0 /\ s.nxt = 1
<1>1. Closed \in Ends /\ Closed.una = 0
  BY DEF Closed, Ends
<1> HIDE DEF Closed
<1> QED BY <1>1 DEF Ends

LEMMA HearKept ==
  ASSUME Inv, NEW m \in up, ServerReceives(m)
  PROVE  Inv' /\ Mapped
<1> DEFINE p == m.port
<1>1. p \in Fetches /\ m.conn = p /\ m.ack \in Nat /\ up' \subseteq up /\ UNCHANGED client
  BY DEF Inv, NetInv, UpGood, ServerReceives
<1>2. CASE HearSyn(m)
  <2> DEFINE opened == [Closed EXCEPT !.state = "open", !.conn = m.conn, !.nxt = 1]
  <2>1. CASE UNCHANGED <<server, down, lost>>
    BY <1>1, <2>1, OthersStay
  <2>2. CASE /\ server' = [server EXCEPT ![p] = opened]
             /\ down' = down \cup {[SynAck(p) EXCEPT !.conn = m.conn]}
    <3>1. DownGood([SynAck(p) EXCEPT !.conn = m.conn])
      BY <1>1, Numbers DEF DownGood, SynAck
    <3>2. /\ opened \in Ends /\ opened.conn = p /\ opened.una = 0 /\ opened.nxt = 1
          /\ opened.una <= opened.nxt /\ opened.nxt <= End
      <4>1. m.conn \in Fetches /\ 1 <= End
        BY <1>1, Numbers
      <4>2. opened \in Ends /\ opened.conn = m.conn /\ opened.una = 0 /\ opened.nxt = 1
        BY <4>1, OpenedFact
      <4> HIDE DEF opened
      <4> QED BY <1>1, <4>1, <4>2
    <3> HIDE DEF opened, p
    <3> QED BY <1>1, <2>2, <3>1, <3>2, ServerNet
  <2>3. CASE /\ server' = [server EXCEPT ![p] = Gone] /\ down' = down \cup {Rst(p, m.conn)}
    <3>1. DownGood(Rst(p, m.conn))
      BY <1>1 DEF DownGood, Rst, SynAck
    <3>2. /\ Gone \in Ends /\ Gone.state # "open" /\ Gone.una <= Gone.nxt /\ Gone.nxt <= End
      BY Numbers DEF Gone, Closed, Ends
    <3> HIDE DEF p
    <3> QED BY <1>1, <2>3, <3>1, <3>2, ServerNet
  <2> QED BY <1>2, <2>1, <2>2, <2>3 DEF HearSyn
<1>3. CASE Hear(m)
  <2> DEFINE s == server[p]
             t == [s EXCEPT !.una = IF m.ack > @ THEN m.ack ELSE @,
                            !.have = @ \cup ({m.chunk} \cap Chunks)]
  <2>1. UNCHANGED <<down, lost>>
    BY <1>3 DEF Hear
  <2>2. CASE UNCHANGED server
    BY <1>1, <2>1, <2>2, OthersStay
  <2>3. CASE server' = [server EXCEPT ![p] = Gone]
    <3>2. /\ Gone \in Ends /\ Gone.state # "open" /\ Gone.una <= Gone.nxt /\ Gone.nxt <= End
      BY Numbers DEF Gone, Closed, Ends
    <3> HIDE DEF p
    <3> QED BY <1>1, <2>1, <2>3, <3>2, ServerNet
  <2>4. CASE /\ s.state = "open" /\ s.conn = m.conn /\ ~(m.ack > s.nxt)
             /\ server' = [server EXCEPT ![p].una = IF m.ack > @ THEN m.ack ELSE @,
                                          ![p].have = @ \cup ({m.chunk} \cap Chunks)]
    <3>1. s \in Ends /\ s.una <= s.nxt /\ s.nxt <= End /\ s.una \in Nat /\ s.nxt \in Nat
      BY <1>1, EndsFact
    <3>2. t \in Ends /\ t.conn = s.conn /\ t.nxt = s.nxt /\ t.una = IF m.ack > s.una THEN m.ack ELSE s.una
      BY <1>1, <3>1 DEF Ends
    <3>3. t.una <= t.nxt /\ t.nxt <= End
      BY <1>1, <2>4, <3>1, <3>2
    <3>4. server' = [server EXCEPT ![p] = t]
      BY <1>1, <2>4, EndsFact
    <3>5. t.conn = p
      BY <1>1, <2>4, <3>2
    <3> HIDE DEF t, s, p
    <3> QED BY <1>1, <2>1, <3>2, <3>3, <3>4, <3>5, ServerNet
  <2> QED BY <1>3, <2>2, <2>3, <2>4 DEF Hear
<1> QED BY <1>2, <1>3 DEF ServerReceives

LEMMA SendsKept ==
  ASSUME Inv, NEW p \in Fetches, ServerSends(p)
  PROVE  Inv' /\ Mapped
<1>1. PICK to \in 1..End :
        /\ server[p].nxt < to /\ down' = down \cup {Seg(p, server[p].nxt, to)}
        /\ server' = [server EXCEPT ![p].nxt = to]
  BY DEF ServerSends
<1> DEFINE s == server[p]
           t == [s EXCEPT !.nxt = to]
<1>2. /\ s \in Ends /\ s.una <= s.nxt /\ s.nxt <= End /\ s.una \in Nat /\ s.nxt \in Nat
      /\ s.state = "open" /\ s.conn = p
  BY EndsFact DEF ServerSends
<1>3. t \in Ends /\ t.conn = p /\ t.nxt = to /\ t.una = s.una /\ to \in Nat /\ to <= End
  BY <1>2, Numbers DEF Ends
<1>4. t.una <= t.nxt /\ t.nxt <= End
  BY <1>1, <1>2, <1>3
<1>5. server' = [server EXCEPT ![p] = t]
  BY <1>1, EndsFact
<1>6. DownGood(Seg(p, server[p].nxt, to))
  BY <1>1, <1>2, <1>3 DEF DownGood, Seg, SynAck
<1>7. UNCHANGED client /\ up' \subseteq up
  BY DEF ServerSends
<1> HIDE DEF s, t
<1> QED BY <1>1, <1>3, <1>4, <1>5, <1>6, <1>7, ServerNet

LEMMA RepeatsKept ==
  ASSUME Inv, NEW p \in Fetches, ServerRepeats(p)
  PROVE  Inv' /\ Mapped
<1>1. /\ server[p].una <= server[p].nxt /\ server[p].nxt <= End /\ server[p].una \in Nat
      /\ server[p].nxt \in Nat /\ server[p].conn = p
  BY EndsFact DEF ServerRepeats
<1>2. DownGood(SynAck(p))
  BY <1>1, Numbers DEF DownGood, SynAck
<1>3. ASSUME NEW to \in 1..server[p].nxt, server[p].una < to PROVE DownGood(Seg(p, server[p].una, to))
  <2>1. to \in Nat /\ to <= End
    BY <1>1, Numbers
  <2> QED BY <1>1, <1>3, <2>1 DEF DownGood, Seg, SynAck
<1>4. \A m \in down' : m \in down \/ DownGood(m)
  BY <1>2, <1>3 DEF ServerRepeats
<1> QED BY <1>4, OthersStay DEF ServerRepeats

LEMMA ResetsKept ==
  ASSUME Inv, NEW p \in Fetches, ServerResets(p)
  PROVE  Inv' /\ Mapped
<1>1. server[p].conn = p
  BY EndsFact DEF ServerResets
<1>2. DownGood(Rst(p, server[p].conn))
  BY <1>1 DEF DownGood, Rst, SynAck
<1>3. /\ Gone \in Ends /\ Gone.state # "open" /\ Gone.una <= Gone.nxt /\ Gone.nxt <= End
  BY Numbers DEF Gone, Closed, Ends
<1> QED BY <1>2, <1>3, ServerNet DEF ServerResets

LEMMA InvStep == Inv /\ EndInv /\ [Next]_vars => Inv' /\ Mapped
<1> SUFFICES ASSUME Inv, EndInv, [Next]_vars PROVE Inv' /\ Mapped
  OBVIOUS
<1>1. ASSUME NEW limit \in Limits, Start("get", limit) PROVE Inv' /\ Mapped
  BY <1>1, StartKept, Numbers
<1>2. CASE Start("stream", 0)
  BY <1>2, StartKept
<1>3. ASSUME NEW m \in down, ClientReceives(m) PROVE Inv' /\ Mapped
  <2>1. down' \subseteq down /\ UNCHANGED server
    BY <1>3 DEF ClientReceives
  <2>2. \A max \in 1..SegMax : max \in Nat
    BY Numbers
  <2> QED BY <1>3, <2>1, <2>2, SynAckKept, ReplyKept, ReadKept DEF ClientReceives
<1>4. CASE Deadline
  BY <1>4, DeadlineKept
<1>5. CASE Caller
  <2>1. \A max \in 1..SegMax : max \in Nat
    BY Numbers
  <2> QED BY <1>5, <2>1, WriteKept, CloseKept, ReadOnKept DEF Caller
<1>6. CASE LoseUp \/ LoseDown
  BY <1>6, OthersStay DEF LoseUp, LoseDown
<1>7. ASSUME NEW m \in up, ServerReceives(m) PROVE Inv' /\ Mapped
  BY <1>7, HearKept
<1>8. ASSUME NEW p \in Fetches, ServerSends(p) \/ ServerRepeats(p) \/ ServerResets(p)
      PROVE  Inv' /\ Mapped
  BY <1>8, SendsKept, RepeatsKept, ResetsKept
<1>9. CASE UNCHANGED vars
  BY <1>9, OthersStay DEF vars
<1> QED BY <1>1, <1>2, <1>3, <1>4, <1>5, <1>6, <1>7, <1>8, <1>9 DEF Next, Receiving, Hearing

-----------------------------------------------------------------------------
(* What is acknowledged. *)

(* Nothing of a connection is under way, and nothing of it known to the    *)
(* server, before it begins; of the open one no acknowledgement on its way *)
(* or arrived is ahead of the number expected.                             *)
AckInv ==
  /\ \A u \in up : u.conn <= client.n
  /\ \A p \in Fetches : p > client.n => server[p] = Closed
  /\ client.result = "open" =>
       /\ \A u \in up : u.conn = client.n => u.ack <= client.next
       /\ server[client.n].una <= client.next

(* What the client sends, with the numbers of the open connection.         *)
SentNow(u, a) == u.conn = client.n /\ u.ack <= a

LEMMA SentFact ==
  ASSUME NEW a \in Nat, NEW b \in Nat, a <= b
  PROVE  /\ SentNow(Ack(client.n, a), b) /\ SentNow(Fin(client.n, a), b)
         /\ \A u \in Request(client.n, a) : SentNow(u, b)
BY DEF SentNow, Ack, Fin, Request, Chunk, Syn

LEMMA ClientAck ==
  ASSUME Inv, AckInv, client.pc # "idle", UNCHANGED server, client'.n = client.n,
         client'.result = "open" =>
           /\ client.next <= client'.next /\ client'.next \in Nat
           /\ \A u \in up' : u \in up \/ SentNow(u, client'.next),
         \A u \in up' : u \in up \/ u.conn = client.n
  PROVE  AckInv'
<1>1. client.n \in Fetches /\ client.next \in Nat /\ client.result = "open"
  BY Numbers DEF Inv, ClientInv, Clients
<1>2. \A u \in up' : u.conn <= client'.n
  BY <1>1, Numbers DEF AckInv, Fetches
<1>3. client'.result = "open" => \A u \in up' : u.conn = client'.n => u.ack <= client'.next
  <2> SUFFICES ASSUME client'.result = "open", NEW u \in up', u.conn = client'.n
               PROVE  u.ack <= client'.next
    OBVIOUS
  <2>1. CASE u \in up
    BY <1>1, <2>1 DEF AckInv, Inv, NetInv, UpGood
  <2> QED BY <2>1 DEF SentNow
<1>4. client'.result = "open" => server'[client'.n].una <= client'.next
  BY <1>1, EndsFact DEF AckInv
<1> QED BY <1>2, <1>3, <1>4 DEF AckInv

LEMMA StartAck ==
  ASSUME Inv, AckInv, NEW mode, NEW limit, Start(mode, limit)
  PROVE  AckInv'
<1> DEFINE n == client.n + 1
           fresh == [Idle EXCEPT !.n = n, !.mode = mode, !.limit = limit]
<1>1. n \in Fetches /\ client.n \in Nat /\ UNCHANGED server
  BY DEF Start, Inv, ClientInv, Clients, Fetches
<1>2. client'.n = n /\ client'.next = 0 /\ up' \subseteq up \cup {Syn(n)}
  BY DEF Start, Idle
<1>3. Syn(n).conn = n /\ Syn(n).ack = 0
  BY DEF Syn
<1>4. \A u \in up : u.conn \in Nat /\ u.conn <= client.n
  BY Numbers DEF AckInv, Inv, NetInv, UpGood, Fetches
<1>5. \A u \in up' : u.conn <= client'.n
  BY <1>1, <1>2, <1>3, <1>4
<1>6. \A u \in up' : u.conn = client'.n => u.ack <= client'.next
  BY <1>1, <1>2, <1>3, <1>4
<1>7. \A p \in Fetches : p > client'.n => server'[p] = Closed
  BY <1>1, <1>2, Numbers DEF AckInv, Fetches
<1>8. server'[client'.n].una <= client'.next
  <2>1. server[n] = Closed
    BY <1>1 DEF AckInv
  <2> QED BY <1>1, <1>2, <2>1 DEF Closed
<1> QED BY <1>5, <1>6, <1>7, <1>8 DEF AckInv

LEMMA TakeAck ==
  ASSUME Inv, AckInv, NEW m \in down, NEW max, UNCHANGED server,
         TakeSynAck(m) \/ TakeReply(m) \/ TakeRead(m, max)
  PROVE  AckInv'
<1>1. /\ client.pc \in {"syn", "get", "read"} /\ client \in Clients /\ client.next \in Nat
      /\ client.n \in Fetches
  BY Numbers DEF TakeSynAck, TakeReply, TakeRead, Inv, ClientInv, Clients
<1>2. CASE UNCHANGED <<client, up>>
  BY <1>1, <1>2, ClientAck
<1>3. ASSUME NEW r, NEW c, c.n = client.n, client' = Ended(c, r), r # "open",
             \A u \in up' : u \in up \/ u.conn = client.n
      PROVE  AckInv'
  <2>1. client'.n = client.n /\ client'.result # "open"
    BY <1>3 DEF Ended, Idle
  <2> QED BY <1>1, <1>3, <2>1, ClientAck
<1>4. CASE TakeSynAck(m) /\ ~UNCHANGED <<client, up>>
  <2>1. CASE client' = Ended(client, "failed") /\ UNCHANGED up
    BY <1>3, <2>1
  <2>2. CASE /\ client' = [client EXCEPT !.pc = "get", !.next = 1]
             /\ Sends({Ack(client.n, 1)} \cup Request(client.n, 1))
    <3>1. client'.n = client.n /\ client'.next = 1
      BY <1>1, <2>2 DEF Clients
    <3>2. client.next = 0
      BY <1>4 DEF TakeSynAck, Inv, ReplyInv
    <3>3. \A u \in up' : u \in up \/ SentNow(u, 1)
      BY <2>2, SentFact DEF Sends
    <3> QED BY <1>1, <3>1, <3>2, <3>3, ClientAck DEF SentNow
  <2>3. CASE /\ client' = [client EXCEPT !.pc = "opened", !.next = 1]
             /\ Sends({Ack(client.n, 1)})
    <3>1. client'.n = client.n /\ client'.next = 1
      BY <1>1, <2>3 DEF Clients
    <3>2. client.next = 0
      BY <1>4 DEF TakeSynAck, Inv, ReplyInv
    <3>3. \A u \in up' : u \in up \/ SentNow(u, 1)
      BY <2>3, SentFact DEF Sends
    <3> QED BY <1>1, <3>1, <3>2, <3>3, ClientAck DEF SentNow
  <2> QED BY <1>4, <2>1, <2>2, <2>3 DEF TakeSynAck
<1>5. CASE InOrder(m) /\ (TakeReply(m) \/ TakeRead(m, max)) /\ ~UNCHANGED <<client, up>>
  <2>1. client.pc \in {"get", "read"}
    BY <1>5 DEF TakeReply, TakeRead
  <2>2. /\ m.to \in Nat /\ client.next <= m.to
        /\ \A u \in Acks(m) : u.ack <= m.to /\ u.conn = client.n
    <3>1. /\ m.to \in 1..End /\ m.from < m.to /\ m.from = client.next
          /\ \A u \in Acks(m) : u.ack <= m.to
      BY <1>5, <2>1, TakenFact
    <3>2. \A u \in Acks(m) : u.conn = client.n
      BY DEF Acks, Ack, Syn
    <3> QED BY <1>1, <3>1, <3>2, Numbers
  <2>3. m.kind = "data"
    BY <1>5 DEF InOrder
  <2>4. CASE TakeReply(m)
    <3> DEFINE got == client.got \o First(Bytes(m), client.limit - Len(client.got))
               c == [client EXCEPT !.got = got, !.next = m.to, !.fin = HasFin(m)]
    <3>1. c.n = client.n /\ c.next = m.to
      BY <1>1 DEF Clients
    <3>2. CASE client' = Ended(c, "ok") /\ Sends(Acks(m) \cup {Fin(client.n, m.to)})
      <4>1. Fin(client.n, m.to).conn = client.n
        BY DEF Fin, Syn
      <4>2. \A u \in up' : u \in up \/ u.conn = client.n
        BY <2>2, <3>2, <4>1 DEF Sends
      <4> HIDE DEF c
      <4> QED BY <1>3, <3>1, <3>2, <4>2
    <3>3. CASE client' = c /\ Sends(Acks(m))
      <4>1. \A u \in up' : u \in up \/ SentNow(u, m.to)
        BY <2>2, <3>3 DEF Sends, SentNow
      <4> HIDE DEF c
      <4> QED BY <1>1, <2>2, <3>1, <3>3, <4>1, ClientAck DEF SentNow
    <3> QED BY <1>5, <2>4, <3>2, <3>3 DEF TakeReply
  <2>5. CASE TakeRead(m, max)
    <3>1. /\ client' = [client EXCEPT !.pc = "open", !.next = m.to, !.fin = HasFin(m),
                                       !.got = @ \o First(Bytes(m), max),
                                       !.pend = Rest(Bytes(m), max)]
          /\ Sends(Acks(m))
      BY <1>5, <2>3, <2>5 DEF TakeRead
    <3>2. client'.n = client.n /\ client'.next = m.to
      BY <1>1, <3>1 DEF Clients
    <3>3. \A u \in up' : u \in up \/ SentNow(u, m.to)
      BY <2>2, <3>1 DEF Sends, SentNow
    <3> QED BY <1>1, <2>2, <3>2, <3>3, ClientAck DEF SentNow
  <2> QED BY <1>5, <2>4, <2>5
<1>6. CASE ~InOrder(m) /\ TakeRead(m, max)
  <2>1. CASE client' = [client EXCEPT !.pc = "open", !.fin = TRUE] /\ UNCHANGED up
    <3>1. client'.n = client.n /\ client'.next = client.next
      BY <1>1, <2>1 DEF Clients
    <3> QED BY <1>1, <2>1, <3>1, ClientAck
  <2>2. CASE Sends(AckAgain(m)) /\ UNCHANGED client
    <3>1. \A u \in up' : u \in up \/ SentNow(u, client.next)
      BY <1>1, <2>2, SentFact DEF Sends, AckAgain
    <3> QED BY <1>1, <2>2, <3>1, ClientAck DEF SentNow
  <2> QED BY <1>6, <2>1, <2>2 DEF TakeRead
<1> QED BY <1>2, <1>4, <1>5, <1>6 DEF TakeReply

LEMMA DoesAck ==
  ASSUME Inv, AckInv, NEW max, Deadline \/ Write \/ Close \/ Read(max)
  PROVE  AckInv'
<1>1. /\ client \in Clients /\ client.next \in Nat /\ client.n \in Fetches
      /\ client.pc # "idle" /\ UNCHANGED server
  BY Numbers DEF Deadline, ConnectLate, ReplyLate, ReadLate, Write, Close, Read, Inv, ClientInv, Clients
<1>2. Fin(client.n, client.next).conn = client.n
  BY DEF Fin, Syn
<1>3. ASSUME NEW r, r # "open", client' = Ended(client, r),
             \A u \in up' : u \in up \/ u.conn = client.n
      PROVE  AckInv'
  <2>1. client'.n = client.n /\ client'.result # "open"
    BY <1>3 DEF Ended, Idle
  <2> QED BY <1>1, <1>3, <2>1, ClientAck
<1>4. ASSUME client'.n = client.n, client'.next = client.next,
             \A u \in up' : u \in up \/ SentNow(u, client.next)
      PROVE  AckInv'
  BY <1>1, <1>4, ClientAck DEF SentNow
<1>5. CASE Deadline
  <2>1. CASE client' = Ended(client, "failed")
    <3>1. \A u \in up' : u \in up \/ u.conn = client.n
      BY <1>2, <1>5 DEF Deadline, ConnectLate, ReplyLate, ReadLate, Sends
    <3> QED BY <1>3, <2>1, <3>1
  <2>2. CASE client' = [client EXCEPT !.pc = "open", !.late = TRUE] /\ UNCHANGED up
    BY <1>1, <1>4, <2>2 DEF Clients
  <2> QED BY <1>5, <2>1, <2>2 DEF Deadline, ConnectLate, ReplyLate, ReadLate
<1>6. CASE Write
  <2>1. client'.n = client.n /\ client'.next = client.next
    BY <1>1, <1>6 DEF Write, Clients
  <2>2. \A u \in up' : u \in up \/ SentNow(u, client.next)
    BY <1>1, <1>6, SentFact DEF Write, Sends
  <2> QED BY <1>4, <2>1, <2>2
<1>7. CASE Close
  <2>1. \A u \in up' : u \in up \/ u.conn = client.n
    BY <1>2, <1>7 DEF Close, Sends
  <2> QED BY <1>3, <1>7, <2>1 DEF Close
<1>8. CASE Read(max)
  <2>1. client'.n = client.n /\ client'.next = client.next
    BY <1>1, <1>8 DEF Read, Clients
  <2> QED BY <1>4, <1>8, <2>1 DEF Read
<1> QED BY <1>5, <1>6, <1>7, <1>8

LEMMA ServerAck ==
  ASSUME Inv, AckInv, UNCHANGED client, up' \subseteq up, NEW p \in Fetches, p <= client.n,
         \A q \in Fetches : q # p => server'[q] = server[q],
         client.result = "open" /\ p = client.n => server'[p].una <= client.next
  PROVE  AckInv'
<1>1. client.n \in Nat
  BY Numbers DEF Inv, ClientInv, Clients, Fetches
<1>2. \A q \in Fetches : q > client'.n => server'[q] = Closed
  BY <1>1, Numbers DEF AckInv, Fetches
<1>3. client'.result = "open" => server'[client'.n].una <= client'.next
  <2> SUFFICES ASSUME client.result = "open" PROVE server'[client.n].una <= client.next
    OBVIOUS
  <2>1. client.n \in Fetches
    BY DEF Inv, ClientInv
  <2> QED BY <2>1 DEF AckInv
<1> QED BY <1>2, <1>3 DEF AckInv

LEMMA HearAck ==
  ASSUME Inv, AckInv, NEW m \in up, ServerReceives(m)
  PROVE  AckInv'
<1> DEFINE p == m.port
<1>1. /\ p \in Fetches /\ m.conn = p /\ p <= client.n /\ m.ack \in Nat
      /\ up' \subseteq up /\ UNCHANGED client
  BY DEF Inv, NetInv, UpGood, ServerReceives, AckInv
<1>2. /\ server \in [Fetches -> Ends] /\ server[p].una \in Nat
      /\ client.result = "open" => client.next \in Nat
      /\ client.result = "open" /\ p = client.n => server[p].una <= client.next /\ m.ack <= client.next
  BY <1>1, EndsFact, Numbers DEF Inv, ClientInv, Clients, AckInv
<1>3. /\ \A q \in Fetches : q # p => server'[q] = server[q]
      /\ server'[p].una \in {0, server[p].una, m.ack}
  <2>1. CASE HearSyn(m)
    <3>1. server' = server \/ \E s \in {[Closed EXCEPT !.state = "open", !.conn = m.conn, !.nxt = 1], Gone} :
                                server' = [server EXCEPT ![p] = s]
      BY <2>1 DEF HearSyn
    <3>2. /\ [Closed EXCEPT !.state = "open", !.conn = m.conn, !.nxt = 1].una = 0
          /\ Gone.una = 0
      BY DEF Gone, Closed
    <3> HIDE DEF p
    <3> QED BY <1>1, <1>2, <3>1, <3>2
  <2>2. CASE Hear(m)
    <3> DEFINE t == [server[p] EXCEPT !.una = IF m.ack > @ THEN m.ack ELSE @,
                                      !.have = @ \cup ({m.chunk} \cap Chunks)]
    <3>1. server' = server \/ server' = [server EXCEPT ![p] = Gone] \/ server' = [server EXCEPT ![p] = t]
      <4>1. CASE server' = [server EXCEPT ![p].una = IF m.ack > @ THEN m.ack ELSE @,
                                          ![p].have = @ \cup ({m.chunk} \cap Chunks)]
        BY <1>1, <1>2, <4>1
      <4> QED BY <2>2, <4>1 DEF Hear
    <3>2. t.una \in {server[p].una, m.ack} /\ Gone.una = 0
      BY <1>1, <1>2 DEF Ends, Gone, Closed
    <3> HIDE DEF p, t
    <3> QED BY <1>1, <1>2, <3>1, <3>2
  <2> QED BY <2>1, <2>2 DEF ServerReceives
<1>4. client.result = "open" /\ p = client.n => server'[p].una <= client.next
  BY <1>2, <1>3
<1> HIDE DEF p
<1> QED BY <1>1, <1>3, <1>4, ServerAck

LEMMA ServesAck ==
  ASSUME Inv, AckInv, NEW p \in Fetches, ServerSends(p) \/ ServerRepeats(p) \/ ServerResets(p)
  PROVE  AckInv'
<1>1. /\ server \in [Fetches -> Ends] /\ server[p].state = "open" /\ UNCHANGED <<client, up>>
  BY EndsFact DEF ServerSends, ServerRepeats, ServerResets
<1>2. p <= client.n
  <2>1. server[p] # Closed
    BY <1>1 DEF Closed
  <2>2. client.n \in Nat /\ p \in Nat
    BY Numbers DEF Inv, ClientInv, Clients, Fetches
  <2> QED BY <2>1, <2>2 DEF AckInv
<1>3. client.result = "open" /\ p = client.n => server[p].una <= client.next /\ 0 <= client.next
  BY Numbers DEF AckInv, Inv, ClientInv, Clients
<1>4. CASE ServerSends(p)
  <2>1. PICK to : server' = [server EXCEPT ![p].nxt = to]
    BY <1>4 DEF ServerSends
  <2>2. server'[p].una = server[p].una /\ \A q \in Fetches : q # p => server'[q] = server[q]
    BY <1>1, <2>1 DEF Ends
  <2> QED BY <1>1, <1>2, <1>3, <2>2, ServerAck
<1>5. CASE ServerRepeats(p)
  BY <1>1, <1>2, <1>3, <1>5, ServerAck DEF ServerRepeats
<1>6. CASE ServerResets(p)
  <2>1. server' = [server EXCEPT ![p] = Gone] /\ Gone.una = 0
    BY <1>6 DEF ServerResets, Gone, Closed
  <2>2. server'[p].una = 0 /\ \A q \in Fetches : q # p => server'[q] = server[q]
    BY <1>1, <2>1
  <2> QED BY <1>1, <1>2, <1>3, <2>2, ServerAck
<1> QED BY <1>4, <1>5, <1>6

LEMMA AckStep == Inv /\ AckInv /\ [Next]_vars => AckInv'
<1> SUFFICES ASSUME Inv, AckInv, [Next]_vars PROVE AckInv'
  OBVIOUS
<1>1. ASSUME NEW m \in down, ClientReceives(m) PROVE AckInv'
  BY <1>1, TakeAck DEF ClientReceives
<1>2. CASE Deadline \/ Caller
  BY <1>2, DoesAck DEF Caller
<1>3. CASE UNCHANGED <<client, server>> /\ up' \subseteq up
  BY <1>3 DEF AckInv
<1>4. CASE LoseUp \/ LoseDown \/ UNCHANGED vars
  BY <1>3, <1>4 DEF LoseUp, LoseDown, vars
<1> QED BY <1>1, <1>2, <1>4, StartAck, HearAck, ServesAck DEF Next, Receiving, Hearing

LEMMA AckEnough == Inv /\ AckInv => AckedIsHere
<1> SUFFICES ASSUME Inv, AckInv, client.result = "open",
                    NEW a \in {server[Port(client.n)].una} \cup {m.ack : m \in {u \in up : u.port = Port(client.n)}}
             PROVE  Min2(a, ReplyLen + 1) - 1 <= Here
  BY DEF AckedIsHere
<1>1. client.n \in Fetches /\ client.pc # "idle" /\ client \in Clients /\ client.next \in Nat
  BY Numbers DEF Inv, ClientInv, Clients
<1>2. a \in Nat /\ a <= client.next
  BY <1>1, EndsFact DEF AckInv, Port, Inv, NetInv, UpGood
<1>3. CASE client.pc = "syn"
  <2>0. client.next = 0 /\ client.got = <<>> /\ client.pend = <<>>
    BY <1>3 DEF Inv, ReplyInv
  <2>1. client.next = 0 /\ Here = 0
    BY <2>0, EmptyFact DEF Here
  <2> QED BY <1>2, <2>1, Numbers DEF Min2
<1>4. CASE client.pc # "syn"
  <2>1. client.next > 0 /\ Here = Min2(client.next - 1, ReplyLen)
    BY <1>1, <1>4 DEF Inv, ReplyInv, Clients
  <2> QED BY <1>1, <1>2, <2>1, Numbers DEF Min2
<1> QED BY <1>3, <1>4

-----------------------------------------------------------------------------
(* How a connection ends. *)

LEMMA SameEnd ==
  ASSUME EndInv, client'.n = client.n, lost \subseteq lost',
         client'.fin => \/ client.fin /\ client'.next = client.next
                        \/ client'.next = End \/ "reset" \in lost,
         \A m \in down' : \/ m \in down
                          \/ m.conn <= client.n /\ (m.kind = "rst" /\ m.conn = client.n => "reset" \in lost')
  PROVE  EndInv'
BY DEF EndInv

LEMMA TakeEnd ==
  ASSUME Inv, EndInv, NEW m \in down, NEW max, down' \subseteq down, UNCHANGED lost,
         TakeSynAck(m) \/ TakeReply(m) \/ TakeRead(m, max)
  PROVE  EndInv'
<1>1. client \in Clients /\ client.n \in Fetches
  BY DEF Inv, ClientInv, TakeSynAck, TakeReply, TakeRead
<1>2. ASSUME client'.n = client.n,
             client'.fin => \/ client.fin /\ client'.next = client.next
                            \/ client'.next = End \/ "reset" \in lost
      PROVE  EndInv'
  BY <1>2, SameEnd
<1>3. ASSUME NEW c, NEW r, c.n = client.n, client' = Ended(c, r) PROVE EndInv'
  <2>1. client'.n = client.n /\ client'.fin = FALSE
    BY <1>3 DEF Ended, Idle
  <2> QED BY <1>2, <2>1
<1>4. CASE UNCHANGED client
  BY <1>2, <1>4
<1>5. CASE TakeSynAck(m)
  <2>1. CASE client' = Ended(client, "failed")
    BY <1>3, <2>1
  <2>2. ASSUME NEW pc, client' = [client EXCEPT !.pc = pc, !.next = 1] PROVE EndInv'
    <3>1. client'.n = client.n /\ client'.fin = client.fin
      BY <1>1, <2>2 DEF Clients
    <3>2. client.next = 0
      BY <1>5 DEF TakeSynAck, Inv, ReplyInv
    <3>3. client.fin => "reset" \in lost
      BY <3>2, Numbers DEF EndInv
    <3> QED BY <1>2, <3>1, <3>3
  <2> QED BY <1>4, <1>5, <2>1, <2>2 DEF TakeSynAck
<1>6. CASE TakeReply(m)
  <2> DEFINE got == client.got \o First(Bytes(m), client.limit - Len(client.got))
             c == [client EXCEPT !.got = got, !.next = m.to, !.fin = HasFin(m)]
  <2>1. c.n = client.n /\ c.next = m.to /\ c.fin = HasFin(m)
    BY <1>1 DEF Clients
  <2>2. client' = client \/ client' = Ended(c, "ok") \/ client' = c
    BY <1>6 DEF TakeReply
  <2> HIDE DEF c
  <2> QED BY <1>2, <1>3, <1>4, <2>1, <2>2 DEF HasFin
<1>7. CASE TakeRead(m, max)
  <2>1. CASE Mine(m) /\ m.kind = "rst"
    <3>1. client' = [client EXCEPT !.pc = "open", !.fin = TRUE]
      BY <1>7, <2>1 DEF TakeRead
    <3>2. client'.n = client.n
      BY <1>1, <3>1 DEF Clients
    <3>3. "reset" \in lost
      BY <1>1, <2>1 DEF EndInv, Inv, NetInv, DownGood, Mine, Port
    <3> QED BY <1>2, <3>2, <3>3
  <2>2. CASE ~(Mine(m) /\ m.kind = "rst") /\ InOrder(m)
    <3>1. client' = [client EXCEPT !.pc = "open", !.next = m.to, !.fin = HasFin(m),
                                   !.got = @ \o First(Bytes(m), max),
                                   !.pend = Rest(Bytes(m), max)]
      BY <1>7, <2>2 DEF TakeRead
    <3>2. client'.n = client.n /\ client'.next = m.to /\ client'.fin = HasFin(m)
      BY <1>1, <3>1 DEF Clients
    <3> QED BY <1>2, <3>2 DEF HasFin
  <2> QED BY <1>4, <1>7, <2>1, <2>2 DEF TakeRead
<1> QED BY <1>5, <1>6, <1>7

LEMMA DoesEnd ==
  ASSUME Inv, EndInv, NEW max, Deadline \/ Write \/ Close \/ Read(max)
  PROVE  EndInv'
<1>1. client \in Clients /\ UNCHANGED <<down, lost>>
  BY DEF Deadline, Write, Close, Read, Inv, ClientInv
<1>2. ASSUME NEW r, client' = Ended(client, r) PROVE EndInv'
  <2>1. client'.n = client.n /\ client'.fin = FALSE
    BY <1>2 DEF Ended, Idle
  <2> QED BY <1>1, <2>1, SameEnd
<1>3. ASSUME client'.n = client.n, client'.next = client.next, client'.fin = client.fin PROVE EndInv'
  BY <1>1, <1>3, SameEnd
<1>4. CASE Deadline \/ Close
  <2>1. CASE client' = [client EXCEPT !.pc = "open", !.late = TRUE]
    BY <1>1, <1>3, <2>1 DEF Clients
  <2> QED BY <1>2, <1>4, <2>1 DEF Deadline, ConnectLate, ReplyLate, ReadLate, Close
<1>5. CASE Write \/ Read(max)
  <2>1. client'.n = client.n /\ client'.next = client.next /\ client'.fin = client.fin
    BY <1>1, <1>5 DEF Write, Read, Clients
  <2> QED BY <1>3, <2>1
<1> QED BY <1>4, <1>5

LEMMA StartEnd ==
  ASSUME Inv, EndInv, NEW mode, NEW limit, Start(mode, limit)
  PROVE  EndInv'
<1>1. client'.n = client.n + 1 /\ client'.fin = FALSE /\ UNCHANGED down
  BY DEF Start, Idle
<1>2. client.n \in Nat /\ \A m \in down : m.conn \in Nat
  BY Numbers DEF Inv, ClientInv, Clients, NetInv, DownGood, Fetches
<1> QED BY <1>1, <1>2 DEF EndInv

LEMMA NetEnd ==
  ASSUME Inv, AckInv, EndInv, UNCHANGED client,
         \/ LoseUp \/ LoseDown \/ \E m \in up : ServerReceives(m)
         \/ \E p \in Fetches : ServerSends(p) \/ ServerRepeats(p) \/ ServerResets(p)
  PROVE  EndInv'
<1>1. CASE LoseUp \/ LoseDown
  BY <1>1, SameEnd DEF LoseUp, LoseDown, Missed
<1>2. ASSUME NEW m \in up, ServerReceives(m) PROVE EndInv'
  <2>1. m.conn <= client.n
    BY DEF AckInv
  <2>2. CASE HearSyn(m)
    <3>1. /\ [SynAck(m.port) EXCEPT !.conn = m.conn].conn = m.conn
          /\ [SynAck(m.port) EXCEPT !.conn = m.conn].kind = "data"
          /\ Rst(m.port, m.conn).conn = m.conn
      BY DEF SynAck, Rst
    <3> QED BY <2>1, <2>2, <3>1, SameEnd DEF HearSyn, Missed
  <2>3. CASE Hear(m)
    BY <2>3, SameEnd DEF Hear
  <2> QED BY <1>2, <2>2, <2>3 DEF ServerReceives
<1>3. ASSUME NEW p \in Fetches, ServerSends(p) \/ ServerRepeats(p) \/ ServerResets(p)
      PROVE  EndInv'
  <2>1. server[p].conn = p
    BY <1>3, EndsFact DEF ServerSends, ServerRepeats, ServerResets
  <2>2. p <= client.n
    <3>1. server[p] # Closed
      BY <1>3 DEF Closed, ServerSends, ServerRepeats, ServerResets
    <3>2. client.n \in Nat /\ p \in Nat
      BY Numbers DEF Inv, ClientInv, Clients, Fetches
    <3> QED BY <3>1, <3>2 DEF AckInv
  <2>3. /\ \A a, b : Seg(p, a, b).conn = p /\ Seg(p, a, b).kind = "data"
        /\ SynAck(p).conn = p /\ SynAck(p).kind = "data" /\ Rst(p, server[p].conn).conn = p
    BY <2>1 DEF Seg, SynAck, Rst
  <2>4. CASE ServerSends(p)
    BY <2>2, <2>3, <2>4, SameEnd DEF ServerSends
  <2>5. CASE ServerRepeats(p)
    BY <2>2, <2>3, <2>5, SameEnd DEF ServerRepeats
  <2>6. CASE ServerResets(p)
    BY <2>1, <2>2, <2>3, <2>6, SameEnd DEF ServerResets, Missed
  <2> QED BY <1>3, <2>4, <2>5, <2>6
<1> QED BY <1>1, <1>2, <1>3

LEMMA EndStep == Inv /\ AckInv /\ EndInv /\ [Next]_vars => EndInv'
<1> SUFFICES ASSUME Inv, AckInv, EndInv, [Next]_vars PROVE EndInv'
  OBVIOUS
<1>1. ASSUME NEW m \in down, ClientReceives(m) PROVE EndInv'
  BY <1>1, TakeEnd DEF ClientReceives
<1>2. CASE Deadline \/ Caller
  BY <1>2, DoesEnd DEF Caller
<1>3. CASE UNCHANGED vars
  BY <1>3 DEF EndInv, vars
<1>4. CASE \/ LoseUp \/ LoseDown \/ \E m \in up : ServerReceives(m)
           \/ \E p \in Fetches : ServerSends(p) \/ ServerRepeats(p) \/ ServerResets(p)
  <2>1. UNCHANGED client
    BY <1>4 DEF LoseUp, LoseDown, ServerReceives, ServerSends, ServerRepeats, ServerResets
  <2> QED BY <1>4, <2>1, NetEnd
<1> QED BY <1>1, <1>2, <1>3, <1>4, StartEnd DEF Next, Receiving, Hearing

-----------------------------------------------------------------------------
(* The theorems. *)

LEMMA AllHold == Spec => [](Inv /\ AckInv /\ EndInv)
<1>1. Init => Inv /\ AckInv /\ EndInv
  BY InvInit DEF Init, AckInv, EndInv, Idle
<1>2. Inv /\ AckInv /\ EndInv /\ [Next]_vars => (Inv /\ AckInv /\ EndInv)'
  BY InvStep, AckStep, EndStep
<1> QED BY <1>1, <1>2, PTL DEF Spec

(* The invariant of the connections: what has come of a reply, read and    *)
(* not yet read, is its bytes from the first up to the number expected.    *)
THEOREM RepliesWhole == Spec => []Inv
BY AllHold, PTL

(* Whatever is lost, repeated or reordered, tcp_get and tcp_read give their *)
(* caller the reply of this connection in order, and success only with all *)
(* of it or a full buffer, or, from a stream, when the server broke off:   *)
(* every step is one of the stream's, or none.                             *)
THEOREM BytesInOrder == Spec => InOrderBytes
<1>1. Init => Stream!Init
  BY DEF Init, Idle, Stream!Init
<1>2. Inv /\ EndInv /\ [Next]_vars =>
        [Stream!Begin \/ Stream!More]_<<client.n, client.got, client.limit, client.result>>
  BY InvStep DEF Mapped
<1> QED BY <1>1, <1>2, AllHold, PTL DEF Spec, InOrderBytes, Stream!Spec

(* No byte of an open connection is acknowledged, on the way or at the     *)
(* server, before tcp_get has it in its buffer or the stream keeps it: a   *)
(* server that frees what is acknowledged loses nothing of a reply.        *)
THEOREM NothingAckedAhead == Spec => []AckedIsHere
BY AllHold, AckEnough, PTL

-----------------------------------------------------------------------------
(* The types. *)

Counted == faults \in 0..MaxFaults

LEMMA TypeEnough == Inv /\ Counted => TypeOK
<1> SUFFICES ASSUME Inv, faults \in 0..MaxFaults PROVE TypeOK
  BY DEF Counted
<1>1. /\ client \in Clients /\ Len(client.got) \in Nat /\ Len(client.pend) \in Nat
      /\ Len(client.got) + Len(client.pend) <= ReplyLen
  BY ClientFact DEF Here
<1>2. client.got \in Seq(Octets) /\ client.pend \in Seq(Octets)
  BY <1>1 DEF Clients
<1>3. ASSUME NEW s \in Seq(Octets), NEW k \in Nat, Follows(s, client.n, k), Len(s) + k <= ReplyLen
      PROVE  s \in Seq(Fetches \X (1..ReplyLen))
  <2>1. ASSUME NEW i \in 1..Len(s) PROVE s[i] \in Fetches \X (1..ReplyLen)
    <3>1. s[i] \in Octets /\ s[i] = <<client.n, k + i>>
      BY <1>3 DEF Follows
    <3>2. client.n \in Fetches
      BY <3>1 DEF Octets
    <3>3. Len(s) \in Nat
      OBVIOUS
    <3>4. k + i \in 1..ReplyLen
      BY <1>3, <3>3, Numbers
    <3> QED BY <3>1, <3>2, <3>4
  <2>2. s \in [1..Len(s) -> Fetches \X (1..ReplyLen)] /\ Len(s) \in Nat
    BY <2>1
  <2> QED BY <2>2
<1>4. client.got \in Seq(Fetches \X (1..ReplyLen))
  <2> DEFINE g == Len(client.got)
  <2>0. g \in Nat /\ g <= ReplyLen
    BY ClientFact
  <2> HIDE DEF g
  <2>2. g + 0 <= ReplyLen
    BY <2>0
  <2>1. Len(client.got) + 0 <= ReplyLen
    BY <2>2 DEF g
  <2> QED BY <1>2, <1>3, <2>1 DEF Inv, ReplyInv
<1>5. client.pend \in Seq(Fetches \X (1..ReplyLen))
  <2> DEFINE g == Len(client.got)
             q == Len(client.pend)
  <2>0. g \in Nat /\ q \in Nat /\ g + q <= ReplyLen
    BY <1>1
  <2> HIDE DEF g, q
  <2>2. q + g <= ReplyLen
    BY <2>0, Numbers
  <2>1. Len(client.pend) + Len(client.got) <= ReplyLen
    BY <2>2 DEF g, q
  <2> QED BY <1>1, <1>2, <1>3, <2>1 DEF Inv, ReplyInv
<1>6. client.n \in 0..MaxFetches
  BY <1>1, Numbers DEF Clients, Fetches
<1>7. client.mode = "get" => Len(client.got) <= client.limit /\ client.pend = <<>>
  BY BoundFact DEF Inv, ClientInv
<1> QED BY <1>1, <1>4, <1>5, <1>6, <1>7, EndsFact DEF TypeOK, Clients

(* Every variable stays in its range; the caller's buffer never overflows. *)
THEOREM TypeCorrect == Spec => []TypeOK
<1>1. Init => Counted
  BY Numbers DEF Init, Counted
<1>2. Counted /\ [Next]_vars => Counted'
  <2> SUFFICES ASSUME faults \in 0..MaxFaults, [Next]_vars PROVE faults' \in 0..MaxFaults
    BY DEF Counted
  <2>1. faults' = faults \/ (faults < MaxFaults /\ faults' = faults + 1)
    <3>1. ASSUME NEW m, ClientReceives(m) \/ ServerReceives(m)
          PROVE  faults' = faults \/ (faults < MaxFaults /\ faults' = faults + 1)
      BY <3>1 DEF ClientReceives, ServerReceives
    <3>2. ASSUME NEW p, ServerSends(p) \/ ServerRepeats(p) \/ ServerResets(p)
          PROVE  faults' = faults
      BY <3>2 DEF ServerSends, ServerRepeats, ServerResets
    <3>3. ASSUME NEW mode, NEW limit, Start(mode, limit) PROVE faults' = faults
      BY <3>3 DEF Start
    <3>4. CASE Deadline \/ Caller
      BY <3>4 DEF Deadline, Caller, Write, Close, Read
    <3>5. CASE LoseUp \/ LoseDown \/ UNCHANGED vars
      BY <3>5 DEF LoseUp, LoseDown, vars
    <3> QED BY <3>1, <3>2, <3>3, <3>4, <3>5 DEF Next, Receiving, Hearing
  <2> QED BY <2>1, Numbers
<1> QED BY <1>1, <1>2, TypeEnough, RepliesWhole, PTL DEF Spec
=============================================================================
