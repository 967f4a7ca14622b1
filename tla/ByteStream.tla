---------------------------- MODULE ByteStream ----------------------------
(***************************************************************************)
(* What a caller of drivers/net.c is promised of the reply to a request,   *)
(* be it by tcp_get or by tcp_open, tcp_read and tcp_close: its bytes, in  *)
(* order and from the first, and no word of success unless they are all    *)
(* there or the caller's buffer is full.  A stream is promised less: its   *)
(* end is also announced when the server broke the connection off, and the *)
(* next may begin before it is over.                                       *)
(***************************************************************************)
EXTENDS Naturals, Sequences

CONSTANTS Fetches, ReplyLen

VARIABLES
  n,       \* the fetch, from 1; 0 before the first
  got,     \* what the caller has of its reply
  limit,   \* bytes the caller's buffer takes, 0 when it reads on and on
  result,  \* "open", "ok" or "failed"
  broken   \* not the client's: the server broke off the connection of this fetch

Reply(f) == [i \in 1..ReplyLen |-> <<f, i>>]
PrefixOf(s, f) == Len(s) <= ReplyLen /\ \A i \in 1..Len(s) : s[i] = <<f, i>>
Enough(s, l) == Len(s) = ReplyLen \/ (l # 0 /\ Len(s) = l) \/ (l = 0 /\ broken)

Init == n = 0 /\ got = <<>> /\ limit = 0 /\ result = "failed"

Begin ==
  /\ result = "open" => limit = 0
  /\ n + 1 \in Fetches /\ n' = n + 1
  /\ got' = <<>> /\ limit' \in Nat /\ result' \in {"open", "failed"}

(* More of the reply, the end of it, or the end of the attempt. *)
More ==
  /\ result = "open"
  /\ PrefixOf(got', n) /\ Len(got) <= Len(got')
  /\ result' \in {"open", "ok", "failed"}
  /\ result' = "ok" => Enough(got', limit)
  /\ UNCHANGED <<n, limit>>

Spec == Init /\ [][Begin \/ More]_<<n, got, limit, result>>
=============================================================================
