------------------------------ MODULE HttpGate ------------------------------
(***************************************************************************)
(* The gate in front of the one-connection network stack: SYS_HTTP_GET and *)
(* SYS_HTTP_POST (kernel/syscall.c) and the fetch they make in             *)
(* drivers/http.c, with the desktop's own fetches (Weather, Stocks, the    *)
(* wallpaper) beside them.                                                 *)
(*                                                                         *)
(* A system call runs with interrupts off up to its sti, so the test and   *)
(* the set of http_busy are one step.  From the sti to the cli, and in all *)
(* of a desktop fetch, the timer can preempt between any two accesses to a *)
(* shared variable: each is a step of its own there.                       *)
(***************************************************************************)
EXTENDS Integers, FiniteSets

CONSTANTS
  Apps,       \* ring-3 programs
  Desktop,    \* task 0, which fetches without a system call
  Statuses    \* HTTP statuses a server answers

Tasks == Apps \cup {Desktop}
Nothing == 0        \* last_status after a fetch that got no answer

ASSUME GateAssumption ==
  /\ Desktop \notin Apps
  /\ Statuses \subseteq 100..599

VARIABLES
  http_busy,    \* syscall.c: a ring-3 fetch is in progress
  in_flight,    \* http.c: the connection is held
  last_status,  \* http.c
  post_bearer,  \* http.c: whose header the next POST carries, or Desktop for none
  bounce,       \* syscall.c: whose request body is in http_post_body, or Desktop
  pc,           \* pc[t]: where task t is in its fetch
  kind,         \* kind[t]: "get", "post", or "mail" (a POST that carries a header)
  answer,       \* answer[t]: what the server answered t's exchange
  carried,      \* carried[t]: whose header t's POST was built with
  result,       \* result[t]: what the call returns
  (* History: nothing of the code reads these. *)
  met,          \* the tasks whose fetch ran beside one from the other side of http_busy
  slipped,      \* two tasks passed the test of in_flight before either set it
  killed        \* a program was killed in a fetch

shared == <<http_busy, in_flight, last_status, post_bearer, bounce>>
private == <<pc, kind, answer, carried, result>>
history == <<met, slipped, killed>>
vars == <<shared, private, history>>

Kinds == {"get", "post", "mail"}
Busy == -16        \* -EBUSY
IoError == -5      \* -EIO
NoDevice == -19    \* -ENODEV
Pending == 0
Ok == 200

(* Task t is inside tcp_get_timeout, on the one socket. *)
OnSocket(t) == pc[t] = "exchange"
(* Task t took the connection and has not given it up. *)
Holds(t) == pc[t] \in {"resolve", "exchange", "parsed", "leave"}
(* Task t passed the test of in_flight, and has not given the connection up. *)
Past(t) == pc[t] = "set" \/ Holds(t)
(* Task t is between the wait for the connection and the reading of the    *)
(* status: what it reads there is shared.                                  *)
Inside(t) == Past(t) \/ pc[t] \in {"clear", "test", "read", "refused"}
(* http_busy keeps programs from one another: the desktop does not test it. *)
OtherSide(t) == IF t = Desktop THEN Apps ELSE {Desktop}
Beside(t) == Inside(t) /\ \E u \in OtherSide(t) : Inside(u)
Slip == \E t, u \in Tasks : t # u /\ pc[t] = "set" /\ pc[u] = "set"

Go(t, to) == pc' = [pc EXCEPT ![t] = to]
(* The locals of t's fetch are gone. *)
Forget(t) ==
  /\ Go(t, "idle")
  /\ kind' = [kind EXCEPT ![t] = "get"]
  /\ answer' = [answer EXCEPT ![t] = Nothing]
  /\ carried' = [carried EXCEPT ![t] = Desktop]
  /\ result' = [result EXCEPT ![t] = Pending]
Finish(t, r) == Go(t, "return") /\ result' = [result EXCEPT ![t] = r]
-----------------------------------------------------------------------------
(* sys_http_get, sys_http_post up to the sti: refused while another ring-3 *)
(* fetch is in progress; a POST's body is copied to the kernel's buffer    *)
(* (a large one stays in the caller's pages: left out).                    *)
GateFree_Mut == TRUE      \* mutated: http_busy not tested
GateFree == ~http_busy

Enter(t, k) ==
  /\ t \in Apps /\ pc[t] = "idle"
  /\ GateFree
  /\ http_busy' = TRUE
  /\ bounce' = IF k # "get" THEN t ELSE bounce
  /\ kind' = [kind EXCEPT ![t] = k]
  /\ Go(t, "wait")
  /\ UNCHANGED <<result, in_flight, last_status, post_bearer, answer, carried>>

(* The desktop goes straight to http_get or http_post. *)
DesktopEnter(k) ==
  /\ pc[Desktop] = "idle"
  /\ kind' = [kind EXCEPT ![Desktop] = k]
  /\ Go(Desktop, IF k = "get" THEN "clear" ELSE "test")
  /\ UNCHANGED <<shared, result, answer, carried>>

(* http_wait_idle saw in_flight clear; then net_init; a POST that needs it *)
(* arms its header (http_post_set_bearer).                                 *)
WaitOver(t) ==
  /\ pc[t] = "wait" /\ ~in_flight
  /\ \/ Finish(t, NoDevice) /\ UNCHANGED post_bearer
     \/ /\ Go(t, IF kind[t] = "get" THEN "clear" ELSE "test")
        /\ post_bearer' = IF kind[t] = "mail" THEN t ELSE post_bearer
        /\ UNCHANGED result
  /\ UNCHANGED <<http_busy, in_flight, last_status, bounce, kind, answer, carried>>

(* http_wait_idle ran out of ticks. *)
WaitTimeout_Mut(t) == FALSE /\ UNCHANGED vars      \* mutated: no deadline
WaitTimeout(t) ==
  /\ pc[t] = "wait" /\ in_flight
  /\ Finish(t, Busy)
  /\ UNCHANGED <<shared, kind, answer, carried>>
-----------------------------------------------------------------------------
(* http_get_timeout and http_post_timeout. *)

(* A GET clears the status before it tests in_flight. *)
Refusal_Mut(t) == FALSE      \* mutated: in_flight not tested
Refusal(t) == in_flight
ClearStatus(t) ==
  /\ pc[t] = "clear"
  /\ last_status' = Nothing
  /\ Go(t, "test")
  /\ UNCHANGED <<http_busy, in_flight, post_bearer, bounce, kind, answer, carried, result>>

(* if (in_flight) return -1; *)
TestFlight(t) ==
  /\ pc[t] = "test"
  /\ Go(t, IF Refusal(t) THEN "refused" ELSE "set")
  /\ UNCHANGED <<shared, kind, answer, carried, result>>

SetFlight(t) ==
  /\ pc[t] = "set"
  /\ in_flight' = TRUE
  /\ Go(t, "resolve")
  /\ UNCHANGED <<http_busy, last_status, post_bearer, bounce, kind, answer, carried, result>>

(* resolve_host; then the request is built: http_post_locked takes the     *)
(* armed header or none, and may find no memory; http_body_only clears the *)
(* status.                                                                 *)
Resolve(t) ==
  /\ pc[t] = "resolve"
  /\ \/ Go(t, "leave") /\ UNCHANGED <<last_status, post_bearer, carried>>
     \/ /\ kind[t] # "get"
        /\ Go(t, "leave")
        /\ post_bearer' = Desktop
        /\ UNCHANGED <<last_status, carried>>
     \/ /\ Go(t, "exchange")
        /\ last_status' = Nothing
        /\ carried' = [carried EXCEPT ![t] = IF kind[t] # "get" THEN post_bearer ELSE Desktop]
        /\ post_bearer' = IF kind[t] # "get" THEN Desktop ELSE post_bearer
  /\ UNCHANGED <<http_busy, in_flight, bounce, kind, answer, result>>

(* tcp_get_timeout: an answer, or a failure or timeout. *)
Exchange(t) ==
  /\ pc[t] = "exchange"
  /\ \/ Go(t, "leave") /\ UNCHANGED answer
     \/ \E s \in Statuses : answer' = [answer EXCEPT ![t] = s] /\ Go(t, "parsed")
  /\ UNCHANGED <<shared, kind, carried, result>>

SetStatus_Mut(t) ==      \* mutated: the first status is kept
  /\ pc[t] = "parsed"
  /\ last_status' = IF last_status = Nothing THEN Ok ELSE last_status
  /\ Go(t, "leave")
  /\ UNCHANGED <<http_busy, in_flight, post_bearer, bounce, kind, answer, carried, result>>
SetStatus(t) ==
  /\ pc[t] = "parsed"
  /\ last_status' = answer[t]
  /\ Go(t, "leave")
  /\ UNCHANGED <<http_busy, in_flight, post_bearer, bounce, kind, answer, carried, result>>

LeaveFlight_Mut(t) ==      \* mutated: in_flight kept when the resolve failed
  /\ pc[t] = "leave"
  /\ in_flight' = (answer[t] = Nothing)
  /\ Go(t, "read")
  /\ UNCHANGED <<http_busy, last_status, post_bearer, bounce, kind, answer, carried, result>>
LeaveFlight(t) ==
  /\ pc[t] = "leave"
  /\ in_flight' = FALSE
  /\ Go(t, "read")
  /\ UNCHANGED <<http_busy, last_status, post_bearer, bounce, kind, answer, carried, result>>

(* Back in the caller.  A POST, and a large GET, disarms the header; n < 0, *)
(* or a status that is not 200, is an error.                               *)
Disarmed_Mut(t) == {post_bearer}      \* mutated: http_post_set_bearer(0) left out
Disarmed(t) ==
  (IF t \in Apps THEN {Desktop} ELSE {}) \cup (IF t \in Apps /\ kind[t] # "get" THEN {} ELSE {post_bearer})
Outcome(t) ==
  IF pc[t] = "refused" \/ answer[t] = Nothing \/ last_status = Nothing THEN IoError ELSE last_status
ReadStatus(t) ==
  /\ pc[t] \in {"read", "refused"}
  /\ post_bearer' \in Disarmed(t)
  /\ Finish(t, Outcome(t))
  /\ UNCHANGED <<http_busy, in_flight, last_status, bounce, kind, answer, carried>>

(* cli; http_busy = 0; the reply is copied out. *)
Return(t) ==
  /\ pc[t] = "return"
  /\ http_busy' = IF t \in Apps THEN FALSE ELSE http_busy
  /\ Forget(t)
  /\ UNCHANGED <<in_flight, last_status, post_bearer, bounce>>

(* task_kill: the program runs task_exit instead, the next time it is      *)
(* scheduled, wherever it was.  Nothing in the gate or in http.c is told.  *)
Kill(t) ==
  /\ t \in Apps /\ pc[t] # "idle"
  /\ Forget(t)
  /\ UNCHANGED shared
-----------------------------------------------------------------------------
Init ==
  /\ http_busy = FALSE /\ in_flight = FALSE /\ last_status = Nothing
  /\ post_bearer = Desktop /\ bounce = Desktop
  /\ pc = [t \in Tasks |-> "idle"]
  /\ kind = [t \in Tasks |-> "get"]
  /\ answer = [t \in Tasks |-> Nothing]
  /\ carried = [t \in Tasks |-> Desktop]
  /\ result = [t \in Tasks |-> Pending]
  /\ met = {} /\ slipped = FALSE /\ killed = FALSE

Fetch(t) ==
  \/ WaitOver(t) \/ WaitTimeout(t)
  \/ ClearStatus(t) \/ TestFlight(t) \/ SetFlight(t)
  \/ Resolve(t) \/ Exchange(t) \/ SetStatus(t) \/ LeaveFlight(t)
  \/ ReadStatus(t) \/ Return(t)

(* The history: a fetch stays in met until it ends, a slip until nobody is *)
(* past the test.                                                          *)
Watch ==
  /\ met' = {t \in Tasks : pc'[t] # "idle" /\ (t \in met \/ Beside(t)')}
  /\ slipped' = ((slipped \/ Slip') /\ \E t \in Tasks : Past(t)')

Run(t) == Fetch(t) /\ Watch /\ UNCHANGED killed

Next ==
  \/ \E t \in Apps, k \in Kinds : Enter(t, k) /\ Watch /\ UNCHANGED killed
  \/ \E k \in {"get", "post"} : DesktopEnter(k) /\ Watch /\ UNCHANGED killed
  \/ \E t \in Tasks : Run(t)
  \/ \E t \in Apps : Kill(t) /\ Watch /\ killed' = TRUE

Spec == Init /\ [][Next]_vars

(* The scheduler is round robin over every used slot, so a task in a fetch *)
(* always runs again; net.c bounds every wait in ticks, so every exchange  *)
(* ends.  Nothing forces a program or the desktop to start a fetch.        *)
FairSpec == Spec /\ \A t \in Tasks : WF_vars(Run(t))
-----------------------------------------------------------------------------
(* Correctness. *)

PCs == {"idle", "wait", "clear", "test", "set", "resolve", "exchange", "parsed", "leave",
        "read", "refused", "return"}

(* The code's variables stay in their ranges, and a call returns an answer *)
(* or an error code, never nothing.                                        *)
CallsOK ==
  /\ http_busy \in BOOLEAN /\ in_flight \in BOOLEAN
  /\ last_status \in Statuses \cup {Nothing}
  /\ post_bearer \in Tasks /\ bounce \in Tasks
  /\ pc \in [Tasks -> PCs]
  /\ kind \in [Tasks -> Kinds]
  /\ answer \in [Tasks -> Statuses \cup {Nothing}]
  /\ carried \in [Tasks -> Tasks]
  /\ result \in [Tasks -> Statuses \cup {Pending, Busy, IoError, NoDevice}]
  /\ \A t \in Tasks : pc[t] = "return" => result[t] # Pending

(* Every variable does, the history's too.                                 *)
TypeOK == CallsOK /\ met \subseteq Tasks /\ slipped \in BOOLEAN /\ killed \in BOOLEAN

(* At most one program is past the http_busy test, killed ones included:   *)
(* what makes the static buffers of sys_http_post and sys_http_get safe.   *)
Ring3Exclusive == \A t, u \in Apps : pc[t] # "idle" /\ pc[u] # "idle" => t = u

(* The body in the kernel's buffer is the caller's until its call returns. *)
BounceMine == \A t \in Apps : pc[t] # "idle" /\ kind[t] # "get" => bounce = t

(* The gate keeps both: a program let in beside another would write its    *)
(* body over the other's before that is sent (syscall.c:1008).             *)
Ring3Alone == Ring3Exclusive /\ BounceMine

(* net.c is a one-connection stack: two fetches never share the socket.    *)
(* http.c says so of in_flight; its test and its set are two accesses, and *)
(* it does not hold (the run gate_race).                                   *)
SocketExclusive == \A t, u \in Tasks : OnSocket(t) /\ OnSocket(u) => t = u

(* What in_flight is worth: two fetches share the socket only after two    *)
(* tasks were between the test and the set at once, and a program whose    *)
(* wait for the connection ended well is turned away afterwards only if    *)
(* the desktop came in beside it.                                          *)
FlightGuards ==
  /\ SocketExclusive \/ slipped
  /\ \A t \in Apps : pc[t] = "refused" => t \in met

(* A fetch reports the status the server answered it, and an I/O error     *)
(* only if the server did not answer it: never another fetch's status,     *)
(* unless the other came in from the other side of http_busy while this    *)
(* one was between its wait and its reading of the status.                 *)
StatusTrue ==
  \A t \in Tasks \ met : pc[t] = "return" =>
    /\ result[t] \in Statuses => result[t] = answer[t]
    /\ result[t] = IoError => answer[t] = Nothing

(* Until a program is killed in a fetch, the gate is never shut, nor the   *)
(* connection held, by nobody: not after a slip, nor after a refusal.      *)
NotOrphaned ==
  ~killed =>
    /\ in_flight => \E t \in Tasks : Holds(t)
    /\ http_busy => \E t \in Apps : pc[t] # "idle"

(* Until a program is killed in a fetch: a POST that ran beside none from  *)
(* the other side of http_busy is built with its own caller's header, or   *)
(* none if it has none; and outside the POST that armed it no header is    *)
(* armed ("no later request can carry it").                                *)
HeaderMine ==
  ~killed =>
    /\ \A t \in Tasks \ met : OnSocket(t) => carried[t] = IF kind[t] = "mail" THEN t ELSE Desktop
    /\ post_bearer # Desktop =>
         \E t \in Apps : kind[t] = "mail" /\ post_bearer = t
                         /\ pc[t] \in {"test", "set", "resolve", "leave", "read", "refused"}

(* Every fetch ends, beside the desktop's and whatever is killed: a wait   *)
(* for a connection that a killed program keeps runs out.                  *)
FetchEnds == \A t \in Tasks : (pc[t] # "idle") ~> (pc[t] = "idle")
=============================================================================
