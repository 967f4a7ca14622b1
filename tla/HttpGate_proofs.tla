--------------------------- MODULE HttpGate_proofs ---------------------------
(***************************************************************************)
(* What TLAPS proves of HttpGate for any number of programs and any set of *)
(* statuses, with the desktop fetching beside them: the gate of            *)
(* kernel/syscall.c always admits one program at a time, whatever is       *)
(* killed; in_flight keeps the socket to one but for a slip between its    *)
(* test and its set; and a fetch that met none from the other side of      *)
(* http_busy is told its own status and carries its own header.            *)
(***************************************************************************)
EXTENDS HttpGate, TLAPS

-----------------------------------------------------------------------------
(* Types. *)

(* A step of the code, the history aside: one that runs a task, and a kill. *)
Alive ==
  \/ \E t \in Apps, k \in Kinds : Enter(t, k)
  \/ \E k \in {"get", "post"} : DesktopEnter(k)
  \/ \E t \in Tasks : Fetch(t)
Code == Alive \/ \E t \in Apps : Kill(t)

(* Watch sees every step of the code, and killed every kill. *)
LEMMA StepIs ==
  ASSUME [Next]_vars
  PROVE  UNCHANGED vars \/ (Code /\ Watch /\ (killed' = TRUE \/ (Alive /\ killed' = killed)))
BY Zenon DEF Next, Code, Alive, Run

(* The code's variables stay in their ranges. *)
LEMMA CallsStep == CallsOK /\ (Code \/ UNCHANGED vars) => CallsOK'
<1> SUFFICES ASSUME CallsOK, Code \/ UNCHANGED vars PROVE CallsOK'
  OBVIOUS
<1> USE GateAssumption DEF CallsOK, Tasks, PCs, Kinds, Go, Finish, Busy, IoError, NoDevice,
        Pending, Nothing
<1>1. ASSUME NEW t \in Apps, NEW k \in Kinds, Enter(t, k) PROVE CallsOK'
  BY <1>1 DEF Enter
<1>2. ASSUME NEW k \in {"get", "post"}, DesktopEnter(k) PROVE CallsOK'
  BY <1>2 DEF DesktopEnter, shared
<1>3. ASSUME NEW t \in Tasks, WaitOver(t) PROVE CallsOK'
  BY <1>3 DEF WaitOver
<1>4. ASSUME NEW t \in Tasks, WaitTimeout(t) PROVE CallsOK'
  BY <1>4 DEF WaitTimeout, shared
<1>5. ASSUME NEW t \in Tasks, ClearStatus(t) PROVE CallsOK'
  BY <1>5 DEF ClearStatus
<1>6. ASSUME NEW t \in Tasks, TestFlight(t) PROVE CallsOK'
  BY <1>6 DEF TestFlight, shared
<1>7. ASSUME NEW t \in Tasks, SetFlight(t) PROVE CallsOK'
  BY <1>7 DEF SetFlight
<1>8. ASSUME NEW t \in Tasks, Resolve(t) PROVE CallsOK'
  BY <1>8 DEF Resolve
<1>9. ASSUME NEW t \in Tasks, Exchange(t) PROVE CallsOK'
  BY <1>9 DEF Exchange, shared
<1>10. ASSUME NEW t \in Tasks, SetStatus(t) PROVE CallsOK'
  BY <1>10 DEF SetStatus
<1>11. ASSUME NEW t \in Tasks, LeaveFlight(t) PROVE CallsOK'
  BY <1>11 DEF LeaveFlight
<1>12. ASSUME NEW t \in Tasks, ReadStatus(t) PROVE CallsOK'
  BY <1>12 DEF ReadStatus, Disarmed, Outcome
<1>13. ASSUME NEW t \in Tasks, Return(t) PROVE CallsOK'
  BY ZenonT(60), <1>13 DEF Return, Forget
<1>14. ASSUME NEW t \in Apps, Kill(t) PROVE CallsOK'
  BY <1>14 DEF Kill, Forget, shared
<1>15. CASE UNCHANGED vars
  BY <1>15 DEF vars, shared, private
<1> QED
  BY <1>1, <1>2, <1>3, <1>4, <1>5, <1>6, <1>7, <1>8, <1>9, <1>10, <1>11, <1>12, <1>13, <1>14,
     <1>15 DEF Code, Alive, Fetch

(* What the history is: a task in met is in a fetch. *)
HistoryOK == met \subseteq {t \in Tasks : pc[t] # "idle"} /\ slipped \in BOOLEAN /\ killed \in BOOLEAN

LEMMA Types == Spec => [](CallsOK /\ HistoryOK)
<1>1. Init => CallsOK /\ HistoryOK
  BY GateAssumption DEF Init, CallsOK, HistoryOK, Tasks, PCs, Kinds
<1>2. CallsOK /\ HistoryOK /\ [Next]_vars => CallsOK' /\ HistoryOK'
  <2> SUFFICES ASSUME CallsOK, HistoryOK, [Next]_vars PROVE CallsOK' /\ HistoryOK'
    OBVIOUS
  <2>1. CallsOK'
    BY CallsStep, StepIs
  <2>2. CASE UNCHANGED vars
    BY <2>1, <2>2 DEF vars, private, history, HistoryOK
  <2>3. CASE Watch
    <3>1. met' \subseteq {t \in Tasks : pc'[t] # "idle"}
      BY <2>3 DEF Watch
    <3>2. slipped' \in BOOLEAN
      BY Zenon, <2>3 DEF Watch
    <3>3. killed' \in BOOLEAN
      BY StepIs DEF vars, history, HistoryOK
    <3> QED
      BY <2>1, <3>1, <3>2, <3>3 DEF HistoryOK
  <2> QED
    BY <2>2, <2>3, StepIs
<1> QED
  BY <1>1, <1>2, PTL DEF Spec

(* Every variable stays in its range, and no call returns without an       *)
(* answer or an error code (sys_http_get, sys_http_post).                  *)
THEOREM TypeCorrect == Spec => []TypeOK
<1>1. CallsOK /\ HistoryOK => TypeOK
  BY DEF HistoryOK, TypeOK
<1> QED
  BY <1>1, Types, PTL

-----------------------------------------------------------------------------
(* The gate. *)

(* http_busy is set while any program is in a call, killed ones aside. *)
GateHeld == \A t \in Apps : pc[t] # "idle" => http_busy
GateInv == CallsOK /\ GateHeld /\ Ring3Exclusive /\ BounceMine

(* A step of task t that leaves the gate alone and starts no call keeps    *)
(* the gate's invariant.                                                   *)
LEMMA InsideTheGate ==
  ASSUME CallsOK, GateHeld, Ring3Exclusive, BounceMine,
         NEW t \in Tasks, pc[t] # "idle",
         NEW to \in PCs, pc' = [pc EXCEPT ![t] = to],
         UNCHANGED <<http_busy, bounce, kind>>
  PROVE  GateHeld' /\ Ring3Exclusive' /\ BounceMine'
BY GateAssumption DEF CallsOK, GateHeld, Ring3Exclusive, BounceMine, Tasks

(* The gate's invariant is inductive. *)
LEMMA GateStep ==
  GateInv /\ CallsOK' /\ (Code \/ UNCHANGED vars) => (GateHeld /\ Ring3Exclusive /\ BounceMine)'
<1> SUFFICES ASSUME CallsOK, GateHeld, Ring3Exclusive, BounceMine, CallsOK', Code \/ UNCHANGED vars
             PROVE  GateHeld' /\ Ring3Exclusive' /\ BounceMine'
  BY DEF GateInv
<1> USE GateAssumption DEF Tasks
<1>1. ASSUME NEW t \in Apps, NEW k \in Kinds, Enter(t, k)
      PROVE  GateHeld' /\ Ring3Exclusive' /\ BounceMine'
  <2>1. \A u \in Apps : pc[u] = "idle"
    BY <1>1 DEF Enter, GateFree, GateHeld
  <2> QED
    BY <1>1, <2>1 DEF Enter, Go, CallsOK, GateHeld, Ring3Exclusive, BounceMine
<1>2. ASSUME NEW k \in {"get", "post"}, DesktopEnter(k)
      PROVE  GateHeld' /\ Ring3Exclusive' /\ BounceMine'
  BY <1>2 DEF DesktopEnter, shared, Go, CallsOK, GateHeld, Ring3Exclusive, BounceMine
<1>3. ASSUME NEW t \in Tasks, Fetch(t), ~Return(t)
      PROVE  GateHeld' /\ Ring3Exclusive' /\ BounceMine'
  <2>1. pc[t] # "idle" /\ UNCHANGED <<http_busy, bounce, kind>>
    BY <1>3 DEF Fetch, WaitOver, WaitTimeout, ClearStatus, TestFlight, SetFlight, Resolve,
                Exchange, SetStatus, LeaveFlight, ReadStatus, shared
  <2>2. \E to \in PCs : pc' = [pc EXCEPT ![t] = to]
    BY <1>3 DEF Fetch, WaitOver, WaitTimeout, ClearStatus, TestFlight, SetFlight, Resolve,
                Exchange, SetStatus, LeaveFlight, ReadStatus, Go, Finish, PCs
  <2> QED
    BY <2>1, <2>2, InsideTheGate
<1>4. ASSUME NEW t \in Tasks, Return(t)
      PROVE  GateHeld' /\ Ring3Exclusive' /\ BounceMine'
  <2>1. pc' = [pc EXCEPT ![t] = "idle"] /\ kind' = [kind EXCEPT ![t] = "get"] /\ bounce' = bounce
    BY <1>4 DEF Return, Forget, Go
  <2>2. t \in Apps => \A u \in Apps : pc'[u] = "idle"
    BY <1>4, <2>1 DEF Return, CallsOK, Ring3Exclusive
  <2>3. t \notin Apps => http_busy' = http_busy
    BY <1>4 DEF Return
  <2> QED
    BY <2>1, <2>2, <2>3 DEF CallsOK, GateHeld, Ring3Exclusive, BounceMine
<1>5. ASSUME NEW t \in Apps, Kill(t)
      PROVE  GateHeld' /\ Ring3Exclusive' /\ BounceMine'
  BY <1>5 DEF Kill, Forget, Go, shared, CallsOK, GateHeld, Ring3Exclusive, BounceMine
<1>6. CASE UNCHANGED vars
  BY <1>6 DEF vars, shared, private, GateHeld, Ring3Exclusive, BounceMine
<1> QED
  BY <1>1, <1>2, <1>3, <1>4, <1>5, <1>6 DEF Code, Alive

LEMMA GateCorrect == Spec => []GateInv
<1>1. Init => GateHeld /\ Ring3Exclusive /\ BounceMine
  BY DEF Init, GateHeld, Ring3Exclusive, BounceMine, Tasks
<1>2. GateInv /\ CallsOK' /\ [Next]_vars => (GateHeld /\ Ring3Exclusive /\ BounceMine)'
  BY GateStep, StepIs
<1> QED
  BY <1>1, <1>2, Types, PTL DEF Spec, GateInv

(* At most one program is past the test of http_busy, whatever is killed   *)
(* and whatever the desktop fetches.                                       *)
THEOREM Exclusive == Spec => []Ring3Exclusive
BY GateCorrect, PTL DEF GateInv

(* The request body in the kernel's static buffer stays its caller's until *)
(* the call returns.                                                       *)
THEOREM BounceKept == Spec => []BounceMine
BY GateCorrect, PTL DEF GateInv

(* One program at a time, and its body, are what the gate keeps.           *)
THEOREM GateKept == Spec => []Ring3Alone
<1>1. Ring3Exclusive /\ BounceMine => Ring3Alone
  BY DEF Ring3Alone
<1> QED BY <1>1, Exclusive, BounceKept, PTL

-----------------------------------------------------------------------------
(* Nothing is left shut. *)

HeldBySomebody ==
  /\ in_flight => \E t \in Tasks : Holds(t)
  /\ http_busy => \E t \in Apps : pc[t] # "idle"

LEMMA HeldStep == CallsOK /\ HeldBySomebody /\ Alive => HeldBySomebody'
<1> SUFFICES ASSUME CallsOK, HeldBySomebody, Alive PROVE HeldBySomebody'
  OBVIOUS
<1> USE GateAssumption DEF Tasks, Holds
<1>1. ASSUME NEW t \in Apps, NEW k \in Kinds, Enter(t, k) PROVE HeldBySomebody'
  BY <1>1 DEF Enter, Go, CallsOK, HeldBySomebody
<1>2. ASSUME NEW k \in {"get", "post"}, DesktopEnter(k) PROVE HeldBySomebody'
  BY <1>2 DEF DesktopEnter, shared, Go, CallsOK, HeldBySomebody
<1>3. ASSUME NEW t \in Tasks, WaitOver(t) \/ WaitTimeout(t) \/ ClearStatus(t) \/ TestFlight(t)
      PROVE  HeldBySomebody'
  BY <1>3 DEF WaitOver, WaitTimeout, ClearStatus, TestFlight, shared, Go, Finish, CallsOK, HeldBySomebody
<1>4. ASSUME NEW t \in Tasks, SetFlight(t) PROVE HeldBySomebody'
  BY <1>4 DEF SetFlight, Go, CallsOK, HeldBySomebody
<1>5. ASSUME NEW t \in Tasks, Resolve(t) \/ Exchange(t) \/ SetStatus(t) PROVE HeldBySomebody'
  BY <1>5 DEF Resolve, Exchange, SetStatus, shared, Go, CallsOK, HeldBySomebody
<1>6. ASSUME NEW t \in Tasks, LeaveFlight(t) \/ ReadStatus(t) PROVE HeldBySomebody'
  BY <1>6 DEF LeaveFlight, ReadStatus, Go, Finish, CallsOK, HeldBySomebody
<1>7. ASSUME NEW t \in Tasks, Return(t) PROVE HeldBySomebody'
  BY <1>7 DEF Return, Forget, Go, CallsOK, HeldBySomebody
<1> QED
  BY <1>1, <1>2, <1>3, <1>4, <1>5, <1>6, <1>7 DEF Alive, Fetch

(* Until a program is killed in a fetch, the connection is never held, nor *)
(* the gate shut, by nobody, after a slip of the desktop's included: every *)
(* return of http_get_timeout and http_post_timeout gives the connection   *)
(* up.                                                                     *)
THEOREM NobodyOrphans == Spec => []NotOrphaned
<1> DEFINE Inv == ~killed => HeldBySomebody
<1>1. Init => Inv
  BY DEF Init, HeldBySomebody
<1>2. CallsOK /\ Inv /\ [Next]_vars => Inv'
  <2> SUFFICES ASSUME CallsOK, Inv, [Next]_vars, ~killed' PROVE HeldBySomebody'
    OBVIOUS
  <2>1. CASE UNCHANGED vars
    BY <2>1 DEF vars, shared, private, history, HeldBySomebody, Holds
  <2>2. CASE Alive /\ killed' = killed
    BY <2>2, HeldStep
  <2> QED
    BY <2>1, <2>2, StepIs
<1>3. Inv => NotOrphaned
  BY DEF HeldBySomebody, NotOrphaned
<1> HIDE DEF Inv
<1> QED
  BY <1>1, <1>2, <1>3, Types, PTL DEF Spec

-----------------------------------------------------------------------------
(* The socket, but for a slip. *)

(* Until two tasks slip past the test of in_flight together, at most one   *)
(* is past it, and in_flight says so as soon as that one has set it.       *)
OnePast ==
  /\ \A t \in Tasks : Holds(t) => in_flight
  /\ \A t, u \in Tasks : Past(t) /\ Past(u) => t = u
FlightInv == ~slipped => OnePast

(* A step that takes no task past the test and leaves in_flight alone.     *)
LEMMA NotPast ==
  ASSUME CallsOK, OnePast, NEW t \in Tasks, NEW to \in PCs,
         pc' = [pc EXCEPT ![t] = to], in_flight' = in_flight,
         to = "set" => pc[t] = "set",
         to \in {"resolve", "exchange", "parsed", "leave"} => Holds(t)
  PROVE  OnePast'
BY DEF CallsOK, OnePast, Past, Holds

LEMMA FlightStep ==
  ASSUME CallsOK, OnePast, Code, ~Slip'
  PROVE  OnePast'
<1> USE DEF PCs, Go, Finish, Holds
<1>1. ASSUME NEW t \in Apps, NEW k \in Kinds, Enter(t, k) PROVE OnePast'
  BY <1>1, NotPast DEF Enter, Tasks
<1>2. ASSUME NEW k \in {"get", "post"}, DesktopEnter(k) PROVE OnePast'
  BY <1>2, NotPast DEF DesktopEnter, shared, Tasks
<1>3. ASSUME NEW t \in Tasks,
             \/ WaitOver(t) \/ WaitTimeout(t) \/ ClearStatus(t) \/ Resolve(t) \/ Exchange(t)
             \/ SetStatus(t) \/ ReadStatus(t)
      PROVE  OnePast'
  BY <1>3, NotPast DEF WaitOver, WaitTimeout, ClearStatus, Resolve, Exchange, SetStatus, ReadStatus, shared
<1>4. ASSUME NEW t \in Tasks, Return(t) PROVE OnePast'
  BY <1>4, NotPast DEF Return, Forget
<1>5. ASSUME NEW t \in Apps, Kill(t) PROVE OnePast'
  BY <1>5, NotPast DEF Kill, Forget, shared, Tasks
<1>6. ASSUME NEW t \in Tasks, TestFlight(t) PROVE OnePast'
  <2>1. CASE in_flight
    BY <1>6, <2>1, NotPast DEF TestFlight, Refusal, shared
  <2>2. CASE ~in_flight
    <3>1. pc' = [pc EXCEPT ![t] = "set"] /\ pc[t] = "test" /\ in_flight' = in_flight
      BY <1>6, <2>2 DEF TestFlight, Refusal, shared
    <3>2. ASSUME NEW u \in Tasks, u # t PROVE ~Past(u)'
      <4>1. ~Holds(u) /\ pc'[u] = pc[u] /\ pc'[t] = "set"
        BY <2>2, <3>1, <3>2 DEF OnePast, CallsOK
      <4>2. pc'[u] # "set"
        BY <3>2, <4>1 DEF Slip
      <4> QED
        BY <4>1, <4>2 DEF Past
    <3>3. ~Holds(t)'
      BY <3>1 DEF CallsOK
    <3> QED
      BY <3>2, <3>3 DEF OnePast, Past
  <2> QED
    BY <2>1, <2>2
<1>7. ASSUME NEW t \in Tasks, SetFlight(t) PROVE OnePast'
  BY <1>7 DEF SetFlight, OnePast, Past, CallsOK
<1>8. ASSUME NEW t \in Tasks, LeaveFlight(t) PROVE OnePast'
  BY <1>8 DEF LeaveFlight, OnePast, Past, CallsOK
<1> QED
  BY <1>1, <1>2, <1>3, <1>4, <1>5, <1>6, <1>7, <1>8 DEF Code, Alive, Fetch

LEMMA FlightCorrect == Spec => []FlightInv
<1>1. Init => FlightInv
  BY DEF Init, FlightInv, OnePast, Holds, Past
<1>2. CallsOK /\ FlightInv /\ [Next]_vars => FlightInv'
  <2> SUFFICES ASSUME CallsOK, FlightInv, [Next]_vars, ~slipped' PROVE OnePast'
    BY DEF FlightInv
  <2>1. CASE UNCHANGED vars
    BY <2>1 DEF vars, shared, private, history, FlightInv, OnePast, Past, Holds
  <2>2. CASE Code /\ Watch
    <3>1. CASE \A t \in Tasks : ~Past(t)'
      BY <3>1 DEF OnePast, Past
    <3>2. CASE ~slipped /\ ~Slip'
      BY <2>2, <3>2, FlightStep DEF FlightInv
    <3> QED
      BY Zenon, <2>2, <3>1, <3>2 DEF Watch
  <2> QED
    BY <2>1, <2>2, StepIs
<1> QED
  BY <1>1, <1>2, Types, PTL DEF Spec

(* Two fetches share the one socket of net.c only after two tasks were     *)
(* between the test and the set of in_flight at once.                      *)
THEOREM OneOnSocket == Spec => [](SocketExclusive \/ slipped)
<1>1. FlightInv => SocketExclusive \/ slipped
  BY DEF FlightInv, OnePast, SocketExclusive, OnSocket, Past, Holds
<1> QED
  BY <1>1, FlightCorrect, PTL

-----------------------------------------------------------------------------
(* Fetches that met none from the other side of http_busy. *)

(* No answer before the exchange, and none for a fetch turned away. *)
Unanswered ==
  \A t \in Tasks :
    pc[t] \in {"idle", "wait", "clear", "test", "set", "resolve", "exchange", "refused"} => answer[t] = Nothing

(* What holds of such a fetch while it is inside: the other side is not,   *)
(* the free connection a program waited for stays free until it takes it,  *)
(* and the one status of drivers/http.c is its own from the answer to the  *)
(* return.                                                                 *)
Apart(t) == Inside(t) => \A u \in OtherSide(t) : ~Inside(u)
Own(t) ==
  /\ t \in Apps /\ pc[t] \in {"clear", "test", "set"} => ~in_flight
  /\ t \in Apps => pc[t] # "refused"
  /\ pc[t] \in {"leave", "read"} => answer[t] \in {Nothing, last_status}
  /\ pc[t] = "return" =>
       /\ result[t] \in Statuses => result[t] = answer[t]
       /\ result[t] = IoError => answer[t] = Nothing
AloneInv == Unanswered /\ \A t \in Tasks \ met : Apart(t) /\ Own(t)

(* What the history gives of a task outside met after a step. *)
LEMMA OutsideMet ==
  ASSUME HistoryOK, Watch, NEW t \in Tasks, t \notin met'
  PROVE  t \notin met \/ pc'[t] = "idle"
BY DEF Watch
LEMMA ApartAfter ==
  ASSUME Watch, NEW t \in Tasks, t \notin met'
  PROVE  Apart(t)'
<1>1. Inside(t)' => pc'[t] # "idle"
  BY DEF Inside, Past, Holds
<1>2. ~Beside(t)' \/ pc'[t] = "idle"
  BY DEF Watch
<1>3. Apart(t)' <=> ~Beside(t)'
  BY DEF Apart, Beside
<1> QED
  BY <1>1, <1>2, <1>3 DEF Apart

(* The others' steps: inside, nobody of the other side writes what a task  *)
(* outside met depends on, and no other program is in a call.              *)
LEMMA OthersStep ==
  ASSUME CallsOK, HistoryOK, Watch, AloneInv,
         NEW t \in Tasks, NEW v \in Tasks, t # v, t \notin met',
         NEW to \in PCs, pc' = [pc EXCEPT ![v] = to],
         answer'[t] = answer[t], result'[t] = result[t],
         t \in Apps /\ v \in Apps => pc[t] = "idle",
         Inside(v) \/ UNCHANGED <<in_flight, last_status>>
  PROVE  Own(t)'
<1>1. pc'[t] = pc[t]
  BY DEF CallsOK
<1>2. CASE pc[t] = "idle"
  BY <1>1, <1>2 DEF Own
<1>3. CASE pc[t] # "idle"
  <2>1. t \notin met /\ Apart(t) /\ Own(t) /\ v \in OtherSide(t)
    BY <1>1, <1>3, OutsideMet, GateAssumption DEF AloneInv, OtherSide, Tasks
  <2>2. CASE Inside(t)
    <3>1. UNCHANGED <<in_flight, last_status>>
      BY <2>1, <2>2 DEF Apart
    <3> QED
      BY <1>1, <2>1, <3>1 DEF Own
  <2>3. CASE ~Inside(t)
    BY <1>1, <2>1, <2>3 DEF Own, Inside, Past, Holds
  <2> QED
    BY <2>2, <2>3
<1> QED
  BY <1>2, <1>3

(* Its own steps. *)
LEMMA OwnStep ==
  ASSUME CallsOK, Unanswered, NEW t \in Tasks, Own(t), Fetch(t)
  PROVE  Own(t)'
<1> USE GateAssumption DEF CallsOK, Tasks, Own, Go, Finish, Nothing, IoError, Busy, NoDevice
<1>1. CASE WaitOver(t) \/ WaitTimeout(t)
  BY <1>1 DEF WaitOver, WaitTimeout, shared
<1>2. CASE ClearStatus(t) \/ SetFlight(t) \/ Exchange(t)
  BY <1>2 DEF ClearStatus, SetFlight, Exchange, shared, Unanswered
<1>3. CASE TestFlight(t)
  BY <1>3 DEF TestFlight, Refusal, shared
<1>4. CASE Resolve(t)
  BY <1>4 DEF Resolve, Unanswered
<1>5. CASE SetStatus(t) \/ LeaveFlight(t)
  BY <1>5 DEF SetStatus, LeaveFlight
<1>6. CASE ReadStatus(t)
  BY <1>6 DEF ReadStatus, Outcome, Unanswered
<1>7. CASE Return(t)
  BY <1>7 DEF Return, Forget
<1> QED
  BY <1>1, <1>2, <1>3, <1>4, <1>5, <1>6, <1>7 DEF Fetch

LEMMA UnansweredStep == CallsOK /\ Unanswered /\ Code => Unanswered'
<1> SUFFICES ASSUME CallsOK, Unanswered, Code PROVE Unanswered'
  OBVIOUS
<1> USE GateAssumption DEF CallsOK, Tasks, Unanswered, Go, Finish
<1>1. ASSUME NEW t \in Apps, NEW k \in Kinds, Enter(t, k) PROVE Unanswered'
  BY <1>1 DEF Enter
<1>2. ASSUME NEW k \in {"get", "post"}, DesktopEnter(k) PROVE Unanswered'
  BY <1>2 DEF DesktopEnter
<1>3. ASSUME NEW t \in Tasks,
             WaitOver(t) \/ WaitTimeout(t) \/ ClearStatus(t) \/ TestFlight(t) \/ SetFlight(t) \/ Resolve(t)
      PROVE  Unanswered'
  BY <1>3 DEF WaitOver, WaitTimeout, ClearStatus, TestFlight, SetFlight, Resolve
<1>4. ASSUME NEW t \in Tasks, Exchange(t) \/ SetStatus(t) \/ LeaveFlight(t) \/ ReadStatus(t)
      PROVE  Unanswered'
  BY <1>4 DEF Exchange, SetStatus, LeaveFlight, ReadStatus
<1>5. ASSUME NEW t \in Tasks, Return(t) PROVE Unanswered'
  BY <1>5 DEF Return, Forget
<1>6. ASSUME NEW t \in Apps, Kill(t) PROVE Unanswered'
  BY <1>6 DEF Kill, Forget
<1> QED
  BY <1>1, <1>2, <1>3, <1>4, <1>5, <1>6 DEF Code, Alive, Fetch

(* What a task's step leaves alone of the others. *)
LEMMA StepOf ==
  ASSUME CallsOK, NEW v \in Tasks, Fetch(v) \/ (v \in Apps /\ Kill(v))
  PROVE  /\ pc[v] # "idle"
         /\ \E to \in PCs : pc' = [pc EXCEPT ![v] = to]
         /\ \A t \in Tasks : t # v =>
              answer'[t] = answer[t] /\ result'[t] = result[t] /\ carried'[t] = carried[t] /\ kind'[t] = kind[t]
         /\ Inside(v) \/ UNCHANGED <<in_flight, last_status>>
<1> USE DEF CallsOK, Go, Finish, Forget, PCs, Inside, Past, Holds, shared
<1>1. CASE WaitOver(v) \/ WaitTimeout(v) \/ ClearStatus(v) \/ TestFlight(v) \/ SetFlight(v)
  BY <1>1 DEF WaitOver, WaitTimeout, ClearStatus, TestFlight, SetFlight
<1>2. CASE Resolve(v) \/ Exchange(v) \/ SetStatus(v) \/ LeaveFlight(v) \/ ReadStatus(v)
  BY <1>2 DEF Resolve, Exchange, SetStatus, LeaveFlight, ReadStatus
<1>3. CASE Return(v)
  BY <1>3 DEF Return
<1>4. CASE Kill(v)
  BY <1>4 DEF Kill
<1> QED
  BY <1>1, <1>2, <1>3, <1>4 DEF Fetch

LEMMA AloneStep ==
  ASSUME GateInv, HistoryOK, AloneInv, Code, Watch
  PROVE  AloneInv'
<1> USE DEF GateInv
<1>1. Unanswered'
  BY UnansweredStep DEF AloneInv
<1>2. SUFFICES ASSUME NEW t \in Tasks, t \notin met' PROVE Own(t)'
  BY <1>1, ApartAfter DEF AloneInv
<1>3. ASSUME NEW v \in Apps, NEW k \in Kinds, Enter(v, k) PROVE Own(t)'
  <2>1. CASE t = v
    BY <1>3, <2>1 DEF Enter, Go, Own, CallsOK
  <2>2. CASE t # v
    <3>1. t \in Apps => pc[t] = "idle"
      BY <1>3 DEF Enter, GateFree, GateHeld
    <3>2. /\ pc' = [pc EXCEPT ![v] = "wait"] /\ "wait" \in PCs /\ v \in Tasks
          /\ UNCHANGED <<in_flight, last_status, answer, result>>
      BY <1>3 DEF Enter, Go, PCs, Tasks
    <3> QED
      BY ONLY CallsOK, HistoryOK, Watch, AloneInv, t \in Tasks, t \notin met', <2>2, <3>1, <3>2, OthersStep
  <2> QED
    BY <2>1, <2>2
<1>4. ASSUME NEW k \in {"get", "post"}, DesktopEnter(k) PROVE Own(t)'
  <2>1. CASE t = Desktop
    BY <1>4, <2>1, GateAssumption DEF DesktopEnter, Go, Own, CallsOK, shared
  <2>2. CASE t # Desktop
    <3>1. PICK to \in PCs : pc' = [pc EXCEPT ![Desktop] = to]
      BY <1>4 DEF DesktopEnter, Go, PCs
    <3>2. UNCHANGED <<in_flight, last_status, answer, result>> /\ Desktop \in Tasks /\ Desktop \notin Apps
      BY <1>4, GateAssumption DEF DesktopEnter, shared, Tasks
    <3> QED
      BY ONLY CallsOK, HistoryOK, Watch, AloneInv, t \in Tasks, t \notin met', <2>2, <3>1, <3>2, OthersStep
  <2> QED
    BY <2>1, <2>2
<1>5. ASSUME NEW v \in Tasks, Fetch(v) \/ (v \in Apps /\ Kill(v)) PROVE Own(t)'
  <2>1. CASE t # v
    <3>1. t \in Apps /\ v \in Apps => pc[t] = "idle"
      BY <1>5, <2>1, StepOf DEF Ring3Exclusive
    <3>2. PICK to \in PCs : pc' = [pc EXCEPT ![v] = to]
      BY <1>5, StepOf
    <3>3. answer'[t] = answer[t] /\ result'[t] = result[t] /\ (Inside(v) \/ UNCHANGED <<in_flight, last_status>>)
      BY <1>5, <2>1, StepOf
    <3> QED
      BY ONLY CallsOK, HistoryOK, Watch, AloneInv, t \in Tasks, v \in Tasks, t \notin met', <2>1, <3>1, <3>2, <3>3,
         OthersStep
  <2>2. CASE t = v /\ Fetch(v)
    <3>1. CASE t \notin met
      BY <2>2, <3>1, OwnStep DEF AloneInv
    <3>2. CASE pc'[t] = "idle"
      BY <3>2 DEF Own
    <3>3. t \notin met \/ pc'[t] = "idle"
      BY OutsideMet, <1>2
    <3> QED
      BY <3>1, <3>2, <3>3
  <2>3. CASE t = v /\ v \in Apps /\ Kill(v)
    <3>1. pc' = [pc EXCEPT ![t] = "idle"]
      BY <2>3 DEF Kill, Forget, Go
    <3>2. pc'[t] = "idle"
      BY <3>1 DEF CallsOK
    <3> QED
      BY <3>2 DEF Own
  <2> QED
    BY <1>5, <2>1, <2>2, <2>3
<1> QED
  BY <1>3, <1>4, <1>5 DEF Code, Alive, Tasks

LEMMA AloneCorrect == Spec => []AloneInv
<1>1. Init => AloneInv
  BY GateAssumption DEF Init, AloneInv, Unanswered, Apart, Own, Inside, Past, Holds, Tasks
<1>2. GateInv /\ HistoryOK /\ AloneInv /\ [Next]_vars => AloneInv'
  <2>1. ASSUME AloneInv, UNCHANGED vars PROVE AloneInv'
    BY <2>1 DEF vars, shared, private, history, AloneInv, Unanswered, Apart, Own, Inside, Past, Holds
  <2> QED
    BY <2>1, StepIs, AloneStep
<1> QED
  BY <1>1, <1>2, GateCorrect, Types, PTL DEF Spec

(* A fetch that met none from the other side of http_busy is told the      *)
(* status the server answered it, never another fetch's                    *)
(* (http_last_status), whatever is killed and whoever fetched before it.   *)
THEOREM StatusKept == Spec => []StatusTrue
<1>1. AloneInv => StatusTrue
  BY DEF AloneInv, Own, StatusTrue
<1> QED
  BY <1>1, AloneCorrect, PTL

(* in_flight guards the connection but for a slip between its test and its *)
(* set, and turns a program away after a successful http_wait_idle only if *)
(* the desktop came in beside it.                                          *)
THEOREM FlightKept == Spec => []FlightGuards
<1>1. (SocketExclusive \/ slipped) /\ AloneInv => FlightGuards
  BY DEF AloneInv, Own, FlightGuards, Tasks
<1> QED
  BY <1>1, OneOnSocket, AloneCorrect, PTL

-----------------------------------------------------------------------------
(* The header of a POST. *)

(* Whose header is armed: a program's inside the POST that armed it.  It   *)
(* is there from the arming to the taking, if the desktop does not take    *)
(* it; the desktop's own POSTs have none, and only a GET clears the        *)
(* status first.                                                           *)
ArmedBy(t) ==
  kind[t] = "mail" /\ post_bearer = t /\ pc[t] \in {"test", "set", "resolve", "leave", "read", "refused"}
ArmedRight == post_bearer # Desktop => \E t \in Apps : ArmedBy(t)
Armed(t) == kind[t] = "mail" /\ pc[t] \in {"test", "set", "resolve"} => post_bearer = t
Carries(t) == OnSocket(t) => carried[t] = IF kind[t] = "mail" THEN t ELSE Desktop
KindsRight == kind[Desktop] # "mail" /\ \A t \in Tasks : pc[t] = "clear" => kind[t] = "get"
HeaderInv ==
  ~killed => ArmedRight /\ KindsRight /\ \A t \in Tasks \ met : Armed(t) /\ Carries(t)

LEMMA KindsStep == CallsOK /\ KindsRight /\ Alive => KindsRight'
<1> SUFFICES ASSUME CallsOK, KindsRight, Alive PROVE KindsRight'
  OBVIOUS
<1> USE GateAssumption DEF CallsOK, Tasks, KindsRight, Go, Finish
<1>1. ASSUME NEW t \in Apps, NEW k \in Kinds, Enter(t, k) PROVE KindsRight'
  BY <1>1 DEF Enter
<1>2. ASSUME NEW k \in {"get", "post"}, DesktopEnter(k) PROVE KindsRight'
  BY <1>2 DEF DesktopEnter
<1>3. ASSUME NEW t \in Tasks,
             WaitOver(t) \/ WaitTimeout(t) \/ ClearStatus(t) \/ TestFlight(t) \/ SetFlight(t) \/ Resolve(t)
      PROVE  KindsRight'
  BY <1>3 DEF WaitOver, WaitTimeout, ClearStatus, TestFlight, SetFlight, Resolve
<1>4. ASSUME NEW t \in Tasks, Exchange(t) \/ SetStatus(t) \/ LeaveFlight(t) \/ ReadStatus(t)
      PROVE  KindsRight'
  BY <1>4 DEF Exchange, SetStatus, LeaveFlight, ReadStatus
<1>5. ASSUME NEW t \in Tasks, Return(t) PROVE KindsRight'
  BY <1>5 DEF Return, Forget
<1> QED
  BY <1>1, <1>2, <1>3, <1>4, <1>5 DEF Alive, Fetch

(* An armed header's POST is the only program's call, so what another task *)
(* does to it the desktop does.                                            *)
LEMMA ArmedStep == GateInv /\ ArmedRight /\ KindsRight /\ Alive => ArmedRight'
<1> SUFFICES ASSUME GateInv, ArmedRight, KindsRight, Alive PROVE ArmedRight'
  OBVIOUS
<1> USE GateAssumption DEF GateInv, CallsOK, Tasks, ArmedRight, ArmedBy, Go, Finish
<1>b. ASSUME NEW t \in Apps, NEW u \in Apps, pc[t] # "idle", pc[u] # "idle" PROVE u = t
  BY <1>b DEF Ring3Exclusive
<1>1. ASSUME NEW t \in Apps, NEW k \in Kinds, Enter(t, k) PROVE ArmedRight'
  <2>1. \A u \in Apps : pc[u] = "idle"
    BY <1>1 DEF Enter, GateFree, GateHeld
  <2> QED
    BY <1>1, <2>1 DEF Enter
<1>2. ASSUME NEW k \in {"get", "post"}, DesktopEnter(k) PROVE ArmedRight'
  BY <1>2 DEF DesktopEnter, shared
<1>3. ASSUME NEW t \in Tasks, WaitOver(t) PROVE ArmedRight'
  <2>1. t # Desktop \/ kind[t] # "mail"
    BY DEF KindsRight
  <2> QED
    BY <1>3, <2>1 DEF WaitOver
<1>4. ASSUME NEW t \in Tasks, WaitTimeout(t) \/ ClearStatus(t) \/ TestFlight(t) \/ SetFlight(t) PROVE ArmedRight'
  BY <1>4 DEF WaitTimeout, ClearStatus, TestFlight, SetFlight, shared
<1>5. ASSUME NEW t \in Tasks, Resolve(t) PROVE ArmedRight'
  BY <1>5, <1>b DEF Resolve
<1>6. ASSUME NEW t \in Tasks, Exchange(t) \/ SetStatus(t) \/ LeaveFlight(t) PROVE ArmedRight'
  BY <1>6 DEF Exchange, SetStatus, LeaveFlight, shared
<1>7. ASSUME NEW t \in Tasks, ReadStatus(t) PROVE ArmedRight'
  BY <1>7, <1>b DEF ReadStatus, Disarmed
<1>8. ASSUME NEW t \in Tasks, Return(t) PROVE ArmedRight'
  BY <1>8 DEF Return, Forget
<1> QED
  BY <1>1, <1>2, <1>3, <1>4, <1>5, <1>6, <1>7, <1>8 DEF Alive, Fetch

(* Only a task inside takes or disarms a header, and only a program's      *)
(* WaitOver arms one.                                                      *)
LEMMA BearerStep ==
  ASSUME CallsOK, KindsRight, NEW v \in Tasks, Fetch(v)
  PROVE  post_bearer' = post_bearer \/ Inside(v) \/ (v \in Apps /\ pc[v] = "wait")
<1> USE GateAssumption DEF Tasks, shared, Inside, Past, Holds
<1>1. CASE WaitOver(v)
  BY <1>1 DEF WaitOver, KindsRight
<1>2. CASE WaitTimeout(v) \/ ClearStatus(v) \/ TestFlight(v) \/ SetFlight(v) \/ Resolve(v) \/ Return(v)
  BY <1>2 DEF WaitTimeout, ClearStatus, TestFlight, SetFlight, Resolve, Return
<1>3. CASE Exchange(v) \/ SetStatus(v) \/ LeaveFlight(v) \/ ReadStatus(v)
  BY <1>3 DEF Exchange, SetStatus, LeaveFlight, ReadStatus
<1> QED
  BY <1>1, <1>2, <1>3 DEF Fetch

LEMMA CarryStep ==
  ASSUME GateInv, KindsRight, ArmedRight, NEW t \in Tasks, Apart(t), Armed(t), Carries(t), Fetch(t)
  PROVE  Armed(t)' /\ Carries(t)'
<1> USE GateAssumption DEF GateInv, CallsOK, Tasks, Armed, Carries, OnSocket, Go, Finish, Kinds
<1>1. CASE WaitOver(t) \/ WaitTimeout(t)
  BY <1>1 DEF WaitOver, WaitTimeout, shared
<1>2. CASE ClearStatus(t)
  BY <1>2 DEF ClearStatus, KindsRight
<1>3. CASE TestFlight(t) \/ SetFlight(t)
  BY <1>3 DEF TestFlight, SetFlight, shared
<1>4. CASE Resolve(t)
  <2>1. pc' [t] = "exchange" => carried'[t] = IF kind[t] # "get" THEN post_bearer ELSE Desktop
    BY <1>4 DEF Resolve
  <2>2. pc'[t] \in {"leave", "exchange"} /\ kind'[t] = kind[t]
    BY <1>4 DEF Resolve
  <2>3. pc[t] = "resolve"
    BY <1>4 DEF Resolve
  <2>4. kind[t] = "mail" => post_bearer = t
    BY <2>3
  <2>5. ASSUME kind[t] = "post" PROVE post_bearer = Desktop
    <3>1. SUFFICES ASSUME NEW u \in Apps, ArmedBy(u) PROVE FALSE
      BY DEF ArmedRight
    <3>2. u # t /\ Inside(u) /\ pc[u] # "idle"
      BY <2>5, <3>1 DEF ArmedBy, Inside, Past, Holds
    <3>3. t = Desktop /\ Inside(t)
      BY <2>3, <3>2 DEF Ring3Exclusive, Inside, Past, Holds
    <3> QED
      BY <3>2, <3>3 DEF Apart, OtherSide
  <2> QED
    BY <2>1, <2>2, <2>4, <2>5
<1>5. CASE Exchange(t) \/ SetStatus(t) \/ LeaveFlight(t) \/ ReadStatus(t)
  BY <1>5 DEF Exchange, SetStatus, LeaveFlight, ReadStatus, shared
<1>6. CASE Return(t)
  BY <1>6 DEF Return, Forget
<1> QED
  BY <1>1, <1>2, <1>3, <1>4, <1>5, <1>6 DEF Fetch

LEMMA HeaderStep ==
  ASSUME GateInv, HistoryOK, AloneInv, Alive, Watch, ArmedRight, KindsRight,
         \A t \in Tasks \ met : Armed(t) /\ Carries(t),
         NEW t \in Tasks, t \notin met'
  PROVE  Armed(t)' /\ Carries(t)'
<1> USE DEF GateInv
<1>1. CASE pc'[t] = "idle"
  BY <1>1 DEF Armed, Carries, OnSocket
<1>2. ASSUME pc'[t] # "idle", NEW v \in Tasks, Fetch(v) PROVE Armed(t)' /\ Carries(t)'
  <2>1. t \notin met /\ Apart(t) /\ Armed(t) /\ Carries(t)
    BY <1>2, OutsideMet DEF AloneInv
  <2>2. CASE t = v
    BY <1>2, <2>1, <2>2, CarryStep
  <2>3. CASE t # v
    <3>1. PICK to \in PCs : pc' = [pc EXCEPT ![v] = to]
      BY <1>2, StepOf
    <3>2. pc'[t] = pc[t] /\ kind'[t] = kind[t] /\ carried'[t] = carried[t]
      BY <1>2, <2>3, <3>1, StepOf DEF CallsOK
    <3>3. Carries(t)'
      BY <2>1, <3>2 DEF Carries, OnSocket
    <3>4. ASSUME kind[t] = "mail", pc[t] \in {"test", "set", "resolve"} PROVE post_bearer' = post_bearer
      <4>1. t # Desktop /\ t \in Apps /\ Inside(t) /\ pc[t] # "idle"
        BY <3>4 DEF KindsRight, Tasks, Inside, Past, Holds
      <4>2. v = Desktop
        BY <1>2, <2>3, <4>1, StepOf DEF Ring3Exclusive, Tasks
      <4>3. ~Inside(v)
        BY <2>1, <4>1, <4>2 DEF Apart, OtherSide
      <4> QED
        BY <1>2, <4>2, <4>3, BearerStep, GateAssumption
    <3> QED
      BY <2>1, <3>2, <3>3, <3>4 DEF Armed
  <2> QED
    BY <2>2, <2>3
<1>3. ASSUME NEW v \in Apps, NEW k \in Kinds, Enter(v, k) PROVE Armed(t)' /\ Carries(t)'
  <2>1. t \in Apps /\ t # v => pc[t] = "idle"
    BY <1>3 DEF Enter, GateFree, GateHeld
  <2>2. CASE t = v
    BY <1>3, <2>2 DEF Enter, Go, CallsOK, Armed, Carries, OnSocket, Tasks
  <2>3. CASE t # v
    <3>1. pc'[t] = pc[t] /\ kind'[t] = kind[t] /\ carried'[t] = carried[t] /\ post_bearer' = post_bearer
      BY <1>3, <2>3 DEF Enter, Go, CallsOK, Tasks
    <3>2. pc[t] = "idle" \/ (Armed(t) /\ Carries(t))
      BY OutsideMet, <3>1
    <3> QED
      BY <3>1, <3>2 DEF Armed, Carries, OnSocket
  <2> QED
    BY <2>2, <2>3
<1>4. ASSUME NEW k \in {"get", "post"}, DesktopEnter(k) PROVE Armed(t)' /\ Carries(t)'
  <2>1. CASE t = Desktop
    BY <1>4, <2>1 DEF DesktopEnter, Go, CallsOK, Armed, Carries, OnSocket, Tasks
  <2>2. CASE t # Desktop
    <3>1. pc'[t] = pc[t] /\ kind'[t] = kind[t] /\ carried'[t] = carried[t] /\ post_bearer' = post_bearer
      BY <1>4, <2>2 DEF DesktopEnter, shared, Go, CallsOK, Tasks
    <3>2. pc[t] = "idle" \/ (Armed(t) /\ Carries(t))
      BY OutsideMet, <3>1
    <3> QED
      BY <3>1, <3>2 DEF Armed, Carries, OnSocket
  <2> QED
    BY <2>1, <2>2
<1> QED
  BY <1>1, <1>2, <1>3, <1>4 DEF Alive

(* Until a program is killed in a fetch, a POST that met none from the     *)
(* other side of http_busy carries its own caller's header, and no header  *)
(* is armed outside the POST that armed it (http_post_set_bearer,          *)
(* http_post_locked).                                                      *)
THEOREM HeaderKept == Spec => []HeaderMine
<1>1. Init => HeaderInv
  BY GateAssumption DEF Init, HeaderInv, ArmedRight, KindsRight, Armed, Carries, OnSocket, Tasks, Kinds
<1>2. GateInv /\ HistoryOK /\ AloneInv /\ HeaderInv /\ [Next]_vars => HeaderInv'
  <2> SUFFICES ASSUME GateInv, HistoryOK, AloneInv, HeaderInv, [Next]_vars, ~killed' PROVE HeaderInv'
    BY DEF HeaderInv
  <2>1. CASE UNCHANGED vars
    BY <2>1 DEF vars, shared, private, history, HeaderInv, ArmedRight, ArmedBy, KindsRight, Armed, Carries, OnSocket
  <2>2. CASE Alive /\ Watch /\ killed' = killed
    <3>1. ArmedRight /\ KindsRight /\ \A t \in Tasks \ met : Armed(t) /\ Carries(t)
      BY <2>2 DEF HeaderInv
    <3>2. ArmedRight' /\ KindsRight'
      BY <2>2, <3>1, ArmedStep, KindsStep DEF GateInv
    <3>3. \A t \in Tasks \ met' : Armed(t)' /\ Carries(t)'
      BY <2>2, <3>1, HeaderStep
    <3> QED
      BY <3>2, <3>3 DEF HeaderInv
  <2> QED
    BY <2>1, <2>2, StepIs
<1>3. HeaderInv => HeaderMine
  BY DEF HeaderInv, HeaderMine, ArmedRight, ArmedBy, Carries
<1> QED
  BY <1>1, <1>2, <1>3, GateCorrect, AloneCorrect, Types, PTL DEF Spec
=============================================================================
