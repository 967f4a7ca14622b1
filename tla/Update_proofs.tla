--------------------------- MODULE Update_proofs ----------------------------
(***************************************************************************)
(* What TLAPS proves of Update, for any number of releases, any set of     *)
(* them that works, and any number of power cuts and faults: the safety of *)
(* the A/B update of arch/arm64/update.c.                                  *)
(***************************************************************************)
EXTENDS Update, TLAPS

-----------------------------------------------------------------------------
(* Types. *)

(* The four files and their places in Order. *)
LEMMA OrderFact ==
  /\ \A i \in 1..4 : Order[i] \in Staged
  /\ Order[1] = "new" /\ Order[2] = "sig" /\ Order[3] = "try" /\ Order[4] = "ver"
BY DEF Order, Staged

LEMMA WorksFact == Works \subseteq Versions /\ None \notin Works /\ Bad \notin Works /\ 1 \in Versions
BY UpdateAssumption DEF UpdateAssumption, Versions, None, Bad

(* What a retry and a commit rely on besides the ranges. *)
TypeInv ==
  /\ TypeOK
  /\ settle => tries < Retries
  /\ pc = "commit" => buf \in Versions
  /\ pc \in {"stage", "restart"} => latest \in Versions

(* A machine that goes dark forgets what was in memory. *)
LEMMA DarkFact ==
  ASSUME Dark
  PROVE  /\ pc' = "off" /\ step' \in 1..4 /\ run' = None /\ latest' = None /\ config' = None
         /\ settle' = FALSE /\ tries' \in 0..Retries /\ buf' = None
<1>1. tries' \in 0..Retries
  BY UpdateAssumption DEF Dark, UpdateAssumption
<1> QED BY <1>1 DEF Dark

LEMMA TypeStep == TypeInv /\ [Next]_vars => TypeInv'
<1> SUFFICES ASSUME TypeInv, [Next]_vars PROVE TypeInv'
  OBVIOUS
<1> USE UpdateAssumption, WorksFact DEF UpdateAssumption, TypeOK, TypeInv
<1>1. CASE PowerOn
  BY <1>1 DEF PowerOn, Kernel, Staged
<1>2. CASE Boot
  BY <1>2 DEF Boot, Drops, StartDrop, Fault, NoFault
<1>3. CASE Drop
  BY <1>3, OrderFact DEF Drop, LastDrop, Fault, NoFault
<1>4. CASE Stage
  <2>1. card' \in [Staged -> Versions \cup {None, Bad}]
    BY <1>4, OrderFact DEF Stage
  <2> QED BY <1>4, <2>1 DEF Stage, Refused, StartDrop, Fault, NoFault
<1>5. CASE Tryboot
  <2>1. CASE Dark /\ flag' = TRUE
    BY <1>5, <2>1, DarkFact DEF Tryboot
  <2>2. CASE StartDrop /\ UNCHANGED <<flag, run, latest, config, settle, tries, buf>>
    BY <1>5, <2>2 DEF Tryboot, StartDrop
  <2> QED BY <1>5, <2>1, <2>2 DEF Tryboot
<1>6. CASE Tick
  <2>1. Good => card["new"] \in Versions
    BY DEF Good
  <2>2. tries' \in 0..Retries /\ settle' \in BOOLEAN /\ (settle' => tries' < Retries)
    <3>1. CASE Good /\ UNCHANGED tries /\ settle' = FALSE
      BY <3>1
    <3>2. CASE tries' = tries + 1 /\ settle' = MoreTries
      <4>1. tries + 1 \in 0..Retries /\ MoreTries = (tries + 1 < Retries)
        BY <1>6 DEF Tick, MoreTries
      <4>2. MoreTries \in BOOLEAN
        BY <4>1
      <4> QED BY <3>2, <4>1, <4>2
    <3> QED BY <1>6, <3>1, <3>2 DEF Tick
  <2> QED BY <1>6, <2>1, <2>2 DEF Tick, StartDrop, Fault, NoFault
<1>7. CASE Commit
  BY <1>7 DEF Commit, Kept, StartDrop, Fault, NoFault
<1>8. CASE PowerCut
  <2>1. cuts' \in 0..MaxCuts
    BY <1>8 DEF PowerCut
  <2> QED BY <1>8, <2>1, DarkFact DEF PowerCut
<1>9. CASE Damage
  BY <1>9 DEF Damage, Fault, Staged, ram
<1>10. CASE Check
  BY <1>10 DEF Check
<1>11. CASE Install
  BY <1>11 DEF Install, Fault, NoFault
<1>12. CASE UNCHANGED vars
  BY <1>12 DEF vars, ram
<1> QED BY <1>1, <1>2, <1>3, <1>4, <1>5, <1>6, <1>7, <1>8, <1>9, <1>10, <1>11, <1>12
        DEF Next, System

LEMMA TypeKept == Spec => []TypeInv
<1>1. ASSUME Init PROVE TypeInv
  <2>1. 0 \in 0..Retries /\ 0 \in 0..MaxCuts /\ 0 \in 0..MaxFaults /\ tries < Retries
    BY <1>1, UpdateAssumption DEF UpdateAssumption, Init
  <2>2. img \in Versions /\ card \in [Staged -> Versions \cup {None, Bad}]
    BY <1>1, WorksFact DEF Init
  <2>3. tries \in 0..Retries /\ cuts \in 0..MaxCuts /\ faults \in 0..MaxFaults /\ step \in 1..4
    BY <1>1, <2>1 DEF Init
  <2>4. pc = "off" /\ flag = FALSE /\ settle = FALSE /\ overlap = FALSE
        /\ run = None /\ latest = None /\ config = None /\ buf = None
    BY <1>1 DEF Init
  <2>5. TypeOK
    BY <2>2, <2>3, <2>4, Zenon DEF TypeOK
  <2> QED BY <2>4, <2>5 DEF TypeInv
<1> QED BY <1>1, TypeStep, PTL DEF Spec

(* Every variable stays in its range; KERNEL8.NEW is read at most Retries  *)
(* times (update_tick).                                                    *)
THEOREM TypeCorrect == Spec => []TypeOK
<1>1. TypeInv => TypeOK
  BY DEF TypeInv
<1> QED BY <1>1, TypeKept, PTL

-----------------------------------------------------------------------------
(* What is staged. *)

(* A staging as far as it has come; nothing else writes these files.       *)
StageInv ==
  /\ latest # None => latest > run
  /\ pc \in {"off", "hung"} => latest = None
  /\ pc = "stage" =>
       /\ config # None
       /\ step > 1 => card["new"] \in {latest, Bad}
       /\ step > 2 => card["sig"] = latest
       /\ step > 3 => card["try"] # None
  /\ pc = "restart" =>
       /\ card["new"] \in {latest, Bad} /\ card["sig"] = latest
       /\ card["try"] # None /\ card["ver"] = latest
  /\ flag =>
       /\ pc = "off"
       /\ card["new"] \in {card["ver"], Bad} /\ card["sig"] = card["ver"]
       /\ card["try"] # None /\ card["ver"] \in Versions

(* While no install is begun over another: UPDATE.VER is written last and  *)
(* into an empty place, so it tells what KERNEL8.NEW is; a kernel on trial *)
(* is the one it names; and the kernel that runs is no older than          *)
(* KERNEL8.IMG, and works.                                                 *)
AloneInv ==
  ~overlap =>
    /\ img \in Works
    /\ card["ver"] # None => card["new"] \in {None, Bad, card["ver"]}
    /\ pc = "stage" => card["ver"] = None
    /\ settle => pc = "idle" /\ card["ver"] = run
    /\ pc = "commit" => buf = run
    /\ pc \notin {"off", "hung"} => run \in Works /\ run >= img
    /\ flag => card["ver"] > img

LEMMA StageStep == TypeInv /\ StageInv /\ [Next]_vars => StageInv'
<1> SUFFICES ASSUME TypeInv, StageInv, [Next]_vars PROVE StageInv'
  OBVIOUS
<1> USE WorksFact DEF TypeInv, TypeOK, StageInv
<1>1. CASE PowerOn
  BY <1>1 DEF PowerOn, None
<1>2. CASE Boot
  BY <1>2 DEF Boot, StartDrop
<1>3. CASE Drop
  BY <1>3 DEF Drop
<1>4. CASE Stage
  BY <1>4, OrderFact DEF Stage, Refused, StartDrop, Staged, None, Versions
<1>5. CASE Tryboot
  BY <1>5 DEF Tryboot, Dark, StartDrop
<1>6. CASE Tick
  BY <1>6 DEF Tick, StartDrop
<1>7. CASE Commit
  BY <1>7 DEF Commit, StartDrop
<1>8. CASE PowerCut
  BY <1>8 DEF PowerCut, Dark
<1>9. CASE Damage
  BY <1>9 DEF Damage, ram, Staged
<1>10. CASE Check
  BY <1>10 DEF Check, Newer
<1>11. CASE Install
  BY <1>11 DEF Install, Bad, None, Versions
<1>12. CASE UNCHANGED vars
  BY <1>12 DEF vars, ram
<1> QED BY <1>1, <1>2, <1>3, <1>4, <1>5, <1>6, <1>7, <1>8, <1>9, <1>10, <1>11, <1>12
        DEF Next, System

LEMMA AloneStep == TypeInv /\ StageInv /\ AloneInv /\ [Next]_vars => AloneInv'
<1> SUFFICES ASSUME TypeInv, StageInv, AloneInv, [Next]_vars, ~overlap' PROVE AloneInv'
  BY DEF AloneInv
<1> USE WorksFact DEF TypeInv, TypeOK, StageInv, AloneInv
<1>1. CASE PowerOn
  BY <1>1 DEF PowerOn, Kernel, Versions
<1>2. CASE Boot
  BY <1>2 DEF Boot, Drops, StartDrop
<1>3. CASE Drop
  BY <1>3, OrderFact DEF Drop, LastDrop, Staged
<1>4. CASE Stage
  BY <1>4, OrderFact DEF Stage, Refused, StartDrop, Staged
<1>5. CASE Tryboot
  <2>1. card["ver"] = latest /\ latest > run /\ ~settle
    BY <1>5 DEF Tryboot, None, Versions
  <2>2. ~overlap => card["ver"] > img
    BY <1>5, <2>1 DEF Tryboot, Versions
  <2>3. CASE Dark /\ flag' = TRUE
    BY <1>5, <2>2, <2>3, DarkFact DEF Tryboot
  <2>4. CASE StartDrop /\ UNCHANGED <<flag, run, latest, config, settle, tries, buf>>
    BY <1>5, <2>1, <2>4 DEF Tryboot, StartDrop
  <2> QED BY <1>5, <2>3, <2>4 DEF Tryboot
<1>6. CASE Tick
  BY <1>6 DEF Tick, Good, StartDrop, Versions, None, Bad
<1>7. CASE Commit
  BY <1>7 DEF Commit, Kept, StartDrop, Versions
<1>8. CASE PowerCut
  BY <1>8, DarkFact DEF PowerCut
<1>9. CASE Damage
  BY <1>9 DEF Damage, ram, Staged
<1>10. CASE Check
  BY <1>10 DEF Check
<1>11. CASE Install
  BY <1>11 DEF Install
<1>12. CASE UNCHANGED vars
  BY <1>12 DEF vars, ram
<1> QED BY <1>1, <1>2, <1>3, <1>4, <1>5, <1>6, <1>7, <1>8, <1>9, <1>10, <1>11, <1>12
        DEF Next, System

LEMMA UpdateInvariant == Spec => [](TypeInv /\ StageInv /\ AloneInv)
<1>1. Init => StageInv /\ AloneInv
  BY UpdateAssumption, WorksFact DEF UpdateAssumption, Init, StageInv, AloneInv, Staged
<1> QED BY <1>1, TypeKept, StageStep, AloneStep, PTL DEF Spec

(* However the power goes and whatever the card refuses or loses,          *)
(* KERNEL8.IMG stays a kernel that works, as long as no install is begun   *)
(* over another (update_tick, update_install).                             *)
THEOREM ImageStaysGood == Spec => []ImageWorksAlone
<1>1. AloneInv => ImageWorksAlone
  BY DEF AloneInv, ImageWorksAlone
<1> QED BY <1>1, UpdateInvariant, PTL

(* The firmware is only asked to try a kernel whose four files are there,  *)
(* and UPDATE.VER names it (update_install).                               *)
THEOREM TrialIsNamed == Spec => []TrialNamed
<1>1. StageInv /\ AloneInv => TrialNamed
  BY DEF StageInv, AloneInv, TrialNamed
<1> QED BY <1>1, UpdateInvariant, PTL

(* KERNEL8.IMG never goes back to an older release (update_check's newer,  *)
(* update_tick).                                                           *)
THEOREM NeverGoesBack == Spec => NeverBack
<1>1. TypeInv /\ StageInv /\ AloneInv /\ [Next]_vars => [~overlap => img' >= img]_vars
  <2> SUFFICES ASSUME TypeInv, AloneInv, [Next]_vars, ~overlap PROVE img' >= img
    OBVIOUS
  <2>1. img \in Int /\ img >= img
    BY DEF TypeInv, TypeOK, Versions
  <2>2. CASE Commit
    BY <2>2, <2>1 DEF Commit, Kept, AloneInv
  <2>3. CASE ~Commit
    <3>1. img' = img
      BY <2>3 DEF Next, System, PowerOn, Boot, Drop, Stage, Tryboot, Tick, PowerCut, Damage,
                  Check, Install, vars
    <3> QED BY <3>1, <2>1
  <2> QED BY <2>2, <2>3
<1> QED BY <1>1, UpdateInvariant, PTL DEF Spec, NeverBack

-----------------------------------------------------------------------------
(* The marker. *)

LEMMA MarkerStep == TypeInv /\ MarkerGone /\ [Next]_vars => MarkerGone'
<1> SUFFICES ASSUME TypeInv, MarkerGone, [Next]_vars, faults' = 0 PROVE MarkerGone'
  BY DEF MarkerGone
<1>0. faults \in Nat /\ ~Fault
  BY DEF TypeInv, TypeOK, Fault
<1> USE <1>0 DEF MarkerGone
<1>1. CASE PowerOn
  BY <1>1 DEF PowerOn
<1>2. CASE Boot
  BY <1>2 DEF Boot, Drops, StartDrop, NoFault
<1>3. CASE Drop
  BY <1>3, OrderFact DEF Drop, LastDrop, Staged, TypeInv, TypeOK, NoFault
<1>4. CASE Stage
  BY <1>4 DEF Stage
<1>5. CASE Tryboot
  BY <1>5 DEF Tryboot, Dark, StartDrop
<1>6. CASE Tick
  BY <1>6 DEF Tick, StartDrop, NoFault
<1>7. CASE Commit
  BY <1>7 DEF Commit, StartDrop, NoFault
<1>8. CASE PowerCut
  BY <1>8 DEF PowerCut, Dark
<1>9. CASE Damage
  BY <1>9 DEF Damage
<1>10. CASE Check
  BY <1>10 DEF Check
<1>11. CASE Install
  BY <1>11 DEF Install
<1>12. CASE UNCHANGED vars
  BY <1>12 DEF vars, ram
<1> QED BY <1>1, <1>2, <1>3, <1>4, <1>5, <1>6, <1>7, <1>8, <1>9, <1>10, <1>11, <1>12
        DEF Next, System

(* A kernel in its poll loop that is not on trial finds no UPDATE.VER, cut *)
(* commits and cut drops included, on a card that works (update_boot,      *)
(* drop_staged).                                                           *)
THEOREM NoMarkerLeft == Spec => []MarkerGone
<1>1. Init => MarkerGone
  BY DEF Init, MarkerGone
<1> QED BY <1>1, TypeKept, MarkerStep, PTL DEF Spec
=============================================================================
