------------------------------- MODULE Update -------------------------------
(***************************************************************************)
(* Self-update of the ARM64 port (arch/arm64/update.c): a signed kernel is *)
(* staged beside the one that works, the firmware boots it once (tryboot), *)
(* and it becomes KERNEL8.IMG when it has run for a while.                 *)
(*                                                                         *)
(* The kernel is one poll loop, so nothing runs between the steps of a     *)
(* call; but the power can go between any two calls to the FAT driver, and *)
(* the driver may refuse any of them.  A FAT call is atomic under a power  *)
(* cut (FatFs).  Of a file only its version is kept, or that it no longer  *)
(* reads back as it was written.  The board's firmware is modelled as far  *)
(* as update.c relies on it.                                               *)
(***************************************************************************)
EXTENDS Integers, Sequences

CONSTANTS
  MaxVersion,  \* releases 1..MaxVersion, the card is flashed with 1
  Works,       \* the releases whose kernel reaches its poll loop
  Retries,     \* reads of KERNEL8.NEW before it is given up: 5
  MaxCuts,     \* bound: power cuts and restarts
  MaxFaults    \* bound: refused writes and deletes, failed reads, damaged files

Versions == 1..MaxVersion
None == 0
Bad == -1          \* a file that does not read back as it was written

ASSUME UpdateAssumption ==
  /\ MaxVersion \in Nat \ {0} /\ Works \subseteq Versions /\ 1 \in Works
  /\ Retries \in Nat \ {0} /\ MaxCuts \in Nat /\ MaxFaults \in Nat

(* KERNEL8.NEW, KERNEL8.SIG, TRYBOOT.TXT, JT/UPDATE.VER: written, and      *)
(* later deleted, in this order.                                           *)
Order == <<"new", "sig", "try", "ver">>
Staged == {"new", "sig", "try", "ver"}

VARIABLES
  img,      \* the version in KERNEL8.IMG
  card,     \* card[f]: the version in staged file f; TRYBOOT.TXT: Bad if not all of config.txt
  flag,     \* the firmware's tryboot flag
  pc,       \* where the kernel is
  step,     \* the file it writes or deletes next, as an index of Order
  run,      \* the version that runs
  latest,   \* the version `update` offered
  config,   \* what is to go into TRYBOOT.TXT
  settle,   \* this boot is the staged version, kept once it has run a while
  tries, buf,          \* update_tick's tries and what it read from KERNEL8.NEW
  cuts, faults,        \* bounded environment
  overlap   \* history: an install began while another was still on the card

ram == <<pc, step, run, latest, config, settle, tries, buf>>
vars == <<img, card, flag, ram, cuts, faults, overlap>>

Fault == faults < MaxFaults /\ faults' = faults + 1
NoFault == faults' = faults
Up == pc \notin {"off", "hung"}
-----------------------------------------------------------------------------
(* The board. *)

(* The next boot alone reads TRYBOOT.TXT; any other reads config.txt.      *)
Kernel == IF flag /\ card["try"] # None THEN card["new"] ELSE img
PowerOn ==
  /\ pc = "off"
  /\ run' = Kernel
  /\ pc' = IF Kernel \in Works THEN "boot" ELSE "hung"
  /\ flag' = FALSE
  /\ UNCHANGED <<img, card, step, latest, config, settle, tries, buf, cuts, faults, overlap>>

Dark == /\ pc' = "off" /\ step' = 1 /\ run' = None /\ latest' = None /\ config' = None
        /\ settle' = FALSE /\ tries' = 0 /\ buf' = None
(* The plug is pulled, or a kernel that hangs is switched off.             *)
PowerCut ==
  /\ pc # "off"
  /\ \/ pc = "hung" /\ UNCHANGED cuts
     \/ pc # "hung" /\ cuts < MaxCuts /\ cuts' = cuts + 1
  /\ Dark /\ flag' = FALSE
  /\ UNCHANGED <<img, card, faults, overlap>>

(* KERNEL8.NEW goes bad on the card. *)
Damage ==
  /\ card["new"] \in Versions /\ Fault
  /\ card' = [card EXCEPT !["new"] = Bad]
  /\ UNCHANGED <<img, flag, ram, cuts, overlap>>
-----------------------------------------------------------------------------
(* drop_staged: each file in turn, whether or not the one before went.     *)
StartDrop == pc' = "drop" /\ step' = 1
LastDrop_Mut == 3      \* mutated: UPDATE.VER left on the card
LastDrop == 4
Drop ==
  /\ pc = "drop"
  /\ \/ NoFault /\ card' = [card EXCEPT ![Order[step]] = None]
     \/ Fault /\ card[Order[step]] # None /\ UNCHANGED card
  /\ IF step < LastDrop THEN step' = step + 1 /\ UNCHANGED pc
                        ELSE step' = 1 /\ pc' = "idle"
  /\ UNCHANGED <<img, flag, run, latest, config, settle, tries, buf, cuts, overlap>>

(* update_boot: is an update staged, and is this it?  A marker that cannot *)
(* be read counts as none, one read in part as another's.                  *)
Drops_Mut(v) == FALSE      \* mutated: an update that did not start stays
Drops(v) == v \notin {None, run}
Boot ==
  /\ pc = "boot"
  /\ \E v \in {card["ver"], None, Bad} :
       /\ IF v = card["ver"] THEN NoFault ELSE Fault
       /\ settle' = (v = run) /\ tries' = 0
       /\ IF Drops(v) THEN StartDrop ELSE pc' = "idle" /\ step' = 1
  /\ UNCHANGED <<img, card, flag, run, latest, config, buf, cuts, overlap>>
-----------------------------------------------------------------------------
(* update_check: the server names a release, which is offered if it is     *)
(* newer and its signature is up.                                          *)
Newer_Mut(v, w) == v # w      \* mutated: any other version
Newer(v, w) == v > w
Check ==
  /\ pc = "idle"
  /\ latest' \in {None} \cup {v \in Versions : Newer(v, run)}
  /\ UNCHANGED <<img, card, flag, pc, step, run, config, settle, tries, buf, cuts, faults, overlap>>

(* update_install, up to the first write: what does not carry its          *)
(* signature changes nothing.  CONFIG.TXT is read: a sector that fails     *)
(* gives a short count, which is taken for the whole.                      *)
Install ==
  /\ pc = "idle" /\ latest # None
  /\ \/ NoFault /\ config' = latest
     \/ Fault /\ config' = Bad
  /\ pc' = "stage" /\ step' = 1
  /\ overlap' = (overlap \/ card["ver"] # None)
  /\ UNCHANGED <<img, card, flag, run, latest, settle, tries, buf, cuts>>

(* The four files.  The first that the card refuses undoes them all.       *)
Refused_Mut == IF step < 4 THEN pc' = pc /\ step' = step + 1 ELSE pc' = "restart" /\ step' = 1      \* mutated: the answers not looked at
Refused == StartDrop
Stage ==
  /\ pc = "stage"
  /\ \/ /\ NoFault
        /\ card' = [card EXCEPT ![Order[step]] = IF step = 3 THEN config ELSE latest]
        /\ IF step < 4 THEN step' = step + 1 /\ UNCHANGED pc
                       ELSE step' = 1 /\ pc' = "restart"
     \/ Fault /\ Refused /\ UNCHANGED card
  /\ UNCHANGED <<img, flag, run, latest, config, settle, tries, buf, cuts, overlap>>

(* power_restart_tryboot.  Without the flag there is no restart.           *)
Tryboot ==
  /\ pc = "restart"
  /\ \/ Dark /\ flag' = TRUE
     \/ StartDrop /\ UNCHANGED <<flag, run, latest, config, settle, tries, buf>>
  /\ UNCHANGED <<img, card, cuts, faults, overlap>>
-----------------------------------------------------------------------------
(* update_tick, once the time has come: KERNEL8.NEW and its signature are  *)
(* read again; what does not read back whole is tried again in a minute.   *)
Good_Mut == card["new"] # None      \* mutated: appsig_ok not asked
Good == card["new"] \in Versions /\ card["sig"] = card["new"]
MoreTries_Mut == TRUE      \* mutated: no limit
MoreTries == tries + 1 < Retries
Tick ==
  /\ pc = "idle" /\ settle
  /\ \/ /\ Good /\ NoFault
        /\ buf' = card["new"] /\ pc' = "commit" /\ settle' = FALSE
        /\ UNCHANGED <<step, tries>>
     \/ /\ IF Good THEN Fault ELSE NoFault
        /\ tries' = tries + 1
        /\ settle' = MoreTries
        /\ IF MoreTries THEN UNCHANGED <<pc, step>> ELSE StartDrop
        /\ UNCHANGED buf
  /\ UNCHANGED <<img, card, flag, run, latest, config, cuts, overlap>>

Kept_Mut == img      \* mutated: the staged files dropped without the copy
Kept == buf
Commit ==
  /\ pc = "commit"
  /\ \/ NoFault /\ img' = Kept /\ StartDrop
     \/ Fault /\ pc' = "idle" /\ UNCHANGED <<img, step>>
  /\ buf' = None
  /\ UNCHANGED <<card, flag, run, latest, config, settle, tries, cuts, overlap>>
-----------------------------------------------------------------------------
Init ==
  /\ img = 1 /\ card = [f \in Staged |-> None] /\ flag = FALSE
  /\ pc = "off" /\ step = 1 /\ run = None /\ latest = None /\ config = None
  /\ settle = FALSE /\ tries = 0 /\ buf = None
  /\ cuts = 0 /\ faults = 0 /\ overlap = FALSE

System == PowerOn \/ Boot \/ Drop \/ Stage \/ Tryboot \/ Tick \/ Commit
Next == System \/ PowerCut \/ Damage \/ Check \/ Install

Spec == Init /\ [][Next]_vars

(* The poll loop and the calls go on while there is power; a machine that  *)
(* is off or hangs is switched on again by whoever uses it.                *)
FairSpec ==
  /\ Spec
  /\ WF_vars(System)
  /\ WF_vars(pc = "hung" /\ PowerCut)
-----------------------------------------------------------------------------
(* Correctness. *)

(* Every variable stays in its range. *)
TypeOK ==
  /\ img \in Versions
  /\ card \in [Staged -> Versions \cup {None, Bad}]
  /\ flag \in BOOLEAN /\ settle \in BOOLEAN /\ overlap \in BOOLEAN
  /\ pc \in {"off", "hung", "boot", "idle", "stage", "restart", "drop", "commit"}
  /\ step \in 1..4
  /\ run \in Versions \cup {None, Bad}
  /\ latest \in Versions \cup {None}
  /\ config \in Versions \cup {None, Bad}
  /\ tries \in 0..Retries
  /\ buf \in Versions \cup {None}
  /\ cuts \in 0..MaxCuts /\ faults \in 0..MaxFaults

(* KERNEL8.IMG is only ever a kernel that works, whatever is cut, refused  *)
(* or damaged: "only then makes it KERNEL8.IMG" (update.c:11-12).          *)
ImageWorks == img \in Works

(* The same as long as no install is begun over one still on the card,     *)
(* which is what the code does keep.                                       *)
ImageWorksAlone == ~overlap => img \in Works

(* The flag is only set for a whole staging: the kernel the firmware tries *)
(* is the one UPDATE.VER names, so that whichever kernel comes up next     *)
(* knows whether it is on trial.                                           *)
TrialNamed ==
  flag => /\ card["try"] # None
          /\ card["new"] \in {card["ver"], Bad} /\ card["sig"] = card["ver"]
          /\ card["ver"] \in Versions /\ (~overlap => card["ver"] > img)

(* A kernel in its poll loop that is not on trial finds no UPDATE.VER, cut *)
(* commits and cut drops included: no later boot mistakes an old marker    *)
(* for its own (unless the card refused something).                        *)
MarkerGone == pc = "idle" /\ ~settle /\ faults = 0 => card["ver"] = None

(* KERNEL8.IMG never goes back to an older release. *)
NeverBack == [][~overlap => img' >= img]_vars

(* An update that was staged is decided, kept or dropped, however often    *)
(* the power goes (unless the card refused something, or KERNEL8.IMG       *)
(* itself no longer works).                                                *)
UpdateEnds == (card["ver"] # None) ~> (card["ver"] = None \/ faults > 0 \/ img \notin Works)

(* A kernel on trial that goes on running, on a card that works, with no   *)
(* other install in between, becomes KERNEL8.IMG.                          *)
TrialKept ==
  \A v \in Versions :
    (settle /\ run = v) ~> (img = v \/ pc = "off" \/ faults > 0 \/ overlap)
=============================================================================
