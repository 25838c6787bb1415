----------------------------- MODULE IrisPower ------------------------------
(***************************************************************************)
(* The power of the VPU, one call at a time: iris_vpu_power_on() and       *)
(* iris_vpu_power_off() with every unwind path, the OPP and interconnect   *)
(* votes of the sessions, and the enable depth of the interrupt line.      *)
(*                                                                         *)
(* A power sequence runs under core->lock, and so does the summing of the  *)
(* votes; the hard interrupt handler takes no lock and may run between any *)
(* two calls.  IrisCore has the whole sequence as one step.                *)
(***************************************************************************)
EXTENDS Integers, FiniteSets, Sequences, SequencesExt, FiniteSetsExt

CONSTANTS
  Platforms,  \* "sm8150" (deferred vcodec power), "sm8250" and "sm8650"
  Sessions,   \* decoder sessions that vote
  CanFail,    \* <<platform, call>> pairs that may fail
  Answers,    \* whether the register polls of sm8650's power-off succeed
  MaxFails,   \* bound on the failures of one behaviour
  MaxCycles,  \* bound on the power-ons of one behaviour
  MaxIrqs,    \* bound on the interrupts of one behaviour
  MaxOpp,     \* the highest OPP; 1 is the lowest, 0 no vote
  MaxBw,      \* bw_max of the "video-mem" path; 1 is bw_min, 0 no vote
  Threshold,  \* BW_THRESHOLD
  Freqs,      \* what calc_freq() may ask for
  Bws,        \* what iris_calc_bw() may ask for
  Careless    \* the power may be cycled under the thread of a watchdog, and
              \* sessions open before the boot has dropped the OPP

Domains == {"ctrl_pd", "hw_pd", "aux_pd"}
Clocks  == {"bus", "axi", "ctrl", "hw_axi", "aux_axi", "hw", "aux_hw"}
Refs    == Domains \cup Clocks

(* The call that gives a reference back.                                   *)
Put == [ctrl_pd |-> "-ctrl_pd", hw_pd |-> "-hw_pd", aux_pd |-> "-aux_pd",
        bus |-> "-bus", axi |-> "-axi", ctrl |-> "-ctrl", hw |-> "-hw",
        hw_axi |-> "-hw_axi", aux_axi |-> "-aux_axi", aux_hw |-> "-aux_hw"]

ASSUME PowerAssumption ==
  /\ Platforms \subseteq {"sm8150", "sm8250", "sm8650"}
  /\ {MaxFails, MaxCycles, MaxIrqs} \subseteq Nat
  /\ MaxOpp \in Nat \ {0} /\ MaxBw \in Nat \ {0} /\ Threshold \in Nat \ {0}
  /\ Freqs \subseteq Nat \ {0} /\ Bws \subseteq Nat
  /\ Careless \in BOOLEAN /\ Answers \subseteq BOOLEAN
  /\ IsFiniteSet(Sessions)

VARIABLES
  plat,    \* core->iris_platform_data
  todo,    \* calls left of the power sequence that holds core->lock
  vpu,     \* powered = vpu_powered; ok: the last power-on returned 0; phase
  held,    \* references held on the genpds and the clocks
  vote,    \* opp, icc: the votes cast; clk_freq, icc_bw: core->power;
           \* missed: votes lost to a failure (for the properties only)
  inst,    \* per session: opened, data, freq, bw and where it is in voting
  irq,     \* depth, sources asserted, intr_status, the handlers, idle_opp
  budget   \* failures, power-ons and interrupts so far

vars == <<plat, todo, vpu, held, vote, inst, irq, budget>>

LockFree == vpu.phase = "rest"

-----------------------------------------------------------------------------
(* The sequences.  A name is a call that takes, "-name" one that gives     *)
(* back; "max", "rate" and "rate0" are dev_pm_opp_set_rate() with the      *)
(* highest rate, the cached one and 0.                                     *)

PowerOnSeq(p) ==
  IF p = "sm8150"
  THEN <<"icc", "ctrl_pd", "reset", "bus", "axi", "ctrl", "rate",
         "hw_pd", "aux_pd", "hw_axi", "aux_axi", "hw", "aux_hw">>
  ELSE <<"icc", "max_ctrl", "ctrl_pd", "reset", "axi", "ctrl",
         "max_hw", "hw_pd", "hw", "hwmode", "rate">>

(* Mutant of PowerOffHw: the domain goes before the clocks it feeds.       *)
PowerOffHwDomainFirst(p) ==
  IF p = "sm8150"
  THEN <<"-aux_pd", "-hw_pd", "-aux_hw", "-hw", "-aux_axi", "-hw_axi">>
  ELSE <<"-hwmode", "rate0", "-hw_pd", "-hw">>

PowerOffHw(p) ==
  IF p = "sm8150"
  THEN <<"-aux_hw", "-hw", "-aux_axi", "-hw_axi", "-aux_pd", "-hw_pd">>
  ELSE <<"-hwmode", "-hw", "rate0", "-hw_pd">>

PowerOffController(p) ==
  IF p = "sm8150" THEN <<"-ctrl", "-axi", "-bus", "-ctrl_pd">>
                  ELSE <<"-ctrl", "-axi", "rate0", "-ctrl_pd">>

(* A register poll that times out skips the controller clock.              *)
Vpu33PowerOffController(answered) ==
  (IF answered THEN <<"-ctrl">> ELSE <<>>) \o <<"rate0", "-ctrl_pd", "-axi">>

PowerOffSeq(p, answered) ==
  <<"rate0">> \o PowerOffHw(p)
  \o (IF p = "sm8650" THEN Vpu33PowerOffController(answered)
                      ELSE PowerOffController(p))
  \o <<"-icc">>

(* What a failed call of the power-on goes to.  The labels of              *)
(* iris_vpu_power_on_hw(), of iris_vpu_power_on_controller() and of        *)
(* iris_vpu_power_on() fall through from one to the next.                  *)
UndoHw(p, f) ==
  IF p = "sm8150"
  THEN CASE f = "aux_hw"  -> PowerOffHw(p)
         [] f = "hw"      -> <<"-aux_axi", "-hw_axi", "-aux_pd", "-hw_pd">>
         [] f = "aux_axi" -> <<"-hw_axi", "-aux_pd", "-hw_pd">>
         [] f = "hw_axi"  -> <<"-aux_pd", "-hw_pd">>
         [] f = "aux_pd"  -> <<"-hw_pd">>
         [] OTHER         -> <<>>
  ELSE CASE f = "hwmode"  -> <<"-hw", "rate0", "-hw_pd">>
         [] f = "hw"      -> <<"rate0", "-hw_pd">>
         [] OTHER         -> <<>>

HwCalls(p) == IF p = "sm8150"
              THEN {"hw_pd", "aux_pd", "hw_axi", "aux_axi", "hw", "aux_hw"}
              ELSE {"max_hw", "hw_pd", "hw", "hwmode"}

UndoController(p, f) ==
  LET bus == IF p = "sm8150" THEN <<"-bus">> ELSE <<>>
      pd  == IF p = "sm8150" THEN <<"-ctrl_pd">> ELSE <<"rate0", "-ctrl_pd">>
  IN CASE f = "ctrl"             -> <<"-axi">> \o bus \o pd
       [] f = "axi"              -> bus \o pd
       [] f \in {"bus", "reset"} -> pd
       [] OTHER                  -> <<>>

(* Mutant of Undo: a failure behind the controller leaves its clocks.      *)
UndoNoController(p, f) ==
  CASE f = "icc" -> <<>>
    [] f \in HwCalls(p) \cup {"rate"} -> UndoHw(p, f) \o <<"-icc">>
    [] OTHER -> UndoController(p, f) \o <<"-icc">>

(* err_clear_opp exists where the OPP is raised before the codec domain.   *)
(* Both failure paths use the common controller sequence, sm8650 too.      *)
Undo(p, f) ==
  CASE f = "icc"  -> <<>>
    [] f = "rate" -> PowerOffController(p) \o <<"-icc">>
    [] f \in HwCalls(p) ->
         UndoHw(p, f) \o (IF p = "sm8150" THEN <<"rate0">> ELSE <<>>)
                      \o PowerOffController(p) \o <<"-icc">>
    [] OTHER -> UndoController(p, f) \o <<"-icc">>

-----------------------------------------------------------------------------
(* The votes.                                                              *)

Least(a, b) == IF a < b THEN a ELSE b
Clamp(x)    == IF x < 1 THEN 1 ELSE Least(x, MaxBw)
Distance(a, b) == IF a > b THEN a - b ELSE b - a

(* Mutant of OppSetRate: the sum of the votes goes out as it is.           *)
OppSetRateAsAsked(v, rate) == [v EXCEPT !.opp = rate]

(* dev_pm_opp_set_rate(): the clock framework rounds to the highest rate.  *)
OppSetRate(v, rate) == [v EXCEPT !.opp = Least(rate, MaxOpp)]

(* iris_set_icc_bw(): a change below the threshold is not worth a vote.    *)
SetIccBw(v, bw) ==
  IF v.icc_bw # 0 /\ Distance(Clamp(bw), v.icc_bw) < Threshold THEN v
  ELSE [v EXCEPT !.icc = Clamp(bw), !.icc_bw = Clamp(bw)]

UnsetIccBw(v) == [v EXCEPT !.icc = 0, !.icc_bw = 0]

(* Mutant of RestoredRate: the VPU comes back at the highest OPP.          *)
RestoredRateMax(v) == MaxOpp

(* iris_vpu_power_on(): the rate of before the power-off.                  *)
RestoredRate(v) == IF v.clk_freq = 0 THEN MaxOpp ELSE v.clk_freq

(* Mutant of Total: a session sums the others only.                        *)
TotalOthers(i) ==
  SumFunctionOnSet([x \in Sessions |-> i[x].freq],
                   {x \in Sessions : i[x].opened /\ i[x].data # 0 /\ i[x].at = "idle"})

(* The sessions that have queued input.                                    *)
Served(i) == {x \in Sessions : i[x].opened /\ i[x].data # 0}

Total(i)   == SumFunctionOnSet([x \in Sessions |-> i[x].freq], Served(i))
TotalBw(i) == SumFunctionOnSet([x \in Sessions |-> i[x].bw], Served(i))

(* iris_set_clocks(): nothing to serve asks for the lowest OPP, and the    *)
(* rate already set is not set again.                                      *)
WantedRate(i) == IF Total(i) = 0 THEN 1 ELSE Total(i)

SetClocks(v, rate) ==
  IF rate = v.clk_freq THEN v
  ELSE [OppSetRate(v, rate) EXCEPT !.clk_freq = rate]

-----------------------------------------------------------------------------
Fresh == [opened |-> FALSE, data |-> 0, freq |-> 0, bw |-> 0, at |-> "idle"]

Init ==
  /\ plat \in Platforms
  /\ todo = <<>>
  /\ vpu = [powered |-> FALSE, ok |-> FALSE, phase |-> "rest"]
  /\ held = [r \in Refs |-> 0]
  /\ vote = [opp |-> 0, icc |-> 0, clk_freq |-> 0, icc_bw |-> 0, missed |-> {}]
  /\ inst = [x \in Sessions |-> Fresh]
  /\ irq = [depth |-> 1, pend |-> {}, status |-> {}, thread |-> "idle", idle_opp |-> FALSE]
  /\ budget = [fails |-> 0, cycles |-> 0, irqs |-> 0]

(* iris_vpu_power_on(), from the boot of the core or from a resume: only   *)
(* the boot drops the OPP when the firmware has answered.                  *)
PowerOn(boot) ==
  /\ LockFree /\ ~vpu.ok
  /\ Careless \/ irq.thread # "handling" \/ "watchdog" \notin irq.status
  /\ budget.cycles < MaxCycles
  /\ budget' = [budget EXCEPT !.cycles = @ + 1]
  /\ vpu' = [powered |-> TRUE, ok |-> FALSE, phase |-> "on"]
  /\ todo' = PowerOnSeq(plat)
  /\ irq' = [irq EXCEPT !.idle_opp = boot]
  /\ UNCHANGED <<plat, held, vote, inst>>

(* iris_vpu_power_off(): its callers find no session on core->instances,   *)
(* and core->lock is not free before set_idle_opp() has had its turn.      *)
PowerOff ==
  /\ LockFree /\ vpu.ok /\ vpu.powered
  /\ \A x \in Sessions : ~inst[x].opened /\ inst[x].at = "idle"
  /\ Careless \/ ~irq.idle_opp
  /\ vpu' = [powered |-> FALSE, ok |-> FALSE, phase |-> "off"]
  /\ \E answered \in Answers : todo' = PowerOffSeq(plat, answered)
  /\ irq' = [irq EXCEPT !.idle_opp = FALSE]
  /\ UNCHANGED <<plat, held, vote, inst, budget>>

(* What one call does when it succeeds.                                    *)
Reference(op) ==
  held' = [r \in Refs |-> CASE op = r      -> held[r] + 1
                            [] op = Put[r] -> held[r] - 1
                            [] OTHER       -> held[r]]

VoteOf(op) ==
  CASE op \in {"max_ctrl", "max_hw"} -> OppSetRate(vote, MaxOpp)
    [] op = "rate"  -> OppSetRate(vote, RestoredRate(vote))
    [] op = "rate0" -> OppSetRate(vote, 0)
    [] op = "icc"   -> SetIccBw(vote, MaxBw)
    [] op = "-icc"  -> UnsetIccBw(vote)
    [] OTHER        -> vote

Call ==
  /\ todo # <<>>
  /\ Reference(Head(todo))
  /\ vote' = VoteOf(Head(todo))
  /\ todo' = Tail(todo)
  /\ irq' = IF Head(todo) = "-ctrl" THEN [irq EXCEPT !.pend = {}] ELSE irq
  /\ UNCHANGED <<plat, vpu, inst, budget>>

(* pm_runtime_get_sync() keeps its reference when it fails.                *)
GetSync(p, op) == op = "ctrl_pd" \/ (op = "hw_pd" /\ p # "sm8150")

CallFails ==
  /\ vpu.phase = "on" /\ todo # <<>>
  /\ <<plat, Head(todo)>> \in CanFail
  /\ budget.fails < MaxFails
  /\ budget' = [budget EXCEPT !.fails = @ + 1]
  /\ held' = IF GetSync(plat, Head(todo)) THEN [held EXCEPT ![Head(todo)] = @ + 1] ELSE held
  /\ todo' = Undo(plat, Head(todo))
  /\ vpu' = [vpu EXCEPT !.phase = "undo"]
  /\ UNCHANGED <<plat, vote, inst, irq>>

(* The end of a power-on: the registers are set, intr_status is cleared    *)
(* and the line enabled.                                                   *)
PoweredOn ==
  /\ vpu.phase = "on" /\ todo = <<>>
  /\ vpu' = [vpu EXCEPT !.ok = TRUE, !.phase = "rest"]
  /\ irq' = [irq EXCEPT !.status = {}, !.depth = @ - 1]
  /\ UNCHANGED <<plat, todo, held, vote, inst, budget>>

PowerOnFailed ==
  /\ vpu.phase = "undo" /\ todo = <<>>
  /\ vpu' = [vpu EXCEPT !.phase = "rest"]
  /\ irq' = [irq EXCEPT !.idle_opp = FALSE]
  /\ UNCHANGED <<plat, todo, held, vote, inst, budget>>

(* Mutant of DisableIrq: the watchdog is not looked at.                    *)
DisableIrqAlways(i) == [i EXCEPT !.depth = @ + 1]

(* A watchdog has left the line disabled: its thread does not enable it.   *)
DisableIrq(i) ==
  IF "watchdog" \in i.status THEN i ELSE [i EXCEPT !.depth = @ + 1]

PoweredOff ==
  /\ vpu.phase = "off" /\ todo = <<>>
  /\ vpu' = [vpu EXCEPT !.phase = "rest"]
  /\ irq' = DisableIrq(irq)
  /\ UNCHANGED <<plat, todo, held, vote, inst, budget>>

-----------------------------------------------------------------------------
(* Interrupts.  The firmware raises them while its clock runs; SM8150      *)
(* masks the watchdog.                                                     *)
Raise ==
  /\ vpu.phase \in {"rest", "off"} /\ held["ctrl"] = 1
  /\ budget.irqs < MaxIrqs
  /\ budget' = [budget EXCEPT !.irqs = @ + 1]
  /\ \E src \in IF plat = "sm8150" THEN {"message"} ELSE {"message", "watchdog"} :
       irq' = [irq EXCEPT !.pend = @ \cup {src}]
  /\ UNCHANGED <<plat, todo, vpu, held, vote, inst>>

(* iris_vpu_clear_interrupt()                                              *)
ClearInterrupt(i) == [i EXCEPT !.status = @ \cup i.pend, !.pend = {}]

(* iris_hfi_isr(): the line is disabled, and SM8150 clears the source.     *)
Isr ==
  /\ irq.depth = 0 /\ irq.pend # {} /\ irq.thread = "idle"
  /\ LET i == [irq EXCEPT !.depth = @ + 1, !.thread = "woken"]
     IN irq' = IF plat = "sm8150" THEN ClearInterrupt(i) ELSE i
  /\ UNCHANGED <<plat, todo, vpu, held, vote, inst, budget>>

(* iris_hfi_isr_handler(), up to the end of its region under core->lock.   *)
IsrThread ==
  /\ irq.thread = "woken" /\ LockFree
  /\ LET i == [irq EXCEPT !.thread = "handling"]
     IN irq' = IF plat = "sm8150" THEN i ELSE ClearInterrupt(i)
  /\ UNCHANGED <<plat, todo, vpu, held, vote, inst, budget>>

(* The response handler, and the line again unless it was the watchdog.    *)
IsrThreadEnd ==
  /\ irq.thread = "handling"
  /\ irq' = [irq EXCEPT !.thread = "idle",
                        !.depth = IF "watchdog" \in irq.status THEN @ ELSE @ - 1]
  /\ UNCHANGED <<plat, todo, vpu, held, vote, inst, budget>>

-----------------------------------------------------------------------------
(* Votes.  A session changes its own figures under inst->lock, and votes   *)
(* for the sum under core->lock.                                           *)

(* iris_set_idle_opp(), after the boot, when core->lock is free again.     *)
SetIdleOpp ==
  /\ LockFree /\ vpu.ok /\ irq.idle_opp
  /\ irq' = [irq EXCEPT !.idle_opp = FALSE]
  /\ vote' = SetClocks(vote, 1)
  /\ UNCHANGED <<plat, todo, vpu, held, inst, budget>>

OpenSession(x) ==
  /\ LockFree /\ vpu.ok /\ ~inst[x].opened /\ inst[x].at = "idle"
  /\ Careless \/ ~irq.idle_opp
  /\ inst' = [inst EXCEPT ![x].opened = TRUE]
  /\ UNCHANGED <<plat, todo, vpu, held, vote, irq, budget>>

(* iris_scale_power(): without queued input the rate is left alone, and    *)
(* the session counts for nothing.                                         *)
ScalePower(x) ==
  /\ inst[x].opened /\ inst[x].at = "idle"
  /\ \/ \E f \in Freqs :
          inst' = [inst EXCEPT ![x].data = 1, ![x].freq = f, ![x].at = "clocks"]
     \/ \E b \in Bws :
          inst' = [inst EXCEPT ![x].data = 0, ![x].bw = b, ![x].at = "icc"]
  /\ UNCHANGED <<plat, todo, vpu, held, vote, irq, budget>>

VoteClocks(x) ==
  /\ LockFree /\ inst[x].at = "clocks"
  /\ vote' = [SetClocks(vote, WantedRate(inst)) EXCEPT !.missed = @ \ {"clocks"}]
  /\ \E b \in Bws : inst' = [inst EXCEPT ![x].bw = b, ![x].at = "icc"]
  /\ UNCHANGED <<plat, todo, vpu, held, irq, budget>>

(* dev_pm_opp_set_rate() fails: the callers ignore what iris_scale_power() *)
(* returns.                                                                *)
VoteClocksFails(x) ==
  /\ LockFree /\ inst[x].at = "clocks"
  /\ <<plat, "vote">> \in CanFail
  /\ WantedRate(inst) # vote.clk_freq
  /\ budget.fails < MaxFails
  /\ budget' = [budget EXCEPT !.fails = @ + 1]
  /\ inst' = [inst EXCEPT ![x].at = "idle"]
  /\ vote' = [vote EXCEPT !.missed = {"clocks", "icc"}]
  /\ UNCHANGED <<plat, todo, vpu, held, irq>>

VoteIcc(x) ==
  /\ LockFree /\ inst[x].at = "icc"
  /\ vote' = [SetIccBw(vote, TotalBw(inst)) EXCEPT !.missed = @ \ {"icc"}]
  /\ inst' = [inst EXCEPT ![x].at = "idle"]
  /\ UNCHANGED <<plat, todo, vpu, held, irq, budget>>

(* iris_session_close(): hfi_session_opened is cleared under core->lock,   *)
(* and iris_unvote_power() follows.                                        *)
CloseSession(x) ==
  /\ LockFree /\ inst[x].opened /\ inst[x].at = "idle"
  /\ inst' = [inst EXCEPT ![x] = [Fresh EXCEPT !.at = "unvote"]]
  /\ UNCHANGED <<plat, todo, vpu, held, vote, irq, budget>>

UnvoteClocks(x) ==
  /\ LockFree /\ inst[x].at = "unvote"
  /\ vote' = [SetClocks(vote, WantedRate(inst)) EXCEPT !.missed = @ \ {"clocks"}]
  /\ inst' = [inst EXCEPT ![x].at = "icc"]
  /\ UNCHANGED <<plat, todo, vpu, held, irq, budget>>

Next ==
  \/ \E boot \in BOOLEAN : PowerOn(boot)
  \/ PowerOff \/ Call \/ CallFails
  \/ PoweredOn \/ PowerOnFailed \/ PoweredOff
  \/ Raise \/ Isr \/ IsrThread \/ IsrThreadEnd
  \/ SetIdleOpp
  \/ \E x \in Sessions :
       \/ OpenSession(x) \/ ScalePower(x) \/ VoteClocks(x) \/ VoteClocksFails(x)
       \/ VoteIcc(x) \/ CloseSession(x) \/ UnvoteClocks(x)

Spec == Init /\ [][Next]_vars

-----------------------------------------------------------------------------
(* Properties.                                                             *)

Calls == Range(PowerOnSeq("sm8150")) \cup Range(PowerOnSeq("sm8250"))
         \cup {Put[r] : r \in Refs} \cup {"rate0", "-hwmode", "-icc"}

TypeOK ==
  /\ plat \in Platforms
  /\ todo \in Seq(Calls)
  /\ vpu \in [powered: BOOLEAN, ok: BOOLEAN, phase: {"rest", "on", "undo", "off"}]
  /\ held \in [Refs -> Int]
  /\ vote \in [opp: 0..MaxOpp, icc: 0..MaxBw, clk_freq: Nat, icc_bw: 0..MaxBw,
               missed: SUBSET {"clocks", "icc"}]
  /\ inst \in [Sessions -> [opened: BOOLEAN, data: {0, 1}, freq: Nat, bw: Nat,
                            at: {"idle", "clocks", "icc", "unvote"}]]
  /\ irq \in [depth: Int, pend: SUBSET {"message", "watchdog"},
              status: SUBSET {"message", "watchdog"},
              thread: {"idle", "woken", "handling"}, idle_opp: BOOLEAN]
  /\ budget \in [fails: 0..MaxFails, cycles: 0..MaxCycles, irqs: 0..MaxIrqs]

Needed(p) == Range(PowerOnSeq(p)) \cap Refs

(* Nothing is given back that is not held or taken twice, in whatever call *)
(* of the power-on a failure comes.  Between sequences the VPU has all it  *)
(* needs when the last power-on succeeded, and else holds no domain, no    *)
(* clock and no vote.                                                      *)
Balanced ==
  /\ \A r \in Refs : held[r] \in {0, 1}
  /\ LockFree =>
       /\ \A r \in Refs : held[r] = 1 <=> vpu.ok /\ r \in Needed(plat)
       /\ ~vpu.ok => vote.opp = 0 /\ vote.icc = 0

(* A clock runs only in a domain that is up, through every sequence and    *)
(* unwind; the codec domains are up only with the controller's, and come   *)
(* up only under an OPP vote.                                              *)
Ordered ==
  /\ held["ctrl"] > 0 => held["ctrl_pd"] > 0
  /\ held["hw"] > 0 \/ held["hw_axi"] > 0 => held["hw_pd"] > 0
  /\ held["aux_hw"] > 0 \/ held["aux_axi"] > 0 => held["aux_pd"] > 0
  /\ held["hw_pd"] > 0 \/ held["aux_pd"] > 0 => held["ctrl_pd"] > 0
  /\ vpu.phase = "on" /\ held["hw_pd"] > 0 => vote.opp > 0

(* The line is never enabled more often than disabled.  With no handler    *)
(* and no sequence under way it is enabled exactly when the VPU is on and  *)
(* its watchdog has not fired, whatever interrupt came during a power-off. *)
IrqBalanced ==
  /\ irq.depth >= 0
  /\ LockFree /\ irq.thread = "idle" =>
       irq.depth = IF vpu.ok /\ "watchdog" \notin irq.status THEN 0 ELSE 1

(* The votes the driver remembers are the votes cast: it skips a vote      *)
(* equal (or close) to the remembered one.                                 *)
CacheTrue ==
  LockFree =>
    /\ vote.icc = vote.icc_bw
    /\ vpu.ok => vote.opp = Least(RestoredRate(vote), MaxOpp)

(* Sessions at rest are served: the OPP covers the sum of what they asked  *)
(* for, and the interconnect vote is less than a threshold below theirs,   *)
(* while other sessions vote, close and open.                              *)
Settled == [x \in Sessions |-> IF inst[x].at = "idle" THEN inst[x] ELSE Fresh]

VotesCovered ==
  LockFree /\ vpu.ok =>
    /\ "clocks" \notin vote.missed => vote.opp >= Least(Total(Settled), MaxOpp)
    /\ "icc" \notin vote.missed => vote.icc + Threshold > Clamp(TotalBw(Settled))
=============================================================================
