--------------------------- MODULE IrisInstState ---------------------------
(***************************************************************************)
(* The state table of an instance (iris_state.c), without variables: an    *)
(* instance is a record i whose fields state and sub are inst->state and   *)
(* the set of bits of inst->sub_state.  A change of state is two           *)
(* operators: the record after the call, and whether the call returns 0.   *)
(***************************************************************************)
EXTENDS Naturals, FiniteSets

Planes == {"OUTPUT", "CAPTURE"}

States == {"DEINIT", "INIT", "INPUT_STREAMING", "OUTPUT_STREAMING",
           "STREAMING", "ERROR"}

SubStates == {"FIRST_IPSC", "DRC", "DRC_LAST", "DRAIN", "DRAIN_LAST",
              "INPUT_PAUSE", "OUTPUT_PAUSE", "LOAD_RESOURCES"}

-----------------------------------------------------------------------------
(* State.                                                                  *)

AllowState(from, to) ==
  CASE from = "INIT" -> to \in {"INPUT_STREAMING", "OUTPUT_STREAMING", "DEINIT"}
    [] from \in {"INPUT_STREAMING", "OUTPUT_STREAMING"} ->
         to \in {"INIT", "STREAMING", "DEINIT"}
    [] from = "STREAMING" -> to \in {"INPUT_STREAMING", "OUTPUT_STREAMING", "DEINIT"}
    [] from = "DEINIT" -> to = "INIT"
    [] OTHER -> FALSE

(* ERROR is never left, and every request that meets it reports success.   *)
ChangeStateOk(i, to) ==
  i.state \in {"ERROR", to} \/ to = "ERROR" \/ AllowState(i.state, to)

ChangeState(i, to) ==
  IF i.state # "ERROR" /\ ChangeStateOk(i, to)
  THEN [i EXCEPT !.state = to] ELSE i

Fail(i) == ChangeState(i, "ERROR")

(* Mutant of StreamonTarget: CAPTURE before OUTPUT changes nothing.        *)
StreamonTargetInputFirst(s, p) ==
  CASE s = "INIT" -> IF p = "OUTPUT" THEN "INPUT_STREAMING" ELSE "INIT"
    [] s \in {"INPUT_STREAMING", "OUTPUT_STREAMING"} -> "STREAMING"
    [] OTHER -> "ERROR"

(* The state a STREAMON or STREAMOFF of plane p leads to: ERROR, not       *)
(* -EINVAL, when the plane is in the other half of the table.              *)
StreamonTarget(s, p) ==
  CASE p = "OUTPUT"  /\ s = "INIT"             -> "INPUT_STREAMING"
    [] p = "OUTPUT"  /\ s = "OUTPUT_STREAMING" -> "STREAMING"
    [] p = "CAPTURE" /\ s = "INIT"             -> "OUTPUT_STREAMING"
    [] p = "CAPTURE" /\ s = "INPUT_STREAMING"  -> "STREAMING"
    [] OTHER -> "ERROR"

StreamoffTarget(s, p) ==
  CASE p = "OUTPUT"  /\ s = "INPUT_STREAMING"  -> "INIT"
    [] p = "OUTPUT"  /\ s = "STREAMING"        -> "OUTPUT_STREAMING"
    [] p = "CAPTURE" /\ s = "OUTPUT_STREAMING" -> "INIT"
    [] p = "CAPTURE" /\ s = "STREAMING"        -> "INPUT_STREAMING"
    [] OTHER -> "ERROR"

StateChangeStreamon(i, p)  == ChangeState(i, StreamonTarget(i.state, p))
StateChangeStreamoff(i, p) == ChangeState(i, StreamoffTarget(i.state, p))

-----------------------------------------------------------------------------
(* Sub-state.                                                              *)

(* One permitted bit is enough: the code tests "set & allowed", not that   *)
(* set is contained in it.                                                 *)
AllowedSub(s) ==
  CASE s = "INIT" -> {"LOAD_RESOURCES"}
    [] s = "INPUT_STREAMING"  -> {"FIRST_IPSC", "DRC", "DRAIN", "INPUT_PAUSE"}
    [] s = "OUTPUT_STREAMING" -> {"DRC_LAST", "DRAIN_LAST", "OUTPUT_PAUSE",
                                  "LOAD_RESOURCES"}
    [] s \in {"STREAMING", "DEINIT"} ->
         {"DRC", "DRAIN", "DRC_LAST", "DRAIN_LAST", "INPUT_PAUSE", "OUTPUT_PAUSE"}
    [] OTHER -> {}

AllowSub(i, set) == set = {} \/ set \cap AllowedSub(i.state) # {}

ChangeSubOk(i, clear, set) ==
  \/ i.state = "ERROR"
  \/ clear \cap set = {} /\ AllowSub(i, set)

ChangeSub(i, clear, set) ==
  IF i.state # "ERROR" /\ ChangeSubOk(i, clear, set)
  THEN [i EXCEPT !.sub = (@ \cup set) \ clear] ELSE i

Drc(i)  ==
  IF i.state \in {"INPUT_STREAMING", "INIT"}
  THEN {"FIRST_IPSC", "INPUT_PAUSE"} ELSE {"DRC", "INPUT_PAUSE"}

SubChangeDrcOk(i) == "DRC" \notin i.sub /\ ChangeSubOk(i, {}, Drc(i))
SubChangeDrc(i)   == IF SubChangeDrcOk(i) THEN ChangeSub(i, {}, Drc(i)) ELSE i

SubChangeDrainLast(i) ==
  IF "DRAIN_LAST" \notin i.sub /\ "DRAIN" \in i.sub
  THEN ChangeSub(i, {}, {"DRAIN_LAST", "OUTPUT_PAUSE"}) ELSE i

SubChangeDrcLast(i) ==
  IF /\ "DRC_LAST" \notin i.sub
     /\ {"DRC", "INPUT_PAUSE"} \subseteq i.sub
     /\ "FIRST_IPSC" \notin i.sub
  THEN ChangeSub(i, {}, {"DRC_LAST", "OUTPUT_PAUSE"}) ELSE i

DrcPending(i)   == {"DRC", "DRC_LAST"} \subseteq i.sub
DrainPending(i) == {"DRAIN", "DRAIN_LAST"} \subseteq i.sub

(* iris_allow_cmd(): on is the set of planes vb2 calls streaming.          *)
AllowStart(i, on) == on # {} /\ (DrcPending(i) \/ DrainPending(i))
AllowStop(i, on)  == "OUTPUT" \in on /\ i.sub # {"DRAIN"}
=============================================================================
