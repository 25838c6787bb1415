-------------------------- MODULE IrisPowerProofs ---------------------------
(***************************************************************************)
(* What holds of the power sequences of IrisPower for every number of      *)
(* cycles, failures, interrupts and sessions, and every rate: references   *)
(* are taken and given back once and in order, the interrupt line is       *)
(* enabled as often as it is disabled, the remembered votes are the votes  *)
(* cast, and they cover what the sessions ask for.                         *)
(***************************************************************************)
EXTENDS IrisPower, IrisSums

Known == {"sm8150", "sm8250", "sm8650"}

(* Calls whose failure the labels of the code handle.  The others are a    *)
(* pm_runtime_get_sync(), which keeps its reference, the auxiliary clock   *)
(* of sm8150 and the last vote of the others, which are undone wrongly.    *)
Handled(p) ==
  IF p = "sm8150"
  THEN {"icc", "reset", "bus", "axi", "ctrl", "rate", "hw_pd", "aux_pd", "hw_axi",
        "aux_axi", "hw"}
  ELSE {"icc", "max_ctrl", "reset", "axi", "ctrl", "max_hw", "hw", "hwmode"}

(* The place of each reference in the power-on; 14 is nowhere.             *)
Steps(p) == IF p = "sm8150" THEN 13 ELSE 11

Place(p) ==
  IF p = "sm8150"
  THEN [ctrl_pd |-> 2, hw_pd |-> 8, aux_pd |-> 9, bus |-> 4, axi |-> 5, ctrl |-> 6,
        hw_axi |-> 10, aux_axi |-> 11, hw |-> 12, aux_hw |-> 13]
  ELSE [ctrl_pd |-> 3, hw_pd |-> 8, aux_pd |-> 14, bus |-> 14, axi |-> 5, ctrl |-> 6,
        hw_axi |-> 14, aux_axi |-> 14, hw |-> 9, aux_hw |-> 14]

(* The first vote for an OPP, and the last.                                *)
Raised(p) == IF p = "sm8150" THEN 7 ELSE 2
Rated(p)  == IF p = "sm8150" THEN 7 ELSE 11

(* The calls that take and those that give back.                           *)
Takes == {"icc", "reset", "rate", "max_ctrl", "max_hw", "hwmode", "ctrl_pd", "hw_pd",
          "aux_pd", "bus", "axi", "ctrl", "hw_axi", "aux_axi", "hw", "aux_hw"}
Returns == {"-ctrl_pd", "-hw_pd", "-aux_pd", "-bus", "-axi", "-ctrl", "-hw_axi",
            "-aux_axi", "-hw", "-aux_hw", "rate0", "-icc", "-hwmode"}

VoteFields == {"opp", "icc", "clk_freq", "icc_bw", "missed"}

SessionType == [opened: BOOLEAN, data: {0, 1}, freq: Nat, bw: Nat,
                at: {"idle", "clocks", "icc", "unvote"}]

LineType == [depth: Int, pend: SUBSET {"message", "watchdog"},
             status: SUBSET {"message", "watchdog"},
             thread: {"idle", "woken", "handling"}, idle_opp: BOOLEAN]

(* The types the argument needs; the sum of the rates stays untyped.       *)
Shape ==
  /\ plat \in Known
  /\ vpu \in [powered: BOOLEAN, ok: BOOLEAN, phase: {"rest", "on", "undo", "off"}]
  /\ held \in [Refs -> Int]
  /\ DOMAIN vote = VoteFields
  /\ inst \in [Sessions -> SessionType]
  /\ irq \in LineType

In(call, q) == \E i \in 1 .. Len(q) : q[i] = call

Agrees(v) == v.opp = Least(RestoredRate(v), MaxOpp)

(* Half way through a power-on: the rest of the sequence is to be called,  *)
(* and the references of the calls made are held.                          *)
Made == Steps(plat) - Len(todo)

Opening ==
  /\ todo \in Seq(Takes)
  /\ Len(todo) <= Steps(plat)
  /\ \A i \in 1 .. Len(todo) : todo[i] = PowerOnSeq(plat)[Made + i]
  /\ \A r \in Refs : held[r] = IF Place(plat)[r] <= Made THEN 1 ELSE 0
  /\ Made < 1 => vote.icc = 0
  /\ Made < Raised(plat) => vote.opp = 0
  /\ Made >= Rated(plat) => Agrees(vote)

(* A list of calls that give back, each but the votes once, and their set. *)
Gives(q, S) ==
  /\ q \in Seq(Returns)
  /\ \A call : In(call, q) <=> call \in S
  /\ \A i, j \in 1 .. Len(q) : i # j /\ q[i] = q[j] => q[i] = "rate0"

(* Half way through an unwind or a power-off: what is held is exactly what *)
(* is still to be given back, and so are the votes.                        *)
Closing ==
  /\ \E S : Gives(todo, S)
  /\ \A r \in Refs : held[r] = IF In(Put[r], todo) THEN 1 ELSE 0
  /\ vote.opp = 0 \/ In("rate0", todo)
  /\ vote.icc = 0 \/ In("-icc", todo)

AtRest ==
  /\ todo = <<>>
  /\ \A r \in Refs : held[r] = IF vpu.ok /\ Place(plat)[r] <= Steps(plat) THEN 1 ELSE 0
  /\ IF vpu.ok THEN Agrees(vote) ELSE vote.opp = 0 /\ vote.icc = 0

PowerInv ==
  /\ vpu.ok => vpu.phase = "rest"
  /\ ~vpu.ok => \A x \in Sessions : ~inst[x].opened /\ inst[x].at = "idle"
  /\ vote.icc = vote.icc_bw
  /\ vpu.phase = "rest" => AtRest
  /\ vpu.phase = "on" => Opening
  /\ vpu.phase \in {"undo", "off"} => Closing

-----------------------------------------------------------------------------
(* The calls of a power-on, by place.                                      *)
LEMMA OnCalls ==
  ASSUME NEW p \in Known
  PROVE  /\ PowerOnSeq(p) \in Seq(Takes) /\ Len(PowerOnSeq(p)) = Steps(p)
         /\ \A i \in 1 .. Steps(p) :
              /\ \A r \in Refs : PowerOnSeq(p)[i] = r <=> Place(p)[r] = i
              /\ \A r \in Refs : PowerOnSeq(p)[i] # Put[r]
              /\ PowerOnSeq(p)[i] \notin {"rate0", "-icc"}
              /\ PowerOnSeq(p)[i] \in {"max_ctrl", "max_hw"} => i >= Raised(p) /\ i < Rated(p)
              /\ PowerOnSeq(p)[i] = "rate" <=> i = Rated(p)
              /\ PowerOnSeq(p)[i] = "icc" <=> i = 1
  <1>1. CASE p = "sm8150"
    <2>1. PowerOnSeq(p) = <<"icc", "ctrl_pd", "reset", "bus", "axi", "ctrl", "rate",
                            "hw_pd", "aux_pd", "hw_axi", "aux_axi", "hw", "aux_hw">>
      BY <1>1 DEF PowerOnSeq
    <2>2. \A i \in 1 .. 13 : \A r \in Refs : PowerOnSeq(p)[i] = r <=> Place(p)[r] = i
      BY <1>1, <2>1 DEF Place, Refs, Domains, Clocks
    <2>3. \A i \in 1 .. 13 : \A r \in Refs : PowerOnSeq(p)[i] # Put[r]
      BY <2>1 DEF Put, Refs, Domains, Clocks
    <2>4. PowerOnSeq(p) \in Seq(Takes) /\ Len(PowerOnSeq(p)) = 13
      BY <2>1 DEF Takes
    <2>5. \A i \in 1 .. 13 :
            /\ PowerOnSeq(p)[i] \notin {"rate0", "-icc"}
            /\ PowerOnSeq(p)[i] \in {"max_ctrl", "max_hw"} => i >= 7 /\ i < 7
            /\ PowerOnSeq(p)[i] = "rate" <=> i = 7
            /\ PowerOnSeq(p)[i] = "icc" <=> i = 1
      BY <2>1
    <2>6. Steps(p) = 13 /\ Raised(p) = 7 /\ Rated(p) = 7
      BY <1>1 DEF Steps, Raised, Rated
    <2>7. QED
      BY <2>2, <2>3, <2>4, <2>5, <2>6
  <1>2. CASE p # "sm8150"
    <2>1. PowerOnSeq(p) = <<"icc", "max_ctrl", "ctrl_pd", "reset", "axi", "ctrl",
                            "max_hw", "hw_pd", "hw", "hwmode", "rate">>
      BY <1>2 DEF PowerOnSeq
    <2>2. \A i \in 1 .. 11 : \A r \in Refs : PowerOnSeq(p)[i] = r <=> Place(p)[r] = i
      BY <1>2, <2>1 DEF Place, Refs, Domains, Clocks
    <2>3. \A i \in 1 .. 11 : \A r \in Refs : PowerOnSeq(p)[i] # Put[r]
      BY <2>1 DEF Put, Refs, Domains, Clocks
    <2>4. PowerOnSeq(p) \in Seq(Takes) /\ Len(PowerOnSeq(p)) = 11
      BY <2>1 DEF Takes
    <2>5. \A i \in 1 .. 11 :
            /\ PowerOnSeq(p)[i] \notin {"rate0", "-icc"}
            /\ PowerOnSeq(p)[i] \in {"max_ctrl", "max_hw"} => i >= 2 /\ i < 11
            /\ PowerOnSeq(p)[i] = "rate" <=> i = 11
            /\ PowerOnSeq(p)[i] = "icc" <=> i = 1
      BY <2>1
    <2>6. Steps(p) = 11 /\ Raised(p) = 2 /\ Rated(p) = 11
      BY <1>2 DEF Steps, Raised, Rated
    <2>7. QED
      BY <2>2, <2>3, <2>4, <2>5, <2>6
  <1>3. QED
    BY <1>1, <1>2

(* No call gives two references back, and none both takes and gives.       *)
LEMMA PutCalls ==
  /\ \A r, q \in Refs : Put[r] = Put[q] => r = q
  /\ \A r, q \in Refs : Put[r] # q
  /\ \A r \in Refs : Put[r] \notin {"rate0", "-icc", "-hwmode", "icc", "rate", "max_ctrl",
                                    "max_hw"}
  /\ \A r \in Refs : r \notin {"rate0", "-icc", "-hwmode"}
  BY DEF Put, Refs, Domains, Clocks

(* Two lists that give back different things.                              *)
LEMMA GivesBoth ==
  ASSUME NEW a, NEW A, Gives(a, A), NEW b, NEW B, Gives(b, B), A \cap B \subseteq {"rate0"},
         NEW C, \A x : x \in C <=> x \in A \/ x \in B
  PROVE  Gives(a \o b, C)
  <1> DEFINE q == a \o b
  <1>1. /\ q \in Seq(Returns) /\ Len(q) = Len(a) + Len(b)
        /\ Len(a) \in Nat /\ Len(b) \in Nat
        /\ \A i \in 1 .. Len(a) : q[i] = a[i]
        /\ \A i \in 1 .. Len(b) : q[Len(a) + i] = b[i]
        /\ \A i \in 1 .. Len(q) : i > Len(a) => q[i] = b[i - Len(a)]
    BY DEF Gives
  <1>2. \A call : In(call, q) <=> In(call, a) \/ In(call, b)
    <2> TAKE call
    <2>1. In(call, a) => In(call, q)
      BY <1>1 DEF In
    <2>2. ASSUME NEW i \in 1 .. Len(b), b[i] = call
          PROVE  In(call, q)
      <3>1. Len(a) + i \in 1 .. Len(q)
        BY <1>1
      <3>2. QED
        BY <1>1, <2>2, <3>1 DEF In
    <2>3. ASSUME NEW i \in 1 .. Len(q), q[i] = call
          PROVE  In(call, a) \/ In(call, b)
      <3>1. CASE i <= Len(a)
        <4>1. i \in 1 .. Len(a)
          BY <1>1, <3>1
        <4>2. QED
          BY <1>1, <2>3, <4>1 DEF In
      <3>2. CASE i > Len(a)
        <4>1. i - Len(a) \in 1 .. Len(b)
          BY <1>1, <3>2
        <4>2. QED
          BY <1>1, <2>3, <3>2, <4>1 DEF In
      <3>3. QED
        BY <1>1, <3>1, <3>2
    <2>4. QED
      BY <2>1, <2>2, <2>3 DEF In
  <1>3. ASSUME NEW i \in 1 .. Len(q), NEW j \in 1 .. Len(q), i # j, q[i] = q[j]
        PROVE  q[i] = "rate0"
    <2>1. /\ i \in 1 .. Len(a) \/ i - Len(a) \in 1 .. Len(b)
          /\ j \in 1 .. Len(a) \/ j - Len(a) \in 1 .. Len(b)
      BY <1>1
    <2>2. CASE i \in 1 .. Len(a) /\ j \in 1 .. Len(a)
      BY <1>1, <1>3, <2>2 DEF Gives
    <2>3. CASE i - Len(a) \in 1 .. Len(b) /\ j - Len(a) \in 1 .. Len(b)
      <3>1. b[i - Len(a)] = b[j - Len(a)] /\ i - Len(a) # j - Len(a)
        BY <1>1, <1>3, <2>3
      <3>2. QED
        BY <1>1, <2>3, <3>1 DEF Gives
    <2>4. CASE i \in 1 .. Len(a) /\ j - Len(a) \in 1 .. Len(b)
      <3>1. q[i] \in A /\ q[j] \in B
        BY <1>1, <2>4 DEF Gives, In
      <3>2. QED
        BY <1>3, <3>1
    <2>5. CASE i - Len(a) \in 1 .. Len(b) /\ j \in 1 .. Len(a)
      <3>1. q[i] \in B /\ q[j] \in A
        BY <1>1, <2>5 DEF Gives, In
      <3>2. QED
        BY <1>3, <3>1
    <2>6. QED
      BY <2>1, <2>2, <2>3, <2>4, <2>5
  <1>4. QED
    BY <1>1, <1>2, <1>3 DEF Gives

(* The list q undoes a power-on of which n calls were made.                *)
Undoes(q, p, n) ==
  \E S : /\ Gives(q, S)
         /\ \A r \in Refs : Put[r] \in S <=> Place(p)[r] <= n
         /\ n < Raised(p) \/ "rate0" \in S
         /\ n < 1 \/ "-icc" \in S

(* How a list is shown to undo a power-on.                                  *)
LEMMA UndoesBy ==
  ASSUME NEW q, NEW S, NEW p, NEW n, Gives(q, S),
         \A r \in Refs : Put[r] \in S <=> Place(p)[r] <= n,
         n < Raised(p) \/ "rate0" \in S, n < 1 \/ "-icc" \in S
  PROVE  Undoes(q, p, n)
  BY DEF Undoes

(* What the pieces of the unwinds give back.                               *)
LEMMA Pieces ==
  /\ Gives(<<>>, {})
  /\ Gives(<<"rate0">>, {"rate0"})
  /\ Gives(<<"-icc">>, {"-icc"})
  /\ Gives(<<"-bus">>, {"-bus"})
  /\ Gives(<<"-axi">>, {"-axi"})
  /\ Gives(<<"-ctrl">>, {"-ctrl"})
  /\ Gives(<<"-ctrl_pd">>, {"-ctrl_pd"})
  /\ Gives(<<"rate0", "-ctrl_pd">>, {"rate0", "-ctrl_pd"})
  /\ Gives(<<"-hw_pd">>, {"-hw_pd"})
  /\ Gives(<<"rate0", "-hw_pd">>, {"rate0", "-hw_pd"})
  /\ Gives(<<"-hw", "rate0", "-hw_pd">>, {"-hw", "rate0", "-hw_pd"})
  /\ Gives(<<"-aux_pd", "-hw_pd">>, {"-aux_pd", "-hw_pd"})
  /\ Gives(<<"-hw_axi", "-aux_pd", "-hw_pd">>, {"-hw_axi", "-aux_pd", "-hw_pd"})
  /\ Gives(<<"-aux_axi", "-hw_axi", "-aux_pd", "-hw_pd">>,
           {"-aux_axi", "-hw_axi", "-aux_pd", "-hw_pd"})
  <1> USE DEF Gives, In, Returns
  <1>1. Gives(<<>>, {})
    OBVIOUS
  <1>2. Gives(<<"rate0">>, {"rate0"}) /\ Gives(<<"-icc">>, {"-icc"})
    OBVIOUS
  <1>3. Gives(<<"-bus">>, {"-bus"}) /\ Gives(<<"-axi">>, {"-axi"})
    OBVIOUS
  <1>4. Gives(<<"-ctrl">>, {"-ctrl"}) /\ Gives(<<"-ctrl_pd">>, {"-ctrl_pd"})
    OBVIOUS
  <1>5. Gives(<<"rate0", "-ctrl_pd">>, {"rate0", "-ctrl_pd"})
    OBVIOUS
  <1>6. Gives(<<"-hw_pd">>, {"-hw_pd"}) /\ Gives(<<"rate0", "-hw_pd">>, {"rate0", "-hw_pd"})
    OBVIOUS
  <1>7. Gives(<<"-hw", "rate0", "-hw_pd">>, {"-hw", "rate0", "-hw_pd"})
    OBVIOUS
  <1>8. Gives(<<"-aux_pd", "-hw_pd">>, {"-aux_pd", "-hw_pd"})
    OBVIOUS
  <1>9. Gives(<<"-hw_axi", "-aux_pd", "-hw_pd">>, {"-hw_axi", "-aux_pd", "-hw_pd"})
    OBVIOUS
  <1>10. Gives(<<"-aux_axi", "-hw_axi", "-aux_pd", "-hw_pd">>,
               {"-aux_axi", "-hw_axi", "-aux_pd", "-hw_pd"})
    OBVIOUS
  <1>11. QED
    BY <1>1, <1>2, <1>3, <1>4, <1>5, <1>6, <1>7, <1>8, <1>9, <1>10

(* Every handled failure of a power-on of sm8150 gives back what was taken. *)
LEMMA UndoSm8150 ==
  ASSUME NEW p \in Known, p = "sm8150"
  PROVE  /\ Undoes(Undo(p, "icc"), p, 0)
         /\ Undoes(Undo(p, "reset"), p, 2)
         /\ Undoes(Undo(p, "bus"), p, 3)
         /\ Undoes(Undo(p, "axi"), p, 4)
         /\ Undoes(Undo(p, "ctrl"), p, 5)
         /\ Undoes(Undo(p, "rate"), p, 6)
         /\ Undoes(Undo(p, "hw_pd"), p, 7)
         /\ Undoes(Undo(p, "aux_pd"), p, 8)
         /\ Undoes(Undo(p, "hw_axi"), p, 9)
         /\ Undoes(Undo(p, "aux_axi"), p, 10)
         /\ Undoes(Undo(p, "hw"), p, 11)
  <1>0. Gives(<<"-ctrl", "-axi", "-bus", "-ctrl_pd">>, {"-ctrl", "-axi", "-bus", "-ctrl_pd"})
    BY DEF Gives, In, Returns
  <1>1. Undoes(Undo(p, "icc"), p, 0)
    <2>1. Undo(p, "icc") = <<>>
      BY DEF Undo, HwCalls
    <2>2. \A r \in Refs : ~(Place(p)[r] <= 0)
      BY DEF Place, Refs, Domains, Clocks
    <2>3. QED
      BY <2>1, <2>2, Pieces DEF Undoes, Raised
  <1>2. Undoes(Undo(p, "reset"), p, 2)
    <2>1. Undo(p, "reset") = <<"-ctrl_pd">> \o <<"-icc">>
      BY DEF Undo, UndoHw, UndoController, HwCalls, PowerOffController
    <2>2. Gives(<<"-ctrl_pd">> \o <<"-icc">>, {"-ctrl_pd", "-icc"})
      BY Pieces, GivesBoth
    <2>3. \A r \in Refs : Put[r] \in {"-ctrl_pd", "-icc"} <=> Place(p)[r] <= 2
      BY DEF Place, Put, Refs, Domains, Clocks
    <2>4. 2 < Raised(p) \/ "rate0" \in {"-ctrl_pd", "-icc"}
      BY DEF Raised
    <2>5. QED
      BY <2>1, <2>2, <2>3, <2>4, UndoesBy
  <1>3. Undoes(Undo(p, "bus"), p, 3)
    <2>1. Undo(p, "bus") = <<"-ctrl_pd">> \o <<"-icc">>
      BY DEF Undo, UndoHw, UndoController, HwCalls, PowerOffController
    <2>2. Gives(<<"-ctrl_pd">> \o <<"-icc">>, {"-ctrl_pd", "-icc"})
      BY Pieces, GivesBoth
    <2>3. \A r \in Refs : Put[r] \in {"-ctrl_pd", "-icc"} <=> Place(p)[r] <= 3
      BY DEF Place, Put, Refs, Domains, Clocks
    <2>4. 3 < Raised(p) \/ "rate0" \in {"-ctrl_pd", "-icc"}
      BY DEF Raised
    <2>5. QED
      BY <2>1, <2>2, <2>3, <2>4, UndoesBy
  <1>4. Undoes(Undo(p, "axi"), p, 4)
    <2>1. Undo(p, "axi") = <<"-bus">> \o <<"-ctrl_pd">> \o <<"-icc">>
      BY DEF Undo, UndoHw, UndoController, HwCalls, PowerOffController
    <2>2. Gives(<<"-bus">> \o <<"-ctrl_pd">>, {"-bus", "-ctrl_pd"})
      BY Pieces, GivesBoth
    <2>3. Gives(<<"-bus">> \o <<"-ctrl_pd">> \o <<"-icc">>, {"-bus", "-ctrl_pd", "-icc"})
      <3>1. {"-bus", "-ctrl_pd"} \cap {"-icc"} \subseteq {"rate0"}
        OBVIOUS
      <3>2. \A c : c \in {"-bus", "-ctrl_pd", "-icc"}
              <=> c \in {"-bus", "-ctrl_pd"} \/ c \in {"-icc"}
        OBVIOUS
      <3>3. QED
        BY <3>1, <3>2, <2>2, Pieces, GivesBoth
    <2>4. \A r \in Refs : Put[r] \in {"-bus", "-ctrl_pd", "-icc"} <=> Place(p)[r] <= 4
      BY DEF Place, Put, Refs, Domains, Clocks
    <2>5. 4 < Raised(p) \/ "rate0" \in {"-bus", "-ctrl_pd", "-icc"}
      BY DEF Raised
    <2>6. QED
      BY <2>1, <2>3, <2>4, <2>5, UndoesBy
  <1>5. Undoes(Undo(p, "ctrl"), p, 5)
    <2>1. Undo(p, "ctrl") = <<"-axi">> \o <<"-bus">> \o <<"-ctrl_pd">> \o <<"-icc">>
      BY DEF Undo, UndoHw, UndoController, HwCalls, PowerOffController
    <2>2. Gives(<<"-axi">> \o <<"-bus">>, {"-axi", "-bus"})
      BY Pieces, GivesBoth
    <2>3. Gives(<<"-axi">> \o <<"-bus">> \o <<"-ctrl_pd">>, {"-axi", "-bus", "-ctrl_pd"})
      <3>1. {"-axi", "-bus"} \cap {"-ctrl_pd"} \subseteq {"rate0"}
        OBVIOUS
      <3>2. \A c : c \in {"-axi", "-bus", "-ctrl_pd"}
              <=> c \in {"-axi", "-bus"} \/ c \in {"-ctrl_pd"}
        OBVIOUS
      <3>3. QED
        BY <3>1, <3>2, <2>2, Pieces, GivesBoth
    <2>4. Gives(<<"-axi">> \o <<"-bus">> \o <<"-ctrl_pd">> \o <<"-icc">>,
              {"-axi", "-bus", "-ctrl_pd", "-icc"})
      <3>1. {"-axi", "-bus", "-ctrl_pd"} \cap {"-icc"} \subseteq {"rate0"}
        OBVIOUS
      <3>2. \A c : c \in {"-axi", "-bus", "-ctrl_pd", "-icc"}
              <=> c \in {"-axi", "-bus", "-ctrl_pd"} \/ c \in {"-icc"}
        OBVIOUS
      <3>3. QED
        BY <3>1, <3>2, <2>3, Pieces, GivesBoth
    <2>5. \A r \in Refs :
            Put[r] \in {"-axi", "-bus", "-ctrl_pd", "-icc"}
            <=> Place(p)[r] <= 5
      BY DEF Place, Put, Refs, Domains, Clocks
    <2>6. 5 < Raised(p) \/ "rate0" \in {"-axi", "-bus", "-ctrl_pd", "-icc"}
      BY DEF Raised
    <2>7. QED
      BY <2>1, <2>4, <2>5, <2>6, UndoesBy
  <1>6. Undoes(Undo(p, "rate"), p, 6)
    <2>1. Undo(p, "rate") = <<"-ctrl", "-axi", "-bus", "-ctrl_pd">> \o <<"-icc">>
      BY DEF Undo, UndoHw, UndoController, HwCalls, PowerOffController
    <2>2. Gives(<<"-ctrl", "-axi", "-bus", "-ctrl_pd">> \o <<"-icc">>,
              {"-ctrl", "-axi", "-bus", "-ctrl_pd", "-icc"})
      <3>1. {"-ctrl", "-axi", "-bus", "-ctrl_pd"} \cap {"-icc"} \subseteq {"rate0"}
        OBVIOUS
      <3>2. \A c : c \in {"-ctrl", "-axi", "-bus", "-ctrl_pd", "-icc"}
              <=> c \in {"-ctrl", "-axi", "-bus", "-ctrl_pd"} \/ c \in {"-icc"}
        OBVIOUS
      <3>3. QED
        BY <3>1, <3>2, <1>0, Pieces, GivesBoth
    <2>3. \A r \in Refs :
            Put[r] \in {"-ctrl", "-axi", "-bus", "-ctrl_pd", "-icc"}
            <=> Place(p)[r] <= 6
      BY DEF Place, Put, Refs, Domains, Clocks
    <2>4. 6 < Raised(p) \/ "rate0" \in {"-ctrl", "-axi", "-bus", "-ctrl_pd", "-icc"}
      BY DEF Raised
    <2>5. QED
      BY <2>1, <2>2, <2>3, <2>4, UndoesBy
  <1>7. Undoes(Undo(p, "hw_pd"), p, 7)
    <2>1. Undo(p, "hw_pd") =
            <<>> \o <<"rate0">> \o <<"-ctrl", "-axi", "-bus", "-ctrl_pd">> \o <<"-icc">>
      BY DEF Undo, UndoHw, UndoController, HwCalls, PowerOffController
    <2>2. Gives(<<>> \o <<"rate0">>, {"rate0"})
      BY Pieces, GivesBoth
    <2>3. Gives(<<>> \o <<"rate0">> \o <<"-ctrl", "-axi", "-bus", "-ctrl_pd">>,
              {"rate0", "-ctrl", "-axi", "-bus", "-ctrl_pd"})
      <3>1. {"rate0"} \cap {"-ctrl", "-axi", "-bus", "-ctrl_pd"} \subseteq {"rate0"}
        OBVIOUS
      <3>2. \A c : c \in {"rate0", "-ctrl", "-axi", "-bus", "-ctrl_pd"}
              <=> c \in {"rate0"} \/ c \in {"-ctrl", "-axi", "-bus", "-ctrl_pd"}
        OBVIOUS
      <3>3. QED
        BY <3>1, <3>2, <1>0, <2>2, Pieces, GivesBoth
    <2>4. Gives(<<>> \o <<"rate0">> \o <<"-ctrl", "-axi", "-bus", "-ctrl_pd">> \o <<"-icc">>,
              {"rate0", "-ctrl", "-axi", "-bus", "-ctrl_pd", "-icc"})
      <3>1. {"rate0", "-ctrl", "-axi", "-bus", "-ctrl_pd"} \cap {"-icc"} \subseteq {"rate0"}
        OBVIOUS
      <3>2. \A c : c \in {"rate0", "-ctrl", "-axi", "-bus", "-ctrl_pd", "-icc"}
              <=> c \in {"rate0", "-ctrl", "-axi", "-bus", "-ctrl_pd"} \/ c \in {"-icc"}
        OBVIOUS
      <3>3. QED
        BY <3>1, <3>2, <2>3, Pieces, GivesBoth
    <2>5. \A r \in Refs :
            Put[r] \in {"rate0", "-ctrl", "-axi", "-bus", "-ctrl_pd", "-icc"}
            <=> Place(p)[r] <= 7
      BY DEF Place, Put, Refs, Domains, Clocks
    <2>6. 7 < Raised(p) \/ "rate0" \in {"rate0", "-ctrl", "-axi", "-bus", "-ctrl_pd", "-icc"}
      BY DEF Raised
    <2>7. QED
      BY <2>1, <2>4, <2>5, <2>6, UndoesBy
  <1>8. Undoes(Undo(p, "aux_pd"), p, 8)
    <2>1. Undo(p, "aux_pd") =
            <<"-hw_pd">> \o <<"rate0">> \o <<"-ctrl", "-axi", "-bus", "-ctrl_pd">> \o <<"-icc">>
      BY DEF Undo, UndoHw, UndoController, HwCalls, PowerOffController
    <2>2. Gives(<<"-hw_pd">> \o <<"rate0">>, {"-hw_pd", "rate0"})
      BY Pieces, GivesBoth
    <2>3. Gives(<<"-hw_pd">> \o <<"rate0">> \o <<"-ctrl", "-axi", "-bus", "-ctrl_pd">>,
              {"-hw_pd", "rate0", "-ctrl", "-axi", "-bus", "-ctrl_pd"})
      <3>1. {"-hw_pd", "rate0"} \cap {"-ctrl", "-axi", "-bus", "-ctrl_pd"} \subseteq {"rate0"}
        OBVIOUS
      <3>2. \A c : c \in {"-hw_pd", "rate0", "-ctrl", "-axi", "-bus", "-ctrl_pd"}
              <=> c \in {"-hw_pd", "rate0"} \/ c \in {"-ctrl", "-axi", "-bus", "-ctrl_pd"}
        OBVIOUS
      <3>3. QED
        BY <3>1, <3>2, <1>0, <2>2, Pieces, GivesBoth
    <2>4. Gives(<<"-hw_pd">> \o <<"rate0">> \o <<"-ctrl", "-axi", "-bus", "-ctrl_pd">> \o <<"-icc">>,
              {"-hw_pd", "rate0", "-ctrl", "-axi", "-bus", "-ctrl_pd", "-icc"})
      <3>1. {"-hw_pd", "rate0", "-ctrl", "-axi", "-bus", "-ctrl_pd"} \cap {"-icc"} \subseteq {"rate0"}
        OBVIOUS
      <3>2. \A c : c \in {"-hw_pd", "rate0", "-ctrl", "-axi", "-bus", "-ctrl_pd", "-icc"}
              <=> c \in {"-hw_pd", "rate0", "-ctrl", "-axi", "-bus", "-ctrl_pd"} \/ c \in {"-icc"}
        OBVIOUS
      <3>3. QED
        BY <3>1, <3>2, <2>3, Pieces, GivesBoth
    <2>5. \A r \in Refs :
            Put[r] \in {"-hw_pd", "rate0", "-ctrl", "-axi", "-bus", "-ctrl_pd", "-icc"}
            <=> Place(p)[r] <= 8
      BY DEF Place, Put, Refs, Domains, Clocks
    <2>6. 8 < Raised(p) \/ "rate0" \in {"-hw_pd", "rate0", "-ctrl", "-axi", "-bus", "-ctrl_pd", "-icc"}
      BY DEF Raised
    <2>7. QED
      BY <2>1, <2>4, <2>5, <2>6, UndoesBy
  <1>9. Undoes(Undo(p, "hw_axi"), p, 9)
    <2>1. Undo(p, "hw_axi") =
            <<"-aux_pd", "-hw_pd">> \o <<"rate0">> \o <<"-ctrl", "-axi", "-bus", "-ctrl_pd">> \o <<"-icc">>
      BY DEF Undo, UndoHw, UndoController, HwCalls, PowerOffController
    <2>2. Gives(<<"-aux_pd", "-hw_pd">> \o <<"rate0">>, {"-aux_pd", "-hw_pd", "rate0"})
      <3>1. {"-aux_pd", "-hw_pd"} \cap {"rate0"} \subseteq {"rate0"}
        OBVIOUS
      <3>2. \A c : c \in {"-aux_pd", "-hw_pd", "rate0"}
              <=> c \in {"-aux_pd", "-hw_pd"} \/ c \in {"rate0"}
        OBVIOUS
      <3>3. QED
        BY <3>1, <3>2, Pieces, GivesBoth
    <2>3. Gives(<<"-aux_pd", "-hw_pd">> \o <<"rate0">> \o <<"-ctrl", "-axi", "-bus", "-ctrl_pd">>,
              {"-aux_pd", "-hw_pd", "rate0", "-ctrl", "-axi", "-bus", "-ctrl_pd"})
      <3>1. {"-aux_pd", "-hw_pd", "rate0"} \cap {"-ctrl", "-axi", "-bus", "-ctrl_pd"} \subseteq {"rate0"}
        OBVIOUS
      <3>2. \A c : c \in {"-aux_pd", "-hw_pd", "rate0", "-ctrl", "-axi", "-bus", "-ctrl_pd"}
              <=> c \in {"-aux_pd", "-hw_pd", "rate0"} \/ c \in {"-ctrl", "-axi", "-bus", "-ctrl_pd"}
        OBVIOUS
      <3>3. QED
        BY <3>1, <3>2, <1>0, <2>2, Pieces, GivesBoth
    <2>4. Gives(<<"-aux_pd", "-hw_pd">> \o <<"rate0">> \o <<"-ctrl", "-axi", "-bus", "-ctrl_pd">> \o <<"-icc">>,
              {"-aux_pd", "-hw_pd", "rate0", "-ctrl", "-axi", "-bus", "-ctrl_pd", "-icc"})
      <3>1. {"-aux_pd", "-hw_pd", "rate0", "-ctrl", "-axi", "-bus", "-ctrl_pd"} \cap {"-icc"} \subseteq {"rate0"}
        OBVIOUS
      <3>2. \A c : c \in {"-aux_pd", "-hw_pd", "rate0", "-ctrl", "-axi", "-bus", "-ctrl_pd", "-icc"}
              <=> c \in {"-aux_pd", "-hw_pd", "rate0", "-ctrl", "-axi", "-bus", "-ctrl_pd"} \/ c \in {"-icc"}
        OBVIOUS
      <3>3. QED
        BY <3>1, <3>2, <2>3, Pieces, GivesBoth
    <2>5. \A r \in Refs :
            Put[r] \in {"-aux_pd", "-hw_pd", "rate0", "-ctrl", "-axi", "-bus", "-ctrl_pd", "-icc"}
            <=> Place(p)[r] <= 9
      BY DEF Place, Put, Refs, Domains, Clocks
    <2>6. 9 < Raised(p) \/ "rate0" \in {"-aux_pd", "-hw_pd", "rate0", "-ctrl", "-axi", "-bus", "-ctrl_pd", "-icc"}
      BY DEF Raised
    <2>7. QED
      BY <2>1, <2>4, <2>5, <2>6, UndoesBy
  <1>10. Undoes(Undo(p, "aux_axi"), p, 10)
    <2>1. Undo(p, "aux_axi") =
            <<"-hw_axi", "-aux_pd", "-hw_pd">> \o <<"rate0">> \o <<"-ctrl", "-axi", "-bus", "-ctrl_pd">> \o <<"-icc">>
      BY DEF Undo, UndoHw, UndoController, HwCalls, PowerOffController
    <2>2. Gives(<<"-hw_axi", "-aux_pd", "-hw_pd">> \o <<"rate0">>,
              {"-hw_axi", "-aux_pd", "-hw_pd", "rate0"})
      <3>1. {"-hw_axi", "-aux_pd", "-hw_pd"} \cap {"rate0"} \subseteq {"rate0"}
        OBVIOUS
      <3>2. \A c : c \in {"-hw_axi", "-aux_pd", "-hw_pd", "rate0"}
              <=> c \in {"-hw_axi", "-aux_pd", "-hw_pd"} \/ c \in {"rate0"}
        OBVIOUS
      <3>3. QED
        BY <3>1, <3>2, Pieces, GivesBoth
    <2>3. Gives(<<"-hw_axi", "-aux_pd", "-hw_pd">> \o <<"rate0">> \o <<"-ctrl", "-axi", "-bus", "-ctrl_pd">>,
              {"-hw_axi", "-aux_pd", "-hw_pd", "rate0", "-ctrl", "-axi", "-bus", "-ctrl_pd"})
      <3>1. {"-hw_axi", "-aux_pd", "-hw_pd", "rate0"} \cap {"-ctrl", "-axi", "-bus", "-ctrl_pd"} \subseteq {"rate0"}
        OBVIOUS
      <3>2. \A c : c \in {"-hw_axi", "-aux_pd", "-hw_pd", "rate0", "-ctrl", "-axi", "-bus", "-ctrl_pd"}
              <=> c \in {"-hw_axi", "-aux_pd", "-hw_pd", "rate0"} \/ c \in {"-ctrl", "-axi", "-bus", "-ctrl_pd"}
        OBVIOUS
      <3>3. QED
        BY <3>1, <3>2, <1>0, <2>2, Pieces, GivesBoth
    <2>4. Gives(<<"-hw_axi", "-aux_pd", "-hw_pd">> \o <<"rate0">> \o <<"-ctrl", "-axi", "-bus", "-ctrl_pd">> \o <<"-icc">>,
              {"-hw_axi", "-aux_pd", "-hw_pd", "rate0", "-ctrl", "-axi", "-bus", "-ctrl_pd", "-icc"})
      <3>1. {"-hw_axi", "-aux_pd", "-hw_pd", "rate0", "-ctrl", "-axi", "-bus", "-ctrl_pd"} \cap {"-icc"} \subseteq {"rate0"}
        OBVIOUS
      <3>2. \A c : c \in {"-hw_axi", "-aux_pd", "-hw_pd", "rate0", "-ctrl", "-axi", "-bus", "-ctrl_pd", "-icc"}
              <=> c \in {"-hw_axi", "-aux_pd", "-hw_pd", "rate0", "-ctrl", "-axi", "-bus", "-ctrl_pd"} \/ c \in {"-icc"}
        OBVIOUS
      <3>3. QED
        BY <3>1, <3>2, <2>3, Pieces, GivesBoth
    <2>5. \A r \in Refs :
            Put[r] \in {"-hw_axi", "-aux_pd", "-hw_pd", "rate0", "-ctrl", "-axi", "-bus", "-ctrl_pd", "-icc"}
            <=> Place(p)[r] <= 10
      BY DEF Place, Put, Refs, Domains, Clocks
    <2>6. 10 < Raised(p) \/ "rate0" \in {"-hw_axi", "-aux_pd", "-hw_pd", "rate0", "-ctrl", "-axi", "-bus", "-ctrl_pd", "-icc"}
      BY DEF Raised
    <2>7. QED
      BY <2>1, <2>4, <2>5, <2>6, UndoesBy
  <1>11. Undoes(Undo(p, "hw"), p, 11)
    <2>1. Undo(p, "hw") =
            <<"-aux_axi", "-hw_axi", "-aux_pd", "-hw_pd">> \o <<"rate0">> \o <<"-ctrl", "-axi", "-bus", "-ctrl_pd">> \o <<"-icc">>
      BY DEF Undo, UndoHw, UndoController, HwCalls, PowerOffController
    <2>2. Gives(<<"-aux_axi", "-hw_axi", "-aux_pd", "-hw_pd">> \o <<"rate0">>,
              {"-aux_axi", "-hw_axi", "-aux_pd", "-hw_pd", "rate0"})
      <3>1. {"-aux_axi", "-hw_axi", "-aux_pd", "-hw_pd"} \cap {"rate0"} \subseteq {"rate0"}
        OBVIOUS
      <3>2. \A c : c \in {"-aux_axi", "-hw_axi", "-aux_pd", "-hw_pd", "rate0"}
              <=> c \in {"-aux_axi", "-hw_axi", "-aux_pd", "-hw_pd"} \/ c \in {"rate0"}
        OBVIOUS
      <3>3. QED
        BY <3>1, <3>2, Pieces, GivesBoth
    <2>3. Gives(<<"-aux_axi", "-hw_axi", "-aux_pd", "-hw_pd">> \o <<"rate0">> \o <<"-ctrl", "-axi", "-bus", "-ctrl_pd">>,
              {"-aux_axi", "-hw_axi", "-aux_pd", "-hw_pd", "rate0", "-ctrl", "-axi", "-bus", "-ctrl_pd"})
      <3>1. {"-aux_axi", "-hw_axi", "-aux_pd", "-hw_pd", "rate0"} \cap {"-ctrl", "-axi", "-bus", "-ctrl_pd"} \subseteq {"rate0"}
        OBVIOUS
      <3>2. \A c : c \in {"-aux_axi", "-hw_axi", "-aux_pd", "-hw_pd", "rate0", "-ctrl", "-axi", "-bus", "-ctrl_pd"}
              <=> c \in {"-aux_axi", "-hw_axi", "-aux_pd", "-hw_pd", "rate0"} \/ c \in {"-ctrl", "-axi", "-bus", "-ctrl_pd"}
        OBVIOUS
      <3>3. QED
        BY <3>1, <3>2, <1>0, <2>2, Pieces, GivesBoth
    <2>4. Gives(<<"-aux_axi", "-hw_axi", "-aux_pd", "-hw_pd">> \o <<"rate0">> \o <<"-ctrl", "-axi", "-bus", "-ctrl_pd">> \o <<"-icc">>,
              {"-aux_axi", "-hw_axi", "-aux_pd", "-hw_pd", "rate0", "-ctrl", "-axi", "-bus", "-ctrl_pd", "-icc"})
      <3>1. {"-aux_axi", "-hw_axi", "-aux_pd", "-hw_pd", "rate0", "-ctrl", "-axi", "-bus", "-ctrl_pd"} \cap {"-icc"} \subseteq {"rate0"}
        OBVIOUS
      <3>2. \A c : c \in {"-aux_axi", "-hw_axi", "-aux_pd", "-hw_pd", "rate0", "-ctrl", "-axi", "-bus", "-ctrl_pd", "-icc"}
              <=> c \in {"-aux_axi", "-hw_axi", "-aux_pd", "-hw_pd", "rate0", "-ctrl", "-axi", "-bus", "-ctrl_pd"} \/ c \in {"-icc"}
        OBVIOUS
      <3>3. QED
        BY <3>1, <3>2, <2>3, Pieces, GivesBoth
    <2>5. \A r \in Refs :
            Put[r] \in {"-aux_axi", "-hw_axi", "-aux_pd", "-hw_pd", "rate0", "-ctrl", "-axi", "-bus", "-ctrl_pd", "-icc"}
            <=> Place(p)[r] <= 11
      BY DEF Place, Put, Refs, Domains, Clocks
    <2>6. 11 < Raised(p) \/ "rate0" \in {"-aux_axi", "-hw_axi", "-aux_pd", "-hw_pd", "rate0", "-ctrl", "-axi", "-bus", "-ctrl_pd", "-icc"}
      BY DEF Raised
    <2>7. QED
      BY <2>1, <2>4, <2>5, <2>6, UndoesBy
  <1>12. QED
    BY <1>1, <1>2, <1>3, <1>4, <1>5, <1>6, <1>7, <1>8, <1>9, <1>10, <1>11

(* And every one of the other platforms.                                   *)
LEMMA UndoOthers ==
  ASSUME NEW p \in Known, p # "sm8150"
  PROVE  /\ Undoes(Undo(p, "icc"), p, 0)
         /\ Undoes(Undo(p, "max_ctrl"), p, 1)
         /\ Undoes(Undo(p, "reset"), p, 3)
         /\ Undoes(Undo(p, "axi"), p, 4)
         /\ Undoes(Undo(p, "ctrl"), p, 5)
         /\ Undoes(Undo(p, "max_hw"), p, 6)
         /\ Undoes(Undo(p, "hw"), p, 8)
         /\ Undoes(Undo(p, "hwmode"), p, 9)
  <1>0. Gives(<<"-ctrl", "-axi", "rate0", "-ctrl_pd">>, {"-ctrl", "-axi", "rate0", "-ctrl_pd"})
    BY DEF Gives, In, Returns
  <1>1. Undoes(Undo(p, "icc"), p, 0)
    <2>1. Undo(p, "icc") = <<>>
      BY DEF Undo, HwCalls
    <2>2. \A r \in Refs : ~(Place(p)[r] <= 0)
      BY DEF Place, Refs, Domains, Clocks
    <2>3. QED
      BY <2>1, <2>2, Pieces DEF Undoes, Raised
  <1>2. Undoes(Undo(p, "max_ctrl"), p, 1)
    <2>1. Undo(p, "max_ctrl") = <<>> \o <<"-icc">>
      BY DEF Undo, UndoHw, UndoController, HwCalls, PowerOffController
    <2>2. Gives(<<>> \o <<"-icc">>, {"-icc"})
      BY Pieces, GivesBoth
    <2>3. \A r \in Refs : Put[r] \in {"-icc"} <=> Place(p)[r] <= 1
      BY DEF Place, Put, Refs, Domains, Clocks
    <2>4. 1 < Raised(p) \/ "rate0" \in {"-icc"}
      BY DEF Raised
    <2>5. QED
      BY <2>1, <2>2, <2>3, <2>4, UndoesBy
  <1>3. Undoes(Undo(p, "reset"), p, 3)
    <2>1. Undo(p, "reset") = <<"rate0", "-ctrl_pd">> \o <<"-icc">>
      BY DEF Undo, UndoHw, UndoController, HwCalls, PowerOffController
    <2>2. Gives(<<"rate0", "-ctrl_pd">> \o <<"-icc">>, {"rate0", "-ctrl_pd", "-icc"})
      <3>1. {"rate0", "-ctrl_pd"} \cap {"-icc"} \subseteq {"rate0"}
        OBVIOUS
      <3>2. \A c : c \in {"rate0", "-ctrl_pd", "-icc"}
              <=> c \in {"rate0", "-ctrl_pd"} \/ c \in {"-icc"}
        OBVIOUS
      <3>3. QED
        BY <3>1, <3>2, Pieces, GivesBoth
    <2>3. \A r \in Refs : Put[r] \in {"rate0", "-ctrl_pd", "-icc"} <=> Place(p)[r] <= 3
      BY DEF Place, Put, Refs, Domains, Clocks
    <2>4. 3 < Raised(p) \/ "rate0" \in {"rate0", "-ctrl_pd", "-icc"}
      BY DEF Raised
    <2>5. QED
      BY <2>1, <2>2, <2>3, <2>4, UndoesBy
  <1>4. Undoes(Undo(p, "axi"), p, 4)
    <2>1. Undo(p, "axi") = <<>> \o <<"rate0", "-ctrl_pd">> \o <<"-icc">>
      BY DEF Undo, UndoHw, UndoController, HwCalls, PowerOffController
    <2>2. Gives(<<>> \o <<"rate0", "-ctrl_pd">>, {"rate0", "-ctrl_pd"})
      BY Pieces, GivesBoth
    <2>3. Gives(<<>> \o <<"rate0", "-ctrl_pd">> \o <<"-icc">>,
              {"rate0", "-ctrl_pd", "-icc"})
      <3>1. {"rate0", "-ctrl_pd"} \cap {"-icc"} \subseteq {"rate0"}
        OBVIOUS
      <3>2. \A c : c \in {"rate0", "-ctrl_pd", "-icc"}
              <=> c \in {"rate0", "-ctrl_pd"} \/ c \in {"-icc"}
        OBVIOUS
      <3>3. QED
        BY <3>1, <3>2, <2>2, Pieces, GivesBoth
    <2>4. \A r \in Refs : Put[r] \in {"rate0", "-ctrl_pd", "-icc"} <=> Place(p)[r] <= 4
      BY DEF Place, Put, Refs, Domains, Clocks
    <2>5. 4 < Raised(p) \/ "rate0" \in {"rate0", "-ctrl_pd", "-icc"}
      BY DEF Raised
    <2>6. QED
      BY <2>1, <2>3, <2>4, <2>5, UndoesBy
  <1>5. Undoes(Undo(p, "ctrl"), p, 5)
    <2>1. Undo(p, "ctrl") = <<"-axi">> \o <<>> \o <<"rate0", "-ctrl_pd">> \o <<"-icc">>
      BY DEF Undo, UndoHw, UndoController, HwCalls, PowerOffController
    <2>2. Gives(<<"-axi">> \o <<>>, {"-axi"})
      BY Pieces, GivesBoth
    <2>3. Gives(<<"-axi">> \o <<>> \o <<"rate0", "-ctrl_pd">>,
              {"-axi", "rate0", "-ctrl_pd"})
      <3>1. {"-axi"} \cap {"rate0", "-ctrl_pd"} \subseteq {"rate0"}
        OBVIOUS
      <3>2. \A c : c \in {"-axi", "rate0", "-ctrl_pd"}
              <=> c \in {"-axi"} \/ c \in {"rate0", "-ctrl_pd"}
        OBVIOUS
      <3>3. QED
        BY <3>1, <3>2, <2>2, Pieces, GivesBoth
    <2>4. Gives(<<"-axi">> \o <<>> \o <<"rate0", "-ctrl_pd">> \o <<"-icc">>,
              {"-axi", "rate0", "-ctrl_pd", "-icc"})
      <3>1. {"-axi", "rate0", "-ctrl_pd"} \cap {"-icc"} \subseteq {"rate0"}
        OBVIOUS
      <3>2. \A c : c \in {"-axi", "rate0", "-ctrl_pd", "-icc"}
              <=> c \in {"-axi", "rate0", "-ctrl_pd"} \/ c \in {"-icc"}
        OBVIOUS
      <3>3. QED
        BY <3>1, <3>2, <2>3, Pieces, GivesBoth
    <2>5. \A r \in Refs :
            Put[r] \in {"-axi", "rate0", "-ctrl_pd", "-icc"}
            <=> Place(p)[r] <= 5
      BY DEF Place, Put, Refs, Domains, Clocks
    <2>6. 5 < Raised(p) \/ "rate0" \in {"-axi", "rate0", "-ctrl_pd", "-icc"}
      BY DEF Raised
    <2>7. QED
      BY <2>1, <2>4, <2>5, <2>6, UndoesBy
  <1>6. Undoes(Undo(p, "max_hw"), p, 6)
    <2>1. Undo(p, "max_hw") =
            <<>> \o <<>> \o <<"-ctrl", "-axi", "rate0", "-ctrl_pd">> \o <<"-icc">>
      BY DEF Undo, UndoHw, UndoController, HwCalls, PowerOffController
    <2>2. Gives(<<>> \o <<>>, {})
      BY Pieces, GivesBoth
    <2>3. Gives(<<>> \o <<>> \o <<"-ctrl", "-axi", "rate0", "-ctrl_pd">>,
              {"-ctrl", "-axi", "rate0", "-ctrl_pd"})
      <3>1. {} \cap {"-ctrl", "-axi", "rate0", "-ctrl_pd"} \subseteq {"rate0"}
        OBVIOUS
      <3>2. \A c : c \in {"-ctrl", "-axi", "rate0", "-ctrl_pd"}
              <=> c \in {} \/ c \in {"-ctrl", "-axi", "rate0", "-ctrl_pd"}
        OBVIOUS
      <3>3. QED
        BY <3>1, <3>2, <1>0, <2>2, Pieces, GivesBoth
    <2>4. Gives(<<>> \o <<>> \o <<"-ctrl", "-axi", "rate0", "-ctrl_pd">> \o <<"-icc">>,
              {"-ctrl", "-axi", "rate0", "-ctrl_pd", "-icc"})
      <3>1. {"-ctrl", "-axi", "rate0", "-ctrl_pd"} \cap {"-icc"} \subseteq {"rate0"}
        OBVIOUS
      <3>2. \A c : c \in {"-ctrl", "-axi", "rate0", "-ctrl_pd", "-icc"}
              <=> c \in {"-ctrl", "-axi", "rate0", "-ctrl_pd"} \/ c \in {"-icc"}
        OBVIOUS
      <3>3. QED
        BY <3>1, <3>2, <2>3, Pieces, GivesBoth
    <2>5. \A r \in Refs :
            Put[r] \in {"-ctrl", "-axi", "rate0", "-ctrl_pd", "-icc"}
            <=> Place(p)[r] <= 6
      BY DEF Place, Put, Refs, Domains, Clocks
    <2>6. 6 < Raised(p) \/ "rate0" \in {"-ctrl", "-axi", "rate0", "-ctrl_pd", "-icc"}
      BY DEF Raised
    <2>7. QED
      BY <2>1, <2>4, <2>5, <2>6, UndoesBy
  <1>7. Undoes(Undo(p, "hw"), p, 8)
    <2>1. Undo(p, "hw") =
            <<"rate0", "-hw_pd">> \o <<>> \o <<"-ctrl", "-axi", "rate0", "-ctrl_pd">> \o <<"-icc">>
      BY DEF Undo, UndoHw, UndoController, HwCalls, PowerOffController
    <2>2. Gives(<<"rate0", "-hw_pd">> \o <<>>, {"rate0", "-hw_pd"})
      BY Pieces, GivesBoth
    <2>3. Gives(<<"rate0", "-hw_pd">> \o <<>> \o <<"-ctrl", "-axi", "rate0", "-ctrl_pd">>,
              {"rate0", "-hw_pd", "-ctrl", "-axi", "-ctrl_pd"})
      <3>1. {"rate0", "-hw_pd"} \cap {"-ctrl", "-axi", "rate0", "-ctrl_pd"} \subseteq {"rate0"}
        OBVIOUS
      <3>2. \A c : c \in {"rate0", "-hw_pd", "-ctrl", "-axi", "-ctrl_pd"}
              <=> c \in {"rate0", "-hw_pd"} \/ c \in {"-ctrl", "-axi", "rate0", "-ctrl_pd"}
        OBVIOUS
      <3>3. QED
        BY <3>1, <3>2, <1>0, <2>2, Pieces, GivesBoth
    <2>4. Gives(<<"rate0", "-hw_pd">> \o <<>> \o <<"-ctrl", "-axi", "rate0", "-ctrl_pd">> \o <<"-icc">>,
              {"rate0", "-hw_pd", "-ctrl", "-axi", "-ctrl_pd", "-icc"})
      <3>1. {"rate0", "-hw_pd", "-ctrl", "-axi", "-ctrl_pd"} \cap {"-icc"} \subseteq {"rate0"}
        OBVIOUS
      <3>2. \A c : c \in {"rate0", "-hw_pd", "-ctrl", "-axi", "-ctrl_pd", "-icc"}
              <=> c \in {"rate0", "-hw_pd", "-ctrl", "-axi", "-ctrl_pd"} \/ c \in {"-icc"}
        OBVIOUS
      <3>3. QED
        BY <3>1, <3>2, <2>3, Pieces, GivesBoth
    <2>5. \A r \in Refs :
            Put[r] \in {"rate0", "-hw_pd", "-ctrl", "-axi", "-ctrl_pd", "-icc"}
            <=> Place(p)[r] <= 8
      BY DEF Place, Put, Refs, Domains, Clocks
    <2>6. 8 < Raised(p) \/ "rate0" \in {"rate0", "-hw_pd", "-ctrl", "-axi", "-ctrl_pd", "-icc"}
      BY DEF Raised
    <2>7. QED
      BY <2>1, <2>4, <2>5, <2>6, UndoesBy
  <1>8. Undoes(Undo(p, "hwmode"), p, 9)
    <2>1. Undo(p, "hwmode") =
            <<"-hw", "rate0", "-hw_pd">> \o <<>> \o <<"-ctrl", "-axi", "rate0", "-ctrl_pd">> \o <<"-icc">>
      BY DEF Undo, UndoHw, UndoController, HwCalls, PowerOffController
    <2>2. Gives(<<"-hw", "rate0", "-hw_pd">> \o <<>>, {"-hw", "rate0", "-hw_pd"})
      <3>1. {"-hw", "rate0", "-hw_pd"} \cap {} \subseteq {"rate0"}
        OBVIOUS
      <3>2. \A c : c \in {"-hw", "rate0", "-hw_pd"}
              <=> c \in {"-hw", "rate0", "-hw_pd"} \/ c \in {}
        OBVIOUS
      <3>3. QED
        BY <3>1, <3>2, Pieces, GivesBoth
    <2>3. Gives(<<"-hw", "rate0", "-hw_pd">> \o <<>> \o <<"-ctrl", "-axi", "rate0", "-ctrl_pd">>,
              {"-hw", "rate0", "-hw_pd", "-ctrl", "-axi", "-ctrl_pd"})
      <3>1. {"-hw", "rate0", "-hw_pd"} \cap {"-ctrl", "-axi", "rate0", "-ctrl_pd"} \subseteq {"rate0"}
        OBVIOUS
      <3>2. \A c : c \in {"-hw", "rate0", "-hw_pd", "-ctrl", "-axi", "-ctrl_pd"}
              <=> c \in {"-hw", "rate0", "-hw_pd"} \/ c \in {"-ctrl", "-axi", "rate0", "-ctrl_pd"}
        OBVIOUS
      <3>3. QED
        BY <3>1, <3>2, <1>0, <2>2, Pieces, GivesBoth
    <2>4. Gives(<<"-hw", "rate0", "-hw_pd">> \o <<>> \o <<"-ctrl", "-axi", "rate0", "-ctrl_pd">> \o <<"-icc">>,
              {"-hw", "rate0", "-hw_pd", "-ctrl", "-axi", "-ctrl_pd", "-icc"})
      <3>1. {"-hw", "rate0", "-hw_pd", "-ctrl", "-axi", "-ctrl_pd"} \cap {"-icc"} \subseteq {"rate0"}
        OBVIOUS
      <3>2. \A c : c \in {"-hw", "rate0", "-hw_pd", "-ctrl", "-axi", "-ctrl_pd", "-icc"}
              <=> c \in {"-hw", "rate0", "-hw_pd", "-ctrl", "-axi", "-ctrl_pd"} \/ c \in {"-icc"}
        OBVIOUS
      <3>3. QED
        BY <3>1, <3>2, <2>3, Pieces, GivesBoth
    <2>5. \A r \in Refs :
            Put[r] \in {"-hw", "rate0", "-hw_pd", "-ctrl", "-axi", "-ctrl_pd", "-icc"}
            <=> Place(p)[r] <= 9
      BY DEF Place, Put, Refs, Domains, Clocks
    <2>6. 9 < Raised(p) \/ "rate0" \in {"-hw", "rate0", "-hw_pd", "-ctrl", "-axi", "-ctrl_pd", "-icc"}
      BY DEF Raised
    <2>7. QED
      BY <2>1, <2>4, <2>5, <2>6, UndoesBy
  <1>9. QED
    BY <1>1, <1>2, <1>3, <1>4, <1>5, <1>6, <1>7, <1>8

(* Whatever handled call of a power-on fails, the calls before are undone. *)
LEMMA UndoExact ==
  ASSUME NEW p \in Known, NEW i \in 1 .. Steps(p), PowerOnSeq(p)[i] \in Handled(p)
  PROVE  Undoes(Undo(p, PowerOnSeq(p)[i]), p, i - 1)
  <1>1. CASE p = "sm8150"
    <2>1. PowerOnSeq(p) = <<"icc", "ctrl_pd", "reset", "bus", "axi", "ctrl", "rate",
                            "hw_pd", "aux_pd", "hw_axi", "aux_axi", "hw", "aux_hw">> /\ Steps(p) = 13
      BY <1>1 DEF PowerOnSeq, Steps
    <2>2. Handled(p) = {"icc", "reset", "bus", "axi", "ctrl", "rate", "hw_pd", "aux_pd", "hw_axi",
                        "aux_axi", "hw"}
      BY <1>1 DEF Handled
    <2>3. i = 1 \/ i = 3 \/ i = 4 \/ i = 5 \/ i = 6 \/ i = 7
            \/ i = 8 \/ i = 9 \/ i = 10 \/ i = 11 \/ i = 12
      BY <2>1, <2>2
    <2>4. CASE i = 1
      <3>1. PowerOnSeq(p)[i] = "icc" /\ i - 1 = 0
        BY <2>1, <2>4
      <3>2. QED
        BY <1>1, <3>1, UndoSm8150
    <2>5. CASE i = 3
      <3>1. PowerOnSeq(p)[i] = "reset" /\ i - 1 = 2
        BY <2>1, <2>5
      <3>2. QED
        BY <1>1, <3>1, UndoSm8150
    <2>6. CASE i = 4
      <3>1. PowerOnSeq(p)[i] = "bus" /\ i - 1 = 3
        BY <2>1, <2>6
      <3>2. QED
        BY <1>1, <3>1, UndoSm8150
    <2>7. CASE i = 5
      <3>1. PowerOnSeq(p)[i] = "axi" /\ i - 1 = 4
        BY <2>1, <2>7
      <3>2. QED
        BY <1>1, <3>1, UndoSm8150
    <2>8. CASE i = 6
      <3>1. PowerOnSeq(p)[i] = "ctrl" /\ i - 1 = 5
        BY <2>1, <2>8
      <3>2. QED
        BY <1>1, <3>1, UndoSm8150
    <2>9. CASE i = 7
      <3>1. PowerOnSeq(p)[i] = "rate" /\ i - 1 = 6
        BY <2>1, <2>9
      <3>2. QED
        BY <1>1, <3>1, UndoSm8150
    <2>10. CASE i = 8
      <3>1. PowerOnSeq(p)[i] = "hw_pd" /\ i - 1 = 7
        BY <2>1, <2>10
      <3>2. QED
        BY <1>1, <3>1, UndoSm8150
    <2>11. CASE i = 9
      <3>1. PowerOnSeq(p)[i] = "aux_pd" /\ i - 1 = 8
        BY <2>1, <2>11
      <3>2. QED
        BY <1>1, <3>1, UndoSm8150
    <2>12. CASE i = 10
      <3>1. PowerOnSeq(p)[i] = "hw_axi" /\ i - 1 = 9
        BY <2>1, <2>12
      <3>2. QED
        BY <1>1, <3>1, UndoSm8150
    <2>13. CASE i = 11
      <3>1. PowerOnSeq(p)[i] = "aux_axi" /\ i - 1 = 10
        BY <2>1, <2>13
      <3>2. QED
        BY <1>1, <3>1, UndoSm8150
    <2>14. CASE i = 12
      <3>1. PowerOnSeq(p)[i] = "hw" /\ i - 1 = 11
        BY <2>1, <2>14
      <3>2. QED
        BY <1>1, <3>1, UndoSm8150
    <2>15. QED
      BY <2>3, <2>4, <2>5, <2>6, <2>7, <2>8, <2>9, <2>10, <2>11, <2>12, <2>13, <2>14
  <1>2. CASE p # "sm8150"
    <2>1. PowerOnSeq(p) = <<"icc", "max_ctrl", "ctrl_pd", "reset", "axi", "ctrl", "max_hw",
                            "hw_pd", "hw", "hwmode", "rate">> /\ Steps(p) = 11
      BY <1>2 DEF PowerOnSeq, Steps
    <2>2. Handled(p) = {"icc", "max_ctrl", "reset", "axi", "ctrl", "max_hw", "hw", "hwmode"}
      BY <1>2 DEF Handled
    <2>3. i = 1 \/ i = 2 \/ i = 4 \/ i = 5 \/ i = 6 \/ i = 7
            \/ i = 9 \/ i = 10
      BY <2>1, <2>2
    <2>4. CASE i = 1
      <3>1. PowerOnSeq(p)[i] = "icc" /\ i - 1 = 0
        BY <2>1, <2>4
      <3>2. QED
        BY <1>2, <3>1, UndoOthers
    <2>5. CASE i = 2
      <3>1. PowerOnSeq(p)[i] = "max_ctrl" /\ i - 1 = 1
        BY <2>1, <2>5
      <3>2. QED
        BY <1>2, <3>1, UndoOthers
    <2>6. CASE i = 4
      <3>1. PowerOnSeq(p)[i] = "reset" /\ i - 1 = 3
        BY <2>1, <2>6
      <3>2. QED
        BY <1>2, <3>1, UndoOthers
    <2>7. CASE i = 5
      <3>1. PowerOnSeq(p)[i] = "axi" /\ i - 1 = 4
        BY <2>1, <2>7
      <3>2. QED
        BY <1>2, <3>1, UndoOthers
    <2>8. CASE i = 6
      <3>1. PowerOnSeq(p)[i] = "ctrl" /\ i - 1 = 5
        BY <2>1, <2>8
      <3>2. QED
        BY <1>2, <3>1, UndoOthers
    <2>9. CASE i = 7
      <3>1. PowerOnSeq(p)[i] = "max_hw" /\ i - 1 = 6
        BY <2>1, <2>9
      <3>2. QED
        BY <1>2, <3>1, UndoOthers
    <2>10. CASE i = 9
      <3>1. PowerOnSeq(p)[i] = "hw" /\ i - 1 = 8
        BY <2>1, <2>10
      <3>2. QED
        BY <1>2, <3>1, UndoOthers
    <2>11. CASE i = 10
      <3>1. PowerOnSeq(p)[i] = "hwmode" /\ i - 1 = 9
        BY <2>1, <2>11
      <3>2. QED
        BY <1>2, <3>1, UndoOthers
    <2>12. QED
      BY <2>3, <2>4, <2>5, <2>6, <2>7, <2>8, <2>9, <2>10, <2>11
  <1>3. QED
    BY <1>1, <1>2

(* A power-off whose register polls are answered gives everything back.    *)
LEMMA OffExact ==
  ASSUME NEW p \in Known
  PROVE  Undoes(PowerOffSeq(p, TRUE), p, Steps(p))
  <1>1. CASE p = "sm8150"
    <2> DEFINE a == <<"rate0">>
               b == <<"-aux_hw", "-hw", "-aux_axi", "-hw_axi", "-aux_pd", "-hw_pd">>
               c == <<"-ctrl", "-axi", "-bus", "-ctrl_pd">>
               A == {"rate0", "-aux_hw", "-hw", "-aux_axi", "-hw_axi", "-aux_pd", "-hw_pd"}
               B == A \cup {"-ctrl", "-axi", "-bus", "-ctrl_pd"}
               C == B \cup {"-icc"}
    <2>1. PowerOffSeq(p, TRUE) = a \o b \o c \o <<"-icc">>
      BY <1>1 DEF PowerOffSeq, PowerOffHw, PowerOffController
    <2>2. Gives(b, A \ {"rate0"}) /\ Gives(c, {"-ctrl", "-axi", "-bus", "-ctrl_pd"})
      BY DEF Gives, In, Returns
    <2>3. Gives(a \o b, A)
      <3> HIDE DEF b
      <3>1. {"rate0"} \cap (A \ {"rate0"}) \subseteq {"rate0"}
        OBVIOUS
      <3>2. \A x : x \in A <=> x \in {"rate0"} \/ x \in A \ {"rate0"}
        OBVIOUS
      <3>3. QED
        BY <2>2, <3>1, <3>2, Pieces, GivesBoth
    <2>4. Gives(a \o b \o c, B)
      <3>1. A \cap {"-ctrl", "-axi", "-bus", "-ctrl_pd"} \subseteq {"rate0"}
        OBVIOUS
      <3>2. \A x : x \in B <=> x \in A \/ x \in {"-ctrl", "-axi", "-bus", "-ctrl_pd"}
        OBVIOUS
      <3> HIDE DEF a, b, c, A, B
      <3>3. QED
        BY <2>2, <2>3, <3>1, <3>2, GivesBoth
    <2>5. Gives(a \o b \o c \o <<"-icc">>, C)
      <3>1. B \cap {"-icc"} \subseteq {"rate0"}
        OBVIOUS
      <3>2. \A x : x \in C <=> x \in B \/ x \in {"-icc"}
        OBVIOUS
      <3> HIDE DEF a, b, c, A, B, C
      <3>3. QED
        BY <2>4, <3>1, <3>2, Pieces, GivesBoth
    <2>6. \A r \in Refs : Put[r] \in C <=> Place(p)[r] <= Steps(p)
      BY <1>1 DEF Place, Put, Refs, Domains, Clocks, Steps
    <2>7. "rate0" \in C /\ "-icc" \in C
      OBVIOUS
    <2> HIDE DEF a, b, c, A, B, C
    <2>8. QED
      BY <2>1, <2>5, <2>6, <2>7, UndoesBy
  <1>2. CASE p # "sm8150"
    <2> DEFINE a == <<"rate0">>
               b == <<"-hwmode", "-hw", "rate0", "-hw_pd">>
               c == <<"-ctrl", "-axi", "rate0", "-ctrl_pd">>
               d == <<"-ctrl">> \o <<"rate0", "-ctrl_pd", "-axi">>
               e == IF p = "sm8650" THEN d ELSE c
               A == {"rate0", "-hwmode", "-hw", "-hw_pd"}
               D == {"-ctrl", "-axi", "rate0", "-ctrl_pd"}
               B == A \cup D
               C == B \cup {"-icc"}
    <2>1. PowerOffSeq(p, TRUE) = a \o b \o e \o <<"-icc">>
      BY <1>2 DEF PowerOffSeq, PowerOffHw, PowerOffController, Vpu33PowerOffController
    <2>2. Gives(b, A) /\ Gives(c, D) /\ Gives(<<"rate0", "-ctrl_pd", "-axi">>, D \ {"-ctrl"})
      BY DEF Gives, In, Returns
    <2>3. Gives(e, D)
      <3>1. {"-ctrl"} \cap (D \ {"-ctrl"}) \subseteq {"rate0"}
        OBVIOUS
      <3>2. \A x : x \in D <=> x \in {"-ctrl"} \/ x \in D \ {"-ctrl"}
        OBVIOUS
      <3> HIDE DEF c, D
      <3>3. Gives(d, D)
        BY <2>2, <3>1, <3>2, Pieces, GivesBoth
      <3>4. QED
        BY <2>2, <3>3
    <2>4. Gives(a \o b, A)
      <3>1. {"rate0"} \cap A \subseteq {"rate0"}
        OBVIOUS
      <3>2. \A x : x \in A <=> x \in {"rate0"} \/ x \in A
        OBVIOUS
      <3> HIDE DEF b, A
      <3>3. QED
        BY <2>2, <3>1, <3>2, Pieces, GivesBoth
    <2>5. Gives(a \o b \o e, B)
      <3>1. A \cap D \subseteq {"rate0"}
        OBVIOUS
      <3>2. \A x : x \in B <=> x \in A \/ x \in D
        OBVIOUS
      <3> HIDE DEF a, b, e, A, B, D
      <3>3. QED
        BY <2>3, <2>4, <3>1, <3>2, GivesBoth
    <2>6. Gives(a \o b \o e \o <<"-icc">>, C)
      <3>1. B \cap {"-icc"} \subseteq {"rate0"}
        OBVIOUS
      <3>2. \A x : x \in C <=> x \in B \/ x \in {"-icc"}
        OBVIOUS
      <3> HIDE DEF a, b, e, A, B, C, D
      <3>3. QED
        BY <2>5, <3>1, <3>2, Pieces, GivesBoth
    <2>7. \A r \in Refs : Put[r] \in C <=> Place(p)[r] <= Steps(p)
      BY <1>2 DEF Place, Put, Refs, Domains, Clocks, Steps
    <2>8. "rate0" \in C /\ "-icc" \in C
      OBVIOUS
    <2> HIDE DEF a, b, e, A, B, C, D
    <2>9. QED
      BY <2>1, <2>6, <2>7, <2>8, UndoesBy
  <1>3. QED
    BY <1>1, <1>2

(* The first call of a list and the rest.                                  *)
LEMMA HeadTail ==
  ASSUME NEW T, NEW q \in Seq(T), q # <<>>
  PROVE  /\ Tail(q) \in Seq(T) /\ Head(q) \in T /\ Head(q) = q[1]
         /\ Len(q) \in Nat \ {0} /\ Len(Tail(q)) = Len(q) - 1
         /\ \A i \in 1 .. Len(q) - 1 : Tail(q)[i] = q[i + 1]
         /\ \A call : In(call, q) <=> call = Head(q) \/ In(call, Tail(q))
  <1>1. /\ Tail(q) \in Seq(T) /\ Head(q) \in T /\ Head(q) = q[1]
        /\ Len(q) \in Nat \ {0} /\ Len(Tail(q)) = Len(q) - 1
        /\ \A i \in 1 .. Len(q) - 1 : Tail(q)[i] = q[i + 1]
    OBVIOUS
  <1>2. ASSUME NEW call
        PROVE  In(call, q) <=> call = Head(q) \/ In(call, Tail(q))
    <2>1. ASSUME NEW i \in 1 .. Len(q), q[i] = call
          PROVE  call = Head(q) \/ In(call, Tail(q))
      <3>1. CASE i = 1
        BY <1>1, <2>1, <3>1
      <3>2. CASE i # 1
        <4>1. i - 1 \in 1 .. Len(Tail(q)) /\ Tail(q)[i - 1] = q[i]
          BY <1>1, <3>2
        <4>2. QED
          BY <2>1, <4>1 DEF In
      <3>3. QED
        BY <3>1, <3>2
    <2>2. ASSUME NEW i \in 1 .. Len(Tail(q)), Tail(q)[i] = call
          PROVE  In(call, q)
      <3>1. i + 1 \in 1 .. Len(q) /\ q[i + 1] = call
        BY <1>1, <2>2
      <3>2. QED
        BY <3>1 DEF In
    <2>3. In(Head(q), q)
      BY <1>1 DEF In
    <2>4. QED
      BY <2>1, <2>2, <2>3 DEF In
  <1>3. QED
    BY <1>1, <1>2

(* A list that gives back, after its first call.                           *)
LEMMA GivesTail ==
  ASSUME NEW q, NEW S, Gives(q, S), q # <<>>
  PROVE  /\ \E R : Gives(Tail(q), R)
         /\ Head(q) # "rate0" => ~In(Head(q), Tail(q))
  <1> DEFINE R == {c \in S : In(c, Tail(q))}
  <1>1. q \in Seq(Returns)
    BY DEF Gives
  <1>2. \A c : In(c, Tail(q)) => In(c, q)
    BY <1>1, HeadTail
  <1>3. \A c : In(c, Tail(q)) <=> c \in R
    BY <1>2 DEF Gives
  <1>4. Tail(q) \in Seq(Returns)
    BY <1>1, HeadTail
  <1>5. /\ Head(q) = q[1] /\ Len(q) \in Nat \ {0} /\ Len(Tail(q)) = Len(q) - 1
        /\ \A i \in 1 .. Len(q) - 1 : Tail(q)[i] = q[i + 1]
    BY <1>1, HeadTail
  <1>6. ASSUME NEW i \in 1 .. Len(Tail(q)), NEW j \in 1 .. Len(Tail(q)),
               i # j, Tail(q)[i] = Tail(q)[j]
        PROVE  Tail(q)[i] = "rate0"
    <2>1. i + 1 \in 1 .. Len(q) /\ j + 1 \in 1 .. Len(q) /\ i + 1 # j + 1
      BY <1>5, <1>6
    <2>2. q[i + 1] = q[j + 1] /\ Tail(q)[i] = q[i + 1]
      BY <1>5, <1>6
    <2>3. QED
      BY <2>1, <2>2 DEF Gives
  <1>7. ASSUME Head(q) # "rate0", NEW i \in 1 .. Len(Tail(q)), Tail(q)[i] = Head(q)
        PROVE  FALSE
    <2>1. i + 1 \in 1 .. Len(q) /\ 1 \in 1 .. Len(q) /\ i + 1 # 1
      BY <1>5
    <2>2. q[i + 1] = q[1] /\ q[1] # "rate0"
      BY <1>5, <1>7
    <2>3. QED
      BY <2>1, <2>2 DEF Gives
  <1>8. Gives(Tail(q), R)
    BY <1>3, <1>4, <1>6 DEF Gives
  <1>9. QED
    BY <1>7, <1>8 DEF In

-----------------------------------------------------------------------------
(* The one hypothesis of the references: only handled calls fail.          *)
HandledOnly == \A p, f : <<p, f>> \in CanFail => f \in Handled(p) \/ f = "vote"

Answered == Answers \subseteq {TRUE}

(* The type of the interrupt line, field by field.                         *)
LEMMA LineSteps ==
  ASSUME NEW i \in LineType
  PROVE  /\ \A d \in Int, t \in {"idle", "woken", "handling"} :
              /\ [i EXCEPT !.depth = d] \in LineType
              /\ [i EXCEPT !.depth = d, !.thread = t] \in LineType
              /\ [i EXCEPT !.thread = t] \in LineType
              /\ [i EXCEPT !.thread = t, !.depth = d] \in LineType
              /\ [i EXCEPT !.status = {}, !.depth = d] \in LineType
         /\ \A b \in BOOLEAN : [i EXCEPT !.idle_opp = b] \in LineType
         /\ \A P \in SUBSET {"message", "watchdog"} : [i EXCEPT !.pend = P] \in LineType
         /\ ClearInterrupt(i) \in LineType
         /\ i.depth \in Int /\ i.pend \subseteq {"message", "watchdog"}
  BY DEF LineType, ClearInterrupt

(* A session changes where it is and its figures.                          *)
LEMMA SessionSteps ==
  ASSUME NEW f \in [Sessions -> SessionType], NEW x \in Sessions,
         NEW t \in {"idle", "clocks", "icc", "unvote"}, NEW b \in Nat, NEW d \in {0, 1}
  PROVE  /\ [f EXCEPT ![x].at = t] \in [Sessions -> SessionType]
         /\ [f EXCEPT ![x].bw = b, ![x].at = t] \in [Sessions -> SessionType]
         /\ [f EXCEPT ![x].data = d, ![x].freq = b, ![x].at = t] \in [Sessions -> SessionType]
         /\ [f EXCEPT ![x].data = d, ![x].bw = b, ![x].at = t] \in [Sessions -> SessionType]
  <1>1. \A s \in SessionType :
          /\ [s EXCEPT !.at = t] \in SessionType
          /\ [s EXCEPT !.bw = b] \in SessionType /\ [s EXCEPT !.freq = b] \in SessionType
          /\ [s EXCEPT !.data = d] \in SessionType
    BY DEF SessionType
  <1>3. \A s \in SessionType : [f EXCEPT ![x] = s] \in [Sessions -> SessionType]
    OBVIOUS
  <1>4. f[x] \in SessionType
    OBVIOUS
  <1>5. [f EXCEPT ![x].at = t] = [f EXCEPT ![x] = [f[x] EXCEPT !.at = t]]
    OBVIOUS
  <1>6. [f EXCEPT ![x].bw = b, ![x].at = t]
          = [f EXCEPT ![x] = [[f[x] EXCEPT !.bw = b] EXCEPT !.at = t]]
    OBVIOUS
  <1>7. [f EXCEPT ![x].data = d, ![x].freq = b, ![x].at = t]
          = [f EXCEPT ![x] = [[[f[x] EXCEPT !.data = d] EXCEPT !.freq = b] EXCEPT !.at = t]]
    OBVIOUS
  <1>8. [f EXCEPT ![x].data = d, ![x].bw = b, ![x].at = t]
          = [f EXCEPT ![x] = [[[f[x] EXCEPT !.data = d] EXCEPT !.bw = b] EXCEPT !.at = t]]
    OBVIOUS
  <1>9. QED
    BY <1>1, <1>3, <1>4, <1>5, <1>6, <1>7, <1>8

(* A session opens and closes.                                             *)
LEMMA SessionEnds ==
  ASSUME NEW f \in [Sessions -> SessionType], NEW x \in Sessions
  PROVE  /\ [f EXCEPT ![x].opened = TRUE] \in [Sessions -> SessionType]
         /\ [f EXCEPT ![x] = [Fresh EXCEPT !.at = "unvote"]] \in [Sessions -> SessionType]
  <1>1. f[x] \in SessionType
    OBVIOUS
  <1>2. [Fresh EXCEPT !.at = "unvote"] \in SessionType
    BY DEF SessionType, Fresh
  <1>3. [f[x] EXCEPT !.opened = TRUE] \in SessionType
    BY <1>1 DEF SessionType
  <1>4. [f EXCEPT ![x].opened = TRUE] = [f EXCEPT ![x] = [f[x] EXCEPT !.opened = TRUE]]
    OBVIOUS
  <1>5. QED
    BY <1>2, <1>3, <1>4

(* The types, for every step.                                              *)
LEMMA Shaped ==
  ASSUME Shape, [Next]_vars
  PROVE  Shape'
  <1> USE DEF Shape
  <1>0. irq \in LineType /\ irq.depth \in Int /\ irq.depth - 1 \in Int /\ irq.depth + 1 \in Int
        /\ irq.pend \subseteq {"message", "watchdog"}
    BY DEF LineType
  <1>1. CASE UNCHANGED vars
    BY <1>1 DEF vars
  <1>2. ASSUME NEW boot \in BOOLEAN, PowerOn(boot)
        PROVE  Shape'
    BY <1>0, <1>2, LineSteps DEF PowerOn
  <1>3. CASE PowerOff
    BY <1>0, <1>3, LineSteps DEF PowerOff
  <1>4. CASE Call
    <2>1. held' \in [Refs -> Int]
      BY <1>4 DEF Call, Reference
    <2>2. DOMAIN vote' = VoteFields
      BY <1>4 DEF Call, VoteOf, OppSetRate, SetIccBw, UnsetIccBw, VoteFields
    <2>3. irq' \in LineType
      BY <1>0, <1>4, LineSteps DEF Call
    <2>4. QED
      BY <1>4, <2>1, <2>2, <2>3 DEF Call
  <1>5. CASE CallFails
    <2>1. /\ held' = held \/ held' = [held EXCEPT ![Head(todo)] = @ + 1]
          /\ vpu' = [vpu EXCEPT !.phase = "undo"]
          /\ UNCHANGED <<plat, vote, inst, irq>>
      BY <1>5 DEF CallFails
    <2>2. held' \in [Refs -> Int]
      <3>1. CASE Head(todo) \in Refs
        <4>1. held[Head(todo)] + 1 \in Int
          BY <3>1
        <4>2. QED
          BY <2>1, <4>1
      <3>2. CASE Head(todo) \notin Refs
        BY <2>1, <3>2
      <3>3. QED
        BY <3>1, <3>2
    <2>3. QED
      BY <2>1, <2>2
  <1>6. CASE PoweredOn
    <2>1. irq' \in LineType
      BY <1>0, <1>6, LineSteps DEF PoweredOn
    <2>2. QED
      BY <1>6, <2>1 DEF PoweredOn
  <1>7. CASE PowerOnFailed
    BY <1>0, <1>7, LineSteps DEF PowerOnFailed
  <1>8. CASE PoweredOff
    <2>1. irq' \in LineType
      BY <1>0, <1>8, LineSteps DEF PoweredOff, DisableIrq
    <2>2. QED
      BY <1>8, <2>1 DEF PoweredOff
  <1>9. CASE Raise
    <2>1. PICK src \in {"message", "watchdog"} : irq' = [irq EXCEPT !.pend = irq.pend \cup {src}]
      BY <1>9 DEF Raise
    <2>2. irq' \in LineType
      BY <1>0, <2>1, LineSteps
    <2>3. QED
      BY <1>9, <2>2 DEF Raise
  <1>10. CASE Isr
    <2> DEFINE i == [irq EXCEPT !.depth = irq.depth + 1, !.thread = "woken"]
    <2>1. i \in LineType
      BY <1>0, LineSteps
    <2>2. irq' = i \/ irq' = ClearInterrupt(i)
      BY <1>10 DEF Isr
    <2>3. irq' \in LineType
      <3> HIDE DEF i
      <3>1. QED
        BY <2>1, <2>2, LineSteps
    <2>4. QED
      BY <1>10, <2>3 DEF Isr
  <1>11. CASE IsrThread
    <2> DEFINE i == [irq EXCEPT !.thread = "handling"]
    <2>1. i \in LineType
      BY <1>0, LineSteps
    <2>2. irq' = i \/ irq' = ClearInterrupt(i)
      BY <1>11 DEF IsrThread
    <2>3. irq' \in LineType
      <3> HIDE DEF i
      <3>1. QED
        BY <2>1, <2>2, LineSteps
    <2>4. QED
      BY <1>11, <2>3 DEF IsrThread
  <1>12. CASE IsrThreadEnd
    <2>1. PICK d \in Int : irq' = [irq EXCEPT !.thread = "idle", !.depth = d]
      BY <1>0, <1>12 DEF IsrThreadEnd
    <2>2. irq' \in LineType
      BY <1>0, <2>1, LineSteps
    <2>3. QED
      BY <1>12, <2>2 DEF IsrThreadEnd
  <1>13. CASE SetIdleOpp
    <2>1. irq' \in LineType
      BY <1>0, <1>13, LineSteps DEF SetIdleOpp
    <2>2. QED
      BY <1>13, <2>1 DEF SetIdleOpp, SetClocks, OppSetRate, VoteFields
  <1>14. ASSUME NEW x \in Sessions, OpenSession(x) \/ CloseSession(x)
         PROVE  Shape'
    <2>1. inst' \in [Sessions -> SessionType]
      <3>1. \/ inst' = [inst EXCEPT ![x].opened = TRUE]
            \/ inst' = [inst EXCEPT ![x] = [Fresh EXCEPT !.at = "unvote"]]
        BY <1>14 DEF OpenSession, CloseSession
      <3>2. /\ [inst EXCEPT ![x].opened = TRUE] \in [Sessions -> SessionType]
            /\ [inst EXCEPT ![x] = [Fresh EXCEPT !.at = "unvote"]]
                 \in [Sessions -> SessionType]
        BY SessionEnds
      <3>3. QED
        BY <3>1, <3>2
    <2>2. QED
      BY <1>14, <2>1 DEF OpenSession, CloseSession
  <1>15. ASSUME NEW x \in Sessions, ScalePower(x)
         PROVE  Shape'
    <2>1. Freqs \subseteq Nat /\ Bws \subseteq Nat
      BY PowerAssumption
    <2>2. ASSUME NEW f \in Freqs,
                 inst' = [inst EXCEPT ![x].data = 1, ![x].freq = f, ![x].at = "clocks"]
          PROVE  inst' \in [Sessions -> SessionType]
      BY <2>1, <2>2, SessionSteps
    <2>3. ASSUME NEW b \in Bws,
                 inst' = [inst EXCEPT ![x].data = 0, ![x].bw = b, ![x].at = "icc"]
          PROVE  inst' \in [Sessions -> SessionType]
      BY <2>1, <2>3, SessionSteps
    <2>4. inst' \in [Sessions -> SessionType]
      BY <1>15, <2>2, <2>3 DEF ScalePower
    <2>5. QED
      BY <1>15, <2>4 DEF ScalePower
  <1>16. ASSUME NEW x \in Sessions, VoteClocks(x)
         PROVE  Shape'
    <2>1. PICK b \in Nat : inst' = [inst EXCEPT ![x].bw = b, ![x].at = "icc"]
      BY <1>16, PowerAssumption DEF VoteClocks
    <2>2. inst' \in [Sessions -> SessionType]
      BY <2>1, SessionSteps
    <2>3. DOMAIN vote' = VoteFields
      BY <1>16 DEF VoteClocks, SetClocks, OppSetRate, VoteFields
    <2>4. QED
      BY <1>16, <2>2, <2>3 DEF VoteClocks
  <1>17. ASSUME NEW x \in Sessions, VoteClocksFails(x) \/ VoteIcc(x) \/ UnvoteClocks(x)
         PROVE  Shape'
    <2>1. PICK t \in {"idle", "icc"} : inst' = [inst EXCEPT ![x].at = t]
      BY <1>17 DEF VoteClocksFails, VoteIcc, UnvoteClocks
    <2>2. inst' \in [Sessions -> SessionType]
      BY <2>1, SessionSteps
    <2>3. DOMAIN vote' = VoteFields
      BY <1>17 DEF VoteClocksFails, VoteIcc, UnvoteClocks, SetClocks, OppSetRate, SetIccBw,
                   VoteFields
    <2>4. QED
      BY <1>17, <2>2, <2>3 DEF VoteClocksFails, VoteIcc, UnvoteClocks
  <1>18. QED
    BY <1>1, <1>2, <1>3, <1>4, <1>5, <1>6, <1>7, <1>8, <1>9, <1>10, <1>11, <1>12, <1>13,
       <1>14, <1>15, <1>16, <1>17 DEF Next

(* Where the references are in a power-on.                                 *)
LEMMA Places ==
  ASSUME NEW p \in Known
  PROVE  /\ Steps(p) \in {11, 13} /\ Raised(p) \in {2, 7} /\ Rated(p) \in {7, 11}
         /\ Raised(p) <= Rated(p) /\ Rated(p) <= Steps(p)
         /\ \A r \in Refs : Place(p)[r] \in 1 .. 14
  BY DEF Steps, Raised, Rated, Place, Refs, Domains, Clocks

(* A power-on begins with nothing held and no vote.                        *)
LEMMA PowerOnKeeps ==
  ASSUME Shape, PowerInv, NEW boot \in BOOLEAN, PowerOn(boot)
  PROVE  PowerInv'
  <1> USE DEF Shape
  <1>1. /\ plat \in Known /\ plat' = plat /\ todo' = PowerOnSeq(plat) /\ held' = held
        /\ vote' = vote /\ inst' = inst /\ vpu'.phase = "on" /\ ~vpu'.ok
    BY DEF PowerOn
  <1>2. /\ \A r \in Refs : held[r] = 0
        /\ vote.opp = 0 /\ vote.icc = 0 /\ vote.icc = vote.icc_bw
        /\ \A x \in Sessions : ~inst[x].opened /\ inst[x].at = "idle"
    BY DEF PowerOn, PowerInv, LockFree, AtRest
  <1>3. Len(todo') = Steps(plat) /\ Made' = 0
    BY <1>1, OnCalls, Places DEF Made
  <1>4. Opening'
    <2>1. todo' \in Seq(Takes) /\ Len(todo') <= Steps(plat')
      BY <1>1, <1>3, OnCalls, Places
    <2>2. \A i \in 1 .. Len(todo') : todo'[i] = PowerOnSeq(plat')[Made' + i]
      BY <1>1, <1>3
    <2>3. \A r \in Refs : held'[r] = IF Place(plat')[r] <= Made' THEN 1 ELSE 0
      <3>1. \A r \in Refs : Place(plat)[r] \in 1 .. 14
        BY <1>1, Places
      <3>2. QED
        BY <1>1, <1>2, <1>3, <3>1
    <2>4. vote'.opp = 0 /\ vote'.icc = 0 /\ ~(Made' >= Rated(plat'))
      BY <1>1, <1>2, <1>3, Places
    <2>5. QED
      BY <2>1, <2>2, <2>3, <2>4 DEF Opening
  <1>5. QED
    BY <1>1, <1>2, <1>4 DEF PowerInv

(* A power-off is to give back all that is held.                           *)
LEMMA PowerOffKeeps ==
  ASSUME Shape, PowerInv, Answered, PowerOff
  PROVE  PowerInv'
  <1> USE DEF Shape
  <1>1. /\ plat \in Known /\ plat' = plat /\ held' = held
        /\ vote' = vote /\ inst' = inst /\ vpu'.phase = "off" /\ ~vpu'.ok
        /\ todo' = PowerOffSeq(plat, TRUE)
    BY DEF PowerOff, Answered
  <1>2. /\ \A r \in Refs : held[r] = IF Place(plat)[r] <= Steps(plat) THEN 1 ELSE 0
        /\ vote.icc = vote.icc_bw
        /\ \A x \in Sessions : ~inst[x].opened /\ inst[x].at = "idle"
    BY DEF PowerOff, PowerInv, LockFree, AtRest
  <1>3. PICK S : /\ Gives(todo', S)
                 /\ \A r \in Refs : Put[r] \in S <=> Place(plat)[r] <= Steps(plat)
                 /\ Steps(plat) < Raised(plat) \/ "rate0" \in S
                 /\ Steps(plat) < 1 \/ "-icc" \in S
    BY <1>1, OffExact DEF Undoes
  <1>4. \A call : In(call, todo') <=> call \in S
    BY <1>3 DEF Gives
  <1>5. "rate0" \in S /\ "-icc" \in S
    BY <1>1, <1>3, Places
  <1>6. Closing'
    <2>1. \E R : Gives(todo', R)
      BY <1>3
    <2>2. \A r \in Refs : held'[r] = IF In(Put[r], todo') THEN 1 ELSE 0
      BY <1>1, <1>2, <1>3, <1>4
    <2>3. In("rate0", todo') /\ In("-icc", todo')
      BY <1>4, <1>5
    <2>4. QED
      BY <2>1, <2>2, <2>3 DEF Closing
  <1>7. QED
    BY <1>1, <1>2, <1>6 DEF PowerInv

(* The votes of the calls that give back.                                  *)
LEMMA VoteReturns ==
  ASSUME NEW op \in Returns
  PROVE  VoteOf(op) = IF op = "rate0" THEN OppSetRate(vote, 0)
                      ELSE IF op = "-icc" THEN UnsetIccBw(vote) ELSE vote
  BY DEF Returns, VoteOf

(* The remembered bandwidth is the bandwidth voted, after every call.      *)
LEMMA IccCall ==
  ASSUME Shape, vote.icc = vote.icc_bw, NEW op
  PROVE  VoteOf(op).icc = VoteOf(op).icc_bw
  BY DEF Shape, VoteFields, VoteOf, OppSetRate, UnsetIccBw, SetIccBw

(* A call on the way up: one more reference is held, and the votes follow. *)
LEMMA CallUpKeeps ==
  ASSUME Shape, PowerInv, Call, vpu.phase = "on"
  PROVE  PowerInv'
  <1> USE DEF Shape
  <1> DEFINE n == Made + 1
             op == Head(todo)
  <1>1. /\ Opening /\ ~vpu.ok /\ vote.icc = vote.icc_bw
        /\ \A x \in Sessions : ~inst[x].opened /\ inst[x].at = "idle"
    BY DEF PowerInv
  <1>2. /\ plat' = plat /\ vpu' = vpu /\ inst' = inst /\ plat \in Known
        /\ todo # <<>> /\ todo' = Tail(todo) /\ vote' = VoteOf(op)
    BY DEF Call
  <1>3. /\ todo \in Seq(Takes) /\ todo' \in Seq(Takes) /\ op = todo[1]
        /\ Len(todo) \in Nat \ {0} /\ Len(todo') = Len(todo) - 1
        /\ \A i \in 1 .. Len(todo) - 1 : todo'[i] = todo[i + 1]
    BY <1>1, <1>2, HeadTail DEF Opening
  <1>4. /\ Steps(plat) \in {11, 13} /\ Raised(plat) \in {2, 7} /\ Rated(plat) \in {7, 11}
        /\ Raised(plat) <= Rated(plat) /\ Rated(plat) <= Steps(plat)
        /\ \A r \in Refs : Place(plat)[r] \in 1 .. 14
    BY <1>2, Places
  <1>5. Made \in Nat /\ Made' = n /\ n \in 1 .. Steps(plat)
    BY <1>1, <1>2, <1>3, <1>4 DEF Made, Opening
  <1>6. op = PowerOnSeq(plat)[n]
    BY <1>1, <1>3, <1>5 DEF Opening
  <1>7. /\ \A r \in Refs : op = r <=> Place(plat)[r] = n
        /\ \A r \in Refs : op # Put[r]
        /\ op \notin {"rate0", "-icc"}
        /\ op \in {"max_ctrl", "max_hw"} => n >= Raised(plat) /\ n < Rated(plat)
        /\ op = "rate" <=> n = Rated(plat)
        /\ op = "icc" <=> n = 1
    BY <1>2, <1>5, <1>6, OnCalls
  <1> HIDE DEF op, n
  <1>8. \A r \in Refs : held'[r] = IF Place(plat)[r] <= n THEN 1 ELSE 0
    <2> TAKE r \in Refs
    <2>1. held'[r] = IF op = r THEN held[r] + 1 ELSE held[r]
      BY <1>7 DEF Call, Reference, op
    <2>2. held[r] = IF Place(plat)[r] <= Made THEN 1 ELSE 0
      BY <1>1 DEF Opening
    <2>3. n = Made + 1 /\ Place(plat)[r] \in 1 .. 14
      BY <1>4 DEF n
    <2>4. QED
      BY <1>5, <1>7, <2>1, <2>2, <2>3
  <1>9. \A i \in 1 .. Len(todo') : todo'[i] = PowerOnSeq(plat)[n + i]
    <2> TAKE i \in 1 .. Len(todo')
    <2>1. i + 1 \in 1 .. Len(todo) /\ todo'[i] = todo[i + 1]
      BY <1>3
    <2>2. todo[i + 1] = PowerOnSeq(plat)[Made + (i + 1)]
      BY <1>1, <2>1 DEF Opening
    <2>3. Made + (i + 1) = n + i
      BY <1>5 DEF n
    <2>4. QED
      BY <2>1, <2>2, <2>3
  <1>10. /\ n < Raised(plat) => vote'.opp = 0
         /\ n >= Rated(plat) => Agrees(vote')
    <2>1. CASE op = "rate"
      <3>1. vote' = [vote EXCEPT !.opp = Least(RestoredRate(vote), MaxOpp)]
        BY <1>2, <2>1 DEF VoteOf, OppSetRate
      <3>2. vote'.opp = Least(RestoredRate(vote), MaxOpp) /\ vote'.clk_freq = vote.clk_freq
        BY <3>1 DEF VoteFields
      <3>3. QED
        BY <1>4, <1>5, <1>7, <2>1, <3>2 DEF Agrees, RestoredRate
    <2>2. CASE op \in {"max_ctrl", "max_hw"}
      BY <1>4, <1>5, <1>7, <2>2
    <2>3. CASE op \notin {"rate", "max_ctrl", "max_hw"}
      <3>1. vote'.opp = vote.opp /\ vote'.clk_freq = vote.clk_freq
        BY <1>2, <1>7, <2>3 DEF VoteOf, SetIccBw, VoteFields
      <3>2. n # Rated(plat) /\ n = Made + 1
        BY <1>7, <2>3 DEF n
      <3>3. Made < Raised(plat) => vote.opp = 0
        BY <1>1 DEF Opening
      <3>4. Made >= Rated(plat) => Agrees(vote)
        BY <1>1 DEF Opening
      <3>5. Agrees(vote) => Agrees(vote')
        BY <3>1 DEF Agrees, RestoredRate
      <3>6. QED
        BY <1>4, <1>5, <3>1, <3>2, <3>3, <3>4, <3>5
    <2>4. QED
      BY <2>1, <2>2, <2>3
  <1>11. Opening'
    <2>1. Len(todo') <= Steps(plat)
      BY <1>1, <1>3, <1>4 DEF Opening
    <2>2. ~(n < 1)
      BY <1>5
    <2>3. QED
      BY <1>2, <1>3, <1>5, <1>8, <1>9, <1>10, <2>1, <2>2 DEF Opening
  <1>12. vote'.icc = vote'.icc_bw
    BY <1>1, <1>2, IccCall
  <1>13. QED
    BY <1>1, <1>2, <1>11, <1>12 DEF PowerInv

(* A call on the way down gives back what it names and nothing else.       *)
LEMMA CallDownKeeps ==
  ASSUME Shape, PowerInv, Call, vpu.phase \in {"undo", "off"}
  PROVE  PowerInv'
  <1> USE DEF Shape
  <1> DEFINE op == Head(todo)
  <1>1. /\ Closing /\ ~vpu.ok /\ vote.icc = vote.icc_bw
        /\ \A x \in Sessions : ~inst[x].opened /\ inst[x].at = "idle"
    BY DEF PowerInv
  <1>2. /\ plat' = plat /\ vpu' = vpu /\ inst' = inst
        /\ todo # <<>> /\ todo' = Tail(todo) /\ vote' = VoteOf(op)
    BY DEF Call
  <1>3. PICK S : Gives(todo, S)
    BY <1>1 DEF Closing
  <1>4. todo \in Seq(Returns)
    BY <1>3 DEF Gives
  <1>5. /\ \E R : Gives(todo', R)
        /\ op # "rate0" => ~In(op, todo')
    BY <1>2, <1>3, GivesTail
  <1>6. op \in Returns /\ \A call : In(call, todo) <=> call = op \/ In(call, todo')
    BY <1>2, <1>4, HeadTail
  <1>7. \A r \in Refs : op # r /\ Put[r] # "rate0"
    BY <1>6 DEF Returns, Refs, Domains, Clocks, Put
  <1> HIDE DEF op
  <1>8. \A r \in Refs : held'[r] = IF In(Put[r], todo') THEN 1 ELSE 0
    <2> TAKE r \in Refs
    <2>1. held'[r] = IF op = Put[r] THEN held[r] - 1 ELSE held[r]
      BY <1>7 DEF Call, Reference, op
    <2>2. held[r] = IF In(Put[r], todo) THEN 1 ELSE 0
      BY <1>1 DEF Closing
    <2>3. In(Put[r], todo) <=> Put[r] = op \/ In(Put[r], todo')
      BY <1>6
    <2>4. CASE op = Put[r]
      <3>1. ~In(Put[r], todo')
        BY <1>5, <1>7, <2>4
      <3>2. QED
        BY <2>1, <2>2, <2>3, <2>4, <3>1
    <2>5. CASE op # Put[r]
      BY <2>1, <2>2, <2>3, <2>5
    <2>6. QED
      BY <2>4, <2>5
  <1>9. vote' = IF op = "rate0" THEN OppSetRate(vote, 0)
                ELSE IF op = "-icc" THEN UnsetIccBw(vote) ELSE vote
    BY <1>2, <1>6, VoteReturns
  <1>10. vote'.opp = 0 \/ In("rate0", todo')
    <2>1. MaxOpp \in Nat
      BY PowerAssumption
    <2>2. CASE op = "rate0"
      BY <1>9, <2>1, <2>2 DEF OppSetRate, Least, VoteFields
    <2>3. CASE op # "rate0"
      <3>1. vote'.opp = vote.opp
        BY <1>9, <2>3 DEF UnsetIccBw, VoteFields
      <3>2. vote.opp = 0 \/ In("rate0", todo)
        BY <1>1 DEF Closing
      <3>3. QED
        BY <1>6, <2>3, <3>1, <3>2
    <2>4. QED
      BY <2>2, <2>3
  <1>11. vote'.icc = 0 \/ In("-icc", todo')
    <2>1. CASE op = "-icc"
      BY <1>9, <2>1 DEF UnsetIccBw, VoteFields
    <2>2. CASE op # "-icc"
      <3>1. vote'.icc = vote.icc
        BY <1>9, <2>2 DEF OppSetRate, VoteFields
      <3>2. vote.icc = 0 \/ In("-icc", todo)
        BY <1>1 DEF Closing
      <3>3. QED
        BY <1>6, <2>2, <3>1, <3>2
    <2>3. QED
      BY <2>1, <2>2
  <1>12. Closing'
    BY <1>5, <1>8, <1>10, <1>11 DEF Closing
  <1>13. vote'.icc = vote'.icc_bw
    BY <1>1, <1>2, IccCall
  <1>14. QED
    BY <1>1, <1>2, <1>12, <1>13 DEF PowerInv

(* A handled failure leaves exactly what its unwind gives back.            *)
LEMMA FailKeeps ==
  ASSUME Shape, PowerInv, HandledOnly, CallFails
  PROVE  PowerInv'
  <1> USE DEF Shape
  <1> DEFINE n == Made + 1
             op == Head(todo)
  <1>1. /\ Opening /\ ~vpu.ok /\ vote.icc = vote.icc_bw
        /\ \A x \in Sessions : ~inst[x].opened /\ inst[x].at = "idle"
    BY DEF PowerInv, CallFails
  <1>2. /\ plat' = plat /\ inst' = inst /\ vote' = vote /\ plat \in Known
        /\ todo # <<>> /\ todo' = Undo(plat, op) /\ vpu'.phase = "undo" /\ ~vpu'.ok
        /\ <<plat, op>> \in CanFail
        /\ held' = IF GetSync(plat, op) THEN [held EXCEPT ![op] = @ + 1] ELSE held
    BY <1>1 DEF CallFails
  <1>3. op = todo[1] /\ op \in Takes /\ Len(todo) \in Nat \ {0}
    BY <1>1, <1>2, HeadTail DEF Opening
  <1>4. /\ Steps(plat) \in {11, 13} /\ Raised(plat) \in {2, 7} /\ Rated(plat) \in {7, 11}
    BY <1>2, Places
  <1>5. Made \in Nat /\ n \in 1 .. Steps(plat) /\ n - 1 = Made
    BY <1>1, <1>3, <1>4 DEF Made, Opening
  <1>6. op = PowerOnSeq(plat)[n]
    BY <1>1, <1>3, <1>5 DEF Opening
  <1>7. op \in Handled(plat)
    <2>1. op # "vote"
      BY <1>3 DEF Takes
    <2>2. QED
      BY <1>2, <2>1 DEF HandledOnly
  <1>8. ~GetSync(plat, op)
    BY <1>7 DEF GetSync, Handled
  <1>9. Undoes(todo', plat, Made)
    BY <1>2, <1>5, <1>6, <1>7, UndoExact
  <1>10. PICK S : /\ Gives(todo', S)
                  /\ \A r \in Refs : Put[r] \in S <=> Place(plat)[r] <= Made
                  /\ Made < Raised(plat) \/ "rate0" \in S
                  /\ Made < 1 \/ "-icc" \in S
    BY <1>9 DEF Undoes
  <1>11. \A call : In(call, todo') <=> call \in S
    BY <1>10 DEF Gives
  <1>12. Closing'
    <2>1. \A r \in Refs : held'[r] = IF In(Put[r], todo') THEN 1 ELSE 0
      BY <1>1, <1>2, <1>8, <1>10, <1>11 DEF Opening
    <2>2. vote'.opp = 0 \/ In("rate0", todo')
      BY <1>1, <1>2, <1>10, <1>11 DEF Opening
    <2>3. vote'.icc = 0 \/ In("-icc", todo')
      BY <1>1, <1>2, <1>10, <1>11 DEF Opening
    <2>4. QED
      BY <1>10, <2>1, <2>2, <2>3 DEF Closing
  <1>13. QED
    BY <1>1, <1>2, <1>12 DEF PowerInv

(* The end of a sequence.                                                  *)
LEMMA EndKeeps ==
  ASSUME Shape, PowerInv, PoweredOn \/ PowerOnFailed \/ PoweredOff
  PROVE  PowerInv'
  <1> USE DEF Shape
  <1>1. /\ plat' = plat /\ held' = held /\ vote' = vote /\ inst' = inst
        /\ todo = <<>> /\ todo' = <<>> /\ plat \in Known
        /\ vpu'.phase = "rest"
    BY DEF PoweredOn, PowerOnFailed, PoweredOff
  <1>2. /\ ~vpu.ok /\ vote.icc = vote.icc_bw
        /\ \A x \in Sessions : ~inst[x].opened /\ inst[x].at = "idle"
    BY DEF PowerInv, PoweredOn, PowerOnFailed, PoweredOff
  <1>3. \A call : ~In(call, <<>>)
    BY DEF In
  <1>4. CASE PoweredOn
    <2>1. Opening /\ vpu'.ok
      BY <1>4 DEF PoweredOn, PowerInv
    <2>2. Made = Steps(plat) /\ Steps(plat) >= Rated(plat)
      BY <1>1, Places DEF Made
    <2>3. /\ \A r \in Refs : held[r] = IF Place(plat)[r] <= Steps(plat) THEN 1 ELSE 0
          /\ Agrees(vote)
      BY <2>1, <2>2 DEF Opening
    <2>4. AtRest'
      BY <1>1, <2>1, <2>3 DEF AtRest
    <2>5. QED
      BY <1>1, <1>2, <2>1, <2>4 DEF PowerInv
  <1>5. CASE PowerOnFailed \/ PoweredOff
    <2>1. Closing /\ ~vpu'.ok
      BY <1>2, <1>5 DEF PowerOnFailed, PoweredOff, PowerInv
    <2>2. (\A r \in Refs : held[r] = 0) /\ vote.opp = 0 /\ vote.icc = 0
      BY <1>1, <1>3, <2>1 DEF Closing
    <2>3. AtRest'
      BY <1>1, <2>1, <2>2 DEF AtRest
    <2>4. QED
      BY <1>1, <1>2, <2>1, <2>3 DEF PowerInv
  <1>6. QED
    BY <1>4, <1>5

(* Interrupts touch neither references nor votes.                          *)
LEMMA LineKeepsPower ==
  ASSUME PowerInv, UNCHANGED <<plat, todo, vpu, held, vote, inst>>
  PROVE  PowerInv'
  BY DEF PowerInv, AtRest, Opening, Closing, Made

(* A vote at rest: the OPP goes with the remembered rate.                  *)
LEMMA ClocksKeep ==
  ASSUME Shape, NEW rate, rate # 0, Agrees(vote), vote.icc = vote.icc_bw
  PROVE  Agrees(SetClocks(vote, rate))
         /\ SetClocks(vote, rate).icc = SetClocks(vote, rate).icc_bw
         /\ DOMAIN SetClocks(vote, rate) = VoteFields
  BY DEF Shape, VoteFields, Agrees, SetClocks, OppSetRate, RestoredRate

(* Where the votes of sessions are: only a VPU that is on has sessions.    *)
LEMMA SessionsKeep ==
  ASSUME Shape, PowerInv, UNCHANGED <<plat, todo, vpu, held>>, vpu.ok,
         vote'.icc = vote'.icc_bw, Agrees(vote')
  PROVE  PowerInv'
  BY DEF PowerInv, AtRest

(* Every step keeps the references and the votes in order.                 *)
LEMMA PowerKeeps ==
  ASSUME Shape, PowerInv, HandledOnly, Answered, [Next]_vars
  PROVE  PowerInv'
  <1> USE DEF Shape
  <1>1. CASE UNCHANGED vars
    BY <1>1, LineKeepsPower DEF vars
  <1>2. ASSUME NEW boot \in BOOLEAN, PowerOn(boot)
        PROVE  PowerInv'
    BY <1>2, PowerOnKeeps
  <1>3. CASE PowerOff
    BY <1>3, PowerOffKeeps
  <1>4. CASE Call
    <2>1. vpu.phase # "rest"
      BY <1>4 DEF Call, PowerInv, AtRest
    <2>2. vpu.phase = "on" \/ vpu.phase \in {"undo", "off"}
      BY <2>1
    <2>3. QED
      BY <1>4, <2>2, CallUpKeeps, CallDownKeeps
  <1>5. CASE CallFails
    BY <1>5, FailKeeps
  <1>6. CASE PoweredOn \/ PowerOnFailed \/ PoweredOff
    BY <1>6, EndKeeps
  <1>7. CASE Raise \/ Isr \/ IsrThread \/ IsrThreadEnd
    <2>1. UNCHANGED <<plat, todo, vpu, held, vote, inst>>
      BY <1>7 DEF Raise, Isr, IsrThread, IsrThreadEnd
    <2>2. QED
      BY <2>1, LineKeepsPower
  <1>8. vpu.ok => Agrees(vote) /\ vote.icc = vote.icc_bw
    BY DEF PowerInv, AtRest
  <1>9. ASSUME NEW x \in Sessions, inst[x].opened \/ inst[x].at # "idle"
        PROVE  vpu.ok
    BY <1>9 DEF PowerInv
  <1>10. ASSUME NEW v, DOMAIN v = VoteFields, NEW m
         PROVE  /\ [v EXCEPT !.missed = m].icc = v.icc
                /\ [v EXCEPT !.missed = m].icc_bw = v.icc_bw
                /\ Agrees([v EXCEPT !.missed = m]) <=> Agrees(v)
    BY <1>10 DEF Agrees, RestoredRate, VoteFields
  <1>11. CASE SetIdleOpp
    BY <1>8, <1>11, ClocksKeep, SessionsKeep DEF SetIdleOpp
  <1>12. ASSUME NEW x \in Sessions, OpenSession(x) \/ ScalePower(x) \/ CloseSession(x)
         PROVE  PowerInv'
    <2>1. UNCHANGED <<plat, todo, vpu, held, vote>>
      BY <1>12 DEF OpenSession, ScalePower, CloseSession
    <2>2. vpu.ok
      BY <1>9, <1>12 DEF OpenSession, ScalePower, CloseSession
    <2>3. QED
      BY <1>8, <2>1, <2>2, SessionsKeep
  <1>13. ASSUME NEW x \in Sessions, VoteClocks(x) \/ UnvoteClocks(x)
         PROVE  PowerInv'
    <2>1. /\ UNCHANGED <<plat, todo, vpu, held>> /\ inst[x].at # "idle"
          /\ vote' = [SetClocks(vote, WantedRate(inst)) EXCEPT !.missed = @ \ {"clocks"}]
      BY <1>13 DEF VoteClocks, UnvoteClocks
    <2>2. vpu.ok
      BY <1>9, <2>1
    <2>3. WantedRate(inst) # 0
      BY DEF WantedRate
    <2> DEFINE v == SetClocks(vote, WantedRate(inst))
    <2>4. Agrees(v) /\ v.icc = v.icc_bw /\ DOMAIN v = VoteFields
      BY <1>8, <2>2, <2>3, ClocksKeep
    <2> HIDE DEF v
    <2>5. vote' = [v EXCEPT !.missed = v.missed \ {"clocks"}]
      BY <2>1 DEF v
    <2>6. Agrees(vote') /\ vote'.icc = vote'.icc_bw
      BY <1>10, <2>4, <2>5
    <2>7. QED
      BY <2>1, <2>2, <2>6, SessionsKeep
  <1>14. ASSUME NEW x \in Sessions, VoteClocksFails(x)
         PROVE  PowerInv'
    <2>1. /\ UNCHANGED <<plat, todo, vpu, held>> /\ inst[x].at # "idle"
          /\ vote' = [vote EXCEPT !.missed = {"clocks", "icc"}]
      BY <1>14 DEF VoteClocksFails
    <2>2. vpu.ok
      BY <1>9, <2>1
    <2>3. Agrees(vote') /\ vote'.icc = vote'.icc_bw
      BY <1>8, <1>10, <2>1, <2>2
    <2>4. QED
      BY <2>1, <2>2, <2>3, SessionsKeep
  <1>15. ASSUME NEW x \in Sessions, VoteIcc(x)
         PROVE  PowerInv'
    <2>1. UNCHANGED <<plat, todo, vpu, held>> /\ inst[x].at # "idle"
      BY <1>15 DEF VoteIcc
    <2>2. vpu.ok
      BY <1>9, <2>1
    <2> DEFINE v == SetIccBw(vote, TotalBw(inst))
    <2>3. /\ v.icc = v.icc_bw /\ DOMAIN v = VoteFields
          /\ v.opp = vote.opp /\ v.clk_freq = vote.clk_freq
      BY <1>8, <2>2 DEF SetIccBw, VoteFields
    <2>4. Agrees(v)
      BY <1>8, <2>2, <2>3 DEF Agrees, RestoredRate
    <2>5. vote' = [v EXCEPT !.missed = v.missed \ {"icc"}]
      BY <1>15 DEF VoteIcc
    <2> HIDE DEF v
    <2>6. Agrees(vote') /\ vote'.icc = vote'.icc_bw
      BY <1>10, <2>3, <2>4, <2>5
    <2>7. QED
      BY <2>1, <2>2, <2>6, SessionsKeep
  <1>16. QED
    BY <1>1, <1>2, <1>3, <1>4, <1>5, <1>6, <1>7, <1>11, <1>12, <1>13, <1>14, <1>15 DEF Next

(* The first state.                                                        *)
LEMMA PowerStarts ==
  ASSUME Init
  PROVE  Shape /\ PowerInv
  <1>1. Shape
    <2>1. plat \in Known
      BY PowerAssumption DEF Init, Known
    <2>2. inst \in [Sessions -> SessionType]
      BY DEF Init, SessionType, Fresh
    <2>3. QED
      BY <2>1, <2>2 DEF Init, Shape, LineType, VoteFields
  <1>2. \A r \in Refs : held[r] = 0
    BY DEF Init
  <1>3. QED
    BY <1>1, <1>2 DEF Init, PowerInv, AtRest, Fresh

(* In whatever call of a power-on a handled failure comes, and whatever    *)
(* votes and interrupts come between: no domain and no clock is taken or   *)
(* given back twice, all that is needed is held when the VPU is on, and    *)
(* nothing when it is off.                                                 *)
THEOREM References == ASSUME HandledOnly, Answered PROVE Spec => []Balanced
  <1>1. Init => Shape /\ PowerInv
    BY PowerStarts
  <1>2. Shape /\ PowerInv /\ [Next]_vars => (Shape /\ PowerInv)'
    BY Shaped, PowerKeeps
  <1>3. Shape /\ PowerInv => Balanced
    <2> SUFFICES ASSUME Shape, PowerInv
                 PROVE  Balanced
      OBVIOUS
    <2>1. \A r \in Refs : held[r] \in {0, 1}
      BY DEF Shape, PowerInv, AtRest, Opening, Closing
    <2>2. ASSUME LockFree
          PROVE  /\ \A r \in Refs : held[r] = 1 <=> vpu.ok /\ r \in Needed(plat)
                 /\ ~vpu.ok => vote.opp = 0 /\ vote.icc = 0
      <3>1. AtRest /\ plat \in Known
        BY <2>2 DEF PowerInv, LockFree, Shape
      <3>2. \A r \in Refs : r \in Needed(plat) <=> Place(plat)[r] <= Steps(plat)
        <4> TAKE r \in Refs
        <4>1. /\ Len(PowerOnSeq(plat)) = Steps(plat)
              /\ PowerOnSeq(plat) \in Seq(Takes)
              /\ \A i \in 1 .. Steps(plat) : PowerOnSeq(plat)[i] = r <=> Place(plat)[r] = i
          BY <3>1, OnCalls
        <4>2. DOMAIN PowerOnSeq(plat) = 1 .. Steps(plat)
          BY <4>1
        <4>3. r \in Needed(plat) <=> \E i \in 1 .. Steps(plat) : PowerOnSeq(plat)[i] = r
          BY <4>2 DEF Needed, Range
        <4>4. Place(plat)[r] \in 1 .. 14 /\ Steps(plat) \in {11, 13}
          BY <3>1, Places
        <4>5. QED
          BY <4>1, <4>3, <4>4
      <3>3. QED
        BY <3>1, <3>2 DEF AtRest
    <2>3. QED
      BY <2>1, <2>2 DEF Balanced
  <1>4. QED
    BY <1>1, <1>2, <1>3, PTL DEF Spec

(* The driver skips a vote equal to the remembered one; what it remembers  *)
(* is what was voted, whatever votes, failures and power cycles came.      *)
THEOREM Remembers == ASSUME HandledOnly, Answered PROVE Spec => []CacheTrue
  <1>1. Init => Shape /\ PowerInv
    BY PowerStarts
  <1>2. Shape /\ PowerInv /\ [Next]_vars => (Shape /\ PowerInv)'
    BY Shaped, PowerKeeps
  <1>3. Shape /\ PowerInv => CacheTrue
    BY DEF PowerInv, AtRest, Agrees, CacheTrue, LockFree
  <1>4. QED
    BY <1>1, <1>2, <1>3, PTL DEF Spec

-----------------------------------------------------------------------------
(* The interrupt line.  Up: the line is to be enabled once all handlers    *)
(* are done, which a watchdog prevents.                                    *)
Up    == vpu.ok \/ vpu.phase = "off"
Stuck == "watchdog" \in irq.status

Depth ==
  /\ irq.thread = "idle"     => irq.depth = IF Up /\ ~Stuck THEN 0 ELSE 1
  /\ irq.thread = "woken"    => irq.depth = IF Up THEN 1 ELSE 2
  /\ irq.thread = "handling" => irq.depth = IF ~Up /\ ~Stuck THEN 2 ELSE 1

(* A source is asserted only while the firmware's clock may run, and a     *)
(* power-on never finds the thread of a watchdog at work.                  *)
LineInv ==
  /\ Depth
  /\ irq.pend # {} => Up
  /\ vpu.phase = "off" /\ irq.pend # {} => In("-ctrl", todo)
  /\ plat = "sm8150" => "watchdog" \notin irq.pend \cup irq.status
  /\ irq.thread = "woken" => ~Stuck
  /\ vpu.phase = "on" /\ irq.thread = "handling" => ~Stuck

(* Steps that leave the line alone.                                        *)
LEMMA LineRests ==
  ASSUME LineInv, UNCHANGED <<plat, todo, vpu>>, UNCHANGED <<irq>>
         \/ irq' = [irq EXCEPT !.idle_opp = FALSE], Shape
  PROVE  LineInv'
  BY DEF LineInv, Depth, Up, Stuck, Shape, LineType

(* The fields of the line one by one.                                      *)
LEMMA LineFields ==
  ASSUME Shape
  PROVE  /\ irq.depth \in Int
         /\ irq.pend \subseteq {"message", "watchdog"}
         /\ irq.status \subseteq {"message", "watchdog"}
         /\ irq.thread \in {"idle", "woken", "handling"}
         /\ DOMAIN irq = {"depth", "pend", "status", "thread", "idle_opp"}
         /\ vpu.phase \in {"rest", "on", "undo", "off"} /\ vpu.ok \in BOOLEAN
         /\ DOMAIN vpu = {"powered", "ok", "phase"}
  BY DEF Shape, LineType

(* Every step keeps the line in order.                                     *)
LEMMA LineKeeps ==
  ASSUME Shape, PowerInv, LineInv, ~Careless, Answered, [Next]_vars
  PROVE  LineInv'
  <1> USE LineFields DEF Up, Stuck
  <1>0. Depth
    BY DEF LineInv
  <1>1. CASE UNCHANGED vars
    BY <1>1, LineRests DEF vars
  <1>2. ASSUME NEW boot \in BOOLEAN, PowerOn(boot)
        PROVE  LineInv'
    <2>1. /\ irq' = [irq EXCEPT !.idle_opp = boot] /\ plat' = plat
          /\ ~vpu.ok /\ vpu.phase = "rest" /\ ~vpu'.ok /\ vpu'.phase = "on"
          /\ irq.thread = "handling" => ~Stuck
      BY <1>2 DEF PowerOn, LockFree
    <2>2. /\ irq'.depth = irq.depth /\ irq'.pend = irq.pend /\ irq'.status = irq.status
          /\ irq'.thread = irq.thread
      BY <2>1
    <2>3. QED
      BY <2>1, <2>2 DEF LineInv, Depth
  <1>3. CASE PowerOff
    <2>1. /\ irq' = [irq EXCEPT !.idle_opp = FALSE] /\ plat' = plat
          /\ vpu.ok /\ vpu.phase = "rest" /\ vpu'.phase = "off"
          /\ todo' = PowerOffSeq(plat, TRUE)
      BY <1>3 DEF PowerOff, LockFree, Answered
    <2>2. /\ irq'.depth = irq.depth /\ irq'.pend = irq.pend /\ irq'.status = irq.status
          /\ irq'.thread = irq.thread
      BY <2>1
    <2>3. PICK S : /\ Gives(todo', S)
                   /\ \A r \in Refs : Put[r] \in S <=> Place(plat)[r] <= Steps(plat)
      BY <2>1, OffExact DEF Undoes, Shape
    <2>4. "ctrl" \in Refs /\ Put["ctrl"] = "-ctrl" /\ Place(plat)["ctrl"] = 6
      BY DEF Refs, Domains, Clocks, Put, Place
    <2>5. "-ctrl" \in S
      BY <2>3, <2>4, Places DEF Shape
    <2>6. In("-ctrl", todo')
      BY <2>3, <2>5 DEF Gives
    <2>7. QED
      BY <2>1, <2>2, <2>6 DEF LineInv, Depth
  <1>4. CASE Call
    <2>1. /\ vpu' = vpu /\ plat' = plat /\ todo # <<>> /\ todo' = Tail(todo)
          /\ irq' = IF Head(todo) = "-ctrl" THEN [irq EXCEPT !.pend = {}] ELSE irq
      BY <1>4 DEF Call
    <2>2. /\ irq'.depth = irq.depth /\ irq'.status = irq.status /\ irq'.thread = irq.thread
          /\ irq'.pend = IF Head(todo) = "-ctrl" THEN {} ELSE irq.pend
      BY <2>1
    <2>3. vpu.phase = "off" /\ irq'.pend # {} => In("-ctrl", todo')
      <3> SUFFICES ASSUME vpu.phase = "off", irq'.pend # {}
                   PROVE  In("-ctrl", todo')
        OBVIOUS
      <3>1. In("-ctrl", todo) /\ Head(todo) # "-ctrl"
        BY <2>2 DEF LineInv
      <3>2. todo \in Seq(Returns)
        BY DEF PowerInv, Closing, Gives
      <3>3. QED
        BY <2>1, <3>1, <3>2, HeadTail
    <2>4. QED
      BY <2>1, <2>2, <2>3 DEF LineInv, Depth
  <1>5. CASE CallFails
    <2>1. vpu.phase = "on" /\ ~vpu.ok /\ vpu'.phase = "undo" /\ ~vpu'.ok
          /\ irq' = irq /\ plat' = plat
      BY <1>5 DEF CallFails, PowerInv
    <2>2. QED
      BY <2>1 DEF LineInv, Depth
  <1>6. CASE PoweredOn
    <2>1. /\ vpu.phase = "on" /\ ~vpu.ok /\ vpu'.phase = "rest" /\ vpu'.ok /\ plat' = plat
          /\ irq' = [irq EXCEPT !.status = {}, !.depth = @ - 1]
      BY <1>6 DEF PoweredOn, PowerInv
    <2>2. /\ irq'.depth = irq.depth - 1 /\ irq'.pend = irq.pend /\ irq'.status = {}
          /\ irq'.thread = irq.thread
      BY <2>1
    <2>3. Depth'
      BY <1>0, <2>1, <2>2 DEF LineInv, Depth
    <2>4. QED
      BY <2>1, <2>2, <2>3 DEF LineInv
  <1>7. CASE PowerOnFailed
    <2>1. /\ vpu.phase = "undo" /\ ~vpu.ok /\ vpu'.phase = "rest" /\ ~vpu'.ok /\ plat' = plat
          /\ irq' = [irq EXCEPT !.idle_opp = FALSE]
      BY <1>7 DEF PowerOnFailed, PowerInv
    <2>2. /\ irq'.depth = irq.depth /\ irq'.pend = irq.pend /\ irq'.status = irq.status
          /\ irq'.thread = irq.thread
      BY <2>1
    <2>3. QED
      BY <2>1, <2>2 DEF LineInv, Depth
  <1>8. CASE PoweredOff
    <2>1. /\ vpu.phase = "off" /\ ~vpu.ok /\ vpu'.phase = "rest" /\ ~vpu'.ok /\ plat' = plat
          /\ irq' = IF Stuck THEN irq ELSE [irq EXCEPT !.depth = @ + 1]
          /\ todo = <<>>
      BY <1>8 DEF PoweredOff, DisableIrq, PowerInv
    <2>2. /\ irq'.depth = (IF Stuck THEN irq.depth ELSE irq.depth + 1)
          /\ irq'.pend = irq.pend /\ irq'.status = irq.status /\ irq'.thread = irq.thread
      BY <2>1
    <2>3. irq.pend = {}
      BY <2>1 DEF LineInv, In
    <2>4. Depth'
      BY <1>0, <2>1, <2>2 DEF LineInv, Depth
    <2>5. QED
      BY <2>1, <2>2, <2>3, <2>4 DEF LineInv
  <1>9. CASE Raise
    <2>1. /\ vpu.phase \in {"rest", "off"} /\ held["ctrl"] = 1
          /\ UNCHANGED <<plat, todo, vpu>>
          /\ \E src \in IF plat = "sm8150" THEN {"message"} ELSE {"message", "watchdog"} :
               irq' = [irq EXCEPT !.pend = @ \cup {src}]
      BY <1>9 DEF Raise
    <2>2. PICK src : /\ irq' = [irq EXCEPT !.pend = @ \cup {src}]
                     /\ plat = "sm8150" => src = "message"
      BY <2>1
    <2>3. /\ irq'.depth = irq.depth /\ irq'.pend = irq.pend \cup {src}
          /\ irq'.status = irq.status /\ irq'.thread = irq.thread
      BY <2>2
    <2>4. "ctrl" \in Refs /\ Put["ctrl"] = "-ctrl"
      BY DEF Refs, Domains, Clocks, Put
    <2>5. vpu.phase = "rest" => vpu.ok
      BY <2>1, <2>4 DEF PowerInv, AtRest
    <2>6. vpu.phase = "off" => In("-ctrl", todo)
      BY <2>1, <2>4 DEF PowerInv, Closing
    <2>7. QED
      BY <2>1, <2>2, <2>3, <2>5, <2>6 DEF LineInv, Depth
  <1>10. CASE Isr
    <2>1. /\ irq.depth = 0 /\ irq.thread = "idle" /\ irq.pend # {}
          /\ UNCHANGED <<plat, todo, vpu>>
      BY <1>10 DEF Isr
    <2>2. /\ irq'.depth = 1 /\ irq'.thread = "woken"
          /\ plat = "sm8150" => irq'.pend = {} /\ irq'.status = irq.status \cup irq.pend
          /\ plat # "sm8150" => irq'.pend = irq.pend /\ irq'.status = irq.status
      BY <1>10, <2>1 DEF Isr, ClearInterrupt
    <2>3. Up /\ ~Stuck
      BY <1>0, <2>1 DEF Depth
    <2>4. QED
      BY <2>1, <2>2, <2>3 DEF LineInv, Depth
  <1>11. CASE IsrThread
    <2>1. /\ irq.thread = "woken" /\ vpu.phase = "rest"
          /\ UNCHANGED <<plat, todo, vpu>>
      BY <1>11 DEF IsrThread, LockFree
    <2>2. /\ irq'.depth = irq.depth /\ irq'.thread = "handling"
          /\ plat # "sm8150" => irq'.pend = {} /\ irq'.status = irq.status \cup irq.pend
          /\ plat = "sm8150" => irq'.pend = irq.pend /\ irq'.status = irq.status
      BY <1>11 DEF IsrThread, ClearInterrupt
    <2>3. QED
      BY <2>1, <2>2 DEF LineInv, Depth
  <1>12. CASE IsrThreadEnd
    <2>1. /\ irq.thread = "handling" /\ UNCHANGED <<plat, todo, vpu>>
          /\ irq'.thread = "idle" /\ irq'.pend = irq.pend /\ irq'.status = irq.status
          /\ irq'.depth = IF Stuck THEN irq.depth ELSE irq.depth - 1
      BY <1>12 DEF IsrThreadEnd
    <2>2. QED
      BY <1>0, <2>1 DEF LineInv, Depth
  <1>13. CASE SetIdleOpp
    BY <1>13, LineRests DEF SetIdleOpp
  <1>14. ASSUME NEW x \in Sessions,
                \/ OpenSession(x) \/ ScalePower(x) \/ VoteClocks(x) \/ VoteClocksFails(x)
                \/ VoteIcc(x) \/ CloseSession(x) \/ UnvoteClocks(x)
         PROVE  LineInv'
    <2>1. UNCHANGED <<plat, todo, vpu, irq>>
      BY <1>14 DEF OpenSession, ScalePower, VoteClocks, VoteClocksFails, VoteIcc,
                   CloseSession, UnvoteClocks
    <2>2. QED
      BY <2>1, LineRests
  <1>15. QED
    BY <1>1, <1>2, <1>3, <1>4, <1>5, <1>6, <1>7, <1>8, <1>9, <1>10, <1>11, <1>12, <1>13,
       <1>14 DEF Next

(* Whatever interrupts come during power-ons, unwinds and power-offs, the  *)
(* line is never enabled more often than disabled, and at rest it is       *)
(* enabled exactly when the VPU is on and no watchdog has fired.           *)
THEOREM Line ==
  ASSUME HandledOnly, Answered, ~Careless
  PROVE  Spec => []IrqBalanced
  <1>1. Init => Shape /\ PowerInv /\ LineInv
    <2>1. Init => LineInv
      BY DEF Init, LineInv, Depth, Up, Stuck
    <2>2. QED
      BY <2>1, PowerStarts
  <1>2. Shape /\ PowerInv /\ LineInv /\ [Next]_vars => (Shape /\ PowerInv /\ LineInv)'
    BY Shaped, PowerKeeps, LineKeeps
  <1>3. Shape /\ PowerInv /\ LineInv => IrqBalanced
    BY LineFields DEF LineInv, Depth, Up, Stuck, IrqBalanced, LockFree
  <1>4. QED
    BY <1>1, <1>2, <1>3, PTL DEF Spec

-----------------------------------------------------------------------------
(* The types of the votes and of the calls, whatever fails.                *)

VoteType == [opp: 0 .. MaxOpp, icc: 0 .. MaxBw, clk_freq: Nat, icc_bw: 0 .. MaxBw,
             missed: SUBSET {"clocks", "icc"}]

(* Every call of a sequence or of an unwind is one that TypeOK names.      *)
LEMMA CallsNamed == Takes \subseteq Calls /\ Returns \subseteq Calls
  <1> DEFINE a == PowerOnSeq("sm8150")
             b == PowerOnSeq("sm8250")
  <1>1. a = <<"icc", "ctrl_pd", "reset", "bus", "axi", "ctrl", "rate",
              "hw_pd", "aux_pd", "hw_axi", "aux_axi", "hw", "aux_hw">>
    BY DEF PowerOnSeq
  <1>2. b = <<"icc", "max_ctrl", "ctrl_pd", "reset", "axi", "ctrl",
              "max_hw", "hw_pd", "hw", "hwmode", "rate">>
    BY DEF PowerOnSeq
  <1> HIDE DEF a, b
  <1>3. \A i \in 1 .. 13 : a[i] \in Range(a)
    BY <1>1 DEF Range
  <1>4. \A i \in 1 .. 11 : b[i] \in Range(b)
    BY <1>2 DEF Range
  <1>5. {"icc", "ctrl_pd", "reset", "bus", "axi", "ctrl", "rate",
         "hw_pd", "aux_pd", "hw_axi", "aux_axi", "hw", "aux_hw"} \subseteq Range(a)
    BY <1>1, <1>3
  <1>6. {"max_ctrl", "max_hw", "hwmode"} \subseteq Range(b)
    BY <1>2, <1>4
  <1>7. Takes \subseteq Range(a) \cup Range(b)
    BY <1>5, <1>6 DEF Takes
  <1>8. Returns \subseteq {Put[r] : r \in Refs} \cup {"rate0", "-hwmode", "-icc"}
    BY DEF Returns, Put, Refs, Domains, Clocks
  <1>9. QED
    BY <1>7, <1>8 DEF Calls, a, b

(* The pieces of unwinds and of power-offs only give back.                 *)
LEMMA PieceCalls ==
  ASSUME NEW p, NEW f, NEW answered
  PROVE  /\ PowerOffHw(p) \in Seq(Returns) /\ PowerOffController(p) \in Seq(Returns)
         /\ UndoHw(p, f) \in Seq(Returns)
         /\ UndoController(p, f) \in Seq(Returns)
         /\ Vpu33PowerOffController(answered) \in Seq(Returns)
         /\ {<< >>, <<"rate0">>, <<"-icc">>} \subseteq Seq(Returns)
  <1>1. << >> \in Seq(Returns) /\ <<"rate0">> \in Seq(Returns) /\ <<"-icc">> \in Seq(Returns)
    BY DEF Returns
  <1>2. <<"-ctrl">> \in Seq(Returns) /\ <<"-bus">> \in Seq(Returns)
        /\ <<"-axi">> \in Seq(Returns) /\ <<"-ctrl_pd">> \in Seq(Returns)
    BY DEF Returns
  <1>3. <<"-aux_hw", "-hw", "-aux_axi", "-hw_axi", "-aux_pd", "-hw_pd">> \in Seq(Returns)
    BY DEF Returns
  <1>4. <<"-hwmode", "-hw", "rate0", "-hw_pd">> \in Seq(Returns)
        /\ <<"-ctrl", "-axi", "-bus", "-ctrl_pd">> \in Seq(Returns)
    BY DEF Returns
  <1>5. <<"-ctrl", "-axi", "rate0", "-ctrl_pd">> \in Seq(Returns)
        /\ <<"rate0", "-ctrl_pd", "-axi">> \in Seq(Returns)
    BY DEF Returns
  <1>6. <<"-aux_axi", "-hw_axi", "-aux_pd", "-hw_pd">> \in Seq(Returns)
        /\ <<"-hw_axi", "-aux_pd", "-hw_pd">> \in Seq(Returns)
    BY DEF Returns
  <1>7. <<"-aux_pd", "-hw_pd">> \in Seq(Returns) /\ <<"-hw_pd">> \in Seq(Returns)
        /\ <<"-hw", "rate0", "-hw_pd">> \in Seq(Returns)
    BY DEF Returns
  <1>8. <<"rate0", "-hw_pd">> \in Seq(Returns) /\ <<"rate0", "-ctrl_pd">> \in Seq(Returns)
    BY DEF Returns
  <1>9. PowerOffHw(p) \in Seq(Returns) /\ PowerOffController(p) \in Seq(Returns)
    BY <1>3, <1>4, <1>5, Zenon DEF PowerOffHw, PowerOffController
  <1>10. UndoHw(p, f) \in Seq(Returns)
    <2>1. \/ UndoHw(p, f) = PowerOffHw(p)
          \/ UndoHw(p, f) = <<"-aux_axi", "-hw_axi", "-aux_pd", "-hw_pd">>
          \/ UndoHw(p, f) = <<"-hw_axi", "-aux_pd", "-hw_pd">>
          \/ UndoHw(p, f) = <<"-aux_pd", "-hw_pd">>
          \/ UndoHw(p, f) = <<"-hw_pd">>
          \/ UndoHw(p, f) = <<"-hw", "rate0", "-hw_pd">>
          \/ UndoHw(p, f) = <<"rate0", "-hw_pd">>
          \/ UndoHw(p, f) = << >>
      BY DEF UndoHw
    <2>2. QED
      BY <1>1, <1>6, <1>7, <1>8, <1>9, <2>1, Zenon
  <1>11. UndoController(p, f) \in Seq(Returns)
    <2> DEFINE bus == IF p = "sm8150" THEN <<"-bus">> ELSE << >>
               pd  == IF p = "sm8150" THEN <<"-ctrl_pd">> ELSE <<"rate0", "-ctrl_pd">>
               axi == <<"-axi">>
    <2>1. bus \in Seq(Returns) /\ pd \in Seq(Returns)
      BY <1>1, <1>2, <1>8, Zenon
    <2>2. \/ UndoController(p, f) = axi \o bus \o pd
          \/ UndoController(p, f) = bus \o pd
          \/ UndoController(p, f) = pd
          \/ UndoController(p, f) = << >>
      BY DEF UndoController
    <2>3. axi \in Seq(Returns)
      BY <1>2
    <2> HIDE DEF bus, pd, axi
    <2>4. axi \o bus \o pd \in Seq(Returns) /\ bus \o pd \in Seq(Returns)
      BY <2>1, <2>3
    <2>5. QED
      BY <1>1, <2>1, <2>2, <2>4, Zenon
  <1>12. Vpu33PowerOffController(answered) \in Seq(Returns)
    <2> DEFINE a == IF answered THEN <<"-ctrl">> ELSE << >>
               b == <<"rate0", "-ctrl_pd", "-axi">>
    <2>1. a \in Seq(Returns)
      BY <1>1, <1>2, Zenon
    <2>2. b \in Seq(Returns) /\ Vpu33PowerOffController(answered) = a \o b
      BY <1>5 DEF Vpu33PowerOffController
    <2> HIDE DEF a, b
    <2>3. QED
      BY <2>1, <2>2
  <1>13. QED
    BY <1>1, <1>9, <1>10, <1>11, <1>12

(* An unwind only gives back, whatever call it is of.                      *)
LEMMA UndoCalls ==
  ASSUME NEW p, NEW f
  PROVE  Undo(p, f) \in Seq(Returns)
  <1> DEFINE a == UndoHw(p, f)
             b == IF p = "sm8150" THEN <<"rate0">> ELSE << >>
             c == PowerOffController(p)
             d == UndoController(p, f)
             e == <<"-icc">>
  <1>1. /\ a \in Seq(Returns) /\ c \in Seq(Returns) /\ d \in Seq(Returns)
        /\ << >> \in Seq(Returns) /\ <<"rate0">> \in Seq(Returns) /\ e \in Seq(Returns)
    BY PieceCalls
  <1>2. b \in Seq(Returns)
    BY <1>1, Zenon
  <1>3. Undo(p, f) \in {<< >>, c \o e, a \o b \o c \o e, d \o e}
    BY DEF Undo
  <1> HIDE DEF a, b, c, d, e
  <1>4. {<< >>, c \o e, a \o b \o c \o e, d \o e} \subseteq Seq(Returns)
    BY <1>1, <1>2
  <1>5. QED
    BY <1>3, <1>4, Zenon

(* Nor does a power-off take anything.                                     *)
LEMMA OffCalls ==
  ASSUME NEW p, NEW answered
  PROVE  PowerOffSeq(p, answered) \in Seq(Returns)
  <1> DEFINE a == <<"rate0">>
             b == PowerOffHw(p)
             c == IF p = "sm8650" THEN Vpu33PowerOffController(answered)
                                  ELSE PowerOffController(p)
             d == <<"-icc">>
  <1>1. a \in Seq(Returns) /\ b \in Seq(Returns) /\ d \in Seq(Returns)
    BY PieceCalls
  <1>2. c \in Seq(Returns)
    BY PieceCalls, Zenon
  <1>3. PowerOffSeq(p, answered) = a \o b \o c \o d
    BY DEF PowerOffSeq
  <1> HIDE DEF a, b, c, d
  <1>4. QED
    BY <1>1, <1>2, <1>3

(* What the helpers make of a vote is one.                                 *)
LEMMA VoteSteps ==
  ASSUME NEW v \in VoteType
  PROVE  /\ \A rate \in Nat : OppSetRate(v, rate) \in VoteType
         /\ \A rate \in Nat : SetClocks(v, rate) \in VoteType
         /\ \A bw \in Nat : SetIccBw(v, bw) \in VoteType
         /\ UnsetIccBw(v) \in VoteType
         /\ \A m \in SUBSET {"clocks", "icc"} : [v EXCEPT !.missed = m] \in VoteType
         /\ RestoredRate(v) \in Nat
         /\ v.missed \subseteq {"clocks", "icc"}
  <1>1. MaxOpp \in Nat \ {0} /\ MaxBw \in Nat \ {0}
    BY PowerAssumption
  <1>2. \A rate \in Nat : OppSetRate(v, rate) \in VoteType
    BY <1>1 DEF OppSetRate, Least, VoteType
  <1>3. \A w \in VoteType, rate \in Nat : [w EXCEPT !.clk_freq = rate] \in VoteType
    BY DEF VoteType
  <1>4. \A rate \in Nat : SetClocks(v, rate) \in VoteType
    BY <1>2, <1>3 DEF SetClocks
  <1>5. \A bw \in Nat : Clamp(bw) \in 0 .. MaxBw
    BY <1>1 DEF Clamp, Least
  <1>6. \A bw \in Nat : SetIccBw(v, bw) \in VoteType
    <2> TAKE bw \in Nat
    <2> DEFINE c == Clamp(bw)
    <2>1. c \in 0 .. MaxBw
      BY <1>5
    <2>2. SetIccBw(v, bw) \in {v, [v EXCEPT !.icc = c, !.icc_bw = c]}
      BY DEF SetIccBw
    <2> HIDE DEF c
    <2>3. QED
      BY <2>1, <2>2 DEF VoteType
  <1>7. UnsetIccBw(v) \in VoteType
    <2>1. \A c \in 0 .. MaxBw : [v EXCEPT !.icc = c, !.icc_bw = c] \in VoteType
      BY DEF VoteType
    <2>2. 0 \in 0 .. MaxBw
      BY <1>1
    <2>3. QED
      BY <2>1, <2>2 DEF UnsetIccBw
  <1>8. \A m \in SUBSET {"clocks", "icc"} : [v EXCEPT !.missed = m] \in VoteType
    BY DEF VoteType
  <1>9. RestoredRate(v) \in Nat /\ v.missed \subseteq {"clocks", "icc"}
    BY <1>1 DEF RestoredRate, VoteType
  <1>10. QED
    BY <1>2, <1>4, <1>6, <1>7, <1>8, <1>9

(* The sums of what the sessions ask for.                                  *)
LEMMA Sums ==
  ASSUME NEW i \in [Sessions -> SessionType]
  PROVE  /\ Total(i) \in Nat /\ TotalBw(i) \in Nat /\ WantedRate(i) \in Nat \ {0}
         /\ IsFiniteSet(Served(i)) /\ Served(i) \subseteq Sessions
  <1>1. IsFiniteSet(Served(i)) /\ Served(i) \subseteq Sessions
    BY PowerAssumption, FS_Subset DEF Served
  <1>2. \A x \in Sessions : i[x].freq \in Nat /\ i[x].bw \in Nat
    BY DEF SessionType
  <1>3. Total(i) \in Nat
    <2> DEFINE f == [x \in Sessions |-> i[x].freq]
    <2>1. \A x \in Served(i) : f[x] \in Nat
      BY <1>1, <1>2
    <2> HIDE DEF f
    <2>2. SumFunctionOnSet(f, Served(i)) \in Nat
      BY <1>1, <2>1, SumIsNat
    <2>3. QED
      BY <2>2 DEF Total, f
  <1>4. TotalBw(i) \in Nat
    <2> DEFINE f == [x \in Sessions |-> i[x].bw]
    <2>1. \A x \in Served(i) : f[x] \in Nat
      BY <1>1, <1>2
    <2> HIDE DEF f
    <2>2. SumFunctionOnSet(f, Served(i)) \in Nat
      BY <1>1, <2>1, SumIsNat
    <2>3. QED
      BY <2>2 DEF TotalBw, f
  <1>5. QED
    BY <1>1, <1>3, <1>4 DEF WantedRate

BudgetType == [fails: 0 .. MaxFails, cycles: 0 .. MaxCycles, irqs: 0 .. MaxIrqs]

(* Steps that are not of a power sequence and not of a session.            *)
LineStep == Raise \/ Isr \/ IsrThread \/ IsrThreadEnd

(* The votes keep their type: the sums do.                                 *)
LEMMA VotesTyped ==
  ASSUME Shape, vote \in VoteType, [Next]_vars
  PROVE  vote' \in VoteType
  <1>1. /\ \A rate \in Nat : OppSetRate(vote, rate) \in VoteType
        /\ \A rate \in Nat : SetClocks(vote, rate) \in VoteType
        /\ \A bw \in Nat : SetIccBw(vote, bw) \in VoteType
        /\ UnsetIccBw(vote) \in VoteType
        /\ RestoredRate(vote) \in Nat
        /\ vote.missed \subseteq {"clocks", "icc"}
    BY VoteSteps
  <1>2. MaxOpp \in Nat /\ MaxBw \in Nat
    BY PowerAssumption
  <1>3. Total(inst) \in Nat /\ TotalBw(inst) \in Nat /\ WantedRate(inst) \in Nat
    BY Sums DEF Shape
  <1>4. \A op : VoteOf(op) \in VoteType
    BY <1>1, <1>2 DEF VoteOf
  <1>5. ASSUME NEW x \in Sessions, VoteClocks(x) \/ UnvoteClocks(x)
        PROVE  vote' \in VoteType
    <2> DEFINE v == SetClocks(vote, WantedRate(inst))
    <2>1. v \in VoteType
      BY <1>1, <1>3
    <2>2. vote' = [v EXCEPT !.missed = v.missed \ {"clocks"}]
      BY <1>5 DEF VoteClocks, UnvoteClocks
    <2> HIDE DEF v
    <2>3. QED
      BY <2>1, <2>2, VoteSteps
  <1>6. ASSUME NEW x \in Sessions, VoteIcc(x)
        PROVE  vote' \in VoteType
    <2> DEFINE v == SetIccBw(vote, TotalBw(inst))
    <2>1. v \in VoteType
      BY <1>1, <1>3
    <2>2. vote' = [v EXCEPT !.missed = v.missed \ {"icc"}]
      BY <1>6 DEF VoteIcc
    <2> HIDE DEF v
    <2>3. QED
      BY <2>1, <2>2, VoteSteps
  <1>7. ASSUME NEW x \in Sessions, VoteClocksFails(x)
        PROVE  vote' \in VoteType
    BY <1>7, VoteSteps DEF VoteClocksFails
  <1>8. CASE Call
    BY <1>4, <1>8 DEF Call
  <1>9. CASE SetIdleOpp
    BY <1>1, <1>9 DEF SetIdleOpp
  <1>10. CASE \/ UNCHANGED vars \/ \E boot \in BOOLEAN : PowerOn(boot)
              \/ PowerOff \/ CallFails \/ PoweredOn \/ PowerOnFailed \/ PoweredOff \/ LineStep
              \/ \E x \in Sessions : OpenSession(x) \/ ScalePower(x) \/ CloseSession(x)
    <2>1. vote' = vote
      BY <1>10 DEF vars, PowerOn, PowerOff, CallFails, PoweredOn, PowerOnFailed, PoweredOff,
                   LineStep, Raise, Isr, IsrThread, IsrThreadEnd, OpenSession, ScalePower,
                   CloseSession
    <2>2. QED
      BY <2>1
  <1>11. QED
    BY <1>5, <1>6, <1>7, <1>8, <1>9, <1>10 DEF Next, LineStep

(* What is left of a sequence is calls.                                    *)
LEMMA CallsTyped ==
  ASSUME Shape, todo \in Seq(Calls), [Next]_vars
  PROVE  todo' \in Seq(Calls)
  <1>1. Seq(Takes) \subseteq Seq(Calls) /\ Seq(Returns) \subseteq Seq(Calls)
    BY CallsNamed
  <1>2. ASSUME NEW boot \in BOOLEAN, PowerOn(boot)
        PROVE  todo' \in Seq(Calls)
    BY <1>1, <1>2, OnCalls DEF PowerOn, Shape
  <1>3. CASE PowerOff
    BY <1>1, <1>3, OffCalls DEF PowerOff
  <1>4. CASE Call
    BY <1>4, HeadTail DEF Call
  <1>5. CASE CallFails
    BY <1>1, <1>5, UndoCalls DEF CallFails
  <1>6. CASE \/ UNCHANGED vars \/ PoweredOn \/ PowerOnFailed \/ PoweredOff \/ LineStep
             \/ SetIdleOpp
             \/ \E x \in Sessions :
                  \/ OpenSession(x) \/ ScalePower(x) \/ VoteClocks(x) \/ VoteClocksFails(x)
                  \/ VoteIcc(x) \/ CloseSession(x) \/ UnvoteClocks(x)
    <2>1. todo' = todo
      BY <1>6 DEF vars, PoweredOn, PowerOnFailed, PoweredOff, LineStep, Raise, Isr, IsrThread,
                  IsrThreadEnd, SetIdleOpp, OpenSession, ScalePower, VoteClocks,
                  VoteClocksFails, VoteIcc, CloseSession, UnvoteClocks
    <2>2. QED
      BY <2>1
  <1>7. QED
    BY <1>2, <1>3, <1>4, <1>5, <1>6 DEF Next, LineStep

(* The bounds of a behaviour are kept, and the platform is what it was.    *)
LEMMA BoundsTyped ==
  ASSUME budget \in BudgetType, [Next]_vars
  PROVE  budget' \in BudgetType /\ plat' = plat
  <1>1. /\ budget.fails \in 0 .. MaxFails /\ budget.cycles \in 0 .. MaxCycles
        /\ budget.irqs \in 0 .. MaxIrqs
        /\ {MaxFails, MaxCycles, MaxIrqs} \subseteq Nat
    BY PowerAssumption DEF BudgetType
  <1>2. plat' = plat /\ \/ budget' = budget
                        \/ /\ budget.cycles < MaxCycles
                           /\ budget' = [budget EXCEPT !.cycles = budget.cycles + 1]
                        \/ /\ budget.fails < MaxFails
                           /\ budget' = [budget EXCEPT !.fails = budget.fails + 1]
                        \/ /\ budget.irqs < MaxIrqs
                           /\ budget' = [budget EXCEPT !.irqs = budget.irqs + 1]
    <2>1. CASE \/ UNCHANGED vars \/ (\E boot \in BOOLEAN : PowerOn(boot)) \/ PowerOff
               \/ Call \/ CallFails \/ PoweredOn \/ PowerOnFailed \/ PoweredOff
      BY <2>1 DEF vars, PowerOn, PowerOff, Call, CallFails, PoweredOn, PowerOnFailed, PoweredOff
    <2>2. CASE LineStep \/ SetIdleOpp
      BY <2>2 DEF LineStep, Raise, Isr, IsrThread, IsrThreadEnd, SetIdleOpp
    <2>3. CASE \E x \in Sessions :
                 \/ OpenSession(x) \/ ScalePower(x) \/ VoteClocks(x) \/ VoteClocksFails(x)
                 \/ VoteIcc(x) \/ CloseSession(x) \/ UnvoteClocks(x)
      BY <2>3 DEF OpenSession, ScalePower, VoteClocks, VoteClocksFails, VoteIcc,
                  CloseSession, UnvoteClocks
    <2>4. QED
      BY <2>1, <2>2, <2>3 DEF Next, LineStep
  <1>3. QED
    BY <1>1, <1>2 DEF BudgetType

(* Every variable keeps its type whatever call fails, handled or not: the  *)
(* OPP never exceeds the highest and the bandwidth never bw_max, however   *)
(* many sessions are summed.                                               *)
THEOREM TypeCorrect == Spec => []TypeOK
  <1> DEFINE Inv == Shape /\ plat \in Platforms /\ todo \in Seq(Calls)
                    /\ vote \in VoteType /\ budget \in BudgetType
  <1>1. Init => Inv
    <2> SUFFICES ASSUME Init PROVE Inv
      OBVIOUS
    <2>1. Shape
      BY PowerStarts
    <2>2. todo \in Seq(Calls) /\ plat \in Platforms
      BY DEF Init
    <2>3. vote \in VoteType /\ budget \in BudgetType
      BY PowerAssumption DEF Init, VoteType, BudgetType
    <2>4. QED
      BY <2>1, <2>2, <2>3
  <1>2. Inv /\ [Next]_vars => Inv'
    BY Shaped, VotesTyped, CallsTyped, BoundsTyped
  <1>3. Inv => TypeOK
    BY DEF Shape, TypeOK, VoteType, BudgetType, SessionType, LineType
  <1>4. QED
    BY <1>1, <1>2, <1>3, PTL DEF Spec

-----------------------------------------------------------------------------
(* The votes of the sessions.  The sessions that are counted while they    *)
(* are at one of some places, and what they ask for.                       *)
Placed(i, A)  == {x \in Served(i) : i[x].at \in A}
Asked(i, A)   == SumFunctionOnSet([x \in Sessions |-> i[x].freq], Placed(i, A))
AskedBw(i, A) == SumFunctionOnSet([x \in Sessions |-> i[x].bw], Placed(i, A))

Everywhere == {"idle", "clocks", "icc", "unvote"}

(* A session that has voted for the clocks and not yet for the             *)
(* interconnect is already served by the OPP; only one at rest counts for  *)
(* the interconnect.                                                       *)
VotesInv ==
  /\ \A x \in Sessions : ~inst[x].opened => inst[x].data = 0
  /\ irq.idle_opp => \A x \in Sessions : ~inst[x].opened
  /\ vpu.phase = "on" /\ Made >= 1 => vote.icc >= 1
  /\ vpu.ok => vote.icc >= 1
  /\ vpu.ok /\ "clocks" \notin vote.missed =>
       vote.opp >= Least(Asked(inst, {"idle", "icc"}), MaxOpp)
  /\ vpu.ok /\ "icc" \notin vote.missed =>
       vote.icc + Threshold > Clamp(AskedBw(inst, {"idle"}))

(* Fewer sessions that ask for the same ask for less.                      *)
LEMMA AskedLess ==
  ASSUME NEW i \in [Sessions -> SessionType], NEW j \in [Sessions -> SessionType],
         NEW A, NEW B,
         \A x \in Placed(j, B) : x \in Placed(i, A) /\ j[x].freq = i[x].freq
  PROVE  Asked(j, B) \in Nat /\ Asked(i, A) \in Nat /\ Asked(j, B) <= Asked(i, A)
  <1> DEFINE f == [x \in Sessions |-> i[x].freq]
             g == [x \in Sessions |-> j[x].freq]
             S == Placed(i, A)
             T == Placed(j, B)
  <1>1. IsFiniteSet(S) /\ S \subseteq Sessions
    BY Sums, FS_Subset DEF Placed
  <1>2. \A x \in S : f[x] \in Nat
    BY <1>1 DEF SessionType
  <1>3. T \in SUBSET S /\ \A x \in T : g[x] = f[x]
    BY <1>1
  <1> HIDE DEF f, g, S, T
  <1>4. SumFunctionOnSet(g, T) <= SumFunctionOnSet(f, S)
        /\ SumFunctionOnSet(g, T) \in Nat /\ SumFunctionOnSet(f, S) \in Nat
    BY <1>1, <1>2, <1>3, SumOfPart
  <1>5. QED
    BY <1>4 DEF Asked, f, g, S, T

(* The same for the interconnect.                                          *)
LEMMA AskedBwLess ==
  ASSUME NEW i \in [Sessions -> SessionType], NEW j \in [Sessions -> SessionType],
         NEW A, NEW B,
         \A x \in Placed(j, B) : x \in Placed(i, A) /\ j[x].bw = i[x].bw
  PROVE  AskedBw(j, B) \in Nat /\ AskedBw(i, A) \in Nat /\ AskedBw(j, B) <= AskedBw(i, A)
  <1> DEFINE f == [x \in Sessions |-> i[x].bw]
             g == [x \in Sessions |-> j[x].bw]
             S == Placed(i, A)
             T == Placed(j, B)
  <1>1. IsFiniteSet(S) /\ S \subseteq Sessions
    BY Sums, FS_Subset DEF Placed
  <1>2. \A x \in S : f[x] \in Nat
    BY <1>1 DEF SessionType
  <1>3. T \in SUBSET S /\ \A x \in T : g[x] = f[x]
    BY <1>1
  <1> HIDE DEF f, g, S, T
  <1>4. SumFunctionOnSet(g, T) <= SumFunctionOnSet(f, S)
        /\ SumFunctionOnSet(g, T) \in Nat /\ SumFunctionOnSet(f, S) \in Nat
    BY <1>1, <1>2, <1>3, SumOfPart
  <1>5. QED
    BY <1>4 DEF AskedBw, f, g, S, T

(* Without an open session nothing is asked for.                           *)
LEMMA AskedNothing ==
  ASSUME NEW i, \A x \in Sessions : ~i[x].opened, NEW A
  PROVE  Asked(i, A) = 0 /\ AskedBw(i, A) = 0 /\ Placed(i, A) = {}
  <1>1. Placed(i, A) = {}
    BY DEF Placed, Served
  <1>2. QED
    BY <1>1, SumOfNone DEF Asked, AskedBw

(* The sums that are voted are those of all the sessions.                  *)
LEMMA TotalIsAsked ==
  ASSUME NEW i \in [Sessions -> SessionType]
  PROVE  Total(i) = Asked(i, Everywhere) /\ TotalBw(i) = AskedBw(i, Everywhere)
         /\ Placed(i, Everywhere) = Served(i)
  <1>1. Placed(i, Everywhere) = Served(i)
    BY DEF Placed, Everywhere, Served, SessionType
  <1>2. QED
    BY <1>1 DEF Total, TotalBw, Asked, AskedBw

(* To ask for more is never to be given less.                              *)
LEMMA MoreGivesMore ==
  ASSUME NEW a \in Nat, NEW b \in Nat, a <= b
  PROVE  /\ Least(a, MaxOpp) <= Least(b, MaxOpp) /\ Clamp(a) <= Clamp(b)
         /\ Clamp(a) \in Nat \ {0} /\ Clamp(b) \in Nat \ {0}
         /\ Least(a, MaxOpp) \in Nat /\ Least(b, MaxOpp) \in Nat
  BY PowerAssumption DEF Least, Clamp

(* What holds of the OPP after a vote for rate.                            *)
LEMMA ClocksVoted ==
  ASSUME vote \in VoteType, Agrees(vote), NEW rate \in Nat \ {0}
  PROVE  LET v == SetClocks(vote, rate)
         IN  v.opp = Least(rate, MaxOpp) /\ v.icc = vote.icc /\ v.missed = vote.missed
             /\ v.clk_freq = rate /\ v.icc_bw = vote.icc_bw
  <1>1. DOMAIN vote = VoteFields
    BY DEF VoteType, VoteFields
  <1>2. QED
    BY <1>1 DEF SetClocks, OppSetRate, Agrees, RestoredRate, VoteFields

(* A vote for the interconnect is less than a threshold below.             *)
LEMMA IccVoted ==
  ASSUME vote \in VoteType, vote.icc = vote.icc_bw, vote.icc >= 1, NEW bw \in Nat
  PROVE  LET v == SetIccBw(vote, bw)
         IN  v.icc >= 1 /\ v.icc + Threshold > Clamp(bw)
             /\ v.opp = vote.opp /\ v.missed = vote.missed
             /\ v.clk_freq = vote.clk_freq /\ v.icc = v.icc_bw
  <1> DEFINE c == Clamp(bw)
             w == [vote EXCEPT !.icc = c, !.icc_bw = c]
  <1>1. c \in Nat \ {0} /\ Threshold \in Nat \ {0}
    BY PowerAssumption, MoreGivesMore
  <1>2. vote.icc \in Nat /\ vote.icc_bw = vote.icc
    BY PowerAssumption DEF VoteType
  <1>3. DOMAIN vote = VoteFields
    BY DEF VoteType, VoteFields
  <1>4. SetIccBw(vote, bw) = IF vote.icc_bw # 0 /\ Distance(c, vote.icc_bw) < Threshold
                             THEN vote ELSE w
    BY DEF SetIccBw
  <1> HIDE DEF c
  <1>5. w.icc = c /\ w.icc_bw = c /\ w.opp = vote.opp /\ w.missed = vote.missed
        /\ w.clk_freq = vote.clk_freq
    BY <1>3 DEF VoteFields
  <1>6. Distance(c, vote.icc_bw) < Threshold => vote.icc + Threshold > c
    BY <1>1, <1>2 DEF Distance
  <1> HIDE DEF w
  <1>7. QED
    BY <1>1, <1>2, <1>4, <1>5, <1>6 DEF c

(* A session that opens, closes or asks anew counts for nothing.           *)
LEMMA UncountedKeeps ==
  ASSUME Shape, Shape', vote \in VoteType, VotesInv, NEW x \in Sessions,
         \A y \in Sessions : y # x => inst'[y] = inst[y],
         x \notin Placed(inst', {"idle", "icc"}),
         inst'[x].opened \/ inst'[x].data = 0,
         irq.idle_opp => ~inst'[x].opened,
         UNCHANGED <<plat, todo, vpu, vote, irq>>
  PROVE  VotesInv'
  <1>1. inst \in [Sessions -> SessionType] /\ inst' \in [Sessions -> SessionType]
    BY DEF Shape
  <1>2. Asked(inst', {"idle", "icc"}) \in Nat /\ Asked(inst, {"idle", "icc"}) \in Nat
        /\ Asked(inst', {"idle", "icc"}) <= Asked(inst, {"idle", "icc"})
    <2>1. \A y \in Placed(inst', {"idle", "icc"}) :
            y \in Placed(inst, {"idle", "icc"}) /\ inst'[y].freq = inst[y].freq
      BY DEF Placed, Served
    <2>2. QED
      BY <1>1, <2>1, AskedLess
  <1>3. AskedBw(inst', {"idle"}) \in Nat /\ AskedBw(inst, {"idle"}) \in Nat
        /\ AskedBw(inst', {"idle"}) <= AskedBw(inst, {"idle"})
    <2>1. \A y \in Placed(inst', {"idle"}) :
            y \in Placed(inst, {"idle"}) /\ inst'[y].bw = inst[y].bw
      BY DEF Placed, Served
    <2>2. QED
      BY <1>1, <2>1, AskedBwLess
  <1>4. Least(Asked(inst', {"idle", "icc"}), MaxOpp) <= Least(Asked(inst, {"idle", "icc"}), MaxOpp)
        /\ Least(Asked(inst', {"idle", "icc"}), MaxOpp) \in Nat
        /\ Least(Asked(inst, {"idle", "icc"}), MaxOpp) \in Nat
    BY <1>2, MoreGivesMore
  <1>5. Clamp(AskedBw(inst', {"idle"})) <= Clamp(AskedBw(inst, {"idle"}))
        /\ Clamp(AskedBw(inst', {"idle"})) \in Nat /\ Clamp(AskedBw(inst, {"idle"})) \in Nat
    BY <1>3, MoreGivesMore
  <1>6. vote.opp \in Nat /\ vote.icc \in Nat /\ Threshold \in Nat
    BY PowerAssumption DEF VoteType
  <1>7. vpu'.ok /\ "clocks" \notin vote'.missed =>
          vote'.opp >= Least(Asked(inst', {"idle", "icc"}), MaxOpp)
    BY <1>4, <1>6 DEF VotesInv
  <1>8. vpu'.ok /\ "icc" \notin vote'.missed =>
          vote'.icc + Threshold > Clamp(AskedBw(inst', {"idle"}))
    BY <1>5, <1>6 DEF VotesInv
  <1>9. /\ \A y \in Sessions : ~inst'[y].opened => inst'[y].data = 0
        /\ irq'.idle_opp => \A y \in Sessions : ~inst'[y].opened
    BY DEF VotesInv
  <1>10. /\ vpu'.phase = "on" /\ Made' >= 1 => vote'.icc >= 1
         /\ vpu'.ok => vote'.icc >= 1
    BY DEF VotesInv, Made
  <1>11. QED
    BY <1>7, <1>8, <1>9, <1>10 DEF VotesInv

(* A vote for the clocks is for the sum of every session.                  *)
LEMMA ClocksCover ==
  ASSUME Shape, Shape', PowerInv, vote \in VoteType, VotesInv, NEW x \in Sessions,
         VoteClocks(x) \/ UnvoteClocks(x)
  PROVE  VotesInv'
  <1> DEFINE v == SetClocks(vote, WantedRate(inst))
  <1>1. inst \in [Sessions -> SessionType] /\ inst' \in [Sessions -> SessionType]
    BY DEF Shape
  <1>2. /\ inst[x].at # "idle" /\ inst'[x].at = "icc" /\ UNCHANGED <<plat, todo, vpu, irq>>
        /\ \A y \in Sessions : /\ inst'[y].opened = inst[y].opened
                               /\ inst'[y].data = inst[y].data /\ inst'[y].freq = inst[y].freq
        /\ \A y \in Sessions : y # x => inst'[y] = inst[y]
        /\ vote' = [v EXCEPT !.missed = v.missed \ {"clocks"}]
    <2>1. /\ \/ inst' = [inst EXCEPT ![x].at = "icc"]
             \/ \E b \in Bws : inst' = [inst EXCEPT ![x].bw = b, ![x].at = "icc"]
          /\ inst[x].at # "idle" /\ UNCHANGED <<plat, todo, vpu, irq>>
          /\ vote' = [v EXCEPT !.missed = v.missed \ {"clocks"}]
      BY DEF VoteClocks, UnvoteClocks
    <2>2. CASE inst' = [inst EXCEPT ![x].at = "icc"]
      BY <1>1, <2>1, <2>2 DEF SessionType
    <2>3. CASE \E b \in Bws : inst' = [inst EXCEPT ![x].bw = b, ![x].at = "icc"]
      <3>1. PICK b \in Bws : inst' = [inst EXCEPT ![x].bw = b, ![x].at = "icc"]
        BY <2>3
      <3> DEFINE s == [[inst[x] EXCEPT !.bw = b] EXCEPT !.at = "icc"]
      <3>2. inst' = [inst EXCEPT ![x] = s]
        BY <3>1
      <3>3. /\ s.opened = inst[x].opened /\ s.data = inst[x].data
            /\ s.freq = inst[x].freq /\ s.at = "icc"
        BY <1>1 DEF SessionType
      <3> HIDE DEF s
      <3>4. QED
        BY <1>1, <2>1, <3>2, <3>3
    <2>4. QED
      BY <2>1, <2>2, <2>3
  <1>3. vpu.ok /\ Agrees(vote) /\ vote.icc >= 1 /\ vpu.phase = "rest"
    BY <1>2 DEF PowerInv, AtRest, VotesInv
  <1>4. WantedRate(inst) \in Nat \ {0} /\ Total(inst) \in Nat /\ Total(inst) <= WantedRate(inst)
    BY <1>1, Sums DEF WantedRate
  <1>5. v.opp = Least(WantedRate(inst), MaxOpp) /\ v.icc = vote.icc /\ v.missed = vote.missed
    BY <1>3, <1>4, ClocksVoted
  <1>6. v \in VoteType
    BY <1>4, VoteSteps
  <1> HIDE DEF v
  <1>7. /\ vote'.opp = Least(WantedRate(inst), MaxOpp) /\ vote'.icc = vote.icc
        /\ vote'.missed = vote.missed \ {"clocks"}
    BY <1>2, <1>5, <1>6 DEF VoteType
  <1>8. Asked(inst', {"idle", "icc"}) \in Nat /\ Asked(inst', {"idle", "icc"}) <= Total(inst)
    <2>1. \A y \in Placed(inst', {"idle", "icc"}) :
            y \in Served(inst) /\ inst'[y].freq = inst[y].freq
      BY <1>2 DEF Placed, Served
    <2>2. \A y \in Placed(inst', {"idle", "icc"}) :
            y \in Placed(inst, Everywhere) /\ inst'[y].freq = inst[y].freq
      BY <1>1, <2>1, TotalIsAsked
    <2>3. QED
      BY <1>1, <2>2, AskedLess, TotalIsAsked
  <1>9. vote'.opp >= Least(Asked(inst', {"idle", "icc"}), MaxOpp)
    <2>1. Asked(inst', {"idle", "icc"}) <= WantedRate(inst)
      BY <1>4, <1>8
    <2>2. QED
      BY <1>4, <1>7, <1>8, <2>1, MoreGivesMore
  <1>10. AskedBw(inst', {"idle"}) \in Nat /\ AskedBw(inst, {"idle"}) \in Nat
         /\ AskedBw(inst', {"idle"}) <= AskedBw(inst, {"idle"})
    <2>1. \A y \in Placed(inst', {"idle"}) :
            y \in Placed(inst, {"idle"}) /\ inst'[y].bw = inst[y].bw
      BY <1>2 DEF Placed, Served
    <2>2. QED
      BY <1>1, <2>1, AskedBwLess
  <1>11. "icc" \notin vote'.missed => vote'.icc + Threshold > Clamp(AskedBw(inst', {"idle"}))
    <2>1. /\ Clamp(AskedBw(inst', {"idle"})) <= Clamp(AskedBw(inst, {"idle"}))
          /\ Clamp(AskedBw(inst', {"idle"})) \in Nat /\ Clamp(AskedBw(inst, {"idle"})) \in Nat
      BY <1>10, MoreGivesMore
    <2>2. vote.icc \in Nat /\ Threshold \in Nat
      BY PowerAssumption DEF VoteType
    <2>3. QED
      BY <1>3, <1>7, <2>1, <2>2 DEF VotesInv
  <1>12. /\ \A y \in Sessions : ~inst'[y].opened => inst'[y].data = 0
         /\ irq'.idle_opp => \A y \in Sessions : ~inst'[y].opened
    BY <1>2 DEF VotesInv
  <1>13. QED
    BY <1>2, <1>3, <1>7, <1>9, <1>11, <1>12 DEF VotesInv

(* A vote for the interconnect is for the sum of every session.            *)
LEMMA IccCovers ==
  ASSUME Shape, Shape', PowerInv, vote \in VoteType, VotesInv, NEW x \in Sessions, VoteIcc(x)
  PROVE  VotesInv'
  <1> DEFINE v == SetIccBw(vote, TotalBw(inst))
  <1>1. inst \in [Sessions -> SessionType] /\ inst' \in [Sessions -> SessionType]
    BY DEF Shape
  <1>2. /\ inst[x].at = "icc" /\ inst'[x].at = "idle" /\ UNCHANGED <<plat, todo, vpu, irq>>
        /\ \A y \in Sessions : /\ inst'[y].opened = inst[y].opened
                               /\ inst'[y].data = inst[y].data /\ inst'[y].freq = inst[y].freq
                               /\ inst'[y].bw = inst[y].bw
        /\ \A y \in Sessions : y # x => inst'[y] = inst[y]
        /\ vote' = [v EXCEPT !.missed = v.missed \ {"icc"}]
    BY <1>1 DEF VoteIcc, SessionType
  <1>3. vpu.ok /\ vote.icc = vote.icc_bw /\ vote.icc >= 1 /\ vpu.phase = "rest"
    BY <1>2 DEF PowerInv, AtRest, VotesInv
  <1>4. TotalBw(inst) \in Nat
    BY <1>1, Sums
  <1>5. v.icc >= 1 /\ v.icc + Threshold > Clamp(TotalBw(inst)) /\ v.opp = vote.opp
        /\ v.missed = vote.missed
    BY <1>3, <1>4, IccVoted
  <1>6. v \in VoteType
    BY <1>4, VoteSteps
  <1> HIDE DEF v
  <1>7. /\ vote'.opp = vote.opp /\ vote'.icc = v.icc
        /\ vote'.missed = vote.missed \ {"icc"} /\ v.icc \in Nat
    BY <1>2, <1>5, <1>6, PowerAssumption DEF VoteType
  <1>8. AskedBw(inst', {"idle"}) \in Nat /\ AskedBw(inst', {"idle"}) <= TotalBw(inst)
    <2>1. \A y \in Placed(inst', {"idle"}) : y \in Served(inst) /\ inst'[y].bw = inst[y].bw
      BY <1>2 DEF Placed, Served
    <2>2. \A y \in Placed(inst', {"idle"}) :
            y \in Placed(inst, Everywhere) /\ inst'[y].bw = inst[y].bw
      BY <1>1, <2>1, TotalIsAsked
    <2>3. QED
      BY <1>1, <2>2, AskedBwLess, TotalIsAsked
  <1>9. vote'.icc + Threshold > Clamp(AskedBw(inst', {"idle"}))
    <2>1. /\ Clamp(AskedBw(inst', {"idle"})) <= Clamp(TotalBw(inst))
          /\ Clamp(AskedBw(inst', {"idle"})) \in Nat /\ Clamp(TotalBw(inst)) \in Nat
      BY <1>4, <1>8, MoreGivesMore
    <2>2. Threshold \in Nat
      BY PowerAssumption
    <2>3. QED
      BY <1>5, <1>7, <2>1, <2>2
  <1>10. "clocks" \notin vote'.missed => vote'.opp >= Least(Asked(inst', {"idle", "icc"}), MaxOpp)
    <2>1. \A y \in Placed(inst', {"idle", "icc"}) :
            y \in Placed(inst, {"idle", "icc"}) /\ inst'[y].freq = inst[y].freq
      BY <1>2 DEF Placed, Served
    <2>2. Asked(inst', {"idle", "icc"}) \in Nat /\ Asked(inst, {"idle", "icc"}) \in Nat
          /\ Asked(inst', {"idle", "icc"}) <= Asked(inst, {"idle", "icc"})
      BY <1>1, <2>1, AskedLess
    <2>3. /\ Least(Asked(inst', {"idle", "icc"}), MaxOpp)
               <= Least(Asked(inst, {"idle", "icc"}), MaxOpp)
          /\ Least(Asked(inst', {"idle", "icc"}), MaxOpp) \in Nat
          /\ Least(Asked(inst, {"idle", "icc"}), MaxOpp) \in Nat
      BY <2>2, MoreGivesMore
    <2>4. vote.opp \in Nat
      BY PowerAssumption DEF VoteType
    <2>5. QED
      BY <1>3, <1>7, <2>3, <2>4 DEF VotesInv
  <1>11. /\ \A y \in Sessions : ~inst'[y].opened => inst'[y].data = 0
         /\ irq'.idle_opp => \A y \in Sessions : ~inst'[y].opened
    BY <1>2 DEF VotesInv
  <1>12. QED
    BY <1>2, <1>3, <1>5, <1>7, <1>9, <1>10, <1>11 DEF VotesInv

(* A VPU that is on or coming up has a vote for bandwidth: the first call  *)
(* of a power-on is for all of it.                                         *)
LEMMA IccRaised ==
  ASSUME Shape, PowerInv, vote \in VoteType, VotesInv, Call, vpu.phase = "on"
  PROVE  vote'.icc >= 1
  <1> DEFINE op == Head(todo)
             n == Made + 1
  <1>1. Opening /\ vote.icc = vote.icc_bw /\ plat \in Known /\ todo # <<>> /\ vote' = VoteOf(op)
    BY DEF PowerInv, Shape, Call
  <1>2. /\ todo \in Seq(Takes) /\ op = todo[1] /\ op \in Takes /\ Len(todo) \in Nat \ {0}
        /\ Len(todo) <= Steps(plat)
    BY <1>1, HeadTail DEF Opening
  <1>3. Steps(plat) \in {11, 13}
    BY <1>1, Places
  <1>4. Made \in Nat /\ n \in 1 .. Steps(plat) /\ op = PowerOnSeq(plat)[n]
    BY <1>1, <1>2, <1>3 DEF Made, Opening
  <1>5. (op = "icc" <=> n = 1) /\ op \notin {"rate0", "-icc"}
    BY <1>1, <1>4, OnCalls
  <1>6. DOMAIN vote = VoteFields
    BY DEF Shape
  <1> HIDE DEF op
  <1>7. CASE n = 1
    <2>1. vote.icc = 0 /\ vote.icc_bw = 0
      BY <1>1, <1>4, <1>7 DEF Opening
    <2>2. vote' = [vote EXCEPT !.icc = Clamp(MaxBw), !.icc_bw = Clamp(MaxBw)]
      BY <1>1, <1>5, <1>7, <2>1 DEF VoteOf, SetIccBw
    <2>3. Clamp(MaxBw) \in Nat \ {0}
      BY PowerAssumption, MoreGivesMore
    <2> DEFINE c == Clamp(MaxBw)
    <2> HIDE DEF c
    <2>4. vote'.icc = c
      BY <1>6, <2>2 DEF VoteFields, c
    <2>5. QED
      BY <2>3, <2>4 DEF c
  <1>8. CASE n # 1
    <2>1. vote'.icc = vote.icc
      BY <1>1, <1>2, <1>5, <1>6, <1>8 DEF VoteOf, OppSetRate, VoteFields, Takes
    <2>2. Made >= 1 /\ vpu.phase = "on"
      BY <1>4, <1>8
    <2>3. QED
      BY <2>1, <2>2 DEF VotesInv
  <1>9. QED
    BY <1>7, <1>8

(* At rest with nothing opened the votes of a power-on cover what is asked *)
(* for.                                                                    *)
LEMMA NothingAskedKeeps ==
  ASSUME vote' \in VoteType, \A x \in Sessions : ~inst'[x].opened /\ inst'[x].data = 0,
         vpu'.ok \/ (vpu'.phase = "on" /\ Made' >= 1) => vote'.icc >= 1
  PROVE  VotesInv'
  <1>1. Asked(inst', {"idle", "icc"}) = 0 /\ AskedBw(inst', {"idle"}) = 0
    BY AskedNothing
  <1>2. Least(0, MaxOpp) = 0 /\ Clamp(0) = 1
    BY PowerAssumption DEF Least, Clamp
  <1>3. vote'.opp \in Nat /\ vote'.icc \in Nat /\ Threshold \in Nat \ {0}
    BY PowerAssumption DEF VoteType
  <1>4. QED
    BY <1>1, <1>2, <1>3 DEF VotesInv

(* Every step leaves the sessions served.                                  *)
LEMMA VotesKeep ==
  ASSUME Shape, Shape', PowerInv, PowerInv', vote \in VoteType, vote' \in VoteType, VotesInv,
         ~Careless, [Next]_vars
  PROVE  VotesInv'
  <1>1. inst \in [Sessions -> SessionType] /\ irq \in LineType /\ inst' \in [Sessions -> SessionType]
    BY DEF Shape
  <1>2. ~vpu.ok => \A x \in Sessions : ~inst[x].opened /\ inst[x].data = 0
    BY DEF PowerInv, VotesInv
  <1>3. vpu.ok => vpu.phase = "rest" /\ todo = <<>> /\ Agrees(vote) /\ vote.icc = vote.icc_bw
    BY DEF PowerInv, AtRest
  <1>4. ASSUME UNCHANGED <<plat, todo, vpu, vote, inst>>, irq'.idle_opp => irq.idle_opp
        PROVE  VotesInv'
    BY <1>4 DEF VotesInv, Made
  <1>5. CASE UNCHANGED vars \/ LineStep
    <2>1. UNCHANGED <<plat, todo, vpu, vote, inst>>
      BY <1>5 DEF vars, LineStep, Raise, Isr, IsrThread, IsrThreadEnd
    <2>2. irq'.idle_opp = irq.idle_opp
      BY <1>1, <1>5 DEF vars, LineStep, Raise, Isr, IsrThread, IsrThreadEnd, ClearInterrupt,
                        LineType
    <2>3. QED
      BY <1>4, <2>1, <2>2
  <1>6. CASE \/ \E boot \in BOOLEAN : PowerOn(boot)
             \/ CallFails \/ PoweredOn \/ PowerOnFailed \/ PoweredOff \/ (Call /\ ~vpu.ok)
    <2>1. ~vpu.ok /\ UNCHANGED inst
      BY <1>3, <1>6 DEF PowerOn, CallFails, PoweredOn, PowerOnFailed, PoweredOff, Call, LockFree
    <2>2. \A x \in Sessions : ~inst'[x].opened /\ inst'[x].data = 0
      BY <1>2, <2>1
    <2>3. vpu'.ok \/ (vpu'.phase = "on" /\ Made' >= 1) => vote'.icc >= 1
      <3>1. ASSUME NEW boot \in BOOLEAN, PowerOn(boot)
            PROVE  ~vpu'.ok /\ ~(Made' >= 1)
        <4>1. plat \in Known /\ plat' = plat /\ todo' = PowerOnSeq(plat) /\ ~vpu'.ok
          BY <3>1 DEF PowerOn, Shape
        <4>2. Made' = 0
          BY <4>1, OnCalls, Places DEF Made
        <4>3. QED
          BY <4>1, <4>2
      <3>2. CASE CallFails \/ PowerOnFailed \/ PoweredOff
        <4>1. ~vpu'.ok /\ vpu'.phase # "on"
          BY <2>1, <3>2 DEF CallFails, PowerOnFailed, PoweredOff, Shape
        <4>2. QED
          BY <4>1
      <3>3. CASE PoweredOn
        <4>1. todo = <<>> /\ vpu.phase = "on" /\ plat \in Known /\ vote' = vote
          BY <3>3 DEF PoweredOn, Shape
        <4>2. Made >= 1
          BY <4>1, Places DEF Made
        <4>3. QED
          BY <4>1, <4>2 DEF VotesInv
      <3>4. CASE Call
        <4>1. vpu' = vpu /\ todo # <<>>
          BY <3>4 DEF Call
        <4>2. QED
          BY <2>1, <3>4, <4>1, IccRaised
      <3>5. QED
        BY <1>6, <3>1, <3>2, <3>3, <3>4
    <2>4. QED
      BY <2>2, <2>3, NothingAskedKeeps
  <1>7. CASE PowerOff
    <2>1. /\ UNCHANGED inst /\ ~vpu'.ok /\ vpu'.phase = "off"
          /\ \A x \in Sessions : ~inst[x].opened
      BY <1>7 DEF PowerOff, Shape
    <2>2. \A x \in Sessions : ~inst'[x].opened /\ inst'[x].data = 0
      BY <2>1 DEF VotesInv
    <2>3. QED
      BY <2>1, <2>2, NothingAskedKeeps
  <1>8. CASE SetIdleOpp
    <2>1. /\ vpu.ok /\ irq.idle_opp /\ vote' = SetClocks(vote, 1)
          /\ UNCHANGED <<plat, todo, vpu, inst>>
      BY <1>8 DEF SetIdleOpp
    <2>2. vote'.icc = vote.icc
      BY <1>3, <2>1, ClocksVoted
    <2>3. \A x \in Sessions : ~inst'[x].opened /\ inst'[x].data = 0
      BY <2>1 DEF VotesInv
    <2>4. vote'.icc >= 1
      BY <2>1, <2>2 DEF VotesInv
    <2>5. QED
      BY <2>3, <2>4, NothingAskedKeeps
  <1>9. ASSUME NEW x \in Sessions, OpenSession(x)
        PROVE  VotesInv'
    <2>1. /\ inst' = [inst EXCEPT ![x] = [inst[x] EXCEPT !.opened = TRUE]]
          /\ UNCHANGED <<plat, todo, vpu, vote, irq>> /\ ~inst[x].opened /\ ~irq.idle_opp
      BY <1>9 DEF OpenSession
    <2>2. inst[x].data = 0
      BY <2>1 DEF VotesInv
    <2>3. inst'[x].data = 0 /\ inst'[x].opened
      BY <1>1, <2>1, <2>2 DEF SessionType
    <2>4. \A y \in Sessions : y # x => inst'[y] = inst[y]
      BY <1>1, <2>1
    <2>5. x \notin Placed(inst', {"idle", "icc"})
      BY <2>3 DEF Placed, Served
    <2>6. QED
      BY <2>1, <2>3, <2>4, <2>5, UncountedKeeps
  <1>10. ASSUME NEW x \in Sessions, ScalePower(x)
         PROVE  VotesInv'
    <2>1. /\ inst[x].opened /\ vpu.ok
          /\ UNCHANGED <<plat, todo, vpu, vote, irq>>
          /\ \/ \E f \in Freqs :
                  inst' = [inst EXCEPT ![x].data = 1, ![x].freq = f, ![x].at = "clocks"]
             \/ \E b \in Bws :
                  inst' = [inst EXCEPT ![x].data = 0, ![x].bw = b, ![x].at = "icc"]
      BY <1>2, <1>10 DEF ScalePower
    <2>2. inst'[x].opened /\ (inst'[x].data = 0 \/ inst'[x].at = "clocks")
          /\ \A y \in Sessions : y # x => inst'[y] = inst[y]
      <3>1. ASSUME NEW f \in Freqs,
                   inst' = [inst EXCEPT ![x].data = 1, ![x].freq = f, ![x].at = "clocks"]
            PROVE  inst'[x].opened /\ inst'[x].at = "clocks"
                   /\ \A y \in Sessions : y # x => inst'[y] = inst[y]
        BY <1>1, <2>1, <3>1 DEF SessionType
      <3>2. ASSUME NEW b \in Bws,
                   inst' = [inst EXCEPT ![x].data = 0, ![x].bw = b, ![x].at = "icc"]
            PROVE  inst'[x].opened /\ inst'[x].data = 0
                   /\ \A y \in Sessions : y # x => inst'[y] = inst[y]
        BY <1>1, <2>1, <3>2 DEF SessionType
      <3>3. QED
        BY <2>1, <3>1, <3>2
    <2>3. x \notin Placed(inst', {"idle", "icc"})
      BY <2>2 DEF Placed, Served
    <2>4. ~irq.idle_opp
      BY <2>1 DEF VotesInv
    <2>5. QED
      BY <2>1, <2>2, <2>3, <2>4, UncountedKeeps
  <1>11. ASSUME NEW x \in Sessions, CloseSession(x)
         PROVE  VotesInv'
    <2> DEFINE s == [Fresh EXCEPT !.at = "unvote"]
    <2>1. s.data = 0 /\ ~s.opened
      BY DEF Fresh
    <2> HIDE DEF s
    <2>2. inst' = [inst EXCEPT ![x] = s] /\ UNCHANGED <<plat, todo, vpu, vote, irq>>
      BY <1>11 DEF CloseSession, s
    <2>3. inst'[x].data = 0 /\ ~inst'[x].opened /\ \A y \in Sessions : y # x => inst'[y] = inst[y]
      BY <1>1, <2>1, <2>2
    <2>4. x \notin Placed(inst', {"idle", "icc"})
      BY <2>3 DEF Placed, Served
    <2>5. QED
      BY <2>2, <2>3, <2>4, UncountedKeeps
  <1>12. ASSUME NEW x \in Sessions, VoteClocksFails(x)
         PROVE  VotesInv'
    <2>1. /\ vote' = [vote EXCEPT !.missed = {"clocks", "icc"}]
          /\ inst' = [inst EXCEPT ![x] = [inst[x] EXCEPT !.at = "idle"]]
          /\ UNCHANGED <<plat, todo, vpu, irq>>
      BY <1>12 DEF VoteClocksFails
    <2>2. vote'.missed = {"clocks", "icc"} /\ vote'.icc = vote.icc
      BY <2>1 DEF VoteType
    <2>3. \A y \in Sessions : inst'[y].opened = inst[y].opened /\ inst'[y].data = inst[y].data
      BY <1>1, <2>1 DEF SessionType
    <2>4. QED
      BY <2>1, <2>2, <2>3 DEF VotesInv, Made
  <1>13. ASSUME NEW x \in Sessions, VoteClocks(x) \/ UnvoteClocks(x)
         PROVE  VotesInv'
    BY <1>13, ClocksCover
  <1>14. ASSUME NEW x \in Sessions, VoteIcc(x)
         PROVE  VotesInv'
    BY <1>14, IccCovers
  <1>15. Call => ~vpu.ok
    BY <1>3 DEF Call
  <1>16. QED
    BY <1>5, <1>6, <1>7, <1>8, <1>9, <1>10, <1>11, <1>12, <1>13, <1>14, <1>15
       DEF Next, LineStep

(* Sessions that have voted are served, whatever other sessions vote,      *)
(* close and open meanwhile and whatever handled call failed before: the   *)
(* OPP covers the sum of what they asked for, and the interconnect vote is *)
(* less than a threshold below theirs, unless a vote of a session failed.  *)
THEOREM Covered ==
  ASSUME HandledOnly, Answered, ~Careless
  PROVE  Spec => []VotesCovered
  <1> DEFINE Inv == Shape /\ PowerInv /\ vote \in VoteType /\ VotesInv
  <1>1. Init => Inv
    <2> SUFFICES ASSUME Init PROVE Inv
      OBVIOUS
    <2>1. \A x \in Sessions : ~inst[x].opened /\ inst[x].data = 0
      BY DEF Init, Fresh
    <2>2. VotesInv
      BY <2>1 DEF Init, VotesInv
    <2>3. vote \in VoteType
      BY PowerAssumption DEF Init, VoteType
    <2>4. QED
      BY <2>2, <2>3, PowerStarts
  <1>2. Inv /\ [Next]_vars => Inv'
    <2>1. Shape /\ PowerInv /\ [Next]_vars => Shape' /\ PowerInv'
      BY Shaped, PowerKeeps
    <2>2. Shape /\ vote \in VoteType /\ [Next]_vars => vote' \in VoteType
      BY VotesTyped
    <2>3. QED
      BY <2>1, <2>2, VotesKeep
  <1>3. Inv => VotesCovered
    <2> SUFFICES ASSUME Shape, PowerInv, vote \in VoteType, VotesInv, LockFree, vpu.ok
                 PROVE  /\ "clocks" \notin vote.missed =>
                             vote.opp >= Least(Total(Settled), MaxOpp)
                        /\ "icc" \notin vote.missed =>
                             vote.icc + Threshold > Clamp(TotalBw(Settled))
      BY DEF VotesCovered
    <2>1. inst \in [Sessions -> SessionType]
      BY DEF Shape
    <2>2. Settled \in [Sessions -> SessionType]
      <3>1. Fresh \in SessionType
        BY DEF Fresh, SessionType
      <3>2. QED
        BY <2>1, <3>1 DEF Settled
    <2>3. \A x \in Placed(Settled, Everywhere) :
            x \in Placed(inst, {"idle"}) /\ Settled[x] = inst[x]
      <3>1. ~Fresh.opened
        BY DEF Fresh
      <3>2. QED
        BY <3>1 DEF Placed, Served, Settled
    <2>4. Placed(inst, {"idle"}) \subseteq Placed(inst, {"idle", "icc"})
      BY DEF Placed
    <2>5. Total(Settled) \in Nat /\ Asked(inst, {"idle", "icc"}) \in Nat
          /\ Total(Settled) <= Asked(inst, {"idle", "icc"})
      <3>1. \A x \in Placed(Settled, Everywhere) :
              x \in Placed(inst, {"idle", "icc"}) /\ Settled[x].freq = inst[x].freq
        BY <2>3, <2>4
      <3>2. QED
        BY <2>1, <2>2, <3>1, AskedLess, TotalIsAsked
    <2>6. TotalBw(Settled) \in Nat /\ AskedBw(inst, {"idle"}) \in Nat
          /\ TotalBw(Settled) <= AskedBw(inst, {"idle"})
      <3>1. \A x \in Placed(Settled, Everywhere) :
              x \in Placed(inst, {"idle"}) /\ Settled[x].bw = inst[x].bw
        BY <2>3
      <3>2. QED
        BY <2>1, <2>2, <3>1, AskedBwLess, TotalIsAsked
    <2>7. /\ Least(Total(Settled), MaxOpp) <= Least(Asked(inst, {"idle", "icc"}), MaxOpp)
          /\ Least(Total(Settled), MaxOpp) \in Nat
          /\ Least(Asked(inst, {"idle", "icc"}), MaxOpp) \in Nat
          /\ Clamp(TotalBw(Settled)) <= Clamp(AskedBw(inst, {"idle"}))
          /\ Clamp(TotalBw(Settled)) \in Nat /\ Clamp(AskedBw(inst, {"idle"})) \in Nat
      BY <2>5, <2>6, MoreGivesMore
    <2>8. vote.opp \in Nat /\ vote.icc \in Nat /\ Threshold \in Nat
      BY PowerAssumption DEF VoteType
    <2>9. QED
      BY <2>7, <2>8 DEF VotesInv
  <1>4. QED
    BY <1>1, <1>2, <1>3, PTL DEF Spec

-----------------------------------------------------------------------------
(* The order in which references are given back.  What must come after a   *)
(* call.                                                                   *)
Needs(call) ==
  CASE call = "-ctrl" -> "-ctrl_pd"
    [] call \in {"-hw", "-hw_axi"} -> "-hw_pd"
    [] call \in {"-aux_hw", "-aux_axi"} -> "-aux_pd"
    [] call \in {"-hw_pd", "-aux_pd"} -> "-ctrl_pd"
    [] OTHER -> "nothing"

Later(call, i, q) == \E j \in i + 1 .. Len(q) : q[j] = call

(* Whatever is given back leaves what needs it given back before.          *)
Orderly(q) == \A i \in 1 .. Len(q) : Needs(q[i]) # "nothing" => Later(Needs(q[i]), i, q)

(* Every handled unwind of sm8150 gives back in order.                          *)
LEMMA OrderlySm8150 ==
  ASSUME NEW p \in Known, p = "sm8150", NEW f \in Handled(p)
  PROVE  Orderly(Undo(p, f))
  <1>1. Orderly(Undo(p, "icc"))
    <2> DEFINE q == Undo(p, "icc")
    <2>1. /\ Len(q) = 0
      BY DEF Undo, UndoHw, UndoController, HwCalls,
             PowerOffController
    <2> HIDE DEF q
    <2>2. Orderly(q)
      BY <2>1 DEF Orderly, Later, Needs
    <2>3. QED
      BY <2>2 DEF q
  <1>2. Orderly(Undo(p, "reset"))
    <2> DEFINE q == Undo(p, "reset")
    <2>1. /\ Len(q) = 2 /\ q[1] = "-ctrl_pd" /\ q[2] = "-icc"
      BY DEF Undo, UndoHw, UndoController, HwCalls,
             PowerOffController
    <2> HIDE DEF q
    <2>2. Orderly(q)
      BY <2>1 DEF Orderly, Later, Needs
    <2>3. QED
      BY <2>2 DEF q
  <1>3. Orderly(Undo(p, "bus"))
    <2> DEFINE q == Undo(p, "bus")
    <2>1. /\ Len(q) = 2 /\ q[1] = "-ctrl_pd" /\ q[2] = "-icc"
      BY DEF Undo, UndoHw, UndoController, HwCalls,
             PowerOffController
    <2> HIDE DEF q
    <2>2. Orderly(q)
      BY <2>1 DEF Orderly, Later, Needs
    <2>3. QED
      BY <2>2 DEF q
  <1>4. Orderly(Undo(p, "axi"))
    <2> DEFINE q == Undo(p, "axi")
    <2>1. /\ Len(q) = 3 /\ q[1] = "-bus" /\ q[2] = "-ctrl_pd" /\ q[3] = "-icc"
      BY DEF Undo, UndoHw, UndoController, HwCalls,
             PowerOffController
    <2> HIDE DEF q
    <2>2. Orderly(q)
      BY <2>1 DEF Orderly, Later, Needs
    <2>3. QED
      BY <2>2 DEF q
  <1>5. Orderly(Undo(p, "ctrl"))
    <2> DEFINE q == Undo(p, "ctrl")
    <2>1. /\ Len(q) = 4 /\ q[1] = "-axi" /\ q[2] = "-bus" /\ q[3] = "-ctrl_pd"
          /\ q[4] = "-icc"
      BY DEF Undo, UndoHw, UndoController, HwCalls,
             PowerOffController
    <2> HIDE DEF q
    <2>2. Orderly(q)
      BY <2>1 DEF Orderly, Later, Needs
    <2>3. QED
      BY <2>2 DEF q
  <1>6. Orderly(Undo(p, "rate"))
    <2> DEFINE q == Undo(p, "rate")
    <2>1. /\ Len(q) = 5 /\ q[1] = "-ctrl" /\ q[2] = "-axi" /\ q[3] = "-bus"
          /\ q[4] = "-ctrl_pd" /\ q[5] = "-icc"
      BY DEF Undo, UndoHw, UndoController, HwCalls,
             PowerOffController
    <2> HIDE DEF q
    <2>2. Orderly(q)
      BY <2>1 DEF Orderly, Later, Needs
    <2>3. QED
      BY <2>2 DEF q
  <1>7. Orderly(Undo(p, "hw_pd"))
    <2> DEFINE q == Undo(p, "hw_pd")
    <2>1. /\ Len(q) = 6 /\ q[1] = "rate0" /\ q[2] = "-ctrl" /\ q[3] = "-axi"
          /\ q[4] = "-bus" /\ q[5] = "-ctrl_pd" /\ q[6] = "-icc"
      BY DEF Undo, UndoHw, UndoController, HwCalls,
             PowerOffController
    <2> HIDE DEF q
    <2>2. Orderly(q)
      BY <2>1 DEF Orderly, Later, Needs
    <2>3. QED
      BY <2>2 DEF q
  <1>8. Orderly(Undo(p, "aux_pd"))
    <2> DEFINE q == Undo(p, "aux_pd")
    <2>1. /\ Len(q) = 7 /\ q[1] = "-hw_pd" /\ q[2] = "rate0" /\ q[3] = "-ctrl"
          /\ q[4] = "-axi" /\ q[5] = "-bus" /\ q[6] = "-ctrl_pd" /\ q[7] = "-icc"
      BY DEF Undo, UndoHw, UndoController, HwCalls,
             PowerOffController
    <2> HIDE DEF q
    <2>2. Orderly(q)
      BY <2>1 DEF Orderly, Later, Needs
    <2>3. QED
      BY <2>2 DEF q
  <1>9. Orderly(Undo(p, "hw_axi"))
    <2> DEFINE q == Undo(p, "hw_axi")
    <2>1. /\ Len(q) = 8 /\ q[1] = "-aux_pd" /\ q[2] = "-hw_pd" /\ q[3] = "rate0"
          /\ q[4] = "-ctrl" /\ q[5] = "-axi" /\ q[6] = "-bus" /\ q[7] = "-ctrl_pd"
          /\ q[8] = "-icc"
      BY DEF Undo, UndoHw, UndoController, HwCalls,
             PowerOffController
    <2> HIDE DEF q
    <2>2. Orderly(q)
      BY <2>1 DEF Orderly, Later, Needs
    <2>3. QED
      BY <2>2 DEF q
  <1>10. Orderly(Undo(p, "aux_axi"))
    <2> DEFINE q == Undo(p, "aux_axi")
    <2>1. /\ Len(q) = 9 /\ q[1] = "-hw_axi" /\ q[2] = "-aux_pd" /\ q[3] = "-hw_pd"
          /\ q[4] = "rate0" /\ q[5] = "-ctrl" /\ q[6] = "-axi" /\ q[7] = "-bus"
          /\ q[8] = "-ctrl_pd" /\ q[9] = "-icc"
      BY DEF Undo, UndoHw, UndoController, HwCalls,
             PowerOffController
    <2> HIDE DEF q
    <2>2. Orderly(q)
      BY <2>1 DEF Orderly, Later, Needs
    <2>3. QED
      BY <2>2 DEF q
  <1>11. Orderly(Undo(p, "hw"))
    <2> DEFINE q == Undo(p, "hw")
    <2>1. /\ Len(q) = 10 /\ q[1] = "-aux_axi" /\ q[2] = "-hw_axi" /\ q[3] = "-aux_pd"
          /\ q[4] = "-hw_pd" /\ q[5] = "rate0" /\ q[6] = "-ctrl" /\ q[7] = "-axi"
          /\ q[8] = "-bus" /\ q[9] = "-ctrl_pd" /\ q[10] = "-icc"
      BY DEF Undo, UndoHw, UndoController, HwCalls,
             PowerOffController
    <2> HIDE DEF q
    <2>2. Orderly(q)
      BY <2>1 DEF Orderly, Later, Needs
    <2>3. QED
      BY <2>2 DEF q
  <1>12. f \in {"icc", "reset", "bus", "axi", "ctrl", "rate", "hw_pd", "aux_pd", "hw_axi", "aux_axi", "hw"}
    BY DEF Handled
  <1>13. QED
    BY <1>1, <1>2, <1>3, <1>4, <1>5, <1>6, <1>7, <1>8, <1>9, <1>10, <1>11, <1>12

(* Every handled unwind of the others gives back in order.                      *)
LEMMA OrderlyOthers ==
  ASSUME NEW p \in Known, p # "sm8150", NEW f \in Handled(p)
  PROVE  Orderly(Undo(p, f))
  <1>1. Orderly(Undo(p, "icc"))
    <2> DEFINE q == Undo(p, "icc")
    <2>1. /\ Len(q) = 0
      BY DEF Undo, UndoHw, UndoController, HwCalls,
             PowerOffController
    <2> HIDE DEF q
    <2>2. Orderly(q)
      BY <2>1 DEF Orderly, Later, Needs
    <2>3. QED
      BY <2>2 DEF q
  <1>2. Orderly(Undo(p, "max_ctrl"))
    <2> DEFINE q == Undo(p, "max_ctrl")
    <2>1. /\ Len(q) = 1 /\ q[1] = "-icc"
      BY DEF Undo, UndoHw, UndoController, HwCalls,
             PowerOffController
    <2> HIDE DEF q
    <2>2. Orderly(q)
      BY <2>1 DEF Orderly, Later, Needs
    <2>3. QED
      BY <2>2 DEF q
  <1>3. Orderly(Undo(p, "reset"))
    <2> DEFINE q == Undo(p, "reset")
    <2>1. /\ Len(q) = 3 /\ q[1] = "rate0" /\ q[2] = "-ctrl_pd" /\ q[3] = "-icc"
      BY DEF Undo, UndoHw, UndoController, HwCalls,
             PowerOffController
    <2> HIDE DEF q
    <2>2. Orderly(q)
      BY <2>1 DEF Orderly, Later, Needs
    <2>3. QED
      BY <2>2 DEF q
  <1>4. Orderly(Undo(p, "axi"))
    <2> DEFINE q == Undo(p, "axi")
    <2>1. /\ Len(q) = 3 /\ q[1] = "rate0" /\ q[2] = "-ctrl_pd" /\ q[3] = "-icc"
      BY DEF Undo, UndoHw, UndoController, HwCalls,
             PowerOffController
    <2> HIDE DEF q
    <2>2. Orderly(q)
      BY <2>1 DEF Orderly, Later, Needs
    <2>3. QED
      BY <2>2 DEF q
  <1>5. Orderly(Undo(p, "ctrl"))
    <2> DEFINE q == Undo(p, "ctrl")
    <2>1. /\ Len(q) = 4 /\ q[1] = "-axi" /\ q[2] = "rate0" /\ q[3] = "-ctrl_pd"
          /\ q[4] = "-icc"
      BY DEF Undo, UndoHw, UndoController, HwCalls,
             PowerOffController
    <2> HIDE DEF q
    <2>2. Orderly(q)
      BY <2>1 DEF Orderly, Later, Needs
    <2>3. QED
      BY <2>2 DEF q
  <1>6. Orderly(Undo(p, "max_hw"))
    <2> DEFINE q == Undo(p, "max_hw")
    <2>1. /\ Len(q) = 5 /\ q[1] = "-ctrl" /\ q[2] = "-axi" /\ q[3] = "rate0"
          /\ q[4] = "-ctrl_pd" /\ q[5] = "-icc"
      BY DEF Undo, UndoHw, UndoController, HwCalls,
             PowerOffController
    <2> HIDE DEF q
    <2>2. Orderly(q)
      BY <2>1 DEF Orderly, Later, Needs
    <2>3. QED
      BY <2>2 DEF q
  <1>7. Orderly(Undo(p, "hw"))
    <2> DEFINE q == Undo(p, "hw")
    <2>1. /\ Len(q) = 7 /\ q[1] = "rate0" /\ q[2] = "-hw_pd" /\ q[3] = "-ctrl"
          /\ q[4] = "-axi" /\ q[5] = "rate0" /\ q[6] = "-ctrl_pd" /\ q[7] = "-icc"
      BY DEF Undo, UndoHw, UndoController, HwCalls,
             PowerOffController
    <2> HIDE DEF q
    <2>2. Orderly(q)
      BY <2>1 DEF Orderly, Later, Needs
    <2>3. QED
      BY <2>2 DEF q
  <1>8. Orderly(Undo(p, "hwmode"))
    <2> DEFINE q == Undo(p, "hwmode")
    <2>1. /\ Len(q) = 8 /\ q[1] = "-hw" /\ q[2] = "rate0" /\ q[3] = "-hw_pd"
          /\ q[4] = "-ctrl" /\ q[5] = "-axi" /\ q[6] = "rate0" /\ q[7] = "-ctrl_pd"
          /\ q[8] = "-icc"
      BY DEF Undo, UndoHw, UndoController, HwCalls,
             PowerOffController
    <2> HIDE DEF q
    <2>2. Orderly(q)
      BY <2>1 DEF Orderly, Later, Needs
    <2>3. QED
      BY <2>2 DEF q
  <1>9. f \in {"icc", "max_ctrl", "reset", "axi", "ctrl", "max_hw", "hw", "hwmode"}
    BY DEF Handled
  <1>10. QED
    BY <1>1, <1>2, <1>3, <1>4, <1>5, <1>6, <1>7, <1>8, <1>9

(* And so does a power-off.                                                *)
LEMMA OrderlyOff ==
  ASSUME NEW p \in Known
  PROVE  Orderly(PowerOffSeq(p, TRUE))
  <1>1. CASE p = "sm8150"
    <2> DEFINE q == PowerOffSeq(p, TRUE)
    <2>1. /\ Len(q) = 12 /\ q[1] = "rate0" /\ q[2] = "-aux_hw" /\ q[3] = "-hw"
          /\ q[4] = "-aux_axi" /\ q[5] = "-hw_axi" /\ q[6] = "-aux_pd" /\ q[7] = "-hw_pd"
          /\ q[8] = "-ctrl" /\ q[9] = "-axi" /\ q[10] = "-bus" /\ q[11] = "-ctrl_pd"
          /\ q[12] = "-icc"
      BY <1>1 DEF PowerOffSeq, PowerOffHw, PowerOffController, Vpu33PowerOffController
    <2> HIDE DEF q
    <2>2. Orderly(q)
      BY <2>1 DEF Orderly, Later, Needs
    <2>3. QED
      BY <2>2 DEF q
  <1>2. CASE p = "sm8250"
    <2> DEFINE q == PowerOffSeq(p, TRUE)
    <2>1. /\ Len(q) = 10 /\ q[1] = "rate0" /\ q[2] = "-hwmode" /\ q[3] = "-hw"
          /\ q[4] = "rate0" /\ q[5] = "-hw_pd" /\ q[6] = "-ctrl" /\ q[7] = "-axi"
          /\ q[8] = "rate0" /\ q[9] = "-ctrl_pd" /\ q[10] = "-icc"
      BY <1>2 DEF PowerOffSeq, PowerOffHw, PowerOffController, Vpu33PowerOffController
    <2> HIDE DEF q
    <2>2. Orderly(q)
      BY <2>1 DEF Orderly, Later, Needs
    <2>3. QED
      BY <2>2 DEF q
  <1>3. CASE p = "sm8650"
    <2> DEFINE q == PowerOffSeq(p, TRUE)
    <2>1. /\ Len(q) = 10 /\ q[1] = "rate0" /\ q[2] = "-hwmode" /\ q[3] = "-hw"
          /\ q[4] = "rate0" /\ q[5] = "-hw_pd" /\ q[6] = "-ctrl" /\ q[7] = "rate0"
          /\ q[8] = "-ctrl_pd" /\ q[9] = "-axi" /\ q[10] = "-icc"
      BY <1>3 DEF PowerOffSeq, PowerOffHw, PowerOffController, Vpu33PowerOffController
    <2> HIDE DEF q
    <2>2. Orderly(q)
      BY <2>1 DEF Orderly, Later, Needs
    <2>3. QED
      BY <2>2 DEF q
  <1>4. QED
    BY <1>1, <1>2, <1>3 DEF Known

(* What is left of an orderly list is orderly.                             *)
LEMMA OrderlyTail ==
  ASSUME NEW q \in Seq(Returns), q # <<>>, Orderly(q)
  PROVE  Orderly(Tail(q))
  <1>1. /\ Len(q) \in Nat \ {0} /\ Len(Tail(q)) = Len(q) - 1
        /\ \A i \in 1 .. Len(q) - 1 : Tail(q)[i] = q[i + 1]
    BY HeadTail
  <1>2. ASSUME NEW i \in 1 .. Len(Tail(q)), Needs(Tail(q)[i]) # "nothing"
        PROVE  Later(Needs(Tail(q)[i]), i, Tail(q))
    <2>1. i + 1 \in 1 .. Len(q) /\ Tail(q)[i] = q[i + 1]
      BY <1>1
    <2>2. PICK j \in (i + 1) + 1 .. Len(q) : q[j] = Needs(q[i + 1])
      BY <1>2, <2>1 DEF Orderly, Later
    <2>3. j - 1 \in i + 1 .. Len(Tail(q)) /\ Tail(q)[j - 1] = q[(j - 1) + 1] /\ (j - 1) + 1 = j
      BY <1>1, <2>2
    <2>4. QED
      BY <2>1, <2>2, <2>3 DEF Later
  <1>3. QED
    BY <1>2 DEF Orderly

(* An unwind and a power-off give back in order, and a power-on has raised *)
(* the OPP before it comes to the codec.                                   *)
OrderInv ==
  /\ vpu.phase \in {"undo", "off"} => Orderly(todo)
  /\ vpu.phase = "on" /\ Made >= Raised(plat) => vote.opp > 0

(* The calls of a power-on are in order, by place.                         *)
LEMMA PlacesOrdered ==
  ASSUME NEW p \in Known
  PROVE  /\ Place(p).ctrl_pd <= Place(p).ctrl /\ Place(p).hw_pd <= Place(p).hw
         /\ Place(p).hw_pd <= Place(p).hw_axi /\ Place(p).aux_pd <= Place(p).aux_hw
         /\ Place(p).aux_pd <= Place(p).aux_axi /\ Place(p).ctrl_pd <= Place(p).hw_pd
         /\ Place(p).ctrl_pd <= Place(p).aux_pd /\ Raised(p) <= Place(p).hw_pd
         /\ PowerOnSeq(p)[Raised(p)] \in {"rate", "max_ctrl"}
  <1>1. CASE p = "sm8150"
    BY <1>1 DEF Place, Raised, PowerOnSeq
  <1>2. CASE p # "sm8150"
    BY <1>2 DEF Place, Raised, PowerOnSeq
  <1>3. QED
    BY <1>1, <1>2

(* The OPP is raised in time and not lowered again on the way up.          *)
LEMMA OppRaised ==
  ASSUME Shape, PowerInv, vote \in VoteType, OrderInv, Call, vpu.phase = "on",
         Made' >= Raised(plat)
  PROVE  vote'.opp > 0
  <1> DEFINE op == Head(todo)
             n == Made + 1
  <1>1. Opening /\ plat \in Known /\ todo # <<>> /\ vote' = VoteOf(op) /\ plat' = plat
        /\ todo' = Tail(todo)
    BY DEF PowerInv, Shape, Call
  <1>2. /\ todo \in Seq(Takes) /\ op = todo[1] /\ op \in Takes /\ Len(todo) \in Nat \ {0}
        /\ Len(todo) <= Steps(plat) /\ Len(todo') = Len(todo) - 1
    BY <1>1, HeadTail DEF Opening
  <1>3. Steps(plat) \in {11, 13} /\ Raised(plat) \in {2, 7}
    BY <1>1, Places
  <1>4. Made \in Nat /\ n \in 1 .. Steps(plat) /\ op = PowerOnSeq(plat)[n] /\ Made' = n
    BY <1>1, <1>2, <1>3 DEF Made, Opening
  <1>5. op \notin {"rate0", "-icc"}
    BY <1>1, <1>4, OnCalls
  <1>6. DOMAIN vote = VoteFields /\ vote.opp \in Nat /\ vote.clk_freq \in Nat
        /\ MaxOpp \in Nat \ {0}
    BY PowerAssumption DEF Shape, VoteType
  <1> HIDE DEF op
  <1>7. CASE op = "rate"
    <2>1. vote'.opp = Least(RestoredRate(vote), MaxOpp)
      BY <1>1, <1>6, <1>7 DEF VoteOf, OppSetRate, VoteFields
    <2>2. RestoredRate(vote) \in Nat \ {0}
      BY <1>6 DEF RestoredRate
    <2>3. QED
      BY <1>6, <2>1, <2>2 DEF Least
  <1>8. CASE op \in {"max_ctrl", "max_hw"}
    BY <1>1, <1>6, <1>8 DEF VoteOf, OppSetRate, Least, VoteFields
  <1>9. CASE op \notin {"rate", "max_ctrl", "max_hw"}
    <2>1. vote'.opp = vote.opp
      BY <1>1, <1>5, <1>6, <1>9 DEF VoteOf, SetIccBw, VoteFields
    <2>2. n # Raised(plat)
      BY <1>1, <1>4, <1>9, PlacesOrdered
    <2>3. Made >= Raised(plat)
      BY <1>3, <1>4, <2>2
    <2>4. QED
      BY <2>1, <2>3 DEF OrderInv
  <1>10. QED
    BY <1>7, <1>8, <1>9

(* Every step keeps to the order.                                          *)
LEMMA OrderKeeps ==
  ASSUME Shape, PowerInv, vote \in VoteType, OrderInv, HandledOnly, Answered, [Next]_vars
  PROVE  OrderInv'
  <1>0. plat \in Known
    BY DEF Shape
  <1>1. ASSUME NEW boot \in BOOLEAN, PowerOn(boot)
        PROVE  OrderInv'
    <2>1. plat' = plat /\ todo' = PowerOnSeq(plat) /\ vpu'.phase = "on"
      BY <1>1 DEF PowerOn
    <2>2. Made' = 0 /\ ~(0 >= Raised(plat'))
      BY <1>0, <2>1, OnCalls, Places DEF Made
    <2>3. QED
      BY <2>1, <2>2 DEF OrderInv
  <1>2. CASE PowerOff
    <2>1. vpu'.phase = "off" /\ todo' = PowerOffSeq(plat, TRUE)
      BY <1>2 DEF PowerOff, Answered
    <2>2. QED
      BY <1>0, <2>1, OrderlyOff DEF OrderInv
  <1>3. CASE Call /\ vpu.phase = "on"
    <2>1. vpu' = vpu /\ plat' = plat
      BY <1>3 DEF Call
    <2>2. QED
      BY <1>3, <2>1, OppRaised DEF OrderInv
  <1>4. CASE Call /\ vpu.phase # "on"
    <2>1. vpu' = vpu /\ todo # <<>> /\ todo' = Tail(todo)
      BY <1>4 DEF Call
    <2>2. vpu.phase \in {"undo", "off"}
      BY <1>4, <2>1 DEF Shape, PowerInv, AtRest
    <2>3. todo \in Seq(Returns) /\ Orderly(todo)
      BY <2>2 DEF PowerInv, Closing, Gives, OrderInv
    <2>4. QED
      BY <1>4, <2>1, <2>3, OrderlyTail DEF OrderInv
  <1>5. CASE CallFails
    <2> DEFINE op == Head(todo)
    <2>1. /\ Opening /\ vpu'.phase = "undo" /\ todo' = Undo(plat, op) /\ todo # <<>>
          /\ <<plat, op>> \in CanFail
      BY <1>5 DEF CallFails, PowerInv, Shape
    <2>2. op \in Takes
      BY <2>1, HeadTail DEF Opening
    <2>3. op \in Handled(plat)
      BY <2>1, <2>2 DEF HandledOnly, Takes
    <2> HIDE DEF op
    <2>4. Orderly(Undo(plat, op))
      BY <1>0, <2>3, OrderlySm8150, OrderlyOthers
    <2>5. QED
      BY <2>1, <2>4 DEF OrderInv
  <1>6. CASE PoweredOn \/ PowerOnFailed \/ PoweredOff
    <2>1. vpu'.phase = "rest"
      BY <1>6 DEF PoweredOn, PowerOnFailed, PoweredOff, Shape
    <2>2. QED
      BY <2>1 DEF OrderInv
  <1>7. CASE UNCHANGED vars \/ LineStep
    <2>1. UNCHANGED <<plat, todo, vpu, vote>>
      BY <1>7 DEF vars, LineStep, Raise, Isr, IsrThread, IsrThreadEnd
    <2>2. QED
      BY <2>1 DEF OrderInv, Made
  <1>8. CASE \/ SetIdleOpp
             \/ \E x \in Sessions :
                  \/ OpenSession(x) \/ ScalePower(x) \/ VoteClocks(x) \/ VoteClocksFails(x)
                  \/ VoteIcc(x) \/ CloseSession(x) \/ UnvoteClocks(x)
    <2>1. UNCHANGED vpu
      BY <1>8 DEF SetIdleOpp, OpenSession, ScalePower, VoteClocks, VoteClocksFails, VoteIcc,
                  CloseSession, UnvoteClocks
    <2>2. vpu.ok
      BY <1>8 DEF SetIdleOpp, OpenSession, ScalePower, VoteClocks, VoteClocksFails, VoteIcc,
                  CloseSession, UnvoteClocks, PowerInv
    <2>3. vpu.phase = "rest"
      BY <2>2 DEF PowerInv
    <2>4. QED
      BY <2>1, <2>3 DEF OrderInv
  <1>9. QED
    BY <1>1, <1>2, <1>3, <1>4, <1>5, <1>6, <1>7, <1>8 DEF Next, LineStep

(* Through every power-on, power-off and handled unwind a clock runs only  *)
(* in a domain that is up, the codec domains are up only with the          *)
(* controller's, and they come up only under a vote for an OPP.            *)
THEOREM InOrder ==
  ASSUME HandledOnly, Answered
  PROVE  Spec => []Ordered
  <1> DEFINE Inv == Shape /\ PowerInv /\ vote \in VoteType /\ OrderInv
  <1>1. Init => Inv
    <2>1. Init => OrderInv
      BY DEF Init, OrderInv
    <2>2. Init => vote \in VoteType
      BY PowerAssumption DEF Init, VoteType
    <2>3. QED
      BY <2>1, <2>2, PowerStarts
  <1>2. Inv /\ [Next]_vars => Inv'
    BY Shaped, PowerKeeps, VotesTyped, OrderKeeps
  <1>3. Inv => Ordered
    <2> SUFFICES ASSUME Shape, PowerInv, OrderInv
                 PROVE  Ordered
      OBVIOUS
    <2>1. plat \in Known
      BY DEF Shape
    <2>2. Steps(plat) \in Nat /\ \A r \in Refs : Place(plat)[r] \in Nat
      BY <2>1, Places
    <2>3. ASSUME NEW k \in Int,
                 \A r \in Refs : held[r] = IF Place(plat)[r] <= k THEN 1 ELSE 0,
                 vpu.phase = "on" => k = Made
          PROVE  Ordered
      <3>1. vpu.phase = "on" /\ held["hw_pd"] > 0 => vote.opp > 0
        <4>1. held["hw_pd"] > 0 => Raised(plat) <= k
          BY <2>1, <2>2, <2>3, PlacesOrdered, Places DEF Refs, Domains, Clocks
        <4>2. QED
          BY <2>3, <4>1 DEF OrderInv
      <3>2. QED
        BY <2>1, <2>2, <2>3, <3>1, PlacesOrdered DEF Ordered, Refs, Domains, Clocks
    <2>4. CASE vpu.phase = "rest"
      <3> DEFINE k == IF vpu.ok THEN Steps(plat) ELSE 0
      <3>1. \A r \in Refs : held[r] = IF Place(plat)[r] <= k THEN 1 ELSE 0
        <4>1. \A r \in Refs : ~(Place(plat)[r] <= 0)
          BY <2>1, Places
        <4>2. QED
          BY <2>4, <4>1 DEF PowerInv, AtRest
      <3>2. k \in Int
        BY <2>2
      <3> HIDE DEF k
      <3>3. QED
        BY <2>3, <2>4, <3>1, <3>2
    <2>5. CASE vpu.phase = "on"
      <3>1. Opening /\ Made \in Int
        BY <2>2, <2>5 DEF PowerInv, Opening, Made
      <3>2. QED
        BY <2>3, <3>1 DEF Opening
    <2>6. CASE vpu.phase \in {"undo", "off"}
      <3>1. Closing /\ Orderly(todo)
        BY <2>6 DEF PowerInv, OrderInv
      <3>2. ASSUME NEW call, In(call, todo), Needs(call) # "nothing"
            PROVE  In(Needs(call), todo)
        <4>1. todo \in Seq(Returns)
          BY <3>1 DEF Closing, Gives
        <4>2. PICK i \in 1 .. Len(todo) : todo[i] = call
          BY <3>2 DEF In
        <4>3. PICK j \in i + 1 .. Len(todo) : todo[j] = Needs(call)
          BY <3>1, <3>2, <4>2 DEF Orderly, Later
        <4>4. j \in 1 .. Len(todo)
          BY <4>1, <4>2, <4>3
        <4>5. QED
          BY <4>3, <4>4 DEF In
      <3>3. /\ Needs("-ctrl") = "-ctrl_pd" /\ Needs("-hw") = "-hw_pd"
            /\ Needs("-hw_axi") = "-hw_pd" /\ Needs("-aux_hw") = "-aux_pd"
            /\ Needs("-aux_axi") = "-aux_pd" /\ Needs("-hw_pd") = "-ctrl_pd"
            /\ Needs("-aux_pd") = "-ctrl_pd"
        BY DEF Needs
      <3>4. \A r \in Refs : held[r] = IF In(Put[r], todo) THEN 1 ELSE 0
        BY <3>1 DEF Closing
      <3>5. /\ In("-ctrl", todo) => In("-ctrl_pd", todo)
            /\ In("-hw", todo) \/ In("-hw_axi", todo) => In("-hw_pd", todo)
            /\ In("-aux_hw", todo) \/ In("-aux_axi", todo) => In("-aux_pd", todo)
            /\ In("-hw_pd", todo) \/ In("-aux_pd", todo) => In("-ctrl_pd", todo)
        BY <3>2, <3>3
      <3>6. QED
        BY <2>6, <3>4, <3>5 DEF Ordered, Put, Refs, Domains, Clocks
    <2>7. QED
      BY <2>4, <2>5, <2>6 DEF Shape
  <1>4. QED
    BY <1>1, <1>2, <1>3, PTL DEF Spec
=============================================================================
