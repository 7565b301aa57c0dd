--------------------------- MODULE SysArrayProofs ---------------------------
(***************************************************************************)
(* Theorems about SysArray, for every array size, run length, number of    *)
(* runs and channel capacity, with and without random stalls.              *)
(*                                                                         *)
(* Types: nothing overflows.  Loading the array: of all the words that     *)
(* shift down a column, each row ends up with its own, the bias with the   *)
(* first, and every SysBias with the configuration of this run.            *)
(***************************************************************************)
EXTENDS SysArray, FiniteSetTheorems, TLAPS

USE CapAssumption, NAssumption, MAssumption, GensAssumption, RandStallAssumption

-----------------------------------------------------------------------------
(* Channels *)

(* A pop that succeeds finds a message. *)
LEMMA PopNBSound ==
    ASSUME NEW ch, TRUE \in PopNB(ch)
    PROVE  ch # << >>
BY DEF PopNB, HasMsg

(* Popping keeps a channel within its type; the head has the type of the    *)
(* messages.                                                                *)
LEMMA PopType ==
    ASSUME NEW T, NEW ch \in Chan(T), NEW p \in PopNB(ch)
    PROVE  /\ p \in BOOLEAN
           /\ After(p, ch) \in Chan(T)
           /\ \A reg \in T : Got(p, ch, reg) \in T
           /\ p => /\ Head(ch) \in T
                   /\ Tail(ch) \in Chan(T)
                   /\ Len(Tail(ch)) = Len(ch) - 1
                   /\ Len(ch) > 0
<1>1. p \in BOOLEAN /\ (p => ch # << >>)
  BY DEF PopNB, HasMsg
<1>2. ch \in Seq(T) /\ Len(ch) \in Nat /\ Len(ch) <= Cap
  BY DEF Chan
<1>3. ASSUME ch # << >>
      PROVE  /\ Head(ch) \in T
             /\ Tail(ch) \in Seq(T)
             /\ Len(Tail(ch)) = Len(ch) - 1
             /\ Len(ch) > 0
  BY <1>2, <1>3
<1>4. ch # << >> => Tail(ch) \in Chan(T)
  BY <1>2, <1>3 DEF Chan
<1>5. QED
  BY <1>1, <1>3, <1>4 DEF After, Got

(* Pushing where there is room keeps a channel within its type. *)
LEMMA PushType ==
    ASSUME NEW T, NEW ch \in Chan(T), HasRoom(ch), NEW x \in T
    PROVE  Append(ch, x) \in Chan(T) /\ Len(Append(ch, x)) = Len(ch) + 1
BY DEF Chan, HasRoom

LEMMA EmptyType ==
    ASSUME NEW T
    PROVE  << >> \in Chan(T)
BY DEF Chan

-----------------------------------------------------------------------------
(* Type correctness *)

LEMMA Types ==
    /\ 0 \in Ext /\ N \in Ext /\ N-1 \in Idx /\ 0 \in Idx
    /\ \A i \in Idx : i \in Ext /\ i+1 \in Ext /\ i \in Nat /\ N \notin Idx
    /\ {} \in Sum
BY DEF Idx, Ext, Sum

LEMMA InitType == Init => TypeOK
<1> SUFFICES ASSUME Init PROVE TypeOK
  OBVIOUS
<1> USE Types, EmptyType DEF Init
<1>1. \A i \in Ext, j \in Idx : <<j, 0, i>> \in Word /\ <<0, 0, 0>> \in Act
  BY DEF Word, Act, Idx, Ext
<1>2. Promise!Unwritten \in Output
  BY DEF Promise!Unwritten, Output, Word, Sum, Idx, Ext
<1>3. WeightType
  BY <1>1 DEF WeightType
<1>4. SumType /\ ActType /\ PhaseType
  BY <1>1 DEF SumType, ActType, PhaseType
<1>5. BiasType
  BY <1>1, <1>2 DEF BiasType
<1>6. ConfigType
  BY DEF ConfigType
<1>7. ClientType
  <2>1. phase \in {"load", "run", "irq", "abort"} /\ cfed \in BOOLEAN
    OBVIOUS
  <2>2. gen \in 1 .. Gens /\ wfed \in [Idx -> 0 .. N+1] /\ fed \in [Idx -> 0 .. M]
    BY DEF Idx
  <2>3. ctr \in [Idx -> Nat] /\ result \in [0 .. M-1 -> [Idx -> Output]]
    BY <1>2
  <2>4. QED
    BY <2>1, <2>2, <2>3 DEF ClientType
<1>8. QED
  BY <1>3, <1>4, <1>5, <1>6, <1>7 DEF TypeOK

LEMMA PushActType ==
    ASSUME TypeOK, NEW i \in Idx, NEW j \in Idx, PushAct(i, j)
    PROVE  TypeOK'
<1> USE DEF PushAct
<1>1. ActType'
  <2>1. Append(act_ch[i][j+1], act_reg[i][j]) \in Chan(Act)
    <3>1. act_ch[i][j+1] \in Chan(Act) /\ act_reg[i][j] \in Act /\ HasRoom(act_ch[i][j+1])
      BY Types DEF TypeOK, ActType
    <3> HIDE DEF PushAct
    <3>2. QED
      BY <3>1, PushType
  <2>2. act_ch' \in [Idx -> [Ext -> Chan(Act)]]
    BY <2>1, Types DEF TypeOK, ActType
  <2>3. QED
    BY <2>2 DEF TypeOK, ActType
<1>2. PhaseType'
  BY DEF TypeOK, PhaseType
<1>3. WeightType' /\ SumType'
  BY DEF TypeOK, WeightType, SumType, weightVars, sumVars
<1>4. BiasType' /\ ConfigType' /\ ClientType'
  BY DEF TypeOK, BiasType, ConfigType, ClientType, biasVars, configVars, clientVars
<1>5. QED
  BY <1>1, <1>2, <1>3, <1>4 DEF TypeOK

LEMMA PollType ==
    ASSUME TypeOK, NEW i \in Idx, NEW j \in Idx, Poll(i, j)
    PROVE  TypeOK'
<1>0. PICK w \in PopNB(weight_ch[i][j]),
           a \in IF is_act_in[i][j] THEN {FALSE} ELSE PopNB(act_ch[i][j]),
           s \in IF is_accum_in[i][j] THEN {FALSE} ELSE PopNB(accum_ch[i][j]) :
             Poll(i, j)!2!(w, a, s)
  BY DEF Poll
<1>1. /\ w \in BOOLEAN
      /\ After(w, weight_ch[i][j]) \in Chan(Word)
      /\ Got(w, weight_ch[i][j], weight_reg[i][j]) \in Word
      /\ w => Head(weight_ch[i][j]) \in Word
  <2>1. weight_ch[i][j] \in Chan(Word) /\ weight_reg[i][j] \in Word
    BY Types DEF TypeOK, WeightType
  <2>2. QED
    BY <2>1, PopType
<1>2. /\ a \in BOOLEAN
      /\ After(a, act_ch[i][j]) \in Chan(Act)
      /\ Got(a, act_ch[i][j], act_reg[i][j]) \in Act
  <2>1. act_ch[i][j] \in Chan(Act) /\ act_reg[i][j] \in Act
    BY Types DEF TypeOK, ActType
  <2>2. CASE is_act_in[i][j]
    BY <2>1, <2>2 DEF After, Got
  <2>3. CASE ~is_act_in[i][j]
    BY <2>1, <2>3, PopType
  <2>4. QED
    BY <2>2, <2>3
<1>3. /\ s \in BOOLEAN
      /\ After(s, accum_ch[i][j]) \in Chan(Sum)
      /\ Got(s, accum_ch[i][j], accum_reg[i][j]) \in Sum
  <2>1. accum_ch[i][j] \in Chan(Sum) /\ accum_reg[i][j] \in Sum
    BY Types DEF TypeOK, SumType
  <2>2. CASE is_accum_in[i][j]
    BY <2>1, <2>2 DEF After, Got
  <2>3. CASE ~is_accum_in[i][j]
    BY <2>1, <2>3, PopType
  <2>4. QED
    BY <2>2, <2>3
<1>4. WeightType'
  <2>1. weight_ch' \in [Ext -> [Idx -> Chan(Word)]]
    BY <1>0, <1>1, Types DEF TypeOK, WeightType
  <2>2. weight_reg' \in [Idx -> [Idx -> Word]]
    BY <1>0, <1>1, Types DEF TypeOK, WeightType
  <2>3. weight_out_reg' \in [Idx -> [Idx -> Word]]
    BY <1>0, Types DEF TypeOK, WeightType, ShiftedOut
  <2>4. is_weight_in' \in [Idx -> [Idx -> BOOLEAN]]
    BY <1>0, <1>1 DEF TypeOK, WeightType
  <2>5. recv' \in [Ext -> [Idx -> Nat]]
    BY <1>0, Types DEF TypeOK, WeightType
  <2>6. QED
    BY <2>1, <2>2, <2>3, <2>4, <2>5 DEF WeightType
<1>5. ActType'
  <2>1. act_ch' \in [Idx -> [Ext -> Chan(Act)]]
    BY <1>0, <1>2, Types DEF TypeOK, ActType
  <2>2. act_reg' \in [Idx -> [Idx -> Act]]
    BY <1>0, <1>2 DEF TypeOK, ActType
  <2>3. is_act_in' \in [Idx -> [Idx -> BOOLEAN]]
    BY <1>0, <1>2 DEF TypeOK, ActType, Fires
  <2>4. QED
    BY <2>1, <2>2, <2>3 DEF ActType
<1>6. SumType'
  <2>1. accum_ch' \in [Ext -> [Idx -> Chan(Sum)]]
    BY <1>0, <1>3, Types DEF TypeOK, SumType
  <2>2. accum_reg' \in [Idx -> [Idx -> Sum]]
    BY <1>0, <1>3 DEF TypeOK, SumType
  <2>3. accum_reg'[i][j] \cup Product(act_reg'[i][j], weight_reg'[i][j]) \in Sum
    <3>1. accum_reg'[i][j] \in Sum /\ act_reg'[i][j] \in Act /\ weight_reg'[i][j] \in Word
      BY <2>2, <1>4, <1>5 DEF ActType, WeightType
    <3>2. QED
      BY <3>1 DEF Sum, Product
  <2>4. accum_out_reg' \in [Idx -> [Idx -> Sum]]
    BY <1>0, <2>3 DEF TypeOK, SumType
  <2>5. is_accum_in' \in [Idx -> [Idx -> BOOLEAN]]
    BY <1>0, <1>3 DEF TypeOK, SumType, Fires
  <2>6. QED
    BY <2>1, <2>2, <2>4, <2>5 DEF SumType
<1>7. PhaseType'
  BY <1>0 DEF TypeOK, PhaseType
<1>8. BiasType' /\ ConfigType' /\ ClientType'
  BY DEF Poll, TypeOK, BiasType, ConfigType, ClientType, biasVars, configVars, clientVars
<1>9. QED
  BY <1>4, <1>5, <1>6, <1>7, <1>8 DEF TypeOK

LEMMA PushAccumType ==
    ASSUME TypeOK, NEW i \in Idx, NEW j \in Idx, PushAccum(i, j)
    PROVE  TypeOK'
<1> USE DEF PushAccum
<1>1. SumType'
  <2>1. Append(accum_ch[i+1][j], accum_out_reg[i][j]) \in Chan(Sum)
    <3>1. /\ accum_ch[i+1][j] \in Chan(Sum) /\ accum_out_reg[i][j] \in Sum
          /\ HasRoom(accum_ch[i+1][j])
      BY Types DEF TypeOK, SumType
    <3> HIDE DEF PushAccum
    <3>2. QED
      BY <3>1, PushType
  <2>2. accum_ch' \in [Ext -> [Idx -> Chan(Sum)]]
    BY <2>1, Types DEF TypeOK, SumType
  <2>3. QED
    BY <2>2 DEF TypeOK, SumType
<1>2. PhaseType'
  BY DEF TypeOK, PhaseType
<1>3. WeightType' /\ ActType'
  BY DEF TypeOK, WeightType, ActType, weightVars, actVars
<1>4. BiasType' /\ ConfigType' /\ ClientType'
  BY DEF TypeOK, BiasType, ConfigType, ClientType, biasVars, configVars, clientVars
<1>5. QED
  BY <1>1, <1>2, <1>3, <1>4 DEF TypeOK

LEMMA PushWeightType ==
    ASSUME TypeOK, NEW i \in Idx, NEW j \in Idx, PushWeight(i, j)
    PROVE  TypeOK'
<1> USE DEF PushWeight
<1>1. WeightType'
  <2>1. Append(weight_ch[i+1][j], weight_out_reg[i][j]) \in Chan(Word)
    <3>1. weight_ch[i+1][j] \in Chan(Word) /\ weight_out_reg[i][j] \in Word
      BY Types DEF TypeOK, WeightType
    <3>2. QED
      BY <3>1, PushType
  <2>2. weight_ch' \in [Ext -> [Idx -> Chan(Word)]]
    BY <2>1, Types DEF TypeOK, WeightType
  <2>3. is_weight_in' \in [Idx -> [Idx -> BOOLEAN]]
    BY DEF TypeOK, WeightType
  <2>4. UNCHANGED <<weight_reg, weight_out_reg, recv>>
    OBVIOUS
  <2> HIDE DEF PushWeight
  <2>5. QED
    BY <2>2, <2>3, <2>4 DEF TypeOK, WeightType
<1>2. PhaseType'
  BY DEF TypeOK, PhaseType
<1>3. SumType' /\ ActType'
  BY DEF TypeOK, SumType, ActType, sumVars, actVars
<1>4. BiasType' /\ ConfigType' /\ ClientType'
  BY DEF TypeOK, BiasType, ConfigType, ClientType, biasVars, configVars, clientVars
<1>5. QED
  BY <1>1, <1>2, <1>3, <1>4 DEF TypeOK

(* SysBias and the three threads of SysArray. *)
LEMMA BiasStepType ==
    ASSUME TypeOK, NEW j \in Idx, SysBiasRun(j)
    PROVE  TypeOK'
<1>1. CASE BiasConfig(j)
  <2> USE <1>1 DEF BiasConfig
  <2>1. Tail(config_ch[j]) \in Chan(Nat) /\ Head(config_ch[j]) \in Nat
    BY PopType, ZenonT(60) DEF TypeOK, ConfigType
  <2>2. BiasType' /\ ConfigType'
    BY <2>1 DEF TypeOK, BiasType, ConfigType
  <2>3. WeightType' /\ SumType' /\ ActType' /\ PhaseType' /\ ClientType'
    BY DEF TypeOK, WeightType, SumType, ActType, PhaseType, ClientType,
           peVars, weightVars, sumVars, actVars, clientVars
  <2>4. QED
    BY <2>2, <2>3 DEF TypeOK
<1>2. CASE BiasAccum(j)
  <2> USE <1>2 DEF BiasAccum
  <2>1. Tail(accum_ch[N][j]) \in Chan(Sum) /\ Head(accum_ch[N][j]) \in Sum
    <3>1. accum_ch[N][j] \in Chan(Sum)
      BY Types DEF TypeOK, SumType
    <3>2. QED
      BY <3>1, PopType
  <2>2. SumType'
    <3>1. accum_ch' \in [Ext -> [Idx -> Chan(Sum)]]
      BY <2>1, Types DEF TypeOK, SumType
    <3>2. QED
      BY <3>1 DEF TypeOK, SumType
  <2>3. BiasType'
    <3>1. [cfg |-> cfg[j], bias |-> bias[j], sum |-> Head(accum_ch[N][j])] \in Output
      BY <2>1 DEF TypeOK, BiasType, Output
    <3>2. QED
      BY <3>1 DEF TypeOK, BiasType
  <2>4. WeightType' /\ ActType' /\ PhaseType' /\ ConfigType' /\ ClientType'
    BY DEF TypeOK, WeightType, ActType, PhaseType, ConfigType, ClientType,
           weightVars, actVars, configVars, clientVars
  <2>5. QED
    BY <2>2, <2>3, <2>4 DEF TypeOK
<1>3. CASE BiasWeight(j)
  <2> USE <1>3 DEF BiasWeight
  <2>1. Tail(weight_ch[N][j]) \in Chan(Word) /\ Head(weight_ch[N][j]) \in Word
    <3>1. weight_ch[N][j] \in Chan(Word)
      BY Types DEF TypeOK, WeightType
    <3>2. QED
      BY <3>1, PopType
  <2>2. WeightType'
    <3>1. weight_ch' \in [Ext -> [Idx -> Chan(Word)]]
      BY <2>1, Types DEF TypeOK, WeightType
    <3>2. recv' \in [Ext -> [Idx -> Nat]]
      <4>1. recv' = [recv EXCEPT ![N][j] = @ + 1]
        OBVIOUS
      <4> HIDE <1>3 DEF BiasWeight
      <4>2. recv \in [Ext -> [Idx -> Nat]] /\ recv[N][j] + 1 \in Nat
        BY Types DEF TypeOK, WeightType
      <4>3. QED
        BY <4>1, <4>2, Types
    <3>3. UNCHANGED <<weight_reg, weight_out_reg, is_weight_in>>
      OBVIOUS
    <3> HIDE <1>3 DEF BiasWeight
    <3>4. QED
      BY <3>1, <3>2, <3>3 DEF TypeOK, WeightType
  <2>3. BiasType'
    BY <2>1 DEF TypeOK, BiasType
  <2>4. SumType' /\ ActType' /\ PhaseType' /\ ConfigType' /\ ClientType'
    BY DEF TypeOK, SumType, ActType, PhaseType, ConfigType, ClientType,
           sumVars, actVars, configVars, clientVars
  <2>5. QED
    BY <2>2, <2>3, <2>4 DEF TypeOK
<1>4. CASE BiasPush(j)
  <2> USE <1>4 DEF BiasPush
  <2>1. Append(act_out[j], out_reg[j]) \in Chan(Output)
    BY PushType DEF TypeOK, BiasType
  <2>2. BiasType'
    BY <2>1 DEF TypeOK, BiasType
  <2>3. WeightType' /\ SumType' /\ ActType' /\ PhaseType' /\ ConfigType' /\ ClientType'
    BY DEF TypeOK, WeightType, SumType, ActType, PhaseType, ConfigType, ClientType,
           peVars, weightVars, sumVars, actVars, configVars, clientVars
  <2>4. QED
    BY <2>2, <2>3 DEF TypeOK
<1>5. QED
  BY <1>1, <1>2, <1>3, <1>4 DEF SysBiasRun

LEMMA ThreadStepType ==
    ASSUME TypeOK, SysConfigRun \/ ActOutRun \/ AccumInRun
    PROVE  TypeOK'
<1>1. CASE ConfigPop
  <2> USE <1>1 DEF ConfigPop
  <2>1. Tail(config_in) \in Chan(Nat) /\ Head(config_in) \in Nat
    BY PopType DEF TypeOK, ConfigType
  <2>2. ConfigType'
    BY <2>1, Types DEF TypeOK, ConfigType
  <2>3. WeightType' /\ SumType' /\ ActType' /\ PhaseType' /\ BiasType' /\ ClientType'
    BY DEF TypeOK, WeightType, SumType, ActType, PhaseType, BiasType, ClientType,
           peVars, weightVars, sumVars, actVars, biasVars, clientVars
  <2>4. QED
    BY <2>2, <2>3 DEF TypeOK
<1>2. CASE ConfigPush
  <2> USE <1>2 DEF ConfigPush
  <2>1. Append(config_ch[cfg_to], cfg_reg) \in Chan(Nat)
    BY PushType DEF TypeOK, ConfigType
  <2>2. ConfigType'
    BY <2>1, Types DEF TypeOK, ConfigType
  <2>3. WeightType' /\ SumType' /\ ActType' /\ PhaseType' /\ BiasType' /\ ClientType'
    BY DEF TypeOK, WeightType, SumType, ActType, PhaseType, BiasType, ClientType,
           peVars, weightVars, sumVars, actVars, biasVars, clientVars
  <2>4. QED
    BY <2>2, <2>3 DEF TypeOK
<1>3. CASE ActOutRun
  <2>1. PICK S \in (SUBSET Idx) \ {{}} : ActOutRun!(S)
    BY <1>3 DEF ActOutRun
  <2>2. ASSUME NEW i \in Idx
        PROVE  After(i \in S, act_ch[i][N]) \in Chan(Act)
    <3>1. act_ch[i][N] \in Chan(Act) /\ (i \in S) \in PopNB(act_ch[i][N])
      BY <2>1, Types DEF TypeOK, ActType
    <3>2. QED
      BY <3>1, PopType
  <2>3. act_ch' \in [Idx -> [Ext -> Chan(Act)]]
    BY <2>1, <2>2, Types DEF TypeOK, ActType
  <2>4. ActType'
    BY <2>1, <2>3 DEF TypeOK, ActType
  <2>5. WeightType' /\ SumType' /\ PhaseType' /\ BiasType' /\ ConfigType' /\ ClientType'
    BY <2>1 DEF TypeOK, WeightType, SumType, PhaseType, BiasType, ConfigType, ClientType,
           weightVars, sumVars, biasVars, configVars, clientVars
  <2>6. QED
    BY <2>4, <2>5 DEF TypeOK
<1>4. CASE AccumInRun
  <2> USE <1>4 DEF AccumInRun
  <2>1. ASSUME NEW j \in Idx
        PROVE  /\ accum_ch[0][j] \in Chan(Sum)
               /\ HasRoom(accum_ch[0][j]) => Append(accum_ch[0][j], {}) \in Chan(Sum)
    BY Types, PushType, SMTT(60) DEF TypeOK, SumType
  <2>2. accum_ch' \in [Ext -> [Idx -> Chan(Sum)]]
    BY <2>1, Types DEF TypeOK, SumType
  <2>3. SumType'
    BY <2>2 DEF TypeOK, SumType
  <2>4. WeightType' /\ ActType' /\ PhaseType' /\ BiasType' /\ ConfigType' /\ ClientType'
    BY DEF TypeOK, WeightType, ActType, PhaseType, BiasType, ConfigType, ClientType,
           weightVars, actVars, biasVars, configVars, clientVars
  <2>5. QED
    BY <2>3, <2>4 DEF TypeOK
<1>5. QED
  BY <1>1, <1>2, <1>3, <1>4 DEF SysConfigRun

LEMMA LoadStepType ==
    ASSUME TypeOK, WeightAxi \/ Host
    PROVE  TypeOK'
<1>1. CASE WeightAxi
  <2>1. PICK j \in Idx : WeightPush(j)
    BY <1>1 DEF WeightAxi
  <2> USE <2>1 DEF WeightPush
  <2>2. Append(weight_ch[0][j], <<j, gen, N - wfed[j]>>) \in Chan(Word)
    <3>1. <<j, gen, N - wfed[j]>> \in Word
      BY SMTT(60) DEF TypeOK, ClientType, Word, Ext
    <3>2. weight_ch[0][j] \in Chan(Word)
      BY Types DEF TypeOK, WeightType
    <3>3. QED
      BY <3>1, <3>2, PushType
  <2>3. WeightType'
    <3>1. weight_ch' \in [Ext -> [Idx -> Chan(Word)]]
      BY <2>2, Types DEF TypeOK, WeightType
    <3>2. QED
      BY <3>1 DEF TypeOK, WeightType
  <2>4. ClientType'
    BY SMTT(60) DEF TypeOK, ClientType
  <2>5. SumType' /\ ActType' /\ PhaseType' /\ BiasType' /\ ConfigType'
    BY DEF TypeOK, SumType, ActType, PhaseType, BiasType, ConfigType,
           sumVars, actVars, biasVars, configVars
  <2>6. QED
    BY <2>3, <2>4, <2>5 DEF TypeOK
<1>2. CASE ConfigWrite
  <2> USE <1>2 DEF ConfigWrite
  <2>1. Append(config_in, gen) \in Chan(Nat)
    BY PushType DEF TypeOK, ConfigType, ClientType
  <2>2. ConfigType' /\ ClientType'
    BY <2>1 DEF TypeOK, ConfigType, ClientType
  <2>3. WeightType' /\ SumType' /\ ActType' /\ PhaseType' /\ BiasType'
    BY DEF TypeOK, WeightType, SumType, ActType, PhaseType, BiasType,
           peVars, weightVars, sumVars, actVars, biasVars
  <2>4. QED
    BY <2>2, <2>3 DEF TypeOK
<1>3. CASE StartRun
  <2> USE <1>3 DEF StartRun
  <2>1. PhaseType' /\ ClientType'
    BY DEF TypeOK, PhaseType, ClientType
  <2>2. WeightType' /\ SumType' /\ ActType' /\ BiasType' /\ ConfigType'
    BY DEF TypeOK, WeightType, SumType, ActType, BiasType, ConfigType,
           weightVars, sumVars, actVars, biasVars, configVars
  <2>3. QED
    BY <2>1, <2>2 DEF TypeOK
<1>4. CASE NextLoad
  <2> USE <1>4 DEF NextLoad
  <2>1. ClientType'
    <3>1. gen' \in 1 .. Gens /\ wfed' \in [Idx -> 0 .. N+1]
      BY DEF TypeOK, ClientType
    <3>2. phase' = "load" /\ cfed' = FALSE /\ UNCHANGED <<fed, ctr, result>>
      OBVIOUS
    <3> HIDE <1>4 DEF NextLoad
    <3>3. QED
      BY <3>1, <3>2 DEF TypeOK, ClientType
  <2>2. WeightType'
    <3>1. recv' \in [Ext -> [Idx -> Nat]]
      OBVIOUS
    <3>2. UNCHANGED <<weight_ch, weight_reg, weight_out_reg, is_weight_in>>
      OBVIOUS
    <3> HIDE <1>4 DEF NextLoad
    <3>3. QED
      BY <3>1, <3>2 DEF TypeOK, WeightType
  <2>3. SumType' /\ ActType' /\ PhaseType' /\ BiasType' /\ ConfigType'
    BY DEF TypeOK, SumType, ActType, PhaseType, BiasType, ConfigType,
           sumVars, actVars, biasVars, configVars
  <2>4. QED
    BY <2>1, <2>2, <2>3 DEF TypeOK
<1>5. QED
  BY <1>1, <1>2, <1>3, <1>4 DEF Host

LEMMA RunStepType ==
    ASSUME TypeOK, ReadRspRun \/ CollectOut
    PROVE  TypeOK'
<1>1. CASE ReadRspRun
  <2>1. PICK i \in Idx : ActPush(i)
    BY <1>1 DEF ReadRspRun
  <2> USE <2>1 DEF ActPush
  <2>2. Append(act_ch[i][0], <<gen, i, fed[i]>>) \in Chan(Act)
    <3>1. <<gen, i, fed[i]>> \in Act
      BY DEF TypeOK, ClientType, Act
    <3>2. QED
      BY <3>1, PushType, Types DEF TypeOK, ActType
  <2>3. ActType'
    <3>1. act_ch' \in [Idx -> [Ext -> Chan(Act)]]
      BY <2>2, Types DEF TypeOK, ActType
    <3>2. QED
      BY <3>1 DEF TypeOK, ActType
  <2>4. ClientType'
    BY SMTT(60) DEF TypeOK, ClientType
  <2>5. WeightType' /\ SumType' /\ PhaseType' /\ BiasType' /\ ConfigType'
    BY DEF TypeOK, WeightType, SumType, PhaseType, BiasType, ConfigType,
           weightVars, sumVars, biasVars, configVars
  <2>6. QED
    BY <2>3, <2>4, <2>5 DEF TypeOK
<1>2. CASE CollectOut
  <2>1. PICK S \in (SUBSET Idx) \ {{}} : CollectOut!2!(S)
    BY <1>2 DEF CollectOut
  <2>2. ASSUME NEW j \in Idx
        PROVE  /\ After(j \in S, act_out[j]) \in Chan(Output)
               /\ j \in S => Head(act_out[j]) \in Output
    <3>1. act_out[j] \in Chan(Output) /\ (j \in S) \in PopNB(act_out[j])
      BY <2>1 DEF TypeOK, BiasType
    <3>2. /\ (j \in S) \in BOOLEAN
          /\ (j \in S) => act_out[j] # << >>
      BY <3>1 DEF PopNB, HasMsg
    <3>3. act_out[j] # << >> => Head(act_out[j]) \in Output /\ Tail(act_out[j]) \in Chan(Output)
      BY <3>1 DEF Chan
    <3>4. QED
      BY <3>1, <3>2, <3>3 DEF After
  <2>3. BiasType'
    BY <1>2, <2>1, <2>2 DEF CollectOut, TypeOK, BiasType
  <2>4. result' \in [0 .. M-1 -> [Idx -> Output]]
    BY <2>1, <2>2 DEF TypeOK, ClientType
  <2>5. ctr' \in [Idx -> Nat] /\ phase' \in {"load", "run", "irq", "abort"}
    BY <2>1, SMTT(60) DEF TypeOK, ClientType
  <2>6. ClientType'
    BY <1>2, <2>4, <2>5 DEF CollectOut, TypeOK, ClientType
  <2>7. WeightType' /\ SumType' /\ ActType' /\ PhaseType' /\ ConfigType'
    BY <1>2 DEF CollectOut, TypeOK, WeightType, SumType, ActType, PhaseType, ConfigType,
           peVars, weightVars, sumVars, actVars, configVars
  <2>8. QED
    BY <2>3, <2>6, <2>7 DEF TypeOK
<1>3. QED
  BY <1>1, <1>2

LEMMA StutterType ==
    ASSUME TypeOK, UNCHANGED vars
    PROVE  TypeOK'
<1> USE DEF vars, peVars
<1>1. WeightType' /\ SumType' /\ ActType' /\ PhaseType'
  BY DEF TypeOK, WeightType, SumType, ActType, PhaseType, weightVars, sumVars, actVars
<1>2. BiasType' /\ ConfigType' /\ ClientType'
  BY DEF TypeOK, BiasType, ConfigType, ClientType, biasVars, configVars, clientVars
<1>3. QED
  BY <1>1, <1>2 DEF TypeOK

(* No channel ever holds more than its capacity, no client pushes more than *)
(* its share, and every register and counter stays within its type, in any  *)
(* array and any build.                                                     *)
THEOREM TypeCorrect == Spec => []TypeOK
<1>1. TypeOK /\ [Next]_vars => TypeOK'
  <2> SUFFICES ASSUME TypeOK, [Next]_vars PROVE TypeOK'
    OBVIOUS
  <2>1. CASE \E i \in Idx, j \in Idx : PERun(i, j)
    BY <2>1, PollType, PushActType, PushAccumType, PushWeightType DEF PERun
  <2>2. CASE \E j \in Idx : SysBiasRun(j)
    BY <2>2, BiasStepType
  <2>3. CASE SysConfigRun \/ ActOutRun \/ AccumInRun
    BY <2>3, ThreadStepType
  <2>4. CASE WeightAxi \/ Host
    BY <2>4, LoadStepType
  <2>5. CASE ReadRspRun \/ CollectOut
    BY <2>5, RunStepType
  <2>6. CASE Stop \/ UNCHANGED vars
    BY <2>6, StutterType DEF Stop
  <2>7. QED
    BY <2>1, <2>2, <2>3, <2>4, <2>5, <2>6 DEF Next
<1>2. QED
  BY InitType, <1>1, PTL DEF Spec

-----------------------------------------------------------------------------
(* Loading the array: the inductive invariant *)

(* The k-th word that row i of column j receives in load g: the old words  *)
(* of the rows above it first, nearest first, then the new words, the bias *)
(* first.  The 0-th is the one it already has.                             *)
Nth(i, j, g, k) ==
    IF k <= i THEN <<j, g - 1, i - k>> ELSE <<j, g, N - (k - i - 1)>>

(* A row holds the last word it received and hands on the one before; its  *)
(* channel holds the next ones.                                            *)
RegsInOrder ==
    /\ \A i \in Idx, j \in Idx :
         /\ weight_reg[i][j] = Nth(i, j, gen, recv[i][j])
         /\ is_weight_in[i][j] =>
              recv[i][j] >= 1 /\ weight_out_reg[i][j] = Nth(i, j, gen, recv[i][j] - 1)
    /\ \A j \in Idx : bias[j] = Nth(N, j, gen, recv[N][j])

WordsInOrder ==
    \A i \in Ext, j \in Idx : \A n \in 1 .. Len(weight_ch[i][j]) :
        weight_ch[i][j][n] = Nth(i, j, gen, recv[i][j] + n)

(* No word is lost between a row and the next. *)
Queued(i, j) == Len(weight_ch[i][j])
WordInHand(i, j) == IF is_weight_in[i][j] THEN 1 ELSE 0
WordsConserved ==
    /\ \A j \in Idx : wfed[j] = recv[0][j] + Queued(0, j)
    /\ \A i \in Idx, j \in Idx :
         recv[i][j] = recv[i+1][j] + Queued(i+1, j) + WordInHand(i, j)

(* A PE hands its word on before it takes the next. *)
WordTurn ==
    \A i \in Idx, j \in Idx :
        /\ pc[i][j] = "poll" => ~is_weight_in[i][j]
        /\ pc[i][j] = "weight" => is_weight_in[i][j]

(* The configuration is nowhere, in the first channel, or being handed out. *)
ConfigOnItsWay ==
    \/ /\ config_in = IF cfed THEN <<gen>> ELSE << >>
       /\ cfg_to = N
       /\ \A j \in Idx : config_ch[j] = << >>
    \/ /\ cfed /\ config_in = << >> /\ cfg_reg = gen
       /\ \A j \in Idx :
            \/ config_ch[j] = << >> /\ (j < cfg_to => cfg[j] = gen)
            \/ config_ch[j] = <<gen>> /\ j < cfg_to

Loaded ==
    phase # "load" =>
        Settled /\ cfed /\ \A j \in Idx : wfed[j] = N + 1

LoadInv ==
    /\ RegsInOrder /\ WordsInOrder /\ WordsConserved /\ WordTurn
    /\ ConfigOnItsWay /\ Loaded

-----------------------------------------------------------------------------
(* Where the words are *)

(* What row i + 1 receives is what row i had before it. *)
LEMMA NthBelow ==
    ASSUME NEW i \in Idx, NEW j, NEW g \in Nat, NEW k \in Nat \ {0}
    PROVE  Nth(i + 1, j, g, k) = Nth(i, j, g, k - 1)
<1>1. i \in Nat
  BY DEF Idx
<1>2. CASE k <= i + 1
  <2>1. k - 1 <= i /\ (i + 1) - k = i - (k - 1)
    BY <1>1, <1>2
  <2>2. QED
    BY <2>1, <1>2 DEF Nth
<1>3. CASE ~(k <= i + 1)
  <2>1. ~(k - 1 <= i) /\ N - (k - (i + 1) - 1) = N - ((k - 1) - i - 1)
    BY <1>1, <1>3
  <2>2. QED
    BY <2>1, <1>3 DEF Nth
<1>4. QED
  BY <1>2, <1>3

(* The top row receives the new words as they are pushed. *)
LEMMA NthNew ==
    ASSUME NEW j, NEW g, NEW k \in Nat
    PROVE  Nth(0, j, g, k + 1) = <<j, g, N - k>>
<1>1. ~(k + 1 <= 0) /\ N - ((k + 1) - 0 - 1) = N - k
  OBVIOUS
<1>2. QED
  BY <1>1 DEF Nth

(* After N + 1 words a row has its own, which the next load finds there. *)
LEMMA NthOwn ==
    ASSUME NEW i \in Ext, NEW j, NEW g \in Nat
    PROVE  /\ Nth(i, j, g, N + 1) = <<j, g, i>>
           /\ Nth(i, j, g + 1, 0) = <<j, g, i>>
<1>1. i \in Nat /\ i <= N
  BY DEF Ext
<1>2. ~(N + 1 <= i) /\ N - ((N + 1) - i - 1) = i
  BY <1>1
<1>3. 0 <= i /\ i - 0 = i /\ (g + 1) - 1 = g
  BY <1>1
<1>4. Nth(i, j, g, N + 1) = <<j, g, i>>
  BY <1>2 DEF Nth
<1>5. Nth(i, j, g + 1, 0) = <<j, g, i>>
  BY <1>3 DEF Nth
<1>6. QED
  BY <1>4, <1>5

(* What the invariant counts with. *)
LEMMA WordCounts ==
    ASSUME TypeOK
    PROVE  /\ gen \in Nat
           /\ \A i \in Ext, j \in Idx :
                /\ recv[i][j] \in Nat /\ Queued(i, j) \in Nat
                /\ Len(weight_ch[i][j]) = Queued(i, j)
                /\ weight_ch[i][j] \in Seq(Word)
           /\ \A i \in Idx, j \in Idx : WordInHand(i, j) \in Nat
BY DEF TypeOK, WeightType, ClientType, Chan, WordInHand, Queued

(* A pop that succeeds takes the next word. *)
LEMMA PoppedWords ==
    ASSUME TypeOK, WordsInOrder, NEW i \in Ext, NEW j \in Idx, weight_ch[i][j] # << >>
    PROVE  /\ Head(weight_ch[i][j]) = Nth(i, j, gen, recv[i][j] + 1)
           /\ Len(Tail(weight_ch[i][j])) = Len(weight_ch[i][j]) - 1
           /\ Len(weight_ch[i][j]) >= 1
           /\ \A n \in 1 .. Len(Tail(weight_ch[i][j])) :
                Tail(weight_ch[i][j])[n] = Nth(i, j, gen, (recv[i][j] + 1) + n)
<1> DEFINE ch == weight_ch[i][j]
<1>1. ch \in Seq(Word) /\ ch # << >> /\ recv[i][j] \in Nat
  BY WordCounts
<1>2. \A n \in 1 .. Len(ch) : ch[n] = Nth(i, j, gen, recv[i][j] + n)
  BY DEF WordsInOrder
<1>3. Len(ch) \in Nat /\ Len(ch) >= 1 /\ Len(Tail(ch)) = Len(ch) - 1 /\ Head(ch) = ch[1]
  BY <1>1
<1>4. ASSUME NEW n \in 1 .. Len(Tail(ch))
      PROVE  Tail(ch)[n] = Nth(i, j, gen, (recv[i][j] + 1) + n)
  <2>1. Tail(ch)[n] = ch[n + 1] /\ n + 1 \in 1 .. Len(ch)
    BY <1>1, <1>3
  <2>2. recv[i][j] + (n + 1) = (recv[i][j] + 1) + n
    BY <1>1
  <2>3. QED
    BY <1>2, <2>1, <2>2
<1>5. QED
  BY <1>2, <1>3, <1>4

(* A push of the next word keeps the order. *)
LEMMA PushedWords ==
    ASSUME TypeOK, WordsInOrder, NEW i \in Ext, NEW j \in Idx, NEW x \in Word,
           x = Nth(i, j, gen, recv[i][j] + Len(weight_ch[i][j]) + 1)
    PROVE  /\ Len(Append(weight_ch[i][j], x)) = Len(weight_ch[i][j]) + 1
           /\ \A n \in 1 .. Len(Append(weight_ch[i][j], x)) :
                Append(weight_ch[i][j], x)[n] = Nth(i, j, gen, recv[i][j] + n)
<1> DEFINE ch == weight_ch[i][j]
<1>1. ch \in Seq(Word) /\ Len(ch) \in Nat /\ recv[i][j] \in Nat
  BY WordCounts
<1>2. \A n \in 1 .. Len(ch) : ch[n] = Nth(i, j, gen, recv[i][j] + n)
  BY DEF WordsInOrder
<1>3. Len(Append(ch, x)) = Len(ch) + 1
  BY <1>1
<1>4. ASSUME NEW n \in 1 .. Len(Append(ch, x))
      PROVE  Append(ch, x)[n] = Nth(i, j, gen, recv[i][j] + n)
  <2>1. CASE n = Len(ch) + 1
    <3>1. Append(ch, x)[n] = x
      BY <1>1, <2>1
    <3>2. recv[i][j] + n = recv[i][j] + Len(ch) + 1
      BY <1>1, <2>1
    <3>3. QED
      BY <3>1, <3>2
  <2>2. CASE n # Len(ch) + 1
    <3>1. n \in 1 .. Len(ch) /\ Append(ch, x)[n] = ch[n]
      BY <1>1, <1>3, <2>2
    <3>2. QED
      BY <1>2, <3>1
  <2>3. QED
    BY <2>1, <2>2
<1>5. QED
  BY <1>3, <1>4

-----------------------------------------------------------------------------
(* The start, and the steps that move no word *)

LEMMA InitLoad == Init => LoadInv
<1> SUFFICES ASSUME Init PROVE LoadInv
  OBVIOUS
<1> USE DEF Init
<1>1. \A i \in Ext, j \in Idx : Nth(i, j, 1, 0) = <<j, 0, i>>
  <2>1. 0 \in Nat /\ 0 + 1 = 1
    OBVIOUS
  <2>2. QED
    BY <2>1, NthOwn
<1>2. RegsInOrder
  BY <1>1, Types DEF RegsInOrder
<1>3. \A i \in Ext, j \in Idx : weight_ch[i][j] = << >> /\ recv[i][j] = 0
  OBVIOUS
<1>4. WordsInOrder
  BY <1>3 DEF WordsInOrder
<1>5. \A i \in Idx, j \in Idx : WordInHand(i, j) = 0
  BY DEF WordInHand
<1>6. WordsConserved
  BY <1>3, <1>5, Types, SMTT(60) DEF WordsConserved, Queued
<1>7. WordTurn /\ ConfigOnItsWay /\ Loaded
  BY DEF WordTurn, ConfigOnItsWay, Loaded
<1>8. QED
  BY <1>2, <1>4, <1>6, <1>7 DEF LoadInv

LEMMA WordsSame ==
    ASSUME RegsInOrder, WordsInOrder, WordsConserved,
           UNCHANGED <<weightVars, bias, gen, wfed>>
    PROVE  RegsInOrder' /\ WordsInOrder' /\ WordsConserved'
BY DEF RegsInOrder, WordsInOrder, WordsConserved, WordInHand, Queued, weightVars

LEMMA ConfigSame ==
    ASSUME ConfigOnItsWay, UNCHANGED <<configVars, cfg, cfed, gen>>
    PROVE  ConfigOnItsWay'
BY DEF ConfigOnItsWay, configVars

LEMMA LoadedSame ==
    ASSUME Loaded, UNCHANGED <<configVars, weight_ch, is_weight_in, cfed, wfed>>,
           phase' # "load" => phase # "load"
    PROVE  Loaded'
BY DEF Loaded, Settled, configVars
(* A step of the array that moves neither a word nor a configuration. *)
LEMMA OtherStep ==
    ASSUME LoadInv, NEW i \in Idx, NEW j \in Idx, TypeOK,
           PushAct(i, j) \/ PushAccum(i, j) \/ BiasAccum(j) \/ BiasPush(j)
             \/ ActOutRun \/ AccumInRun \/ ActPush(i) \/ CollectOut \/ UNCHANGED vars
    PROVE  LoadInv'
<1> USE DEF vars, peVars, biasVars, clientVars
<1>1. /\ UNCHANGED <<weightVars, configVars, bias, cfg, gen, wfed, cfed>>
      /\ phase = "load" => phase' = "load"
      /\ \/ UNCHANGED pc
         \/ pc' = [pc EXCEPT ![i][j] = "accum"]
         \/ pc' = [pc EXCEPT ![i][j] = IF is_weight_in[i][j] THEN "weight" ELSE "poll"]
  <2>1. CASE PushAct(i, j)
    BY <2>1 DEF PushAct
  <2>2. CASE PushAccum(i, j)
    BY <2>2 DEF PushAccum
  <2>3. CASE BiasAccum(j)
    BY <2>3 DEF BiasAccum
  <2>4. CASE BiasPush(j)
    BY <2>4 DEF BiasPush
  <2>5. CASE ActOutRun
    BY <2>5 DEF ActOutRun
  <2>6. CASE AccumInRun
    BY <2>6 DEF AccumInRun
  <2>7. CASE ActPush(i)
    BY <2>7 DEF ActPush
  <2>8. CASE CollectOut
    BY <2>8 DEF CollectOut
  <2>9. CASE UNCHANGED vars
    BY <2>9
  <2>10. QED
    BY <2>1, <2>2, <2>3, <2>4, <2>5, <2>6, <2>7, <2>8, <2>9
<1>2. RegsInOrder' /\ WordsInOrder' /\ WordsConserved'
  BY <1>1, WordsSame DEF LoadInv
<1>3. ConfigOnItsWay'
  BY <1>1, ConfigSame DEF LoadInv
<1>4. Loaded'
  <2>1. phase' \in {"load", "run", "irq", "abort"} => (phase' # "load" => phase # "load")
    BY <1>1
  <2>2. phase' # "load" => phase # "load"
    BY <1>1
  <2>3. QED
    BY <1>1, <2>2, LoadedSame DEF LoadInv, weightVars
<1>5. WordTurn'
  BY <1>1 DEF LoadInv, WordTurn, weightVars, TypeOK, PhaseType
<1>6. QED
  BY <1>2, <1>3, <1>4, <1>5 DEF LoadInv

(* The run starts when all is settled. *)
LEMMA StartRunLoad ==
    ASSUME LoadInv, StartRun
    PROVE  LoadInv'
<1>1. /\ UNCHANGED <<weightVars, configVars, bias, cfg, gen, wfed, cfed, pc>>
      /\ Settled /\ cfed /\ \A j \in Idx : wfed[j] = N + 1
  BY DEF StartRun, biasVars
<1>2. RegsInOrder' /\ WordsInOrder' /\ WordsConserved'
  BY <1>1, WordsSame DEF LoadInv
<1>3. ConfigOnItsWay'
  BY <1>1, ConfigSame DEF LoadInv
<1>4. Loaded' /\ WordTurn'
  BY <1>1 DEF LoadInv, Loaded, Settled, WordTurn, weightVars, configVars
<1>5. QED
  BY <1>2, <1>3, <1>4 DEF LoadInv

-----------------------------------------------------------------------------
(* A set of naturals up to n that has the predecessor of each of its        *)
(* members has not n: taking predecessors would map it one to one, hence    *)
(* onto itself, and n is nobody's predecessor.                              *)
LEMMA NoDescent ==
    ASSUME NEW n \in Nat, NEW U \in SUBSET (0 .. n), 0 \notin U,
           \A k \in U : k - 1 \in U
    PROVE  n \notin U
<1> DEFINE f == [k \in U |-> k - 1]
<1>1. IsFiniteSet(U)
  <2>1. IsFiniteSet(0 .. n)
    BY FS_Interval
  <2>2. QED
    BY <2>1, FS_Subset
<1>2. f \in Injection(U, U)
  <2>1. f \in [U -> U]
    OBVIOUS
  <2>2. \A a \in U, b \in U : f[a] = f[b] => a = b
    OBVIOUS
  <2>3. DOMAIN f = U
    OBVIOUS
  <2> HIDE DEF f
  <2>4. QED
    BY <2>1, <2>2, <2>3 DEF Injection, IsInjective
<1>3. f \in Surjection(U, U)
  BY <1>1, <1>2, FS_Injection
<1>4. ASSUME n \in U PROVE FALSE
  <2>1. PICK k \in U : f[k] = n
    <3> HIDE DEF f
    <3>1. QED
      BY <1>3, <1>4 DEF Surjection
  <2>2. k - 1 = n /\ k <= n /\ k \in Nat
    BY <2>1
  <2>3. QED
    BY <2>2
<1>5. QED
  BY <1>4

-----------------------------------------------------------------------------
(* Where a load has settled every row has received its N + 1 words *)

LEMMA AllReceived ==
    ASSUME TypeOK, LoadInv, phase # "load"
    PROVE  \A i \in Ext, j \in Idx : recv[i][j] = N + 1
<1>1. /\ \A i \in Ext, j \in Idx : Queued(i, j) = 0
      /\ \A i \in Idx, j \in Idx : WordInHand(i, j) = 0
      /\ \A j \in Idx : wfed[j] = N + 1
  BY DEF LoadInv, Loaded, Settled, WordInHand, Queued
<1> SUFFICES ASSUME NEW i \in Ext, NEW j \in Idx, recv[i][j] # N + 1
             PROVE  FALSE
  OBVIOUS
<1> DEFINE U == {k \in 0 .. i : recv[k][j] # N + 1}
<1>2. i \in Nat /\ 0 .. i \subseteq Ext
  BY DEF Ext
<1>3. 0 \notin U
  <2>1. wfed[j] = recv[0][j] + Queued(0, j)
    BY DEF LoadInv, WordsConserved
  <2>2. wfed[j] = N + 1 /\ Queued(0, j) = 0 /\ recv[0][j] \in Nat
    BY <1>1, Types, WordCounts
  <2>3. QED
    BY <2>1, <2>2
<1>4. ASSUME NEW k \in U
      PROVE  k - 1 \in U
  <2>1. k # 0 /\ k \in Ext
    BY <1>2, <1>3
  <2>2. k - 1 \in Idx /\ k - 1 \in 0 .. i /\ (k - 1) + 1 = k
    BY <1>2, <2>1 DEF Idx, Ext
  <2>3. recv[k-1][j] = recv[k][j]
    <3>1. recv[k-1][j] = recv[k][j] + Queued(k, j) + WordInHand(k-1, j)
      BY <2>2 DEF LoadInv, WordsConserved
    <3>2. Queued(k, j) = 0 /\ WordInHand(k-1, j) = 0 /\ recv[k][j] \in Nat
      BY <1>1, <2>1, <2>2, WordCounts
    <3>3. QED
      BY <3>1, <3>2
  <2>4. QED
    BY <2>2, <2>3
<1>5. U \in SUBSET (0 .. i) /\ i \in U
  BY <1>2
<1>6. QED
  <2> HIDE DEF U
  <2>1. QED
    BY <1>2, <1>3, <1>4, <1>5, NoDescent
-----------------------------------------------------------------------------
(* The steps that move a word *)

(* A row takes a word: it was the next one, and what the row had before is  *)
(* what it now owes the row below.                                          *)
LEMMA PollLoad ==
    ASSUME TypeOK, LoadInv, NEW i \in Idx, NEW j \in Idx, Poll(i, j)
    PROVE  LoadInv'
<1>0. PICK w \in PopNB(weight_ch[i][j]),
           a \in IF is_act_in[i][j] THEN {FALSE} ELSE PopNB(act_ch[i][j]),
           s \in IF is_accum_in[i][j] THEN {FALSE} ELSE PopNB(accum_ch[i][j]) :
             Poll(i, j)!2!(w, a, s)
  BY DEF Poll
<1>1. /\ UNCHANGED <<configVars, bias, cfg, gen, wfed, cfed, phase>>
      /\ pc[i][j] = "poll" /\ ~is_weight_in[i][j]
  BY DEF Poll, biasVars, clientVars, LoadInv, WordTurn
<1>2. ConfigOnItsWay'
  BY <1>1, ConfigSame DEF LoadInv
<1>3. CASE ~w
  <2>1. UNCHANGED <<weight_ch, weight_reg, weight_out_reg, is_weight_in, recv>>
    <3>1. /\ After(w, weight_ch[i][j]) = weight_ch[i][j]
          /\ Got(w, weight_ch[i][j], weight_reg[i][j]) = weight_reg[i][j]
      BY <1>3 DEF After, Got
    <3>2. UNCHANGED weight_ch
      BY <1>0, <3>1, Types DEF TypeOK, WeightType
    <3>3. UNCHANGED <<weight_reg, weight_out_reg>>
      BY <1>0, <1>3, <3>1 DEF TypeOK, WeightType
    <3>4. UNCHANGED is_weight_in
      <4>1. w = FALSE /\ is_weight_in[i][j] = FALSE
        BY <1>0, <1>1, <1>3 DEF PopNB, TypeOK, WeightType
      <4>2. QED
        BY <1>0, <4>1 DEF TypeOK, WeightType
    <3>5. UNCHANGED recv
      BY <1>0, <1>3, Types DEF TypeOK, WeightType
    <3>6. QED
      BY <3>2, <3>3, <3>4, <3>5
  <2>2. RegsInOrder' /\ WordsInOrder' /\ WordsConserved'
    BY <1>1, <2>1, WordsSame DEF LoadInv, weightVars
  <2>3. Loaded'
    BY <1>1, <2>1, LoadedSame DEF LoadInv
  <2>4. pc' = [pc EXCEPT ![i][j] = "act"] \/ UNCHANGED pc
    BY <1>0, <1>3 DEF TypeOK, PhaseType
  <2>5. WordTurn'
    <3>1. UNCHANGED is_weight_in /\ WordTurn /\ PhaseType
      BY <2>1, <1>1 DEF LoadInv, TypeOK
    <3>2. ASSUME NEW b \in Idx, NEW c \in Idx
          PROVE  pc'[b][c] = "act" \/ pc'[b][c] = pc[b][c]
      BY <2>4, <3>1, SMTT(60) DEF PhaseType
    <3>3. QED
      BY <3>1, <3>2 DEF WordTurn
  <2>6. QED
    BY <1>2, <2>2, <2>3, <2>5 DEF LoadInv
<1>4. CASE w
  <2>0. weight_ch[i][j] # << >>
    BY <1>0, <1>4 DEF PopNB, HasMsg
  <2>1. /\ \A x \in Ext, y \in Idx : <<x, y>> # <<i, j>> =>
             weight_ch'[x][y] = weight_ch[x][y] /\ recv'[x][y] = recv[x][y]
        /\ weight_ch'[i][j] = Tail(weight_ch[i][j])
        /\ recv'[i][j] = recv[i][j] + 1
    BY <1>0, <1>4, Types DEF After, TypeOK, WeightType
  <2>2. /\ \A x \in Idx, y \in Idx : <<x, y>> # <<i, j>> =>
             /\ weight_reg'[x][y] = weight_reg[x][y]
             /\ weight_out_reg'[x][y] = weight_out_reg[x][y]
             /\ is_weight_in'[x][y] = is_weight_in[x][y]
        /\ weight_reg'[i][j] = Head(weight_ch[i][j])
        /\ weight_out_reg'[i][j] = weight_reg[i][j]
        /\ is_weight_in'[i][j]
    BY <1>0, <1>4 DEF Got, ShiftedOut, TypeOK, WeightType
  <2>3. recv[i][j] \in Nat /\ recv[i][j] + 1 >= 1 /\ (recv[i][j] + 1) - 1 = recv[i][j]
    <3>1. i \in Ext
      BY Types
    <3>2. recv[i][j] \in Nat
      BY <3>1, WordCounts
    <3>3. QED
      BY <3>2
  <2>4. /\ Head(weight_ch[i][j]) = Nth(i, j, gen, recv[i][j] + 1)
        /\ Len(Tail(weight_ch[i][j])) = Len(weight_ch[i][j]) - 1
        /\ Len(weight_ch[i][j]) >= 1
        /\ \A n \in 1 .. Len(Tail(weight_ch[i][j])) :
             Tail(weight_ch[i][j])[n] = Nth(i, j, gen, (recv[i][j] + 1) + n)
    BY <2>0, PoppedWords, Types DEF LoadInv
  <2>5. RegsInOrder'
    <3>1. ASSUME NEW x \in Idx, NEW y \in Idx
          PROVE  /\ weight_reg'[x][y] = Nth(x, y, gen, recv'[x][y])
                 /\ is_weight_in'[x][y] =>
                      /\ recv'[x][y] >= 1
                      /\ weight_out_reg'[x][y] = Nth(x, y, gen, recv'[x][y] - 1)
      <4>1. CASE x = i /\ y = j
        BY <4>1, <2>1, <2>2, <2>3, <2>4 DEF LoadInv, RegsInOrder
      <4>2. CASE ~(x = i /\ y = j)
        BY <4>2, <2>1, <2>2, Types, SMTT(60) DEF LoadInv, RegsInOrder
      <4>3. QED
        BY <4>1, <4>2
    <3>2. \A y \in Idx : recv'[N][y] = recv[N][y]
      BY <2>1, Types
    <3>3. QED
      BY <3>1, <3>2, <1>1 DEF LoadInv, RegsInOrder
  <2>6. WordsInOrder'
    <3>1. ASSUME NEW x \in Ext, NEW y \in Idx
          PROVE  \A n \in 1 .. Len(weight_ch'[x][y]) :
                   weight_ch'[x][y][n] = Nth(x, y, gen, recv'[x][y] + n)
      <4>1. CASE x = i /\ y = j
        BY <4>1, <2>1, <2>4
      <4>2. CASE ~(x = i /\ y = j)
        BY <4>2, <2>1 DEF LoadInv, WordsInOrder
      <4>3. QED
        BY <4>1, <4>2
    <3>2. QED
      BY <3>1, <1>1 DEF WordsInOrder
  <2>7. WordsConserved'
    <3>1. ASSUME NEW y \in Idx
          PROVE  wfed[y] = recv'[0][y] + Queued(0, y)'
      <4>1. /\ wfed[y] = recv[0][y] + Queued(0, y)
            /\ recv[0][y] \in Nat /\ Queued(0, y) \in Nat
        BY WordCounts, Types DEF LoadInv, WordsConserved
      <4>2. CASE i = 0 /\ y = j
        <5>1. recv'[0][y] = recv[0][y] + 1 /\ Queued(0, y)' = Queued(0, y) - 1
          BY <4>2, <2>1, <2>4 DEF Queued
        <5>2. QED
          BY <4>1, <5>1
      <4>3. CASE ~(i = 0 /\ y = j)
        BY <4>1, <4>3, <2>1, Types DEF Queued
      <4>4. QED
        BY <4>2, <4>3
    <3>2. ASSUME NEW x \in Idx, NEW y \in Idx
          PROVE  recv'[x][y] = recv'[x+1][y] + Queued(x+1, y)' + WordInHand(x, y)'
      <4>1. /\ recv[x][y] = recv[x+1][y] + Queued(x+1, y) + WordInHand(x, y)
            /\ recv[x][y] \in Nat /\ recv[x+1][y] \in Nat
            /\ Queued(x+1, y) \in Nat /\ WordInHand(x, y) \in Nat
        BY WordCounts, Types DEF LoadInv, WordsConserved
      <4>2. x # x + 1 /\ x \in Ext /\ x + 1 \in Ext
        BY DEF Idx, Ext
      <4>3. CASE x = i /\ y = j
        <5>1. WordInHand(x, y) = 0 /\ WordInHand(x, y)' = 1
          BY <4>3, <1>1, <2>2 DEF WordInHand
        <5>2. /\ recv'[x+1][y] = recv[x+1][y] /\ Queued(x+1, y)' = Queued(x+1, y)
              /\ recv'[x][y] = recv[x][y] + 1
          BY <4>2, <4>3, <2>1 DEF Queued
        <5>3. QED
          BY <4>1, <5>1, <5>2
      <4>4. CASE x + 1 = i /\ y = j
        <5>1. WordInHand(x, y)' = WordInHand(x, y)
          BY <4>2, <4>4, <2>2 DEF WordInHand
        <5>2. /\ recv'[x+1][y] = recv[x+1][y] + 1
              /\ Queued(x+1, y)' = Queued(x+1, y) - 1
              /\ recv'[x][y] = recv[x][y]
          BY <4>2, <4>4, <2>1, <2>4 DEF Queued
        <5>3. QED
          BY <4>1, <5>1, <5>2
      <4>5. CASE ~(x = i /\ y = j) /\ ~(x + 1 = i /\ y = j)
        <5>1. WordInHand(x, y)' = WordInHand(x, y)
          BY <4>5, <2>2 DEF WordInHand
        <5>2. /\ recv'[x+1][y] = recv[x+1][y] /\ Queued(x+1, y)' = Queued(x+1, y)
              /\ recv'[x][y] = recv[x][y]
          BY <4>2, <4>5, <2>1 DEF Queued
        <5>3. QED
          BY <4>1, <5>1, <5>2
      <4>6. QED
        BY <4>3, <4>4, <4>5
    <3>3. QED
      BY <3>1, <3>2, <1>1 DEF WordsConserved
  <2>8. phase = "load"
    BY <2>0, Types DEF LoadInv, Loaded, Settled
  <2>9. WordTurn'
    <3>1. /\ \A x \in Idx, y \in Idx : <<x, y>> # <<i, j>> => pc'[x][y] = pc[x][y]
          /\ pc'[i][j] \in {"act", "weight"}
      BY <1>0, <1>4 DEF TypeOK, PhaseType
    <3>2. QED
      BY <3>1, <2>2 DEF LoadInv, WordTurn
  <2>10. QED
    BY <1>1, <1>2, <2>5, <2>6, <2>7, <2>8, <2>9 DEF LoadInv, Loaded
<1>5. QED
  BY <1>3, <1>4, <1>0, SMTT(60) DEF PopNB
(* A PE hands on the word it had, which is the next one of the row below. *)
LEMMA PushWeightLoad ==
    ASSUME TypeOK, LoadInv, NEW i \in Idx, NEW j \in Idx, PushWeight(i, j)
    PROVE  LoadInv'
<1>1. /\ UNCHANGED <<weight_reg, weight_out_reg, recv, configVars, bias, cfg, gen, wfed,
                     cfed, phase>>
      /\ pc[i][j] = "weight" /\ is_weight_in[i][j] /\ phase = "load"
      /\ pc' = [pc EXCEPT ![i][j] = "poll"]
  BY DEF PushWeight, biasVars, clientVars, LoadInv, WordTurn, Loaded, Settled
<1>2. /\ i \in Ext /\ i + 1 \in Ext /\ recv[i][j] \in Nat /\ recv[i][j] >= 1
      /\ recv[i+1][j] \in Nat /\ Queued(i+1, j) \in Nat /\ gen \in Nat
      /\ weight_out_reg[i][j] \in Word
  <2>1. i \in Ext /\ i + 1 \in Ext
    BY Types
  <2>2. QED
    BY <2>1, <1>1, WordCounts DEF LoadInv, RegsInOrder, TypeOK, WeightType
<1>3. recv[i][j] = recv[i+1][j] + Queued(i+1, j) + 1
  BY <1>1, Types DEF LoadInv, WordsConserved, WordInHand
<1>4. weight_out_reg[i][j] = Nth(i + 1, j, gen, recv[i+1][j] + Queued(i+1, j) + 1)
  <2>1. weight_out_reg[i][j] = Nth(i, j, gen, recv[i][j] - 1)
    BY <1>1 DEF LoadInv, RegsInOrder
  <2>2. recv[i][j] \in Nat \ {0}
    BY <1>2
  <2>3. weight_out_reg[i][j] = Nth(i + 1, j, gen, recv[i][j])
    BY <1>2, <2>1, <2>2, NthBelow
  <2>4. QED
    BY <1>3, <2>3
<1>5. /\ \A x \in Ext, y \in Idx : <<x, y>> # <<i+1, j>> => weight_ch'[x][y] = weight_ch[x][y]
      /\ weight_ch'[i+1][j] = Append(weight_ch[i+1][j], weight_out_reg[i][j])
      /\ \A x \in Idx, y \in Idx : <<x, y>> # <<i, j>> => is_weight_in'[x][y] = is_weight_in[x][y]
      /\ ~is_weight_in'[i][j]
  BY <1>2 DEF PushWeight, TypeOK, WeightType
<1>6. /\ Queued(i+1, j)' = Queued(i+1, j) + 1
      /\ \A n \in 1 .. Len(weight_ch'[i+1][j]) :
           weight_ch'[i+1][j][n] = Nth(i + 1, j, gen, recv[i+1][j] + n)
  <2>1. weight_out_reg[i][j] = Nth(i + 1, j, gen, recv[i+1][j] + Len(weight_ch[i+1][j]) + 1)
    BY <1>4 DEF Queued
  <2>2. /\ Len(Append(weight_ch[i+1][j], weight_out_reg[i][j])) = Len(weight_ch[i+1][j]) + 1
        /\ \A n \in 1 .. Len(Append(weight_ch[i+1][j], weight_out_reg[i][j])) :
             Append(weight_ch[i+1][j], weight_out_reg[i][j])[n]
               = Nth(i + 1, j, gen, recv[i+1][j] + n)
    BY <1>2, <2>1, PushedWords DEF LoadInv
  <2>3. QED
    BY <1>5, <2>2 DEF Queued
<1>7. RegsInOrder'
  BY <1>1, <1>5, SMTT(60) DEF LoadInv, RegsInOrder
<1>8. WordsInOrder'
  <2>1. ASSUME NEW x \in Ext, NEW y \in Idx
        PROVE  \A n \in 1 .. Len(weight_ch'[x][y]) :
                 weight_ch'[x][y][n] = Nth(x, y, gen, recv[x][y] + n)
    <3>1. CASE x = i + 1 /\ y = j
      BY <3>1, <1>6
    <3>2. CASE ~(x = i + 1 /\ y = j)
      BY <3>2, <1>5 DEF LoadInv, WordsInOrder
    <3>3. QED
      BY <3>1, <3>2
  <2>2. QED
    BY <2>1, <1>1 DEF WordsInOrder
<1>9. WordsConserved'
  <2>1. ASSUME NEW y \in Idx
        PROVE  wfed[y] = recv[0][y] + Queued(0, y)'
    <3>1. 0 # i + 1
      BY DEF Idx
    <3>2. Queued(0, y)' = Queued(0, y)
      BY <3>1, <1>5, Types DEF Queued
    <3>3. QED
      BY <3>2 DEF LoadInv, WordsConserved
  <2>2. ASSUME NEW x \in Idx, NEW y \in Idx
        PROVE  recv[x][y] = recv[x+1][y] + Queued(x+1, y)' + WordInHand(x, y)'
    <3>1. CASE x = i /\ y = j
      <4>1. WordInHand(x, y)' = 0 /\ Queued(x+1, y)' = Queued(x+1, y) + 1
        BY <3>1, <1>5, <1>6 DEF WordInHand
      <4>2. recv[x][y] = recv[x+1][y] + Queued(x+1, y) + 1
        BY <3>1, <1>3
      <4>3. recv[x+1][y] \in Nat /\ Queued(x+1, y) \in Nat
        BY <3>1, <1>2
      <4>4. QED
        BY <4>1, <4>2, <4>3
    <3>2. CASE ~(x = i /\ y = j)
      <4>1. x + 1 \in Ext /\ <<x + 1, y>> # <<i + 1, j>>
        BY <3>2 DEF Idx, Ext
      <4>2. WordInHand(x, y)' = WordInHand(x, y) /\ Queued(x+1, y)' = Queued(x+1, y)
        BY <3>2, <4>1, <1>5 DEF WordInHand, Queued
      <4>3. QED
        BY <4>2 DEF LoadInv, WordsConserved
    <3>3. QED
      BY <3>1, <3>2
  <2>3. QED
    BY <2>1, <2>2, <1>1 DEF WordsConserved
<1>10. WordTurn'
  <2>1. /\ \A x \in Idx, y \in Idx : <<x, y>> # <<i, j>> => pc'[x][y] = pc[x][y]
        /\ pc'[i][j] = "poll"
    BY <1>1 DEF TypeOK, PhaseType
  <2>2. QED
    BY <2>1, <1>5 DEF LoadInv, WordTurn
<1>11. ConfigOnItsWay'
  BY <1>1, ConfigSame DEF LoadInv
<1>12. QED
  BY <1>1, <1>7, <1>8, <1>9, <1>10, <1>11 DEF LoadInv, Loaded

(* SysBias takes a word. *)
LEMMA BiasWeightLoad ==
    ASSUME TypeOK, LoadInv, NEW j \in Idx, BiasWeight(j)
    PROVE  LoadInv'
<1>1. /\ UNCHANGED <<weight_reg, weight_out_reg, is_weight_in, pc, configVars, cfg, gen,
                     wfed, cfed, phase>>
      /\ weight_ch[N][j] # << >>
  BY PopNBSound DEF BiasWeight, biasVars, clientVars
<1>2. /\ \A x \in Ext, y \in Idx : <<x, y>> # <<N, j>> =>
           weight_ch'[x][y] = weight_ch[x][y] /\ recv'[x][y] = recv[x][y]
      /\ weight_ch'[N][j] = Tail(weight_ch[N][j])
      /\ recv'[N][j] = recv[N][j] + 1
      /\ \A y \in Idx : y # j => bias'[y] = bias[y]
      /\ bias'[j] = Head(weight_ch[N][j])
  BY Types DEF BiasWeight, TypeOK, WeightType, BiasType
<1>3. /\ Head(weight_ch[N][j]) = Nth(N, j, gen, recv[N][j] + 1)
      /\ Len(Tail(weight_ch[N][j])) = Len(weight_ch[N][j]) - 1
      /\ \A n \in 1 .. Len(Tail(weight_ch[N][j])) :
           Tail(weight_ch[N][j])[n] = Nth(N, j, gen, (recv[N][j] + 1) + n)
  BY <1>1, PoppedWords, Types DEF LoadInv
<1>4. \A x \in Idx : x \in Ext /\ x # N
  BY Types
<1>5. RegsInOrder'
  <2>1. ASSUME NEW x \in Idx, NEW y \in Idx
        PROVE  recv'[x][y] = recv[x][y]
    BY <1>2, <1>4
  <2>2. ASSUME NEW y \in Idx
        PROVE  bias'[y] = Nth(N, y, gen, recv'[N][y])
    <3>1. CASE y = j
      BY <3>1, <1>2, <1>3
    <3>2. CASE y # j
      BY <3>2, <1>2, Types DEF LoadInv, RegsInOrder
    <3>3. QED
      BY <3>1, <3>2
  <2>3. QED
    BY <2>1, <2>2, <1>1 DEF LoadInv, RegsInOrder
<1>6. WordsInOrder'
  <2>1. ASSUME NEW x \in Ext, NEW y \in Idx
        PROVE  \A n \in 1 .. Len(weight_ch'[x][y]) :
                 weight_ch'[x][y][n] = Nth(x, y, gen, recv'[x][y] + n)
    <3>1. CASE x = N /\ y = j
      BY <3>1, <1>2, <1>3
    <3>2. CASE ~(x = N /\ y = j)
      BY <3>2, <1>2 DEF LoadInv, WordsInOrder
    <3>3. QED
      BY <3>1, <3>2
  <2>2. QED
    BY <2>1, <1>1 DEF WordsInOrder
<1>7. Queued(N, j)' = Queued(N, j) - 1
  BY <1>2, <1>3 DEF Queued
<1>8. WordsConserved'
  <2>1. ASSUME NEW y \in Idx
        PROVE  wfed[y] = recv'[0][y] + Queued(0, y)'
    <3>1. recv'[0][y] = recv[0][y] /\ Queued(0, y)' = Queued(0, y)
      BY <1>2, <1>4, Types DEF Queued
    <3>2. QED
      BY <3>1 DEF LoadInv, WordsConserved
  <2>2. ASSUME NEW x \in Idx, NEW y \in Idx
        PROVE  recv'[x][y] = recv'[x+1][y] + Queued(x+1, y)' + WordInHand(x, y)'
    <3>1. /\ recv[x][y] = recv[x+1][y] + Queued(x+1, y) + WordInHand(x, y)
          /\ recv[x+1][y] \in Nat /\ Queued(x+1, y) \in Nat /\ WordInHand(x, y) \in Nat
      BY WordCounts, Types DEF LoadInv, WordsConserved
    <3>2. WordInHand(x, y)' = WordInHand(x, y) /\ recv'[x][y] = recv[x][y]
      BY <1>1, <1>2, <1>4 DEF WordInHand
    <3>3. CASE x + 1 = N /\ y = j
      <4>1. recv'[x+1][y] = recv[x+1][y] + 1 /\ Queued(x+1, y)' = Queued(x+1, y) - 1
        BY <3>3, <1>2, <1>7
      <4>2. QED
        BY <3>1, <3>2, <4>1
    <3>4. CASE ~(x + 1 = N /\ y = j)
      <4>1. recv'[x+1][y] = recv[x+1][y] /\ Queued(x+1, y)' = Queued(x+1, y)
        BY <3>4, <1>2, Types DEF Queued
      <4>2. QED
        BY <3>1, <3>2, <4>1
    <3>5. QED
      BY <3>3, <3>4
  <2>3. QED
    BY <2>1, <2>2, <1>1 DEF WordsConserved
<1>9. phase = "load"
  BY <1>1, Types DEF LoadInv, Loaded, Settled
<1>10. WordTurn' /\ Loaded'
  BY <1>1, <1>9 DEF LoadInv, WordTurn, Loaded
<1>11. ConfigOnItsWay'
  BY <1>1, ConfigSame DEF LoadInv
<1>12. QED
  BY <1>5, <1>6, <1>8, <1>10, <1>11 DEF LoadInv

(* WeightAxi pushes the next new word. *)
LEMMA WeightPushLoad ==
    ASSUME TypeOK, LoadInv, NEW j \in Idx, WeightPush(j)
    PROVE  LoadInv'
<1>1. /\ UNCHANGED <<weight_reg, weight_out_reg, is_weight_in, recv, pc, bias, configVars,
                     cfg, gen, cfed, phase>>
      /\ phase = "load"
      /\ wfed[j] <= N
  BY DEF WeightPush, biasVars
<1>2. /\ \A x \in Ext, y \in Idx : <<x, y>> # <<0, j>> => weight_ch'[x][y] = weight_ch[x][y]
      /\ weight_ch'[0][j] = Append(weight_ch[0][j], <<j, gen, N - wfed[j]>>)
      /\ \A y \in Idx : y # j => wfed'[y] = wfed[y]
      /\ wfed'[j] = wfed[j] + 1
  BY Types DEF WeightPush, TypeOK, WeightType, ClientType
<1>3. /\ wfed[j] = recv[0][j] + Queued(0, j)
      /\ recv[0][j] \in Nat /\ Queued(0, j) \in Nat /\ wfed[j] \in Nat
  <2>1. wfed[j] = recv[0][j] + Queued(0, j)
    BY DEF LoadInv, WordsConserved
  <2>2. recv[0][j] \in Nat /\ Queued(0, j) \in Nat
    BY WordCounts, Types
  <2>3. QED
    BY <2>1, <2>2
<1>4. <<j, gen, N - wfed[j]>> \in Word
  BY <1>1 DEF Word, Ext, TypeOK, ClientType
<1>5. <<j, gen, N - wfed[j]>> = Nth(0, j, gen, recv[0][j] + Len(weight_ch[0][j]) + 1)
  BY <1>3, NthNew DEF Queued
<1>6. /\ Queued(0, j)' = Queued(0, j) + 1
      /\ \A n \in 1 .. Len(weight_ch'[0][j]) :
           weight_ch'[0][j][n] = Nth(0, j, gen, recv[0][j] + n)
  <2>1. /\ Len(Append(weight_ch[0][j], <<j, gen, N - wfed[j]>>)) = Len(weight_ch[0][j]) + 1
        /\ \A n \in 1 .. Len(Append(weight_ch[0][j], <<j, gen, N - wfed[j]>>)) :
             Append(weight_ch[0][j], <<j, gen, N - wfed[j]>>)[n]
               = Nth(0, j, gen, recv[0][j] + n)
    BY <1>4, <1>5, PushedWords, Types DEF LoadInv
  <2>2. QED
    BY <2>1, <1>2 DEF Queued
<1>7. RegsInOrder'
  BY <1>1 DEF LoadInv, RegsInOrder
<1>8. WordsInOrder'
  <2>1. ASSUME NEW x \in Ext, NEW y \in Idx
        PROVE  \A n \in 1 .. Len(weight_ch'[x][y]) :
                 weight_ch'[x][y][n] = Nth(x, y, gen, recv[x][y] + n)
    <3>1. CASE x = 0 /\ y = j
      BY <3>1, <1>6
    <3>2. CASE ~(x = 0 /\ y = j)
      BY <3>2, <1>2 DEF LoadInv, WordsInOrder
    <3>3. QED
      BY <3>1, <3>2
  <2>2. QED
    BY <2>1, <1>1 DEF WordsInOrder
<1>9. WordsConserved'
  <2>1. ASSUME NEW y \in Idx
        PROVE  wfed'[y] = recv[0][y] + Queued(0, y)'
    <3>1. CASE y = j
      <4>1. wfed'[y] = wfed[y] + 1 /\ Queued(0, y)' = Queued(0, y) + 1
        BY <3>1, <1>2, <1>6
      <4>2. QED
        BY <3>1, <4>1, <1>3
    <3>2. CASE y # j
      <4>1. wfed'[y] = wfed[y] /\ Queued(0, y)' = Queued(0, y)
        BY <3>2, <1>2, Types DEF Queued
      <4>2. QED
        BY <4>1 DEF LoadInv, WordsConserved
    <3>3. QED
      BY <3>1, <3>2
  <2>2. ASSUME NEW x \in Idx, NEW y \in Idx
        PROVE  recv[x][y] = recv[x+1][y] + Queued(x+1, y)' + WordInHand(x, y)'
    <3>1. x + 1 # 0 /\ x + 1 \in Ext
      BY DEF Idx, Ext
    <3>2. WordInHand(x, y)' = WordInHand(x, y) /\ Queued(x+1, y)' = Queued(x+1, y)
      BY <3>1, <1>1, <1>2 DEF WordInHand, Queued
    <3>3. QED
      BY <3>2 DEF LoadInv, WordsConserved
  <2>3. QED
    BY <2>1, <2>2, <1>1 DEF WordsConserved
<1>10. WordTurn' /\ Loaded'
  BY <1>1 DEF LoadInv, WordTurn, Loaded
<1>11. ConfigOnItsWay'
  BY <1>1, ConfigSame DEF LoadInv
<1>12. QED
  BY <1>7, <1>8, <1>9, <1>10, <1>11 DEF LoadInv
(* The next load finds in every row the row's own word of the last. *)
LEMMA NextLoadLoad ==
    ASSUME TypeOK, LoadInv, NextLoad
    PROVE  LoadInv'
<1>1. /\ UNCHANGED <<weight_ch, weight_reg, weight_out_reg, is_weight_in, pc, bias, cfg,
                     configVars>>
      /\ phase # "load" /\ phase' = "load"
      /\ gen' = gen + 1 /\ gen \in Nat /\ ~cfed'
      /\ wfed' = [j \in Idx |-> 0]
      /\ recv' = [i \in Ext |-> [j \in Idx |-> 0]]
  BY WordCounts DEF NextLoad, biasVars
<1>2. /\ \A i \in Ext, j \in Idx : weight_ch[i][j] = << >>
      /\ \A i \in Idx, j \in Idx : ~is_weight_in[i][j]
      /\ config_in = << >> /\ cfg_to = N /\ \A j \in Idx : config_ch[j] = << >>
  BY <1>1 DEF LoadInv, Loaded, Settled
<1>3. \A i \in Ext, j \in Idx : Nth(i, j, gen, recv[i][j]) = Nth(i, j, gen + 1, 0)
  <2>1. \A i \in Ext, j \in Idx : recv[i][j] = N + 1
    BY <1>1, AllReceived
  <2>2. QED
    BY <2>1, <1>1, NthOwn
<1>4. RegsInOrder'
  BY <1>1, <1>2, <1>3, Types DEF LoadInv, RegsInOrder
<1>5. WordsInOrder'
  BY <1>1, <1>2 DEF WordsInOrder
<1>6. WordsConserved'
  <2>1. \A i \in Ext, j \in Idx : recv'[i][j] = 0 /\ Queued(i, j)' = 0
    BY <1>1, <1>2 DEF Queued
  <2>2. \A i \in Idx, j \in Idx : WordInHand(i, j)' = 0
    BY <1>1, <1>2 DEF WordInHand
  <2>3. QED
    BY <2>1, <2>2, <1>1, Types DEF WordsConserved
<1>7. WordTurn' /\ Loaded'
  BY <1>1 DEF LoadInv, WordTurn, Loaded
<1>8. ConfigOnItsWay'
  BY <1>1, <1>2 DEF ConfigOnItsWay, configVars
<1>9. QED
  BY <1>4, <1>5, <1>6, <1>7, <1>8 DEF LoadInv

-----------------------------------------------------------------------------
(* The steps that move a configuration *)

LEMMA ConfigStepLoad ==
    ASSUME TypeOK, LoadInv, NEW j \in Idx,
           ConfigWrite \/ ConfigPop \/ ConfigPush \/ BiasConfig(j)
    PROVE  LoadInv'
<1>1. /\ UNCHANGED <<weightVars, bias, gen, wfed, pc, phase>>
  <2> USE DEF peVars, biasVars, clientVars
  <2>1. CASE ConfigWrite
    BY <2>1 DEF ConfigWrite
  <2>2. CASE ConfigPop
    BY <2>2 DEF ConfigPop
  <2>3. CASE ConfigPush
    BY <2>3 DEF ConfigPush
  <2>4. CASE BiasConfig(j)
    BY <2>4 DEF BiasConfig
  <2>5. QED
    BY <2>1, <2>2, <2>3, <2>4
<1>2. RegsInOrder' /\ WordsInOrder' /\ WordsConserved'
  BY <1>1, WordsSame DEF LoadInv
<1>3. WordTurn'
  BY <1>1 DEF LoadInv, WordTurn, weightVars
<1>4. phase = "load"
  <2>1. CASE ConfigWrite
    BY <2>1 DEF ConfigWrite
  <2>2. CASE ConfigPop
    BY <2>2, PopNBSound DEF ConfigPop, LoadInv, Loaded, Settled
  <2>3. CASE ConfigPush
    BY <2>3, Types DEF ConfigPush, LoadInv, Loaded, Settled
  <2>4. CASE BiasConfig(j)
    BY <2>4, PopNBSound DEF BiasConfig, LoadInv, Loaded, Settled
  <2>5. QED
    BY <2>1, <2>2, <2>3, <2>4
<1>5. ConfigOnItsWay'
  <2>0. gen \in Nat
    BY WordCounts
  <2>1. CASE ConfigWrite
    <3>1. Append(<< >>, gen) = <<gen>>
      BY <2>0
    <3>2. QED
      BY <2>1, <3>1 DEF ConfigWrite, LoadInv, ConfigOnItsWay, biasVars
  <2>2. CASE ConfigPop
    <3>1. cfed /\ config_in = <<gen>> /\ \A y \in Idx : config_ch[y] = << >>
      BY <2>2, PopNBSound DEF ConfigPop, LoadInv, ConfigOnItsWay
    <3>2. /\ config_in' = << >> /\ cfg_reg' = gen /\ cfg_to' = 0
          /\ UNCHANGED <<config_ch, cfed, gen, cfg>>
      BY <2>2, <3>1 DEF ConfigPop, biasVars, clientVars
    <3>3. \A y \in Idx : ~(y < 0)
      BY DEF Idx
    <3>4. QED
      BY <3>1, <3>2, <3>3 DEF ConfigOnItsWay
  <2>3. CASE ConfigPush
    <3>1. cfg_to \in Idx /\ cfg_to # N
      BY <2>3, Types DEF ConfigPush
    <3>2. /\ cfed /\ config_in = << >> /\ cfg_reg = gen
          /\ \A y \in Idx :
               \/ config_ch[y] = << >> /\ (y < cfg_to => cfg[y] = gen)
               \/ config_ch[y] = <<gen>> /\ y < cfg_to
      BY <3>1 DEF LoadInv, ConfigOnItsWay
    <3>3. config_ch[cfg_to] = << >>
      BY <3>1, <3>2 DEF Idx
    <3>4. Append(config_ch[cfg_to], cfg_reg) = <<gen>>
      BY <3>2, <3>3, <2>0
    <3>5. /\ UNCHANGED <<config_in, cfg_reg, cfg, gen, cfed>>
          /\ cfg_to' = cfg_to + 1
          /\ config_ch'[cfg_to] = <<gen>>
          /\ \A y \in Idx : y # cfg_to => config_ch'[y] = config_ch[y]
      BY <2>3, <3>1, <3>4 DEF ConfigPush, biasVars, clientVars, TypeOK, ConfigType
    <3>6. \A y \in Idx : y # cfg_to => (y < cfg_to + 1 <=> y < cfg_to)
      BY <3>1 DEF Idx
    <3>7. cfg_to < cfg_to + 1
      BY <3>1 DEF Idx
    <3>8. QED
      BY <3>1, <3>2, <3>5, <3>6, <3>7 DEF ConfigOnItsWay
  <2>4. CASE BiasConfig(j)
    <3>1. config_ch[j] # << >>
      BY <2>4, PopNBSound DEF BiasConfig
    <3>2. /\ cfed /\ config_in = << >> /\ cfg_reg = gen
          /\ \A y \in Idx :
               \/ config_ch[y] = << >> /\ (y < cfg_to => cfg[y] = gen)
               \/ config_ch[y] = <<gen>> /\ y < cfg_to
      BY <3>1 DEF LoadInv, ConfigOnItsWay
    <3>3. config_ch[j] = <<gen>> /\ Tail(<<gen>>) = << >> /\ Head(<<gen>>) = gen
      BY <3>1, <3>2, <2>0
    <3>4. /\ UNCHANGED <<config_in, cfg_reg, cfg_to, gen, cfed>>
          /\ config_ch'[j] = << >> /\ cfg'[j] = gen
          /\ \A y \in Idx : y # j => config_ch'[y] = config_ch[y] /\ cfg'[y] = cfg[y]
      BY <2>4, <3>3 DEF BiasConfig, clientVars, TypeOK, ConfigType, BiasType
    <3>5. QED
      BY <3>2, <3>4 DEF ConfigOnItsWay
  <2>5. QED
    BY <2>1, <2>2, <2>3, <2>4
<1>6. QED
  BY <1>1, <1>2, <1>3, <1>4, <1>5 DEF LoadInv, Loaded

-----------------------------------------------------------------------------
LEMMA NextLoadInv ==
    ASSUME TypeOK, LoadInv, [Next]_vars
    PROVE  LoadInv'
<1>1. ASSUME NEW i \in Idx, NEW j \in Idx, PERun(i, j) PROVE LoadInv'
  <2>1. CASE Poll(i, j)
    BY <2>1, PollLoad
  <2>2. CASE PushAct(i, j) \/ PushAccum(i, j)
    BY <2>2, OtherStep
  <2>3. CASE PushWeight(i, j)
    BY <2>3, PushWeightLoad
  <2>4. QED
    BY <1>1, <2>1, <2>2, <2>3 DEF PERun
<1>2. ASSUME NEW j \in Idx, SysBiasRun(j) PROVE LoadInv'
  BY <1>2, ConfigStepLoad, BiasWeightLoad, OtherStep DEF SysBiasRun
<1>3. CASE SysConfigRun \/ ConfigWrite
  BY <1>3, ConfigStepLoad, Types DEF SysConfigRun
<1>4. CASE ActOutRun \/ AccumInRun \/ CollectOut \/ UNCHANGED vars
  BY <1>4, OtherStep, Types
<1>5. CASE WeightAxi
  BY <1>5, WeightPushLoad DEF WeightAxi
<1>6. CASE ReadRspRun
  BY <1>6, OtherStep DEF ReadRspRun
<1>7. CASE StartRun
  BY <1>7, StartRunLoad
<1>8. CASE NextLoad
  BY <1>8, NextLoadLoad
<1>9. CASE Stop
  BY <1>9, <1>4 DEF Stop
<1>10. QED
  BY <1>1, <1>2, <1>3, <1>4, <1>5, <1>6, <1>7, <1>8, <1>9 DEF Next, Host

(* Words and configurations travel in order and none is lost. *)
THEOREM LoadKept == Spec => []LoadInv
<1>1. QED
  BY InitLoad, NextLoadInv, TypeCorrect, PTL DEF Spec

LEMMA LoadedRight ==
    ASSUME TypeOK, LoadInv
    PROVE  WeightStationary
<1> SUFFICES ASSUME phase \in {"run", "irq"}
             PROVE  /\ Settled
                    /\ \A i \in Idx, j \in Idx : weight_reg[i][j] = <<j, gen, i>>
                    /\ \A j \in Idx : bias[j] = <<j, gen, N>> /\ cfg[j] = gen
  BY DEF WeightStationary
<1>1. Settled /\ cfed
  BY DEF LoadInv, Loaded
<1>2. \A i \in Ext, j \in Idx : Nth(i, j, gen, recv[i][j]) = <<j, gen, i>>
  <2>1. \A i \in Ext, j \in Idx : recv[i][j] = N + 1
    BY AllReceived
  <2>2. QED
    BY <2>1, NthOwn, WordCounts
<1>3. /\ \A i \in Idx, j \in Idx : weight_reg[i][j] = <<j, gen, i>>
      /\ \A j \in Idx : bias[j] = <<j, gen, N>>
  BY <1>2, Types DEF LoadInv, RegsInOrder
<1>4. \A j \in Idx : cfg[j] = gen
  <2>1. config_in = << >> /\ cfg_to = N /\ \A j \in Idx : config_ch[j] = << >>
    BY <1>1 DEF Settled
  <2>2. \A j \in Idx : j < N
    BY DEF Idx
  <2>3. QED
    BY <1>1, <2>1, <2>2, SMTT(60) DEF LoadInv, ConfigOnItsWay
<1>5. QED
  BY <1>1, <1>3, <1>4

(* The weights are stationary: from the start of a run to its interrupt     *)
(* every PE holds the word of its own row and column of this load, and      *)
(* every SysBias this run's bias and configuration, with and without        *)
(* stalls, whatever the capacity of the channels and the size of the array. *)
THEOREM StationaryWeights == Spec => []WeightStationary
<1>1. QED
  BY LoadKept, TypeCorrect, LoadedRight, PTL
=============================================================================
