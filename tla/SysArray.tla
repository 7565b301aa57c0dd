------------------------------ MODULE SysArray ------------------------------
(***************************************************************************)
(* The weight-stationary systolic array: N x N processing elements (SysPE), *)
(* one SysBias per column and the three threads of SysArray, joined by     *)
(* Connections channels.  Around it, the channel side of its clients:      *)
(* WeightAxi pushes the weights, Control the configuration, InputSetup the *)
(* activations, and InputSetup collects the outputs into the result memory. *)
(*                                                                         *)
(* Threads interleave freely.  A thread's loop iteration is one action up  *)
(* to the first blocking Push; each blocking Push is an action of its own. *)
(*                                                                         *)
(* Data are abstracted to where they come from: a weight word is <<column, *)
(* load, row>> (row N is the bias row), an activation <<run, row, index>>, *)
(* a partial sum the set of its products, a configuration its run number.  *)
(***************************************************************************)
EXTENDS Integers, Sequences, Connections

CONSTANTS
    N,      \* the array is N x N
    M,      \* activation vectors per run (the register holds M_1 = M - 1)
    Gens    \* bound: weight loads, each followed by one run

ASSUME NAssumption == N \in Nat \ {0}
ASSUME MAssumption == M \in Nat \ {0}
ASSUME GensAssumption == Gens \in Nat \ {0}

Idx == 0 .. N-1     \* rows and columns of SysPE
Ext == 0 .. N       \* rows of channels, the last one ends in SysBias

VARIABLES
    (* channels of SysArray: [i][j] is the one PE i,j pops *)
    weight_ch, act_ch, accum_ch, act_out, config_in, config_ch,
    (* SysPE i,j *)
    pc, weight_reg, weight_out_reg, act_reg, accum_reg, accum_out_reg,
    is_weight_in, is_act_in, is_accum_in,
    (* SysBias j *)
    bpc, bias, cfg, out_reg,
    (* SysConfigRun: the word in hand and the next column it goes to *)
    cfg_reg, cfg_to,
    (* clients: phase of the run, words and vectors pushed, outputs taken *)
    phase, gen, wfed, cfed, fed, ctr, result,
    (* history: words received and products made by each row since the load *)
    (* and the run began *)
    recv, fired

weightVars == <<weight_ch, weight_reg, weight_out_reg, is_weight_in, recv>>
sumVars == <<accum_ch, accum_reg, accum_out_reg, is_accum_in>>
actVars == <<act_ch, act_reg, is_act_in>>
peVars == <<weightVars, sumVars, actVars, pc, fired>>
biasVars == <<bpc, bias, cfg, out_reg, act_out>>
configVars == <<config_in, config_ch, cfg_reg, cfg_to>>
clientVars == <<phase, gen, wfed, cfed, fed, ctr, result>>
vars == <<peVars, biasVars, configVars, clientVars>>

-----------------------------------------------------------------------------
(* Data *)

Word == Idx \X Nat \X Ext
Act == Nat \X Idx \X Nat
Sum == SUBSET (Act \X Word)
Output == [cfg : Nat, bias : Word, sum : Sum]
Product(a, w) == {<<a, w>>}

(* What a run must compute. *)
Promise == INSTANCE MatMul
           WITH N <- N, M <- M, Gens <- Gens, phase <- phase, gen <- gen, result <- result

-----------------------------------------------------------------------------
Init ==
    /\ weight_ch = [i \in Ext |-> [j \in Idx |-> << >>]]
    /\ act_ch = [i \in Idx |-> [j \in Ext |-> << >>]]
    /\ accum_ch = [i \in Ext |-> [j \in Idx |-> << >>]]
    /\ act_out = [j \in Idx |-> << >>]
    /\ config_in = << >>
    /\ config_ch = [j \in Idx |-> << >>]
    /\ pc = [i \in Idx |-> [j \in Idx |-> "poll"]]
    /\ weight_reg = [i \in Idx |-> [j \in Idx |-> <<j, 0, i>>]]
    /\ weight_out_reg = [i \in Idx |-> [j \in Idx |-> <<j, 0, i>>]]
    /\ act_reg = [i \in Idx |-> [j \in Idx |-> <<0, 0, 0>>]]
    /\ accum_reg = [i \in Idx |-> [j \in Idx |-> {}]]
    /\ accum_out_reg = [i \in Idx |-> [j \in Idx |-> {}]]
    /\ is_weight_in = [i \in Idx |-> [j \in Idx |-> FALSE]]
    /\ is_act_in = [i \in Idx |-> [j \in Idx |-> FALSE]]
    /\ is_accum_in = [i \in Idx |-> [j \in Idx |-> FALSE]]
    /\ bpc = [j \in Idx |-> "poll"]
    /\ bias = [j \in Idx |-> <<j, 0, N>>]
    /\ cfg = [j \in Idx |-> 0]
    /\ out_reg = [j \in Idx |-> Promise!Unwritten]
    /\ cfg_reg = 0
    /\ cfg_to = N
    /\ phase = "load"
    /\ gen = 1
    /\ wfed = [j \in Idx |-> 0]
    /\ cfed = FALSE
    /\ fed = [i \in Idx |-> 0]
    /\ ctr = [j \in Idx |-> 0]
    /\ result = [m \in 0 .. M-1 |-> [j \in Idx |-> Promise!Unwritten]]
    /\ recv = [i \in Ext |-> [j \in Idx |-> 0]]
    /\ fired = [i \in Idx |-> [j \in Idx |-> 0]]

-----------------------------------------------------------------------------
(* SysPE: PERun *)

(* Faulty variants: a PE that hands on the new word, or does not wait for   *)
(* its partial sum.                                                         *)
ShiftedThrough(held, new) == new
FiresEarly(is_act, is_accum) == is_act

(* The word a PE hands on when a new one arrives: the one it held. *)
ShiftedOut(held, new) == held

Fires(is_act, is_accum) == is_act /\ is_accum

(* The head of an iteration, up to its first blocking Push: the three      *)
(* PopNBs and the multiply-accumulate.  An iteration that pops nothing     *)
(* changes nothing and is not a step.                                      *)
Poll(i, j) ==
    /\ pc[i][j] = "poll"
    /\ \E w \in PopNB(weight_ch[i][j]),
          a \in IF is_act_in[i][j] THEN {FALSE} ELSE PopNB(act_ch[i][j]),
          s \in IF is_accum_in[i][j] THEN {FALSE} ELSE PopNB(accum_ch[i][j]) :
        LET fires == Fires(is_act_in[i][j] \/ a, is_accum_in[i][j] \/ s)
        IN
        /\ w \/ a \/ s
        /\ weight_ch' = [weight_ch EXCEPT ![i][j] = After(w, @)]
        /\ act_ch' = [act_ch EXCEPT ![i][j] = After(a, @)]
        /\ accum_ch' = [accum_ch EXCEPT ![i][j] = After(s, @)]
        /\ weight_reg' = [weight_reg EXCEPT ![i][j] = Got(w, weight_ch[i][j], @)]
        /\ weight_out_reg' =
             [weight_out_reg EXCEPT ![i][j] =
                IF w THEN ShiftedOut(weight_reg[i][j], Head(weight_ch[i][j])) ELSE @]
        /\ act_reg' = [act_reg EXCEPT ![i][j] = Got(a, act_ch[i][j], @)]
        /\ accum_reg' = [accum_reg EXCEPT ![i][j] = Got(s, accum_ch[i][j], @)]
        /\ is_weight_in' = [is_weight_in EXCEPT ![i][j] = @ \/ w]
        /\ is_act_in' = [is_act_in EXCEPT ![i][j] = (@ \/ a) /\ ~fires]
        /\ is_accum_in' = [is_accum_in EXCEPT ![i][j] = (@ \/ s) /\ ~fires]
        /\ accum_out_reg' =
             [accum_out_reg EXCEPT ![i][j] =
                IF fires THEN accum_reg'[i][j] \cup Product(act_reg'[i][j], weight_reg'[i][j])
                         ELSE @]
        /\ pc' = [pc EXCEPT ![i][j] =
                    IF fires THEN "act" ELSE IF w THEN "weight" ELSE @]
        /\ recv' = [recv EXCEPT ![i][j] = IF w THEN @ + 1 ELSE @]
        /\ fired' = [fired EXCEPT ![i][j] = IF fires THEN @ + 1 ELSE @]
    /\ UNCHANGED <<biasVars, configVars, clientVars>>

PushAct(i, j) ==
    /\ pc[i][j] = "act"
    /\ HasRoom(act_ch[i][j+1])
    /\ act_ch' = [act_ch EXCEPT ![i][j+1] = Append(@, act_reg[i][j])]
    /\ pc' = [pc EXCEPT ![i][j] = "accum"]
    /\ UNCHANGED <<act_reg, is_act_in, weightVars, sumVars, fired,
                   biasVars, configVars, clientVars>>

PushAccum(i, j) ==
    /\ pc[i][j] = "accum"
    /\ HasRoom(accum_ch[i+1][j])
    /\ accum_ch' = [accum_ch EXCEPT ![i+1][j] = Append(@, accum_out_reg[i][j])]
    /\ pc' = [pc EXCEPT ![i][j] = IF is_weight_in[i][j] THEN "weight" ELSE "poll"]
    /\ UNCHANGED <<accum_reg, accum_out_reg, is_accum_in, weightVars, actVars, fired,
                   biasVars, configVars, clientVars>>

PushWeight(i, j) ==
    /\ pc[i][j] = "weight"
    /\ HasRoom(weight_ch[i+1][j])
    /\ weight_ch' = [weight_ch EXCEPT ![i+1][j] = Append(@, weight_out_reg[i][j])]
    /\ is_weight_in' = [is_weight_in EXCEPT ![i][j] = FALSE]
    /\ pc' = [pc EXCEPT ![i][j] = "poll"]
    /\ UNCHANGED <<weight_reg, weight_out_reg, recv, sumVars, actVars, fired,
                   biasVars, configVars, clientVars>>

PERun(i, j) == Poll(i, j) \/ PushAct(i, j) \/ PushAccum(i, j) \/ PushWeight(i, j)

-----------------------------------------------------------------------------
(* SysBias: SysBiasRun.  One message per iteration, the configuration first, *)
(* then a finished sum, then a weight word.                                  *)

BiasConfig(j) ==
    /\ bpc[j] = "poll"
    /\ TRUE \in PopNB(config_ch[j])
    /\ config_ch' = [config_ch EXCEPT ![j] = Tail(@)]
    /\ cfg' = [cfg EXCEPT ![j] = Head(config_ch[j])]
    /\ UNCHANGED <<peVars, bpc, bias, out_reg, act_out, config_in, cfg_reg, cfg_to,
                   clientVars>>

BiasAccum(j) ==
    /\ bpc[j] = "poll"
    /\ FALSE \in PopNB(config_ch[j])
    /\ TRUE \in PopNB(accum_ch[N][j])
    /\ accum_ch' = [accum_ch EXCEPT ![N][j] = Tail(@)]
    /\ out_reg' = [out_reg EXCEPT ![j] =
                     [cfg |-> cfg[j], bias |-> bias[j], sum |-> Head(accum_ch[N][j])]]
    /\ bpc' = [bpc EXCEPT ![j] = "push"]
    /\ UNCHANGED <<weightVars, actVars, accum_reg, accum_out_reg, is_accum_in, pc, fired,
                   bias, cfg, act_out, configVars, clientVars>>

BiasWeight(j) ==
    /\ bpc[j] = "poll"
    /\ FALSE \in PopNB(config_ch[j])
    /\ FALSE \in PopNB(accum_ch[N][j])
    /\ TRUE \in PopNB(weight_ch[N][j])
    /\ weight_ch' = [weight_ch EXCEPT ![N][j] = Tail(@)]
    /\ bias' = [bias EXCEPT ![j] = Head(weight_ch[N][j])]
    /\ recv' = [recv EXCEPT ![N][j] = @ + 1]
    /\ UNCHANGED <<weight_reg, weight_out_reg, is_weight_in, sumVars, actVars, pc, fired,
                   bpc, cfg, out_reg, act_out, configVars, clientVars>>

(* Outputs column j has pushed in this run, taken or not. *)
Emitted(j) == ctr[j] + Len(act_out[j])

(* The skew of the wavefront.  Every hop takes one cycle and rows are fed  *)
(* one cycle apart, so without random stalls column j finishes a vector    *)
(* one cycle after column j-1.                                             *)
InWavefront(j) == RandStall \/ \A k \in Idx : k + 1 = j => Emitted(j) < Emitted(k)

BiasPush(j) ==
    /\ bpc[j] = "push"
    /\ HasRoom(act_out[j])
    /\ InWavefront(j)
    /\ act_out' = [act_out EXCEPT ![j] = Append(@, out_reg[j])]
    /\ bpc' = [bpc EXCEPT ![j] = "poll"]
    /\ UNCHANGED <<peVars, bias, cfg, out_reg, configVars, clientVars>>

SysBiasRun(j) == BiasConfig(j) \/ BiasAccum(j) \/ BiasWeight(j) \/ BiasPush(j)

-----------------------------------------------------------------------------
(* SysArray: SysConfigRun, ActOutRun, AccumInRun *)

ConfigPop ==
    /\ cfg_to = N
    /\ TRUE \in PopNB(config_in)
    /\ config_in' = Tail(config_in)
    /\ cfg_reg' = Head(config_in)
    /\ cfg_to' = 0
    /\ UNCHANGED <<config_ch, peVars, biasVars, clientVars>>

ConfigPush ==
    /\ cfg_to \in Idx
    /\ HasRoom(config_ch[cfg_to])
    /\ config_ch' = [config_ch EXCEPT ![cfg_to] = Append(@, cfg_reg)]
    /\ cfg_to' = cfg_to + 1
    /\ UNCHANGED <<config_in, cfg_reg, peVars, biasVars, clientVars>>

SysConfigRun == ConfigPop \/ ConfigPush

(* Drains the activations that leave the last column. *)
ActOutRun ==
    \E S \in (SUBSET Idx) \ {{}} :
        /\ \A i \in Idx : (i \in S) \in PopNB(act_ch[i][N])
        /\ act_ch' = [i \in Idx |-> [act_ch[i] EXCEPT ![N] = After(i \in S, @)]]
        /\ UNCHANGED <<act_reg, is_act_in, weightVars, sumVars, pc, fired,
                       biasVars, configVars, clientVars>>

(* Offers a zero to every column of row 0; a PushNB that finds no room is lost. *)
AccumInRun ==
    /\ \E j \in Idx : HasRoom(accum_ch[0][j])
    /\ accum_ch' = [accum_ch EXCEPT ![0] =
                     [j \in Idx |-> IF HasRoom(@[j]) THEN Append(@[j], {}) ELSE @[j]]]
    /\ UNCHANGED <<accum_reg, accum_out_reg, is_accum_in, weightVars, actVars, pc, fired,
                   biasVars, configVars, clientVars>>

-----------------------------------------------------------------------------
(* The clients *)

(* WeightAxi pushes N+1 words into each column, all columns of a row before *)
(* the next row: the bias row first, then the weights of rows N-1 to 0.     *)
WeightPush(j) ==
    /\ phase = "load"
    /\ wfed[j] <= N
    /\ \A k \in Idx : IF k < j THEN wfed[k] = wfed[j] + 1 ELSE wfed[k] = wfed[j]
    /\ HasRoom(weight_ch[0][j])
    /\ weight_ch' = [weight_ch EXCEPT ![0][j] = Append(@, <<j, gen, N - wfed[j]>>)]
    /\ wfed' = [wfed EXCEPT ![j] = @ + 1]
    /\ UNCHANGED <<weight_reg, weight_out_reg, is_weight_in, recv, sumVars, actVars,
                   pc, fired, biasVars, configVars, phase, gen, cfed, fed, ctr, result>>

(* Control forwards the host's write of the configuration register. *)
ConfigWrite ==
    /\ phase = "load"
    /\ ~cfed
    /\ HasRoom(config_in)
    /\ config_in' = Append(config_in, gen)
    /\ cfed' = TRUE
    /\ UNCHANGED <<config_ch, cfg_reg, cfg_to, peVars, biasVars,
                   phase, gen, wfed, fed, ctr, result>>

(* Everything loaded has come to rest. *)
Settled ==
    /\ \A i \in Ext, j \in Idx : weight_ch[i][j] = << >>
    /\ \A i \in Idx, j \in Idx : ~is_weight_in[i][j]
    /\ config_in = << >> /\ cfg_to = N
    /\ \A j \in Idx : config_ch[j] = << >>

(* The host starts the computation, and WriteReqRun clears its counters.   *)
(* That the load has settled by then is an assumption about time: the host *)
(* learns of the load from an interrupt and answers over AXI.              *)
StartRun ==
    /\ phase = "load"
    /\ cfed
    /\ \A j \in Idx : wfed[j] = N + 1
    /\ Settled
    /\ phase' = "run"
    /\ fed' = [i \in Idx |-> 0]
    /\ ctr' = [j \in Idx |-> 0]
    /\ fired' = [i \in Idx |-> [j \in Idx |-> 0]]
    /\ UNCHANGED <<weightVars, sumVars, actVars, pc, biasVars, configVars,
                   gen, wfed, cfed, result>>

(* ReadRspRun pushes the beats in order, a beat's valid rows in row order;  *)
(* row i takes part in beats i to i + M-1.                                  *)
ActPush(i) ==
    /\ phase = "run"
    /\ fed[i] < M
    /\ \A k \in Idx : fed[k] < M =>
         \/ fed[i] + i < fed[k] + k
         \/ fed[i] + i = fed[k] + k /\ i <= k
    /\ HasRoom(act_ch[i][0])
    /\ act_ch' = [act_ch EXCEPT ![i][0] = Append(@, <<gen, i, fed[i]>>)]
    /\ fed' = [fed EXCEPT ![i] = @ + 1]
    /\ UNCHANGED <<act_reg, is_act_in, weightVars, sumVars, pc, fired, biasVars,
                   configVars, phase, gen, wfed, cfed, ctr, result>>

(* Faulty variants: the wrong column, one vector too many. *)
RunDoneFirst(c) == c[0] = M
RunDoneLong(c) == c[N-1] = M + 1

(* WriteReqRun takes the run to be over when the last column is. *)
RunDone(c) == c[N-1] = M

(* One iteration of WriteReqRun: a value from every column that has one goes *)
(* to word ctr[j] of column j, then the test for the end of the run.  The   *)
(* assertion NVHLS_ASSERT(ctr[0]-1 == M_1) stops the program if it fails.    *)
CollectOut ==
    /\ phase = "run"
    /\ \E S \in (SUBSET Idx) \ {{}} :
         /\ \A j \in Idx : (j \in S) \in PopNB(act_out[j])
         /\ act_out' = [j \in Idx |-> After(j \in S, act_out[j])]
         /\ ctr' = [j \in Idx |-> IF j \in S THEN ctr[j] + 1 ELSE ctr[j]]
         /\ result' = [m \in 0 .. M-1 |-> [j \in Idx |->
                         IF j \in S /\ m = ctr[j] THEN Head(act_out[j]) ELSE result[m][j]]]
         /\ phase' = IF RunDone(ctr')
                     THEN IF ctr'[0] = M THEN "irq" ELSE "abort"
                     ELSE "run"
    /\ UNCHANGED <<peVars, bpc, bias, cfg, out_reg, configVars, gen, wfed, cfed, fed>>

(* The computation interrupt reaches the host, which loads the next weights. *)
NextLoad ==
    /\ phase = "irq"
    /\ gen < Gens
    /\ phase' = "load"
    /\ gen' = gen + 1
    /\ wfed' = [j \in Idx |-> 0]
    /\ cfed' = FALSE
    /\ recv' = [i \in Ext |-> [j \in Idx |-> 0]]
    /\ UNCHANGED <<weight_ch, weight_reg, weight_out_reg, is_weight_in, sumVars, actVars,
                   pc, fired, biasVars, configVars, fed, ctr, result>>

(* The host has no more work, or the assertion has stopped the program. *)
Stop ==
    /\ phase = "abort" \/ (phase = "irq" /\ gen = Gens)
    /\ UNCHANGED vars

-----------------------------------------------------------------------------
WeightAxi == \E j \in Idx : WeightPush(j)
ReadRspRun == \E i \in Idx : ActPush(i)
Host == ConfigWrite \/ StartRun \/ NextLoad

Next ==
    \/ \E i \in Idx, j \in Idx : PERun(i, j)
    \/ \E j \in Idx : SysBiasRun(j)
    \/ SysConfigRun \/ ActOutRun \/ AccumInRun
    \/ WeightAxi \/ ReadRspRun \/ CollectOut
    \/ Host
    \/ Stop

Spec == Init /\ [][Next]_vars

-----------------------------------------------------------------------------
(* Properties *)

Chan(T) == {s \in Seq(T) : Len(s) <= Cap}

WeightType ==
    /\ weight_ch \in [Ext -> [Idx -> Chan(Word)]]
    /\ weight_reg \in [Idx -> [Idx -> Word]]
    /\ weight_out_reg \in [Idx -> [Idx -> Word]]
    /\ is_weight_in \in [Idx -> [Idx -> BOOLEAN]]
    /\ recv \in [Ext -> [Idx -> Nat]]

SumType ==
    /\ accum_ch \in [Ext -> [Idx -> Chan(Sum)]]
    /\ accum_reg \in [Idx -> [Idx -> Sum]]
    /\ accum_out_reg \in [Idx -> [Idx -> Sum]]
    /\ is_accum_in \in [Idx -> [Idx -> BOOLEAN]]

ActType ==
    /\ act_ch \in [Idx -> [Ext -> Chan(Act)]]
    /\ act_reg \in [Idx -> [Idx -> Act]]
    /\ is_act_in \in [Idx -> [Idx -> BOOLEAN]]

PhaseType ==
    /\ pc \in [Idx -> [Idx -> {"poll", "act", "accum", "weight"}]]
    /\ fired \in [Idx -> [Idx -> Nat]]

BiasType ==
    /\ bpc \in [Idx -> {"poll", "push"}]
    /\ bias \in [Idx -> Word]
    /\ cfg \in [Idx -> Nat]
    /\ out_reg \in [Idx -> Output]
    /\ act_out \in [Idx -> Chan(Output)]

ConfigType ==
    /\ config_in \in Chan(Nat)
    /\ config_ch \in [Idx -> Chan(Nat)]
    /\ cfg_reg \in Nat
    /\ cfg_to \in Ext

ClientType ==
    /\ phase \in {"load", "run", "irq", "abort"}
    /\ gen \in 1 .. Gens
    /\ wfed \in [Idx -> 0 .. N+1]
    /\ cfed \in BOOLEAN
    /\ fed \in [Idx -> 0 .. M]
    /\ ctr \in [Idx -> Nat]
    /\ result \in [0 .. M-1 -> [Idx -> Output]]

(* Every variable has its type, no channel overflows, and no client pushes  *)
(* more than its share.                                                     *)
TypeOK ==
    /\ WeightType /\ SumType /\ ActType /\ PhaseType
    /\ BiasType /\ ConfigType /\ ClientType

(* Conservation.  fired counts the products each PE has made in the run;   *)
(* what one thread has made and the next has not used is waiting between   *)
(* them: in the channel, in a register, or in the hand of a blocked Push.  *)
Waiting(ch, held) == IF held THEN Len(ch) + 1 ELSE Len(ch)
ActWaiting(i, j) == Waiting(act_ch[i][j], is_act_in[i][j])
SumWaiting(i, j) == Waiting(accum_ch[i][j], is_accum_in[i][j])
OutWaiting(j) == Waiting(accum_ch[N][j], bpc[j] = "push")
ActInHand(i, j) == IF pc[i][j] = "act" THEN 1 ELSE 0
SumInHand(i, j) == IF pc[i][j] \in {"act", "accum"} THEN 1 ELSE 0

(* No activation is lost, duplicated or used out of turn on its way along a *)
(* row: what entered a PE and was not used is waiting there.                *)
ActConserved ==
    \A i \in Idx :
        /\ fed[i] = fired[i][0] + ActWaiting(i, 0)
        /\ \A j \in Idx \ {0} :
             fired[i][j-1] = fired[i][j] + ActWaiting(i, j) + ActInHand(i, j-1)

(* The same for the partial sums on their way down a column, and for the    *)
(* outputs.                                                                 *)
SumConserved ==
    \A j \in Idx :
        /\ \A i \in Idx \ {0} :
             fired[i-1][j] = fired[i][j] + SumWaiting(i, j) + SumInHand(i-1, j)
        /\ fired[N-1][j] = Emitted(j) + OutWaiting(j) + SumInHand(N-1, j)

(* No PE is ahead of one to its left or above it, no column of outputs ahead *)
(* of its PEs or of a column to its left.                                   *)
InOrder ==
    /\ \A i \in Idx, j \in Idx : fired[i][j] <= fed[i] /\ Emitted(j) <= fired[i][j]
    /\ \A i \in Idx, j \in Idx, k \in Idx : j <= k =>
         fired[i][k] <= fired[i][j] /\ fired[k][i] <= fired[j][i]
    /\ \A j \in Idx, k \in Idx : j <= k => Emitted(k) <= Emitted(j) /\ ctr[k] <= ctr[j]

(* Between runs nothing of the last run is left in the array. *)
Drained ==
    phase \in {"load", "irq"} =>
        \A i \in Idx, j \in Idx, k \in Idx : fired[i][j] = fed[k] /\ ctr[j] = fed[k]

(* A run goes through the array whole and in order: the inductive invariant *)
(* behind AssertHolds and AllColumnsAtDone.                                 *)
WholeRun ==
    /\ ActConserved /\ SumConserved /\ InOrder /\ Drained
    /\ phase # "abort"
    /\ phase = "irq" => \A j \in Idx : ctr[j] = M

(* The result memory is exact so far: in a run, every word WriteReqRun has  *)
(* stored is the output of its own column and its own vector, made with the *)
(* weights, the bias and the configuration of this run, however the         *)
(* activations, the partial sums and the outputs were delayed on the way.   *)
ResultCorrect ==
    phase \in {"run", "irq"} =>
        \A j \in Idx, m \in 0 .. M-1 : m < ctr[j] => result[m][j] = Promise!Expected(gen, j, m)

(* The assertion in WriteReqRun holds: when the last column is complete, so *)
(* is column 0.                                                             *)
AssertHolds == phase # "abort"

(* The computation interrupt is not early: when it is raised every column   *)
(* has delivered all its M outputs.                                         *)
AllColumnsAtDone == phase = "irq" => \A j \in Idx : ctr[j] = M

(* The weights are stationary: from the start of a run to its interrupt, no *)
(* PE holds, has on the way or receives any word but its own.               *)
WeightStationary ==
    phase \in {"run", "irq"} =>
        /\ Settled
        /\ \A i \in Idx, j \in Idx : weight_reg[i][j] = <<j, gen, i>>
        /\ \A j \in Idx : bias[j] = <<j, gen, N>> /\ cfg[j] = gen

(* What the next action of each thread waits for. *)
PECanMove(i, j) ==
    \/ /\ pc[i][j] = "poll"
       /\ \/ HasMsg(weight_ch[i][j])
          \/ ~is_act_in[i][j] /\ HasMsg(act_ch[i][j])
          \/ ~is_accum_in[i][j] /\ HasMsg(accum_ch[i][j])
    \/ pc[i][j] = "act" /\ HasRoom(act_ch[i][j+1])
    \/ pc[i][j] = "accum" /\ HasRoom(accum_ch[i+1][j])
    \/ pc[i][j] = "weight" /\ HasRoom(weight_ch[i+1][j])
BiasCanMove(j) ==
    \/ /\ bpc[j] = "poll"
       /\ HasMsg(config_ch[j]) \/ HasMsg(accum_ch[N][j]) \/ HasMsg(weight_ch[N][j])
    \/ bpc[j] = "push" /\ HasRoom(act_out[j]) /\ InWavefront(j)
ArrayCanMove ==
    \/ cfg_to = N /\ HasMsg(config_in)
    \/ cfg_to \in Idx /\ HasRoom(config_ch[cfg_to])
    \/ \E i \in Idx : HasMsg(act_ch[i][N])
    \/ \E j \in Idx : HasRoom(accum_ch[0][j])

(* The turns of WeightAxi and ReadRspRun. *)
WeightTurn(j) ==
    wfed[j] <= N /\ \A k \in Idx : wfed[k] = IF k < j THEN wfed[j] + 1 ELSE wfed[j]
ActTurn(i) ==
    /\ fed[i] < M
    /\ \A k \in Idx : fed[k] < M =>
         \/ fed[i] + i < fed[k] + k
         \/ fed[i] + i = fed[k] + k /\ i <= k
ClientCanMove ==
    \/ phase = "load" /\ \/ \E j \in Idx : WeightTurn(j) /\ HasRoom(weight_ch[0][j])
                         \/ ~cfed /\ HasRoom(config_in)
                         \/ cfed /\ (\A j \in Idx : wfed[j] = N + 1) /\ Settled
    \/ phase = "run" /\ \/ \E i \in Idx : ActTurn(i) /\ HasRoom(act_ch[i][0])
                        \/ \E j \in Idx : HasMsg(act_out[j])

(* From the first word of a load to the interrupt of the run someone can    *)
(* always go on, whatever the capacity of the channels: no circle of PEs,   *)
(* SysBias, feeding and draining threads waits for itself, and no run stops *)
(* short of its end because a thread starves.                               *)
NeverStuck ==
    phase \in {"load", "run"} =>
        \/ \E i \in Idx, j \in Idx : PECanMove(i, j)
        \/ \E j \in Idx : BiasCanMove(j)
        \/ ArrayCanMove \/ ClientCanMove

(* The array keeps the promise of MatMul: every step of every thread either *)
(* delivers right results, raises a timely interrupt, or is invisible.      *)
KeepsPromise == Promise!Spec
=============================================================================
