---------------------------- MODULE ResultProofs ----------------------------
(***************************************************************************)
(* Without random stalls a run goes through the array whole and in order,  *)
(* so the last column is never complete before the first: the assertion in *)
(* WriteReqRun cannot fail.  Proved by the inductive invariant WholeRun.   *)
(*                                                                         *)
(* On these counts rests what the words are: every word of the result      *)
(* memory is the exact output of its column and vector, and the array      *)
(* implements MatMul.  The part of WholeRun that random stalls leave alone *)
(* (Flow) gives the same of the words in the first run with them.          *)
(*                                                                         *)
(* On Flow rests as well that the array never gets stuck (NoDeadlock).     *)
(***************************************************************************)
EXTENDS SysArrayProofs, WellFoundedInduction

USE NAssumption, MAssumption

-----------------------------------------------------------------------------
(* The quantities WholeRun counts with are natural numbers. *)
LEMMA Counts ==
    ASSUME TypeOK
    PROVE  /\ \A i \in Idx, j \in Idx :
                /\ ActWaiting(i, j) \in Nat /\ SumWaiting(i, j) \in Nat
                /\ ActInHand(i, j) \in Nat /\ SumInHand(i, j) \in Nat
                /\ fired[i][j] \in Nat
           /\ \A j \in Idx : /\ OutWaiting(j) \in Nat /\ Emitted(j) \in Nat
                             /\ fed[j] \in Nat /\ fed[j] <= M /\ ctr[j] \in Nat
                             /\ Len(act_out[j]) \in Nat
<1>1. \A T : \A ch \in Chan(T) : Len(ch) \in Nat
  BY DEF Chan
<1>2. \A i \in Idx, j \in Idx : /\ Len(act_ch[i][j]) \in Nat
                                /\ Len(accum_ch[i][j]) \in Nat
                                /\ fired[i][j] \in Nat
  <2>1. \A i \in Idx, j \in Idx : act_ch[i][j] \in Chan(Act) /\ accum_ch[i][j] \in Chan(Sum)
    BY Types DEF TypeOK, ActType, SumType
  <2>2. QED
    BY <1>1, <2>1 DEF TypeOK, PhaseType
<1>3. \A j \in Idx : /\ Len(accum_ch[N][j]) \in Nat
                     /\ Len(act_out[j]) \in Nat
                     /\ fed[j] \in Nat /\ fed[j] <= M /\ ctr[j] \in Nat
  BY <1>1, Types DEF TypeOK, SumType, BiasType, ClientType
<1>4. \A i \in Idx, j \in Idx : ActWaiting(i, j) \in Nat /\ SumWaiting(i, j) \in Nat
  BY <1>2 DEF Waiting, ActWaiting, SumWaiting
<1>5. \A i \in Idx, j \in Idx : ActInHand(i, j) \in Nat /\ SumInHand(i, j) \in Nat
  BY DEF ActInHand, SumInHand
<1>6. \A j \in Idx : OutWaiting(j) \in Nat /\ Emitted(j) \in Nat
  BY <1>3 DEF Waiting, OutWaiting, Emitted
<1>7. QED
  BY <1>2, <1>3, <1>4, <1>5, <1>6

(* WholeRun in two parts.  Flow holds with random stalls as well, as long   *)
(* as a run starts in an empty array.  Even is what the stalls break: the   *)
(* order of the columns at their outputs, and with it the end of a run.     *)
Behind ==
    /\ \A i \in Idx, j \in Idx : fired[i][j] <= fed[i] /\ Emitted(j) <= fired[i][j]
    /\ \A i \in Idx, j \in Idx, k \in Idx : j <= k =>
         fired[i][k] <= fired[i][j] /\ fired[k][i] <= fired[j][i]
Abreast == \A j \in Idx, k \in Idx : j <= k => Emitted(k) <= Emitted(j) /\ ctr[k] <= ctr[j]
AllThrough ==
    \A i \in Idx, j \in Idx, k \in Idx : fired[i][j] = fed[k] /\ ctr[j] = fed[k]

Flow == ActConserved /\ SumConserved /\ Behind /\ (phase = "load" => AllThrough)
Even ==
    /\ Abreast
    /\ phase # "abort"
    /\ phase = "irq" => AllThrough /\ \A j \in Idx : ctr[j] = M

LEMMA WholeIs == WholeRun <=> Flow /\ Even
<1>1. InOrder <=> Behind /\ Abreast
  BY DEF InOrder, Behind, Abreast
<1>2. Drained <=> (phase = "load" => AllThrough) /\ (phase = "irq" => AllThrough)
  BY DEF Drained, AllThrough
<1>3. QED
  BY <1>1, <1>2 DEF WholeRun, Flow, Even

(* Flow depends on nothing but counts: a step that leaves every count as it *)
(* was preserves it.                                                        *)
SameCounts ==
    /\ UNCHANGED <<fired, fed, ctr>>
    /\ \A i \in Idx, j \in Idx :
         /\ ActWaiting(i, j)' = ActWaiting(i, j)
         /\ i # 0 => SumWaiting(i, j)' = SumWaiting(i, j)
         /\ ActInHand(i, j)' = ActInHand(i, j) /\ SumInHand(i, j)' = SumInHand(i, j)
    /\ \A j \in Idx : OutWaiting(j)' = OutWaiting(j) /\ Emitted(j)' = Emitted(j)

LEMMA ActSame ==
    ASSUME ActConserved, UNCHANGED <<fired, fed>>,
           \A i \in Idx, j \in Idx :
              ActWaiting(i, j)' = ActWaiting(i, j) /\ ActInHand(i, j)' = ActInHand(i, j)
    PROVE  ActConserved'
BY Types DEF ActConserved, Idx

LEMMA SumSame ==
    ASSUME SumConserved, UNCHANGED <<fired>>,
           \A i \in Idx, j \in Idx :
              /\ i # 0 => SumWaiting(i, j)' = SumWaiting(i, j)
              /\ SumInHand(i, j)' = SumInHand(i, j),
           \A j \in Idx : OutWaiting(j)' = OutWaiting(j) /\ Emitted(j)' = Emitted(j)
    PROVE  SumConserved'
BY Types DEF SumConserved, Idx

LEMMA SameCountsPreserve ==
    ASSUME Flow, SameCounts, phase' = phase \/ AllThrough
    PROVE  Flow'
<1> USE DEF SameCounts
<1>1. ActConserved'
  BY ActSame DEF Flow
<1>2. SumConserved'
  BY SumSame DEF Flow
<1>3. Behind'
  BY DEF Flow, Behind
<1>4. (phase = "load" => AllThrough)'
  BY DEF Flow, AllThrough
<1>5. QED
  BY <1>1, <1>2, <1>3, <1>4 DEF Flow

LEMMA InitWhole == Init => WholeRun
<1> SUFFICES ASSUME Init PROVE WholeRun
  OBVIOUS
<1> USE DEF Init
<1>1. \A i \in Idx, j \in Idx :
        /\ fired[i][j] = 0 /\ ActWaiting(i, j) = 0
        /\ ActInHand(i, j) = 0 /\ SumInHand(i, j) = 0
        /\ SumWaiting(i, j) = 0
  BY Types DEF ActWaiting, SumWaiting, Waiting, ActInHand, SumInHand
<1>2. \A j \in Idx : fed[j] = 0 /\ ctr[j] = 0 /\ Emitted(j) = 0 /\ OutWaiting(j) = 0
  BY Types DEF Emitted, OutWaiting, Waiting
<1>3. phase = "load"
  OBVIOUS
<1> HIDE DEF Init
<1>4. ActConserved
  BY <1>1, <1>2, Types DEF ActConserved, Idx
<1>5. SumConserved
  BY <1>1, <1>2, Types DEF SumConserved, Idx
<1>6. InOrder /\ Drained
  BY <1>1, <1>2 DEF InOrder, Drained
<1>7. QED
  BY <1>3, <1>4, <1>5, <1>6 DEF WholeRun

-----------------------------------------------------------------------------
(* SysPE *)

(* How one iteration head changes the counts. *)
LEMMA PollCounts ==
    ASSUME TypeOK, NEW i \in Idx, NEW j \in Idx, Poll(i, j)
    PROVE  /\ UNCHANGED <<fed, ctr, phase>>
           /\ \A y \in Idx : OutWaiting(y)' = OutWaiting(y) /\ Emitted(y)' = Emitted(y)
           /\ \A x \in Idx, y \in Idx : <<x, y>> # <<i, j>> =>
                /\ fired'[x][y] = fired[x][y]
                /\ ActWaiting(x, y)' = ActWaiting(x, y)
                /\ SumWaiting(x, y)' = SumWaiting(x, y)
                /\ ActInHand(x, y)' = ActInHand(x, y)
                /\ SumInHand(x, y)' = SumInHand(x, y)
           /\ ActInHand(i, j) = 0 /\ SumInHand(i, j) = 0
           /\ \/ /\ fired'[i][j] = fired[i][j] + 1
                 /\ ActWaiting(i, j) >= 1 /\ SumWaiting(i, j) >= 1
                 /\ ActWaiting(i, j)' = ActWaiting(i, j) - 1
                 /\ SumWaiting(i, j)' = SumWaiting(i, j) - 1
                 /\ ActInHand(i, j)' = 1 /\ SumInHand(i, j)' = 1
              \/ /\ fired'[i][j] = fired[i][j]
                 /\ ActWaiting(i, j)' = ActWaiting(i, j)
                 /\ SumWaiting(i, j)' = SumWaiting(i, j)
                 /\ ActInHand(i, j)' = 0 /\ SumInHand(i, j)' = 0
<1>0. PICK w \in PopNB(weight_ch[i][j]),
           a \in IF is_act_in[i][j] THEN {FALSE} ELSE PopNB(act_ch[i][j]),
           s \in IF is_accum_in[i][j] THEN {FALSE} ELSE PopNB(accum_ch[i][j]) :
             Poll(i, j)!2!(w, a, s)
  BY DEF Poll
<1>1. w \in BOOLEAN
  BY DEF PopNB
<1>2. /\ a \in BOOLEAN
      /\ is_act_in[i][j] \in BOOLEAN
      /\ a => /\ ~is_act_in[i][j]
              /\ Len(act_ch[i][j]) > 0
              /\ Len(Tail(act_ch[i][j])) = Len(act_ch[i][j]) - 1
  <2>1. act_ch[i][j] \in Chan(Act) /\ is_act_in[i][j] \in BOOLEAN
    BY Types DEF TypeOK, ActType
  <2>2. CASE is_act_in[i][j]
    BY <2>1, <2>2
  <2>3. CASE ~is_act_in[i][j]
    BY <2>1, <2>3, PopType
  <2>4. QED
    BY <2>2, <2>3, <2>1
<1>3. /\ s \in BOOLEAN
      /\ is_accum_in[i][j] \in BOOLEAN
      /\ s => /\ ~is_accum_in[i][j]
              /\ Len(accum_ch[i][j]) > 0
              /\ Len(Tail(accum_ch[i][j])) = Len(accum_ch[i][j]) - 1
  <2>1. accum_ch[i][j] \in Chan(Sum) /\ is_accum_in[i][j] \in BOOLEAN
    BY Types DEF TypeOK, SumType
  <2>2. CASE is_accum_in[i][j]
    BY <2>1, <2>2
  <2>3. CASE ~is_accum_in[i][j]
    BY <2>1, <2>3, PopType
  <2>4. QED
    BY <2>2, <2>3, <2>1
<1>4. /\ UNCHANGED <<fed, ctr, phase, act_out, bpc>>
      /\ pc[i][j] = "poll"
  BY DEF Poll, biasVars, clientVars
<1> DEFINE fires == Fires(is_act_in[i][j] \/ a, is_accum_in[i][j] \/ s)
<1>5. /\ \A x \in Idx, y \in Ext : <<x, y>> # <<i, j>> => act_ch'[x][y] = act_ch[x][y]
      /\ act_ch'[i][j] = After(a, act_ch[i][j])
      /\ \A x \in Idx, y \in Idx : <<x, y>> # <<i, j>> => is_act_in'[x][y] = is_act_in[x][y]
      /\ is_act_in'[i][j] = ((is_act_in[i][j] \/ a) /\ ~fires)
  BY <1>0, Types DEF TypeOK, ActType
<1>6. /\ \A x \in Ext, y \in Idx : <<x, y>> # <<i, j>> => accum_ch'[x][y] = accum_ch[x][y]
      /\ accum_ch'[i][j] = After(s, accum_ch[i][j])
      /\ \A x \in Idx, y \in Idx :
           <<x, y>> # <<i, j>> => is_accum_in'[x][y] = is_accum_in[x][y]
      /\ is_accum_in'[i][j] = ((is_accum_in[i][j] \/ s) /\ ~fires)
  BY <1>0, Types DEF TypeOK, SumType
<1>7. /\ \A x \in Idx, y \in Idx : <<x, y>> # <<i, j>> =>
           pc'[x][y] = pc[x][y] /\ fired'[x][y] = fired[x][y]
      /\ fires => pc'[i][j] = "act" /\ fired'[i][j] = fired[i][j] + 1
      /\ ~fires => pc'[i][j] \in {"poll", "weight"} /\ fired'[i][j] = fired[i][j]
  BY <1>0, <1>4 DEF TypeOK, PhaseType
<1>8. /\ Len(act_ch[i][j]) \in Nat
      /\ Len(accum_ch[i][j]) \in Nat
  <2>1. act_ch[i][j] \in Chan(Act) /\ accum_ch[i][j] \in Chan(Sum)
    BY Types DEF TypeOK, ActType, SumType
  <2>2. QED
    BY <2>1 DEF Chan
<1>9. \A y \in Idx : OutWaiting(y)' = OutWaiting(y) /\ Emitted(y)' = Emitted(y)
  BY <1>4, <1>6, Types DEF OutWaiting, Emitted
<1>10. \A x \in Idx, y \in Idx : <<x, y>> # <<i, j>> =>
         /\ fired'[x][y] = fired[x][y]
         /\ ActWaiting(x, y)' = ActWaiting(x, y)
         /\ SumWaiting(x, y)' = SumWaiting(x, y)
         /\ ActInHand(x, y)' = ActInHand(x, y)
         /\ SumInHand(x, y)' = SumInHand(x, y)
  <2> SUFFICES ASSUME NEW x \in Idx, NEW y \in Idx, <<x, y>> # <<i, j>>
               PROVE  /\ fired'[x][y] = fired[x][y]
                      /\ ActWaiting(x, y)' = ActWaiting(x, y)
                      /\ SumWaiting(x, y)' = SumWaiting(x, y)
                      /\ ActInHand(x, y)' = ActInHand(x, y)
                      /\ SumInHand(x, y)' = SumInHand(x, y)
    OBVIOUS
  <2>1. ActWaiting(x, y)' = ActWaiting(x, y)
    BY <1>5, Types DEF ActWaiting
  <2>2. SumWaiting(x, y)' = SumWaiting(x, y)
    BY <1>6, Types DEF SumWaiting
  <2>3. /\ fired'[x][y] = fired[x][y]
        /\ ActInHand(x, y)' = ActInHand(x, y)
        /\ SumInHand(x, y)' = SumInHand(x, y)
    BY <1>7 DEF ActInHand, SumInHand
  <2>4. QED
    BY <2>1, <2>2, <2>3
<1>11. ActInHand(i, j) = 0 /\ SumInHand(i, j) = 0
  BY <1>4 DEF ActInHand, SumInHand
<1>12. CASE fires
  <2>1. (is_act_in[i][j] \/ a) /\ (is_accum_in[i][j] \/ s)
    BY <1>12 DEF Fires
  <2>2. ActWaiting(i, j)' = ActWaiting(i, j) - 1 /\ ActWaiting(i, j) >= 1
    BY <2>1, <1>2, <1>5, <1>8, <1>12 DEF ActWaiting, Waiting, After
  <2>3. SumWaiting(i, j)' = SumWaiting(i, j) - 1 /\ SumWaiting(i, j) >= 1
    BY <2>1, <1>3, <1>6, <1>8, <1>12 DEF SumWaiting, Waiting, After
  <2>4. ActInHand(i, j)' = 1 /\ SumInHand(i, j)' = 1
    BY <1>7, <1>12 DEF ActInHand, SumInHand
  <2>5. QED
    BY <2>2, <2>3, <2>4, <1>4, <1>7, <1>9, <1>10, <1>11, <1>12
<1>13. CASE ~fires
  <2>2. ActWaiting(i, j)' = ActWaiting(i, j)
    BY <1>2, <1>5, <1>8, <1>13 DEF ActWaiting, Waiting, After
  <2>3. SumWaiting(i, j)' = SumWaiting(i, j)
    BY <1>3, <1>6, <1>8, <1>13 DEF SumWaiting, Waiting, After
  <2>4. ActInHand(i, j)' = 0 /\ SumInHand(i, j)' = 0
    BY <1>7, <1>13 DEF ActInHand, SumInHand
  <2>5. QED
    BY <2>2, <2>3, <2>4, <1>4, <1>7, <1>9, <1>10, <1>11, <1>13
<1>14. QED
  BY <1>12, <1>13, SMTT(60)

LEMMA PollFlow ==
    ASSUME TypeOK, Flow, NEW i \in Idx, NEW j \in Idx, Poll(i, j)
    PROVE  Flow'
<1>1. CASE fired'[i][j] = fired[i][j]
  <2>1. UNCHANGED fired
    <3>1. fired \in [Idx -> [Idx -> Nat]] /\ fired' \in [Idx -> [Idx -> Nat]]
      BY PollType DEF TypeOK, PhaseType
    <3>2. \A x \in Idx, y \in Idx : fired'[x][y] = fired[x][y]
      BY <1>1, PollCounts
    <3>3. QED
      BY <3>1, <3>2
  <2>2. /\ UNCHANGED <<fed, ctr, phase>>
        /\ \A y \in Idx : OutWaiting(y)' = OutWaiting(y) /\ Emitted(y)' = Emitted(y)
        /\ \A x \in Idx, y \in Idx : <<x, y>> # <<i, j>> =>
             /\ ActWaiting(x, y)' = ActWaiting(x, y)
             /\ SumWaiting(x, y)' = SumWaiting(x, y)
             /\ ActInHand(x, y)' = ActInHand(x, y)
             /\ SumInHand(x, y)' = SumInHand(x, y)
        /\ ActWaiting(i, j)' = ActWaiting(i, j) /\ SumWaiting(i, j)' = SumWaiting(i, j)
        /\ ActInHand(i, j)' = ActInHand(i, j) /\ SumInHand(i, j)' = SumInHand(i, j)
    <3>1. fired[i][j] \in Nat
      BY DEF TypeOK, PhaseType
    <3>2. fired'[i][j] # fired[i][j] + 1
      BY <1>1, <3>1
    <3>3. QED
      BY <3>2, PollCounts
  <2>3. SameCounts
    BY <2>1, <2>2 DEF SameCounts
  <2>4. QED
    BY <2>2, <2>3, SameCountsPreserve
<1>2. CASE fired'[i][j] # fired[i][j]
  <2>1. /\ UNCHANGED <<fed, ctr, phase>>
        /\ \A y \in Idx : OutWaiting(y)' = OutWaiting(y) /\ Emitted(y)' = Emitted(y)
        /\ \A x \in Idx, y \in Idx : <<x, y>> # <<i, j>> =>
             /\ fired'[x][y] = fired[x][y]
             /\ ActWaiting(x, y)' = ActWaiting(x, y)
             /\ SumWaiting(x, y)' = SumWaiting(x, y)
             /\ ActInHand(x, y)' = ActInHand(x, y)
             /\ SumInHand(x, y)' = SumInHand(x, y)
        /\ ActInHand(i, j) = 0 /\ SumInHand(i, j) = 0
        /\ fired'[i][j] = fired[i][j] + 1
        /\ ActWaiting(i, j) >= 1 /\ SumWaiting(i, j) >= 1
        /\ ActWaiting(i, j)' = ActWaiting(i, j) - 1
        /\ SumWaiting(i, j)' = SumWaiting(i, j) - 1
        /\ ActInHand(i, j)' = 1 /\ SumInHand(i, j)' = 1
    BY <1>2, PollCounts
  <2>2. /\ \A x \in Idx, y \in Idx :
             /\ ActWaiting(x, y) \in Nat /\ SumWaiting(x, y) \in Nat
             /\ ActInHand(x, y) \in Nat /\ SumInHand(x, y) \in Nat
             /\ fired[x][y] \in Nat
        /\ \A y \in Idx : /\ OutWaiting(y) \in Nat /\ Emitted(y) \in Nat
                          /\ fed[y] \in Nat /\ ctr[y] \in Nat
    BY Counts
  <2>3. ActConserved'
    <3>1. \A x \in Idx : fed'[x] = fired'[x][0] + ActWaiting(x, 0)'
      BY <2>1, <2>2, Types DEF Flow, ActConserved
    <3>2. ASSUME NEW x \in Idx, NEW y \in Idx \ {0}
          PROVE  fired'[x][y-1] = fired'[x][y] + ActWaiting(x, y)' + ActInHand(x, y-1)'
      <4>1. y-1 \in Idx /\ y-1 # y
        BY DEF Idx
      <4>2. fired[x][y-1] = fired[x][y] + ActWaiting(x, y) + ActInHand(x, y-1)
        BY DEF Flow, ActConserved
      <4>3. QED
        BY <4>1, <4>2, <2>1, <2>2
    <3>3. QED
      BY <3>1, <3>2 DEF ActConserved
  <2>4. SumConserved'
    <3>1. ASSUME NEW y \in Idx, NEW x \in Idx \ {0}
          PROVE  fired'[x-1][y] = fired'[x][y] + SumWaiting(x, y)' + SumInHand(x-1, y)'
      <4>1. x-1 \in Idx /\ x-1 # x
        BY DEF Idx
      <4>2. fired[x-1][y] = fired[x][y] + SumWaiting(x, y) + SumInHand(x-1, y)
        BY DEF Flow, SumConserved
      <4>3. QED
        BY <4>1, <4>2, <2>1, <2>2
    <3>2. ASSUME NEW y \in Idx
          PROVE  fired'[N-1][y] = Emitted(y)' + OutWaiting(y)' + SumInHand(N-1, y)'
      BY <2>1, <2>2, Types DEF Flow, SumConserved
    <3>3. QED
      BY <3>1, <3>2 DEF SumConserved
  <2>5. fired[i][j] < fed[i] /\ \A y \in Idx : y < j => fired[i][j] < fired[i][y]
    <3>1. CASE j = 0
      <4>1. fed[i] = fired[i][j] + ActWaiting(i, j)
        BY <3>1 DEF Flow, ActConserved
      <4>2. \A y \in Idx : ~(y < 0)
        BY DEF Idx
      <4>3. fired[i][j] \in Nat /\ fed[i] \in Nat /\ ActWaiting(i, j) >= 1
        BY <2>1, <2>2
      <4>4. fired[i][j] < fed[i]
        BY <4>1, <4>3, <2>2
      <4>5. QED
        BY <3>1, <4>2, <4>4
    <3>2. CASE j # 0
      <4>1. j-1 \in Idx /\ fired[i][j] < fired[i][j-1]
        <5>1. j-1 \in Idx
          BY <3>2 DEF Idx
        <5>2. fired[i][j-1] = fired[i][j] + ActWaiting(i, j) + ActInHand(i, j-1)
          BY <3>2 DEF Flow, ActConserved
        <5>3. fired[i][j] \in Nat /\ ActWaiting(i, j) >= 1 /\ ActInHand(i, j-1) \in Nat
          BY <5>1, <2>1, <2>2
        <5>4. ActWaiting(i, j) \in Nat
          BY <2>2
        <5>5. QED
          BY <5>1, <5>2, <5>3, <5>4
      <4>2. \A y \in Idx : y < j => y <= j-1
        BY DEF Idx
      <4>3. QED
        BY <4>1, <4>2, <2>2 DEF Flow, Behind
    <3>3. QED
      BY <3>1, <3>2
  <2>6. \A x \in Idx : x < i => fired[i][j] < fired[x][j]
    <3>1. CASE i = 0
      BY <3>1 DEF Idx
    <3>2. CASE i # 0
      <4>1. i-1 \in Idx /\ fired[i][j] < fired[i-1][j]
        <5>1. i-1 \in Idx
          BY <3>2 DEF Idx
        <5>2. fired[i-1][j] = fired[i][j] + SumWaiting(i, j) + SumInHand(i-1, j)
          BY <3>2 DEF Flow, SumConserved
        <5>3. fired[i][j] \in Nat /\ SumWaiting(i, j) >= 1 /\ SumInHand(i-1, j) \in Nat
          BY <5>1, <2>1, <2>2
        <5>4. SumWaiting(i, j) \in Nat
          BY <2>2
        <5>5. QED
          BY <5>1, <5>2, <5>3, <5>4
      <4>2. \A x \in Idx : x < i => x <= i-1
        BY DEF Idx
      <4>3. QED
        BY <4>1, <4>2, <2>2 DEF Flow, Behind
    <3>3. QED
      BY <3>1, <3>2
  <2>7. Behind'
    <3>0. \A x \in Idx, y \in Idx : fired'[x][y] \in Nat
      BY PollType DEF TypeOK, PhaseType
    <3>1. \A x \in Idx, y \in Idx : fired'[x][y] <= fed'[x] /\ Emitted(y)' <= fired'[x][y]
      BY <2>1, <2>5, <2>2 DEF Flow, Behind
    <3>2. ASSUME NEW x \in Idx, NEW y \in Idx, NEW z \in Idx, y <= z
          PROVE  fired'[x][z] <= fired'[x][y]
      <4>1. fired[x][z] <= fired[x][y] /\ fired[x][z] \in Nat /\ fired[x][y] \in Nat
        BY <3>2, <2>2 DEF Flow, Behind
      <4>2. CASE y = z
        BY <4>2, <3>0
      <4>3. CASE y < z
        <5>1. y # z
          BY <4>3 DEF Idx
        <5>2. CASE x = i /\ z = j
          BY <4>1, <4>3, <5>1, <5>2, <2>1, <2>5
        <5>3. CASE ~(x = i /\ z = j)
          BY <4>1, <5>3, <2>1
        <5>4. QED
          BY <5>2, <5>3
      <4>4. QED
        BY <4>2, <4>3, <3>2 DEF Idx
    <3>3. ASSUME NEW x \in Idx, NEW y \in Idx, NEW z \in Idx, y <= z
          PROVE  fired'[z][x] <= fired'[y][x]
      <4>1. fired[z][x] <= fired[y][x] /\ fired[z][x] \in Nat /\ fired[y][x] \in Nat
        BY <3>3, <2>2 DEF Flow, Behind
      <4>2. CASE y = z
        BY <4>2, <3>0
      <4>3. CASE y < z
        <5>1. y # z
          BY <4>3 DEF Idx
        <5>2. CASE x = j /\ z = i
          BY <4>1, <4>3, <5>1, <5>2, <2>1, <2>6
        <5>3. CASE ~(x = j /\ z = i)
          BY <4>1, <5>3, <2>1
        <5>4. QED
          BY <5>2, <5>3
      <4>4. QED
        BY <4>2, <4>3, <3>3 DEF Idx
    <3>4. QED
      BY <3>1, <3>2, <3>3 DEF Behind
  <2>8. (phase = "load" => AllThrough)'
    BY <2>1, <2>5, <2>2 DEF Flow, AllThrough
  <2>9. QED
    BY <2>1, <2>3, <2>4, <2>7, <2>8 DEF Flow
<1>3. QED
  BY <1>1, <1>2

LEMMA PushActFlow ==
    ASSUME TypeOK, Flow, NEW i \in Idx, NEW j \in Idx, PushAct(i, j)
    PROVE  Flow'
<1>1. /\ UNCHANGED <<accum_ch, is_act_in, is_accum_in, fired, fed, ctr, act_out, bpc, phase>>
      /\ pc[i][j] = "act"
      /\ pc' = [pc EXCEPT ![i][j] = "accum"]
      /\ HasRoom(act_ch[i][j+1])
      /\ act_ch' = [act_ch EXCEPT ![i][j+1] = Append(@, act_reg[i][j])]
  BY DEF PushAct, sumVars, biasVars, clientVars
<1>2. act_ch[i][j+1] \in Chan(Act) /\ act_reg[i][j] \in Act
  BY Types DEF TypeOK, ActType
<1>3. /\ Len(act_ch[i][j+1]) \in Nat
      /\ Len(Append(act_ch[i][j+1], act_reg[i][j])) = Len(act_ch[i][j+1]) + 1
  BY <1>1, <1>2, PushType DEF Chan
<1>4. \A x \in Idx, y \in Idx : <<x, y>> # <<i, j+1>> => ActWaiting(x, y)' = ActWaiting(x, y)
  <2>1. \A x \in Idx, y \in Ext : <<x, y>> # <<i, j+1>> => act_ch'[x][y] = act_ch[x][y]
    BY <1>1, Types DEF TypeOK, ActType
  <2>2. QED
    BY <2>1, <1>1, Types DEF ActWaiting
<1>5. j+1 \in Idx => ActWaiting(i, j+1)' = ActWaiting(i, j+1) + 1
  <2>1. act_ch'[i][j+1] = Append(act_ch[i][j+1], act_reg[i][j])
    BY <1>1, Types DEF TypeOK, ActType
  <2>2. QED
    BY <2>1, <1>1, <1>3 DEF ActWaiting, Waiting
<1>6. /\ \A x \in Idx, y \in Idx : <<x, y>> # <<i, j>> => ActInHand(x, y)' = ActInHand(x, y)
      /\ ActInHand(i, j) = 1 /\ ActInHand(i, j)' = 0
      /\ \A x \in Idx, y \in Idx : SumInHand(x, y)' = SumInHand(x, y)
  <2>1. /\ \A x \in Idx, y \in Idx : <<x, y>> # <<i, j>> => pc'[x][y] = pc[x][y]
        /\ pc'[i][j] = "accum"
    BY <1>1 DEF TypeOK, PhaseType
  <2>2. QED
    BY <2>1, <1>1 DEF ActInHand, SumInHand
<1>7. /\ \A x \in Idx, y \in Idx : SumWaiting(x, y)' = SumWaiting(x, y)
      /\ \A y \in Idx : OutWaiting(y)' = OutWaiting(y) /\ Emitted(y)' = Emitted(y)
  BY <1>1 DEF SumWaiting, OutWaiting, Emitted
<1>8. ActConserved'
  <2>1. ASSUME NEW x \in Idx
        PROVE  fed'[x] = fired'[x][0] + ActWaiting(x, 0)'
    <3>1. 0 \in Idx /\ 0 # j+1
      BY DEF Idx
    <3>2. fed[x] = fired[x][0] + ActWaiting(x, 0)
      BY DEF Flow, ActConserved
    <3>3. QED
      BY <3>1, <3>2, <1>1, <1>4
  <2>2. ASSUME NEW x \in Idx, NEW y \in Idx \ {0}
        PROVE  fired'[x][y-1] = fired'[x][y] + ActWaiting(x, y)' + ActInHand(x, y-1)'
    <3>1. y-1 \in Idx /\ (y-1 = j <=> y = j+1)
      BY DEF Idx
    <3>2. fired[x][y-1] = fired[x][y] + ActWaiting(x, y) + ActInHand(x, y-1)
      BY DEF Flow, ActConserved
    <3>3. ActWaiting(x, y) \in Nat /\ ActInHand(x, y-1) \in Nat /\ fired[x][y] \in Nat
      BY <3>1, Counts
    <3>4. CASE x = i /\ y = j+1
      BY <3>1, <3>2, <3>3, <3>4, <1>1, <1>5, <1>6
    <3>5. CASE ~(x = i /\ y = j+1)
      BY <3>1, <3>2, <3>5, <1>1, <1>4, <1>6
    <3>6. QED
      BY <3>4, <3>5
  <2>3. QED
    BY <2>1, <2>2 DEF ActConserved
<1>9. SumConserved'
  BY <1>1, <1>6, <1>7, SumSame DEF Flow
<1>10. Behind' /\ (phase = "load" => AllThrough)'
  BY <1>1, <1>7 DEF Flow, Behind, AllThrough
<1>11. QED
  BY <1>1, <1>8, <1>9, <1>10 DEF Flow

LEMMA PushAccumFlow ==
    ASSUME TypeOK, Flow, NEW i \in Idx, NEW j \in Idx, PushAccum(i, j)
    PROVE  Flow'
<1>1. /\ UNCHANGED <<act_ch, is_act_in, is_accum_in, fired, fed, ctr, act_out, bpc, phase>>
      /\ pc[i][j] = "accum"
      /\ pc' = [pc EXCEPT ![i][j] = IF is_weight_in[i][j] THEN "weight" ELSE "poll"]
      /\ HasRoom(accum_ch[i+1][j])
      /\ accum_ch' = [accum_ch EXCEPT ![i+1][j] = Append(@, accum_out_reg[i][j])]
  BY DEF PushAccum, actVars, biasVars, clientVars
<1>2. accum_ch[i+1][j] \in Chan(Sum) /\ accum_out_reg[i][j] \in Sum
  BY Types DEF TypeOK, SumType
<1>3. /\ Len(accum_ch[i+1][j]) \in Nat
      /\ Len(Append(accum_ch[i+1][j], accum_out_reg[i][j])) = Len(accum_ch[i+1][j]) + 1
  BY <1>1, <1>2, PushType DEF Chan
<1>4. /\ \A x \in Ext, y \in Idx : <<x, y>> # <<i+1, j>> => accum_ch'[x][y] = accum_ch[x][y]
      /\ accum_ch'[i+1][j] = Append(accum_ch[i+1][j], accum_out_reg[i][j])
  BY <1>1, Types DEF TypeOK, SumType
<1>5. \A x \in Idx, y \in Idx : <<x, y>> # <<i+1, j>> => SumWaiting(x, y)' = SumWaiting(x, y)
  BY <1>4, <1>1, Types DEF SumWaiting
<1>6. i+1 \in Idx => SumWaiting(i+1, j)' = SumWaiting(i+1, j) + 1
  BY <1>4, <1>1, <1>3 DEF SumWaiting, Waiting
<1>7. \A y \in Idx : (i # N-1 \/ y # j) => OutWaiting(y)' = OutWaiting(y)
  <2>1. \A y \in Idx : (i # N-1 \/ y # j) => <<N, y>> # <<i+1, j>>
    BY DEF Idx
  <2>2. QED
    BY <2>1, <1>4, <1>1, Types DEF OutWaiting
<1>8. i = N-1 => OutWaiting(j)' = OutWaiting(j) + 1
  <2>1. i = N-1 => i+1 = N
    BY DEF Idx
  <2>2. QED
    BY <2>1, <1>4, <1>1, <1>3 DEF OutWaiting, Waiting
<1>9. /\ \A x \in Idx, y \in Idx : <<x, y>> # <<i, j>> => SumInHand(x, y)' = SumInHand(x, y)
      /\ SumInHand(i, j) = 1 /\ SumInHand(i, j)' = 0
      /\ \A x \in Idx, y \in Idx : ActInHand(x, y)' = ActInHand(x, y)
  <2>1. /\ \A x \in Idx, y \in Idx : <<x, y>> # <<i, j>> => pc'[x][y] = pc[x][y]
        /\ pc'[i][j] \in {"weight", "poll"}
    BY <1>1 DEF TypeOK, PhaseType
  <2>2. QED
    BY <2>1, <1>1 DEF ActInHand, SumInHand
<1>10. /\ \A x \in Idx, y \in Idx : ActWaiting(x, y)' = ActWaiting(x, y)
       /\ \A y \in Idx : Emitted(y)' = Emitted(y)
  BY <1>1 DEF ActWaiting, Emitted
<1>11. SumConserved'
  <2>1. ASSUME NEW y \in Idx, NEW x \in Idx \ {0}
        PROVE  fired'[x-1][y] = fired'[x][y] + SumWaiting(x, y)' + SumInHand(x-1, y)'
    <3>1. x-1 \in Idx /\ (x-1 = i <=> x = i+1)
      BY DEF Idx
    <3>2. fired[x-1][y] = fired[x][y] + SumWaiting(x, y) + SumInHand(x-1, y)
      BY DEF Flow, SumConserved
    <3>3. SumWaiting(x, y) \in Nat /\ SumInHand(x-1, y) \in Nat /\ fired[x][y] \in Nat
      BY <3>1, Counts
    <3>4. CASE y = j /\ x = i+1
      BY <3>1, <3>2, <3>3, <3>4, <1>1, <1>6, <1>9
    <3>5. CASE ~(y = j /\ x = i+1)
      BY <3>1, <3>2, <3>5, <1>1, <1>5, <1>9
    <3>6. QED
      BY <3>4, <3>5
  <2>2. ASSUME NEW y \in Idx
        PROVE  fired'[N-1][y] = Emitted(y)' + OutWaiting(y)' + SumInHand(N-1, y)'
    <3>1. fired[N-1][y] = Emitted(y) + OutWaiting(y) + SumInHand(N-1, y)
      BY DEF Flow, SumConserved
    <3>2. OutWaiting(y) \in Nat /\ Emitted(y) \in Nat /\ SumInHand(N-1, y) \in Nat
      BY Types, Counts
    <3>3. CASE i = N-1 /\ y = j
      BY <3>1, <3>2, <3>3, <1>1, <1>8, <1>9, <1>10
    <3>4. CASE i # N-1 \/ y # j
      BY <3>1, <3>4, <1>1, <1>7, <1>9, <1>10, Types
    <3>5. QED
      BY <3>3, <3>4
  <2>3. QED
    BY <2>1, <2>2 DEF SumConserved
<1>12. ActConserved'
  BY <1>1, <1>9, <1>10, ActSame DEF Flow
<1>13. Behind' /\ (phase = "load" => AllThrough)'
  BY <1>1, <1>10 DEF Flow, Behind, AllThrough
<1>14. QED
  BY <1>1, <1>11, <1>12, <1>13 DEF Flow

-----------------------------------------------------------------------------
(* The steps that leave every count as it was *)

LEMMA UncountedStep ==
    ASSUME UNCHANGED <<act_ch, is_act_in, accum_ch, is_accum_in, pc, fired, fed, ctr,
                       act_out, bpc>>
    PROVE  SameCounts
BY DEF SameCounts, ActWaiting, SumWaiting, ActInHand, SumInHand, OutWaiting, Emitted

LEMMA PushWeightSame ==
    ASSUME TypeOK, NEW i \in Idx, NEW j \in Idx, PushWeight(i, j)
    PROVE  SameCounts
<1>1. /\ UNCHANGED <<act_ch, is_act_in, accum_ch, is_accum_in, fired, fed, ctr, act_out, bpc>>
      /\ pc[i][j] = "weight"
      /\ pc' = [pc EXCEPT ![i][j] = "poll"]
  BY DEF PushWeight, sumVars, actVars, biasVars, clientVars
<1>2. \A x \in Idx, y \in Idx :
        ActInHand(x, y)' = ActInHand(x, y) /\ SumInHand(x, y)' = SumInHand(x, y)
  <2>1. /\ \A x \in Idx, y \in Idx : <<x, y>> # <<i, j>> => pc'[x][y] = pc[x][y]
        /\ pc'[i][j] = "poll"
    BY <1>1 DEF TypeOK, PhaseType
  <2>2. QED
    BY <2>1, <1>1 DEF ActInHand, SumInHand
<1>3. QED
  BY <1>1, <1>2 DEF SameCounts, ActWaiting, SumWaiting, OutWaiting, Emitted

(* A finished sum goes from the channel into the hand of SysBias. *)
LEMMA BiasAccumSame ==
    ASSUME TypeOK, NEW j \in Idx, BiasAccum(j)
    PROVE  SameCounts
<1>1. /\ UNCHANGED <<act_ch, is_act_in, is_accum_in, pc, fired, fed, ctr, act_out>>
      /\ bpc[j] = "poll"
      /\ bpc' = [bpc EXCEPT ![j] = "push"]
      /\ TRUE \in PopNB(accum_ch[N][j])
      /\ accum_ch' = [accum_ch EXCEPT ![N][j] = Tail(@)]
  BY DEF BiasAccum, actVars, clientVars
<1>2. /\ \A x \in Ext, y \in Idx : <<x, y>> # <<N, j>> => accum_ch'[x][y] = accum_ch[x][y]
      /\ accum_ch'[N][j] = Tail(accum_ch[N][j])
  BY <1>1, Types DEF TypeOK, SumType
<1>3. /\ \A y \in Idx : y # j => bpc'[y] = bpc[y]
      /\ bpc'[j] = "push"
  BY <1>1 DEF TypeOK, BiasType
<1>4. \A x \in Idx, y \in Idx : SumWaiting(x, y)' = SumWaiting(x, y)
  <2>1. \A x \in Idx, y \in Idx : <<x, y>> # <<N, j>>
    BY Types
  <2>2. QED
    BY <2>1, <1>1, <1>2, Types DEF SumWaiting
<1>5. \A y \in Idx : OutWaiting(y)' = OutWaiting(y)
  <2>1. accum_ch[N][j] \in Chan(Sum)
    BY Types DEF TypeOK, SumType
  <2>2. /\ Len(accum_ch[N][j]) \in Nat
        /\ Len(Tail(accum_ch[N][j])) = Len(accum_ch[N][j]) - 1
    <3>1. accum_ch[N][j] # << >>
      BY <1>1, PopNBSound
    <3>2. accum_ch[N][j] \in Seq(Sum)
      BY <2>1 DEF Chan
    <3>3. QED
      BY <3>1, <3>2
  <2>3. OutWaiting(j)' = OutWaiting(j)
    <3>1. accum_ch'[N][j] = Tail(accum_ch[N][j]) /\ bpc'[j] = "push" /\ bpc[j] = "poll"
      BY <1>1, <1>2, <1>3
    <3>2. QED
      BY <2>2, <3>1 DEF OutWaiting, Waiting
  <2>4. ASSUME NEW y \in Idx, y # j
        PROVE  OutWaiting(y)' = OutWaiting(y)
    <3>1. accum_ch'[N][y] = accum_ch[N][y] /\ bpc'[y] = bpc[y]
      BY <1>2, <1>3, <2>4, Types
    <3>2. QED
      BY <3>1 DEF OutWaiting
  <2>5. QED
    BY <2>3, <2>4
<1>6. QED
  BY <1>1, <1>4, <1>5 DEF SameCounts, ActWaiting, ActInHand, SumInHand, Emitted

(* Only the channels beyond the last column are drained. *)
LEMMA ActOutSame ==
    ASSUME TypeOK, ActOutRun
    PROVE  SameCounts
<1>1. /\ UNCHANGED <<is_act_in, accum_ch, is_accum_in, pc, fired, fed, ctr, act_out, bpc>>
      /\ \E S : act_ch' = [i \in Idx |-> [act_ch[i] EXCEPT ![N] = After(i \in S, @)]]
  BY DEF ActOutRun, sumVars, biasVars, clientVars
<1>2. \A x \in Idx, y \in Idx : act_ch'[x][y] = act_ch[x][y]
  BY <1>1, Types DEF TypeOK, ActType
<1>3. QED
  BY <1>1, <1>2 DEF SameCounts, ActWaiting, SumWaiting, ActInHand, SumInHand,
                    OutWaiting, Emitted

(* Only the channels above row 0 are filled. *)
LEMMA AccumInSame ==
    ASSUME TypeOK, AccumInRun
    PROVE  SameCounts
<1>1. /\ UNCHANGED <<act_ch, is_act_in, is_accum_in, pc, fired, fed, ctr, act_out, bpc>>
      /\ \E row : accum_ch' = [accum_ch EXCEPT ![0] = row]
  BY DEF AccumInRun, actVars, biasVars, clientVars
<1>2. \A x \in Ext : x # 0 => accum_ch'[x] = accum_ch[x]
  BY <1>1, Types DEF TypeOK, SumType
<1>3. N # 0
  OBVIOUS
<1>4. QED
  BY <1>1, <1>2, <1>3, Types DEF SameCounts, ActWaiting, SumWaiting, ActInHand, SumInHand,
                                 OutWaiting, Emitted

LEMMA ThreadStepSame ==
    ASSUME TypeOK, NEW j \in Idx,
           BiasConfig(j) \/ BiasWeight(j) \/ SysConfigRun \/ WeightPush(j) \/ ConfigWrite
             \/ UNCHANGED vars
    PROVE  SameCounts /\ phase' = phase
<1> USE DEF vars, peVars, weightVars, sumVars, actVars, biasVars, configVars, clientVars
<1>1. CASE BiasConfig(j)
  BY <1>1, UncountedStep DEF BiasConfig
<1>2. CASE BiasWeight(j)
  BY <1>2, UncountedStep DEF BiasWeight
<1>3. CASE SysConfigRun
  BY <1>3, UncountedStep DEF SysConfigRun, ConfigPop, ConfigPush
<1>4. CASE WeightPush(j)
  BY <1>4, UncountedStep DEF WeightPush
<1>5. CASE ConfigWrite
  BY <1>5, UncountedStep DEF ConfigWrite
<1>6. CASE UNCHANGED vars
  BY <1>6, UncountedStep
<1>7. QED
  BY <1>1, <1>2, <1>3, <1>4, <1>5, <1>6

(* The next load finds every count as it was left. *)
LEMMA NextLoadSame ==
    ASSUME NextLoad
    PROVE  SameCounts
BY UncountedStep DEF NextLoad, sumVars, actVars, biasVars

-----------------------------------------------------------------------------
(* The outputs *)

(* SysBias pushes one output. *)
LEMMA BiasPushCounts ==
    ASSUME TypeOK, NEW j \in Idx, BiasPush(j)
    PROVE  /\ UNCHANGED <<fired, fed, ctr, phase>>
           /\ \A x \in Idx, y \in Idx :
                /\ ActWaiting(x, y)' = ActWaiting(x, y) /\ SumWaiting(x, y)' = SumWaiting(x, y)
                /\ ActInHand(x, y)' = ActInHand(x, y) /\ SumInHand(x, y)' = SumInHand(x, y)
           /\ \A y \in Idx : y # j => OutWaiting(y)' = OutWaiting(y) /\ Emitted(y)' = Emitted(y)
           /\ OutWaiting(j) >= 1
           /\ OutWaiting(j)' = OutWaiting(j) - 1
           /\ Emitted(j)' = Emitted(j) + 1
<1>1. /\ UNCHANGED <<act_ch, is_act_in, accum_ch, is_accum_in, pc, fired, fed, ctr, phase>>
      /\ bpc[j] = "push"
      /\ HasRoom(act_out[j])
      /\ act_out' = [act_out EXCEPT ![j] = Append(@, out_reg[j])]
      /\ bpc' = [bpc EXCEPT ![j] = "poll"]
  BY DEF BiasPush, peVars, sumVars, actVars, clientVars
<1>2. /\ \A x \in Idx, y \in Idx :
           /\ ActWaiting(x, y)' = ActWaiting(x, y) /\ SumWaiting(x, y)' = SumWaiting(x, y)
           /\ ActInHand(x, y)' = ActInHand(x, y) /\ SumInHand(x, y)' = SumInHand(x, y)
  BY <1>1 DEF ActWaiting, SumWaiting, ActInHand, SumInHand
<1>3. \A y \in Idx : y # j => OutWaiting(y)' = OutWaiting(y) /\ Emitted(y)' = Emitted(y)
  <2>1. \A y \in Idx : y # j => act_out'[y] = act_out[y] /\ bpc'[y] = bpc[y]
    BY <1>1 DEF TypeOK, BiasType
  <2>2. QED
    BY <2>1, <1>1 DEF OutWaiting, Emitted
<1>4. /\ OutWaiting(j) >= 1
      /\ OutWaiting(j)' = OutWaiting(j) - 1
      /\ Emitted(j)' = Emitted(j) + 1
  <2>1. act_out[j] \in Chan(Output) /\ out_reg[j] \in Output /\ accum_ch[N][j] \in Chan(Sum)
    BY Types DEF TypeOK, BiasType, SumType
  <2>2. /\ Len(act_out[j]) \in Nat /\ Len(accum_ch[N][j]) \in Nat
        /\ Len(Append(act_out[j], out_reg[j])) = Len(act_out[j]) + 1
    BY <2>1, <1>1, PushType DEF Chan
  <2>3. /\ act_out'[j] = Append(act_out[j], out_reg[j])
        /\ bpc'[j] = "poll" /\ bpc[j] = "push"
        /\ accum_ch'[N][j] = accum_ch[N][j] /\ ctr'[j] = ctr[j]
    BY <1>1 DEF TypeOK, BiasType
  <2>4. ctr[j] \in Nat
    BY Counts
  <2>5. OutWaiting(j) = Len(accum_ch[N][j]) + 1 /\ OutWaiting(j)' = Len(accum_ch[N][j])
    BY <2>3 DEF OutWaiting, Waiting
  <2>6. Emitted(j)' = Emitted(j) + 1
    BY <2>2, <2>3, <2>4 DEF Emitted
  <2>7. QED
    BY <2>2, <2>5, <2>6
<1>5. QED
  BY <1>1, <1>2, <1>3, <1>4

(* A column pushes only what its bottom PE has finished. *)
LEMMA BiasPushFlow ==
    ASSUME TypeOK, Flow, NEW j \in Idx, BiasPush(j)
    PROVE  Flow'
<1>1. UNCHANGED <<fired, fed, ctr, phase>>
  BY BiasPushCounts
<1>2. /\ \A x \in Idx, y \in Idx :
           /\ ActWaiting(x, y)' = ActWaiting(x, y) /\ SumWaiting(x, y)' = SumWaiting(x, y)
           /\ ActInHand(x, y)' = ActInHand(x, y) /\ SumInHand(x, y)' = SumInHand(x, y)
  BY BiasPushCounts
<1>3. \A y \in Idx : y # j => OutWaiting(y)' = OutWaiting(y) /\ Emitted(y)' = Emitted(y)
  BY BiasPushCounts
<1>4. OutWaiting(j) >= 1 /\ OutWaiting(j)' = OutWaiting(j) - 1 /\ Emitted(j)' = Emitted(j) + 1
  BY BiasPushCounts
<1>5. ActConserved'
  BY <1>1, <1>2, ActSame DEF Flow
<1>6. \A y \in Idx : OutWaiting(y) \in Nat /\ Emitted(y) \in Nat /\ SumInHand(N-1, y) \in Nat
  BY Counts, Types
<1>7. SumConserved'
  <2>1. ASSUME NEW y \in Idx, NEW x \in Idx \ {0}
        PROVE  fired'[x-1][y] = fired'[x][y] + SumWaiting(x, y)' + SumInHand(x-1, y)'
    <3>1. x-1 \in Idx
      BY DEF Idx
    <3>2. fired[x-1][y] = fired[x][y] + SumWaiting(x, y) + SumInHand(x-1, y)
      BY DEF Flow, SumConserved
    <3>3. QED
      BY <3>1, <3>2, <1>1, <1>2
  <2>2. ASSUME NEW y \in Idx
        PROVE  fired'[N-1][y] = Emitted(y)' + OutWaiting(y)' + SumInHand(N-1, y)'
    <3>1. fired[N-1][y] = Emitted(y) + OutWaiting(y) + SumInHand(N-1, y)
      BY DEF Flow, SumConserved
    <3>2. CASE y = j
      BY <3>1, <3>2, <1>1, <1>2, <1>4, <1>6, Types
    <3>3. CASE y # j
      BY <3>1, <3>3, <1>1, <1>2, <1>3, Types
    <3>4. QED
      BY <3>2, <3>3
  <2>3. QED
    BY <2>1, <2>2 DEF SumConserved
<1>8. \A x \in Idx : Emitted(j) < fired[x][j]
  <2>1. fired[N-1][j] = Emitted(j) + OutWaiting(j) + SumInHand(N-1, j)
    BY DEF Flow, SumConserved
  <2>2. \A x \in Idx : x <= N-1 /\ fired[N-1][j] <= fired[x][j]
    BY Types DEF Flow, Behind, Idx
  <2>3. \A x \in Idx : fired[x][j] \in Nat
    BY Counts
  <2>4. QED
    BY <2>1, <2>2, <2>3, <1>4, <1>6, Types
<1>9. Behind'
  <2>1. \A x \in Idx, y \in Idx : fired'[x][y] <= fed'[x] /\ Emitted(y)' <= fired'[x][y]
    <3>1. \A x \in Idx, y \in Idx :
            fired[x][y] <= fed[x] /\ Emitted(y) <= fired[x][y] /\ fired[x][y] \in Nat
      BY Counts DEF Flow, Behind
    <3>2. \A x \in Idx, y \in Idx : Emitted(y)' <= fired[x][y]
      <4> SUFFICES ASSUME NEW x \in Idx, NEW y \in Idx
                   PROVE  Emitted(y)' <= fired[x][y]
        OBVIOUS
      <4>1. CASE y = j
        BY <4>1, <3>1, <1>4, <1>6, <1>8
      <4>2. CASE y # j
        BY <4>2, <3>1, <1>3
      <4>3. QED
        BY <4>1, <4>2
    <3>3. QED
      BY <3>1, <3>2, <1>1
  <2>2. \A x \in Idx, y \in Idx, z \in Idx : y <= z =>
          fired'[x][z] <= fired'[x][y] /\ fired'[z][x] <= fired'[y][x]
    BY <1>1 DEF Flow, Behind
  <2>3. QED
    BY <2>1, <2>2 DEF Behind
<1>10. (phase = "load" => AllThrough)'
  BY <1>1 DEF Flow, AllThrough
<1>11. QED
  BY <1>1, <1>5, <1>7, <1>9, <1>10 DEF Flow

-----------------------------------------------------------------------------
(* The run *)

LEMMA ActPushFlow ==
    ASSUME TypeOK, Flow, NEW i \in Idx, ActPush(i)
    PROVE  Flow'
<1>1. /\ UNCHANGED <<accum_ch, is_act_in, is_accum_in, pc, fired, ctr, act_out, bpc, phase>>
      /\ phase = "run"
      /\ HasRoom(act_ch[i][0])
      /\ act_ch' = [act_ch EXCEPT ![i][0] = Append(@, <<gen, i, fed[i]>>)]
      /\ fed' = [fed EXCEPT ![i] = @ + 1]
  BY DEF ActPush, sumVars, biasVars
<1>2. act_ch[i][0] \in Chan(Act) /\ <<gen, i, fed[i]>> \in Act /\ fed[i] \in Nat
  <2>1. act_ch[i][0] \in Chan(Act)
    BY Types DEF TypeOK, ActType
  <2>2. fed[i] \in 0 .. M /\ gen \in 1 .. Gens
    BY DEF TypeOK, ClientType
  <2>3. fed[i] \in Nat /\ gen \in Nat
    BY <2>2, GensAssumption
  <2>4. QED
    BY <2>1, <2>3 DEF Act
<1>3. /\ Len(act_ch[i][0]) \in Nat
      /\ Len(Append(act_ch[i][0], <<gen, i, fed[i]>>)) = Len(act_ch[i][0]) + 1
  BY <1>1, <1>2, PushType DEF Chan
<1>4. /\ \A x \in Idx, y \in Ext : <<x, y>> # <<i, 0>> => act_ch'[x][y] = act_ch[x][y]
      /\ act_ch'[i][0] = Append(act_ch[i][0], <<gen, i, fed[i]>>)
      /\ \A x \in Idx : x # i => fed'[x] = fed[x]
      /\ fed'[i] = fed[i] + 1
  BY <1>1, Types DEF TypeOK, ActType, ClientType
<1>5. /\ \A x \in Idx, y \in Idx : <<x, y>> # <<i, 0>> => ActWaiting(x, y)' = ActWaiting(x, y)
      /\ \A x \in Idx, y \in Idx : ActInHand(x, y)' = ActInHand(x, y)
  <2>1. \A x \in Idx, y \in Idx : is_act_in'[x][y] = is_act_in[x][y] /\ pc'[x][y] = pc[x][y]
    BY <1>1
  <2>2. \A x \in Idx, y \in Idx : <<x, y>> # <<i, 0>> => act_ch'[x][y] = act_ch[x][y]
    BY <1>4, Types
  <2>3. QED
    BY <2>1, <2>2 DEF ActWaiting, ActInHand
<1>6. ActWaiting(i, 0)' = ActWaiting(i, 0) + 1
  <2>1. is_act_in'[i][0] = is_act_in[i][0]
    BY <1>1
  <2>2. QED
    BY <2>1, <1>3, <1>4 DEF ActWaiting, Waiting
<1>7. ActConserved'
  <2>1. ASSUME NEW x \in Idx
        PROVE  fed'[x] = fired'[x][0] + ActWaiting(x, 0)'
    <3>1. fed[x] = fired[x][0] + ActWaiting(x, 0)
      BY DEF Flow, ActConserved
    <3>2. ActWaiting(x, 0) \in Nat /\ fired[x][0] \in Nat
      BY Counts, Types
    <3>3. CASE x = i
      <4>1. fed'[x] = fed[x] + 1 /\ ActWaiting(x, 0)' = ActWaiting(x, 0) + 1
        BY <3>3, <1>4, <1>6
      <4>2. fired'[x][0] = fired[x][0]
        BY <1>1
      <4>3. QED
        BY <3>1, <3>2, <4>1, <4>2
    <3>4. CASE x # i
      BY <3>1, <3>4, <1>1, <1>4, <1>5, Types
    <3>5. QED
      BY <3>3, <3>4
  <2>2. ASSUME NEW x \in Idx, NEW y \in Idx \ {0}
        PROVE  fired'[x][y-1] = fired'[x][y] + ActWaiting(x, y)' + ActInHand(x, y-1)'
    <3>1. y-1 \in Idx
      BY DEF Idx
    <3>2. fired[x][y-1] = fired[x][y] + ActWaiting(x, y) + ActInHand(x, y-1)
      BY DEF Flow, ActConserved
    <3>3. QED
      BY <3>1, <3>2, <1>1, <1>5
  <2>3. QED
    BY <2>1, <2>2 DEF ActConserved
<1>8. SumConserved'
  <2>1. /\ \A x \in Idx, y \in Idx :
             SumWaiting(x, y)' = SumWaiting(x, y) /\ SumInHand(x, y)' = SumInHand(x, y)
        /\ \A y \in Idx : OutWaiting(y)' = OutWaiting(y) /\ Emitted(y)' = Emitted(y)
    BY <1>1 DEF SumWaiting, SumInHand, OutWaiting, Emitted
  <2>2. QED
    BY <2>1, <1>1, SumSame DEF Flow
<1>9. Behind'
  <2>1. \A x \in Idx, y \in Idx : fired'[x][y] <= fed'[x] /\ Emitted(y)' <= fired'[x][y]
    <3>1. \A x \in Idx, y \in Idx :
            /\ fired[x][y] <= fed[x] /\ Emitted(y) <= fired[x][y]
            /\ fired[x][y] \in Nat /\ fed[x] \in Nat
      BY Counts DEF Flow, Behind
    <3>2. \A y \in Idx : Emitted(y)' = Emitted(y)
      BY <1>1 DEF Emitted
    <3>3. QED
      BY <3>1, <3>2, <1>1, <1>4, SMTT(60)
  <2>2. \A x \in Idx, y \in Idx, z \in Idx : y <= z =>
          fired'[x][z] <= fired'[x][y] /\ fired'[z][x] <= fired'[y][x]
    BY <1>1 DEF Flow, Behind
  <2>3. QED
    BY <2>1, <2>2 DEF Behind
<1>10. QED
  BY <1>1, <1>7, <1>8, <1>9 DEF Flow

(* When everything is through, nothing is waiting anywhere. *)
LEMMA NothingWaiting ==
    ASSUME TypeOK, Flow, AllThrough
    PROVE  /\ \A i \in Idx : ActWaiting(i, 0) = 0
           /\ \A i \in Idx, j \in Idx \ {0} : ActWaiting(i, j) = 0 /\ ActInHand(i, j-1) = 0
           /\ \A j \in Idx, i \in Idx \ {0} : SumWaiting(i, j) = 0 /\ SumInHand(i-1, j) = 0
           /\ \A j \in Idx : /\ Len(act_out[j]) = 0
                             /\ OutWaiting(j) = 0 /\ SumInHand(N-1, j) = 0
<1>1. \A i \in Idx, j \in Idx, k \in Idx : fired[i][j] = fed[k] /\ ctr[j] = fed[k]
  BY DEF AllThrough
<1>2. \A i \in Idx, j \in Idx :
        /\ ActWaiting(i, j) \in Nat /\ SumWaiting(i, j) \in Nat
        /\ ActInHand(i, j) \in Nat /\ SumInHand(i, j) \in Nat
        /\ fired[i][j] \in Nat /\ fed[i] \in Nat
        /\ OutWaiting(j) \in Nat /\ Emitted(j) \in Nat /\ ctr[j] \in Nat
        /\ Len(act_out[j]) \in Nat
  BY Counts
<1>3. ASSUME NEW i \in Idx
      PROVE  ActWaiting(i, 0) = 0
  <2>1. fed[i] = fired[i][0] + ActWaiting(i, 0)
    BY DEF Flow, ActConserved
  <2>2. fired[i][0] = fed[i] /\ fed[i] \in Nat /\ ActWaiting(i, 0) \in Nat
    BY <1>1, <1>2, Types
  <2>3. QED
    BY <2>1, <2>2
<1>4. \A i \in Idx, j \in Idx \ {0} : ActWaiting(i, j) = 0 /\ ActInHand(i, j-1) = 0
  <2> SUFFICES ASSUME NEW i \in Idx, NEW j \in Idx \ {0}
               PROVE  ActWaiting(i, j) = 0 /\ ActInHand(i, j-1) = 0
    OBVIOUS
  <2>1. j-1 \in Idx
    BY DEF Idx
  <2>2. fired[i][j-1] = fired[i][j] + ActWaiting(i, j) + ActInHand(i, j-1)
    BY DEF Flow, ActConserved
  <2>3. /\ fired[i][j-1] = fired[i][j] /\ fired[i][j] \in Nat
        /\ ActWaiting(i, j) \in Nat /\ ActInHand(i, j-1) \in Nat
    <3>1. fired[i][j-1] = fed[i] /\ fired[i][j] = fed[i]
      BY <2>1, <1>1
    <3>2. QED
      BY <3>1, <2>1, <1>2
  <2>4. QED
    BY <2>2, <2>3
<1>5. \A j \in Idx, i \in Idx \ {0} : SumWaiting(i, j) = 0 /\ SumInHand(i-1, j) = 0
  <2> SUFFICES ASSUME NEW j \in Idx, NEW i \in Idx \ {0}
               PROVE  SumWaiting(i, j) = 0 /\ SumInHand(i-1, j) = 0
    OBVIOUS
  <2>1. i-1 \in Idx
    BY DEF Idx
  <2>2. fired[i-1][j] = fired[i][j] + SumWaiting(i, j) + SumInHand(i-1, j)
    BY DEF Flow, SumConserved
  <2>3. /\ fired[i-1][j] = fired[i][j] /\ fired[i][j] \in Nat
        /\ SumWaiting(i, j) \in Nat /\ SumInHand(i-1, j) \in Nat
    BY <2>1, <1>1, <1>2
  <2>4. QED
    BY <2>2, <2>3
<1>6. \A j \in Idx : /\ Len(act_out[j]) = 0
                     /\ OutWaiting(j) = 0 /\ SumInHand(N-1, j) = 0
  <2> SUFFICES ASSUME NEW j \in Idx
               PROVE  Len(act_out[j]) = 0 /\ OutWaiting(j) = 0 /\ SumInHand(N-1, j) = 0
    OBVIOUS
  <2>1. fired[N-1][j] = Emitted(j) + OutWaiting(j) + SumInHand(N-1, j)
    BY DEF Flow, SumConserved
  <2>2. Emitted(j) = ctr[j] + Len(act_out[j])
    BY DEF Emitted
  <2>3. fired[N-1][j] = ctr[j]
    BY <1>1, Types
  <2>4. /\ ctr[j] \in Nat /\ Len(act_out[j]) \in Nat
        /\ OutWaiting(j) \in Nat /\ SumInHand(N-1, j) \in Nat
    BY <1>2, Types
  <2>5. QED
    BY <2>1, <2>2, <2>3, <2>4, SMTT(60)
<1>7. QED
  BY <1>3, <1>4, <1>5, <1>6

(* When a run starts nothing of the last one is waiting anywhere, so that   *)
(* all the counts may start again from 0.                                   *)
LEMMA StartRunFlow ==
    ASSUME TypeOK, Flow, StartRun
    PROVE  Flow'
<1>1. /\ UNCHANGED <<act_ch, accum_ch, is_act_in, is_accum_in, pc, act_out, bpc>>
      /\ phase = "load" /\ phase' = "run"
      /\ fed' = [i \in Idx |-> 0]
      /\ ctr' = [j \in Idx |-> 0]
      /\ fired' = [i \in Idx |-> [j \in Idx |-> 0]]
  BY DEF StartRun, sumVars, actVars, biasVars
<1>0. AllThrough
  BY <1>1 DEF Flow
<1>2. \A i \in Idx : ActWaiting(i, 0) = 0
  BY <1>0, NothingWaiting
<1>3. \A i \in Idx, j \in Idx \ {0} : ActWaiting(i, j) = 0 /\ ActInHand(i, j-1) = 0
  BY <1>0, NothingWaiting
<1>4. \A j \in Idx, i \in Idx \ {0} : SumWaiting(i, j) = 0 /\ SumInHand(i-1, j) = 0
  BY <1>0, NothingWaiting
<1>5. \A j \in Idx : Len(act_out[j]) = 0 /\ OutWaiting(j) = 0 /\ SumInHand(N-1, j) = 0
  BY <1>0, NothingWaiting
<1>6. /\ \A i \in Idx, j \in Idx :
           /\ ActWaiting(i, j)' = ActWaiting(i, j) /\ SumWaiting(i, j)' = SumWaiting(i, j)
           /\ ActInHand(i, j)' = ActInHand(i, j) /\ SumInHand(i, j)' = SumInHand(i, j)
           /\ fired'[i][j] = 0 /\ fed'[i] = 0 /\ ctr'[i] = 0
      /\ \A j \in Idx : OutWaiting(j)' = OutWaiting(j)
  BY <1>1 DEF ActWaiting, SumWaiting, ActInHand, SumInHand, OutWaiting
<1>7. \A j \in Idx : Emitted(j)' = 0
  BY <1>1, <1>5, <1>6 DEF Emitted
<1>8. ActConserved'
  <2>1. \A x \in Idx : fed'[x] = fired'[x][0] + ActWaiting(x, 0)'
    BY <1>2, <1>6, Types
  <2>2. ASSUME NEW x \in Idx, NEW y \in Idx \ {0}
        PROVE  fired'[x][y-1] = fired'[x][y] + ActWaiting(x, y)' + ActInHand(x, y-1)'
    <3>1. y-1 \in Idx
      BY DEF Idx
    <3>2. QED
      BY <3>1, <1>3, <1>6
  <2>3. QED
    BY <2>1, <2>2 DEF ActConserved
<1>9. SumConserved'
  <2>1. ASSUME NEW y \in Idx, NEW x \in Idx \ {0}
        PROVE  fired'[x-1][y] = fired'[x][y] + SumWaiting(x, y)' + SumInHand(x-1, y)'
    <3>1. x-1 \in Idx
      BY DEF Idx
    <3>2. QED
      BY <3>1, <1>4, <1>6
  <2>2. ASSUME NEW y \in Idx
        PROVE  fired'[N-1][y] = Emitted(y)' + OutWaiting(y)' + SumInHand(N-1, y)'
    <3>1. /\ fired'[N-1][y] = 0 /\ Emitted(y)' = 0
          /\ OutWaiting(y)' = OutWaiting(y) /\ SumInHand(N-1, y)' = SumInHand(N-1, y)
      BY <1>6, <1>7, Types
    <3>2. OutWaiting(y) = 0 /\ SumInHand(N-1, y) = 0
      BY <1>5
    <3>3. QED
      BY <3>1, <3>2
  <2>3. QED
    BY <2>1, <2>2 DEF SumConserved
<1>10. Behind'
  BY <1>6, <1>7 DEF Behind
<1>11. QED
  BY <1>1, <1>8, <1>9, <1>10 DEF Flow

(* WriteReqRun takes outputs that have been pushed. *)
LEMMA CollectCounts ==
    ASSUME TypeOK, CollectOut
    PROVE  /\ UNCHANGED <<fired, fed>> /\ phase = "run" /\ phase' # "load"
           /\ \A i \in Idx, j \in Idx :
                /\ ActWaiting(i, j)' = ActWaiting(i, j) /\ SumWaiting(i, j)' = SumWaiting(i, j)
                /\ ActInHand(i, j)' = ActInHand(i, j) /\ SumInHand(i, j)' = SumInHand(i, j)
                /\ OutWaiting(j)' = OutWaiting(j)
           /\ \A j \in Idx : Emitted(j)' = Emitted(j) /\ ctr'[j] <= Emitted(j) /\ ctr'[j] \in Nat
<1>1. PICK S \in (SUBSET Idx) \ {{}} : CollectOut!2!(S)
  BY DEF CollectOut
<1>2. /\ UNCHANGED <<act_ch, accum_ch, is_act_in, is_accum_in, pc, fired, fed, bpc>>
      /\ phase = "run" /\ phase' # "load"
  BY <1>1 DEF CollectOut, peVars, sumVars, actVars
<1>3. ASSUME NEW j \in Idx
      PROVE  /\ j \in S => /\ act_out[j] # << >>
                           /\ act_out'[j] = Tail(act_out[j])
                           /\ ctr'[j] = ctr[j] + 1
             /\ j \notin S => act_out'[j] = act_out[j] /\ ctr'[j] = ctr[j]
  <2>1. (j \in S) \in PopNB(act_out[j])
    BY <1>1
  <2>2. j \in S => act_out[j] # << >>
    BY <2>1 DEF PopNB, HasMsg
  <2>3. /\ act_out'[j] = After(j \in S, act_out[j])
        /\ ctr'[j] = IF j \in S THEN ctr[j] + 1 ELSE ctr[j]
    BY <1>1
  <2>4. QED
    BY <2>2, <2>3 DEF After
<1>4. ASSUME NEW j \in Idx
      PROVE  Emitted(j)' = Emitted(j) /\ ctr'[j] <= Emitted(j) /\ ctr'[j] \in Nat
  <2>1. act_out[j] \in Seq(Output) /\ Len(act_out[j]) \in Nat /\ ctr[j] \in Nat
    BY Counts DEF TypeOK, BiasType, Chan
  <2>2. CASE j \in S
    <3>1. Len(Tail(act_out[j])) = Len(act_out[j]) - 1 /\ Len(act_out[j]) > 0
      BY <1>3, <2>1, <2>2
    <3>2. act_out'[j] = Tail(act_out[j]) /\ ctr'[j] = ctr[j] + 1
      BY <1>3, <2>2
    <3>3. QED
      BY <3>1, <3>2, <2>1 DEF Emitted
  <2>3. CASE j \notin S
    BY <1>3, <2>1, <2>3 DEF Emitted
  <2>4. QED
    BY <2>2, <2>3
<1>5. \A i \in Idx, j \in Idx :
        /\ ActWaiting(i, j)' = ActWaiting(i, j) /\ SumWaiting(i, j)' = SumWaiting(i, j)
        /\ ActInHand(i, j)' = ActInHand(i, j) /\ SumInHand(i, j)' = SumInHand(i, j)
        /\ OutWaiting(j)' = OutWaiting(j)
  BY <1>2 DEF ActWaiting, SumWaiting, ActInHand, SumInHand, OutWaiting
<1>6. QED
  BY <1>2, <1>4, <1>5

LEMMA CollectOutFlow ==
    ASSUME TypeOK, Flow, CollectOut
    PROVE  Flow'
<1>1. /\ UNCHANGED <<fired, fed>> /\ phase' # "load"
      /\ \A i \in Idx, j \in Idx :
           /\ ActWaiting(i, j)' = ActWaiting(i, j) /\ SumWaiting(i, j)' = SumWaiting(i, j)
           /\ ActInHand(i, j)' = ActInHand(i, j) /\ SumInHand(i, j)' = SumInHand(i, j)
           /\ OutWaiting(j)' = OutWaiting(j)
      /\ \A j \in Idx : Emitted(j)' = Emitted(j)
  BY CollectCounts
<1>2. ActConserved'
  BY <1>1, ActSame DEF Flow
<1>3. SumConserved'
  BY <1>1, SumSame DEF Flow
<1>4. Behind'
  BY <1>1 DEF Flow, Behind
<1>5. QED
  BY <1>1, <1>2, <1>3, <1>4 DEF Flow

-----------------------------------------------------------------------------
LEMMA NextFlow ==
    ASSUME TypeOK, Flow, [Next]_vars, NextLoad => AllThrough
    PROVE  Flow'
<1>1. ASSUME NEW i \in Idx, NEW j \in Idx, PERun(i, j) PROVE Flow'
  <2>1. CASE Poll(i, j)
    BY <2>1, PollFlow
  <2>2. CASE PushAct(i, j)
    BY <2>2, PushActFlow
  <2>3. CASE PushAccum(i, j)
    BY <2>3, PushAccumFlow
  <2>4. CASE PushWeight(i, j)
    <3>1. UNCHANGED phase
      BY <2>4 DEF PushWeight, clientVars
    <3>2. QED
      BY <2>4, <3>1, PushWeightSame, SameCountsPreserve
  <2>5. QED
    BY <1>1, <2>1, <2>2, <2>3, <2>4 DEF PERun
<1>2. ASSUME NEW j \in Idx,
             BiasConfig(j) \/ BiasWeight(j) \/ SysConfigRun \/ WeightPush(j) \/ ConfigWrite
               \/ UNCHANGED vars
      PROVE  Flow'
  BY <1>2, ThreadStepSame, SameCountsPreserve
<1>3. ASSUME NEW j \in Idx, SysBiasRun(j) PROVE Flow'
  <2>1. CASE BiasConfig(j) \/ BiasWeight(j)
    BY <2>1, <1>2
  <2>2. CASE BiasAccum(j)
    <3>1. UNCHANGED phase
      BY <2>2 DEF BiasAccum, clientVars
    <3>2. QED
      BY <2>2, <3>1, BiasAccumSame, SameCountsPreserve
  <2>3. CASE BiasPush(j)
    BY <2>3, BiasPushFlow
  <2>4. QED
    BY <1>3, <2>1, <2>2, <2>3 DEF SysBiasRun
<1>4. CASE SysConfigRun \/ ConfigWrite \/ UNCHANGED vars
  BY <1>4, <1>2, Types
<1>5. CASE ActOutRun \/ AccumInRun
  <2>1. UNCHANGED phase
    BY <1>5 DEF ActOutRun, AccumInRun, clientVars
  <2>2. QED
    BY <1>5, <2>1, ActOutSame, AccumInSame, SameCountsPreserve
<1>6. CASE WeightAxi
  BY <1>6, <1>2 DEF WeightAxi
<1>7. CASE ReadRspRun
  BY <1>7, ActPushFlow DEF ReadRspRun
<1>8. CASE CollectOut
  BY <1>8, CollectOutFlow
<1>9. CASE StartRun
  BY <1>9, StartRunFlow
<1>10. CASE Stop
  BY <1>10, <1>4 DEF Stop
<1>11. CASE NextLoad
  BY <1>11, NextLoadSame, SameCountsPreserve
<1>12. QED
  BY <1>1, <1>3, <1>4, <1>5, <1>6, <1>7, <1>8, <1>9, <1>10, <1>11 DEF Next, Host

-----------------------------------------------------------------------------
(* Without stalls the columns stay in order *)

(* A step that leaves the outputs and the run alone. *)
LEMMA EvenSame ==
    ASSUME TypeOK, TypeOK', Flow', Even, UNCHANGED <<ctr, phase, fed, act_out>>,
           \A i \in Idx, j \in Idx : fired'[i][j] >= fired[i][j]
    PROVE  Even'
<1>1. \A j \in Idx : Emitted(j)' = Emitted(j)
  BY DEF Emitted
<1>2. Abreast'
  BY <1>1 DEF Even, Abreast
<1>3. ASSUME phase = "irq" PROVE AllThrough' /\ \A j \in Idx : ctr'[j] = M
  <2>1. AllThrough /\ \A j \in Idx : ctr[j] = M
    BY <1>3 DEF Even
  <2>2. ASSUME NEW i \in Idx, NEW j \in Idx PROVE fired'[i][j] = fired[i][j]
    <3>1. fired'[i][j] <= fed[i] /\ fired[i][j] = fed[i]
      BY <2>1 DEF Flow, Behind, AllThrough
    <3>2. fired'[i][j] \in Nat /\ fed[i] \in Nat
      BY Counts DEF TypeOK, PhaseType
    <3>3. QED
      BY <3>1, <3>2
  <2>3. QED
    BY <2>1, <2>2 DEF AllThrough
<1>4. QED
  BY <1>2, <1>3 DEF Even

(* Without stalls a column is pushed only after the one on its left. *)
LEMMA BiasPushEven ==
    ASSUME TypeOK, Flow, Even, ~RandStall, NEW j \in Idx, BiasPush(j)
    PROVE  Even'
<1>1. UNCHANGED <<fired, fed, ctr, phase>> /\ InWavefront(j)
  BY BiasPushCounts DEF BiasPush
<1>2. \A y \in Idx : y # j => Emitted(y)' = Emitted(y)
  BY BiasPushCounts
<1>3. Emitted(j)' = Emitted(j) + 1
  BY BiasPushCounts
<1>4. \A y \in Idx : Emitted(y) \in Nat
  BY Counts
<1>5. \A y \in Idx : y < j => Emitted(j) < Emitted(y)
  <2> SUFFICES ASSUME NEW y \in Idx, y < j
               PROVE  Emitted(j) < Emitted(y)
    OBVIOUS
  <2>1. j-1 \in Idx /\ y <= j-1
    BY DEF Idx
  <2>2. Emitted(j) < Emitted(j-1)
    BY <1>1, <2>1 DEF InWavefront, Idx
  <2>3. Emitted(j-1) <= Emitted(y)
    BY <2>1 DEF Even, Abreast
  <2>4. QED
    BY <2>1, <2>2, <2>3, <1>4
<1>6. ASSUME NEW y \in Idx, NEW z \in Idx, y <= z
      PROVE  Emitted(z)' <= Emitted(y)' /\ ctr'[z] <= ctr'[y]
  <2>1. Emitted(z) <= Emitted(y) /\ ctr[z] <= ctr[y]
    BY <1>6 DEF Even, Abreast
  <2>2. CASE y = z
    BY <2>1, <2>2, <1>1, <1>2, <1>3, <1>4
  <2>3. CASE y # z /\ z = j
    <3>1. y < j
      BY <1>6, <2>3 DEF Idx
    <3>2. QED
      BY <3>1, <2>1, <2>3, <1>1, <1>2, <1>3, <1>4, <1>5
  <2>4. CASE y # z /\ z # j
    BY <2>1, <2>4, <1>1, <1>2, <1>3, <1>4
  <2>5. QED
    BY <2>2, <2>3, <2>4
<1>7. QED
  BY <1>1, <1>6 DEF Even, Abreast, AllThrough

(* WriteReqRun is never ahead of the array: when it finds the last column   *)
(* complete, every column is, and nothing is left on the way.               *)
LEMMA CollectOutEven ==
    ASSUME TypeOK, Flow, Even, ~RandStall, CollectOut
    PROVE  Even'
<1>1. PICK S \in (SUBSET Idx) \ {{}} : CollectOut!2!(S)
  BY DEF CollectOut
<1>2. UNCHANGED <<fired, fed>>
  BY CollectCounts
<1>3. ASSUME NEW j \in Idx
      PROVE  /\ j \in S <=> act_out[j] # << >>
             /\ j \in S => ctr'[j] = ctr[j] + 1
             /\ j \notin S => ctr'[j] = ctr[j]
  <2>1. (j \in S) \in PopNB(act_out[j])
    BY <1>1
  <2>2. j \in S <=> act_out[j] # << >>
    BY <2>1 DEF PopNB, HasMsg
  <2>3. ctr'[j] = IF j \in S THEN ctr[j] + 1 ELSE ctr[j]
    BY <1>1
  <2>4. QED
    BY <2>2, <2>3
<1>4. \A j \in Idx : Emitted(j)' = Emitted(j) /\ ctr'[j] <= Emitted(j) /\ ctr'[j] \in Nat
  BY CollectCounts
(* Every column that has an output gives one, so the order of the columns   *)
(* is kept.                                                                 *)
<1>5. ASSUME NEW j \in Idx, NEW k \in Idx, j <= k
      PROVE  ctr'[k] <= ctr'[j]
  <2>1. /\ ctr[k] <= ctr[j] /\ Emitted(k) <= Emitted(j)
        /\ ctr[k] \in Nat /\ ctr[j] \in Nat
        /\ Len(act_out[k]) \in Nat /\ Len(act_out[j]) \in Nat
    BY <1>5, Counts DEF Even, Abreast
  <2>2. CASE ctr[k] < ctr[j]
    BY <1>3, <2>1, <2>2
  <2>3. CASE ctr[k] = ctr[j] /\ j \in S
    BY <1>3, <2>1, <2>3
  <2>4. CASE ctr[k] = ctr[j] /\ j \notin S
    <3>1. Len(act_out[j]) = 0
      BY <1>3, <2>4
    <3>2. Len(act_out[k]) = 0
      BY <3>1, <2>1, <2>4 DEF Emitted
    <3>3. act_out[k] \in Seq(Output)
      BY DEF TypeOK, BiasType, Chan
    <3>4. k \notin S
      BY <1>3, <3>2, <3>3
    <3>5. QED
      BY <1>3, <2>1, <2>4, <3>4
  <2>5. QED
    BY <2>1, <2>2, <2>3, <2>4
<1>6. Abreast'
  BY <1>4, <1>5 DEF Even, Abreast
<1>7. phase' = IF RunDone(ctr') THEN IF ctr'[0] = M THEN "irq" ELSE "abort" ELSE "run"
  BY <1>1
<1>8. CASE ~RunDone(ctr')
  BY <1>6, <1>7, <1>8 DEF Even
<1>9. CASE RunDone(ctr')
  <2>1. ctr'[N-1] = M
    BY <1>9 DEF RunDone
  <2>2. ASSUME NEW j \in Idx
        PROVE  ctr'[j] = M /\ Emitted(j) = M
    <3>1. j <= N-1 /\ N-1 \in Idx /\ 0 \in Idx
      BY Types DEF Idx
    <3>2. M <= ctr'[j] /\ ctr'[j] <= Emitted(j)
      BY <3>1, <2>1, <1>4, <1>5
    <3>3. Emitted(j) <= fired[0][j] /\ fired[0][j] <= fed[0]
      BY <3>1 DEF Flow, Behind
    <3>4. /\ fed[0] <= M /\ fed[0] \in Nat /\ fired[0][j] \in Nat
          /\ Emitted(j) \in Nat /\ ctr'[j] \in Nat
      BY <3>1, <1>4, Counts
    <3>5. QED
      BY <3>2, <3>3, <3>4
  <2>3. ASSUME NEW i \in Idx, NEW j \in Idx
        PROVE  fired[i][j] = M /\ fed[i] = M
    <3>1. Emitted(j) <= fired[i][j] /\ fired[i][j] <= fed[i] /\ Emitted(j) = M
      BY <2>2 DEF Flow, Behind
    <3>2. fed[i] <= M /\ fed[i] \in Nat /\ fired[i][j] \in Nat
      BY Counts
    <3>3. QED
      BY <3>1, <3>2
  <2>4. phase' = "irq"
    BY <1>7, <1>9, <2>2, Types
  <2>5. AllThrough' /\ \A j \in Idx : ctr'[j] = M
    BY <1>2, <2>2, <2>3 DEF AllThrough
  <2>6. QED
    BY <1>6, <2>4, <2>5 DEF Even
<1>10. QED
  BY <1>8, <1>9

(* A run starts with all columns at 0. *)
LEMMA StartRunEven ==
    ASSUME TypeOK, Flow, StartRun
    PROVE  Even'
<1>1. /\ UNCHANGED act_out /\ phase = "load" /\ phase' = "run"
      /\ ctr' = [j \in Idx |-> 0]
  BY DEF StartRun, biasVars
<1>2. \A j \in Idx : Len(act_out[j]) = 0
  BY <1>1, NothingWaiting DEF Flow
<1>3. \A j \in Idx : ctr'[j] = 0 /\ Emitted(j)' = 0
  BY <1>1, <1>2 DEF Emitted
<1>4. QED
  BY <1>1, <1>3 DEF Even, Abreast

LEMMA NextEven ==
    ASSUME TypeOK, TypeOK', Flow, Flow', Even, ~RandStall, [Next]_vars
    PROVE  Even'
<1>0. \A i \in Idx, j \in Idx : fired[i][j] \in Nat
  BY Counts
<1>1. ASSUME NEW i \in Idx, NEW j \in Idx, PERun(i, j) PROVE Even'
  <2>1. UNCHANGED <<ctr, phase, fed, act_out>>
    BY <1>1 DEF PERun, Poll, PushAct, PushAccum, PushWeight, biasVars, clientVars
  <2>2. \A x \in Idx, y \in Idx : fired'[x][y] >= fired[x][y]
    <3>1. CASE Poll(i, j)
      BY <3>1, <1>0, PollCounts
    <3>2. CASE UNCHANGED fired
      BY <3>2, <1>0
    <3>3. QED
      BY <1>1, <3>1, <3>2 DEF PERun, PushAct, PushAccum, PushWeight
  <2>3. QED
    BY <2>1, <2>2, EvenSame, SMTT(60)
<1>2. ASSUME UNCHANGED <<ctr, phase, fed, act_out, fired>> PROVE Even'
  BY <1>0, <1>2, EvenSame
<1>3. ASSUME NEW j \in Idx, SysBiasRun(j) PROVE Even'
  <2>1. CASE BiasPush(j)
    BY <2>1, BiasPushEven
  <2>2. CASE BiasConfig(j) \/ BiasAccum(j) \/ BiasWeight(j)
    BY <2>2, <1>2 DEF BiasConfig, BiasAccum, BiasWeight, peVars, clientVars
  <2>3. QED
    BY <1>3, <2>1, <2>2 DEF SysBiasRun
<1>4. CASE SysConfigRun \/ ActOutRun \/ AccumInRun
  BY <1>4, <1>2 DEF SysConfigRun, ConfigPop, ConfigPush, ActOutRun, AccumInRun, peVars, biasVars, clientVars
<1>5. CASE WeightAxi \/ ConfigWrite
  BY <1>5, <1>2 DEF WeightAxi, WeightPush, ConfigWrite, peVars, biasVars
<1>6. CASE ReadRspRun \/ NextLoad
  <2>1. UNCHANGED <<ctr, act_out>> /\ phase' \in {"run", "load"}
    BY <1>6 DEF ReadRspRun, ActPush, NextLoad, biasVars
  <2>2. QED
    BY <2>1 DEF Even, Abreast, Emitted
<1>7. CASE CollectOut
  BY <1>7, CollectOutEven
<1>8. CASE StartRun
  BY <1>8, StartRunEven
<1>9. CASE Stop \/ UNCHANGED vars
  BY <1>9, <1>2 DEF Stop, vars, peVars, biasVars, clientVars
<1>10. QED
  BY <1>1, <1>3, <1>4, <1>5, <1>6, <1>7, <1>8, <1>9 DEF Next, Host

(* In a build whose ports do not stall at random, a run goes through the    *)
(* array whole and in order.                                                *)
THEOREM RunIsWhole == Spec => [](~RandStall => WholeRun)
<1>1. Init => (~RandStall => WholeRun)
  BY InitWhole
<1>2. TypeOK /\ TypeOK' /\ (~RandStall => WholeRun) /\ [Next]_vars => (~RandStall => WholeRun)'
  <2> SUFFICES ASSUME TypeOK, TypeOK', WholeRun, ~RandStall, [Next]_vars
               PROVE  WholeRun'
    OBVIOUS
  <2>1. Flow /\ Even
    BY WholeIs
  <2>2. NextLoad => AllThrough
    BY <2>1 DEF Even, NextLoad
  <2>3. Flow'
    BY <2>1, <2>2, NextFlow
  <2>4. Even'
    BY <2>1, <2>3, NextEven
  <2>5. QED
    BY <2>3, <2>4, WholeIs, PTL
<1>3. QED
  BY <1>1, <1>2, TypeCorrect, PTL DEF Spec

(* ... so the assertion in WriteReqRun cannot fail, and the computation     *)
(* interrupt is raised only when every column has delivered all its outputs. *)
THEOREM CompletionCorrect ==
    Spec => [](~RandStall => AssertHolds /\ AllColumnsAtDone)
<1>1. (~RandStall => WholeRun) => (~RandStall => AssertHolds /\ AllColumnsAtDone)
  BY DEF WholeRun, AssertHolds, AllColumnsAtDone
<1>2. QED
  BY <1>1, RunIsWhole, PTL

(* The first run, and a run that has not been stopped, were so all along.   *)
LEMMA FirstRun ==
    ASSUME TypeOK, [Next]_vars
    PROVE  /\ gen' = 1 => gen = 1 /\ ~NextLoad
           /\ phase' # "abort" => phase # "abort"
<1>1. gen \in Nat /\ gen >= 1
  BY GensAssumption DEF TypeOK, ClientType
<1>2. CASE NextLoad
  BY <1>1, <1>2 DEF NextLoad
<1>3. CASE StartRun \/ CollectOut
  BY <1>3 DEF StartRun, CollectOut, NextLoad
<1>4. CASE UNCHANGED <<gen, phase>>
  BY <1>1, <1>4, SMTT(60) DEF NextLoad
<1>5. ASSUME NEW i \in Idx, NEW j \in Idx, PERun(i, j) PROVE UNCHANGED <<gen, phase>>
  BY <1>5 DEF PERun, Poll, PushAct, PushAccum, PushWeight, biasVars, clientVars
<1>6. ASSUME NEW j \in Idx, SysBiasRun(j) PROVE UNCHANGED <<gen, phase>>
  BY <1>6 DEF SysBiasRun, BiasConfig, BiasAccum, BiasWeight, BiasPush, clientVars
<1>7. CASE SysConfigRun \/ ActOutRun \/ AccumInRun
  BY <1>7, <1>4 DEF SysConfigRun, ConfigPop, ConfigPush, ActOutRun, AccumInRun, clientVars
<1>8. CASE WeightAxi \/ ReadRspRun \/ ConfigWrite
  BY <1>8, <1>4 DEF WeightAxi, WeightPush, ReadRspRun, ActPush, ConfigWrite
<1>9. CASE Stop \/ UNCHANGED vars
  BY <1>9, <1>4 DEF Stop, vars, clientVars
<1>10. QED
  BY <1>2, <1>3, <1>4, <1>5, <1>6, <1>7, <1>8, <1>9 DEF Next, Host

(* With random stalls it holds in the first run that nothing is lost on the *)
(* way, and that a run which has not started has nothing in the array.      *)
THEOREM FirstRunFlows == Spec => [](gen = 1 => Flow)
<1>1. Init => Flow
  BY InitWhole, WholeIs
<1>2. TypeOK /\ (gen = 1 => Flow) /\ [Next]_vars => (gen = 1 => Flow)'
  BY FirstRun, NextFlow
<1>3. QED
  BY <1>1, <1>2, TypeCorrect, PTL DEF Spec

-----------------------------------------------------------------------------
(* What should flow through the array in run g *)

(* The activations of row i. *)
ActStream(g, i) == [m \in Nat |-> <<g, i, m>>]

(* The sums that leave row i - 1 of column j: of vector m, over the rows    *)
(* above row i.                                                             *)
SumStream(g, i, j) ==
    [m \in Nat |-> {<< <<g, r, m>>, <<j, g, r>> >> : r \in 0 .. i-1}]

(* The outputs of column j. *)
OutStream(g, j) == [m \in Nat |-> Promise!Expected(g, j, m)]

(* Channel ch holds the elements of the stream f from the b-th on. *)
Carries(ch, f, b) == \A n \in 1 .. Len(ch) : ch[n] = f[b + (n - 1)]

One(held) == IF held THEN 1 ELSE 0

-----------------------------------------------------------------------------
(* The inductive invariant *)

(* What a PE holds, and what waits on its left, are the vectors that follow *)
(* those it has used.                                                       *)
ActCell(i, j) ==
    /\ Carries(act_ch[i][j], ActStream(gen, i), fired[i][j] + One(is_act_in[i][j]))
    /\ is_act_in[i][j] => act_reg[i][j] = ActStream(gen, i)[fired[i][j]]
    /\ pc[i][j] = "act" => act_reg[i][j] = ActStream(gen, i)[fired[i][j] - 1]

(* ... and above it, the sums of the same vectors over the rows above. *)
SumCell(i, j) ==
    /\ Carries(accum_ch[i][j], SumStream(gen, i, j), fired[i][j] + One(is_accum_in[i][j]))
    /\ is_accum_in[i][j] => accum_reg[i][j] = SumStream(gen, i, j)[fired[i][j]]
    /\ pc[i][j] \in {"act", "accum"} =>
         accum_out_reg[i][j] = SumStream(gen, i + 1, j)[fired[i][j] - 1]

(* The sums of a column reach SysBias, and its outputs WriteReqRun, in the  *)
(* order of the vectors.                                                    *)
OutCell(j) ==
    /\ Carries(accum_ch[N][j], SumStream(gen, N, j), Emitted(j) + One(bpc[j] = "push"))
    /\ bpc[j] = "push" => out_reg[j] = OutStream(gen, j)[Emitted(j)]
    /\ Carries(act_out[j], OutStream(gen, j), ctr[j])

DataInv ==
    /\ \A i \in Idx, j \in Idx : ActCell(i, j) /\ SumCell(i, j)
    /\ \A j \in Idx : OutCell(j)
    /\ ResultCorrect

(* What is known of the array, with and without stalls. *)
ArrayInv == TypeOK /\ Flow /\ LoadInv /\ phase # "abort"

-----------------------------------------------------------------------------
(* Channels that carry a stream *)

LEMMA CarriesEmpty ==
    ASSUME NEW f, NEW b
    PROVE  Carries(<< >>, f, b)
BY DEF Carries

LEMMA CarriesPop ==
    ASSUME NEW T, NEW ch \in Seq(T), ch # << >>, NEW f, NEW b \in Nat, Carries(ch, f, b)
    PROVE  Head(ch) = f[b] /\ Carries(Tail(ch), f, b + 1)
<1>1. Len(ch) \in Nat /\ Len(ch) >= 1 /\ Len(Tail(ch)) = Len(ch) - 1 /\ Head(ch) = ch[1]
  OBVIOUS
<1>2. Head(ch) = f[b]
  <2>1. 1 \in 1 .. Len(ch) /\ b + (1 - 1) = b
    BY <1>1
  <2>2. QED
    BY <1>1, <2>1 DEF Carries
<1>3. ASSUME NEW n \in 1 .. Len(Tail(ch))
      PROVE  Tail(ch)[n] = f[(b + 1) + (n - 1)]
  <2>1. Tail(ch)[n] = ch[n + 1] /\ n + 1 \in 1 .. Len(ch)
    BY <1>1
  <2>2. b + ((n + 1) - 1) = (b + 1) + (n - 1)
    OBVIOUS
  <2>3. QED
    BY <2>1, <2>2 DEF Carries
<1>4. QED
  BY <1>2, <1>3 DEF Carries

LEMMA CarriesPush ==
    ASSUME NEW T, NEW ch \in Seq(T), NEW x \in T, NEW f, NEW b \in Nat, Carries(ch, f, b),
           NEW l \in Nat, l = Len(ch), x = f[b + l]
    PROVE  Carries(Append(ch, x), f, b)
<1>1. Len(Append(ch, x)) = l + 1
  OBVIOUS
<1>2. ASSUME NEW n \in 1 .. Len(Append(ch, x))
      PROVE  Append(ch, x)[n] = f[b + (n - 1)]
  <2>1. CASE n = l + 1
    <3>1. Append(ch, x)[n] = x /\ b + (n - 1) = b + l
      BY <2>1
    <3>2. QED
      BY <3>1
  <2>2. CASE n # l + 1
    <3>1. n \in 1 .. Len(ch) /\ Append(ch, x)[n] = ch[n]
      BY <1>1, <2>2
    <3>2. QED
      BY <3>1 DEF Carries
  <2>3. QED
    BY <2>1, <2>2
<1>3. QED
  BY <1>2 DEF Carries

(* Multiplying and accumulating turns the sum over the rows above into the  *)
(* sum that includes this row.                                              *)
LEMMA SumNext ==
    ASSUME NEW i \in Idx, NEW j \in Idx, NEW g \in Nat, NEW m \in Nat
    PROVE  SumStream(g, i + 1, j)[m]
             = SumStream(g, i, j)[m] \cup Product(ActStream(g, i)[m], <<j, g, i>>)
<1>1. i \in Nat /\ 0 .. (i + 1) - 1 = (0 .. i - 1) \cup {i}
  BY DEF Idx
<1>2. /\ SumStream(g, i + 1, j)[m] = {<< <<g, r, m>>, <<j, g, r>> >> : r \in 0 .. (i + 1) - 1}
      /\ SumStream(g, i, j)[m] = {<< <<g, r, m>>, <<j, g, r>> >> : r \in 0 .. i - 1}
      /\ ActStream(g, i)[m] = <<g, i, m>>
  BY DEF SumStream, ActStream
<1>3. {<< <<g, r, m>>, <<j, g, r>> >> : r \in (0 .. i - 1) \cup {i}}
        = {<< <<g, r, m>>, <<j, g, r>> >> : r \in 0 .. i - 1} \cup {<< <<g, i, m>>, <<j, g, i>> >>}
  OBVIOUS
<1>4. QED
  BY <1>1, <1>2, <1>3 DEF Product

(* Nothing is above row 0. *)
LEMMA SumFirst ==
    ASSUME NEW g, NEW j, NEW m \in Nat
    PROVE  SumStream(g, 0, j)[m] = {}
<1>1. 0 .. 0 - 1 = {}
  OBVIOUS
<1>2. SumStream(g, 0, j)[m] = {<< <<g, r, m>>, <<j, g, r>> >> : r \in 0 .. 0 - 1}
  BY DEF SumStream
<1>3. QED
  BY <1>1, <1>2
-----------------------------------------------------------------------------
(* The counts of Flow, as positions in the streams *)
LEMMA WaitingIs ==
    ASSUME NEW T, NEW ch \in Seq(T), NEW held \in BOOLEAN
    PROVE  Len(ch) \in Nat /\ Waiting(ch, held) = Len(ch) + One(held)
<1>1. Len(ch) \in Nat
  OBVIOUS
<1>2. CASE held
  BY <1>1, <1>2 DEF Waiting, One
<1>3. CASE ~held
  BY <1>1, <1>3 DEF Waiting, One
<1>4. QED
  BY <1>1, <1>2, <1>3

LEMMA Positions ==
    ASSUME TypeOK
    PROVE  /\ gen \in Nat
           /\ \A i \in Idx, j \in Idx :
                /\ act_ch[i][j] \in Seq(Act) /\ accum_ch[i][j] \in Seq(Sum)
                /\ act_reg[i][j] \in Act /\ accum_reg[i][j] \in Sum
                /\ accum_out_reg[i][j] \in Sum
                /\ is_act_in[i][j] \in BOOLEAN /\ is_accum_in[i][j] \in BOOLEAN
                /\ fired[i][j] \in Nat
                /\ Len(act_ch[i][j]) \in Nat /\ Len(accum_ch[i][j]) \in Nat
                /\ ActWaiting(i, j) = Len(act_ch[i][j]) + One(is_act_in[i][j])
                /\ SumWaiting(i, j) = Len(accum_ch[i][j]) + One(is_accum_in[i][j])
           /\ \A j \in Idx :
                /\ accum_ch[N][j] \in Seq(Sum) /\ act_out[j] \in Seq(Output)
                /\ out_reg[j] \in Output /\ (bpc[j] = "push") \in BOOLEAN
                /\ ctr[j] \in Nat /\ Emitted(j) \in Nat
                /\ Len(accum_ch[N][j]) \in Nat /\ Len(act_out[j]) \in Nat
                /\ OutWaiting(j) = Len(accum_ch[N][j]) + One(bpc[j] = "push")
                /\ Emitted(j) = ctr[j] + Len(act_out[j])
           /\ \A held : One(held) \in Nat
<1>1. gen \in Nat
  BY WordCounts
<1>2. ASSUME NEW i \in Idx, NEW j \in Idx
      PROVE  /\ act_ch[i][j] \in Seq(Act) /\ accum_ch[i][j] \in Seq(Sum)
             /\ act_reg[i][j] \in Act /\ accum_reg[i][j] \in Sum
             /\ accum_out_reg[i][j] \in Sum
             /\ is_act_in[i][j] \in BOOLEAN /\ is_accum_in[i][j] \in BOOLEAN
             /\ fired[i][j] \in Nat
             /\ Len(act_ch[i][j]) \in Nat /\ Len(accum_ch[i][j]) \in Nat
             /\ ActWaiting(i, j) = Len(act_ch[i][j]) + One(is_act_in[i][j])
             /\ SumWaiting(i, j) = Len(accum_ch[i][j]) + One(is_accum_in[i][j])
  <2>1. /\ act_ch[i][j] \in Chan(Act) /\ accum_ch[i][j] \in Chan(Sum)
        /\ act_reg[i][j] \in Act /\ accum_reg[i][j] \in Sum
        /\ accum_out_reg[i][j] \in Sum
        /\ is_act_in[i][j] \in BOOLEAN /\ is_accum_in[i][j] \in BOOLEAN
        /\ fired[i][j] \in Nat
    BY Types DEF TypeOK, ActType, SumType, PhaseType
  <2>2. /\ act_ch[i][j] \in Seq(Act) /\ accum_ch[i][j] \in Seq(Sum)
        /\ Len(act_ch[i][j]) \in Nat /\ Len(accum_ch[i][j]) \in Nat
    BY <2>1 DEF Chan
  <2>3. /\ ActWaiting(i, j) = Len(act_ch[i][j]) + One(is_act_in[i][j])
        /\ SumWaiting(i, j) = Len(accum_ch[i][j]) + One(is_accum_in[i][j])
    BY <2>1, <2>2, WaitingIs DEF ActWaiting, SumWaiting
  <2>4. QED
    BY <2>1, <2>2, <2>3
<1>3. ASSUME NEW j \in Idx
      PROVE  /\ accum_ch[N][j] \in Seq(Sum) /\ act_out[j] \in Seq(Output)
             /\ out_reg[j] \in Output /\ (bpc[j] = "push") \in BOOLEAN
             /\ ctr[j] \in Nat /\ Emitted(j) \in Nat
             /\ Len(accum_ch[N][j]) \in Nat /\ Len(act_out[j]) \in Nat
             /\ OutWaiting(j) = Len(accum_ch[N][j]) + One(bpc[j] = "push")
             /\ Emitted(j) = ctr[j] + Len(act_out[j])
  <2>1. /\ accum_ch[N][j] \in Chan(Sum) /\ act_out[j] \in Chan(Output)
        /\ out_reg[j] \in Output /\ ctr[j] \in Nat
    BY Types DEF TypeOK, SumType, BiasType, ClientType
  <2>2. /\ accum_ch[N][j] \in Seq(Sum) /\ act_out[j] \in Seq(Output)
        /\ Len(accum_ch[N][j]) \in Nat /\ Len(act_out[j]) \in Nat
    BY <2>1 DEF Chan
  <2>3. /\ OutWaiting(j) = Len(accum_ch[N][j]) + One(bpc[j] = "push")
        /\ Emitted(j) = ctr[j] + Len(act_out[j])
    BY <2>2, WaitingIs DEF OutWaiting, Emitted
  <2>4. Emitted(j) \in Nat
    BY <2>1, <2>2, <2>3
  <2>5. QED
    BY <2>1, <2>2, <2>3, <2>4
<1>4. \A held : One(held) \in Nat
  BY DEF One
<1>5. QED
  BY <1>1, <1>2, <1>3, <1>4

(* Something waits in the array only during a run. *)
LEMMA WaitingInRun ==
    ASSUME ArrayInv, NEW i \in Idx, NEW j \in Idx, ActWaiting(i, j) # 0 \/ OutWaiting(j) # 0
    PROVE  phase \in {"run", "irq"}
<1>1. phase \in {"load", "run", "irq"}
  BY DEF ArrayInv, TypeOK, ClientType
<1>2. phase # "load"
  BY NothingWaiting DEF ArrayInv, Flow
<1>3. QED
  BY <1>1, <1>2

-----------------------------------------------------------------------------
(* Steps that leave a cell alone *)

LEMMA ActCellSame ==
    ASSUME NEW i \in Idx, NEW j \in Idx, ActCell(i, j),
           gen' = gen, fired'[i][j] = fired[i][j],
           act_ch'[i][j] = act_ch[i][j], act_reg'[i][j] = act_reg[i][j],
           is_act_in'[i][j] = is_act_in[i][j],
           pc'[i][j] = "act" => pc[i][j] = "act"
    PROVE  ActCell(i, j)'
BY DEF ActCell, Carries, ActStream, One

LEMMA SumCellSame ==
    ASSUME NEW i \in Idx, NEW j \in Idx, SumCell(i, j),
           gen' = gen, fired'[i][j] = fired[i][j],
           accum_ch'[i][j] = accum_ch[i][j], accum_reg'[i][j] = accum_reg[i][j],
           accum_out_reg'[i][j] = accum_out_reg[i][j],
           is_accum_in'[i][j] = is_accum_in[i][j],
           pc'[i][j] \in {"act", "accum"} => pc[i][j] \in {"act", "accum"}
    PROVE  SumCell(i, j)'
<1>1. /\ SumStream(gen', i, j) = SumStream(gen, i, j)
      /\ SumStream(gen', i + 1, j) = SumStream(gen, i + 1, j)
  OBVIOUS
<1>2. QED
  BY <1>1 DEF SumCell

LEMMA OutCellSame ==
    ASSUME NEW j \in Idx, OutCell(j),
           gen' = gen, ctr'[j] = ctr[j], act_out'[j] = act_out[j], bpc'[j] = bpc[j],
           out_reg'[j] = out_reg[j], accum_ch'[N][j] = accum_ch[N][j]
    PROVE  OutCell(j)'
<1>1. /\ SumStream(gen', N, j) = SumStream(gen, N, j)
      /\ OutStream(gen', j) = OutStream(gen, j)
  OBVIOUS
<1>2. Emitted(j)' = Emitted(j)
  BY DEF Emitted
<1>3. QED
  BY <1>1, <1>2 DEF OutCell

LEMMA ResultSame ==
    ASSUME ResultCorrect, UNCHANGED <<gen, ctr, result>>,
           phase' \in {"run", "irq"} => phase \in {"run", "irq"}
    PROVE  ResultCorrect'
BY DEF ResultCorrect, Promise!Expected

-----------------------------------------------------------------------------
(* SysPE *)

LEMMA PollData ==
    ASSUME ArrayInv, DataInv, NEW i \in Idx, NEW j \in Idx, Poll(i, j)
    PROVE  DataInv'
<1>0. PICK w \in PopNB(weight_ch[i][j]),
           a \in IF is_act_in[i][j] THEN {FALSE} ELSE PopNB(act_ch[i][j]),
           s \in IF is_accum_in[i][j] THEN {FALSE} ELSE PopNB(accum_ch[i][j]) :
             Poll(i, j)!2!(w, a, s)
  BY DEF Poll
<1>1. /\ UNCHANGED <<bpc, out_reg, act_out, gen, ctr, result, phase>>
      /\ TypeOK
      /\ pc[i][j] = "poll"
      /\ is_act_in[i][j] \in BOOLEAN /\ is_accum_in[i][j] \in BOOLEAN
  BY Positions DEF Poll, biasVars, clientVars, ArrayInv
<1>2. /\ a \in BOOLEAN /\ (a => ~is_act_in[i][j] /\ act_ch[i][j] # << >>)
      /\ s \in BOOLEAN /\ (s => ~is_accum_in[i][j] /\ accum_ch[i][j] # << >>)
  BY <1>0 DEF PopNB, HasMsg
<1>a. PICK gotA \in BOOLEAN : gotA = (is_act_in[i][j] \/ a)
  BY <1>1, <1>2
<1>b. PICK gotS \in BOOLEAN : gotS = (is_accum_in[i][j] \/ s)
  BY <1>1, <1>2
<1> DEFINE fires == gotA /\ gotS
<1>3. /\ \A x \in Idx, y \in Idx : <<x, y>> # <<i, j>> =>
           /\ act_ch'[x][y] = act_ch[x][y] /\ act_reg'[x][y] = act_reg[x][y]
           /\ is_act_in'[x][y] = is_act_in[x][y]
      /\ act_ch'[i][j] = After(a, act_ch[i][j])
      /\ act_reg'[i][j] = Got(a, act_ch[i][j], act_reg[i][j])
      /\ is_act_in'[i][j] = (gotA /\ ~fires)
  BY <1>0, <1>1, <1>a, <1>b, Types DEF TypeOK, ActType, Fires
<1>4. /\ \A x \in Ext, y \in Idx : <<x, y>> # <<i, j>> => accum_ch'[x][y] = accum_ch[x][y]
      /\ \A x \in Idx, y \in Idx : <<x, y>> # <<i, j>> =>
           /\ accum_reg'[x][y] = accum_reg[x][y]
           /\ accum_out_reg'[x][y] = accum_out_reg[x][y]
           /\ is_accum_in'[x][y] = is_accum_in[x][y]
      /\ accum_ch'[i][j] = After(s, accum_ch[i][j])
      /\ accum_reg'[i][j] = Got(s, accum_ch[i][j], accum_reg[i][j])
      /\ is_accum_in'[i][j] = (gotS /\ ~fires)
      /\ fires => accum_out_reg'[i][j] =
                    accum_reg'[i][j] \cup Product(act_reg'[i][j], weight_reg'[i][j])
  BY <1>0, <1>1, <1>a, <1>b, Types DEF TypeOK, SumType, Fires
<1>5. /\ \A x \in Idx, y \in Idx : <<x, y>> # <<i, j>> =>
           pc'[x][y] = pc[x][y] /\ fired'[x][y] = fired[x][y]
      /\ fires => pc'[i][j] = "act" /\ fired'[i][j] = fired[i][j] + 1
      /\ ~fires => pc'[i][j] \in {"poll", "weight"} /\ fired'[i][j] = fired[i][j]
  BY <1>0, <1>1, <1>a, <1>b DEF TypeOK, PhaseType, Fires
<1>6. /\ Carries(act_ch'[i][j], ActStream(gen, i), fired[i][j] + One(gotA))
      /\ gotA => act_reg'[i][j] = ActStream(gen, i)[fired[i][j]]
  <2>1. /\ act_ch[i][j] \in Seq(Act) /\ fired[i][j] \in Nat
        /\ Carries(act_ch[i][j], ActStream(gen, i), fired[i][j] + One(is_act_in[i][j]))
        /\ is_act_in[i][j] => act_reg[i][j] = ActStream(gen, i)[fired[i][j]]
    BY <1>1, Positions DEF DataInv, ActCell
  <2>2. CASE a
    <3>0. ~is_act_in[i][j] /\ gotA /\ act_ch[i][j] # << >>
      BY <2>2, <1>2, <1>a
    <3>1. One(is_act_in[i][j]) = 0 /\ One(gotA) = 1 /\ fired[i][j] + 0 = fired[i][j]
      BY <2>1, <3>0 DEF One
    <3>2. Carries(act_ch[i][j], ActStream(gen, i), fired[i][j])
      BY <2>1, <3>1
    <3>3. /\ Head(act_ch[i][j]) = ActStream(gen, i)[fired[i][j]]
          /\ Carries(Tail(act_ch[i][j]), ActStream(gen, i), fired[i][j] + 1)
      BY <2>1, <3>0, <3>2, CarriesPop
    <3>4. QED
      BY <2>2, <1>3, <3>1, <3>3 DEF After, Got
  <2>3. CASE ~a
    <3>1. gotA = is_act_in[i][j]
      BY <2>3, <1>1, <1>a
    <3>2. QED
      BY <2>1, <2>3, <3>1, <1>3 DEF After, Got
  <2>4. QED
    BY <1>2, <2>2, <2>3
<1>7. /\ Carries(accum_ch'[i][j], SumStream(gen, i, j), fired[i][j] + One(gotS))
      /\ gotS => accum_reg'[i][j] = SumStream(gen, i, j)[fired[i][j]]
  <2>1. /\ accum_ch[i][j] \in Seq(Sum) /\ fired[i][j] \in Nat
        /\ Carries(accum_ch[i][j], SumStream(gen, i, j), fired[i][j] + One(is_accum_in[i][j]))
        /\ is_accum_in[i][j] => accum_reg[i][j] = SumStream(gen, i, j)[fired[i][j]]
    BY <1>1, Positions DEF DataInv, SumCell
  <2>2. CASE s
    <3>0. ~is_accum_in[i][j] /\ gotS /\ accum_ch[i][j] # << >>
      BY <2>2, <1>2, <1>b
    <3>1. One(is_accum_in[i][j]) = 0 /\ One(gotS) = 1 /\ fired[i][j] + 0 = fired[i][j]
      BY <2>1, <3>0 DEF One
    <3>2. Carries(accum_ch[i][j], SumStream(gen, i, j), fired[i][j])
      BY <2>1, <3>1
    <3>3. /\ Head(accum_ch[i][j]) = SumStream(gen, i, j)[fired[i][j]]
          /\ Carries(Tail(accum_ch[i][j]), SumStream(gen, i, j), fired[i][j] + 1)
      BY <2>1, <3>0, <3>2, CarriesPop
    <3>4. QED
      BY <2>2, <1>4, <3>1, <3>3 DEF After, Got
  <2>3. CASE ~s
    <3>1. gotS = is_accum_in[i][j]
      BY <2>3, <1>1, <1>b
    <3>2. QED
      BY <2>1, <2>3, <3>1, <1>4 DEF After, Got
  <2>4. QED
    BY <1>2, <2>2, <2>3
<1>8. \A x \in Idx, y \in Idx : <<x, y>> # <<i, j>> => ActCell(x, y)' /\ SumCell(x, y)'
  <2> SUFFICES ASSUME NEW x \in Idx, NEW y \in Idx, <<x, y>> # <<i, j>>
               PROVE  ActCell(x, y)' /\ SumCell(x, y)'
    OBVIOUS
  <2>1. ActCell(x, y)'
    BY <1>1, <1>3, <1>5, ActCellSame DEF DataInv
  <2>2. SumCell(x, y)'
    BY <1>1, <1>4, <1>5, Types, SumCellSame, SMTT(60) DEF DataInv
  <2>3. QED
    BY <2>1, <2>2
<1>9. \A y \in Idx : OutCell(y)'
  <2>1. \A y \in Idx : accum_ch'[N][y] = accum_ch[N][y]
    BY <1>4, Types
  <2>2. QED
    BY <2>1, <1>1, OutCellSame DEF DataInv
<1>10. ResultCorrect'
  BY <1>1, ResultSame DEF DataInv
<1>11. ActCell(i, j)' /\ SumCell(i, j)'
  <2>0. fired[i][j] \in Nat /\ gen \in Nat
    BY <1>1, Positions
  <2>1. CASE fires
    <3>1. gotA /\ gotS
      BY <2>1
    <3>2. /\ fired'[i][j] = fired[i][j] + 1 /\ pc'[i][j] = "act"
          /\ ~is_act_in'[i][j] /\ ~is_accum_in'[i][j]
      BY <1>3, <1>4, <1>5, <2>1
    <3>3. /\ One(gotA) = 1 /\ One(gotS) = 1
          /\ One(is_act_in'[i][j]) = 0 /\ One(is_accum_in'[i][j]) = 0
          /\ fired'[i][j] + 0 = fired[i][j] + 1 /\ fired'[i][j] - 1 = fired[i][j]
      BY <2>0, <3>1, <3>2 DEF One
    <3>4. weight_reg'[i][j] = <<j, gen, i>>
      <4>1. ActWaiting(i, j) # 0
        <5>1. fired'[i][j] # fired[i][j]
          BY <2>0, <3>2
        <5>2. ActWaiting(i, j) >= 1
          BY <1>1, <5>1, PollCounts
        <5>3. QED
          BY <5>2
      <4>2. phase \in {"run", "irq"}
        BY <4>1, WaitingInRun
      <4>3. weight_reg[i][j] = <<j, gen, i>> /\ weight_ch[i][j] = << >>
        BY <4>2, LoadedRight, Types DEF ArrayInv, WeightStationary, Settled
      <4>4. ~w
        BY <4>3, <1>0 DEF PopNB, HasMsg
      <4>5. weight_reg'[i][j] = weight_reg[i][j]
        BY <4>4, <1>0, <1>1 DEF TypeOK, WeightType, Got
      <4>6. QED
        BY <4>3, <4>5
    <3>5. accum_out_reg'[i][j] = SumStream(gen, i + 1, j)[fired[i][j]]
      <4>1. accum_out_reg'[i][j] = SumStream(gen, i, j)[fired[i][j]]
                                     \cup Product(ActStream(gen, i)[fired[i][j]], <<j, gen, i>>)
        BY <1>4, <1>6, <1>7, <2>1, <3>1, <3>4
      <4>2. QED
        BY <4>1, <2>0, SumNext
    <3>6. ActCell(i, j)'
      BY <1>1, <1>6, <3>1, <3>2, <3>3 DEF ActCell
    <3>7. SumCell(i, j)'
      BY <1>1, <1>7, <3>1, <3>2, <3>3, <3>5 DEF SumCell
    <3>8. QED
      BY <3>6, <3>7
  <2>2. CASE ~fires
    <3>1. /\ is_act_in'[i][j] = gotA /\ is_accum_in'[i][j] = gotS
          /\ fired'[i][j] = fired[i][j] /\ pc'[i][j] \notin {"act", "accum"}
      BY <1>2, <1>3, <1>4, <1>5, <2>2
    <3>2. ActCell(i, j)'
      BY <1>1, <1>6, <3>1 DEF ActCell
    <3>3. SumCell(i, j)'
      BY <1>1, <1>7, <3>1 DEF SumCell
    <3>4. QED
      BY <3>2, <3>3
  <2>3. QED
    BY <2>1, <2>2
<1>12. QED
  BY <1>8, <1>9, <1>10, <1>11, SMTT(60) DEF DataInv

(* The words a PE pushes to its right and below are the next ones there. *)
LEMMA PushActData ==
    ASSUME ArrayInv, DataInv, NEW i \in Idx, NEW j \in Idx, PushAct(i, j)
    PROVE  DataInv'
<1>1. /\ UNCHANGED <<bpc, out_reg, act_out, gen, ctr, result, phase, act_reg, is_act_in,
                     accum_ch, accum_reg, accum_out_reg, is_accum_in, fired>>
      /\ TypeOK
      /\ pc[i][j] = "act"
  BY DEF PushAct, sumVars, biasVars, clientVars, ArrayInv
<1>2. /\ \A x \in Idx, y \in Idx : <<x, y>> # <<i, j + 1>> => act_ch'[x][y] = act_ch[x][y]
      /\ j + 1 \in Idx => act_ch'[i][j+1] = Append(act_ch[i][j+1], act_reg[i][j])
      /\ \A x \in Idx, y \in Idx : pc'[x][y] \in {"act", "accum"} => pc[x][y] \in {"act", "accum"}
      /\ \A x \in Idx, y \in Idx : pc'[x][y] = "act" => pc[x][y] = "act"
  BY <1>1, Types DEF TypeOK, PhaseType, ActType, PushAct
<1>3. \A x \in Idx, y \in Idx : <<x, y>> # <<i, j + 1>> => ActCell(x, y)'
  BY <1>1, <1>2, ActCellSame DEF DataInv
<1>4. \A x \in Idx, y \in Idx : SumCell(x, y)'
  BY <1>1, <1>2, SumCellSame DEF DataInv
<1>5. \A y \in Idx : OutCell(y)'
  BY <1>1, OutCellSame DEF DataInv
<1>6. ResultCorrect'
  BY <1>1, ResultSame DEF DataInv
<1>7. ASSUME j + 1 \in Idx PROVE ActCell(i, j + 1)'
  <2>1. ActCell(i, j) /\ ActCell(i, j + 1)
    BY <1>7 DEF DataInv
  <2>2. PICK b \in Nat : b = fired[i][j+1] + One(is_act_in[i][j+1])
    <3>1. fired[i][j+1] \in Nat /\ One(is_act_in[i][j+1]) \in Nat
      BY <1>1, <1>7, Positions
    <3>2. QED
      BY <3>1
  <2>3. PICK l \in Nat : l = Len(act_ch[i][j+1])
    BY <1>1, <1>7, Positions
  <2>4. fired[i][j] - 1 = b + l
    <3>1. fired[i][j] = fired[i][j+1] + ActWaiting(i, j+1) + ActInHand(i, j)
      <4>1. j + 1 # 0 /\ (j + 1) - 1 = j
        BY DEF Idx
      <4>2. fired[i][(j+1)-1] = fired[i][j+1] + ActWaiting(i, j+1) + ActInHand(i, (j+1)-1)
        BY <4>1, <1>7 DEF ArrayInv, Flow, ActConserved
      <4>3. QED
        BY <4>1, <4>2
    <3>2. ActInHand(i, j) = 1
      BY <1>1 DEF ActInHand
    <3>3. ActWaiting(i, j+1) = l + One(is_act_in[i][j+1])
      BY <1>1, <1>7, <2>3, Positions
    <3>4. fired[i][j+1] \in Nat /\ One(is_act_in[i][j+1]) \in Nat
      BY <1>1, <1>7, Positions
    <3>5. QED
      BY <2>2, <3>1, <3>2, <3>3, <3>4
  <2>5. act_reg[i][j] = ActStream(gen, i)[b + l]
    BY <1>1, <2>1, <2>4 DEF ActCell
  <2>6. /\ Carries(act_ch[i][j+1], ActStream(gen, i), b)
        /\ act_ch[i][j+1] \in Seq(Act) /\ act_reg[i][j] \in Act
    BY <1>1, <1>7, <2>1, <2>2, Positions DEF ActCell
  <2>7. Carries(act_ch'[i][j+1], ActStream(gen, i), b)
    <3>1. act_ch'[i][j+1] = Append(act_ch[i][j+1], act_reg[i][j])
      BY <1>2, <1>7
    <3>2. QED
      BY <2>3, <2>5, <2>6, <3>1, CarriesPush
  <2>8. pc'[i][j+1] = "act" => pc[i][j+1] = "act"
    BY <1>2, <1>7
  <2>9. QED
    BY <1>1, <2>1, <2>2, <2>7, <2>8 DEF ActCell
<1>8. QED
  BY <1>3, <1>4, <1>5, <1>6, <1>7 DEF DataInv

LEMMA PushAccumData ==
    ASSUME ArrayInv, DataInv, NEW i \in Idx, NEW j \in Idx, PushAccum(i, j)
    PROVE  DataInv'
<1>1. /\ UNCHANGED <<bpc, out_reg, act_out, gen, ctr, result, phase, act_ch, act_reg,
                     is_act_in, accum_reg, accum_out_reg, is_accum_in, fired>>
      /\ TypeOK
      /\ pc[i][j] = "accum"
  BY DEF PushAccum, actVars, biasVars, clientVars, ArrayInv
<1>2. /\ \A x \in Ext, y \in Idx : <<x, y>> # <<i + 1, j>> => accum_ch'[x][y] = accum_ch[x][y]
      /\ accum_ch'[i+1][j] = Append(accum_ch[i+1][j], accum_out_reg[i][j])
      /\ \A x \in Idx, y \in Idx : pc'[x][y] \in {"act", "accum"} => pc[x][y] \in {"act", "accum"}
      /\ \A x \in Idx, y \in Idx : pc'[x][y] = "act" => pc[x][y] = "act"
  BY <1>1, Types DEF TypeOK, PhaseType, SumType, PushAccum
<1>3. \A x \in Idx, y \in Idx : ActCell(x, y)'
  BY <1>1, <1>2, ActCellSame DEF DataInv
<1>4. ASSUME NEW x \in Idx, NEW y \in Idx, <<x, y>> # <<i + 1, j>> PROVE SumCell(x, y)'
  <2>1. accum_ch'[x][y] = accum_ch[x][y]
    <3>1. x \in Ext
      BY Types
    <3>2. QED
      BY <1>2, <1>4, <3>1
  <2>2. pc'[x][y] \in {"act", "accum"} => pc[x][y] \in {"act", "accum"}
    BY <1>2
  <2>3. QED
    BY <1>1, <2>1, <2>2, SumCellSame DEF DataInv
<1>5. ASSUME NEW y \in Idx, <<N, y>> # <<i + 1, j>> PROVE OutCell(y)'
  <2>1. accum_ch'[N][y] = accum_ch[N][y]
    <3>1. N \in Ext
      BY Types
    <3>2. QED
      BY <1>2, <1>5, <3>1
  <2>2. QED
    BY <1>1, <2>1, OutCellSame DEF DataInv
<1>6. ResultCorrect'
  BY <1>1, ResultSame DEF DataInv
<1>7. /\ accum_out_reg[i][j] = SumStream(gen, i + 1, j)[fired[i][j] - 1]
      /\ accum_out_reg[i][j] \in Sum /\ SumInHand(i, j) = 1 /\ i + 1 \in Ext
  BY <1>1, Positions, Types DEF DataInv, SumCell, SumInHand
<1>8. ASSUME i + 1 \in Idx PROVE SumCell(i + 1, j)'
  <2>1. SumCell(i + 1, j)
    BY <1>8 DEF DataInv
  <2>2. PICK b \in Nat : b = fired[i+1][j] + One(is_accum_in[i+1][j])
    <3>1. fired[i+1][j] \in Nat /\ One(is_accum_in[i+1][j]) \in Nat
      BY <1>1, <1>8, Positions
    <3>2. QED
      BY <3>1
  <2>3. PICK l \in Nat : l = Len(accum_ch[i+1][j])
    BY <1>1, <1>8, Positions
  <2>4. fired[i][j] - 1 = b + l
    <3>1. fired[i][j] = fired[i+1][j] + SumWaiting(i+1, j) + SumInHand(i, j)
      <4>1. i + 1 # 0 /\ (i + 1) - 1 = i
        BY DEF Idx
      <4>2. fired[(i+1)-1][j] = fired[i+1][j] + SumWaiting(i+1, j) + SumInHand((i+1)-1, j)
        BY <4>1, <1>8 DEF ArrayInv, Flow, SumConserved
      <4>3. QED
        BY <4>1, <4>2
    <3>2. SumWaiting(i+1, j) = l + One(is_accum_in[i+1][j])
      BY <1>1, <1>8, <2>3, Positions
    <3>3. fired[i+1][j] \in Nat /\ One(is_accum_in[i+1][j]) \in Nat
      BY <1>1, <1>8, Positions
    <3>4. QED
      BY <1>7, <2>2, <3>1, <3>2, <3>3
  <2>5. accum_out_reg[i][j] = SumStream(gen, i + 1, j)[b + l]
    BY <1>7, <2>4
  <2>6. /\ Carries(accum_ch[i+1][j], SumStream(gen, i + 1, j), b)
        /\ accum_ch[i+1][j] \in Seq(Sum)
    BY <1>1, <1>8, <2>1, <2>2, Positions DEF SumCell
  <2>7. Carries(accum_ch'[i+1][j], SumStream(gen, i + 1, j), b)
    BY <1>2, <1>7, <2>3, <2>5, <2>6, CarriesPush
  <2>8. pc'[i+1][j] \in {"act", "accum"} => pc[i+1][j] \in {"act", "accum"}
    BY <1>2, <1>8
  <2>9. QED
    BY <1>1, <2>1, <2>2, <2>7, <2>8 DEF SumCell
<1>9. ASSUME i + 1 = N PROVE OutCell(j)'
  <2>1. OutCell(j) /\ N - 1 = i
    BY <1>9 DEF DataInv, Idx
  <2>2. PICK b \in Nat : b = Emitted(j) + One(bpc[j] = "push")
    BY <1>1, Positions, SMTT(60)
  <2>3. PICK l \in Nat : l = Len(accum_ch[N][j])
    BY <1>1, Positions
  <2>4. fired[i][j] - 1 = b + l
    <3>1. fired[i][j] = Emitted(j) + OutWaiting(j) + SumInHand(i, j)
      BY <2>1 DEF ArrayInv, Flow, SumConserved
    <3>2. OutWaiting(j) = l + One(bpc[j] = "push")
      BY <1>1, <2>3, Positions
    <3>3. Emitted(j) \in Nat /\ One(bpc[j] = "push") \in Nat
      BY <1>1, Positions
    <3>4. QED
      BY <1>7, <2>2, <3>1, <3>2, <3>3
  <2>5. accum_out_reg[i][j] = SumStream(gen, N, j)[b + l]
    BY <1>7, <1>9, <2>4
  <2>6. /\ Carries(accum_ch[N][j], SumStream(gen, N, j), b)
        /\ accum_ch[N][j] \in Seq(Sum)
    BY <1>1, <2>1, <2>2, Positions DEF OutCell
  <2>7. Carries(accum_ch'[N][j], SumStream(gen, N, j), b)
    <3>1. accum_ch'[N][j] = Append(accum_ch[N][j], accum_out_reg[i][j])
      BY <1>2, <1>9
    <3>2. QED
      BY <1>7, <2>3, <2>5, <2>6, <3>1, CarriesPush
  <2>8. Emitted(j)' = Emitted(j)
    BY <1>1 DEF Emitted
  <2>9. QED
    BY <1>1, <2>1, <2>2, <2>7, <2>8 DEF OutCell
<1>10. \A x \in Idx, y \in Idx : SumCell(x, y)'
  BY <1>4, <1>8
<1>11. \A y \in Idx : OutCell(y)'
  BY <1>5, <1>9
<1>12. QED
  BY <1>3, <1>6, <1>10, <1>11 DEF DataInv

-----------------------------------------------------------------------------
(* SysBias *)

LEMMA WholeSum ==
    ASSUME NEW j \in Idx, NEW g \in Nat, NEW m \in Nat
    PROVE  [cfg |-> g, bias |-> <<j, g, N>>, sum |-> SumStream(g, N, j)[m]]
             = OutStream(g, j)[m]
BY DEF SumStream, OutStream, Promise!Expected

LEMMA BiasAccumData ==
    ASSUME ArrayInv, DataInv, NEW j \in Idx, BiasAccum(j)
    PROVE  DataInv'
<1>1. /\ UNCHANGED <<act_out, gen, ctr, result, phase, act_ch, act_reg, is_act_in,
                     accum_reg, accum_out_reg, is_accum_in, pc, fired>>
      /\ TypeOK
      /\ bpc[j] = "poll" /\ accum_ch[N][j] # << >>
  BY PopNBSound DEF BiasAccum, actVars, clientVars, ArrayInv
<1>2. /\ \A x \in Idx, y \in Idx : accum_ch'[x][y] = accum_ch[x][y]
      /\ \A y \in Idx \ {j} : accum_ch'[N][y] = accum_ch[N][y]
      /\ accum_ch'[N][j] = Tail(accum_ch[N][j])
      /\ \A y \in Idx \ {j} : bpc'[y] = bpc[y] /\ out_reg'[y] = out_reg[y]
      /\ bpc'[j] = "push"
      /\ out_reg'[j] = [cfg |-> cfg[j], bias |-> bias[j], sum |-> Head(accum_ch[N][j])]
  BY <1>1, Types DEF TypeOK, BiasType, SumType, BiasAccum
<1>3. \A x \in Idx, y \in Idx : ActCell(x, y)'
  BY <1>1, ActCellSame DEF DataInv
<1>4. \A x \in Idx, y \in Idx : SumCell(x, y)'
  BY <1>1, <1>2, SumCellSame DEF DataInv
<1>5. \A y \in Idx \ {j} : OutCell(y)'
  BY <1>1, <1>2, OutCellSame DEF DataInv
<1>6. ResultCorrect'
  BY <1>1, ResultSame DEF DataInv
<1>7. OutCell(j)'
  <2>1. /\ OutCell(j) /\ gen \in Nat /\ accum_ch[N][j] \in Seq(Sum)
        /\ Len(accum_ch[N][j]) \in Nat /\ ctr[j] \in Nat
    BY <1>1, Positions DEF DataInv
  <2>2. PICK e \in Nat : e = Emitted(j)
    BY <1>1, Positions
  <2>3. Emitted(j)' = e
    BY <1>1, <2>2 DEF Emitted
  <2>4. One(bpc[j] = "push") = 0 /\ One(bpc'[j] = "push") = 1
    BY <1>1, <1>2 DEF One
  <2>5. Carries(accum_ch[N][j], SumStream(gen, N, j), e)
    <3>1. e + 0 = e
      OBVIOUS
    <3>2. QED
      BY <2>1, <2>2, <2>4, <3>1 DEF OutCell
  <2>6. /\ Head(accum_ch[N][j]) = SumStream(gen, N, j)[e]
        /\ Carries(Tail(accum_ch[N][j]), SumStream(gen, N, j), e + 1)
    BY <1>1, <2>1, <2>5, CarriesPop
  <2>7. phase \in {"run", "irq"}
    <3>1. OutWaiting(j) = Len(accum_ch[N][j]) + One(bpc[j] = "push")
      BY <1>1, Positions
    <3>2. Len(accum_ch[N][j]) # 0
      BY <1>1, <2>1
    <3>3. OutWaiting(j) # 0
      BY <2>1, <2>4, <3>1, <3>2
    <3>4. QED
      BY <3>3, WaitingInRun
  <2>8. cfg[j] = gen /\ bias[j] = <<j, gen, N>>
    BY <2>7, LoadedRight DEF ArrayInv, WeightStationary
  <2>9. out_reg'[j] = OutStream(gen, j)[e]
    <3>1. out_reg'[j] = [cfg |-> gen, bias |-> <<j, gen, N>>, sum |-> SumStream(gen, N, j)[e]]
      BY <1>2, <2>6, <2>8
    <3>2. QED
      BY <3>1, <2>1, WholeSum
  <2>10. Carries(act_out'[j], OutStream(gen', j), ctr'[j])
    BY <1>1, <2>1 DEF OutCell
  <2>11. Carries(accum_ch'[N][j], SumStream(gen', N, j), Emitted(j)' + One(bpc'[j] = "push"))
    BY <1>1, <1>2, <2>3, <2>4, <2>6
  <2>12. QED
    BY <1>1, <2>3, <2>9, <2>10, <2>11 DEF OutCell
<1>8. QED
  BY <1>3, <1>4, <1>5, <1>6, <1>7 DEF DataInv

LEMMA BiasPushData ==
    ASSUME ArrayInv, DataInv, NEW j \in Idx, BiasPush(j)
    PROVE  DataInv'
<1>1. /\ UNCHANGED <<out_reg, gen, ctr, result, phase, act_ch, act_reg, is_act_in,
                     accum_ch, accum_reg, accum_out_reg, is_accum_in, pc, fired>>
      /\ TypeOK
      /\ bpc[j] = "push"
  BY DEF BiasPush, peVars, sumVars, actVars, clientVars, ArrayInv
<1>2. /\ \A y \in Idx \ {j} : bpc'[y] = bpc[y] /\ act_out'[y] = act_out[y]
      /\ bpc'[j] = "poll"
      /\ act_out'[j] = Append(act_out[j], out_reg[j])
  BY <1>1 DEF TypeOK, BiasType, BiasPush
<1>3. \A x \in Idx, y \in Idx : ActCell(x, y)'
  BY <1>1, ActCellSame DEF DataInv
<1>4. \A x \in Idx, y \in Idx : SumCell(x, y)'
  BY <1>1, SumCellSame DEF DataInv
<1>5. \A y \in Idx \ {j} : OutCell(y)'
  BY <1>1, <1>2, OutCellSame DEF DataInv
<1>6. ResultCorrect'
  BY <1>1, ResultSame DEF DataInv
<1>7. OutCell(j)'
  <2>1. /\ OutCell(j) /\ act_out[j] \in Seq(Output) /\ out_reg[j] \in Output
    BY <1>1, Positions DEF DataInv
  <2>2. PICK l \in Nat : l = Len(act_out[j])
    BY <1>1, Positions
  <2>3. PICK b \in Nat : b = ctr[j]
    BY <1>1, Positions
  <2>4. Emitted(j) = b + l
    BY <2>2, <2>3 DEF Emitted
  <2>5. Emitted(j)' = (b + l) + 1
    <3>1. Len(act_out'[j]) = l + 1
      BY <1>2, <2>1, <2>2
    <3>2. Emitted(j)' = b + (l + 1)
      BY <1>1, <2>3, <3>1 DEF Emitted
    <3>3. QED
      BY <3>2
  <2>6. One(bpc[j] = "push") = 1 /\ One(bpc'[j] = "push") = 0
    BY <1>1, <1>2 DEF One
  <2>7. Carries(accum_ch'[N][j], SumStream(gen', N, j), Emitted(j)' + One(bpc'[j] = "push"))
    <3>1. Carries(accum_ch[N][j], SumStream(gen, N, j), (b + l) + 1)
      BY <2>1, <2>4, <2>6 DEF OutCell
    <3>2. ((b + l) + 1) + 0 = (b + l) + 1
      OBVIOUS
    <3>3. QED
      BY <1>1, <2>5, <2>6, <3>1, <3>2
  <2>8. Carries(act_out'[j], OutStream(gen', j), ctr'[j])
    <3>1. Carries(act_out[j], OutStream(gen, j), b) /\ out_reg[j] = OutStream(gen, j)[b + l]
      BY <1>1, <2>1, <2>3, <2>4 DEF OutCell
    <3>2. Carries(Append(act_out[j], out_reg[j]), OutStream(gen, j), b)
      BY <2>1, <2>2, <3>1, CarriesPush
    <3>3. QED
      BY <1>1, <1>2, <2>3, <3>2
  <2>9. bpc'[j] # "push"
    BY <1>2
  <2>10. QED
    BY <2>7, <2>8, <2>9 DEF OutCell
<1>8. QED
  BY <1>3, <1>4, <1>5, <1>6, <1>7 DEF DataInv

-----------------------------------------------------------------------------
(* The clients *)

(* The words WriteReqRun takes are the outputs its counters stand at. *)
LEMMA CollectOutData ==
    ASSUME ArrayInv, DataInv, CollectOut
    PROVE  DataInv'
<1>0. PICK S \in (SUBSET Idx) \ {{}} : CollectOut!2!(S)
  BY DEF CollectOut
<1>1. /\ UNCHANGED <<bpc, out_reg, gen, act_ch, act_reg, is_act_in,
                     accum_ch, accum_reg, accum_out_reg, is_accum_in, pc, fired>>
      /\ TypeOK
      /\ phase = "run"
  BY DEF CollectOut, peVars, sumVars, actVars, ArrayInv
<1>2. /\ \A y \in S : act_out[y] # << >>
      /\ \A y \in S : act_out'[y] = Tail(act_out[y]) /\ ctr'[y] = ctr[y] + 1
      /\ \A y \in Idx \ S : act_out'[y] = act_out[y] /\ ctr'[y] = ctr[y]
      /\ \A y \in S, m \in 0 .. M-1 :
           result'[m][y] = IF m = ctr[y] THEN Head(act_out[y]) ELSE result[m][y]
      /\ \A y \in Idx \ S, m \in 0 .. M-1 : result'[m][y] = result[m][y]
  <2>1. \A y \in S : TRUE \in PopNB(act_out[y])
    BY <1>0
  <2>2. QED
    BY <1>0, <2>1, PopNBSound DEF After
<1>3. \A x \in Idx, y \in Idx : ActCell(x, y)'
  BY <1>1, ActCellSame DEF DataInv
<1>4. \A x \in Idx, y \in Idx : SumCell(x, y)'
  BY <1>1, SumCellSame DEF DataInv
<1>5. \A y \in Idx \ S : OutCell(y)'
  BY <1>1, <1>2, OutCellSame DEF DataInv
<1>6. ASSUME NEW y \in S
      PROVE  OutCell(y)' /\ Head(act_out[y]) = Promise!Expected(gen, y, ctr[y])
  <2>1. /\ y \in Idx /\ OutCell(y) /\ act_out[y] \in Seq(Output) /\ act_out[y] # << >>
        /\ ctr[y] \in Nat /\ Len(act_out[y]) \in Nat
    BY <1>1, <1>2, Positions DEF DataInv
  <2>2. /\ Head(act_out[y]) = OutStream(gen, y)[ctr[y]]
        /\ Carries(Tail(act_out[y]), OutStream(gen, y), ctr[y] + 1)
    BY <2>1, CarriesPop DEF OutCell
  <2>3. Carries(act_out'[y], OutStream(gen', y), ctr'[y])
    BY <1>1, <1>2, <2>2
  <2>4. Emitted(y)' = Emitted(y)
    <3>1. Len(act_out'[y]) = Len(act_out[y]) - 1
      <4>1. Len(Tail(act_out[y])) = Len(act_out[y]) - 1
        BY <2>1
      <4>2. QED
        BY <1>2, <4>1
    <3>2. (ctr[y] + 1) + (Len(act_out[y]) - 1) = ctr[y] + Len(act_out[y])
      BY <2>1
    <3>3. QED
      BY <1>2, <3>1, <3>2 DEF Emitted
  <2>5. OutCell(y)'
    BY <1>1, <2>1, <2>3, <2>4 DEF OutCell
  <2>6. QED
    BY <2>1, <2>2, <2>5 DEF OutStream
<1>7. ResultCorrect'
  <2> SUFFICES ASSUME NEW y \in Idx, NEW m \in 0 .. M-1, m < ctr'[y]
               PROVE  result'[m][y] = Promise!Expected(gen, y, m)
    BY <1>1 DEF ResultCorrect
  <2>1. ASSUME m < ctr[y] PROVE result[m][y] = Promise!Expected(gen, y, m)
    BY <2>1, <1>1 DEF DataInv, ResultCorrect
  <2>2. CASE y \in S
    <3>1. ctr[y] \in Nat /\ (m = ctr[y] \/ m < ctr[y])
      <4>1. ctr[y] \in Nat
        BY <1>1, Positions
      <4>2. m \in Int /\ m < ctr[y] + 1
        BY <1>2, <2>2
      <4>3. QED
        BY <4>1, <4>2
    <3>2. CASE m = ctr[y]
      BY <1>2, <1>6, <2>2, <3>2
    <3>3. CASE m # ctr[y]
      BY <1>2, <2>1, <2>2, <3>1, <3>3
    <3>4. QED
      BY <3>2, <3>3
  <2>3. CASE y \notin S
    BY <1>2, <2>1, <2>3
  <2>4. QED
    BY <2>2, <2>3
<1>8. QED
  BY <1>3, <1>4, <1>5, <1>6, <1>7 DEF DataInv

(* The activation ReadRspRun pushes is the next one of its row. *)
LEMMA ActPushData ==
    ASSUME ArrayInv, DataInv, NEW i \in Idx, ActPush(i)
    PROVE  DataInv'
<1>1. /\ UNCHANGED <<bpc, out_reg, act_out, gen, ctr, result, phase, act_reg, is_act_in,
                     accum_ch, accum_reg, accum_out_reg, is_accum_in, pc, fired>>
      /\ TypeOK
  BY DEF ActPush, sumVars, biasVars, ArrayInv
<1>2. /\ \A x \in Idx, y \in Idx : <<x, y>> # <<i, 0>> => act_ch'[x][y] = act_ch[x][y]
      /\ act_ch'[i][0] = Append(act_ch[i][0], <<gen, i, fed[i]>>)
  BY <1>1, Types DEF TypeOK, ActType, ActPush
<1>3. \A x \in Idx, y \in Idx : <<x, y>> # <<i, 0>> => ActCell(x, y)'
  BY <1>1, <1>2, ActCellSame DEF DataInv
<1>4. \A x \in Idx, y \in Idx : SumCell(x, y)'
  BY <1>1, SumCellSame DEF DataInv
<1>5. \A y \in Idx : OutCell(y)'
  BY <1>1, OutCellSame DEF DataInv
<1>6. ResultCorrect'
  BY <1>1, ResultSame DEF DataInv
<1>7. ActCell(i, 0)'
  <2>1. ActCell(i, 0) /\ 0 \in Idx
    BY Types DEF DataInv
  <2>2. PICK b \in Nat : b = fired[i][0] + One(is_act_in[i][0])
    <3>1. fired[i][0] \in Nat /\ One(is_act_in[i][0]) \in Nat
      BY <1>1, <2>1, Positions
    <3>2. QED
      BY <3>1
  <2>3. PICK l \in Nat : l = Len(act_ch[i][0])
    BY <1>1, <2>1, Positions
  <2>4. fed[i] = b + l
    <3>1. fed[i] = fired[i][0] + ActWaiting(i, 0)
      BY DEF ArrayInv, Flow, ActConserved
    <3>2. ActWaiting(i, 0) = l + One(is_act_in[i][0])
      BY <1>1, <2>1, <2>3, Positions
    <3>3. fired[i][0] \in Nat /\ One(is_act_in[i][0]) \in Nat
      BY <1>1, <2>1, Positions
    <3>4. QED
      BY <2>2, <3>1, <3>2, <3>3
  <2>5. <<gen, i, fed[i]>> = ActStream(gen, i)[b + l] /\ <<gen, i, fed[i]>> \in Act
    <3>1. b + l \in Nat /\ gen \in Nat
      BY <1>1, Positions
    <3>2. QED
      BY <2>4, <3>1 DEF ActStream, Act
  <2>6. Carries(act_ch[i][0], ActStream(gen, i), b) /\ act_ch[i][0] \in Seq(Act)
    BY <1>1, <2>1, <2>2, Positions DEF ActCell
  <2>7. Carries(act_ch'[i][0], ActStream(gen, i), b)
    <3>1. Carries(Append(act_ch[i][0], <<gen, i, fed[i]>>), ActStream(gen, i), b)
      BY <2>3, <2>5, <2>6, CarriesPush
    <3>2. QED
      BY <1>2, <3>1
  <2>8. QED
    BY <1>1, <2>1, <2>2, <2>7 DEF ActCell
<1>8. QED
  BY <1>3, <1>4, <1>5, <1>6, <1>7 DEF DataInv

(* ActOutRun only drains; AccumInRun offers row 0 the empty sum. *)
LEMMA ActOutData ==
    ASSUME ArrayInv, DataInv, ActOutRun
    PROVE  DataInv'
<1>1. /\ UNCHANGED <<bpc, out_reg, act_out, gen, ctr, result, phase, act_reg, is_act_in,
                     accum_ch, accum_reg, accum_out_reg, is_accum_in, pc, fired>>
      /\ \A x \in Idx, y \in Idx : act_ch'[x][y] = act_ch[x][y]
  BY Types DEF ActOutRun, sumVars, biasVars, clientVars, ArrayInv, TypeOK, ActType
<1>2. QED
  BY <1>1, ActCellSame, SumCellSame, OutCellSame, ResultSame DEF DataInv

LEMMA AccumInData ==
    ASSUME ArrayInv, DataInv, AccumInRun
    PROVE  DataInv'
<1>1. /\ UNCHANGED <<bpc, out_reg, act_out, gen, ctr, result, phase, act_ch, act_reg,
                     is_act_in, accum_reg, accum_out_reg, is_accum_in, pc, fired>>
      /\ TypeOK
  BY DEF AccumInRun, actVars, biasVars, clientVars, ArrayInv
<1>2. /\ \A x \in Ext \ {0}, y \in Idx : accum_ch'[x][y] = accum_ch[x][y]
      /\ \A y \in Idx : \/ accum_ch'[0][y] = accum_ch[0][y]
                        \/ accum_ch'[0][y] = Append(accum_ch[0][y], {})
  BY <1>1, Types DEF TypeOK, SumType, AccumInRun
<1>3. \A x \in Idx, y \in Idx : ActCell(x, y)'
  BY <1>1, ActCellSame DEF DataInv
<1>4. \A x \in Idx \ {0}, y \in Idx : SumCell(x, y)'
  BY <1>1, <1>2, Types, SumCellSame DEF DataInv
<1>5. \A y \in Idx : OutCell(y)'
  BY <1>1, <1>2, Types, OutCellSame DEF DataInv
<1>6. ResultCorrect'
  BY <1>1, ResultSame DEF DataInv
<1>7. ASSUME NEW y \in Idx PROVE SumCell(0, y)'
  <2>1. SumCell(0, y) /\ 0 \in Idx
    BY Types DEF DataInv
  <2>2. CASE accum_ch'[0][y] = accum_ch[0][y]
    BY <1>1, <2>1, <2>2, SumCellSame
  <2>3. CASE accum_ch'[0][y] = Append(accum_ch[0][y], {})
    <3>1. PICK b \in Nat : b = fired[0][y] + One(is_accum_in[0][y])
      <4>1. fired[0][y] \in Nat /\ One(is_accum_in[0][y]) \in Nat
        BY <1>1, <2>1, Positions
      <4>2. QED
        BY <4>1
    <3>2. PICK l \in Nat : l = Len(accum_ch[0][y])
      BY <1>1, <2>1, Positions
    <3>3. {} = SumStream(gen, 0, y)[b + l] /\ {} \in Sum
      BY SumFirst, Types
    <3>4. Carries(accum_ch[0][y], SumStream(gen, 0, y), b) /\ accum_ch[0][y] \in Seq(Sum)
      BY <1>1, <2>1, <3>1, Positions DEF SumCell
    <3>5. Carries(accum_ch'[0][y], SumStream(gen, 0, y), b)
      <4>1. Carries(Append(accum_ch[0][y], {}), SumStream(gen, 0, y), b)
        BY <3>2, <3>3, <3>4, CarriesPush
      <4>2. QED
        BY <2>3, <4>1
    <3>6. QED
      BY <1>1, <2>1, <3>1, <3>5 DEF SumCell
  <2>4. QED
    BY <1>2, <2>2, <2>3
<1>8. \A x \in Idx, y \in Idx : SumCell(x, y)'
  BY <1>4, <1>7
<1>9. QED
  BY <1>3, <1>5, <1>6, <1>8 DEF DataInv

-----------------------------------------------------------------------------
(* Between runs, and the steps that move neither words nor results *)

(* Row 0 carries the same sum at every place of the stream. *)
LEMMA CarriesNothing ==
    ASSUME NEW ch, Len(ch) \in Nat, NEW g, NEW h, NEW j, NEW b \in Nat, NEW c \in Nat,
           Carries(ch, SumStream(g, 0, j), b)
    PROVE  Carries(ch, SumStream(h, 0, j), c)
<1>1. ASSUME NEW n \in 1 .. Len(ch)
      PROVE  ch[n] = SumStream(h, 0, j)[c + (n - 1)]
  <2>1. b + (n - 1) \in Nat /\ c + (n - 1) \in Nat
    OBVIOUS
  <2>2. SumStream(g, 0, j)[b + (n - 1)] = {} /\ SumStream(h, 0, j)[c + (n - 1)] = {}
    BY <2>1, SumFirst
  <2>3. QED
    BY <2>2 DEF Carries
<1>2. QED
  BY <1>1 DEF Carries

(* Between runs the array is empty, so a new run and a new load start all  *)
(* streams from their first element.                                       *)
LEMMA RestartData ==
    ASSUME ArrayInv, DataInv, TypeOK', AllThrough,
           UNCHANGED <<act_ch, is_act_in, accum_ch, accum_reg, is_accum_in, pc, bpc, act_out>>
    PROVE  /\ \A x \in Idx, y \in Idx : ActCell(x, y)' /\ SumCell(x, y)'
           /\ \A y \in Idx : OutCell(y)'
<1>1. TypeOK /\ Flow
  BY DEF ArrayInv
<1>2. ASSUME NEW ch, NEW n, n = Len(ch), n = 0, NEW f, NEW b PROVE Carries(ch, f, b)
  <2>1. 1 .. Len(ch) = {}
    BY <1>2
  <2>2. QED
    BY <2>1 DEF Carries
<1>3. ASSUME NEW l \in Nat, NEW held \in BOOLEAN, l + One(held) = 0 PROVE l = 0 /\ ~held
  BY <1>3 DEF One
<1>4. ASSUME NEW x \in Idx, NEW y \in Idx PROVE pc[x][y] \notin {"act", "accum"}
  <2>1. SumInHand(x, y) = 0
    <3>1. CASE x = N - 1
      BY <1>1, <3>1, NothingWaiting
    <3>2. CASE x # N - 1
      <4>1. x + 1 \in Idx \ {0} /\ (x + 1) - 1 = x
        BY <3>2 DEF Idx
      <4>2. SumInHand((x + 1) - 1, y) = 0
        BY <1>1, <4>1, NothingWaiting
      <4>3. QED
        BY <4>1, <4>2
    <3>3. QED
      BY <3>1, <3>2
  <2>2. QED
    BY <2>1 DEF SumInHand
<1>5. ASSUME NEW x \in Idx, NEW y \in Idx PROVE ActCell(x, y)'
  <2>1. ActWaiting(x, y) = 0
    BY <1>1, NothingWaiting
  <2>2. Len(act_ch[x][y]) = 0 /\ ~is_act_in[x][y]
    BY <1>1, <1>3, <2>1, Positions, ZenonT(60)
  <2>3. Carries(act_ch'[x][y], ActStream(gen', x), fired'[x][y] + One(is_act_in'[x][y]))
    BY <1>2, <2>2
  <2>4. QED
    BY <1>4, <2>2, <2>3 DEF ActCell
<1>6. ASSUME NEW x \in Idx \ {0}, NEW y \in Idx PROVE SumCell(x, y)'
  <2>1. SumWaiting(x, y) = 0
    BY <1>1, NothingWaiting
  <2>2. Len(accum_ch[x][y]) = 0 /\ ~is_accum_in[x][y]
    <3>1. /\ Len(accum_ch[x][y]) \in Nat /\ is_accum_in[x][y] \in BOOLEAN
          /\ SumWaiting(x, y) = Len(accum_ch[x][y]) + One(is_accum_in[x][y])
      BY <1>1, Positions
    <3>2. QED
      BY <1>3, <2>1, <3>1
  <2>3. Carries(accum_ch'[x][y], SumStream(gen', x, y), fired'[x][y] + One(is_accum_in'[x][y]))
    BY <1>2, <2>2
  <2>4. QED
    BY <1>4, <2>2, <2>3 DEF SumCell
<1>7. ASSUME NEW y \in Idx PROVE SumCell(0, y)'
  <2>1. SumCell(0, y) /\ 0 \in Idx
    BY Types DEF DataInv
  <2>2. PICK b \in Nat : b = fired[0][y] + One(is_accum_in[0][y])
    <3>1. fired[0][y] \in Nat /\ One(is_accum_in[0][y]) \in Nat
      BY <1>1, <2>1, Positions
    <3>2. QED
      BY <3>1
  <2>3. /\ fired[0][y] \in Nat /\ fired'[0][y] \in Nat
        /\ \A held : One(held) \in Nat
        /\ Len(accum_ch[0][y]) \in Nat
    BY <1>1, <2>1, Positions, ZenonT(60) DEF TypeOK, PhaseType
  <2>4. PICK c \in Nat : c = fired'[0][y] + One(is_accum_in'[0][y])
    BY <2>3
  <2>5. Carries(accum_ch'[0][y], SumStream(gen', 0, y), c)
    <3>1. Carries(accum_ch[0][y], SumStream(gen, 0, y), b)
      BY <2>1, <2>2 DEF SumCell
    <3>2. Carries(accum_ch[0][y], SumStream(gen', 0, y), c)
      BY <2>3, <3>1, CarriesNothing
    <3>3. QED
      BY <3>2
  <2>6. is_accum_in'[0][y] => accum_reg'[0][y] = SumStream(gen', 0, y)[fired'[0][y]]
    <3>1. /\ SumStream(gen, 0, y)[fired[0][y]] = {}
          /\ SumStream(gen', 0, y)[fired'[0][y]] = {}
      BY <2>3, SumFirst
    <3>2. QED
      BY <2>1, <3>1 DEF SumCell
  <2>7. QED
    BY <1>4, <2>1, <2>4, <2>5, <2>6 DEF SumCell
<1>8. ASSUME NEW y \in Idx PROVE OutCell(y)'
  <2>1. OutWaiting(y) = 0 /\ Len(act_out[y]) = 0
    BY <1>1, NothingWaiting
  <2>2. Len(accum_ch[N][y]) = 0 /\ bpc[y] # "push"
    BY <1>1, <1>3, <2>1, Positions, ZenonT(60)
  <2>3. Carries(accum_ch'[N][y], SumStream(gen', N, y), Emitted(y)' + One(bpc'[y] = "push"))
    BY <1>2, <2>2
  <2>4. Carries(act_out'[y], OutStream(gen', y), ctr'[y])
    BY <1>2, <2>1
  <2>5. QED
    BY <2>2, <2>3, <2>4 DEF OutCell
<1>9. \A x \in Idx, y \in Idx : SumCell(x, y)'
  BY <1>6, <1>7
<1>10. QED
  BY <1>5, <1>8, <1>9

LEMMA StartRunData ==
    ASSUME ArrayInv, DataInv, StartRun
    PROVE  DataInv'
<1>1. TypeOK /\ TypeOK'
  BY LoadStepType DEF ArrayInv, Host
<1>0. AllThrough
  BY DEF ArrayInv, Flow, StartRun
<1>2. /\ \A x \in Idx, y \in Idx : ActCell(x, y)' /\ SumCell(x, y)'
      /\ \A y \in Idx : OutCell(y)'
  BY <1>0, <1>1, RestartData DEF StartRun, weightVars, sumVars, actVars, biasVars
<1>3. ResultCorrect'
  <2>1. \A y \in Idx : ctr'[y] = 0
    BY DEF StartRun
  <2>2. QED
    BY <2>1 DEF ResultCorrect
<1>4. QED
  BY <1>2, <1>3 DEF DataInv

LEMMA NextLoadData ==
    ASSUME ArrayInv, DataInv, AllThrough, NextLoad
    PROVE  DataInv'
<1>1. TypeOK /\ TypeOK'
  BY LoadStepType DEF ArrayInv, Host
<1>2. /\ \A x \in Idx, y \in Idx : ActCell(x, y)' /\ SumCell(x, y)'
      /\ \A y \in Idx : OutCell(y)'
  BY <1>1, RestartData DEF NextLoad, sumVars, actVars, biasVars
<1>3. ResultCorrect'
  BY DEF NextLoad, ResultCorrect
<1>4. QED
  BY <1>2, <1>3 DEF DataInv

LEMMA OtherData ==
    ASSUME ArrayInv, DataInv, NEW i \in Idx, NEW j \in Idx,
           PushWeight(i, j) \/ BiasConfig(j) \/ BiasWeight(j) \/ SysConfigRun
             \/ WeightPush(j) \/ ConfigWrite \/ UNCHANGED vars
    PROVE  DataInv'
<1>1. /\ UNCHANGED <<act_ch, act_reg, is_act_in, accum_ch, accum_reg, accum_out_reg,
                     is_accum_in, fired, bpc, out_reg, act_out, gen, ctr, result, phase>>
      /\ \A x \in Idx, y \in Idx : pc'[x][y] = pc[x][y] \/ pc'[x][y] = "poll"
  <2>1. CASE PushWeight(i, j)
    BY <2>1 DEF PushWeight, sumVars, actVars, biasVars, clientVars,
                ArrayInv, TypeOK, PhaseType
  <2>2. CASE BiasConfig(j)
    BY <2>2 DEF BiasConfig, peVars, sumVars, actVars, clientVars
  <2>3. CASE BiasWeight(j)
    BY <2>3 DEF BiasWeight, sumVars, actVars, clientVars
  <2>4. CASE SysConfigRun
    BY <2>4 DEF SysConfigRun, ConfigPop, ConfigPush, peVars, sumVars, actVars, biasVars,
                clientVars
  <2>5. CASE WeightPush(j)
    BY <2>5 DEF WeightPush, sumVars, actVars, biasVars
  <2>6. CASE ConfigWrite
    BY <2>6 DEF ConfigWrite, peVars, sumVars, actVars, biasVars
  <2>7. CASE UNCHANGED vars
    BY <2>7 DEF vars, peVars, sumVars, actVars, biasVars, clientVars
  <2>8. QED
    BY <2>1, <2>2, <2>3, <2>4, <2>5, <2>6, <2>7
<1>2. /\ \A x \in Idx, y \in Idx : pc'[x][y] = "act" => pc[x][y] = "act"
      /\ \A x \in Idx, y \in Idx : pc'[x][y] \in {"act", "accum"} => pc[x][y] \in {"act", "accum"}
  BY <1>1
<1>3. \A x \in Idx, y \in Idx : ActCell(x, y)'
  BY <1>1, <1>2, ActCellSame DEF DataInv
<1>4. \A x \in Idx, y \in Idx : SumCell(x, y)'
  BY <1>1, <1>2, SumCellSame DEF DataInv
<1>5. \A y \in Idx : OutCell(y)'
  BY <1>1, OutCellSame DEF DataInv
<1>6. ResultCorrect'
  BY <1>1, ResultSame DEF DataInv
<1>7. QED
  BY <1>3, <1>4, <1>5, <1>6 DEF DataInv

LEMMA InitData == Init => DataInv
<1> SUFFICES ASSUME Init PROVE DataInv
  OBVIOUS
<1>1. ASSUME NEW i \in Idx, NEW j \in Idx PROVE ActCell(i, j)
  <2>1. act_ch[i][j] = << >> /\ ~is_act_in[i][j] /\ pc[i][j] = "poll"
    BY Types DEF Init
  <2>2. QED
    BY <2>1, CarriesEmpty DEF ActCell
<1>2. ASSUME NEW i \in Idx, NEW j \in Idx PROVE SumCell(i, j)
  <2>1. accum_ch[i][j] = << >> /\ ~is_accum_in[i][j] /\ pc[i][j] = "poll"
    BY Types DEF Init
  <2>2. QED
    BY <2>1, CarriesEmpty DEF SumCell
<1>3. ASSUME NEW j \in Idx PROVE OutCell(j)
  <2>1. accum_ch[N][j] = << >> /\ act_out[j] = << >> /\ bpc[j] = "poll"
    BY Types DEF Init
  <2>2. QED
    BY <2>1, CarriesEmpty DEF OutCell
<1>4. ResultCorrect
  BY DEF Init, ResultCorrect
<1>5. QED
  BY <1>1, <1>2, <1>3, <1>4 DEF DataInv

-----------------------------------------------------------------------------
LEMMA NextData ==
    ASSUME ArrayInv, DataInv, [Next]_vars, NextLoad => AllThrough
    PROVE  DataInv'
<1>1. ASSUME NEW i \in Idx, NEW j \in Idx, PERun(i, j) PROVE DataInv'
  BY <1>1, PollData, PushActData, PushAccumData, OtherData DEF PERun
<1>2. ASSUME NEW j \in Idx, SysBiasRun(j) PROVE DataInv'
  BY <1>2, BiasAccumData, BiasPushData, OtherData DEF SysBiasRun
<1>3. CASE SysConfigRun \/ ConfigWrite \/ UNCHANGED vars
  BY <1>3, OtherData, Types
<1>4. CASE ActOutRun \/ AccumInRun
  BY <1>4, ActOutData, AccumInData
<1>5. CASE WeightAxi
  BY <1>5, OtherData DEF WeightAxi
<1>6. CASE ReadRspRun
  BY <1>6, ActPushData DEF ReadRspRun
<1>7. CASE CollectOut
  BY <1>7, CollectOutData
<1>8. CASE StartRun \/ NextLoad
  BY <1>8, StartRunData, NextLoadData
<1>9. CASE Stop
  BY <1>9, <1>3 DEF Stop
<1>10. QED
  BY <1>1, <1>2, <1>3, <1>4, <1>5, <1>6, <1>7, <1>8, <1>9 DEF Next, Host

(* In a build whose ports do not stall at random, every word that reaches  *)
(* the result memory is the output of its own column and vector, of this   *)
(* run's weights, bias and configuration, whatever the size of the array,  *)
(* the number of vectors and the capacity of the channels.                 *)
THEOREM ResultsRight == Spec => [](~RandStall => ResultCorrect)
<1>1. Init => (~RandStall => DataInv)
  BY InitData
<1>2. TypeOK /\ LoadInv /\ (~RandStall => WholeRun) /\ (~RandStall => DataInv) /\ [Next]_vars
        => (~RandStall => DataInv)'
  <2> SUFFICES ASSUME TypeOK, LoadInv, WholeRun, DataInv, [Next]_vars
               PROVE  DataInv'
    OBVIOUS
  <2>1. Flow /\ Even
    BY WholeIs
  <2>2. ArrayInv /\ (NextLoad => AllThrough)
    BY <2>1 DEF ArrayInv, Even, NextLoad
  <2>3. QED
    BY <2>2, NextData
<1>3. (~RandStall => DataInv) => (~RandStall => ResultCorrect)
  BY DEF DataInv
<1>4. QED
  BY <1>1, <1>2, <1>3, TypeCorrect, LoadKept, RunIsWhole, PTL DEF Spec

(* With random stalls the same holds of the first run, however long any     *)
(* word waits anywhere: the stalls let columns drift apart, but they do not *)
(* bring together words that do not belong together.                        *)
THEOREM FirstResultsRight == Spec => [](gen = 1 => ResultCorrect)
<1>1. Init => (gen = 1 /\ phase # "abort" => DataInv)
  BY InitData
<1>2. /\ TypeOK /\ LoadInv /\ (gen = 1 => Flow) /\ [Next]_vars
      /\ gen = 1 /\ phase # "abort" => DataInv
      => (gen = 1 /\ phase # "abort" => DataInv)'
  <2> SUFFICES ASSUME TypeOK, LoadInv, gen = 1 => Flow, [Next]_vars,
                      gen = 1 /\ phase # "abort" => DataInv,
                      gen' = 1, phase' # "abort"
               PROVE  DataInv'
    OBVIOUS
  <2>1. gen = 1 /\ ~NextLoad /\ phase # "abort"
    BY FirstRun
  <2>2. ArrayInv /\ DataInv
    BY <2>1 DEF ArrayInv
  <2>3. QED
    BY <2>1, <2>2, NextData
<1>3. (gen = 1 /\ phase # "abort" => DataInv) => (gen = 1 => ResultCorrect)
  BY DEF DataInv, ResultCorrect
<1>4. QED
  BY <1>1, <1>2, <1>3, TypeCorrect, LoadKept, FirstRunFlows, PTL DEF Spec

-----------------------------------------------------------------------------
(* The array implements MatMul *)

LEMMA InitPromise == Init => Promise!Init
BY DEF Init, Promise!Init, Idx

(* A step of WriteReqRun delivers the words its counters stand at. *)
LEMMA CollectOutDelivers ==
    ASSUME ArrayInv, DataInv, ArrayInv', DataInv', Even', CollectOut
    PROVE  \E C \in SUBSET Promise!Cells : Promise!Deliver(C)
<1>0. PICK S \in (SUBSET Idx) \ {{}} : CollectOut!2!(S)
  BY DEF CollectOut
<1>1. /\ TypeOK /\ TypeOK' /\ Even' /\ gen' = gen /\ phase = "run"
      /\ \A y \in Idx : ctr[y] \in Nat
  BY Positions DEF ArrayInv, CollectOut
<1> DEFINE C == {c \in Promise!Cells : c[2] \in S /\ c[1] = ctr[c[2]]}
<1>2. phase' \in {"run", "irq"}
  BY <1>0, <1>1 DEF Even
<1>3. \A m \in 0 .. M-1, y \in Idx : <<m, y>> \in C <=> y \in S /\ m = ctr[y]
  BY DEF Promise!Cells, Idx
<1>4. \A m \in 0 .. M-1, y \in Idx : <<m, y>> \in C => result'[m][y] = Promise!Expected(gen, y, m)
  <2> SUFFICES ASSUME NEW m \in 0 .. M-1, NEW y \in Idx, <<m, y>> \in C
               PROVE  result'[m][y] = Promise!Expected(gen, y, m)
    OBVIOUS
  <2>1. ctr'[y] = ctr[y] + 1 /\ m = ctr[y] /\ ctr[y] \in Nat
    BY <1>0, <1>1, <1>3
  <2>2. m < ctr'[y]
    BY <2>1
  <2>3. QED
    BY <1>1, <1>2, <2>2 DEF DataInv, ResultCorrect
<1>5. \A m \in 0 .. M-1, y \in Idx : <<m, y>> \notin C => result'[m][y] = result[m][y]
  BY <1>0, <1>3
<1>6. result' = [m \in 0 .. M-1 |-> [y \in 0 .. N-1 |->
                   IF <<m, y>> \in C THEN Promise!Expected(gen, y, m) ELSE result[m][y]]]
  <2>1. result' \in [0 .. M-1 -> [0 .. N-1 -> Output]]
    BY <1>1 DEF TypeOK, ClientType, Idx
  <2>2. QED
    BY <1>4, <1>5, <2>1 DEF Idx
<1>7. phase' = "irq" =>
        \A m \in 0 .. M-1, y \in 0 .. N-1 : result'[m][y] = Promise!Expected(gen, y, m)
  <2> SUFFICES ASSUME phase' = "irq", NEW m \in 0 .. M-1, NEW y \in Idx
               PROVE  result'[m][y] = Promise!Expected(gen, y, m)
    BY DEF Idx
  <2>1. ctr'[y] = M
    BY <1>1 DEF Even
  <2>2. m < ctr'[y]
    BY <2>1
  <2>3. QED
    BY <1>1, <2>2 DEF DataInv, ResultCorrect
<1>8. Promise!Deliver(C)
  BY <1>1, <1>2, <1>6, <1>7 DEF Promise!Deliver
<1>9. QED
  BY <1>8

LEMMA StepKeepsPromise ==
    ASSUME ArrayInv, DataInv, ArrayInv', DataInv', Even', [Next]_vars
    PROVE  [Promise!Next]_Promise!vars
<1>1. ASSUME NEW i \in Idx, NEW j \in Idx, PERun(i, j) PROVE UNCHANGED Promise!vars
  BY <1>1 DEF PERun, Poll, PushAct, PushAccum, PushWeight, clientVars, Promise!vars
<1>2. ASSUME NEW j \in Idx, SysBiasRun(j) PROVE UNCHANGED Promise!vars
  BY <1>2 DEF SysBiasRun, BiasConfig, BiasAccum, BiasWeight, BiasPush, clientVars, Promise!vars
<1>3. CASE SysConfigRun \/ ActOutRun \/ AccumInRun
  BY <1>3 DEF SysConfigRun, ConfigPop, ConfigPush, ActOutRun, AccumInRun, clientVars,
              Promise!vars
<1>4. CASE WeightAxi \/ ReadRspRun \/ ConfigWrite
  BY <1>4 DEF WeightAxi, WeightPush, ReadRspRun, ActPush, ConfigWrite, Promise!vars
<1>5. CASE CollectOut
  BY <1>5, CollectOutDelivers DEF Promise!Next
<1>6. CASE StartRun
  BY <1>6 DEF StartRun, Promise!Next, Promise!Start
<1>7. CASE NextLoad
  BY <1>7 DEF NextLoad, Promise!Next, Promise!NextLoad
<1>8. CASE Stop \/ UNCHANGED vars
  BY <1>8 DEF Stop, vars, clientVars, Promise!vars
<1>9. QED
  BY <1>1, <1>2, <1>3, <1>4, <1>5, <1>6, <1>7, <1>8, SMTT(60) DEF Next, Host

(* In a build whose ports do not stall at random, the array implements the *)
(* promise to the host: all the host can see of a step of any thread is    *)
(* nothing, or right results, or an interrupt with all results in place.   *)
THEOREM ArrayKeepsPromise ==
    ASSUME ~RandStall
    PROVE  Spec => KeepsPromise
<1> DEFINE Inv == ArrayInv /\ DataInv /\ Even
<1>1. Spec => []Inv
  <2>1. TypeOK /\ LoadInv /\ (~RandStall => WholeRun) => ArrayInv /\ Even
    BY WholeIs DEF ArrayInv, Even
  <2>2. ArrayInv /\ Even /\ DataInv /\ [Next]_vars => DataInv'
    BY NextData DEF Even, NextLoad
  <2>3. QED
    BY <2>1, <2>2, InitData, TypeCorrect, LoadKept, RunIsWhole, PTL DEF Spec
<1>2. Inv /\ Inv' /\ [Next]_vars => [Promise!Next]_Promise!vars
  BY StepKeepsPromise
<1>3. QED
  BY <1>1, <1>2, InitPromise, PTL DEF Spec, KeepsPromise, Promise!Spec

-----------------------------------------------------------------------------
(* The array never gets stuck *)

(* A set of numbers that is not empty has a least. *)
LEMMA LeastOf ==
    ASSUME NEW S \in SUBSET Nat, S # {}
    PROVE  \E x \in S : \A y \in S : x <= y
<1>1. \E x \in S : \A y \in S : ~(<<y, x>> \in OpToRel(<, Nat))
  BY NatLessThanWellFounded, WFMin
<1>2. PICK x \in S : \A y \in S : ~(<<y, x>> \in OpToRel(<, Nat))
  BY <1>1
<1>3. ASSUME NEW y \in S PROVE x <= y
  <2>1. ~(y < x)
    BY <1>2 DEF OpToRel
  <2>2. x \in Int /\ y \in Int
    OBVIOUS
  <2>3. QED
    BY <2>1, <2>2
<1>4. QED
  BY <1>3

(* A PE never holds both operands: it fires when the second one comes.      *)
HalfFed == \A i \in Idx, j \in Idx : ~(is_act_in[i][j] /\ is_accum_in[i][j])

(* A run whose last column is complete has ended. *)
GoesOn == phase = "run" => ctr[N-1] # M

(* The words go to the columns in turn. *)
InTurns ==
    \A j \in Idx, k \in Idx : j <= k => wfed[k] <= wfed[j] /\ wfed[j] <= wfed[k] + 1

TurnInv == HalfFed /\ GoesOn /\ InTurns

LEMMA InitTurn == Init => TurnInv
<1> SUFFICES ASSUME Init PROVE TurnInv
  OBVIOUS
<1>1. HalfFed
  BY DEF Init, HalfFed
<1>2. GoesOn /\ InTurns
  BY DEF Init, GoesOn, InTurns
<1>3. QED
  BY <1>1, <1>2 DEF TurnInv

LEMMA PollHalfFed ==
    ASSUME TypeOK, HalfFed, NEW i \in Idx, NEW j \in Idx, Poll(i, j)
    PROVE  HalfFed'
<1>0. PICK w \in PopNB(weight_ch[i][j]),
           a \in IF is_act_in[i][j] THEN {FALSE} ELSE PopNB(act_ch[i][j]),
           s \in IF is_accum_in[i][j] THEN {FALSE} ELSE PopNB(accum_ch[i][j]) :
             Poll(i, j)!2!(w, a, s)
  BY DEF Poll
<1> DEFINE fires == Fires(is_act_in[i][j] \/ a, is_accum_in[i][j] \/ s)
<1>1. /\ is_act_in' = [is_act_in EXCEPT ![i][j] = (@ \/ a) /\ ~fires]
      /\ is_accum_in' = [is_accum_in EXCEPT ![i][j] = (@ \/ s) /\ ~fires]
      /\ is_act_in \in [Idx -> [Idx -> BOOLEAN]] /\ is_accum_in \in [Idx -> [Idx -> BOOLEAN]]
  BY <1>0 DEF TypeOK, ActType, SumType
<1>2. ~(((is_act_in[i][j] \/ a) /\ ~fires) /\ ((is_accum_in[i][j] \/ s) /\ ~fires))
  BY DEF Fires
<1> HIDE DEF fires
<1>3. ASSUME NEW x \in Idx, NEW y \in Idx PROVE ~(is_act_in'[x][y] /\ is_accum_in'[x][y])
  <2>1. CASE x = i /\ y = j
    BY <1>1, <1>2, <2>1
  <2>2. CASE ~(x = i /\ y = j)
    <3>1. is_act_in'[x][y] = is_act_in[x][y] /\ is_accum_in'[x][y] = is_accum_in[x][y]
      BY <1>1, <2>2
    <3>2. QED
      BY <3>1 DEF HalfFed
  <2>3. QED
    BY <2>1, <2>2
<1>4. QED
  BY <1>3, SMTT(60) DEF HalfFed

LEMMA WeightPushTurns ==
    ASSUME TypeOK, InTurns, NEW j \in Idx, WeightPush(j)
    PROVE  InTurns'
<1>1. wfed \in [Idx -> 0 .. N+1] /\ wfed' = [wfed EXCEPT ![j] = @ + 1]
  BY DEF WeightPush, TypeOK, ClientType
<1>2. \A k \in Idx : IF k < j THEN wfed[k] = wfed[j] + 1 ELSE wfed[k] = wfed[j]
  BY DEF WeightPush
<1>3. ASSUME NEW x \in Idx, NEW y \in Idx, x <= y
      PROVE  wfed'[y] <= wfed'[x] /\ wfed'[x] <= wfed'[y] + 1
  <2>1. /\ wfed[j] \in Nat /\ x \in Int /\ y \in Int /\ j \in Int
        /\ wfed'[x] = (IF x = j THEN wfed[x] + 1 ELSE wfed[x])
        /\ wfed'[y] = (IF y = j THEN wfed[y] + 1 ELSE wfed[y])
    BY <1>1 DEF Idx
  <2>2. /\ wfed[x] = (IF x < j THEN wfed[j] + 1 ELSE wfed[j])
        /\ wfed[y] = (IF y < j THEN wfed[j] + 1 ELSE wfed[j])
    BY <1>2
  <2>3. QED
    BY <1>3, <2>1, <2>2
<1>4. QED
  BY <1>3 DEF InTurns

LEMMA NextTurn ==
    ASSUME TypeOK, TurnInv, [Next]_vars
    PROVE  TurnInv'
<1>0. HalfFed /\ GoesOn /\ InTurns
  BY DEF TurnInv
<1>1. ASSUME UNCHANGED <<is_act_in, is_accum_in, phase, ctr, wfed>> PROVE TurnInv'
  BY <1>0, <1>1 DEF TurnInv, HalfFed, GoesOn, InTurns
<1>2. ASSUME NEW i \in Idx, NEW j \in Idx, PERun(i, j) PROVE TurnInv'
  <2>1. CASE Poll(i, j)
    <3>1. UNCHANGED <<phase, ctr, wfed>>
      BY <2>1 DEF Poll, clientVars
    <3>2. QED
      BY <1>0, <2>1, <3>1, PollHalfFed DEF TurnInv, GoesOn, InTurns
  <2>2. CASE PushAct(i, j) \/ PushAccum(i, j) \/ PushWeight(i, j)
    BY <1>1, <2>2 DEF PushAct, PushAccum, PushWeight, sumVars, actVars, clientVars
  <2>3. QED
    BY <1>2, <2>1, <2>2 DEF PERun
<1>3. ASSUME NEW j \in Idx, SysBiasRun(j) PROVE TurnInv'
  <2>1. UNCHANGED <<is_act_in, is_accum_in, phase, ctr, wfed>>
    BY <1>3 DEF SysBiasRun, BiasConfig, BiasAccum, BiasWeight, BiasPush, peVars, sumVars, actVars, clientVars
  <2>2. QED
    BY <1>1, <2>1
<1>4. CASE SysConfigRun \/ ActOutRun \/ AccumInRun
  <2>1. UNCHANGED <<is_act_in, is_accum_in, phase, ctr, wfed>>
    BY <1>4 DEF SysConfigRun, ConfigPop, ConfigPush, ActOutRun, AccumInRun, peVars, sumVars, actVars, clientVars
  <2>2. QED
    BY <1>1, <2>1
<1>5. ASSUME NEW j \in Idx, WeightPush(j) PROVE TurnInv'
  <2>1. UNCHANGED <<is_act_in, is_accum_in, phase, ctr>>
    BY <1>5 DEF WeightPush, sumVars, actVars
  <2>2. QED
    BY <1>0, <1>5, <2>1, WeightPushTurns DEF TurnInv, HalfFed, GoesOn
<1>6. CASE ReadRspRun \/ ConfigWrite
  <2>1. UNCHANGED <<is_act_in, is_accum_in, phase, ctr, wfed>>
    BY <1>6 DEF ReadRspRun, ActPush, ConfigWrite, peVars, sumVars, actVars
  <2>2. QED
    BY <1>1, <2>1
<1>7. CASE CollectOut
  <2>1. UNCHANGED <<is_act_in, is_accum_in, wfed>> /\ (phase' = "run" => ~RunDone(ctr'))
    BY <1>7 DEF CollectOut, peVars, sumVars, actVars
  <2>2. QED
    BY <1>0, <2>1 DEF TurnInv, HalfFed, GoesOn, InTurns, RunDone
<1>8. CASE StartRun
  <2>1. UNCHANGED <<is_act_in, is_accum_in, wfed>> /\ ctr'[N-1] = 0
    BY <1>8, Types DEF StartRun, sumVars, actVars
  <2>2. QED
    BY <1>0, <2>1 DEF TurnInv, HalfFed, GoesOn, InTurns
<1>9. CASE NextLoad
  <2>1. UNCHANGED <<is_act_in, is_accum_in>> /\ phase' = "load" /\ wfed' = [j \in Idx |-> 0]
    BY <1>9 DEF NextLoad, sumVars, actVars
  <2>2. InTurns'
    BY <2>1 DEF InTurns
  <2>3. QED
    BY <1>0, <2>1, <2>2 DEF TurnInv, HalfFed, GoesOn
<1>10. CASE Stop \/ UNCHANGED vars
  <2>1. UNCHANGED <<is_act_in, is_accum_in, phase, ctr, wfed>>
    BY <1>10 DEF Stop, vars, peVars, sumVars, actVars, clientVars
  <2>2. QED
    BY <1>1, <2>1
<1>11. QED
  BY <1>2, <1>3, <1>4, <1>5, <1>6, <1>7, <1>8, <1>9, <1>10 DEF Next, WeightAxi, Host

LEMMA TurnsKept == Spec => []TurnInv
<1>1. TypeOK /\ TurnInv /\ [Next]_vars => TurnInv'
  BY NextTurn
<1>2. QED
  BY <1>1, InitTurn, TypeCorrect, PTL DEF Spec

-----------------------------------------------------------------------------
(* Where nobody can go on *)

Blocked ==
    /\ \A i \in Idx, j \in Idx : ~PECanMove(i, j)
    /\ \A j \in Idx : ~BiasCanMove(j)
    /\ ~ArrayCanMove /\ ~ClientCanMove

(* The products of row i, and as row N the outputs of a column; and the sums *)
(* that wait above them.                                                     *)
Made(i, j) == IF i = N THEN Emitted(j) ELSE fired[i][j]
Above(i, j) == IF i = N THEN OutWaiting(j) ELSE SumWaiting(i, j)

LEMMA MadeCounts ==
    ASSUME TypeOK, Flow
    PROVE  /\ \A i \in Ext, j \in Idx : /\ Made(i, j) \in Nat /\ Above(i, j) \in Nat
                                      /\ Len(accum_ch[i][j]) \in Nat
                                      /\ Len(accum_ch[i][j]) <= Above(i, j)
           /\ \A i \in Idx, j \in Idx : /\ Made(i, j) = fired[i][j] /\ SumInHand(i, j) \in 0 .. 1
                                      /\ Made(i, j) = Made(i+1, j) + Above(i+1, j) + SumInHand(i, j)
           /\ \A i \in Idx : fed[i] = Made(i, 0) + ActWaiting(i, 0)
           /\ \A i \in Idx, j \in Idx \ {0} :
                Made(i, j-1) = Made(i, j) + ActWaiting(i, j) + ActInHand(i, j-1)
<1>1. /\ \A i \in Idx, j \in Idx : /\ Made(i, j) = fired[i][j] /\ Above(i, j) = SumWaiting(i, j)
                                 /\ fired[i][j] \in Nat /\ SumWaiting(i, j) \in Nat
      /\ \A j \in Idx : /\ Made(N, j) = Emitted(j) /\ Above(N, j) = OutWaiting(j)
                        /\ Emitted(j) \in Nat /\ OutWaiting(j) \in Nat
  BY Counts, Types DEF Made, Above
<1>2. \A i \in Ext, j \in Idx : Len(accum_ch[i][j]) \in Nat
  BY DEF TypeOK, SumType, Chan
<1>3. ASSUME NEW i \in Ext, NEW j \in Idx
      PROVE  Made(i, j) \in Nat /\ Above(i, j) \in Nat /\ Len(accum_ch[i][j]) <= Above(i, j)
  <2>1. CASE i = N
    BY <1>1, <1>2, <2>1 DEF OutWaiting, Waiting
  <2>2. CASE i # N
    <3>1. i \in Idx
      BY <2>2 DEF Idx, Ext
    <3>2. QED
      BY <1>1, <1>2, <3>1 DEF SumWaiting, Waiting
  <2>3. QED
    BY <2>1, <2>2
<1>4. ASSUME NEW i \in Idx, NEW j \in Idx
      PROVE  Made(i, j) = Made(i+1, j) + Above(i+1, j) + SumInHand(i, j)
  <2>1. CASE i = N - 1
    <3>1. i + 1 = N
      BY <2>1
    <3>2. fired[N-1][j] = Emitted(j) + OutWaiting(j) + SumInHand(N-1, j)
      BY DEF Flow, SumConserved
    <3>3. QED
      BY <1>1, <2>1, <3>1, <3>2
  <2>2. CASE i # N - 1
    <3>1. i + 1 \in Idx \ {0} /\ (i + 1) - 1 = i
      BY <2>2 DEF Idx
    <3>2. fired[(i+1)-1][j] = fired[i+1][j] + SumWaiting(i+1, j) + SumInHand((i+1)-1, j)
      BY <3>1 DEF Flow, SumConserved
    <3>3. QED
      BY <1>1, <3>1, <3>2
  <2>3. QED
    BY <2>1, <2>2
<1>5. /\ \A i \in Idx : fed[i] = fired[i][0] + ActWaiting(i, 0)
      /\ \A i \in Idx, j \in Idx \ {0} :
           fired[i][j-1] = fired[i][j] + ActWaiting(i, j) + ActInHand(i, j-1)
  BY DEF Flow, ActConserved
<1>6. \A j \in Idx \ {0} : j - 1 \in Idx
  BY DEF Idx
<1>7. \A i \in Idx, j \in Idx : SumInHand(i, j) \in 0 .. 1
  BY DEF SumInHand
<1>8. 0 \in Idx
  BY Types
<1>9. /\ \A i \in Idx : fed[i] = Made(i, 0) + ActWaiting(i, 0)
      /\ \A i \in Idx, j \in Idx \ {0} :
           Made(i, j-1) = Made(i, j) + ActWaiting(i, j) + ActInHand(i, j-1)
  BY <1>1, <1>5, <1>6, <1>8
<1>10. QED
  BY <1>1, <1>2, <1>3, <1>4, <1>7, <1>9

(* A PE that cannot go on lacks an operand, or waits for a full channel.    *)
LEMMA BlockedPE ==
    ASSUME TypeOK, HalfFed, Blocked, NEW i \in Idx, NEW j \in Idx
    PROVE  /\ pc[i][j] = "poll" => /\ weight_ch[i][j] = << >>
                                   /\ ActWaiting(i, j) = 0 \/ SumWaiting(i, j) = 0
           /\ pc[i][j] = "act" => Len(act_ch[i][j+1]) >= Cap
           /\ pc[i][j] = "accum" => Len(accum_ch[i+1][j]) >= Cap
           /\ pc[i][j] = "weight" => Len(weight_ch[i+1][j]) >= Cap
<1>1. i + 1 \in Ext /\ j + 1 \in Ext /\ i \in Ext /\ j \in Ext
  BY DEF Idx, Ext
<1>2. /\ Len(act_ch[i][j+1]) \in Nat /\ Len(accum_ch[i+1][j]) \in Nat
      /\ Len(weight_ch[i+1][j]) \in Nat /\ Cap \in Nat
  <2>1. \A T : \A ch \in Chan(T) : Len(ch) \in Nat
    BY DEF Chan
  <2>2. /\ act_ch[i][j+1] \in Chan(Act) /\ accum_ch[i+1][j] \in Chan(Sum)
        /\ weight_ch[i+1][j] \in Chan(Word)
    BY <1>1 DEF TypeOK, ActType, SumType, WeightType
  <2>3. QED
    BY <2>1, <2>2, CapAssumption
<1>3. ~PECanMove(i, j)
  BY DEF Blocked
<1>4. ASSUME pc[i][j] = "poll"
      PROVE  weight_ch[i][j] = << >> /\ (ActWaiting(i, j) = 0 \/ SumWaiting(i, j) = 0)
  <2>1. /\ weight_ch[i][j] = << >>
        /\ is_act_in[i][j] \/ act_ch[i][j] = << >>
        /\ is_accum_in[i][j] \/ accum_ch[i][j] = << >>
    BY <1>3, <1>4 DEF PECanMove, HasMsg
  <2>2. ~is_act_in[i][j] \/ ~is_accum_in[i][j]
    BY DEF HalfFed
  <2>3. Len(<< >>) = 0
    OBVIOUS
  <2>4. ASSUME ~is_act_in[i][j] PROVE ActWaiting(i, j) = 0
    BY <2>1, <2>3, <2>4 DEF ActWaiting, Waiting
  <2>5. ASSUME ~is_accum_in[i][j] PROVE SumWaiting(i, j) = 0
    BY <2>1, <2>3, <2>5 DEF SumWaiting, Waiting
  <2>6. QED
    BY <2>1, <2>2, <2>4, <2>5
<1>5. /\ pc[i][j] = "act" => Len(act_ch[i][j+1]) >= Cap
      /\ pc[i][j] = "accum" => Len(accum_ch[i+1][j]) >= Cap
      /\ pc[i][j] = "weight" => Len(weight_ch[i+1][j]) >= Cap
  BY <1>2, <1>3 DEF PECanMove, HasRoom
<1>6. QED
  BY <1>4, <1>5

(* A PE that waits with its activation is ahead of the one on its right, by *)
(* the capacity of the channel; one that waits with its sum, of the row     *)
(* below it.                                                                *)
LEMMA FarAhead ==
    ASSUME TypeOK, Flow, HalfFed, Blocked, NEW i \in Idx, NEW j \in Idx
    PROVE  /\ pc[i][j] = "act" => j + 1 \in Idx /\ Made(i, j+1) + Cap + 1 <= Made(i, j)
           /\ pc[i][j] = "accum" => Made(i+1, j) + Cap + 1 <= Made(i, j)
<1>0. Cap \in Nat /\ Cap >= 1 /\ i + 1 \in Ext
  BY CapAssumption DEF Idx, Ext
<1>1. ASSUME pc[i][j] = "act" PROVE j + 1 \in Idx /\ Made(i, j+1) + Cap + 1 <= Made(i, j)
  <2>1. Len(act_ch[i][j+1]) >= Cap
    BY <1>1, BlockedPE
  <2>2. j + 1 # N
    <3>1. act_ch[i][N] = << >>
      BY DEF Blocked, ArrayCanMove, HasMsg
    <3>2. Len(act_ch[i][N]) = 0
      BY <3>1
    <3>3. QED
      BY <1>0, <2>1, <3>2
  <2>3. j + 1 \in Idx \ {0} /\ (j + 1) - 1 = j
    BY <2>2 DEF Idx
  <2>4. Len(act_ch[i][j+1]) \in Nat /\ ActWaiting(i, j+1) \in Nat /\ ActWaiting(i, j+1) >= Len(act_ch[i][j+1])
    <3>1. Len(act_ch[i][j+1]) \in Nat
      BY <2>3, Positions
    <3>2. QED
      BY <3>1 DEF ActWaiting, Waiting
  <2>5. Made(i, (j+1)-1) = Made(i, j+1) + ActWaiting(i, j+1) + ActInHand(i, (j+1)-1)
    BY <2>3, MadeCounts
  <2>6. ActInHand(i, j) = 1
    BY <1>1 DEF ActInHand
  <2>7. Made(i, j+1) \in Nat
    BY <2>3, MadeCounts, Types
  <2>8. QED
    BY <1>0, <2>1, <2>3, <2>4, <2>5, <2>6, <2>7
<1>2. ASSUME pc[i][j] = "accum" PROVE Made(i+1, j) + Cap + 1 <= Made(i, j)
  <2>1. Len(accum_ch[i+1][j]) >= Cap
    BY <1>2, BlockedPE
  <2>2. SumInHand(i, j) = 1
    BY <1>2 DEF SumInHand
  <2>3. /\ Made(i, j) = Made(i+1, j) + Above(i+1, j) + SumInHand(i, j)
        /\ Made(i+1, j) \in Nat /\ Above(i+1, j) \in Nat
        /\ Len(accum_ch[i+1][j]) \in Nat /\ Len(accum_ch[i+1][j]) <= Above(i+1, j)
    BY <1>0, MadeCounts
  <2>4. QED
    BY <1>0, <2>1, <2>2, <2>3
<1>3. QED
  BY <1>1, <1>2

(* A row that lacks sums, under one that has made more of them, has to      *)
(* thank for it a PE further right in the row above, which is behind both.  *)
LEMMA SumsMissing ==
    ASSUME TypeOK, Flow, HalfFed, Blocked, NEW i \in Idx, NEW j \in Idx,
           Above(i+1, j) = 0, Made(i, j) > Made(i+1, j)
    PROVE  j + 1 \in Idx /\ Made(i, j+1) < Made(i+1, j)
<1>0. Cap \in Nat /\ Cap >= 1 /\ i + 1 \in Ext
  BY CapAssumption DEF Idx, Ext
<1>1. /\ Made(i, j) = Made(i+1, j) + Above(i+1, j) + SumInHand(i, j)
      /\ Made(i+1, j) \in Nat /\ SumInHand(i, j) \in 0 .. 1
      /\ Len(accum_ch[i+1][j]) \in Nat /\ Len(accum_ch[i+1][j]) <= Above(i+1, j)
  BY <1>0, MadeCounts
<1>2. SumInHand(i, j) = 1 /\ Made(i, j) = Made(i+1, j) + 1
  BY <1>1
<1>3. pc[i][j] \in {"act", "accum"}
  BY <1>2 DEF SumInHand
<1>4. pc[i][j] # "accum"
  <2>1. Len(accum_ch[i+1][j]) = 0
    BY <1>1
  <2>2. QED
    BY <1>0, <2>1, BlockedPE
<1>5. j + 1 \in Idx /\ Made(i, j+1) + Cap + 1 <= Made(i, j)
  BY <1>3, <1>4, FarAhead
<1>6. Made(i, j+1) \in Nat
  BY <1>5, MadeCounts, Types
<1>7. QED
  BY <1>0, <1>1, <1>2, <1>5, <1>6

(* ReadRspRun waits for a row that has as many activations before it as its *)
(* channel takes.                                                           *)
LEMMA FeedBlocked ==
    ASSUME TypeOK, Flow, Blocked, phase = "run", NEW i \in Idx, fed[i] < M
    PROVE  \E k \in Idx : fed[k] < M /\ fed[k] + k <= fed[i] + i /\ Made(k, 0) + Cap <= fed[k]
<1>0. \A k \in Idx : fed[k] \in Nat /\ k \in Nat
  BY Counts DEF Idx
<1> DEFINE S == {n \in Nat : \E k \in Idx : fed[k] < M /\ n = fed[k] + k}
<1>1. PICK b \in S : \A n \in S : b <= n
  <2>1. fed[i] + i \in S
    BY <1>0
  <2>2. S \in SUBSET Nat /\ S # {}
    BY <2>1
  <2> HIDE DEF S
  <2>3. QED
    BY <2>2, LeastOf
<1> DEFINE R == {k \in Idx : fed[k] < M /\ fed[k] + k = b}
<1>2. PICK k \in R : \A l \in R : k <= l
  <2>1. R \in SUBSET Nat
    BY <1>0
  <2>2. R # {}
    OBVIOUS
  <2> HIDE DEF R
  <2>3. QED
    BY <2>1, <2>2, LeastOf
<1>3. k \in Idx /\ fed[k] < M /\ fed[k] + k = b
  OBVIOUS
<1>4. ASSUME NEW l \in Idx, fed[l] < M
      PROVE  fed[k] + k < fed[l] + l \/ (fed[k] + k = fed[l] + l /\ k <= l)
  <2>1. fed[l] + l \in S
    BY <1>0, <1>4
  <2>2. b <= fed[l] + l /\ b \in Nat
    BY <1>1, <2>1
  <2>3. CASE b = fed[l] + l
    <3>1. l \in R
      BY <1>4, <2>3
    <3>2. k <= l
      BY <1>2, <3>1
    <3>3. QED
      BY <1>3, <2>3, <3>2
  <2>4. CASE b # fed[l] + l
    BY <1>0, <1>3, <2>2, <2>4
  <2>5. QED
    BY <2>3, <2>4
<1>5. fed[k] + k <= fed[i] + i
  <2>1. fed[i] + i \in S
    BY <1>0
  <2>2. QED
    BY <1>1, <1>3, <2>1
<1> HIDE DEF S, R
<1>6. ActTurn(k)
  BY <1>3, <1>4 DEF ActTurn
<1>7. ~HasRoom(act_ch[k][0])
  BY <1>3, <1>6 DEF Blocked, ClientCanMove
<1>8. Len(act_ch[k][0]) \in Nat /\ Cap \in Nat /\ 0 \in Idx
  BY <1>3, Positions, Types, CapAssumption
<1>9. ActWaiting(k, 0) \in Nat /\ ActWaiting(k, 0) >= Cap
  BY <1>7, <1>8 DEF HasRoom, ActWaiting, Waiting
<1>10. fed[k] = Made(k, 0) + ActWaiting(k, 0) /\ Made(k, 0) \in Nat
  BY <1>3, <1>8, MadeCounts, Types
<1>11. QED
  BY <1>3, <1>5, <1>8, <1>9, <1>10

(* During a run.  Of the products and outputs still to be made take one that *)
(* a wavefront would make first.  Its operands have been made; if they are   *)
(* not there, or if it is made and cannot go on, something a wavefront would *)
(* make even earlier is missing too.                                         *)
LEMMA RunNotBlocked ==
    ASSUME TypeOK, Flow, LoadInv, TurnInv, phase = "run", Blocked
    PROVE  FALSE
<1>0. /\ HalfFed /\ Cap \in Nat /\ Cap >= 1 /\ N \in Nat /\ M \in Nat
      /\ \A i \in Ext : i \in Nat /\ (i # N => i \in Idx)
      /\ \A i \in Idx : i \in Nat /\ i \in Ext
  BY CapAssumption DEF TurnInv, Idx, Ext
<1>1. \A i \in Ext, j \in Idx : Made(i, j) \in Nat
  BY MadeCounts
<1>2. \A j \in Idx : act_out[j] = << >>
  BY DEF Blocked, ClientCanMove, HasMsg
<1>3. Made(N, N-1) < M
  <2>1. Made(N, N-1) = Emitted(N-1) /\ N - 1 \in Idx /\ N \in Ext
    BY Types DEF Made
  <2>2. Emitted(N-1) = ctr[N-1] /\ ctr[N-1] \in Nat
    <3>1. Len(act_out[N-1]) = 0
      BY <1>2, <2>1
    <3>2. ctr[N-1] \in Nat
      BY <2>1, Counts
    <3>3. QED
      BY <3>1, <3>2 DEF Emitted
  <2>3. ctr[N-1] # M
    BY DEF TurnInv, GoesOn
  <2>4. Emitted(N-1) <= M
    <3>1. /\ Emitted(N-1) <= fired[N-1][N-1] /\ fired[N-1][N-1] <= fed[N-1]
          /\ fed[N-1] <= M /\ fed[N-1] \in Nat /\ fired[N-1][N-1] \in Nat
      BY <2>1, Counts DEF Flow, Behind
    <3>2. QED
      BY <2>2, <3>1
  <2>5. QED
    BY <2>1, <2>2, <2>3, <2>4
<1> DEFINE S == {n \in Nat : \E i \in Ext, j \in Idx : Made(i, j) < M /\ n = Made(i, j) + i + j}
<1>4. PICK n \in S : \A x \in S : n <= x
  <2>1. N \in Ext /\ N - 1 \in Idx
    BY Types
  <2>2. Made(N, N-1) + N + (N - 1) \in Nat
    BY <1>0, <1>1, <2>1
  <2>3. Made(N, N-1) + N + (N - 1) \in S
    BY <1>3, <2>1, <2>2
  <2>4. S \in SUBSET Nat /\ S # {}
    BY <2>3
  <2> HIDE DEF S
  <2>5. QED
    BY <2>4, LeastOf
<1>5. PICK i \in Ext, j \in Idx : Made(i, j) < M /\ n = Made(i, j) + i + j
  OBVIOUS
<1>6. ASSUME NEW k \in Ext, NEW l \in Idx, Made(k, l) < M
      PROVE  Made(i, j) + i + j <= Made(k, l) + k + l
  <2>1. Made(k, l) + k + l \in Nat
    BY <1>0, <1>1
  <2>2. Made(k, l) + k + l \in S
    BY <1>6, <2>1
  <2>3. QED
    BY <1>4, <1>5, <2>2
<1> HIDE DEF S
<1>7. Made(i, j) \in Nat /\ i \in Nat /\ j \in Nat
  BY <1>0, <1>1
(* What comes before it has been made. *)
<1>8. ASSUME NEW k \in Ext, NEW l \in Idx, k + l < i + j
      PROVE  Made(i, j) < Made(k, l)
  <2>1. Made(k, l) \in Nat /\ k \in Nat /\ l \in Nat
    BY <1>0, <1>1
  <2>2. CASE Made(k, l) < M
    <3>1. Made(i, j) + i + j <= Made(k, l) + k + l
      BY <1>6, <2>2
    <3>2. QED
      BY <1>7, <1>8, <2>1, <3>1
  <2>3. CASE ~(Made(k, l) < M)
    BY <1>0, <1>5, <1>7, <2>1, <2>3
  <2>4. QED
    BY <2>2, <2>3
(* Nothing of what comes with it or one step later is far behind it. *)
<1>9. ASSUME NEW k \in Ext, NEW l \in Idx, k + l <= i + j + 1, Made(k, l) + Cap + 1 <= Made(i, j)
      PROVE  FALSE
  <2>1. Made(k, l) \in Nat /\ k \in Nat /\ l \in Nat
    BY <1>0, <1>1
  <2>2. Made(k, l) < M
    BY <1>0, <1>5, <1>7, <1>9, <2>1
  <2>3. Made(i, j) + i + j <= Made(k, l) + k + l
    BY <1>6, <2>2
  <2>4. QED
    BY <1>0, <1>7, <1>9, <2>1, <2>3
(* It does not lack sums. *)
<1>10. ASSUME Above(i, j) = 0, i # 0 PROVE FALSE
  <2>1. i - 1 \in Idx /\ (i - 1) + 1 = i
    BY <1>0, <1>7, <1>10 DEF Ext, Idx
  <2>2. Made(i-1, j) > Made(i, j)
    <3>1. i - 1 \in Ext /\ (i - 1) + j < i + j
      BY <1>0, <1>7, <2>1
    <3>2. Made(i, j) < Made(i-1, j)
      BY <1>8, <3>1
    <3>3. Made(i-1, j) \in Nat
      BY <1>1, <3>1
    <3>4. QED
      BY <1>7, <3>2, <3>3
  <2>3. j + 1 \in Idx /\ Made(i-1, j+1) < Made(i, j)
    <3> DEFINE h == i - 1
    <3>1. h \in Idx /\ h + 1 = i
      BY <2>1
    <3>2. Above(h+1, j) = 0 /\ Made(h, j) > Made(h+1, j)
      BY <1>10, <2>2, <3>1
    <3> HIDE DEF h
    <3>3. j + 1 \in Idx /\ Made(h, j+1) < Made(h+1, j)
      BY <1>0, <3>1, <3>2, SumsMissing
    <3>4. QED
      BY <3>1, <3>3 DEF h
  <2>4. i - 1 \in Ext /\ Made(i-1, j+1) \in Nat
    BY <1>0, <1>1, <2>1, <2>3
  <2>5. Made(i-1, j+1) < M
    BY <1>0, <1>5, <1>7, <2>3, <2>4
  <2>6. Made(i, j) + i + j <= Made(i-1, j+1) + (i - 1) + (j + 1)
    BY <1>6, <2>3, <2>4, <2>5
  <2>7. QED
    BY <1>7, <2>3, <2>4, <2>6
<1>11. CASE i = N
  <2>1. ~BiasCanMove(j)
    BY DEF Blocked
  <2>2. CASE bpc[j] = "push"
    <3>1. HasRoom(act_out[j])
      <4>1. Len(act_out[j]) = 0
        BY <1>2
      <4>2. QED
        BY <1>0, <4>1 DEF HasRoom
    <3>2. ASSUME NEW k \in Idx, k + 1 = j PROVE Emitted(j) < Emitted(k)
      <4>1. N + k < i + j /\ N \in Ext
        BY <1>0, <1>7, <1>11, <3>2, Types
      <4>2. Made(i, j) < Made(N, k)
        BY <1>8, <4>1
      <4>3. QED
        BY <1>11, <4>2 DEF Made
    <3>3. InWavefront(j)
      BY <3>2 DEF InWavefront
    <3>4. QED
      BY <2>1, <2>2, <3>1, <3>3 DEF BiasCanMove
  <2>3. CASE bpc[j] # "push"
    <3>1. bpc[j] = "poll"
      BY <2>3 DEF TypeOK, BiasType
    <3>2. accum_ch[N][j] = << >>
      BY <2>1, <3>1 DEF BiasCanMove, HasMsg
    <3>3. Above(i, j) = 0
      <4>1. Len(accum_ch[N][j]) = 0
        BY <3>2
      <4>2. QED
        BY <1>11, <2>3, <4>1 DEF Above, OutWaiting, Waiting
    <3>4. QED
      BY <1>0, <1>10, <1>11, <3>3
  <2>4. QED
    BY <2>2, <2>3
<1>12. CASE i # N
  <2>0. i \in Idx /\ i + 1 \in Ext
    BY <1>0, <1>12, Types
  <2>1. pc[i][j] # "weight"
    <3>1. ~is_weight_in[i][j]
      BY <2>0 DEF LoadInv, Loaded, Settled
    <3>2. QED
      BY <2>0, <3>1 DEF LoadInv, WordTurn
  <2>2. CASE pc[i][j] = "act"
    <3>1. j + 1 \in Idx /\ Made(i, j+1) + Cap + 1 <= Made(i, j)
      BY <1>0, <2>0, <2>2, FarAhead
    <3>2. i + (j + 1) <= i + j + 1
      BY <1>7
    <3>3. QED
      BY <1>9, <3>1, <3>2
  <2>3. CASE pc[i][j] = "accum"
    <3>1. Made(i+1, j) + Cap + 1 <= Made(i, j)
      BY <1>0, <2>0, <2>3, FarAhead
    <3>2. (i + 1) + j <= i + j + 1
      BY <1>7
    <3>3. QED
      BY <1>9, <2>0, <3>1, <3>2
  <2>4. CASE pc[i][j] = "poll" /\ SumWaiting(i, j) = 0
    <3>1. Above(i, j) = 0
      BY <1>12, <2>4 DEF Above
    <3>2. i = 0
      BY <1>10, <3>1
    <3>3. ~HasRoom(accum_ch[0][j])
      BY DEF Blocked, ArrayCanMove
    <3>4. Len(accum_ch[0][j]) \in Nat /\ Len(accum_ch[0][j]) <= Above(0, j)
      BY MadeCounts, Types
    <3>5. QED
      BY <1>0, <3>1, <3>2, <3>3, <3>4 DEF HasRoom
  <2>5. CASE pc[i][j] = "poll" /\ ActWaiting(i, j) = 0
    <3>1. CASE j = 0
      <4>1. fed[i] = Made(i, 0) + ActWaiting(i, 0)
        BY <2>0, MadeCounts
      <4>2. fed[i] = Made(i, j)
        BY <1>7, <2>5, <3>1, <4>1
      <4>3. PICK k \in Idx : fed[k] < M /\ fed[k] + k <= fed[i] + i /\ Made(k, 0) + Cap <= fed[k]
        BY <1>5, <2>0, <4>2, FeedBlocked
      <4>4. Made(k, 0) \in Nat /\ fed[k] \in Nat /\ k \in Nat /\ k \in Ext /\ 0 \in Idx
        BY <1>0, <1>1, Types, Counts
      <4>5. Made(k, 0) < M
        BY <1>0, <4>3, <4>4
      <4>6. Made(i, j) + i + j <= Made(k, 0) + k + 0
        BY <1>6, <4>4, <4>5
      <4>7. QED
        BY <1>0, <1>7, <3>1, <4>2, <4>3, <4>4, <4>6
    <3>2. CASE j # 0
      <4>1. j - 1 \in Idx /\ j \in Idx \ {0} /\ (j - 1) + 1 = j
        BY <3>2 DEF Idx
      <4>2. Made(i, j-1) = Made(i, j) + ActWaiting(i, j) + ActInHand(i, j-1)
        BY <2>0, <4>1, MadeCounts
      <4>3. Made(i, j) < Made(i, j-1)
        <5>1. i + (j - 1) < i + j
          BY <1>7
        <5>2. QED
          BY <1>8, <4>1, <5>1
      <4>4. ActInHand(i, j-1) # 0
        BY <1>7, <2>5, <4>2, <4>3
      <4>5. pc[i][j-1] = "act"
        BY <4>4 DEF ActInHand
      <4>6. Len(act_ch[i][j]) >= Cap
        <5> DEFINE h == j - 1
        <5>1. h \in Idx /\ h + 1 = j /\ pc[i][h] = "act"
          BY <4>1, <4>5
        <5> HIDE DEF h
        <5>2. Len(act_ch[i][h+1]) >= Cap
          BY <1>0, <2>0, <5>1, BlockedPE
        <5>3. QED
          BY <5>1, <5>2
      <4>7. Len(act_ch[i][j]) \in Nat
        BY <2>0, Positions
      <4>8. ActWaiting(i, j) >= Cap
        BY <1>0, <4>6, <4>7 DEF ActWaiting, Waiting
      <4>9. QED
        BY <1>0, <2>5, <4>8
    <3>3. QED
      BY <3>1, <3>2
  <2>6. QED
    <3>1. pc[i][j] \in {"poll", "act", "accum", "weight"}
      BY <2>0 DEF TypeOK, PhaseType
    <3>2. pc[i][j] = "poll" => ActWaiting(i, j) = 0 \/ SumWaiting(i, j) = 0
      BY <1>0, <2>0, BlockedPE
    <3>3. QED
      BY <2>1, <2>2, <2>3, <2>4, <2>5, <3>1, <3>2
<1>13. QED
  BY <1>11, <1>12

(* During a load.  Nothing of a run is in the array, so the lowest word of a *)
(* column can go on; and where no word is left, the next one can come.       *)
LEMMA WordsNotBlocked ==
    ASSUME TypeOK, LoadInv, Blocked, NEW j \in Idx, bpc[j] = "poll",
           \A i \in Idx : pc[i][j] \in {"poll", "weight"}
    PROVE  /\ \A i \in Ext : weight_ch[i][j] = << >>
           /\ \A i \in Idx : ~is_weight_in[i][j]
<1>0. /\ Cap \in Nat /\ Cap >= 1 /\ N \in Nat /\ Len(<< >>) = 0
      /\ \A i \in Ext : i \in Nat /\ i <= N /\ (i # N => i \in Idx /\ i + 1 \in Ext)
      /\ \A i \in Idx : i + 1 \in Ext
  BY CapAssumption DEF Idx, Ext
<1>1. ASSUME NEW i \in Idx, weight_ch[i+1][j] = << >>
      PROVE  pc[i][j] = "poll" /\ weight_ch[i][j] = << >>
  <2>1. HasRoom(weight_ch[i+1][j])
    BY <1>0, <1>1 DEF HasRoom
  <2>2. ~PECanMove(i, j)
    BY DEF Blocked
  <2>3. pc[i][j] = "poll"
    BY <2>1, <2>2 DEF PECanMove
  <2>4. QED
    BY <2>2, <2>3 DEF PECanMove, HasMsg
<1>2. weight_ch[N][j] = << >>
  <2>1. ~BiasCanMove(j)
    BY DEF Blocked
  <2>2. QED
    BY <2>1 DEF BiasCanMove, HasMsg
<1> DEFINE S == {n \in Nat : \E i \in Ext : weight_ch[i][j] # << >> /\ n = N - i}
<1>3. S = {}
  <2> SUFFICES ASSUME S # {} PROVE FALSE
    OBVIOUS
  <2>1. PICK n \in S : \A x \in S : n <= x
    <3>1. S \in SUBSET Nat
      OBVIOUS
    <3> HIDE DEF S
    <3>2. QED
      BY <3>1, LeastOf
  <2>2. PICK i \in Ext : weight_ch[i][j] # << >> /\ n = N - i
    OBVIOUS
  <2>3. i # N
    BY <1>2, <2>2
  <2>4. i \in Idx /\ i + 1 \in Ext /\ i \in Nat /\ i <= N
    BY <1>0, <2>3
  <2>5. weight_ch[i+1][j] # << >>
    BY <1>1, <2>2, <2>4
  <2>6. N - (i + 1) \in S
    <3>1. N - (i + 1) \in Nat
      BY <1>0, <2>3, <2>4
    <3>2. QED
      BY <2>4, <2>5, <3>1
  <2>7. n <= N - (i + 1)
    BY <2>1, <2>6
  <2>8. QED
    BY <1>0, <2>2, <2>4, <2>7
<1>4. ASSUME NEW i \in Ext PROVE weight_ch[i][j] = << >>
  <2>1. N - i \in Nat
    BY <1>0
  <2>2. weight_ch[i][j] # << >> => N - i \in S
    BY <2>1
  <2>3. QED
    BY <1>3, <2>2
<1>5. ASSUME NEW i \in Idx PROVE ~is_weight_in[i][j]
  <2>1. pc[i][j] = "poll"
    BY <1>0, <1>1, <1>4
  <2>2. QED
    BY <2>1 DEF LoadInv, WordTurn
<1>6. QED
  BY <1>4, <1>5

LEMMA LoadNotBlocked ==
    ASSUME TypeOK, Flow, LoadInv, TurnInv, phase = "load", Blocked
    PROVE  FALSE
<1>0. /\ Cap \in Nat /\ Cap >= 1 /\ N \in Nat /\ Len(<< >>) = 0
      /\ \A i \in Idx : i \in Nat /\ i <= N - 1
      /\ 0 \in Ext /\ N - 1 \in Idx
  BY CapAssumption, Types DEF Idx
<1>1. AllThrough
  BY DEF Flow
<1>2. ASSUME NEW i \in Idx, NEW j \in Idx PROVE pc[i][j] \in {"poll", "weight"}
  <2>1. SumInHand(i, j) = 0
    <3>1. CASE i = N - 1
      BY <1>1, <3>1, NothingWaiting
    <3>2. CASE i # N - 1
      <4>1. i + 1 \in Idx \ {0} /\ (i + 1) - 1 = i
        BY <3>2 DEF Idx
      <4>2. SumInHand((i + 1) - 1, j) = 0
        BY <1>1, <4>1, NothingWaiting
      <4>3. QED
        BY <4>1, <4>2
    <3>3. QED
      BY <3>1, <3>2
  <2>2. pc[i][j] \notin {"act", "accum"}
    BY <2>1 DEF SumInHand
  <2>3. pc[i][j] \in {"poll", "act", "accum", "weight"}
    BY DEF TypeOK, PhaseType
  <2>4. QED
    BY <2>2, <2>3
<1>3. ASSUME NEW j \in Idx PROVE bpc[j] = "poll" /\ config_ch[j] = << >>
  <2>1. OutWaiting(j) = 0
    BY <1>1, NothingWaiting
  <2>2. Len(accum_ch[N][j]) \in Nat
    BY Positions
  <2>3. bpc[j] # "push"
    BY <2>1, <2>2 DEF OutWaiting, Waiting
  <2>4. bpc[j] = "poll"
    BY <2>3 DEF TypeOK, BiasType
  <2>5. ~BiasCanMove(j)
    BY DEF Blocked
  <2>6. QED
    BY <2>4, <2>5 DEF BiasCanMove, HasMsg
<1>4. /\ \A i \in Ext, j \in Idx : weight_ch[i][j] = << >>
      /\ \A i \in Idx, j \in Idx : ~is_weight_in[i][j]
  BY <1>2, <1>3, WordsNotBlocked
<1>5. cfg_to = N /\ config_in = << >>
  <2>1. ~ArrayCanMove
    BY DEF Blocked
  <2>2. cfg_to \notin Idx
    <3>1. cfg_to \in Idx => HasRoom(config_ch[cfg_to])
      BY <1>0, <1>3 DEF HasRoom
    <3>2. QED
      BY <2>1, <3>1 DEF ArrayCanMove
  <2>3. cfg_to = N
    BY <2>2 DEF TypeOK, ConfigType, Idx, Ext
  <2>4. QED
    BY <2>1, <2>3 DEF ArrayCanMove, HasMsg
<1>6. Settled
  BY <1>3, <1>4, <1>5 DEF Settled
<1>7. ~ClientCanMove
  BY DEF Blocked
<1>8. cfed
  <2>1. HasRoom(config_in)
    BY <1>0, <1>5 DEF HasRoom
  <2>2. QED
    BY <1>7, <2>1 DEF ClientCanMove
<1>9. \A j \in Idx : wfed[j] \in Nat /\ wfed[j] <= N + 1
  BY DEF TypeOK, ClientType
<1>10. \A j \in Idx : wfed[N-1] <= wfed[j] /\ wfed[j] <= wfed[N-1] + 1
  BY <1>0 DEF TurnInv, InTurns
<1>11. CASE wfed[N-1] = N + 1
  <2>1. ASSUME NEW j \in Idx PROVE wfed[j] = N + 1
    BY <1>0, <1>9, <1>10, <1>11
  <2>2. QED
    BY <1>6, <1>7, <1>8, <2>1 DEF ClientCanMove
(* The leftmost column that has not had its word of this row. *)
<1>12. CASE wfed[N-1] # N + 1
  <2> DEFINE R == {j \in Idx : wfed[j] = wfed[N-1]}
  <2>1. PICK j \in R : \A k \in R : j <= k
    <3>1. R \in SUBSET Nat /\ R # {}
      BY <1>0
    <3> HIDE DEF R
    <3>2. QED
      BY <3>1, LeastOf
  <2>2. j \in Idx /\ wfed[j] = wfed[N-1] /\ wfed[j] <= N
    BY <1>0, <1>9, <1>12
  <2>3. ASSUME NEW k \in Idx
        PROVE  wfed[k] = IF k < j THEN wfed[j] + 1 ELSE wfed[j]
    <3>1. wfed[j] <= wfed[k] /\ wfed[k] <= wfed[j] + 1 /\ wfed[k] \in Nat /\ wfed[j] \in Nat
          /\ k \in Nat /\ j \in Nat
      BY <1>0, <1>9, <1>10, <2>2
    <3>2. CASE k < j
      <4>1. k \notin R
        BY <2>1, <3>1, <3>2
      <4>2. wfed[k] # wfed[j]
        BY <2>2, <4>1
      <4>3. QED
        BY <3>1, <3>2, <4>2
    <3>3. CASE ~(k < j)
      <4>1. wfed[k] <= wfed[j]
        BY <2>2, <3>1, <3>3 DEF TurnInv, InTurns
      <4>2. QED
        BY <3>1, <3>3, <4>1
    <3>4. QED
      BY <3>2, <3>3
  <2> HIDE DEF R
  <2>4. WeightTurn(j)
    BY <2>2, <2>3 DEF WeightTurn
  <2>5. HasRoom(weight_ch[0][j])
    BY <1>0, <1>4, <2>2 DEF HasRoom
  <2>6. QED
    BY <1>7, <2>2, <2>4, <2>5 DEF ClientCanMove
<1>13. QED
  BY <1>11, <1>12

(* The array never stops on its own: for every size, every run length and    *)
(* every capacity of the channels, in every run without random stalls, and   *)
(* in the first run with them, until the interrupt some thread can go on.    *)
(* NeverStuck writes the waits of the threads out.                           *)
THEOREM NoDeadlock == Spec => [](~RandStall \/ gen = 1 => NeverStuck)
<1>1. TypeOK /\ Flow /\ LoadInv /\ TurnInv => NeverStuck
  <2> SUFFICES ASSUME TypeOK, Flow, LoadInv, TurnInv, ~NeverStuck PROVE FALSE
    OBVIOUS
  <2>1. phase \in {"load", "run"} /\ Blocked
    BY DEF NeverStuck, Blocked
  <2>2. QED
    BY <2>1, RunNotBlocked, LoadNotBlocked
<1>2. (~RandStall => WholeRun) /\ (gen = 1 => Flow) => (~RandStall \/ gen = 1 => Flow)
  BY WholeIs
<1>3. /\ TypeOK /\ LoadInv /\ TurnInv
      /\ ~RandStall \/ gen = 1 => Flow
      => (~RandStall \/ gen = 1 => NeverStuck)
  BY <1>1
<1>4. QED
  BY <1>2, <1>3, TypeCorrect, LoadKept, TurnsKept, RunIsWhole, FirstRunFlows, PTL

=============================================================================
