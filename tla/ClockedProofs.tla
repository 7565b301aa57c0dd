---------------------------- MODULE ClockedProofs ----------------------------
(***************************************************************************)
(* What the clock makes of the array, for every N, M and width of the bus: *)
(* columns keep their order, weights stay ahead of activations, and a run  *)
(* that ends has given all its outputs.                                    *)
(*                                                                         *)
(* The invariant Inv counts.  Each port loses nothing (WordsKept,          *)
(* ActsKept, SumsKept, OutputsKept), so that what a place has seen is what *)
(* the place before it has sent, less what is in the port.  At no place    *)
(* has a column seen more than the column on its left (LeftFirst), because *)
(* its activations come through there and, place by place, the port that   *)
(* may block it has been free no later; at no place has a row seen more    *)
(* than the row above (UpperFirst), because its sums come through there.   *)
(***************************************************************************)
EXTENDS ClockedConfig, WellFoundedInduction, TLAPS

-----------------------------------------------------------------------------
(* A PE in one cycle. *)

(* TRUE counts as one. *)
Count(b) == IF b THEN 1 ELSE 0

(* The state of a PE. *)
PEState == [at : {"poll", "act", "accum", "weight"}, isW : BOOLEAN, isA : BOOLEAN, isS : BOOLEAN,
            inW : BOOLEAN, inA : BOOLEAN, inS : BOOLEAN,
            outW : BOOLEAN, outA : BOOLEAN, outS : BOOLEAN, recv : Nat, fired : Nat]

(* Activations a PE has passed on, sums it has finished, and the values it  *)
(* has got.                                                                 *)
Acts(p) == p.fired - Count(p.at = "act")
Sums(p) == p.fired - Count(p.at \in {"act", "accum"})
HasA(p) == p.isA \/ p.inA
HasS(p) == p.isS \/ p.inS

(* Poll: both values make a product, one alone is kept in its flag. *)
LEMMA PollIs ==
    ASSUME NEW p \in PEState, p.at = "poll"
    PROVE  /\ Poll(p) \in PEState
           /\ Poll(p).at = IF HasA(p) /\ HasS(p) THEN "act" ELSE "weight"
           /\ Poll(p).isW = p.inW /\ Poll(p).inW = FALSE
           /\ Poll(p).isA = (HasA(p) /\ ~HasS(p)) /\ Poll(p).inA = (p.inA /\ p.isA)
           /\ Poll(p).isS = (HasS(p) /\ ~HasA(p)) /\ Poll(p).inS = (p.inS /\ p.isS)
           /\ Poll(p).outW = p.outW /\ Poll(p).outA = p.outA /\ Poll(p).outS = p.outS
           /\ Poll(p).recv = p.recv + Count(p.inW)
           /\ Poll(p).fired = p.fired + Count(HasA(p) /\ HasS(p))
<1> DEFINE a == HasA(p)
           s == HasS(p)
           at == IF a /\ s THEN "act" ELSE "weight"
           keepA == a /\ ~s
           leftA == p.inA /\ p.isA
           keepS == s /\ ~a
           leftS == p.inS /\ p.isS
           recv == IF p.inW THEN p.recv + 1 ELSE p.recv
           fired == IF a /\ s THEN p.fired + 1 ELSE p.fired
           y == [p EXCEPT !.at = at, !.isW = p.inW, !.inW = FALSE, !.isA = keepA, !.inA = leftA,
                          !.isS = keepS, !.inS = leftS, !.recv = recv, !.fired = fired]
<1>1. Poll(p) = y
  BY DEF Poll, HasA, HasS
<1>2. /\ at \in {"poll", "act", "accum", "weight"}
      /\ keepA \in BOOLEAN /\ leftA \in BOOLEAN /\ keepS \in BOOLEAN /\ leftS \in BOOLEAN
  OBVIOUS
<1>3. recv \in Nat /\ fired \in Nat
  BY DEF PEState
<1>4. recv = p.recv + Count(p.inW) /\ fired = p.fired + Count(a /\ s)
  BY DEF PEState, Count
<1> HIDE DEF at, keepA, leftA, keepS, leftS, recv, fired
<1>5. y \in PEState
  BY <1>2, <1>3 DEF PEState
<1>6. /\ y.at = at /\ y.isW = p.inW /\ y.inW = FALSE
      /\ y.isA = keepA /\ y.inA = leftA /\ y.isS = keepS /\ y.inS = leftS
      /\ y.outW = p.outW /\ y.outA = p.outA /\ y.outS = p.outS
      /\ y.recv = recv /\ y.fired = fired
  BY DEF PEState
<1>7. QED
  BY <1>1, <1>4, <1>5, <1>6 DEF at, keepA, leftA, keepS, leftS

(* PushAct: the activation goes to the next column if its port is free.     *)
LEMMA PushActIs ==
    ASSUME NEW p \in PEState
    PROVE  LET y == PushAct(p)
               goes == p.at = "act" /\ ~p.outA
           IN  /\ y \in PEState
               /\ y.at = IF goes THEN "accum" ELSE p.at
               /\ y.outA = (p.outA \/ goes)
               /\ y.isW = p.isW /\ y.inW = p.inW /\ y.isA = p.isA /\ y.inA = p.inA
               /\ y.isS = p.isS /\ y.inS = p.inS /\ y.outW = p.outW /\ y.outS = p.outS
               /\ y.recv = p.recv /\ y.fired = p.fired
<1>1. CASE p.at = "act" /\ ~p.outA
  <2> DEFINE y == [p EXCEPT !.outA = TRUE, !.at = "accum"]
  <2>1. PushAct(p) = y
    BY <1>1 DEF PushAct
  <2>2. y \in PEState
    BY DEF PEState
  <2>3. /\ y.at = "accum" /\ y.outA = TRUE /\ y.isW = p.isW /\ y.inW = p.inW /\ y.isA = p.isA
        /\ y.inA = p.inA /\ y.isS = p.isS /\ y.inS = p.inS /\ y.outW = p.outW
        /\ y.outS = p.outS /\ y.recv = p.recv /\ y.fired = p.fired
    BY DEF PEState
  <2> HIDE DEF y
  <2>4. QED
    BY <1>1, <2>1, <2>2, <2>3
<1>2. CASE ~(p.at = "act" /\ ~p.outA)
  <2>1. PushAct(p) = p
    BY <1>2 DEF PushAct
  <2>2. p.outA \in BOOLEAN
    BY DEF PEState
  <2>3. QED
    BY <1>2, <2>1, <2>2
<1>3. QED
  BY <1>1, <1>2

(* PushAccum: then the sum goes to the next row. *)
LEMMA PushAccumIs ==
    ASSUME NEW p \in PEState
    PROVE  LET y == PushAccum(p)
               goes == p.at = "accum" /\ ~p.outS
           IN  /\ y \in PEState
               /\ y.at = IF goes THEN "weight" ELSE p.at
               /\ y.outS = (p.outS \/ goes)
               /\ y.isW = p.isW /\ y.inW = p.inW /\ y.isA = p.isA /\ y.inA = p.inA
               /\ y.isS = p.isS /\ y.inS = p.inS /\ y.outW = p.outW /\ y.outA = p.outA
               /\ y.recv = p.recv /\ y.fired = p.fired
<1>1. CASE p.at = "accum" /\ ~p.outS
  <2> DEFINE y == [p EXCEPT !.outS = TRUE, !.at = "weight"]
  <2>1. PushAccum(p) = y
    BY <1>1 DEF PushAccum
  <2>2. y \in PEState
    BY DEF PEState
  <2>3. /\ y.at = "weight" /\ y.outS = TRUE /\ y.isW = p.isW /\ y.inW = p.inW /\ y.isA = p.isA
        /\ y.inA = p.inA /\ y.isS = p.isS /\ y.inS = p.inS /\ y.outW = p.outW
        /\ y.outA = p.outA /\ y.recv = p.recv /\ y.fired = p.fired
    BY DEF PEState
  <2> HIDE DEF y
  <2>4. QED
    BY <1>1, <2>1, <2>2, <2>3
<1>2. CASE ~(p.at = "accum" /\ ~p.outS)
  <2>1. PushAccum(p) = p
    BY <1>2 DEF PushAccum
  <2>2. p.outS \in BOOLEAN
    BY DEF PEState
  <2>3. QED
    BY <1>2, <2>1, <2>2
<1>3. QED
  BY <1>1, <1>2

(* PushWeight: and the word, if one came. *)
LEMMA PushWeightIs ==
    ASSUME NEW p \in PEState
    PROVE  LET y == PushWeight(p)
               goes == p.at = "weight" /\ (p.isW => ~p.outW)
           IN  /\ y \in PEState
               /\ y.at = IF goes THEN "poll" ELSE p.at
               /\ y.outW = (p.outW \/ (goes /\ p.isW))
               /\ y.isW = (p.isW /\ ~goes)
               /\ y.inW = p.inW /\ y.isA = p.isA /\ y.inA = p.inA
               /\ y.isS = p.isS /\ y.inS = p.inS /\ y.outA = p.outA /\ y.outS = p.outS
               /\ y.recv = p.recv /\ y.fired = p.fired
<1> DEFINE y == [p EXCEPT !.outW = @ \/ p.isW, !.isW = FALSE, !.at = "poll"]
<1>1. CASE p.at = "weight" /\ (p.isW => ~p.outW)
  <2>1. PushWeight(p) = y
    BY <1>1 DEF PushWeight
  <2>2. (p.outW \/ p.isW) \in BOOLEAN
    BY DEF PEState
  <2>3. y \in PEState
    BY <2>2, ZenonT(60) DEF PEState
  <2>4. /\ y.at = "poll" /\ y.outW = (p.outW \/ p.isW) /\ y.isW = FALSE
        /\ y.inW = p.inW /\ y.isA = p.isA /\ y.inA = p.inA
        /\ y.isS = p.isS /\ y.inS = p.inS /\ y.outA = p.outA /\ y.outS = p.outS
        /\ y.recv = p.recv /\ y.fired = p.fired
    BY DEF PEState
  <2>5. QED
    BY <1>1, <2>1, <2>3, <2>4
<1>2. CASE ~(p.at = "weight" /\ (p.isW => ~p.outW))
  <2>1. PushWeight(p) = p
    BY <1>2 DEF PushWeight
  <2>2. p.outW \in BOOLEAN /\ p.isW \in BOOLEAN
    BY DEF PEState
  <2>3. QED
    BY <1>2, <2>1, <2>2
<1>3. QED
  BY <1>1, <1>2

(* How often a PE has pushed an activation and a sum, and popped a sum. *)
Popped(p) == p.fired + Count(p.isS)

(* Between cycles a PE holds no word back: it waits with an activation or a *)
(* sum, never with a word.                                                  *)
AtRest(p) ==
    /\ p \in PEState /\ p.at # "weight" /\ ~p.isW /\ ~p.inW
    /\ p.at # "poll" => p.fired > 0

(* At the edge a word may have come, if no product is due. *)
AtStart(p) ==
    /\ p \in PEState /\ p.at # "weight" /\ ~p.isW /\ ~p.outW
    /\ p.at # "poll" => p.fired > 0
    /\ p.inW => p.at = "poll" /\ ~(HasA(p) /\ HasS(p))

(* A PE with a product due goes on until a port is full. *)
LEMMA PushesOfPE ==
    ASSUME NEW p \in PEState, p.at \in {"act", "accum"}, ~p.isW, ~p.inW, ~p.outW
    PROVE  LET r == PushWeight(PushAccum(PushAct(p)))
           IN  /\ r \in PEState /\ r.at # "weight" /\ ~r.isW /\ ~r.inW /\ ~r.outW
               /\ r.isA = p.isA /\ r.inA = p.inA /\ r.isS = p.isS /\ r.inS = p.inS
               /\ r.recv = p.recv /\ r.fired = p.fired
               /\ Acts(r) - Count(r.outA) = Acts(p) - Count(p.outA)
               /\ Sums(r) - Count(r.outS) = Sums(p) - Count(p.outS)
               /\ Acts(r) >= Acts(p) /\ Sums(r) >= Sums(p)
               /\ p.at = "accum" /\ ~p.outS => Sums(r) = Sums(p) + 1
<1> DEFINE c2 == PushAct(p)
           c3 == PushAccum(c2)
           r == PushWeight(c3)
           goA == p.at = "act" /\ ~p.outA
           goS == c2.at = "accum" /\ ~c2.outS
<1>1. /\ c2 \in PEState
      /\ c2.at = IF goA THEN "accum" ELSE p.at
      /\ c2.outA = (p.outA \/ goA)
      /\ c2.isW = p.isW /\ c2.inW = p.inW /\ c2.isA = p.isA /\ c2.inA = p.inA
      /\ c2.isS = p.isS /\ c2.inS = p.inS /\ c2.outW = p.outW /\ c2.outS = p.outS
      /\ c2.recv = p.recv /\ c2.fired = p.fired
  BY PushActIs
<1> HIDE DEF c2
<1>2. /\ c3 \in PEState
      /\ c3.at = IF goS THEN "weight" ELSE c2.at
      /\ c3.outS = (c2.outS \/ goS)
      /\ c3.isW = c2.isW /\ c3.inW = c2.inW /\ c3.isA = c2.isA /\ c3.inA = c2.inA
      /\ c3.isS = c2.isS /\ c3.inS = c2.inS /\ c3.outW = c2.outW /\ c3.outA = c2.outA
      /\ c3.recv = c2.recv /\ c3.fired = c2.fired
  BY <1>1, PushAccumIs
<1> HIDE DEF c3
<1>3. ~c3.isW /\ ~c3.outW
  BY <1>1, <1>2
<1>4. /\ r \in PEState
      /\ r.at = IF c3.at = "weight" THEN "poll" ELSE c3.at
      /\ ~r.isW /\ ~r.outW
      /\ r.inW = c3.inW /\ r.isA = c3.isA /\ r.inA = c3.inA
      /\ r.isS = c3.isS /\ r.inS = c3.inS /\ r.outA = c3.outA /\ r.outS = c3.outS
      /\ r.recv = c3.recv /\ r.fired = c3.fired
  BY <1>2, <1>3, PushWeightIs
<1> HIDE DEF r
<1>5. /\ r.isA = p.isA /\ r.inA = p.inA /\ r.isS = p.isS /\ r.inS = p.inS
      /\ r.recv = p.recv /\ r.fired = p.fired /\ ~r.inW /\ r.at # "weight"
  BY <1>1, <1>2, <1>4
<1>6. p.fired \in Nat /\ p.outA \in BOOLEAN /\ p.outS \in BOOLEAN
  BY DEF PEState
<1>7. /\ r.outA = (p.outA \/ goA) /\ r.outS = (p.outS \/ goS)
      /\ goS <=> (goA \/ p.at = "accum") /\ ~p.outS
      /\ r.at = IF p.at = "act" /\ p.outA THEN "act" ELSE IF p.outS THEN "accum" ELSE "poll"
  BY <1>1, <1>2, <1>4
<1> DEFINE Sound ==
      /\ Acts(r) - Count(r.outA) = Acts(p) - Count(p.outA)
      /\ Sums(r) - Count(r.outS) = Sums(p) - Count(p.outS)
      /\ Acts(r) >= Acts(p) /\ Sums(r) >= Sums(p)
      /\ p.at = "accum" /\ ~p.outS => Sums(r) = Sums(p) + 1
<1>8. CASE p.at = "act" /\ p.outA
  <2>1. r.at = "act" /\ r.outA = p.outA /\ r.outS = p.outS
    BY <1>6, <1>7, <1>8
  <2>2. Sound
    BY <1>5, <1>6, <1>8, <2>1 DEF Acts, Sums, Count
  <2>3. QED
    BY <1>4, <1>5, <2>2 DEF r, c2, c3
<1>9. CASE p.at = "act" /\ ~p.outA /\ p.outS
  <2>1. r.at = "accum" /\ r.outA = TRUE /\ r.outS = p.outS
    BY <1>6, <1>7, <1>9
  <2>2. Sound
    BY <1>5, <1>6, <1>9, <2>1 DEF Acts, Sums, Count
  <2>3. QED
    BY <1>4, <1>5, <2>2 DEF r, c2, c3
<1>10. CASE p.at = "act" /\ ~p.outA /\ ~p.outS
  <2>1. r.at = "poll" /\ r.outA = TRUE /\ r.outS = TRUE
    BY <1>6, <1>7, <1>10
  <2>2. Sound
    BY <1>5, <1>6, <1>10, <2>1 DEF Acts, Sums, Count
  <2>3. QED
    BY <1>4, <1>5, <2>2 DEF r, c2, c3
<1>11. CASE p.at = "accum" /\ p.outS
  <2>1. r.at = "accum" /\ r.outA = p.outA /\ r.outS = p.outS
    BY <1>6, <1>7, <1>11
  <2>2. Sound
    BY <1>5, <1>6, <1>11, <2>1 DEF Acts, Sums, Count
  <2>3. QED
    BY <1>4, <1>5, <2>2 DEF r, c2, c3
<1>12. CASE p.at = "accum" /\ ~p.outS
  <2>1. r.at = "poll" /\ r.outA = p.outA /\ r.outS = TRUE
    BY <1>6, <1>7, <1>12
  <2>2. Sound
    BY <1>5, <1>6, <1>12, <2>1 DEF Acts, Sums, Count
  <2>3. QED
    BY <1>4, <1>5, <2>2 DEF r, c2, c3
<1>13. QED
  BY <1>8, <1>9, <1>10, <1>11, <1>12

(* One cycle of a PE: it takes the word that comes and passes it on, keeps  *)
(* activations and sums in number, pops a sum whenever it polls and one is  *)
(* there, and pushes a finished sum whenever the port is free.              *)
LEMMA CycleOfPE ==
    ASSUME NEW p, AtStart(p)
    PROVE  LET r == PERun(p)
           IN  /\ AtRest(r)
               /\ r.recv = p.recv + Count(p.inW) /\ r.outW = p.inW
               /\ r.fired + Count(r.isA) + Count(r.inA) = p.fired + Count(p.isA) + Count(p.inA)
               /\ r.fired + Count(r.isS) + Count(r.inS) = p.fired + Count(p.isS) + Count(p.inS)
               /\ Acts(r) - Count(r.outA) = Acts(p) - Count(p.outA)
               /\ Sums(r) - Count(r.outS) = Sums(p) - Count(p.outS)
               /\ Popped(r) = IF p.at = "poll" THEN p.fired + Count(p.isS \/ p.inS) ELSE Popped(p)
               /\ Acts(r) >= Acts(p) /\ Sums(r) >= Sums(p)
               /\ p.at = "accum" /\ ~p.outS => Sums(r) = Sums(p) + 1
<1> DEFINE c1 == Poll(p)
           c2 == PushAct(c1)
           c3 == PushAccum(c2)
           r == PushWeight(c3)
<1>1. r = PERun(p)
  BY DEF PERun
<1>2. p \in PEState /\ p.at \in {"poll", "act", "accum"} /\ ~p.isW /\ ~p.outW
  BY SMTT(60) DEF AtStart, PEState
<1>3. c1 \in PEState
  BY <1>2, PollIs DEF Poll
<1>4. c2 \in PEState
  BY <1>3, PushActIs
<1>5. c3 \in PEState
  BY <1>4, PushAccumIs
<1>6. r \in PEState
  BY <1>5, PushWeightIs
<1> HIDE DEF r
<1>7. p.fired \in Nat /\ p.recv \in Nat
      /\ p.isA \in BOOLEAN /\ p.inA \in BOOLEAN /\ p.isS \in BOOLEAN /\ p.inS \in BOOLEAN
      /\ p.outA \in BOOLEAN /\ p.outS \in BOOLEAN /\ p.inW \in BOOLEAN
  BY <1>2 DEF PEState
<1>8. p.at = "poll" =>
        /\ c1 \in PEState
        /\ c1.at = IF HasA(p) /\ HasS(p) THEN "act" ELSE "weight"
        /\ c1.isW = p.inW /\ c1.inW = FALSE
        /\ c1.isA = (HasA(p) /\ ~HasS(p)) /\ c1.inA = (p.inA /\ p.isA)
        /\ c1.isS = (HasS(p) /\ ~HasA(p)) /\ c1.inS = (p.inS /\ p.isS)
        /\ c1.outW = p.outW /\ c1.outA = p.outA /\ c1.outS = p.outS
        /\ c1.recv = p.recv + Count(p.inW)
        /\ c1.fired = p.fired + Count(HasA(p) /\ HasS(p))
  BY <1>2, PollIs
<1> HIDE DEF c1
<1>9. CASE p.at = "poll"
  <2>1. CASE ~(HasA(p) /\ HasS(p))
    <3>1. c1.at = "weight" /\ c1.fired = p.fired
      BY <1>7, <1>8, <1>9, <2>1 DEF Count
    <3>2. c2 = c1 /\ c3 = c1
      BY <3>1 DEF PushAct, PushAccum
    <3>3. c1 \in PEState /\ c1.at = "weight" /\ c1.isW = p.inW /\ c1.inW = FALSE /\ c1.outW = FALSE
      BY <1>2, <1>7, <1>8, <1>9, <3>1
    <3>4. r = PushWeight(c1)
      BY <3>2 DEF r
    <3>5. /\ r.at = "poll" /\ r.outW = (c1.outW \/ c1.isW) /\ r.isW = FALSE
          /\ r.inW = c1.inW /\ r.isA = c1.isA /\ r.inA = c1.inA
          /\ r.isS = c1.isS /\ r.inS = c1.inS /\ r.outA = c1.outA /\ r.outS = c1.outS
          /\ r.recv = c1.recv /\ r.fired = c1.fired
      BY <3>3, <3>4, PushWeightIs
    <3>6. r.outW = p.inW
      BY <1>7, <3>3, <3>5
    <3>7. AtRest(r)
      BY <1>6, <3>3, <3>5 DEF AtRest
    <3>8. r.recv = p.recv + Count(p.inW)
      BY <1>8, <1>9, <3>5
    <3>9. r.fired + Count(r.isA) + Count(r.inA) = p.fired + Count(p.isA) + Count(p.inA)
      BY <1>7, <1>8, <1>9, <2>1, <3>1, <3>5 DEF Count, HasA, HasS
    <3>10. r.fired + Count(r.isS) + Count(r.inS) = p.fired + Count(p.isS) + Count(p.inS)
      BY <1>7, <1>8, <1>9, <2>1, <3>1, <3>5 DEF Count, HasA, HasS
    <3>11. /\ Acts(r) - Count(r.outA) = Acts(p) - Count(p.outA)
           /\ Sums(r) - Count(r.outS) = Sums(p) - Count(p.outS)
           /\ Acts(r) = Acts(p) /\ Sums(r) = Sums(p)
      BY <1>8, <1>9, <3>1, <3>5 DEF Acts, Sums
    <3>12. Acts(p) \in Int /\ Sums(p) \in Int
      BY <1>7 DEF Acts, Sums, Count
    <3>13. Popped(r) = p.fired + Count(p.isS \/ p.inS)
      BY <1>7, <1>8, <1>9, <2>1, <3>1, <3>5 DEF Popped, Count, HasA, HasS
    <3>14. QED
      BY <1>1, <1>9, <3>6, <3>7, <3>8, <3>9, <3>10, <3>11, <3>12, <3>13
  <2>2. CASE HasA(p) /\ HasS(p)
    <3>1. p.inW = FALSE
      BY <1>7, <2>2 DEF AtStart
    <3>2. /\ c1.at = "act" /\ c1.fired = p.fired + 1 /\ c1.isW = FALSE /\ c1.inW = FALSE /\ c1.outW = FALSE
          /\ c1.isA = FALSE /\ c1.inA = (p.inA /\ p.isA) /\ c1.isS = FALSE /\ c1.inS = (p.inS /\ p.isS)
          /\ c1.outA = p.outA /\ c1.outS = p.outS /\ c1.recv = p.recv
      BY <1>2, <1>7, <1>8, <1>9, <2>2, <3>1 DEF Count
    <3>3. /\ r \in PEState /\ r.at # "weight" /\ ~r.isW /\ ~r.inW /\ ~r.outW
          /\ r.isA = c1.isA /\ r.inA = c1.inA /\ r.isS = c1.isS /\ r.inS = c1.inS
          /\ r.recv = c1.recv /\ r.fired = c1.fired
          /\ Acts(r) - Count(r.outA) = Acts(c1) - Count(c1.outA)
          /\ Sums(r) - Count(r.outS) = Sums(c1) - Count(c1.outS)
          /\ Acts(r) >= Acts(c1) /\ Sums(r) >= Sums(c1)
      BY <1>3, <3>2, PushesOfPE DEF r
    <3>4. AtRest(r)
      BY <1>7, <3>2, <3>3 DEF AtRest
    <3>5. r.recv = p.recv + Count(p.inW) /\ r.outW = p.inW
      BY <1>7, <3>1, <3>2, <3>3 DEF Count, PEState
    <3>6. r.fired + Count(r.isA) + Count(r.inA) = p.fired + Count(p.isA) + Count(p.inA)
      BY <1>7, <2>2, <3>2, <3>3 DEF Count, HasA, HasS
    <3>7. r.fired + Count(r.isS) + Count(r.inS) = p.fired + Count(p.isS) + Count(p.inS)
      BY <1>7, <2>2, <3>2, <3>3 DEF Count, HasA, HasS
    <3>8. Acts(c1) = Acts(p) /\ Sums(c1) = Sums(p)
      BY <1>7, <1>9, <3>2 DEF Acts, Sums, Count
    <3>9. Popped(r) = p.fired + Count(p.isS \/ p.inS)
      BY <1>7, <2>2, <3>2, <3>3 DEF Popped, Count, HasA, HasS
    <3>10. QED
      BY <1>1, <1>9, <3>2, <3>3, <3>4, <3>5, <3>6, <3>7, <3>8, <3>9
  <2>3. QED
    BY <2>1, <2>2
<1>10. CASE p.at \in {"act", "accum"}
  <2>1. c1 = p
    BY <1>10 DEF Poll, c1
  <2>2. p.fired > 0 /\ ~p.inW
    BY <1>10 DEF AtStart
  <2>3. /\ r \in PEState /\ r.at # "weight" /\ ~r.isW /\ ~r.inW /\ ~r.outW
        /\ r.isA = p.isA /\ r.inA = p.inA /\ r.isS = p.isS /\ r.inS = p.inS
        /\ r.recv = p.recv /\ r.fired = p.fired
        /\ Acts(r) - Count(r.outA) = Acts(p) - Count(p.outA)
        /\ Sums(r) - Count(r.outS) = Sums(p) - Count(p.outS)
        /\ Acts(r) >= Acts(p) /\ Sums(r) >= Sums(p)
        /\ p.at = "accum" /\ ~p.outS => Sums(r) = Sums(p) + 1
    BY <1>2, <1>10, <2>1, <2>2, PushesOfPE DEF r
  <2>4. AtRest(r)
    BY <2>2, <2>3 DEF AtRest
  <2>5. r.recv = p.recv + Count(p.inW) /\ r.outW = p.inW
    BY <1>6, <1>7, <2>2, <2>3 DEF Count, PEState
  <2>6. Popped(r) = Popped(p) /\ p.at # "poll"
    BY <1>10, <2>3 DEF Popped
  <2>7. QED
    BY <1>1, <2>3, <2>4, <2>5, <2>6
<1>11. QED
  BY <1>2, <1>9, <1>10

-----------------------------------------------------------------------------
(* SysBias in one cycle. *)

(* SysBias, and the sums it has taken. *)
BiasState == [at : {"poll", "push"}, inW : BOOLEAN, inS : BOOLEAN, out : BOOLEAN,
              recv : Nat, made : Nat]
Taken(b) == b.made + Count(b.at = "push")

(* An output leaves if the port is free. *)
LEMMA BiasPushIs ==
    ASSUME NEW c \in BiasState, c.at = "push"
    PROVE  LET r == BiasPush(c)
           IN  /\ r \in BiasState /\ r.inW = c.inW /\ r.inS = c.inS /\ r.recv = c.recv /\ r.out = TRUE
               /\ IF c.out THEN r.at = "push" /\ r.made = c.made ELSE r.at = "poll" /\ r.made = c.made + 1
<1> DEFINE r == [c EXCEPT !.out = TRUE, !.made = @ + 1, !.at = "poll"]
<1>1. c.made \in Nat /\ c.out \in BOOLEAN
  BY DEF BiasState
<1>2. CASE c.out
  BY <1>1, <1>2 DEF BiasPush
<1>3. CASE ~c.out
  <2>1. BiasPush(c) = r
    BY <1>3 DEF BiasPush
  <2>2. c.made + 1 \in Nat
    BY <1>1
  <2>3. r \in BiasState
    BY <2>2 DEF BiasState
  <2>4. /\ r.inW = c.inW /\ r.inS = c.inS /\ r.recv = c.recv /\ r.out = TRUE
        /\ r.at = "poll" /\ r.made = c.made + 1
    BY DEF BiasState
  <2>5. QED
    BY <1>3, <2>1, <2>3, <2>4
<1>4. QED
  BY <1>2, <1>3

(* One cycle of SysBias: a word is taken unless a sum is there, a sum       *)
(* whenever the last output is out, and an output leaves whenever the port  *)
(* is free.                                                                 *)
LEMMA CycleOfBias ==
    ASSUME NEW b \in BiasState, b.inW => b.at = "poll" /\ ~b.inS
    PROVE  LET r == SysBiasRun(b)
           IN  /\ r \in BiasState /\ ~r.inW /\ r.recv = b.recv + Count(b.inW)
               /\ Taken(r) + Count(r.inS) = Taken(b) + Count(b.inS)
               /\ r.made - Count(r.out) = b.made - Count(b.out)
               /\ Taken(r) = IF b.at = "poll" THEN b.made + Count(b.inS) ELSE Taken(b)
               /\ r.made = IF b.out THEN b.made ELSE Taken(r)
<1> DEFINE r == SysBiasRun(b)
           w == [b EXCEPT !.inW = FALSE, !.recv = @ + 1]
           s == [b EXCEPT !.inS = FALSE, !.at = "push"]
<1>1. /\ b.at \in {"poll", "push"} /\ b.inW \in BOOLEAN /\ b.inS \in BOOLEAN /\ b.out \in BOOLEAN
      /\ b.recv \in Nat /\ b.made \in Nat
  BY DEF BiasState
<1>2. CASE b.at = "poll" /\ ~b.inS /\ ~b.inW
  <2>1. r = b
    BY <1>2 DEF SysBiasRun, BiasPoll, BiasPush
  <2>2. QED
    BY <1>1, <1>2, <2>1 DEF Taken, Count
<1>3. CASE b.at = "poll" /\ ~b.inS /\ b.inW
  <2>1. BiasPoll(b) = w
    BY <1>3 DEF BiasPoll
  <2>2. b.recv + 1 \in Nat
    BY <1>1
  <2>3. /\ w \in BiasState
        /\ w.at = b.at /\ w.inW = FALSE /\ w.recv = b.recv + 1 /\ w.inS = b.inS /\ w.out = b.out /\ w.made = b.made
    BY <2>2 DEF BiasState
  <2>4. r = w
    BY <1>3, <2>1, <2>3 DEF SysBiasRun, BiasPush
  <2>5. QED
    BY <1>1, <1>3, <2>3, <2>4 DEF Taken, Count
<1>4. CASE b.at = "poll" /\ b.inS
  <2>1. BiasPoll(b) = s
    BY <1>4 DEF BiasPoll
  <2>2. /\ s \in BiasState
        /\ s.at = "push" /\ s.inW = b.inW /\ s.recv = b.recv /\ s.inS = FALSE /\ s.out = b.out /\ s.made = b.made
    BY DEF BiasState
  <2> HIDE DEF s
  <2>3. /\ r \in BiasState /\ r.inW = s.inW /\ r.inS = s.inS /\ r.recv = s.recv /\ r.out = TRUE
        /\ IF s.out THEN r.at = "push" /\ r.made = s.made ELSE r.at = "poll" /\ r.made = s.made + 1
    BY <2>1, <2>2, BiasPushIs DEF SysBiasRun
  <2> HIDE DEF r
  <2>4. QED
    BY <1>1, <1>4, <2>2, <2>3 DEF Taken, Count, r
<1>5. CASE b.at = "push"
  <2>1. r = BiasPush(b)
    BY <1>5 DEF BiasPoll, SysBiasRun
  <2> HIDE DEF r
  <2>2. /\ r \in BiasState /\ r.inW = b.inW /\ r.inS = b.inS /\ r.recv = b.recv /\ r.out = TRUE
        /\ IF b.out THEN r.at = "push" /\ r.made = b.made ELSE r.at = "poll" /\ r.made = b.made + 1
    BY <1>5, <2>1, BiasPushIs
  <2>3. QED
    BY <1>1, <1>5, <2>2 DEF Taken, Count, r
<1>6. QED
  BY <1>1, <1>2, <1>3, <1>4, <1>5

-----------------------------------------------------------------------------
(* The clients *)

(* A set of numbers that is not empty has a least. *)
LEMMA LeastOne ==
    ASSUME NEW S \in SUBSET Nat, S # {}
    PROVE  Min(S) \in S /\ \A k \in S : Min(S) <= k
<1>1. \E x \in S : \A y \in S : ~(<<y, x>> \in OpToRel(<, Nat))
  BY NatLessThanWellFounded, WFMin
<1>2. PICK x \in S : \A y \in S : ~(<<y, x>> \in OpToRel(<, Nat))
  BY <1>1
<1>3. ASSUME NEW y \in S PROVE x <= y
  <2>1. ~(y < x)
    BY <1>2 DEF OpToRel
  <2>2. x \in Int /\ y \in Int
    OBVIOUS
  <2>3. QED
    BY <2>1, <2>2
<1>4. QED
  BY <1>3 DEF Min

(* A client stops at the first full port of its beat, and has pushed to     *)
(* those before it, which were free.                                        *)
LEMMA WhereItStops ==
    ASSUME NEW Members \in SUBSET Idx, NEW next \in 0 .. N, NEW out \in [Idx -> BOOLEAN]
    PROVE  LET s == StopsAt(Members, next, out)
           IN  /\ s \in next .. N
               /\ s < N => s \in Members /\ out[s]
               /\ \A k \in Members : next <= k /\ k < s => ~out[k]
<1> DEFINE full == {k \in Members : k >= next /\ out[k]}
           s == StopsAt(Members, next, out)
<1>1. N \in Nat /\ Members \in SUBSET Nat
  BY NAssumption DEF Idx
<1>2. CASE full = {}
  BY <1>1, <1>2 DEF StopsAt, Idx
<1>3. CASE full # {}
  <2>1. s = Min(full)
    BY <1>3 DEF StopsAt
  <2>2. s \in full /\ \A k \in full : s <= k
    BY <1>1, <1>3, <2>1, LeastOne
  <2> HIDE DEF s
  <2>3. s \in Members /\ s >= next /\ out[s]
    BY <2>2, Zenon
  <2>4. ASSUME NEW k \in Members, next <= k, k < s PROVE ~out[k]
    <3>1. k \in Nat /\ s \in Nat
      BY <1>1, <2>3
    <3>2. k \notin full
      BY <2>2, <2>4, <3>1
    <3>3. k >= next
      BY <2>4, <3>1
    <3>4. QED
      BY <3>2, <3>3, Zenon
  <2>5. s \in next .. N
    BY <1>1, <2>3 DEF Idx
  <2>6. QED
    BY <2>3, <2>4, <2>5 DEF s
<1>4. QED
  BY <1>2, <1>3

-----------------------------------------------------------------------------
(* WeightAxi: a client that stops at the first full port. *)

(* Division with remainder, one further and at the end. *)
LEMMA QuotientIs ==
    ASSUME NEW G \in Nat \ {0}, NEW q \in Nat, NEW r \in 0 .. G - 1
    PROVE  ((G * q) + r) \div G = q /\ ((G * q) + r) % G = r
OBVIOUS

(* One further, the remainder wraps and the quotient grows, or not. *)
LEMMA NextQuotient ==
    ASSUME NEW b \in Nat, NEW G \in Nat \ {0}
    PROVE  /\ b \div G \in Nat /\ b % G \in 0 .. G - 1
           /\ IF b % G = G - 1 THEN (b + 1) \div G = (b \div G) + 1 /\ (b + 1) % G = 0
                               ELSE (b + 1) \div G = b \div G /\ (b + 1) % G = (b % G) + 1
<1>1. b \div G \in Nat
  OBVIOUS
<1>2. b % G \in 0 .. G - 1
  OBVIOUS
<1>3. ASSUME b % G = G - 1 PROVE (b + 1) \div G = (b \div G) + 1 /\ (b + 1) % G = 0
  <2> DEFINE q == (b \div G) + 1
  <2>1. b = (G * (b \div G)) + (b % G)
    OBVIOUS
  <2>2. b + 1 = (G * q) + 0
    BY <1>1, <1>3, <2>1
  <2>3. 0 \in 0 .. G - 1 /\ q \in Nat
    BY <1>1
  <2> HIDE DEF q
  <2>4. ((G * q) + 0) \div G = q /\ ((G * q) + 0) % G = 0
    BY <2>3, QuotientIs
  <2>5. (b + 1) \div G = q /\ (b + 1) % G = 0
    BY <2>2, <2>4
  <2>6. QED
    BY <2>5 DEF q
<1>4. ASSUME b % G # G - 1 PROVE (b + 1) \div G = b \div G /\ (b + 1) % G = (b % G) + 1
  BY <1>4
<1>5. QED
  BY <1>1, <1>2, <1>3, <1>4

(* A quotient reaches its bound only without a remainder. *)
LEMMA LastQuotient ==
    ASSUME NEW b \in Nat, NEW G \in Nat \ {0}, NEW n \in Nat, b <= n * G
    PROVE  /\ b \div G <= n /\ (b \div G = n => b % G = 0)
           /\ (n * G) \div G = n /\ (n * G) % G = 0
OBVIOUS

(* WeightAxi between two cycles: the burst is at a whole word, or complete. *)
Beats == N \div Group           \* weight words for one row
LoadLength == (N + 1) * Beats
WeightState == [beat : 0 .. LoadLength, col : {N}, out : [Idx -> BOOLEAN]]

(* The words column j has been given. *)
Words(t, j) == (t.beat \div Beats) + Count(j \div Group < t.beat % Beats)

(* Every column has a word in every row. *)
LEMMA GroupOf ==
    /\ N \in Nat /\ Beats \in Nat \ {0} /\ LoadLength \in Nat
    /\ \A j \in Idx : j \div Group \in 0 .. Beats - 1
<1>1. N \in Nat \ {0} /\ Group \in 1 .. N /\ N % Group = 0
  BY NAssumption, GroupAssumption
<1>2. N = Group * Beats /\ Beats \in Nat
  BY <1>1 DEF Beats
<1>3. Beats # 0
  BY <1>1, <1>2
<1>4. ASSUME NEW j \in Idx PROVE j \div Group \in 0 .. Beats - 1
  <2>1. j \in Nat /\ j < Group * Beats
    BY <1>1, <1>2 DEF Idx
  <2>2. j \div Group \in Nat /\ Group * (j \div Group) <= j
    BY <1>1, <2>1
  <2>3. j \div Group < Beats
    BY <1>1, <1>2, <2>1, <2>2
  <2>4. QED
    BY <1>2, <2>2, <2>3
<1>5. LoadLength \in Nat
  BY <1>1, <1>2 DEF LoadLength
<1>6. QED
  BY <1>1, <1>2, <1>3, <1>4, <1>5

(* No column is given more than the N + 1 words of a load, and all have     *)
(* been given theirs when the load is complete.                             *)
LEMMA WordsOfLoad ==
    ASSUME NEW t \in WeightState, NEW j \in Idx
    PROVE  /\ Words(t, j) \in 0 .. N + 1
           /\ t.beat = LoadLength => Words(t, j) = N + 1
<1>1. /\ N \in Nat /\ Beats \in Nat \ {0} /\ t.beat \in Nat /\ t.beat <= (N + 1) * Beats
      /\ j \div Group \in 0 .. Beats - 1
  BY GroupOf DEF WeightState, LoadLength
<1>2. /\ t.beat \div Beats <= N + 1 /\ (t.beat \div Beats = N + 1 => t.beat % Beats = 0)
      /\ ((N + 1) * Beats) \div Beats = N + 1 /\ ((N + 1) * Beats) % Beats = 0
  <2>1. N + 1 \in Nat
    BY <1>1
  <2>2. QED
    BY <1>1, <2>1, LastQuotient
<1>3. t.beat \div Beats \in Nat /\ t.beat % Beats \in 0 .. Beats - 1
  BY <1>1, NextQuotient
<1>4. Words(t, j) \in 0 .. N + 1
  BY <1>1, <1>2, <1>3 DEF Words, Count
<1>5. ASSUME t.beat = LoadLength PROVE Words(t, j) = N + 1
  BY <1>1, <1>2, <1>5 DEF Words, Count, LoadLength
<1>6. QED
  BY <1>4, <1>5

(* One cycle of WeightAxiRun, if all its ports are free: it pushes a whole  *)
(* word of the bus or nothing, and nothing more when the load is complete.  *)
LEMMA CycleOfWeight ==
    ASSUME weight \in WeightState, NEW go, WeightAtEdge = [j \in Idx |-> FALSE]
    PROVE  LET t == WeightAxiRun(go)
           IN  /\ t \in WeightState
               /\ \A j \in Idx : Words(t, j) = Words(weight, j) + Count(t.out[j])
               /\ Loaded => t.beat = weight.beat /\ \A j \in Idx : ~t.out[j]
<1> DEFINE t == WeightAxiRun(go)
           cols == {j \in Idx : j \div Group = weight.beat % Beats}
<1>1. weight.col = N /\ weight.beat \in Nat /\ weight.beat <= LoadLength
  BY GroupOf DEF WeightState
<1>2. CASE Loaded \/ ~go
  <2>1. t = [weight EXCEPT !.out = [j \in Idx |-> FALSE]]
    BY <1>1, <1>2 DEF WeightAxiRun
  <2>2. t \in WeightState /\ t.beat = weight.beat /\ t.out = [j \in Idx |-> FALSE]
    BY <2>1 DEF WeightState
  <2>3. ASSUME NEW j \in Idx PROVE Words(t, j) = Words(weight, j) + Count(t.out[j])
    BY <2>2, WordsOfLoad DEF Words, Count
  <2>4. QED
    BY <2>2, <2>3
<1>3. CASE ~Loaded /\ go
  <2>1. StopsAt(cols, 0, [j \in Idx |-> FALSE]) = N
    BY DEF StopsAt
  <2>2. t = [beat |-> weight.beat + 1, col |-> N, out |-> PushedTo(cols, 0, [j \in Idx |-> FALSE])]
    BY <1>1, <1>3, <2>1 DEF WeightAxiRun, Beats
  <2>3. ASSUME NEW j \in Idx
        PROVE  PushedTo(cols, 0, [k \in Idx |-> FALSE])[j] = (j \div Group = weight.beat % Beats)
    <3>1. 0 <= j /\ j < N
      BY GroupOf DEF Idx
    <3>2. QED
      BY <2>1, <3>1 DEF PushedTo
  <2>4. weight.beat # LoadLength
    BY <1>1, <1>3 DEF Loaded, LoadLength, Beats
  <2>5. /\ t \in WeightState /\ t.beat = weight.beat + 1
        /\ \A j \in Idx : t.out[j] = (j \div Group = weight.beat % Beats)
    <3>1. PushedTo(cols, 0, [j \in Idx |-> FALSE]) \in [Idx -> BOOLEAN]
      BY <2>3 DEF PushedTo
    <3>2. weight.beat + 1 \in 0 .. LoadLength
      BY <1>1, <2>4, GroupOf
    <3>3. t.beat = weight.beat + 1 /\ t.out = PushedTo(cols, 0, [j \in Idx |-> FALSE])
      BY <2>2
    <3> DEFINE pushed == PushedTo(cols, 0, [j \in Idx |-> FALSE])
               beat == weight.beat + 1
    <3> HIDE DEF pushed, beat
    <3>4. [beat |-> beat, col |-> N, out |-> pushed] \in WeightState
      BY <3>1, <3>2 DEF WeightState, pushed, beat
    <3>5. t \in WeightState
      BY <2>2, <3>4 DEF pushed, beat
    <3>6. QED
      BY <2>3, <3>3, <3>5
  <2>6. ASSUME NEW j \in Idx PROVE Words(t, j) = Words(weight, j) + Count(t.out[j])
    <3> DEFINE q == weight.beat \div Beats
               m == weight.beat % Beats
               g == j \div Group
    <3>1. /\ Beats \in Nat \ {0} /\ g \in 0 .. Beats - 1 /\ q \in Nat /\ m \in 0 .. Beats - 1
      BY <1>1, GroupOf, NextQuotient
    <3>2. IF m = Beats - 1 THEN t.beat \div Beats = q + 1 /\ t.beat % Beats = 0
                           ELSE t.beat \div Beats = q /\ t.beat % Beats = m + 1
      BY <1>1, <2>5, GroupOf, NextQuotient, ZenonT(60)
    <3>3. Words(weight, j) = q + Count(g < m) /\ Count(t.out[j]) = Count(g = m)
      BY <2>5 DEF Words
    <3>4. Words(t, j) = (t.beat \div Beats) + Count(g < t.beat % Beats)
      BY DEF Words
    <3> HIDE DEF q, m, g
    <3>5. QED
      BY <3>1, <3>2, <3>3, <3>4 DEF Count
  <2>7. QED
    BY <1>3, <2>5, <2>6
<1>4. QED
  BY <1>2, <1>3

-----------------------------------------------------------------------------
(* ReadRspRun: how much of the run a row has been given. *)

(* ReadRspRun between two cycles: if it waits, its row is one of the beat.  *)
FeedState == [beat : 0 .. LastBeat, row : 0 .. N, out : [Idx -> BOOLEAN]]
InFeed(f) == f \in FeedState /\ (f.row < N => f.beat > 0 /\ InBeat(f.beat - 1, f.row))

(* Row i's share of the first b beats, and what it has been given.          *)
Share(b, i) == IF b <= i THEN 0 ELSE IF b - i >= M THEN M ELSE b - i
Fed(f, i) == Share(IF i < f.row THEN f.beat ELSE f.beat - 1, i)

(* One beat more gives row i an activation exactly if the row is in the     *)
(* beat.                                                                    *)
LEMMA ShareGrows ==
    ASSUME NEW b \in Nat, NEW i \in Nat
    PROVE  /\ Share(b, i) \in 0 .. M
           /\ Share(b + 1, i) = Share(b, i) + Count(InBeat(b, i))
           /\ InBeat(b, i) => Share(b, i) < M
BY MAssumption DEF Share, InBeat, Count

(* A row never gets more than its M activations, and if all have got theirs *)
(* no beat is under way.                                                    *)
LEMMA FedOfRun ==
    ASSUME NEW f, InFeed(f)
    PROVE  /\ \A i \in Idx : Fed(f, i) \in 0 .. M
           /\ (\A i \in Idx : Fed(f, i) = M) => f.row = N
<1>1. N \in Nat /\ f.row \in 0 .. N /\ f.beat \in Nat /\ M \in Nat \ {0}
  BY NAssumption, MAssumption DEF InFeed, FeedState, LastBeat
<1>2. ASSUME NEW i \in Idx PROVE Fed(f, i) \in 0 .. M
  BY <1>1, NAssumption DEF Fed, Share, Idx
<1>3. ASSUME f.row # N PROVE f.row \in Idx /\ Fed(f, f.row) < M
  <2>1. f.row \in Idx /\ f.beat > 0 /\ InBeat(f.beat - 1, f.row)
    BY <1>1, <1>3 DEF InFeed, Idx
  <2>2. Fed(f, f.row) = Share(f.beat - 1, f.row)
    BY <1>1 DEF Fed
  <2>3. f.beat - 1 \in Nat /\ f.row \in Nat
    BY <1>1, <2>1
  <2>4. QED
    BY <2>1, <2>2, <2>3, ShareGrows
<1>4. QED
  BY <1>1, <1>2, <1>3

(* One cycle of ReadRspRun: a row gets an activation exactly when its port  *)
(* is free and its turn comes, and nothing is fed before the load is        *)
(* complete.                                                                *)
LEMMA CycleOfFeed ==
    ASSUME InFeed(feed), NEW go, FeedAtEdge \in [Idx -> BOOLEAN]
    PROVE  LET f == ReadRspRun(go)
           IN  /\ InFeed(f)
               /\ \A i \in Idx : Fed(f, i) - Count(f.out[i]) = Fed(feed, i) - Count(FeedAtEdge[i])
               /\ f.beat > 0 => feed.beat > 0 \/ Loaded
<1> DEFINE f == ReadRspRun(go)
           idle == feed.row = N /\ (~Loaded \/ feed.beat = LastBeat \/ ~go)
           beat == IF feed.row = N THEN feed.beat ELSE feed.beat - 1
           next == IF feed.row = N THEN 0 ELSE feed.row
           rows == {i \in Idx : InBeat(beat, i)}
           stop == StopsAt(rows, next, FeedAtEdge)
           pushed == PushedTo(rows, next, FeedAtEdge)
<1>1. N \in Nat \ {0} /\ M \in Nat \ {0} /\ LastBeat \in Nat /\ feed.row \in 0 .. N /\ feed.beat \in 0 .. LastBeat
  BY NAssumption, MAssumption DEF InFeed, FeedState, LastBeat
<1>2. CASE idle
  <2>1. f = [feed EXCEPT !.out = FeedAtEdge]
    BY <1>2 DEF ReadRspRun
  <2>2. f \in FeedState /\ f.beat = feed.beat /\ f.row = feed.row /\ f.out = FeedAtEdge
    BY <2>1 DEF FeedState, InFeed
  <2>3. ASSUME NEW i \in Idx PROVE Fed(f, i) = Fed(feed, i)
    BY <2>2 DEF Fed
  <2>4. InFeed(f)
    BY <2>2 DEF InFeed
  <2>5. ASSUME NEW i \in Idx PROVE Fed(feed, i) - Count(FeedAtEdge[i]) = Fed(f, i) - Count(f.out[i])
    BY <2>2, <2>3
  <2>6. QED
    BY <2>2, <2>4, <2>5
<1>3. CASE ~idle
  <2>1. f = [beat |-> beat + 1, row |-> stop, out |-> pushed]
    BY <1>3 DEF ReadRspRun
  <2>2. beat \in Nat /\ beat + 1 \in 0 .. LastBeat /\ next \in 0 .. N
    BY <1>1, <1>3 DEF InFeed
  <2>3. rows \in SUBSET Idx
    OBVIOUS
  <2> HIDE DEF beat, next, rows, stop, pushed
  <2>4. /\ stop \in next .. N
        /\ stop < N => stop \in rows /\ FeedAtEdge[stop]
        /\ \A k \in rows : next <= k /\ k < stop => ~FeedAtEdge[k]
    BY <2>2, <2>3, WhereItStops DEF stop
  <2>5. pushed \in [Idx -> BOOLEAN]
    BY DEF pushed, PushedTo
  <2>6. f \in FeedState
    BY <1>1, <2>1, <2>2, <2>4, <2>5 DEF FeedState
  <2>7. f.beat = beat + 1 /\ f.row = stop /\ f.out = pushed
    BY <2>1
  <2>8. InFeed(f)
    <3>1. ASSUME stop < N PROVE InBeat(beat, stop)
      BY <2>4, <3>1 DEF rows
    <3>2. f.beat - 1 = beat /\ f.beat > 0
      BY <2>2, <2>7
    <3>3. f.row < N => f.beat > 0 /\ InBeat(f.beat - 1, f.row)
      BY <2>7, <3>1, <3>2
    <3>4. QED
      BY <2>6, <3>3, Zenon DEF InFeed
  <2>9. ASSUME NEW i \in Idx
        PROVE  Fed(f, i) - Count(f.out[i]) = Fed(feed, i) - Count(FeedAtEdge[i])
    <3> DEFINE given == next <= i /\ i < stop
    <3>1. i \in Nat /\ i < N
      BY <1>1 DEF Idx
    <3>2. Fed(feed, i) = IF i < next THEN Share(beat + 1, i) ELSE Share(beat, i)
      BY <1>1, <3>1 DEF Fed, beat, next
    <3>3. Fed(f, i) = IF i < stop THEN Share(beat + 1, i) ELSE Share(beat, i)
      BY <2>2, <2>7 DEF Fed
    <3>4. /\ Share(beat, i) \in Nat
          /\ Share(beat + 1, i) = Share(beat, i) + Count(InBeat(beat, i))
      <4>1. beat \in Nat /\ i \in Nat
        BY <2>2, <3>1
      <4>2. Share(beat, i) \in 0 .. M /\ Share(beat + 1, i) = Share(beat, i) + Count(InBeat(beat, i))
        BY <4>1, ShareGrows, Zenon
      <4>3. Share(beat, i) \in Nat
        BY <1>1, <4>2
      <4>4. QED
        BY <4>2, <4>3, Zenon
    <3>5. Fed(f, i) = Fed(feed, i) + Count(given /\ InBeat(beat, i))
      BY <1>1, <2>2, <2>4, <3>1, <3>2, <3>3, <3>4 DEF Count
    <3>6. pushed[i] = (FeedAtEdge[i] \/ (given /\ InBeat(beat, i)))
      BY DEF pushed, PushedTo, stop, rows
    <3>7. given /\ InBeat(beat, i) => ~FeedAtEdge[i]
      BY <2>4 DEF rows
    <3>8. Count(pushed[i]) = Count(FeedAtEdge[i]) + Count(given /\ InBeat(beat, i))
      <4>1. FeedAtEdge[i] \in BOOLEAN /\ pushed[i] \in BOOLEAN
        BY <2>5
      <4>2. CASE given /\ InBeat(beat, i)
        <5>1. pushed[i] /\ ~FeedAtEdge[i]
          BY <3>6, <3>7, <4>1, <4>2
        <5>2. Count(pushed[i]) = 1 /\ Count(FeedAtEdge[i]) = 0 /\ Count(given /\ InBeat(beat, i)) = 1
          BY <4>1, <4>2, <5>1 DEF Count
        <5>3. QED
          BY <5>2
      <4>3. CASE ~(given /\ InBeat(beat, i))
        BY <3>6, <4>1, <4>3 DEF Count
      <4>4. QED
        BY <4>2, <4>3
    <3>9. Fed(feed, i) \in Nat /\ Count(FeedAtEdge[i]) \in Nat /\ Count(given /\ InBeat(beat, i)) \in Nat
      BY <3>2, <3>4 DEF Count
    <3>10. QED
      BY <2>7, <3>5, <3>8, <3>9
  <2>10. feed.beat > 0 \/ Loaded
    BY <1>1, <1>3 DEF InFeed
  <2>11. QED
    BY <2>8, <2>9, <2>10
<1>4. QED
  BY <1>2, <1>3

-----------------------------------------------------------------------------
(* The invariant. *)

(* Where a PE gets its messages from, and what has been sent to it. *)
FromW(i, j) == IF i = 0 THEN weight.out[j] ELSE pe[i-1][j].outW
SentW(i, j) == IF i = 0 THEN Words(weight, j) ELSE pe[i-1][j].recv
FromA(i, j) == IF j = 0 THEN feed.out[i] ELSE pe[i][j-1].outA
SentA(i, j) == IF j = 0 THEN Fed(feed, i) ELSE Acts(pe[i][j-1])
FromS(i, j) == IF i = 0 THEN zero[j] ELSE pe[i-1][j].outS

(* Where its activation and its sum go, and the sums taken there. *)
NextA(i, j) == IF j = N-1 THEN FALSE ELSE pe[i][j+1].inA
NextS(i, j) == IF i = N-1 THEN bias[j].inS ELSE pe[i+1][j].inS
Gone(i, j) == IF i = N-1 THEN Taken(bias[j]) ELSE Popped(pe[i+1][j])

(* The sums of a PE that are through its port, and the outputs of a column. *)
Through(i, j) == Sums(pe[i][j]) - Count(pe[i][j].outS)
Shown(j) == bias[j].made - Count(bias[j].out)

(* WriteReqRun. *)
CollectState == [at : {"poll", "push", "done"}, in : [Idx -> BOOLEAN], ctr : [Idx -> Nat]]

(* Between two cycles a word is in an Out port or nowhere. *)
Types ==
    /\ pe \in [Idx -> [Idx -> PEState]] /\ \A i, j \in Idx : AtRest(pe[i][j])
    /\ bias \in [Idx -> BiasState] /\ \A j \in Idx : ~bias[j].inW
    /\ zero \in [Idx -> BOOLEAN]
    /\ weight \in WeightState /\ InFeed(feed) /\ collect \in CollectState

(* No word, activation, sum or output is lost. *)
WordsKept ==
    /\ \A i, j \in Idx : SentW(i, j) = pe[i][j].recv + Count(FromW(i, j)) /\ pe[i][j].recv <= N + 1
    /\ \A j \in Idx : pe[N-1][j].recv = bias[j].recv + Count(pe[N-1][j].outW)

ActsKept ==
    \A i, j \in Idx :
        /\ SentA(i, j) = pe[i][j].fired + Count(pe[i][j].isA) + Count(pe[i][j].inA) + Count(FromA(i, j))
        /\ pe[i][j].fired <= M

SumsKept == \A i, j \in Idx : Through(i, j) = Gone(i, j) + Count(NextS(i, j))

OutputsKept == \A j \in Idx : Shown(j) = collect.ctr[j] + Count(collect.in[j])

(* The words are ahead: no activation is fed until the last is on its way   *)
(* into the array, no sum leaves a PE that still passes on a word.          *)
WordsFirst ==
    /\ feed.beat > 0 => Loaded /\ \A j \in Idx : ~weight.out[j]
    /\ \A i, j \in Idx : pe[i][j].fired > 0 =>
          feed.beat > 0 /\ pe[i][j].recv = N + 1 /\ ~pe[i][j].outW

(* Of two columns the left one is never behind, at no place. *)
LeftFirst ==
    \A j, k \in Idx : j < k =>
        /\ \A i \in Idx : /\ pe[i][k].fired <= Acts(pe[i][j])
                          /\ Sums(pe[i][k]) <= Sums(pe[i][j])
                          /\ Through(i, k) <= Through(i, j)
                          /\ Gone(i, k) <= Gone(i, j)
        /\ bias[k].made <= bias[j].made
        /\ Shown(k) <= Shown(j)
        /\ collect.ctr[k] <= collect.ctr[j]

(* Of two rows the upper one is never behind. *)
UpperFirst == \A i, k, j \in Idx : i < k => pe[k][j].fired <= Sums(pe[i][j])

(* WriteReqRun stops at the last output of the last column. *)
LastDone == collect.at = "done" => collect.ctr[N-1] = M

(* The inductive invariant. *)
Inv ==
    /\ Types /\ WordsKept /\ ActsKept /\ SumsKept /\ OutputsKept
    /\ WordsFirst /\ LeftFirst /\ UpperFirst /\ LastDone

(* Rows and columns, and their neighbours. *)
LEMMA Indices ==
    /\ N \in Nat \ {0} /\ M \in Nat \ {0} /\ N-1 \in Idx /\ 0 \in Idx
    /\ \A i \in Idx : /\ i \in Nat /\ i < N
                      /\ i # 0 => i-1 \in Idx
                      /\ i # N-1 => i+1 \in Idx
BY NAssumption, MAssumption DEF Idx

(* The fields of a PE and of a bias. *)
LEMMA FieldsOfPE ==
    ASSUME Types, NEW i \in Idx, NEW j \in Idx
    PROVE  LET p == pe[i][j]
           IN  /\ p \in PEState /\ p.at \in {"poll", "act", "accum"}
               /\ p.isW = FALSE /\ p.inW = FALSE /\ p.outW \in BOOLEAN
               /\ p.isA \in BOOLEAN /\ p.inA \in BOOLEAN /\ p.outA \in BOOLEAN
               /\ p.isS \in BOOLEAN /\ p.inS \in BOOLEAN /\ p.outS \in BOOLEAN
               /\ p.recv \in Nat /\ p.fired \in Nat
               /\ p.at # "poll" => p.fired > 0
               /\ Acts(p) \in 0 .. p.fired /\ Sums(p) \in 0 .. p.fired
<1>1. pe[i][j] \in PEState /\ AtRest(pe[i][j])
  BY DEF Types
<1> DEFINE p == pe[i][j]
<1> HIDE DEF p
<1>2. /\ p \in PEState /\ p.at \in {"poll", "act", "accum"}
      /\ p.isW = FALSE /\ p.inW = FALSE /\ p.outW \in BOOLEAN
      /\ p.isA \in BOOLEAN /\ p.inA \in BOOLEAN /\ p.outA \in BOOLEAN
      /\ p.isS \in BOOLEAN /\ p.inS \in BOOLEAN /\ p.outS \in BOOLEAN
      /\ p.recv \in Nat /\ p.fired \in Nat
      /\ p.at # "poll" => p.fired > 0
  BY <1>1 DEF p, AtRest, PEState
<1>3. Acts(p) \in 0 .. p.fired /\ Sums(p) \in 0 .. p.fired
  BY <1>2 DEF Acts, Sums, Count
<1>4. QED
  BY <1>2, <1>3 DEF p

(* The fields of a bias. *)
LEMMA FieldsOfBias ==
    ASSUME Types, NEW j \in Idx
    PROVE  LET b == bias[j]
           IN  /\ b \in BiasState /\ b.at \in {"poll", "push"} /\ b.inW = FALSE
               /\ b.inS \in BOOLEAN /\ b.out \in BOOLEAN /\ b.recv \in Nat /\ b.made \in Nat
               /\ Taken(b) \in b.made .. b.made + 1
<1>1. bias[j] \in BiasState /\ ~bias[j].inW
  BY DEF Types
<1> DEFINE b == bias[j]
<1> HIDE DEF b
<1>2. /\ b \in BiasState /\ b.at \in {"poll", "push"} /\ b.inW = FALSE
      /\ b.inS \in BOOLEAN /\ b.out \in BOOLEAN /\ b.recv \in Nat /\ b.made \in Nat
  BY <1>1 DEF b, BiasState
<1>3. Taken(b) \in b.made .. b.made + 1
  BY <1>2 DEF Taken, Count
<1>4. QED
  BY <1>2, <1>3 DEF b

(* The ports around a PE are full or empty. *)
LEMMA Ports ==
    ASSUME Types, NEW i \in Idx, NEW j \in Idx
    PROVE  /\ FromW(i, j) \in BOOLEAN /\ FromA(i, j) \in BOOLEAN /\ FromS(i, j) \in BOOLEAN
           /\ NextA(i, j) \in BOOLEAN /\ NextS(i, j) \in BOOLEAN /\ Gone(i, j) \in Nat
<1>1. weight.out[j] \in BOOLEAN /\ feed.out[i] \in BOOLEAN /\ zero[j] \in BOOLEAN
  BY DEF Types, WeightState, InFeed, FeedState
<1>2. FromW(i, j) \in BOOLEAN /\ FromS(i, j) \in BOOLEAN
  BY <1>1, Indices, FieldsOfPE DEF FromW, FromS
<1>3. FromA(i, j) \in BOOLEAN /\ NextA(i, j) \in BOOLEAN
  BY <1>1, Indices, FieldsOfPE DEF FromA, NextA
<1>4. NextS(i, j) \in BOOLEAN
  BY Indices, FieldsOfPE, FieldsOfBias DEF NextS
<1>5. CASE i = N-1
  <2>1. bias[j].made \in Nat /\ Taken(bias[j]) \in bias[j].made .. bias[j].made + 1
    BY FieldsOfBias
  <2>. Taken(bias[j]) \in Nat
    BY <2>1
  <2>2. QED
    BY <1>2, <1>3, <1>4, <1>5, <2>1 DEF Gone
<1>6. CASE i # N-1
  <2>1. pe[i+1][j].fired \in Nat /\ pe[i+1][j].isS \in BOOLEAN
    BY <1>6, Indices, FieldsOfPE
  <2>2. Popped(pe[i+1][j]) \in Nat
    BY <2>1 DEF Popped, Count
  <2>3. QED
    BY <1>2, <1>3, <1>4, <1>6, <2>2 DEF Gone
<1>7. QED
  BY <1>5, <1>6

-----------------------------------------------------------------------------
(* The edge: what the ports hold when the threads run. *)

(* A PE after the edge. *)
LEMMA EdgeOfPE ==
    ASSUME Types, NEW i \in Idx, NEW j \in Idx
    PROVE  LET p == pe[i][j]
               q == AtEdge(i, j)
           IN  /\ q \in PEState /\ q.at = p.at /\ q.recv = p.recv /\ q.fired = p.fired
               /\ q.isW = FALSE /\ q.isA = p.isA /\ q.isS = p.isS
               /\ q.inW = FromW(i, j) /\ q.outW = FALSE
               /\ q.inA = (p.inA \/ FromA(i, j)) /\ q.outA = (p.outA /\ NextA(i, j))
               /\ q.inS = (p.inS \/ FromS(i, j)) /\ q.outS = (p.outS /\ NextS(i, j))
<1> DEFINE p == pe[i][j]
           inA == p.inA \/ FromA(i, j)
           inS == p.inS \/ FromS(i, j)
           outA == p.outA /\ NextA(i, j)
           outS == p.outS /\ NextS(i, j)
           q == [p EXCEPT !.inW = FromW(i, j), !.inA = inA, !.inS = inS,
                          !.outW = FALSE, !.outA = outA, !.outS = outS]
<1>1. /\ p \in PEState /\ p.isW = FALSE /\ p.inW = FALSE
      /\ p.outW \in BOOLEAN /\ p.inA \in BOOLEAN /\ p.inS \in BOOLEAN
  BY FieldsOfPE
<1>2. /\ FromW(i, j) \in BOOLEAN /\ FromA(i, j) \in BOOLEAN /\ FromS(i, j) \in BOOLEAN
      /\ NextA(i, j) \in BOOLEAN /\ NextS(i, j) \in BOOLEAN
  BY Ports
<1>3. (IF i = N-1 THEN bias[j].inW ELSE pe[i+1][j].inW) = FALSE
  <2>1. bias[j].inW = FALSE
    BY FieldsOfBias
  <2>2. CASE i # N-1
    <3>1. i + 1 \in Idx
      BY <2>2, Indices
    <3>2. pe[i+1][j].inW = FALSE
      BY <3>1, FieldsOfPE
    <3>3. QED
      BY <2>2, <3>2
  <2>3. QED
    BY <2>1, <2>2
<1>4. Arrives(p.inW, FromW(i, j)) = FromW(i, j)
  BY <1>1, <1>2 DEF Arrives
<1>5. AtEdge(i, j) = [p EXCEPT !.inW = Arrives(p.inW, FromW(i, j)), !.inA = Arrives(p.inA, FromA(i, j)),
                               !.inS = Arrives(p.inS, FromS(i, j)), !.outW = Stays(p.outW, FALSE),
                               !.outA = Stays(p.outA, NextA(i, j)), !.outS = Stays(p.outS, NextS(i, j))]
  BY <1>3, ZenonT(60) DEF AtEdge, FromW, FromA, FromS, NextA, NextS
<1>6. Stays(p.outW, FALSE) = FALSE
  BY DEF Stays
<1>7. AtEdge(i, j) = q
  BY <1>4, <1>5, <1>6 DEF Arrives, Stays
<1>8. inA \in BOOLEAN /\ inS \in BOOLEAN /\ outA \in BOOLEAN /\ outS \in BOOLEAN
  OBVIOUS
<1> HIDE DEF p, inA, inS, outA, outS
<1>9. q \in PEState
  BY <1>1, <1>2, <1>8 DEF PEState
<1>10. /\ q.at = p.at /\ q.recv = p.recv /\ q.fired = p.fired
       /\ q.isW = p.isW /\ q.isA = p.isA /\ q.isS = p.isS
       /\ q.inW = FromW(i, j) /\ q.outW = FALSE
       /\ q.inA = inA /\ q.outA = outA /\ q.inS = inS /\ q.outS = outS
  BY <1>1 DEF PEState
<1>11. QED
  BY <1>1, <1>7, <1>9, <1>10 DEF p, inA, inS, outA, outS

(* A bias after the edge. *)
LEMMA EdgeOfBias ==
    ASSUME Types, NEW j \in Idx
    PROVE  LET b == bias[j]
               q == BiasAtEdge(j)
           IN  /\ q \in BiasState /\ q.at = b.at /\ q.recv = b.recv /\ q.made = b.made
               /\ q.inW = pe[N-1][j].outW
               /\ q.inS = (b.inS \/ pe[N-1][j].outS) /\ q.out = (b.out /\ collect.in[j])
<1> DEFINE b == bias[j]
           inS == b.inS \/ pe[N-1][j].outS
           out == b.out /\ collect.in[j]
           q == [b EXCEPT !.inW = pe[N-1][j].outW, !.inS = inS, !.out = out]
<1>1. b \in BiasState /\ b.inW = FALSE /\ b.inS \in BOOLEAN /\ b.out \in BOOLEAN
  BY FieldsOfBias
<1>2. pe[N-1][j].outW \in BOOLEAN /\ pe[N-1][j].outS \in BOOLEAN
  BY Indices, FieldsOfPE
<1>3. Arrives(b.inW, pe[N-1][j].outW) = pe[N-1][j].outW
  BY <1>1, <1>2 DEF Arrives
<1>4. BiasAtEdge(j) = [b EXCEPT !.inW = Arrives(b.inW, pe[N-1][j].outW),
                                !.inS = Arrives(b.inS, pe[N-1][j].outS), !.out = Stays(b.out, collect.in[j])]
  BY DEF BiasAtEdge
<1>5. BiasAtEdge(j) = q
  BY <1>3, <1>4 DEF Arrives, Stays
<1>6. inS \in BOOLEAN /\ out \in BOOLEAN
  OBVIOUS
<1> HIDE DEF b, inS, out
<1>7. q \in BiasState
  BY <1>1, <1>2, <1>6 DEF BiasState
<1>8. /\ q.at = b.at /\ q.recv = b.recv /\ q.made = b.made
      /\ q.inW = pe[N-1][j].outW /\ q.inS = inS /\ q.out = out
  BY <1>1 DEF BiasState
<1>9. QED
  BY <1>5, <1>7, <1>8 DEF b, inS, out

-----------------------------------------------------------------------------
(* What is known of the counts between cycles *)

(* A PE that gets a word has no product due: its upper neighbour has made   *)
(* none before passing the word on, and nothing is fed before the load.     *)
LEMMA WordMeetsNoProduct ==
    ASSUME Inv, NEW i \in Idx, NEW j \in Idx, FromW(i, j)
    PROVE  LET q == AtEdge(i, j) IN q.at = "poll" /\ ~(HasA(q) /\ HasS(q))
<1> DEFINE p == pe[i][j]
           q == AtEdge(i, j)
<1>1. Types /\ WordsKept /\ ActsKept /\ SumsKept /\ WordsFirst
  BY DEF Inv
<1>2. p.fired = 0
  <2>1. SentW(i, j) = p.recv + 1
    BY <1>1 DEF WordsKept, Count
  <2>2. SentW(i, j) <= N + 1
    <3>1. CASE i = 0
      BY <1>1, <3>1, WordsOfLoad, Indices DEF SentW, Types
    <3>2. CASE i # 0
      BY <1>1, <3>2, Indices DEF SentW, WordsKept
    <3>3. QED
      BY <3>1, <3>2
  <2>3. p.recv # N + 1
    BY <1>1, <2>1, <2>2, Indices, FieldsOfPE
  <2>4. p.fired \in Nat
    BY <1>1, FieldsOfPE
  <2>5. QED
    BY <1>1, <2>3, <2>4 DEF WordsFirst
<1>3. q.at = "poll"
  <2>1. p.at # "poll" => p.fired > 0
    BY <1>1, FieldsOfPE
  <2>2. q.at = p.at
    BY <1>1, EdgeOfPE
  <2>3. QED
    BY <1>2, <2>1, <2>2
<1>4. ASSUME HasA(q), HasS(q) PROVE FALSE
  <2>1. CASE i = 0
    <3>1. feed.beat = 0
      BY <1>1, <2>1, Indices DEF WordsFirst, FromW, Types, InFeed, FeedState, LastBeat
    <3>2. SentA(i, j) >= 1
      <4>1. p.isA \/ p.inA \/ FromA(i, j)
        BY <1>1, <1>4, EdgeOfPE DEF HasA
      <4>2. p.isA \in BOOLEAN /\ p.inA \in BOOLEAN /\ FromA(i, j) \in BOOLEAN /\ p.fired \in Nat
        BY <1>1, FieldsOfPE, Ports
      <4>3. SentA(i, j) = p.fired + Count(p.isA) + Count(p.inA) + Count(FromA(i, j))
        BY <1>1 DEF ActsKept
      <4>4. QED
        BY <4>1, <4>2, <4>3 DEF Count
    <3>3. CASE j = 0
      <4>1. feed.row = N
        <5>1. feed.row \in 0 .. N /\ (feed.row < N => feed.beat > 0)
          BY <1>1 DEF Types, InFeed, FeedState
        <5>2. QED
          BY <3>1, <5>1, Indices
      <4>2. Fed(feed, i) = 0
        BY <2>1, <3>1, <4>1, Indices DEF Fed, Share
      <4>3. QED
        BY <3>2, <3>3, <4>2 DEF SentA
    <3>4. CASE j # 0
      <4>1. j-1 \in Idx /\ SentA(i, j) = Acts(pe[i][j-1])
        BY <3>4, Indices DEF SentA
      <4>2. pe[i][j-1].fired \in Nat /\ Acts(pe[i][j-1]) \in 0 .. pe[i][j-1].fired
        BY <1>1, <4>1, FieldsOfPE
      <4>3. pe[i][j-1].fired > 0
        BY <3>2, <4>1, <4>2
      <4>4. feed.beat > 0
        BY <1>1, <4>1, <4>3 DEF WordsFirst
      <4>5. QED
        BY <3>1, <4>4
    <3>5. QED
      BY <3>3, <3>4
  <2>2. CASE i # 0
    <3> DEFINE u == pe[i-1][j]
    <3>1. i-1 \in Idx /\ i-1 # N-1 /\ (i-1) + 1 = i
      BY <2>2, Indices
    <3>2. /\ u.fired \in Nat /\ Sums(u) \in 0 .. u.fired /\ u.outS \in BOOLEAN
          /\ p.isS \in BOOLEAN /\ p.inS \in BOOLEAN /\ p.fired \in Nat
      BY <1>1, <3>1, FieldsOfPE
    <3>3. Sums(u) - Count(u.outS) = p.fired + Count(p.isS) + Count(p.inS)
      BY <1>1, <3>1 DEF SumsKept, Through, Gone, NextS, Popped
    <3>4. p.isS \/ p.inS \/ u.outS
      BY <1>1, <1>4, <2>2, EdgeOfPE, ZenonT(60) DEF HasS, FromS
    <3>5. u.fired > 0
      BY <3>2, <3>3, <3>4 DEF Count
    <3>6. ~u.outW
      BY <1>1, <3>1, <3>5 DEF WordsFirst
    <3>7. QED
      BY <2>2, <3>6 DEF FromW
  <2>3. QED
    BY <2>1, <2>2
<1>5. QED
  BY <1>3, <1>4

-----------------------------------------------------------------------------
(* Each component after one cycle. *)

(* A PE after a cycle, from what it was before. *)
LEMMA AfterPE ==
    ASSUME Inv, NEW newWord, NEW newBeat, NEW room, Cycle({}, newWord, newBeat, room),
           NEW i \in Idx, NEW j \in Idx
    PROVE  LET p == pe[i][j]
               r == pe'[i][j]
           IN  /\ AtRest(r) /\ r.recv = p.recv + Count(FromW(i, j)) /\ r.outW = FromW(i, j)
               /\ r.fired + Count(r.isA) + Count(r.inA) = p.fired + Count(p.isA) + Count(p.inA \/ FromA(i, j))
               /\ r.fired + Count(r.isS) + Count(r.inS) = p.fired + Count(p.isS) + Count(p.inS \/ FromS(i, j))
               /\ Acts(r) - Count(r.outA) = Acts(p) - Count(p.outA /\ NextA(i, j))
               /\ Sums(r) - Count(r.outS) = Sums(p) - Count(p.outS /\ NextS(i, j))
               /\ Popped(r) = IF p.at = "poll" THEN p.fired + Count(p.isS \/ (p.inS \/ FromS(i, j)))
                                               ELSE Popped(p)
               /\ Acts(r) >= Acts(p) /\ Sums(r) >= Sums(p)
               /\ p.at = "accum" /\ ~(p.outS /\ NextS(i, j)) => Sums(r) = Sums(p) + 1
<1> DEFINE p == pe[i][j]
           q == AtEdge(i, j)
           r == pe'[i][j]
<1>1. Types
  BY DEF Inv
<1>2. r = PERun(q)
  BY DEF Cycle
<1>3. /\ q \in PEState /\ q.at = p.at /\ q.recv = p.recv /\ q.fired = p.fired
      /\ q.isW = FALSE /\ q.isA = p.isA /\ q.isS = p.isS
      /\ q.inW = FromW(i, j) /\ q.outW = FALSE
      /\ q.inA = (p.inA \/ FromA(i, j)) /\ q.outA = (p.outA /\ NextA(i, j))
      /\ q.inS = (p.inS \/ FromS(i, j)) /\ q.outS = (p.outS /\ NextS(i, j))
  BY <1>1, EdgeOfPE
<1>4. AtStart(q)
  <2>1. p.at # "weight" /\ (p.at # "poll" => p.fired > 0)
    BY <1>1, FieldsOfPE
  <2>2. q.inW => q.at = "poll" /\ ~(HasA(q) /\ HasS(q))
    BY <1>3, WordMeetsNoProduct
  <2>3. QED
    BY <1>3, <2>1, <2>2 DEF AtStart
<1> HIDE DEF p, q, r
<1>5. /\ AtRest(r)
      /\ r.recv = q.recv + Count(q.inW) /\ r.outW = q.inW
      /\ r.fired + Count(r.isA) + Count(r.inA) = q.fired + Count(q.isA) + Count(q.inA)
      /\ r.fired + Count(r.isS) + Count(r.inS) = q.fired + Count(q.isS) + Count(q.inS)
      /\ Acts(r) - Count(r.outA) = Acts(q) - Count(q.outA)
      /\ Sums(r) - Count(r.outS) = Sums(q) - Count(q.outS)
      /\ Popped(r) = IF q.at = "poll" THEN q.fired + Count(q.isS \/ q.inS) ELSE Popped(q)
      /\ Acts(r) >= Acts(q) /\ Sums(r) >= Sums(q)
      /\ q.at = "accum" /\ ~q.outS => Sums(r) = Sums(q) + 1
  BY <1>2, <1>4, CycleOfPE
<1>6. Acts(q) = Acts(p) /\ Sums(q) = Sums(p) /\ Popped(q) = Popped(p)
  BY <1>3 DEF Acts, Sums, Popped
<1>7. QED
  BY <1>3, <1>5, <1>6 DEF p, r

(* A bias after a cycle. *)
LEMMA AfterBias ==
    ASSUME Inv, NEW newWord, NEW newBeat, NEW room, Cycle({}, newWord, newBeat, room), NEW j \in Idx
    PROVE  LET b == bias[j]
               r == bias'[j]
               u == pe[N-1][j]
           IN  /\ r \in BiasState /\ ~r.inW /\ r.recv = b.recv + Count(u.outW)
               /\ Taken(r) + Count(r.inS) = Taken(b) + Count(b.inS \/ u.outS)
               /\ r.made - Count(r.out) = b.made - Count(b.out /\ collect.in[j])
               /\ Taken(r) = IF b.at = "poll" THEN b.made + Count(b.inS \/ u.outS) ELSE Taken(b)
               /\ r.made = IF b.out /\ collect.in[j] THEN b.made ELSE Taken(r)
<1> DEFINE b == bias[j]
           q == BiasAtEdge(j)
           r == bias'[j]
           u == pe[N-1][j]
<1>1. Types /\ WordsKept /\ SumsKept /\ WordsFirst
  BY DEF Inv
<1>2. r = SysBiasRun(q)
  BY DEF Cycle
<1>3. /\ q \in BiasState /\ q.at = b.at /\ q.recv = b.recv /\ q.made = b.made
      /\ q.inW = u.outW /\ q.inS = (b.inS \/ u.outS) /\ q.out = (b.out /\ collect.in[j])
  BY <1>1, EdgeOfBias
<1>4. ASSUME u.outW PROVE b.at = "poll" /\ ~b.inS /\ ~u.outS
  <2>1. N-1 \in Idx
    BY Indices
  <2>2. u.fired \in Nat /\ Sums(u) \in 0 .. u.fired /\ u.outS \in BOOLEAN
    BY <1>1, <2>1, FieldsOfPE
  <2>3. u.fired = 0
    BY <1>1, <1>4, <2>1, <2>2 DEF WordsFirst
  <2>4. Sums(u) - Count(u.outS) = Taken(b) + Count(b.inS)
    BY <1>1, <2>1 DEF SumsKept, Through, Gone, NextS
  <2>5. b.at \in {"poll", "push"} /\ b.inS \in BOOLEAN /\ b.made \in Nat
    BY <1>1, FieldsOfBias
  <2>6. QED
    BY <2>2, <2>3, <2>4, <2>5 DEF Taken, Count
<1>5. q.inW => q.at = "poll" /\ ~q.inS
  BY <1>3, <1>4
<1> HIDE DEF b, q, r, u
<1>6. /\ r \in BiasState /\ ~r.inW /\ r.recv = q.recv + Count(q.inW)
      /\ Taken(r) + Count(r.inS) = Taken(q) + Count(q.inS)
      /\ r.made - Count(r.out) = q.made - Count(q.out)
      /\ Taken(r) = IF q.at = "poll" THEN q.made + Count(q.inS) ELSE Taken(q)
      /\ r.made = IF q.out THEN q.made ELSE Taken(r)
  BY <1>2, <1>3, <1>5, CycleOfBias
<1>7. Taken(q) = Taken(b)
  BY <1>3 DEF Taken
<1>8. QED
  BY <1>3, <1>6, <1>7 DEF b, r, u

(* WriteReqRun takes all that is there, or waits for room in the memory. *)
LEMMA AfterCollect ==
    ASSUME Types, NEW newWord, NEW newBeat, NEW room, Cycle({}, newWord, newBeat, room)
    PROVE  /\ collect' \in CollectState
           /\ \A j \in Idx :
                 /\ collect'.ctr[j] = collect.ctr[j]
                       + (IF collect.at = "poll" THEN Count(collect.in[j] \/ bias[j].out) ELSE 0)
                 /\ collect'.ctr[j] + Count(collect'.in[j]) = collect.ctr[j] + Count(collect.in[j] \/ bias[j].out)
           /\ collect'.at = "done" => collect'.ctr[N-1] = M \/ collect.at = "done"
<1> DEFINE edge == CollectAtEdge
           taken == IF collect.at = "poll" THEN Served(edge) ELSE {}
           ctr == [j \in Idx |-> IF j \in taken THEN collect.ctr[j] + 1 ELSE collect.ctr[j]]
           in == [j \in Idx |-> edge[j] /\ j \notin taken]
           at == IF collect.at = "done" THEN "done"
                 ELSE IF ~room /\ (collect.at = "push" \/ taken # {}) THEN "push"
                 ELSE IF RunDone(ctr) THEN "done" ELSE "poll"
<1>1. collect' = [at |-> at, in |-> in, ctr |-> ctr]
  BY DEF Cycle, WriteReqRun
<1>2. /\ collect.at \in {"poll", "push", "done"} /\ collect.in \in [Idx -> BOOLEAN]
      /\ collect.ctr \in [Idx -> Nat]
  BY DEF Types, CollectState
<1>3. \A j \in Idx : edge[j] = (collect.in[j] \/ bias[j].out)
  BY DEF CollectAtEdge, Arrives
<1>4. \A j \in Idx : j \in taken <=> collect.at = "poll" /\ edge[j]
  BY DEF Served
<1> HIDE DEF edge, taken
<1>5. ctr \in [Idx -> Nat]
  BY <1>2
<1>6. in \in [Idx -> BOOLEAN]
  BY <1>3
<1>7. at \in {"poll", "push", "done"}
  OBVIOUS
<1>8. at = "done" => ctr[N-1] = M \/ collect.at = "done"
  BY DEF RunDone
<1>9. ASSUME NEW j \in Idx
      PROVE  /\ ctr[j] = collect.ctr[j] + (IF collect.at = "poll" THEN Count(edge[j]) ELSE 0)
             /\ ctr[j] + Count(in[j]) = collect.ctr[j] + Count(edge[j])
  <2>1. collect.ctr[j] \in Nat /\ edge[j] \in BOOLEAN
    BY <1>2, <1>3
  <2>2. CASE j \in taken
    <3>1. edge[j] = TRUE /\ collect.at = "poll" /\ in[j] = FALSE
      BY <1>4, <2>1, <2>2
    <3>2. ctr[j] = collect.ctr[j] + 1
      BY <2>2
    <3>3. QED
      BY <2>1, <3>1, <3>2 DEF Count
  <2>3. CASE j \notin taken
    BY <1>4, <2>1, <2>3 DEF Count
  <2>4. QED
    BY <2>2, <2>3
<1> HIDE DEF ctr, in, at
<1>10. collect' \in CollectState
  BY <1>1, <1>5, <1>6, <1>7 DEF CollectState
<1>11. collect'.at = at /\ collect'.in = in /\ collect'.ctr = ctr
  BY <1>1
<1>12. QED
  BY <1>3, <1>8, <1>9, <1>10, <1>11

-----------------------------------------------------------------------------
(* Types, words and activations are kept. *)

(* WeightAxi after a cycle: the top row has taken every word of the last. *)
LEMMA AfterWeight ==
    ASSUME Types, NEW newWord, NEW newBeat, NEW room, Cycle({}, newWord, newBeat, room)
    PROVE  /\ weight' \in WeightState
           /\ \A j \in Idx : Words(weight', j) = Words(weight, j) + Count(weight'.out[j])
           /\ Loaded => weight'.beat = weight.beat /\ \A j \in Idx : ~weight'.out[j]
<1>1. weight' = WeightAxiRun(newWord) /\ weight \in WeightState
  BY DEF Cycle, Types
<1>2. \A j \in Idx : pe[0][j].inW = FALSE
  BY Indices, FieldsOfPE
<1>3. WeightAtEdge = [j \in Idx |-> FALSE]
  BY <1>2 DEF WeightAtEdge, Stays
<1>4. QED
  BY <1>1, <1>3, CycleOfWeight

(* ReadRspRun after a cycle. *)
LEMMA AfterFeed ==
    ASSUME Types, NEW newWord, NEW newBeat, NEW room, Cycle({}, newWord, newBeat, room)
    PROVE  /\ InFeed(feed')
           /\ \A i \in Idx : Fed(feed', i) - Count(feed'.out[i]) = Fed(feed, i) - Count(feed.out[i] /\ pe[i][0].inA)
           /\ feed'.beat > 0 => feed.beat > 0 \/ Loaded
<1>1. feed' = ReadRspRun(newBeat) /\ InFeed(feed)
  BY DEF Cycle, Types
<1>2. FeedAtEdge = [i \in Idx |-> feed.out[i] /\ pe[i][0].inA]
  BY DEF FeedAtEdge, Stays
<1>3. FeedAtEdge \in [Idx -> BOOLEAN] /\ \A i \in Idx : FeedAtEdge[i] = (feed.out[i] /\ pe[i][0].inA)
  BY <1>2
<1>4. QED
  BY <1>1, <1>3, CycleOfFeed

(* A cycle keeps the types, and leaves no word in an In port. *)
LEMMA TypesStay ==
    ASSUME Inv, NEW newWord, NEW newBeat, NEW room, Cycle({}, newWord, newBeat, room)
    PROVE  Types'
<1>1. Types
  BY DEF Inv
<1>2. \A i, j \in Idx : AtRest(pe'[i][j]) /\ pe'[i][j] \in PEState
  BY AfterPE DEF AtRest
<1>3. pe' \in [Idx -> [Idx -> PEState]]
  BY <1>2 DEF Cycle
<1>4. \A j \in Idx : bias'[j] \in BiasState /\ ~bias'[j].inW
  BY AfterBias
<1>5. bias' \in [Idx -> BiasState]
  BY <1>4 DEF Cycle
<1>6. zero' \in [Idx -> BOOLEAN]
  BY DEF Cycle
<1>7. weight' \in WeightState /\ InFeed(feed') /\ collect' \in CollectState
  BY <1>1, AfterWeight, AfterFeed, AfterCollect
<1>8. QED
  BY <1>2, <1>3, <1>4, <1>5, <1>6, <1>7 DEF Types

(* No word is lost between two rows. *)
LEMMA WordsStay ==
    ASSUME Inv, NEW newWord, NEW newBeat, NEW room, Cycle({}, newWord, newBeat, room)
    PROVE  WordsKept'
<1>1. Types /\ Types' /\ WordsKept
  BY TypesStay DEF Inv
<1>2. ASSUME NEW i \in Idx, NEW j \in Idx
      PROVE  SentW(i, j)' = pe'[i][j].recv + Count(FromW(i, j)') /\ pe'[i][j].recv <= N + 1
  <2>1. /\ pe'[i][j].recv = pe[i][j].recv + Count(FromW(i, j))
        /\ SentW(i, j) = pe[i][j].recv + Count(FromW(i, j))
    BY <1>1, AfterPE DEF WordsKept
  <2>2. pe'[i][j].recv = SentW(i, j)
    BY <2>1
  <2>3. CASE i = 0
    <3>1. Words(weight', j) = Words(weight, j) + Count(weight'.out[j])
      BY <1>1, AfterWeight
    <3>2. Words(weight, j) \in 0 .. N + 1
      BY <1>1, WordsOfLoad DEF Types
    <3>3. QED
      BY <2>2, <2>3, <3>1, <3>2, Indices DEF SentW, FromW
  <2>4. CASE i # 0
    <3>1. i-1 \in Idx
      BY <2>4, Indices
    <3>2. pe'[i-1][j].recv = pe[i-1][j].recv + Count(FromW(i-1, j)) /\ pe'[i-1][j].outW = FromW(i-1, j)
      BY <3>1, AfterPE
    <3>3. pe[i-1][j].recv <= N + 1
      BY <1>1, <3>1 DEF WordsKept
    <3>4. QED
      BY <2>2, <2>4, <3>2, <3>3 DEF SentW, FromW
  <2>5. QED
    BY <2>3, <2>4
<1>3. ASSUME NEW j \in Idx
      PROVE  pe'[N-1][j].recv = bias'[j].recv + Count(pe'[N-1][j].outW)
  <2>1. N-1 \in Idx
    BY Indices
  <2>2. /\ pe'[N-1][j].recv = pe[N-1][j].recv + Count(FromW(N-1, j)) /\ pe'[N-1][j].outW = FromW(N-1, j)
        /\ bias'[j].recv = bias[j].recv + Count(pe[N-1][j].outW)
        /\ pe[N-1][j].recv = bias[j].recv + Count(pe[N-1][j].outW)
    BY <1>1, <2>1, AfterPE, AfterBias DEF WordsKept
  <2>3. QED
    BY <2>2
<1>4. QED
  BY <1>2, <1>3 DEF WordsKept

(* No activation is lost between two columns. *)
LEMMA ActsStay ==
    ASSUME Inv, NEW newWord, NEW newBeat, NEW room, Cycle({}, newWord, newBeat, room)
    PROVE  ActsKept'
<1>1. Types /\ Types' /\ ActsKept
  BY TypesStay DEF Inv
<1>2. SUFFICES ASSUME NEW i \in Idx, NEW j \in Idx
               PROVE  /\ SentA(i, j)' = pe'[i][j].fired + Count(pe'[i][j].isA) + Count(pe'[i][j].inA)
                                          + Count(FromA(i, j)')
                      /\ pe'[i][j].fired <= M
  BY DEF ActsKept
<1> DEFINE p == pe[i][j]
           r == pe'[i][j]
           from == FromA(i, j)
           left == from /\ p.inA
           come == p.inA \/ from
<1>3. /\ SentA(i, j) = p.fired + Count(p.isA) + Count(p.inA) + Count(from)
      /\ r.fired + Count(r.isA) + Count(r.inA) = p.fired + Count(p.isA) + Count(come)
  BY <1>1, AfterPE DEF ActsKept
<1>4. /\ p.fired \in Nat /\ r.fired \in Nat
      /\ p.isA \in BOOLEAN /\ p.inA \in BOOLEAN /\ r.isA \in BOOLEAN /\ r.inA \in BOOLEAN /\ from \in BOOLEAN
  BY <1>1, FieldsOfPE, Ports DEF Types, AtRest, PEState
<1>5. Count(left) + Count(come) = Count(p.inA) + Count(from)
  BY <1>4 DEF Count
<1>6. /\ Count(left) \in 0 .. 1 /\ Count(come) \in 0 .. 1 /\ Count(from) \in 0 .. 1
      /\ Count(p.isA) \in 0 .. 1 /\ Count(p.inA) \in 0 .. 1 /\ Count(r.isA) \in 0 .. 1 /\ Count(r.inA) \in 0 .. 1
  BY <1>4 DEF Count
<1>7. /\ SentA(i, j) <= M
      /\ SentA(i, j)' - Count(FromA(i, j)') = SentA(i, j) - Count(left)
      /\ SentA(i, j)' \in Int /\ Count(FromA(i, j)') \in Int
  <2>1. CASE j = 0
    <3>1. Fed(feed, i) \in 0 .. M /\ Fed(feed', i) \in 0 .. M
      BY <1>1, FedOfRun DEF Types
    <3>2. Fed(feed', i) - Count(feed'.out[i]) = Fed(feed, i) - Count(left)
      BY <1>1, <2>1, AfterFeed DEF FromA
    <3>3. Count(feed'.out[i]) \in Int
      BY DEF Count
    <3>4. QED
      BY <2>1, <3>1, <3>2, <3>3, Indices DEF SentA, FromA
  <2>2. CASE j # 0
    <3>1. j-1 \in Idx /\ j-1 # N-1 /\ (j-1) + 1 = j
      BY <2>2, Indices
    <3>2. Acts(pe'[i][j-1]) - Count(pe'[i][j-1].outA) = Acts(pe[i][j-1]) - Count(left)
      BY <2>2, <3>1, AfterPE DEF FromA, NextA
    <3>3. pe[i][j-1].fired <= M /\ pe[i][j-1].fired \in Nat /\ Acts(pe[i][j-1]) \in 0 .. pe[i][j-1].fired
      BY <1>1, <3>1, FieldsOfPE DEF ActsKept
    <3>4. Acts(pe'[i][j-1]) \in Int /\ Count(pe'[i][j-1].outA) \in Int
      <4>1. pe'[i][j-1].fired \in Nat
        BY <1>1, <3>1 DEF Types, PEState
      <4>2. QED
        BY <4>1 DEF Acts, Count
    <3>5. QED
      BY <2>2, <3>2, <3>3, <3>4, Indices DEF SentA, FromA
  <2>3. QED
    BY <2>1, <2>2
<1> DEFINE sent == SentA(i, j)
           sent2 == SentA(i, j)'
           from2 == Count(FromA(i, j)')
           cl == Count(left)
           cc == Count(come)
           cf == Count(from)
           pa == Count(p.isA)
           pi == Count(p.inA)
           ra == Count(r.isA)
           ri == Count(r.inA)
           pf == p.fired
           rf == r.fired
<1>8. sent = pf + pa + pi + cf /\ rf + ra + ri = pf + pa + cc /\ cl + cc = pi + cf
  BY <1>3, <1>5
<1>9. /\ pf \in Nat /\ rf \in Nat /\ cl \in 0 .. 1 /\ cc \in 0 .. 1 /\ cf \in 0 .. 1
      /\ pa \in 0 .. 1 /\ pi \in 0 .. 1 /\ ra \in 0 .. 1 /\ ri \in 0 .. 1
  BY <1>4, <1>6
<1>10. sent <= M /\ sent2 - from2 = sent - cl /\ sent2 \in Int /\ from2 \in Int
  BY <1>7
<1> HIDE DEF sent, sent2, from2, cl, cc, cf, pa, pi, ra, ri, pf, rf
<1>11. sent2 = rf + ra + ri + from2 /\ rf <= M
  BY <1>8, <1>9, <1>10, Indices
<1>12. QED
  BY <1>11 DEF sent2, rf, ra, ri, from2

-----------------------------------------------------------------------------
(* Sums and outputs are kept. *)

(* The counts of a place are whole numbers, one at most is in a port. *)
LEMMA CountsOfSums ==
    ASSUME Types, SumsKept, NEW i \in Idx, NEW j \in Idx
    PROVE  LET p == pe[i][j]
           IN  /\ Sums(p) \in Nat /\ Through(i, j) \in Nat /\ Gone(i, j) \in Nat
               /\ Sums(p) - Through(i, j) = Count(p.outS) /\ Through(i, j) - Gone(i, j) = Count(NextS(i, j))
               /\ p.outS \in BOOLEAN /\ NextS(i, j) \in BOOLEAN
               /\ Sums(p) <= p.fired /\ p.fired - 1 <= Sums(p) /\ p.fired \in Nat
               /\ p.at = "poll" <=> Sums(p) = p.fired
<1> DEFINE p == pe[i][j]
<1>1. /\ p.at \in {"poll", "act", "accum"} /\ p.outS \in BOOLEAN
      /\ p.fired \in Nat /\ Sums(p) \in 0 .. p.fired
  BY FieldsOfPE
<1>2. NextS(i, j) \in BOOLEAN /\ Gone(i, j) \in Nat
  BY Ports
<1>3. Through(i, j) = Gone(i, j) + Count(NextS(i, j))
  BY DEF SumsKept
<1>4. Through(i, j) = Sums(p) - Count(p.outS)
  BY DEF Through
<1>5. Sums(p) = p.fired - Count(p.at \in {"act", "accum"})
  BY DEF Sums
<1> HIDE DEF p
<1>6. Count(NextS(i, j)) \in 0 .. 1 /\ Count(p.outS) \in 0 .. 1
  BY <1>1, <1>2 DEF Count
<1>7. Sums(p) \in Nat /\ Sums(p) <= p.fired
  BY <1>1
<1>8. p.fired - 1 <= Sums(p) /\ (p.at = "poll" <=> Sums(p) = p.fired)
  BY <1>1, <1>5 DEF Count
<1>9. Through(i, j) \in Nat /\ Through(i, j) - Gone(i, j) = Count(NextS(i, j))
  BY <1>2, <1>3, <1>6
<1>10. Sums(p) - Through(i, j) = Count(p.outS)
  BY <1>4, <1>6, <1>7
<1>11. QED
  BY <1>1, <1>2, <1>7, <1>8, <1>9, <1>10 DEF p

(* Sums between two rows in a cycle. *)
LEMMA AfterSums ==
    ASSUME Inv, NEW newWord, NEW newBeat, NEW room, Cycle({}, newWord, newBeat, room),
           NEW i \in Idx, NEW j \in Idx
    PROVE  LET p == pe[i][j]
           IN  /\ Through(i, j)' = Sums(p) - Count(p.outS /\ NextS(i, j))
               /\ Gone(i, j)' + Count(NextS(i, j)') = Gone(i, j) + Count(NextS(i, j) \/ p.outS)
<1> DEFINE p == pe[i][j]
<1>1. Types
  BY DEF Inv
<1>2. Through(i, j)' = Sums(p) - Count(p.outS /\ NextS(i, j))
  BY AfterPE DEF Through
<1>3. CASE i = N-1
  <2>1. Gone(i, j)' = Taken(bias'[j]) /\ NextS(i, j)' = bias'[j].inS
    BY <1>3 DEF Gone, NextS
  <2>2. Gone(i, j) = Taken(bias[j]) /\ NextS(i, j) = bias[j].inS
    BY <1>3 DEF Gone, NextS
  <2>3. Taken(bias'[j]) + Count(bias'[j].inS) = Taken(bias[j]) + Count(bias[j].inS \/ p.outS)
    BY <1>3, AfterBias
  <2>4. QED
    BY <1>2, <2>1, <2>2, <2>3
<1>4. CASE i # N-1
  <2> DEFINE n == pe[i+1][j]
             m == pe'[i+1][j]
  <2>1. i+1 \in Idx /\ i+1 # 0 /\ (i+1) - 1 = i
    BY <1>4, Indices
  <2>2. Gone(i, j)' = Popped(m) /\ NextS(i, j)' = m.inS
    BY <1>4 DEF Gone, NextS
  <2>3. Gone(i, j) = Popped(n) /\ NextS(i, j) = n.inS
    BY <1>4 DEF Gone, NextS
  <2>4. FromS(i+1, j) = p.outS
    BY <2>1 DEF FromS
  <2>5. m.fired + Count(m.isS) + Count(m.inS) = n.fired + Count(n.isS) + Count(n.inS \/ p.outS)
    BY <2>1, <2>4, AfterPE
  <2>6. Popped(m) = m.fired + Count(m.isS) /\ Popped(n) = n.fired + Count(n.isS)
    BY DEF Popped
  <2>7. QED
    BY <1>2, <2>2, <2>3, <2>5, <2>6
<1>5. QED
  BY <1>3, <1>4

(* No sum is lost between two rows. *)
LEMMA SumsStay ==
    ASSUME Inv, NEW newWord, NEW newBeat, NEW room, Cycle({}, newWord, newBeat, room)
    PROVE  SumsKept'
<1>1. Types /\ Types' /\ SumsKept
  BY TypesStay DEF Inv
<1>2. SUFFICES ASSUME NEW i \in Idx, NEW j \in Idx
               PROVE  Through(i, j)' = Gone(i, j)' + Count(NextS(i, j)')
  BY DEF SumsKept
<1> DEFINE out == pe[i][j].outS
           in == NextS(i, j)
           sums == Sums(pe[i][j])
<1>3. sums - Through(i, j) = Count(out) /\ Through(i, j) - Gone(i, j) = Count(in)
  BY <1>1, CountsOfSums
<1>4. sums \in Nat /\ Through(i, j) \in Nat /\ Gone(i, j) \in Nat /\ out \in BOOLEAN /\ in \in BOOLEAN
  BY <1>1, CountsOfSums
<1>5. Through(i, j)' = sums - Count(out /\ in)
  BY AfterSums
<1>6. Gone(i, j)' + Count(NextS(i, j)') = Gone(i, j) + Count(in \/ out)
  BY AfterSums
<1> HIDE DEF out, in, sums
<1>7. Count(out /\ in) + Count(in \/ out) = Count(out) + Count(in)
  BY <1>4 DEF Count
<1>8. Count(out /\ in) \in Nat /\ Count(in \/ out) \in Nat
  BY DEF Count
<1>9. QED
  BY <1>3, <1>4, <1>5, <1>6, <1>7, <1>8

(* No output is lost between SysBias and WriteReqRun. *)
LEMMA OutputsStay ==
    ASSUME Inv, NEW newWord, NEW newBeat, NEW room, Cycle({}, newWord, newBeat, room)
    PROVE  OutputsKept'
<1>1. Types /\ OutputsKept
  BY DEF Inv
<1>2. SUFFICES ASSUME NEW j \in Idx
               PROVE  Shown(j)' = collect'.ctr[j] + Count(collect'.in[j])
  BY DEF OutputsKept
<1> DEFINE out == bias[j].out
           in == collect.in[j]
           made == bias[j].made
           ctr == collect.ctr[j]
<1>3. Shown(j)' = made - Count(out /\ in)
  BY AfterBias DEF Shown
<1>4. collect'.ctr[j] + Count(collect'.in[j]) = ctr + Count(in \/ out)
  BY <1>1, AfterCollect
<1>5. made - Count(out) = ctr + Count(in)
  BY <1>1 DEF OutputsKept, Shown
<1>6. made \in Nat /\ ctr \in Nat /\ out \in BOOLEAN /\ in \in BOOLEAN
  BY <1>1, FieldsOfBias DEF Types, CollectState
<1> HIDE DEF out, in, made, ctr
<1>7. Count(out /\ in) + Count(in \/ out) = Count(out) + Count(in)
  BY <1>6 DEF Count
<1>8. Count(out /\ in) \in Nat /\ Count(in \/ out) \in Nat /\ Count(out) \in Nat /\ Count(in) \in Nat
  BY DEF Count
<1>9. QED
  BY <1>3, <1>4, <1>5, <1>6, <1>7, <1>8

(* A product needs an activation that was there, and a sum too. *)
LEMMA ProductNeedsAct ==
    ASSUME Inv, NEW newWord, NEW newBeat, NEW room, Cycle({}, newWord, newBeat, room),
           NEW i \in Idx, NEW j \in Idx
    PROVE  pe'[i][j].fired <= SentA(i, j) /\ pe'[i][j].fired \in Nat /\ SentA(i, j) \in Nat
<1> DEFINE p == pe[i][j]
           r == pe'[i][j]
           from == FromA(i, j)
<1>1. Types /\ Types' /\ ActsKept
  BY TypesStay DEF Inv
<1>2. /\ SentA(i, j) = p.fired + Count(p.isA) + Count(p.inA) + Count(from)
      /\ r.fired + Count(r.isA) + Count(r.inA) = p.fired + Count(p.isA) + Count(p.inA \/ from)
  BY <1>1, AfterPE DEF ActsKept
<1>3. p.fired \in Nat /\ r.fired \in Nat /\ p.inA \in BOOLEAN /\ from \in BOOLEAN
  BY <1>1, FieldsOfPE, Ports DEF Types, AtRest, PEState
<1> HIDE DEF p, r, from
<1>4. /\ Count(p.inA \/ from) <= Count(p.inA) + Count(from) /\ Count(p.inA \/ from) \in Nat
      /\ Count(p.inA) \in Nat /\ Count(from) \in Nat /\ Count(p.isA) \in Nat
      /\ Count(r.isA) \in Nat /\ Count(r.inA) \in Nat
  BY <1>3 DEF Count
<1>5. QED
  BY <1>2, <1>3, <1>4 DEF r

(* The sum came from the PE above. *)
LEMMA ProductNeedsSum ==
    ASSUME Inv, NEW newWord, NEW newBeat, NEW room, Cycle({}, newWord, newBeat, room),
           NEW i \in Idx, NEW j \in Idx, i # N-1
    PROVE  pe'[i+1][j].fired <= Sums(pe[i][j])
<1>1. Types /\ Types' /\ SumsKept
  BY TypesStay DEF Inv
<1> DEFINE out == pe[i][j].outS
           in == NextS(i, j)
           sums == Sums(pe[i][j])
<1>2. i+1 \in Idx /\ pe'[i+1][j].fired \in Nat
  BY <1>1, Indices DEF Types, PEState
<1>3. Gone(i, j)' = pe'[i+1][j].fired + Count(pe'[i+1][j].isS)
  BY DEF Gone, Popped
<1>4. Gone(i, j)' + Count(NextS(i, j)') = Gone(i, j) + Count(in \/ out)
  BY AfterSums
<1>5. sums - Through(i, j) = Count(out) /\ Through(i, j) - Gone(i, j) = Count(in)
  BY <1>1, CountsOfSums
<1>6. sums \in Nat /\ Through(i, j) \in Nat /\ Gone(i, j) \in Nat /\ out \in BOOLEAN /\ in \in BOOLEAN
  BY <1>1, CountsOfSums
<1> HIDE DEF out, in, sums
<1>7. Count(in \/ out) <= Count(in) + Count(out) /\ Count(in \/ out) \in Nat /\ Count(in) \in Nat /\ Count(out) \in Nat
  BY <1>6 DEF Count
<1>8. Count(NextS(i, j)') \in Nat /\ Count(pe'[i+1][j].isS) \in Nat
  BY DEF Count
<1>9. QED
  BY <1>2, <1>3, <1>4, <1>5, <1>6, <1>7, <1>8 DEF sums

-----------------------------------------------------------------------------
(* Words stay ahead, the upper row stays ahead. *)

(* No product is due while a word is under way: the load is complete. *)
LEMMA WordsFirstStay ==
    ASSUME Inv, NEW newWord, NEW newBeat, NEW room, Cycle({}, newWord, newBeat, room)
    PROVE  WordsFirst'
<1>1. Types /\ Types' /\ WordsKept /\ WordsKept' /\ SumsKept /\ WordsFirst
  BY TypesStay, WordsStay DEF Inv
<1>2. feed.beat \in Nat /\ feed'.beat \in Nat
  BY <1>1, Indices DEF Types, InFeed, FeedState, LastBeat
<1>3. weight.col = N /\ weight'.col = N
  BY <1>1 DEF Types, WeightState
<1>4. feed'.beat > 0 => Loaded
  BY <1>1, AfterFeed DEF WordsFirst
<1>5. feed'.beat > 0 => Loaded' /\ \A j \in Idx : ~weight'.out[j]
  BY <1>1, <1>3, <1>4, AfterWeight DEF Loaded
<1>6. feed.beat > 0 => feed'.beat > 0
  <2>1. ASSUME feed.beat > 0, feed'.beat = 0 PROVE FALSE
    <3>1. feed' = ReadRspRun(newBeat)
      BY DEF Cycle
    <3>2. feed'.beat = feed.beat \/ feed'.beat = feed.beat + 1 \/ feed'.beat = feed.beat - 1 + 1
      BY <1>1, <3>1 DEF ReadRspRun, Types, InFeed, FeedState
    <3>3. QED
      BY <1>2, <2>1, <3>2
  <2>2. QED
    BY <1>2, <2>1
<1>7. ASSUME NEW i \in Idx, NEW j \in Idx, pe'[i][j].fired > 0
      PROVE  feed'.beat > 0 /\ pe'[i][j].recv = N + 1 /\ ~pe'[i][j].outW
  <2> DEFINE p == pe[i][j]
             r == pe'[i][j]
  <2>1. /\ r.recv = p.recv + Count(FromW(i, j)) /\ r.outW = FromW(i, j)
        /\ p.recv \in Nat /\ p.fired \in Nat /\ FromW(i, j) \in BOOLEAN
    BY <1>1, AfterPE, FieldsOfPE, Ports
  <2>2. SentA(i, j) > 0
    BY <1>7, ProductNeedsAct
  <2>3. feed.beat > 0
    <3>1. CASE j = 0
      <4>1. Fed(feed, i) > 0
        BY <2>2, <3>1 DEF SentA
      <4>2. ASSUME feed.beat = 0 PROVE Fed(feed, i) = 0
        <5>1. feed.row \in 0 .. N /\ i \in Nat
          BY <1>1, Indices DEF Types, InFeed, FeedState
        <5>2. QED
          BY <4>2, <5>1, Indices DEF Fed, Share
      <4>3. QED
        BY <1>2, <4>1, <4>2
    <3>2. CASE j # 0
      <4>1. j-1 \in Idx /\ SentA(i, j) = Acts(pe[i][j-1])
        BY <3>2, Indices DEF SentA
      <4>2. pe[i][j-1].fired \in Nat /\ Acts(pe[i][j-1]) \in 0 .. pe[i][j-1].fired
        BY <1>1, <4>1, FieldsOfPE
      <4>3. pe[i][j-1].fired > 0
        BY <2>2, <4>1, <4>2
      <4>4. QED
        BY <1>1, <4>1, <4>3 DEF WordsFirst
    <3>3. QED
      BY <3>1, <3>2
  <2>4. SentW(i, j) = N + 1 /\ ~FromW(i, j)
    <3>1. CASE i = 0
      <4>1. Loaded /\ ~weight.out[j]
        BY <1>1, <2>3 DEF WordsFirst
      <4>2. weight.beat = LoadLength
        BY <4>1 DEF Loaded, LoadLength, Beats
      <4>3. Words(weight, j) = N + 1
        BY <1>1, <4>2, WordsOfLoad DEF Types
      <4>4. QED
        BY <3>1, <4>1, <4>3 DEF SentW, FromW
    <3>2. CASE i # 0
      <4>1. i-1 \in Idx /\ i-1 # N-1 /\ (i-1) + 1 = i
        BY <3>2, Indices
      <4>2. pe'[i][j].fired <= Sums(pe[i-1][j]) /\ pe'[i][j].fired \in Nat
        BY <4>1, ProductNeedsSum, ProductNeedsAct
      <4>3. pe[i-1][j].fired \in Nat /\ Sums(pe[i-1][j]) \in 0 .. pe[i-1][j].fired
        BY <1>1, <4>1, FieldsOfPE
      <4>4. pe[i-1][j].fired > 0
        BY <1>7, <4>2, <4>3
      <4>5. pe[i-1][j].recv = N + 1 /\ ~pe[i-1][j].outW
        BY <1>1, <4>1, <4>4 DEF WordsFirst
      <4>6. QED
        BY <3>2, <4>5 DEF SentW, FromW
    <3>3. QED
      BY <3>1, <3>2
  <2>5. p.recv = N + 1
    BY <1>1, <2>1, <2>4 DEF WordsKept, Count
  <2>6. QED
    BY <1>6, <2>1, <2>3, <2>4, <2>5 DEF Count
<1>8. QED
  BY <1>5, <1>7 DEF WordsFirst

(* The sum of a product has gone through every row above. *)
LEMMA UpperFirstStays ==
    ASSUME Inv, NEW newWord, NEW newBeat, NEW room, Cycle({}, newWord, newBeat, room)
    PROVE  UpperFirst'
<1>1. Types /\ UpperFirst
  BY DEF Inv
<1>2. SUFFICES ASSUME NEW i \in Idx, NEW k \in Idx, NEW j \in Idx, i < k
               PROVE  pe'[k][j].fired <= Sums(pe'[i][j])
  BY DEF UpperFirst
<1>3. k-1 \in Idx /\ k-1 # N-1 /\ (k-1) + 1 = k /\ i <= k-1 /\ i \in Nat
  BY <1>2, Indices
<1>4. pe'[k][j].fired <= Sums(pe[k-1][j]) /\ pe'[k][j].fired \in Nat
  BY <1>3, ProductNeedsSum, ProductNeedsAct
<1>5. Sums(pe[k-1][j]) <= Sums(pe[i][j])
  <2>1. CASE i = k-1
    <3>1. Sums(pe[k-1][j]) \in 0 .. pe[k-1][j].fired /\ pe[k-1][j].fired \in Nat
      BY <1>1, <1>3, FieldsOfPE
    <3>2. QED
      BY <2>1, <3>1
  <2>2. CASE i # k-1
    <3>1. pe[k-1][j].fired <= Sums(pe[i][j])
      BY <1>1, <1>3, <2>2 DEF UpperFirst
    <3>2. /\ Sums(pe[k-1][j]) \in 0 .. pe[k-1][j].fired /\ pe[k-1][j].fired \in Nat
          /\ Sums(pe[i][j]) \in 0 .. pe[i][j].fired /\ pe[i][j].fired \in Nat
      BY <1>1, <1>3, FieldsOfPE
    <3>3. QED
      BY <3>1, <3>2
  <2>3. QED
    BY <2>1, <2>2
<1>6. Sums(pe'[i][j]) >= Sums(pe[i][j])
  BY AfterPE
<1>7. /\ Sums(pe[k-1][j]) \in Int /\ Sums(pe[i][j]) \in Int /\ Sums(pe'[i][j]) \in Int
  <2>1. Types'
    BY TypesStay
  <2>2. pe[i][j].fired \in Nat /\ pe[k-1][j].fired \in Nat /\ pe'[i][j].fired \in Nat
    BY <1>1, <1>3, <2>1 DEF Types, PEState
  <2>3. QED
    BY <2>2 DEF Sums, Count
<1>8. QED
  BY <1>4, <1>5, <1>6, <1>7

(* WriteReqRun is done when the last column is complete. *)
LEMMA LastStaysDone ==
    ASSUME Inv, NEW newWord, NEW newBeat, NEW room, Cycle({}, newWord, newBeat, room)
    PROVE  LastDone'
<1>1. Types /\ LastDone
  BY DEF Inv
<1>2. ASSUME collect.at = "done" PROVE collect'.ctr[N-1] = M
  <2>1. N-1 \in Idx /\ collect.ctr[N-1] = M /\ M \in Nat
    BY <1>1, <1>2, Indices DEF LastDone
  <2>2. collect'.ctr[N-1] = collect.ctr[N-1] + 0
    BY <1>1, <1>2, <2>1, AfterCollect
  <2>3. QED
    BY <2>1, <2>2
<1>3. QED
  BY <1>1, <1>2, AfterCollect DEF LastDone

-----------------------------------------------------------------------------
(* What is through a port, and what is taken there, in column order. *)

(* A message goes through a port as soon as the port behind it is free:     *)
(* s have been put there, t are through, g have been taken.                 *)
Passed(s, t, g) == IF t > g THEN t ELSE s

(* It is in order if what it is made of is. *)
LEMMA PassedOrder ==
    \A s, t, g, s2, t2, g2 \in Nat :
        /\ s - t \in 0 .. 1 /\ t - g \in 0 .. 1 /\ s2 - t2 \in 0 .. 1 /\ t2 - g2 \in 0 .. 1
        /\ s <= s2 /\ t <= t2 /\ g <= g2
        => Passed(s, t, g) <= Passed(s2, t2, g2)
BY DEF Passed

(* Whoever polls takes a message that is there, u in all, unless he has one *)
(* left over: f have been dealt with, s brought to an end, g taken.         *)
Polled(f, s, g, u) == IF s # f THEN g ELSE IF u > f THEN f + 1 ELSE f

(* This too is in order. *)
LEMMA PolledOrder ==
    \A f, s, g, u, f2, s2, g2, u2 \in Nat :
        /\ f - s \in 0 .. 1 /\ g - f \in 0 .. 1 /\ g <= u
        /\ f2 - s2 \in 0 .. 1 /\ g2 - f2 \in 0 .. 1 /\ g2 <= u2
        /\ f <= f2 /\ s <= s2 /\ g <= g2 /\ u <= u2
        => Polled(f, s, g, u) <= Polled(f2, s2, g2, u2)
BY DEF Polled

(* What is through a port after the cycle, and what has been taken there.   *)
LEMMA ThroughIs ==
    ASSUME Inv, NEW newWord, NEW newBeat, NEW room, Cycle({}, newWord, newBeat, room),
           NEW i \in Idx, NEW j \in Idx
    PROVE  /\ Through(i, j)' = Passed(Sums(pe[i][j]), Through(i, j), Gone(i, j))
           /\ Through(i, j)' \in Nat /\ Gone(i, j) <= Through(i, j)' /\ Through(i, j)' <= Sums(pe[i][j])
           /\ Through(i, j)' = Gone(i, j) + Count(NextS(i, j) \/ pe[i][j].outS)
<1> DEFINE out == pe[i][j].outS
           in == NextS(i, j)
           sums == Sums(pe[i][j])
<1>1. Types /\ SumsKept
  BY DEF Inv
<1>2. sums - Through(i, j) = Count(out) /\ Through(i, j) - Gone(i, j) = Count(in)
  BY <1>1, CountsOfSums
<1>3. sums \in Nat /\ Through(i, j) \in Nat /\ Gone(i, j) \in Nat /\ out \in BOOLEAN /\ in \in BOOLEAN
  BY <1>1, CountsOfSums
<1>4. Through(i, j)' = sums - Count(out /\ in)
  BY AfterSums
<1> HIDE DEF out, in, sums
<1>5. CASE out /\ in
  BY <1>2, <1>3, <1>4, <1>5 DEF Count, Passed, out, in, sums
<1>6. CASE out /\ ~in
  BY <1>2, <1>3, <1>4, <1>6 DEF Count, Passed, out, in, sums
<1>7. CASE ~out /\ in
  BY <1>2, <1>3, <1>4, <1>7 DEF Count, Passed, out, in, sums
<1>8. CASE ~out /\ ~in
  <2>1. Count(out) = 0 /\ Count(in) = 0 /\ Count(out /\ in) = 0 /\ Count(in \/ out) = 0
    BY <1>8 DEF Count
  <2>2. Through(i, j)' = sums /\ Through(i, j) = sums /\ Gone(i, j) = sums
    BY <1>2, <1>3, <1>4, <2>1
  <2>3. QED
    BY <1>3, <2>1, <2>2 DEF Passed, out, in, sums
<1>9. QED
  BY <1>3, <1>5, <1>6, <1>7, <1>8

(* Sums go through the ports from left to right. *)
LEMMA ThroughInOrder ==
    ASSUME Inv, NEW newWord, NEW newBeat, NEW room, Cycle({}, newWord, newBeat, room),
           NEW i \in Idx, NEW j \in Idx, NEW k \in Idx, j < k
    PROVE  Through(i, k)' <= Through(i, j)'
<1>1. Types /\ SumsKept /\ LeftFirst
  BY DEF Inv
<1>2. Sums(pe[i][k]) <= Sums(pe[i][j]) /\ Through(i, k) <= Through(i, j) /\ Gone(i, k) <= Gone(i, j)
  BY <1>1 DEF LeftFirst
<1>3. ASSUME NEW c \in Idx
      PROVE  /\ Sums(pe[i][c]) \in Nat /\ Through(i, c) \in Nat /\ Gone(i, c) \in Nat
             /\ Sums(pe[i][c]) - Through(i, c) \in 0 .. 1 /\ Through(i, c) - Gone(i, c) \in 0 .. 1
  <2>1. Count(pe[i][c].outS) \in 0 .. 1 /\ Count(NextS(i, c)) \in 0 .. 1
    BY DEF Count
  <2>2. QED
    BY <1>1, <2>1, CountsOfSums
<1>4. Passed(Sums(pe[i][k]), Through(i, k), Gone(i, k)) <= Passed(Sums(pe[i][j]), Through(i, j), Gone(i, j))
  BY <1>2, <1>3, PassedOrder
<1>5. QED
  BY <1>4, ThroughIs

(* The PE below polls. *)
LEMMA PEPolls ==
    ASSUME Inv, NEW newWord, NEW newBeat, NEW room, Cycle({}, newWord, newBeat, room),
           NEW i \in Idx, NEW j \in Idx, i # N-1
    PROVE  LET n == pe[i+1][j]
           IN  /\ Gone(i, j)' = Polled(n.fired, Sums(n), Gone(i, j), Through(i, j)')
               /\ n.fired - Sums(n) \in 0 .. 1 /\ Gone(i, j) - n.fired \in 0 .. 1
               /\ n.fired \in Nat /\ Sums(n) \in Nat
<1> DEFINE n == pe[i+1][j]
           m == pe'[i+1][j]
           out == pe[i][j].outS
           u == Through(i, j)'
<1>1. Types /\ SumsKept
  BY DEF Inv
<1>2. i+1 \in Idx /\ i+1 # 0 /\ (i+1) - 1 = i
  BY Indices
<1>3. /\ Sums(n) \in Nat /\ Sums(n) <= n.fired /\ n.fired - 1 <= Sums(n) /\ n.fired \in Nat
      /\ n.at = "poll" <=> Sums(n) = n.fired
  BY <1>1, <1>2, CountsOfSums
<1>4. n.isS \in BOOLEAN /\ n.inS \in BOOLEAN /\ out \in BOOLEAN
  BY <1>1, <1>2, FieldsOfPE
<1>5. Popped(m) = IF n.at = "poll" THEN n.fired + Count(n.isS \/ (n.inS \/ FromS(i+1, j))) ELSE Popped(n)
  BY <1>2, AfterPE
<1>6. FromS(i+1, j) = out
  BY <1>2 DEF FromS
<1>7. Gone(i, j)' = Popped(m) /\ Gone(i, j) = Popped(n) /\ NextS(i, j) = n.inS
  BY DEF Gone, NextS
<1>8. Popped(n) = n.fired + Count(n.isS)
  BY DEF Popped
<1>9. u = Popped(n) + Count(n.inS \/ out)
  BY <1>7, ThroughIs
<1> HIDE DEF n, m, out, u
<1>10. CASE n.at = "poll"
  <2>1. Popped(m) = n.fired + Count(n.isS \/ (n.inS \/ out))
    BY <1>5, <1>6, <1>10
  <2>2. Popped(m) = IF u > n.fired THEN n.fired + 1 ELSE n.fired
    BY <1>3, <1>4, <1>8, <1>9, <2>1 DEF Count
  <2>3. QED
    BY <1>3, <1>7, <1>8, <1>10, <2>2 DEF Polled, Count, n, u
<1>11. CASE n.at # "poll"
  <2>1. Popped(m) = Popped(n) /\ Sums(n) # n.fired
    BY <1>3, <1>5, <1>11
  <2>2. QED
    BY <1>3, <1>7, <1>8, <2>1 DEF Polled, Count, n, u
<1>12. QED
  BY <1>10, <1>11

(* The bias polls: it takes the sum when the last output is out. *)
LEMMA BiasPolls ==
    ASSUME Inv, NEW newWord, NEW newBeat, NEW room, Cycle({}, newWord, newBeat, room), NEW j \in Idx
    PROVE  LET b == bias[j]
           IN  /\ Gone(N-1, j)' = IF Gone(N-1, j) = b.made THEN Through(N-1, j)' ELSE Gone(N-1, j)
               /\ Gone(N-1, j) - b.made \in 0 .. 1 /\ b.made \in Nat
<1> DEFINE b == bias[j]
           out == pe[N-1][j].outS
           u == Through(N-1, j)'
<1>1. Types /\ SumsKept /\ N-1 \in Idx
  BY Indices DEF Inv
<1>2. Gone(N-1, j)' = Taken(bias'[j]) /\ Gone(N-1, j) = Taken(b) /\ NextS(N-1, j) = b.inS
  BY DEF Gone, NextS
<1>3. b.at \in {"poll", "push"} /\ b.made \in Nat /\ b.inS \in BOOLEAN
  BY <1>1, FieldsOfBias
<1>4. u = Taken(b) + Count(b.inS \/ out)
  BY <1>1, <1>2, ThroughIs
<1>5. Taken(bias'[j]) = IF b.at = "poll" THEN b.made + Count(b.inS \/ out) ELSE Taken(b)
  BY AfterBias
<1>6. Taken(b) = b.made + Count(b.at = "push")
  BY DEF Taken
<1> HIDE DEF b, out, u
<1>7. CASE b.at = "poll"
  <2>1. Taken(b) = b.made
    BY <1>3, <1>6, <1>7 DEF Count
  <2>2. QED
    BY <1>2, <1>3, <1>4, <1>5, <1>7, <2>1 DEF b, u
<1>8. CASE b.at = "push"
  <2>1. Taken(b) = b.made + 1
    BY <1>6, <1>8 DEF Count
  <2>2. QED
    BY <1>2, <1>3, <1>5, <1>8, <2>1 DEF b, u
<1>9. QED
  BY <1>3, <1>7, <1>8

(* Sums are taken from left to right, by PEs and biases alike. *)
LEMMA GoneInOrder ==
    ASSUME Inv, NEW newWord, NEW newBeat, NEW room, Cycle({}, newWord, newBeat, room),
           NEW i \in Idx, NEW j \in Idx, NEW k \in Idx, j < k
    PROVE  Gone(i, k)' <= Gone(i, j)'
<1>1. Types /\ SumsKept /\ LeftFirst
  BY DEF Inv
<1>2. Through(i, k)' <= Through(i, j)' /\ Gone(i, k) <= Gone(i, j)
  BY <1>1, ThroughInOrder DEF LeftFirst
<1>3. \A c \in Idx : Through(i, c)' \in Nat /\ Gone(i, c) <= Through(i, c)'
  BY ThroughIs
<1>4. \A c \in Idx : Gone(i, c) \in Nat
  BY <1>1, CountsOfSums
<1>5. CASE i # N-1
  <2> DEFINE f(c) == pe[i+1][c].fired
             s(c) == Sums(pe[i+1][c])
  <2>1. i+1 \in Idx
    BY <1>5, Indices
  <2>2. ASSUME NEW c \in Idx
        PROVE  /\ Gone(i, c)' = Polled(f(c), s(c), Gone(i, c), Through(i, c)')
               /\ f(c) - s(c) \in 0 .. 1 /\ Gone(i, c) - f(c) \in 0 .. 1 /\ f(c) \in Nat /\ s(c) \in Nat
    BY <1>5, PEPolls
  <2>3. f(k) <= f(j) /\ s(k) <= s(j)
    <3>1. f(k) <= Acts(pe[i+1][j]) /\ s(k) <= s(j)
      BY <1>1, <2>1 DEF LeftFirst
    <3>2. Acts(pe[i+1][j]) \in 0 .. f(j) /\ f(j) \in Nat
      BY <1>1, <2>1, FieldsOfPE
    <3>3. f(k) \in Nat
      BY <2>2
    <3>4. QED
      BY <3>1, <3>2, <3>3
  <2> HIDE DEF f, s
  <2>4. Polled(f(k), s(k), Gone(i, k), Through(i, k)') <= Polled(f(j), s(j), Gone(i, j), Through(i, j)')
    BY <1>2, <1>3, <1>4, <2>2, <2>3, PolledOrder
  <2>5. QED
    BY <2>2, <2>4
<1>6. CASE i = N-1
  <2>1. ASSUME NEW c \in Idx
        PROVE  /\ Gone(i, c)' = IF Gone(i, c) = bias[c].made THEN Through(i, c)' ELSE Gone(i, c)
               /\ Gone(i, c) - bias[c].made \in 0 .. 1 /\ bias[c].made \in Nat
               /\ Through(i, c)' <= Gone(i, c) + 1
    <3>1. Through(i, c)' = Gone(i, c) + Count(NextS(i, c) \/ pe[i][c].outS)
      BY ThroughIs
    <3>2. Count(NextS(i, c) \/ pe[i][c].outS) \in 0 .. 1
      BY DEF Count
    <3>3. QED
      BY <1>4, <1>6, <3>1, <3>2, BiasPolls
  <2>2. bias[k].made <= bias[j].made
    BY <1>1 DEF LeftFirst
  <2>3. QED
    BY <1>2, <1>3, <1>4, <2>1, <2>2
<1>7. QED
  BY <1>5, <1>6

-----------------------------------------------------------------------------
(* Columns stay in order. *)

(* The activation of a product has gone through every column on the left.   *)
LEMMA ActsInOrder ==
    ASSUME Inv, NEW newWord, NEW newBeat, NEW room, Cycle({}, newWord, newBeat, room),
           NEW i \in Idx, NEW j \in Idx, NEW k \in Idx, j < k
    PROVE  pe'[i][k].fired <= Acts(pe[i][j]) /\ Acts(pe[i][j]) <= Acts(pe'[i][j])
<1>1. Types /\ Types' /\ LeftFirst
  BY TypesStay DEF Inv
<1>2. k-1 \in Idx /\ k # 0 /\ j <= k-1 /\ j \in Nat
  BY Indices
<1>3. pe'[i][k].fired <= Acts(pe[i][k-1]) /\ pe'[i][k].fired \in Nat
  BY <1>2, ProductNeedsAct DEF SentA
<1>4. /\ Acts(pe[i][k-1]) \in 0 .. pe[i][k-1].fired /\ pe[i][k-1].fired \in Nat
      /\ Acts(pe[i][j]) \in 0 .. pe[i][j].fired /\ pe[i][j].fired \in Nat
  BY <1>1, <1>2, FieldsOfPE
<1>5. j = k-1 \/ pe[i][k-1].fired <= Acts(pe[i][j])
  <2>1. ASSUME j # k-1 PROVE pe[i][k-1].fired <= Acts(pe[i][j])
    <3>1. j < k-1
      BY <1>2, <2>1
    <3>2. QED
      BY <1>1, <1>2, <3>1 DEF LeftFirst
  <2>2. QED
    BY <2>1
<1>6. Acts(pe[i][j]) <= Acts(pe'[i][j])
  <2>1. Acts(pe'[i][j]) >= Acts(pe[i][j])
    BY AfterPE
  <2>2. pe'[i][j].fired \in Nat
    BY <1>1 DEF Types, PEState
  <2>3. Acts(pe'[i][j]) \in Int
    BY <2>2 DEF Acts, Count
  <2>4. QED
    BY <1>4, <2>1, <2>3
<1>7. pe'[i][k].fired <= Acts(pe[i][j])
  <2>1. CASE j = k-1
    BY <1>3, <2>1
  <2>2. CASE pe[i][k-1].fired <= Acts(pe[i][j])
    BY <1>3, <1>4, <2>2
  <2>3. QED
    BY <1>5, <2>1, <2>2
<1>8. QED
  BY <1>6, <1>7

(* Sums are finished from left to right: the left PE has the activation     *)
(* first, and its port is free no later.                                    *)
LEMMA SumsInOrder ==
    ASSUME Inv, NEW newWord, NEW newBeat, NEW room, Cycle({}, newWord, newBeat, room),
           NEW i \in Idx, NEW j \in Idx, NEW k \in Idx, j < k
    PROVE  Sums(pe'[i][k]) <= Sums(pe'[i][j])
<1> DEFINE s(c) == Sums(pe[i][c])
           z(c) == Sums(pe'[i][c])
           t(c) == Through(i, c)'
           a == Acts(pe[i][j])
<1>1. Types /\ Types' /\ SumsKept /\ LeftFirst
  BY TypesStay DEF Inv
<1>2. ASSUME NEW c \in Idx
      PROVE  /\ s(c) \in Nat /\ z(c) \in Nat /\ t(c) \in Nat /\ t(c) <= s(c)
             /\ s(c) <= z(c) /\ z(c) <= t(c) + 1
  <2>1. s(c) \in Nat
    BY <1>1, CountsOfSums
  <2>2. z(c) \in 0 .. pe'[i][c].fired /\ pe'[i][c].fired \in Nat
    <3>1. AtRest(pe'[i][c]) /\ pe'[i][c] \in PEState
      BY AfterPE DEF AtRest
    <3>2. pe'[i][c].fired \in Nat /\ (pe'[i][c].at # "poll" => pe'[i][c].fired > 0)
      BY <3>1 DEF AtRest, PEState
    <3>3. QED
      BY <3>2 DEF Sums, Count
  <2>3. t(c) \in Nat /\ t(c) <= s(c)
    BY ThroughIs
  <2>4. s(c) <= z(c)
    <3>1. z(c) >= s(c)
      BY AfterPE
    <3>2. QED
      BY <2>1, <2>2, <3>1
  <2>5. t(c) = z(c) - Count(pe'[i][c].outS)
    BY DEF Through
  <2>6. Count(pe'[i][c].outS) \in 0 .. 1
    BY DEF Count
  <2>7. QED
    BY <2>1, <2>2, <2>3, <2>4, <2>5, <2>6
<1>3. s(k) <= s(j) /\ t(k) <= t(j)
  BY <1>1, ThroughInOrder DEF LeftFirst
<1>4. z(k) <= a /\ a \in Nat
  <2>1. pe'[i][k].fired <= a /\ pe'[i][k].fired \in Nat
    BY ActsInOrder, ProductNeedsAct
  <2>2. z(k) <= pe'[i][k].fired
    BY <2>1 DEF Sums, Count
  <2>3. a \in 0 .. pe[i][j].fired /\ pe[i][j].fired \in Nat
    BY <1>1, FieldsOfPE
  <2>4. QED
    BY <1>2, <2>1, <2>2, <2>3
<1>5. a > s(j) /\ t(j) = s(j) => z(j) = s(j) + 1
  <2>1. ASSUME a > s(j), t(j) = s(j) PROVE z(j) = s(j) + 1
    <3>1. pe[i][j].fired \in Nat /\ pe[i][j].at \in {"poll", "act", "accum"}
      BY <1>1, FieldsOfPE
    <3>2. pe[i][j].at = "accum"
      BY <2>1, <3>1 DEF Acts, Sums, Count
    <3>3. t(j) = s(j) - Count(pe[i][j].outS /\ NextS(i, j))
      BY AfterSums
    <3>4. ~(pe[i][j].outS /\ NextS(i, j))
      BY <1>2, <2>1, <3>3 DEF Count
    <3>5. QED
      BY <3>2, <3>4, AfterPE
  <2>2. QED
    BY <2>1
<1> HIDE DEF s, z, t, a
<1>6. z(k) <= z(j)
  BY <1>2, <1>3, <1>4, <1>5
<1>7. QED
  BY <1>6 DEF z

(* The outputs of a column: an output goes through its port like a sum, and *)
(* a column gives one whenever its port is free and a sum has been taken.   *)
LEMMA OutputsInOrder ==
    ASSUME Inv, NEW newWord, NEW newBeat, NEW room, Cycle({}, newWord, newBeat, room),
           NEW j \in Idx, NEW k \in Idx, j < k
    PROVE  /\ Shown(k)' <= Shown(j)' /\ bias'[k].made <= bias'[j].made
           /\ collect'.ctr[k] <= collect'.ctr[j]
<1> DEFINE made(c) == bias[c].made
           shown(c) == Shown(c)
           ctr(c) == collect.ctr[c]
           in(c) == collect.in[c]
           out(c) == bias[c].out
           made2(c) == bias'[c].made
           shown2(c) == Shown(c)'
           ctr2(c) == collect'.ctr[c]
           taken2(c) == Gone(N-1, c)'
<1>1. Types /\ Types' /\ SumsKept /\ OutputsKept /\ LeftFirst /\ N-1 \in Idx
  BY TypesStay, Indices DEF Inv
<1>2. ASSUME NEW c \in Idx
      PROVE  /\ made(c) \in Nat /\ shown(c) \in Nat /\ ctr(c) \in Nat
             /\ made(c) - shown(c) \in 0 .. 1 /\ shown(c) - ctr(c) \in 0 .. 1
             /\ shown2(c) = Passed(made(c), shown(c), ctr(c))
             /\ made2(c) = (IF made(c) > shown2(c) THEN made(c) ELSE taken2(c))
             /\ ctr2(c) = (IF collect.at = "poll" THEN shown2(c) ELSE ctr(c))
             /\ made(c) <= taken2(c) /\ taken2(c) <= made(c) + 1 /\ taken2(c) \in Nat
  <2>1. made(c) \in Nat /\ ctr(c) \in Nat /\ in(c) \in BOOLEAN /\ out(c) \in BOOLEAN
    BY <1>1, FieldsOfBias DEF Types, CollectState
  <2>2. shown(c) = (IF out(c) THEN made(c) - 1 ELSE made(c)) /\ shown(c) = (IF in(c) THEN ctr(c) + 1 ELSE ctr(c))
    BY <1>1, <2>1 DEF Shown, OutputsKept, Count
  <2>3. shown2(c) = IF out(c) /\ in(c) THEN made(c) - 1 ELSE made(c)
    BY <2>1, AfterBias DEF Shown, Count
  <2>4. made2(c) = IF out(c) /\ in(c) THEN made(c) ELSE taken2(c)
    BY AfterBias DEF Gone
  <2>5. ctr2(c) = IF collect.at = "poll" /\ (in(c) \/ out(c)) THEN ctr(c) + 1 ELSE ctr(c)
    BY <1>1, <2>1, AfterCollect DEF Count
  <2>6. made(c) <= taken2(c) /\ taken2(c) <= made(c) + 1 /\ taken2(c) \in Nat
    <3>1. /\ taken2(c) = (IF Gone(N-1, c) = made(c) THEN Through(N-1, c)' ELSE Gone(N-1, c))
          /\ Gone(N-1, c) - made(c) \in 0 .. 1
      BY BiasPolls
    <3>2. Through(N-1, c)' = Gone(N-1, c) + Count(NextS(N-1, c) \/ pe[N-1][c].outS)
      BY <1>1, ThroughIs
    <3>3. Count(NextS(N-1, c) \/ pe[N-1][c].outS) \in 0 .. 1
      BY DEF Count
    <3>4. Gone(N-1, c) \in Nat
      BY <1>1, CountsOfSums
    <3>5. QED
      BY <2>1, <3>1, <3>2, <3>3, <3>4
  <2> HIDE DEF made, shown, ctr, in, out, made2, shown2, ctr2, taken2
  <2>7. CASE out(c) /\ in(c)
    <3>1. shown(c) = made(c) - 1 /\ ctr(c) = shown(c) - 1 /\ shown2(c) = made(c) - 1 /\ made2(c) = made(c)
      BY <2>1, <2>2, <2>3, <2>4, <2>7
    <3>2. ctr2(c) = IF collect.at = "poll" THEN ctr(c) + 1 ELSE ctr(c)
      BY <2>1, <2>5, <2>7
    <3>3. made(c) - shown(c) \in 0 .. 1 /\ shown(c) - ctr(c) \in 0 .. 1 /\ shown(c) \in Nat
      <4>1. shown(c) = ctr(c) + 1
        BY <2>2, <2>7
      <4>2. ctr(c) \in Nat /\ made(c) \in Nat /\ shown(c) = made(c) - 1
        BY <2>1, <3>1
      <4>3. QED
        BY <4>1, <4>2
    <3>4. shown2(c) = Passed(made(c), shown(c), ctr(c))
      BY <2>1, <3>1 DEF Passed
    <3>5. made2(c) = (IF made(c) > shown2(c) THEN made(c) ELSE taken2(c))
      BY <2>1, <3>1
    <3>6. ctr2(c) = (IF collect.at = "poll" THEN shown2(c) ELSE ctr(c))
      BY <2>1, <3>1, <3>2
    <3>7. QED
      BY <2>1, <2>6, <3>3, <3>4, <3>5, <3>6
  <2>8. CASE out(c) /\ ~in(c)
    <3>1. shown(c) = made(c) - 1 /\ ctr(c) = shown(c) /\ shown2(c) = made(c) /\ made2(c) = taken2(c)
      BY <2>1, <2>2, <2>3, <2>4, <2>8
    <3>2. ctr2(c) = IF collect.at = "poll" THEN ctr(c) + 1 ELSE ctr(c)
      BY <2>1, <2>5, <2>8
    <3>3. made(c) - shown(c) \in 0 .. 1 /\ shown(c) - ctr(c) \in 0 .. 1 /\ shown(c) \in Nat
      BY <2>1, <2>2, <3>1
    <3>4. shown2(c) = Passed(made(c), shown(c), ctr(c))
      BY <2>1, <3>1 DEF Passed
    <3>5. made2(c) = (IF made(c) > shown2(c) THEN made(c) ELSE taken2(c))
      BY <2>1, <3>1
    <3>6. ctr2(c) = (IF collect.at = "poll" THEN shown2(c) ELSE ctr(c))
      BY <2>1, <3>1, <3>2
    <3>7. QED
      BY <2>1, <2>6, <3>3, <3>4, <3>5, <3>6
  <2>9. CASE ~out(c) /\ in(c)
    <3>1. shown(c) = made(c) /\ ctr(c) = shown(c) - 1 /\ shown2(c) = made(c) /\ made2(c) = taken2(c)
      BY <2>1, <2>2, <2>3, <2>4, <2>9
    <3>2. ctr2(c) = IF collect.at = "poll" THEN ctr(c) + 1 ELSE ctr(c)
      BY <2>1, <2>5, <2>9
    <3>3. made(c) - shown(c) \in 0 .. 1 /\ shown(c) - ctr(c) \in 0 .. 1 /\ shown(c) \in Nat
      BY <2>1, <2>2, <3>1
    <3>4. shown2(c) = Passed(made(c), shown(c), ctr(c))
      BY <2>1, <3>1 DEF Passed
    <3>5. made2(c) = (IF made(c) > shown2(c) THEN made(c) ELSE taken2(c))
      BY <2>1, <3>1
    <3>6. ctr2(c) = (IF collect.at = "poll" THEN shown2(c) ELSE ctr(c))
      BY <2>1, <3>1, <3>2
    <3>7. QED
      BY <2>1, <2>6, <3>3, <3>4, <3>5, <3>6
  <2>10. CASE ~out(c) /\ ~in(c)
    BY <2>1, <2>2, <2>3, <2>4, <2>5, <2>6, <2>10 DEF Passed
  <2>11. QED
    BY <2>7, <2>8, <2>9, <2>10
<1>3. made(k) <= made(j) /\ shown(k) <= shown(j) /\ ctr(k) <= ctr(j)
  BY <1>1 DEF LeftFirst
<1>4. taken2(k) <= taken2(j)
  BY <1>1, GoneInOrder
<1> HIDE DEF made, shown, ctr, made2, shown2, ctr2, taken2
<1>5. shown2(k) <= shown2(j) /\ shown2(k) \in Nat /\ shown2(j) \in Nat
  <2>1. Passed(made(k), shown(k), ctr(k)) <= Passed(made(j), shown(j), ctr(j))
    BY <1>2, <1>3, PassedOrder
  <2>2. \A c \in Idx : shown2(c) \in Nat
    BY <1>2 DEF Passed
  <2>3. QED
    BY <1>2, <2>1, <2>2
<1>6. \A c \in Idx : made(c) - shown2(c) \in 0 .. 1
  BY <1>2 DEF Passed
<1>7. made2(k) <= made2(j)
  BY <1>2, <1>3, <1>4, <1>5, <1>6
<1>8. ctr2(k) <= ctr2(j)
  BY <1>2, <1>3, <1>5
<1>9. QED
  BY <1>5, <1>7, <1>8 DEF made2, shown2, ctr2

(* So no cycle lets a column overtake the one on its left. *)
LEMMA LeftFirstStays ==
    ASSUME Inv, NEW newWord, NEW newBeat, NEW room, Cycle({}, newWord, newBeat, room)
    PROVE  LeftFirst'
<1>1. SUFFICES ASSUME NEW j \in Idx, NEW k \in Idx, j < k
      PROVE  /\ \A i \in Idx : /\ pe'[i][k].fired <= Acts(pe'[i][j])
                               /\ Sums(pe'[i][k]) <= Sums(pe'[i][j])
                               /\ Through(i, k)' <= Through(i, j)'
                               /\ Gone(i, k)' <= Gone(i, j)'
             /\ bias'[k].made <= bias'[j].made
             /\ Shown(k)' <= Shown(j)'
             /\ collect'.ctr[k] <= collect'.ctr[j]
  BY DEF LeftFirst
<1>2. ASSUME NEW i \in Idx PROVE pe'[i][k].fired <= Acts(pe'[i][j])
  <2>1. pe'[i][k].fired <= Acts(pe[i][j]) /\ Acts(pe[i][j]) <= Acts(pe'[i][j])
    BY <1>1, ActsInOrder
  <2>2. Types /\ Types'
    BY TypesStay DEF Inv
  <2>3. pe'[i][k].fired \in Nat /\ pe[i][j].fired \in Nat /\ pe'[i][j].fired \in Nat
    BY <2>2 DEF Types, PEState
  <2>4. Acts(pe[i][j]) \in Int /\ Acts(pe'[i][j]) \in Int
    BY <2>3 DEF Acts, Count
  <2>5. QED
    BY <2>1, <2>3, <2>4
<1>3. QED
  BY <1>1, <1>2, SumsInOrder, ThroughInOrder, GoneInOrder, OutputsInOrder

(* A cycle keeps the invariant. *)
LEMMA CycleKeeps ==
    ASSUME Inv, NEW newWord, NEW newBeat, NEW room, Cycle({}, newWord, newBeat, room)
    PROVE  Inv'
BY TypesStay, WordsStay, ActsStay, SumsStay, OutputsStay, WordsFirstStay, LeftFirstStays,
   UpperFirstStays, LastStaysDone DEF Inv

-----------------------------------------------------------------------------
(* The initial state, and what a column holds. *)

(* Nothing has moved yet. *)
LEMMA InvInit == Init => Inv
<1> SUFFICES ASSUME Init PROVE Inv
  OBVIOUS
<1>1. N \in Nat \ {0} /\ M \in Nat \ {0} /\ LoadLength \in Nat /\ Beats \in Nat \ {0}
  BY NAssumption, MAssumption, GroupOf
<1>2. ASSUME NEW i \in Idx, NEW j \in Idx
      PROVE  /\ pe[i][j] \in PEState /\ pe[i][j].at = "poll"
             /\ ~pe[i][j].isW /\ ~pe[i][j].isA /\ ~pe[i][j].isS
             /\ ~pe[i][j].inW /\ ~pe[i][j].inA /\ ~pe[i][j].inS
             /\ ~pe[i][j].outW /\ ~pe[i][j].outA /\ ~pe[i][j].outS
             /\ pe[i][j].recv = 0 /\ pe[i][j].fired = 0
             /\ Acts(pe[i][j]) = 0 /\ Sums(pe[i][j]) = 0 /\ Popped(pe[i][j]) = 0
  <2> DEFINE p == [at |-> "poll", isW |-> FALSE, isA |-> FALSE, isS |-> FALSE,
                   inW |-> FALSE, inA |-> FALSE, inS |-> FALSE,
                   outW |-> FALSE, outA |-> FALSE, outS |-> FALSE,
                   recv |-> 0, fired |-> 0]
  <2>1. pe[i][j] = p
    BY DEF Init
  <2>2. p \in PEState
    BY DEF PEState
  <2>3. Acts(p) = 0 /\ Sums(p) = 0 /\ Popped(p) = 0
    BY DEF Acts, Sums, Popped, Count
  <2>4. QED
    BY <2>1, <2>2, <2>3
<1>3. ASSUME NEW j \in Idx
      PROVE  /\ bias[j] \in BiasState /\ bias[j].at = "poll" /\ ~bias[j].inW /\ ~bias[j].inS
             /\ ~bias[j].out /\ bias[j].recv = 0 /\ bias[j].made = 0
             /\ Taken(bias[j]) = 0 /\ Shown(j) = 0
  BY DEF Init, BiasState, Taken, Shown, Count
<1>4. ASSUME NEW j \in Idx
      PROVE  /\ ~zero[j] /\ ~weight.out[j] /\ ~feed.out[j] /\ ~collect.in[j] /\ collect.ctr[j] = 0
  BY DEF Init
<1>5. weight.beat = 0 /\ feed.beat = 0 /\ feed.row = N /\ collect.at = "poll"
  BY DEF Init
<1>6. Types
  <2>1. pe \in [Idx -> [Idx -> PEState]] /\ \A i, j \in Idx : AtRest(pe[i][j])
    <3>1. \A i, j \in Idx : AtRest(pe[i][j]) /\ pe[i][j] \in PEState
      BY <1>2 DEF AtRest
    <3>2. QED
      BY <3>1 DEF Init
  <2>2. bias \in [Idx -> BiasState] /\ \A j \in Idx : ~bias[j].inW
    BY <1>3 DEF Init
  <2>3. zero \in [Idx -> BOOLEAN]
    BY DEF Init
  <2>4. weight \in WeightState
    BY <1>1 DEF Init, WeightState
  <2>5. InFeed(feed)
    BY <1>1 DEF Init, InFeed, FeedState, LastBeat
  <2>6. collect \in CollectState
    BY DEF Init, CollectState
  <2>7. QED
    BY <2>1, <2>2, <2>3, <2>4, <2>5, <2>6 DEF Types
<1>7. \A j \in Idx : Words(weight, j) = 0
  <2>1. 0 \div Beats = 0 /\ 0 % Beats = 0
    BY <1>1
  <2>2. \A j \in Idx : j \div Group \in 0 .. Beats - 1
    BY GroupOf
  <2>3. QED
    BY <1>1, <1>5, <2>1, <2>2 DEF Words, Count
<1>8. \A i \in Idx : Fed(feed, i) = 0
  BY <1>1, <1>5 DEF Fed, Share, Idx
<1>9. ASSUME NEW i \in Idx, NEW j \in Idx
      PROVE  /\ ~FromW(i, j) /\ SentW(i, j) = 0 /\ ~FromA(i, j) /\ SentA(i, j) = 0
             /\ ~NextS(i, j) /\ Gone(i, j) = 0 /\ Through(i, j) = 0
  <2>1. ~FromW(i, j) /\ SentW(i, j) = 0
    BY <1>2, <1>4, <1>7, Indices DEF FromW, SentW
  <2>2. ~FromA(i, j) /\ SentA(i, j) = 0
    BY <1>2, <1>4, <1>8, Indices DEF FromA, SentA
  <2>3. ~NextS(i, j) /\ Gone(i, j) = 0
    BY <1>2, <1>3, Indices DEF NextS, Gone
  <2>4. Through(i, j) = 0
    BY <1>2 DEF Through, Count
  <2>5. QED
    BY <2>1, <2>2, <2>3, <2>4
<1>10. WordsKept
  BY <1>1, <1>2, <1>3, <1>9, Indices DEF WordsKept, Count
<1>11. ActsKept
  BY <1>1, <1>2, <1>9 DEF ActsKept, Count
<1>12. SumsKept /\ OutputsKept
  BY <1>3, <1>4, <1>9 DEF SumsKept, OutputsKept, Count
<1>13. WordsFirst
  BY <1>2, <1>5 DEF WordsFirst
<1>14. LeftFirst
  BY <1>2, <1>3, <1>4, <1>9 DEF LeftFirst
<1>15. UpperFirst /\ LastDone
  BY <1>2, <1>5 DEF UpperFirst, LastDone
<1>16. QED
  BY <1>6, <1>10, <1>11, <1>12, <1>13, <1>14, <1>15 DEF Inv

(* An output has passed every row on its way: no later place of a column is *)
(* ahead of an earlier one.                                                 *)
LEMMA OutputsOfColumn ==
    ASSUME Types, SumsKept, OutputsKept, NEW j \in Idx
    PROVE  /\ collect.ctr[j] <= Shown(j) /\ Shown(j) <= bias[j].made
           /\ bias[j].made <= Gone(N-1, j) /\ Gone(N-1, j) <= Through(N-1, j)
           /\ Through(N-1, j) <= Sums(pe[N-1][j]) /\ Sums(pe[N-1][j]) <= pe[N-1][j].fired
           /\ Gone(N-1, j) = Taken(bias[j]) /\ Shown(j) \in Nat
<1>1. N-1 \in Idx
  BY Indices
<1>2. bias[j].made \in Nat /\ bias[j].out \in BOOLEAN /\ Taken(bias[j]) \in bias[j].made .. bias[j].made + 1
  BY FieldsOfBias
<1>3. Gone(N-1, j) = Taken(bias[j])
  BY DEF Gone
<1>4. collect.ctr[j] \in Nat /\ collect.in[j] \in BOOLEAN
  BY DEF Types, CollectState
<1>5. Shown(j) = collect.ctr[j] + Count(collect.in[j]) /\ Shown(j) = bias[j].made - Count(bias[j].out)
  BY DEF OutputsKept, Shown
<1>6. Count(collect.in[j]) \in 0 .. 1 /\ Count(bias[j].out) \in 0 .. 1
  BY DEF Count
<1>7. /\ Sums(pe[N-1][j]) \in Nat /\ Through(N-1, j) \in Nat /\ Gone(N-1, j) \in Nat
      /\ Sums(pe[N-1][j]) - Through(N-1, j) = Count(pe[N-1][j].outS)
      /\ Through(N-1, j) - Gone(N-1, j) = Count(NextS(N-1, j))
      /\ Sums(pe[N-1][j]) <= pe[N-1][j].fired
  BY <1>1, CountsOfSums
<1>8. Count(pe[N-1][j].outS) \in 0 .. 1 /\ Count(NextS(N-1, j)) \in 0 .. 1
  BY DEF Count
<1>9. collect.ctr[j] <= Shown(j) /\ Shown(j) \in Nat /\ Shown(j) <= bias[j].made
  BY <1>2, <1>4, <1>5, <1>6
<1>10. Gone(N-1, j) <= Through(N-1, j) /\ Through(N-1, j) <= Sums(pe[N-1][j])
  BY <1>7, <1>8
<1>11. QED
  BY <1>2, <1>3, <1>7, <1>9, <1>10

-----------------------------------------------------------------------------
(* The end of a run, and the theorems. *)

(* A PE that polls owes nothing. *)
LEMMA OwesNothing ==
    ASSUME NEW p, p.at = "poll", p.fired = 0
    PROVE  Acts(p) = 0 /\ Sums(p) = 0
<1>1. Count(p.at = "act") = 0 /\ Count(p.at \in {"act", "accum"}) = 0
  BY DEF Count
<1>2. QED
  BY <1>1 DEF Acts, Sums

(* When WriteReqRun is done, M sums have passed every place of every column. *)
LEMMA AllSumsAtEnd ==
    ASSUME Inv, collect.at = "done", NEW j \in Idx
    PROVE  /\ collect.ctr[j] = M /\ Shown(j) = M /\ bias[j].made = M /\ Taken(bias[j]) = M
           /\ \A i \in Idx : /\ pe[i][j].fired = M /\ Sums(pe[i][j]) = M
                             /\ Through(i, j) = M /\ Gone(i, j) = M
<1>1. Types /\ SumsKept /\ OutputsKept /\ ActsKept /\ LeftFirst /\ UpperFirst /\ LastDone
  BY DEF Inv
<1>2. M \in Nat /\ N-1 \in Idx
  BY Indices
<1>3. \A i \in Idx : pe[i][j].fired \in Nat /\ pe[i][j].fired <= M
  BY <1>1, FieldsOfPE DEF ActsKept
<1>4. collect.ctr \in [Idx -> Nat] /\ bias[j].made \in Nat
  BY <1>1, FieldsOfBias DEF Types, CollectState
<1>5. M <= collect.ctr[j]
  <2>1. collect.ctr[N-1] = M
    BY <1>1 DEF LastDone
  <2>2. CASE j = N-1
    BY <1>2, <2>1, <2>2
  <2>3. CASE j # N-1
    <3>1. j < N-1
      BY <2>3, Indices
    <3>2. collect.ctr[N-1] <= collect.ctr[j]
      BY <1>1, <1>2, <3>1 DEF LeftFirst
    <3>3. QED
      BY <2>1, <3>2
  <2>4. QED
    BY <2>2, <2>3
<1>6. /\ Sums(pe[N-1][j]) \in Nat /\ Through(N-1, j) \in Nat /\ Gone(N-1, j) \in Nat
  BY <1>1, <1>2, CountsOfSums
<1>7. /\ collect.ctr[j] = M /\ Shown(j) = M /\ bias[j].made = M /\ Gone(N-1, j) = M
      /\ pe[N-1][j].fired = M
  <2>1. /\ collect.ctr[j] <= Shown(j) /\ Shown(j) <= bias[j].made
        /\ bias[j].made <= Gone(N-1, j) /\ Gone(N-1, j) <= Through(N-1, j)
        /\ Through(N-1, j) <= Sums(pe[N-1][j]) /\ Sums(pe[N-1][j]) <= pe[N-1][j].fired
        /\ Shown(j) \in Nat
    BY <1>1, OutputsOfColumn
  <2>2. pe[N-1][j].fired \in Nat /\ pe[N-1][j].fired <= M
    BY <1>2, <1>3
  <2>3. collect.ctr[j] \in Nat
    BY <1>4
  <2>4. QED
    BY <1>2, <1>4, <1>5, <1>6, <2>1, <2>2, <2>3
<1>8. Taken(bias[j]) = M
  BY <1>1, <1>7, OutputsOfColumn
<1>9. ASSUME NEW i \in Idx PROVE pe[i][j].fired = M /\ Sums(pe[i][j]) = M
  <2>1. Sums(pe[i][j]) \in Nat /\ Sums(pe[i][j]) <= pe[i][j].fired
    BY <1>1, CountsOfSums
  <2>2. CASE i = N-1
    BY <1>1, <1>2, <1>6, <1>7, <2>1, <2>2, OutputsOfColumn
  <2>3. CASE i # N-1
    <3>1. i < N-1
      BY <2>3, NAssumption DEF Idx
    <3>2. pe[N-1][j].fired <= Sums(pe[i][j])
      BY <1>1, <1>2, <3>1 DEF UpperFirst
    <3>3. QED
      BY <1>2, <1>3, <1>7, <2>1, <3>2
  <2>4. QED
    BY <2>2, <2>3
<1>10. ASSUME NEW i \in Idx PROVE Through(i, j) = M /\ Gone(i, j) = M
  <2>1. /\ Through(i, j) \in Nat /\ Gone(i, j) \in Nat
        /\ Sums(pe[i][j]) - Through(i, j) = Count(pe[i][j].outS)
        /\ Through(i, j) - Gone(i, j) = Count(NextS(i, j))
    BY <1>1, CountsOfSums
  <2>2. Count(pe[i][j].outS) \in 0 .. 1 /\ Count(NextS(i, j)) \in 0 .. 1
    BY DEF Count
  <2>3. M <= Gone(i, j)
    <3>1. CASE i = N-1
      BY <1>2, <1>7, <3>1
    <3>2. CASE i # N-1
      <4>1. i+1 \in Idx
        BY <3>2, Indices
      <4>2. pe[i+1][j].fired = M /\ Count(pe[i+1][j].isS) \in 0 .. 1
        BY <1>9, <4>1 DEF Count
      <4>3. Gone(i, j) = M + Count(pe[i+1][j].isS)
        BY <3>2, <4>2 DEF Gone, Popped
      <4>4. QED
        BY <1>2, <4>2, <4>3
    <3>3. QED
      BY <3>1, <3>2
  <2>4. QED
    BY <1>2, <1>9, <2>1, <2>2, <2>3
<1>11. QED
  BY <1>7, <1>8, <1>9, <1>10

(* And nothing is left in the array: the ports are empty but for the zeros  *)
(* at the top, and every thread polls.                                      *)
LEMMA EmptyAtEnd ==
    ASSUME Inv, collect.at = "done"
    PROVE  /\ \A i, j \in Idx : /\ pe[i][j].at = "poll" /\ ~pe[i][j].outS /\ ~NextS(i, j)
                                /\ ~pe[i][j].isA /\ ~pe[i][j].inA /\ ~FromA(i, j)
                                /\ i # 0 => ~pe[i][j].isS
                                /\ pe[i][j].recv = N + 1 /\ ~pe[i][j].outW
           /\ \A j \in Idx : /\ bias[j].at = "poll" /\ ~bias[j].out /\ ~collect.in[j]
                             /\ bias[j].recv = N + 1 /\ ~weight.out[j]
           /\ feed.row = N
<1>1. Types /\ WordsKept /\ SumsKept /\ OutputsKept /\ ActsKept /\ WordsFirst
  BY DEF Inv
<1>2. M \in Nat \ {0} /\ N-1 \in Idx
  BY Indices
<1>3. ASSUME NEW i \in Idx, NEW j \in Idx
      PROVE  /\ pe[i][j].at = "poll" /\ ~pe[i][j].outS /\ ~NextS(i, j)
             /\ i # 0 => ~pe[i][j].isS
  <2>1. /\ pe[i][j].fired = M /\ Sums(pe[i][j]) = M /\ Through(i, j) = M /\ Gone(i, j) = M
        /\ i # 0 => Gone(i-1, j) = M
    BY AllSumsAtEnd, Indices
  <2>2. pe[i][j].at = "poll"
    BY <1>1, <2>1, CountsOfSums
  <2>3. Count(pe[i][j].outS) = 0 /\ Count(NextS(i, j)) = 0
    <3>1. /\ Sums(pe[i][j]) - Through(i, j) = Count(pe[i][j].outS)
          /\ Through(i, j) - Gone(i, j) = Count(NextS(i, j))
      BY <1>1, CountsOfSums
    <3>2. QED
      BY <1>2, <2>1, <3>1
  <2>4. ASSUME i # 0 PROVE ~pe[i][j].isS
    <3>1. i-1 \in Idx /\ i-1 # N-1 /\ (i-1)+1 = i
      BY <2>4, Indices
    <3>2. Gone(i-1, j) = pe[i][j].fired + Count(pe[i][j].isS)
      BY <3>1 DEF Gone, Popped
    <3>3. QED
      BY <1>2, <2>1, <2>4, <3>2 DEF Count
  <2>5. QED
    BY <2>2, <2>3, <2>4 DEF Count
<1>4. ASSUME NEW i \in Idx, NEW j \in Idx
      PROVE  /\ ~pe[i][j].isA /\ ~pe[i][j].inA /\ ~FromA(i, j) /\ SentA(i, j) = M
  <2>1. SentA(i, j) \in Nat /\ SentA(i, j) <= M
    <3>1. CASE j = 0
      <4>1. Fed(feed, i) \in 0 .. M
        BY <1>1, FedOfRun DEF Types
      <4>2. QED
        BY <1>2, <3>1, <4>1 DEF SentA
    <3>2. CASE j # 0
      <4>1. j-1 \in Idx
        BY <3>2, Indices
      <4>2. pe[i][j-1].fired = M /\ Acts(pe[i][j-1]) \in 0 .. pe[i][j-1].fired
        BY <1>1, <4>1, AllSumsAtEnd, FieldsOfPE
      <4>3. QED
        BY <1>2, <3>2, <4>2 DEF SentA
    <3>3. QED
      BY <3>1, <3>2
  <2>2. SentA(i, j) = M + Count(pe[i][j].isA) + Count(pe[i][j].inA) + Count(FromA(i, j))
    BY <1>1, AllSumsAtEnd DEF ActsKept
  <2>3. /\ Count(pe[i][j].isA) \in 0 .. 1 /\ Count(pe[i][j].inA) \in 0 .. 1
        /\ Count(FromA(i, j)) \in 0 .. 1
    BY DEF Count
  <2>4. Count(pe[i][j].isA) = 0 /\ Count(pe[i][j].inA) = 0 /\ Count(FromA(i, j)) = 0
    BY <1>2, <2>1, <2>2, <2>3
  <2>5. QED
    BY <1>2, <2>2, <2>4 DEF Count
<1>5. feed.row = N
  <2>1. \A i \in Idx : Fed(feed, i) = M
    BY <1>4, Indices DEF SentA
  <2>2. QED
    BY <1>1, <2>1, FedOfRun DEF Types
<1>6. ASSUME NEW i \in Idx, NEW j \in Idx
      PROVE  pe[i][j].recv = N + 1 /\ ~pe[i][j].outW /\ feed.beat > 0
  BY <1>1, <1>2, AllSumsAtEnd DEF WordsFirst
<1>7. ASSUME NEW j \in Idx
      PROVE  /\ bias[j].at = "poll" /\ ~bias[j].out /\ ~collect.in[j]
             /\ bias[j].recv = N + 1 /\ ~weight.out[j]
  <2>1. /\ collect.ctr[j] = M /\ Shown(j) = M /\ bias[j].made = M /\ Taken(bias[j]) = M
    BY AllSumsAtEnd
  <2>2. bias[j].at = "poll"
    <3>1. Count(bias[j].at = "push") = 0
      <4>1. Taken(bias[j]) = bias[j].made + Count(bias[j].at = "push") /\ Count(bias[j].at = "push") \in 0 .. 1
        BY DEF Taken, Count
      <4>2. QED
        BY <1>2, <2>1, <4>1
    <3>2. bias[j].at \in {"poll", "push"}
      BY <1>1, FieldsOfBias
    <3>3. QED
      BY <3>1, <3>2 DEF Count
  <2>3. ~bias[j].out
    BY <1>2, <2>1 DEF Shown, Count
  <2>4. ~collect.in[j]
    <3>1. Shown(j) = collect.ctr[j] + Count(collect.in[j])
      BY <1>1 DEF OutputsKept
    <3>2. QED
      BY <1>2, <2>1, <3>1 DEF Count
  <2>5. bias[j].recv = N + 1
    <3>1. pe[N-1][j].recv = bias[j].recv + Count(pe[N-1][j].outW)
      BY <1>1 DEF WordsKept
    <3>2. bias[j].recv \in Nat /\ Count(pe[N-1][j].outW) = 0
      BY <1>1, <1>2, <1>6, FieldsOfBias DEF Count
    <3>3. pe[N-1][j].recv = N + 1
      BY <1>2, <1>6
    <3>4. QED
      BY <3>1, <3>2, <3>3
  <2>6. ~weight.out[j]
    BY <1>1, <1>2, <1>6 DEF WordsFirst
  <2>7. QED
    BY <2>2, <2>3, <2>4, <2>5, <2>6
<1>8. QED
  BY <1>3, <1>4, <1>5, <1>6, <1>7

(* The next load begins from there. *)
LEMMA NextLoadKeeps == Inv /\ NextLoad => Inv'
<1> SUFFICES ASSUME Inv, NextLoad PROVE Inv'
  OBVIOUS
<1>1. Types /\ collect.at = "done"
  BY DEF Inv, NextLoad
<1>2. N \in Nat \ {0} /\ M \in Nat \ {0} /\ LoadLength \in Nat /\ Beats \in Nat \ {0}
  BY NAssumption, MAssumption, GroupOf
<1>3. ASSUME NEW i \in Idx, NEW j \in Idx
      PROVE  LET r == pe'[i][j]
                 p == pe[i][j]
             IN  /\ r \in PEState /\ r.at = "poll" /\ r.recv = 0 /\ r.fired = 0
                 /\ r.isW = p.isW /\ r.isA = p.isA /\ r.isS = p.isS
                 /\ r.inW = p.inW /\ r.inA = p.inA /\ r.inS = p.inS
                 /\ r.outW = p.outW /\ r.outA = p.outA /\ r.outS = p.outS
                 /\ ~p.isW /\ ~p.inW
  <2>1. pe[i][j] \in PEState /\ pe[i][j].at = "poll" /\ ~pe[i][j].isW /\ ~pe[i][j].inW
    BY <1>1, EmptyAtEnd, FieldsOfPE
  <2>2. pe'[i][j] = [pe[i][j] EXCEPT !.recv = 0, !.fired = 0]
    BY DEF NextLoad
  <2> DEFINE p == pe[i][j]
             r == [p EXCEPT !.recv = 0, !.fired = 0]
  <2>3. p \in PEState => r \in PEState
    <3> HIDE DEF p
    <3>1. QED
      BY DEF PEState
  <2>4. p \in PEState =>
          /\ r.at = p.at /\ r.recv = 0 /\ r.fired = 0
          /\ r.isW = p.isW /\ r.isA = p.isA /\ r.isS = p.isS
          /\ r.inW = p.inW /\ r.inA = p.inA /\ r.inS = p.inS
          /\ r.outW = p.outW /\ r.outA = p.outA /\ r.outS = p.outS
    <3> HIDE DEF p
    <3>1. QED
      BY DEF PEState
  <2>5. QED
    BY <2>1, <2>2, <2>3, <2>4
<1>4. ASSUME NEW j \in Idx
      PROVE  LET r == bias'[j]
                 b == bias[j]
             IN  /\ r \in BiasState /\ r.at = "poll" /\ r.recv = 0 /\ r.made = 0 /\ ~r.out
                 /\ r.inW = FALSE /\ r.inS = b.inS
  <2>1. bias[j] \in BiasState /\ bias[j].at = "poll" /\ bias[j].inW = FALSE /\ ~bias[j].out
    BY <1>1, EmptyAtEnd, FieldsOfBias
  <2>2. bias'[j] = [bias[j] EXCEPT !.recv = 0, !.made = 0]
    BY DEF NextLoad
  <2> DEFINE b == bias[j]
             r == [b EXCEPT !.recv = 0, !.made = 0]
  <2>3. b \in BiasState =>
          /\ r \in BiasState /\ r.at = b.at /\ r.recv = 0 /\ r.made = 0 /\ r.out = b.out
          /\ r.inW = b.inW /\ r.inS = b.inS
    <3> HIDE DEF b
    <3>1. QED
      BY DEF BiasState
  <2>4. QED
    BY <2>1, <2>2, <2>3
<1>5. /\ weight' \in WeightState /\ weight'.beat = 0 /\ weight'.out = weight.out
  <2>1. weight \in WeightState
    BY <1>1 DEF Types
  <2>2. QED
    <3>1. 0 \in 0 .. LoadLength
      BY <1>2
    <3>2. weight' = [weight EXCEPT !.beat = 0]
      BY DEF NextLoad
    <3>3. QED
      BY <2>1, <3>1, <3>2 DEF WeightState
<1>6. /\ feed' \in FeedState /\ feed'.beat = 0 /\ feed'.row = N /\ feed'.out = feed.out
  <2>1. feed \in FeedState /\ feed.row = N
    BY <1>1, EmptyAtEnd DEF Types, InFeed
  <2>2. 0 \in 0 .. LastBeat
    BY <1>2 DEF LastBeat
  <2>3. QED
    BY <2>1, <2>2 DEF NextLoad, FeedState
<1>7. /\ collect' \in CollectState /\ collect'.at = "poll" /\ collect'.in = collect.in
      /\ \A j \in Idx : collect'.ctr[j] = 0
  <2>1. collect \in CollectState
    BY <1>1 DEF Types
  <2>2. QED
    BY <2>1 DEF NextLoad, CollectState
<1>8. Types'
  <2>1. \A i, j \in Idx : AtRest(pe'[i][j]) /\ pe'[i][j] \in PEState
    BY <1>3 DEF AtRest
  <2>2. pe' \in [Idx -> [Idx -> PEState]]
    BY <2>1, ZenonT(60) DEF NextLoad
  <2>3. bias' \in [Idx -> BiasState] /\ \A j \in Idx : ~bias'[j].inW
    BY <1>4 DEF NextLoad
  <2>4. zero' \in [Idx -> BOOLEAN]
    BY <1>1 DEF NextLoad, Types
  <2>5. InFeed(feed')
    BY <1>2, <1>6 DEF InFeed
  <2>6. QED
    BY <1>5, <1>7, <2>1, <2>2, <2>3, <2>4, <2>5 DEF Types
<1>9. ASSUME NEW i \in Idx, NEW j \in Idx
      PROVE  /\ Acts(pe'[i][j]) = 0 /\ Sums(pe'[i][j]) = 0 /\ Through(i, j)' = 0
             /\ ~NextS(i, j)' /\ Gone(i, j)' = 0
  <2>1. ~pe'[i][j].outS /\ pe'[i][j].at = "poll" /\ pe'[i][j].fired = 0
    BY <1>1, <1>3, EmptyAtEnd
  <2>2. Acts(pe'[i][j]) = 0 /\ Sums(pe'[i][j]) = 0
    BY <2>1, OwesNothing
  <2>3. Through(i, j)' = 0
    <3>1. Through(i, j)' = Sums(pe'[i][j]) - Count(pe'[i][j].outS)
      BY DEF Through
    <3>2. Count(pe'[i][j].outS) = 0
      BY <2>1 DEF Count
    <3>3. QED
      BY <2>2, <3>1, <3>2
  <2>4. ~NextS(i, j) /\ (i # N-1 => ~pe[i+1][j].isS)
    <3>1. ASSUME i # N-1 PROVE i+1 \in Idx /\ i+1 # 0
      BY <3>1, Indices
    <3>2. QED
      BY <1>1, <3>1, EmptyAtEnd
  <2>5. CASE i = N-1
    <3>1. ~bias'[j].inS /\ bias'[j].at = "poll" /\ bias'[j].made = 0
      BY <1>4, <2>4, <2>5 DEF NextS
    <3>2. Taken(bias'[j]) = 0
      BY <3>1 DEF Taken, Count
    <3>3. QED
      BY <2>2, <2>3, <2>5, <3>1, <3>2 DEF NextS, Gone
  <2>6. CASE i # N-1
    <3>1. i+1 \in Idx
      BY <2>6, Indices
    <3>2. ~pe'[i+1][j].inS /\ ~pe'[i+1][j].isS /\ pe'[i+1][j].fired = 0
      BY <1>3, <2>4, <2>6, <3>1 DEF NextS
    <3>3. Popped(pe'[i+1][j]) = 0
      BY <3>2 DEF Popped, Count
    <3>4. QED
      BY <2>2, <2>3, <2>6, <3>2, <3>3 DEF NextS, Gone
  <2>7. QED
    BY <2>5, <2>6
<1>10. ASSUME NEW j \in Idx
       PROVE  /\ ~collect'.in[j] /\ Shown(j)' = 0 /\ ~weight'.out[j]
  <2>1. ~collect.in[j] /\ ~weight.out[j]
    BY <1>1, EmptyAtEnd
  <2>2. ~bias'[j].out /\ bias'[j].made = 0
    BY <1>4
  <2>3. QED
    <3>1. Shown(j)' = bias'[j].made - Count(bias'[j].out)
      BY DEF Shown
    <3>2. Count(bias'[j].out) = 0
      BY <2>2 DEF Count
    <3>3. QED
      BY <1>5, <1>7, <2>1, <2>2, <3>1, <3>2
<1>11. \A j \in Idx : Words(weight', j) = 0
  <2>1. 0 \div Beats = 0 /\ 0 % Beats = 0
    BY <1>2
  <2>2. \A j \in Idx : j \div Group \in 0 .. Beats - 1
    BY GroupOf
  <2>3. QED
    BY <1>2, <1>5, <2>1, <2>2 DEF Words, Count
<1>12. \A i \in Idx : Fed(feed', i) = 0
  BY <1>2, <1>6 DEF Fed, Share, Idx
<1>13. ASSUME NEW i \in Idx, NEW j \in Idx
       PROVE  /\ ~FromW(i, j)' /\ SentW(i, j)' = 0 /\ ~FromA(i, j)' /\ SentA(i, j)' = 0
              /\ ~pe'[i][j].isA /\ ~pe'[i][j].inA /\ ~pe'[i][j].outW
  <2>1. ~pe'[i][j].isA /\ ~pe'[i][j].inA /\ ~pe'[i][j].outW /\ ~FromA(i, j)
    BY <1>1, <1>3, EmptyAtEnd
  <2>2. ~FromW(i, j)' /\ SentW(i, j)' = 0
    <3>1. CASE i = 0
      BY <1>10, <1>11, <3>1 DEF FromW, SentW
    <3>2. CASE i # 0
      <4>1. i-1 \in Idx
        BY <3>2, Indices
      <4>2. ~pe'[i-1][j].outW /\ pe'[i-1][j].recv = 0
        BY <1>1, <1>3, <4>1, EmptyAtEnd
      <4>3. QED
        BY <3>2, <4>2 DEF FromW, SentW
    <3>3. QED
      BY <3>1, <3>2
  <2>3. ~FromA(i, j)' /\ SentA(i, j)' = 0
    <3>1. CASE j = 0
      BY <1>6, <1>12, <2>1, <3>1 DEF FromA, SentA
    <3>2. CASE j # 0
      <4>1. j-1 \in Idx
        BY <3>2, Indices
      <4>2. Acts(pe'[i][j-1]) = 0 /\ pe'[i][j-1].outA = pe[i][j-1].outA
        BY <1>3, <1>9, <4>1
      <4>3. QED
        BY <2>1, <3>2, <4>2 DEF FromA, SentA
    <3>3. QED
      BY <3>1, <3>2
  <2>4. QED
    BY <2>1, <2>2, <2>3
<1>14. WordsKept'
  <2>1. ASSUME NEW i \in Idx, NEW j \in Idx
        PROVE  SentW(i, j)' = pe'[i][j].recv + Count(FromW(i, j)') /\ pe'[i][j].recv <= N + 1
    BY <1>2, <1>3, <1>13 DEF Count
  <2>2. ASSUME NEW j \in Idx
        PROVE  pe'[N-1][j].recv = bias'[j].recv + Count(pe'[N-1][j].outW)
    <3>1. pe'[N-1][j].recv = 0 /\ ~pe'[N-1][j].outW /\ bias'[j].recv = 0
      BY <1>3, <1>4, <1>13, Indices, ZenonT(60)
    <3>2. QED
      BY <3>1 DEF Count
  <2>3. QED
    BY <2>1, <2>2 DEF WordsKept
<1>15. ActsKept'
  <2>1. ASSUME NEW i \in Idx, NEW j \in Idx
        PROVE  /\ SentA(i, j)' = pe'[i][j].fired + Count(pe'[i][j].isA) + Count(pe'[i][j].inA)
                                 + Count(FromA(i, j)')
               /\ pe'[i][j].fired <= M
    <3>1. /\ Count(pe'[i][j].isA) = 0 /\ Count(pe'[i][j].inA) = 0 /\ Count(FromA(i, j)') = 0
      BY <1>13 DEF Count
    <3>2. pe'[i][j].fired = 0 /\ SentA(i, j)' = 0
      BY <1>3, <1>13
    <3>3. QED
      BY <1>2, <3>1, <3>2
  <2>2. QED
    BY <2>1 DEF ActsKept
<1>16. SumsKept' /\ OutputsKept'
  BY <1>7, <1>9, <1>10 DEF SumsKept, OutputsKept, Count
<1>17. WordsFirst'
  BY <1>3, <1>6 DEF WordsFirst
<1>18. LeftFirst'
  <2>1. ASSUME NEW i \in Idx, NEW j \in Idx
        PROVE  /\ pe'[i][j].fired = 0 /\ Acts(pe'[i][j]) = 0 /\ Sums(pe'[i][j]) = 0
               /\ Through(i, j)' = 0 /\ Gone(i, j)' = 0
    BY <1>3, <1>9
  <2>2. ASSUME NEW j \in Idx
        PROVE  bias'[j].made = 0 /\ Shown(j)' = 0 /\ collect'.ctr[j] = 0
    BY <1>4, <1>7, <1>10
  <2>3. ASSUME NEW j \in Idx, NEW k \in Idx
        PROVE  /\ \A i \in Idx : /\ pe'[i][k].fired <= Acts(pe'[i][j])
                                 /\ Sums(pe'[i][k]) <= Sums(pe'[i][j])
                                 /\ Through(i, k)' <= Through(i, j)'
                                 /\ Gone(i, k)' <= Gone(i, j)'
               /\ bias'[k].made <= bias'[j].made
               /\ Shown(k)' <= Shown(j)'
               /\ collect'.ctr[k] <= collect'.ctr[j]
    <3>1. ASSUME NEW i \in Idx
          PROVE  /\ pe'[i][k].fired <= Acts(pe'[i][j]) /\ Sums(pe'[i][k]) <= Sums(pe'[i][j])
                 /\ Through(i, k)' <= Through(i, j)' /\ Gone(i, k)' <= Gone(i, j)'
      <4>1. /\ pe'[i][k].fired = 0 /\ Acts(pe'[i][j]) = 0
            /\ Sums(pe'[i][k]) = 0 /\ Sums(pe'[i][j]) = 0
            /\ Through(i, k)' = 0 /\ Through(i, j)' = 0 /\ Gone(i, k)' = 0 /\ Gone(i, j)' = 0
        BY <2>1
      <4>2. QED
        BY <4>1
    <3>2. QED
      BY <2>2, <3>1
  <2>4. QED
    BY <2>3 DEF LeftFirst
<1>19. UpperFirst' /\ LastDone'
  BY <1>3, <1>7, <1>9 DEF UpperFirst, LastDone
<1>20. QED
  BY <1>8, <1>14, <1>15, <1>16, <1>17, <1>18, <1>19 DEF Inv

(* Stuttering changes nothing. *)
LEMMA SameKeeps == Inv /\ UNCHANGED vars => Inv'
BY DEF Inv, vars, Types, WordsKept, ActsKept, SumsKept, OutputsKept, WordsFirst, LeftFirst, UpperFirst,
   LastDone, SentW, FromW, SentA, FromA, Through, Gone, NextS, Shown, Loaded, Words, Fed

(* The invariant is inductive. *)
LEMMA NextKeeps == Inv /\ [Next]_vars => Inv'
<1>1. ASSUME Inv, Next PROVE Inv'
  <2>1. CASE NextLoad
    BY <1>1, <2>1, NextLoadKeeps
  <2>2. ASSUME NEW newWord \in BOOLEAN, NEW newBeat \in BOOLEAN, NEW room \in BOOLEAN,
               Cycle({}, newWord, newBeat, room)
        PROVE  Inv'
    BY <1>1, <2>2, CycleKeeps
  <2>3. QED
    BY <1>1, <2>1, <2>2 DEF Next
<1>2. QED
  BY <1>1, SameKeeps

(* Every state of every behaviour satisfies it. *)
THEOREM Invariant == Spec => []Inv
BY InvInit, NextKeeps, PTL DEF Spec

(* ColumnsInOrder: SysBias k never has more outputs than SysBias j on its   *)
(* left, whatever gaps the feed has and however long the memory lets        *)
(* WriteReqRun wait. SysArray and DoubleBuffer assume this order            *)
(* (InWavefront).                                                           *)
THEOREM LeftToRight == Spec => []ColumnsInOrder
<1>1. Inv => ColumnsInOrder
  BY DEF Inv, LeftFirst, ColumnsInOrder
<1>2. QED
  BY <1>1, Invariant, PTL

(* WeightsAhead: a PE multiplies, and SysBias adds its bias, only after all *)
(* N + 1 words of the load came, though the run starts in the cycle after   *)
(* the last word was pushed and words still shift down. StartRun of         *)
(* SysArray may therefore wait for Settled.                                 *)
THEOREM WeightsComeFirst == Spec => []WeightsAhead
<1>1. ASSUME Inv PROVE WeightsAhead
  <2>1. Types /\ WordsKept /\ SumsKept /\ WordsFirst /\ N-1 \in Idx
    BY <1>1, Indices DEF Inv
  <2>2. \A i, j \in Idx : pe[i][j].fired > 0 => pe[i][j].recv = N + 1
    BY <2>1 DEF WordsFirst
  <2>3. ASSUME NEW j \in Idx, bias[j].at = "push" \/ bias[j].made > 0
        PROVE  bias[j].recv = N + 1
    <3>1. Taken(bias[j]) > 0 /\ Taken(bias[j]) \in Nat
      <4>1. bias[j].made \in Nat
        BY <2>1, FieldsOfBias
      <4>2. QED
        BY <2>3, <4>1 DEF Taken, Count
    <3>2. Gone(N-1, j) = Taken(bias[j])
      BY DEF Gone
    <3>3. /\ Sums(pe[N-1][j]) \in Nat /\ Through(N-1, j) \in Nat
          /\ Sums(pe[N-1][j]) - Through(N-1, j) = Count(pe[N-1][j].outS)
          /\ Through(N-1, j) - Gone(N-1, j) = Count(NextS(N-1, j))
          /\ Sums(pe[N-1][j]) <= pe[N-1][j].fired /\ pe[N-1][j].fired \in Nat
      BY <2>1, CountsOfSums
    <3>4. Count(pe[N-1][j].outS) \in 0 .. 1 /\ Count(NextS(N-1, j)) \in 0 .. 1
      BY DEF Count
    <3>5. pe[N-1][j].fired > 0
      BY <3>1, <3>2, <3>3, <3>4
    <3>6. pe[N-1][j].recv = N + 1 /\ ~pe[N-1][j].outW
      BY <2>1, <3>5 DEF WordsFirst
    <3>7. pe[N-1][j].recv = bias[j].recv + Count(pe[N-1][j].outW) /\ bias[j].recv \in Nat
      BY <2>1, FieldsOfBias DEF WordsKept
    <3>8. QED
      BY <3>6, <3>7 DEF Count
  <2>4. QED
    BY <2>2, <2>3 DEF WeightsAhead
<1>2. QED
  BY <1>1, Invariant, PTL

(* EndsWhole: WriteReqRun looks at the last column alone to end the run,    *)
(* and every column has then given its M outputs; nothing is left behind    *)
(* for the next.                                                            *)
THEOREM RunEndsWhole == Spec => []EndsWhole
<1>1. Inv => EndsWhole
  BY AllSumsAtEnd DEF EndsWhole
<1>2. QED
  BY <1>1, Invariant, PTL

-----------------------------------------------------------------------------
(* SysConfigRun, when the host writes no configuration. *)

(* No word is due, and none is on its way. *)
NoConfig == ~config.due /\ config.col = N /\ \A j \in Idx : ~config.out[j] /\ ~config.in[j]

(* Nothing comes from nothing. *)
LEMMA NoConfigStays ==
    ASSUME ~Reconfig, NoConfig, [ConfigNext]_configVars
    PROVE  NoConfig' /\ [Next]_vars
<1>1. CASE ConfigNextLoad
  <2>1. PICK due \in Due : config' = [config EXCEPT !.due = due, !.wait = Wait(due), !.got = [j \in Idx |-> ~due]]
    BY <1>1 DEF ConfigNextLoad
  <2>2. QED
    BY <1>1, <2>1 DEF ConfigNextLoad, Next, NoConfig, Due
<1>2. ASSUME NEW newConfig \in BOOLEAN, NEW newWord \in BOOLEAN, NEW newBeat \in BOOLEAN,
             NEW room \in BOOLEAN, ConfigCycle(newConfig, newWord, newBeat, room)
      PROVE  NoConfig' /\ [Next]_vars
  <2>1. \A j \in Idx : ~Configured(j) /\ ~ConfigArrives(j)
    BY DEF NoConfig, Configured, ConfigArrives, Arrives
  <2>2. {j \in Idx : Configured(j)} = {}
    BY <2>1
  <2>3. Next
    <3>1. (newBeat /\ Startable) \in BOOLEAN
      OBVIOUS
    <3>2. Cycle({}, newWord, newBeat /\ Startable, room)
      BY <1>2, <2>2 DEF ConfigCycle
    <3>3. QED
      BY <3>1, <3>2 DEF Next
  <2>4. config' = SysConfigRun(newConfig)
    BY <1>2 DEF ConfigCycle
  <2>5. \A j \in Idx : ~ConfigAtEdge[j]
    BY DEF NoConfig, ConfigAtEdge, Stays
  <2>6. ~config'.due /\ config'.col = N /\ config'.out = ConfigAtEdge
        /\ config'.in = [j \in Idx |-> ConfigArrives(j) /\ ~Configured(j)]
    BY <2>4 DEF NoConfig, SysConfigRun
  <2>7. NoConfig'
    BY <2>1, <2>5, <2>6 DEF NoConfig
  <2>8. QED
    BY <2>3, <2>7
<1>3. CASE UNCHANGED configVars
  BY <1>3 DEF configVars, NoConfig
<1>4. QED
  BY <1>1, <1>2, <1>3 DEF ConfigNext

(* A host that writes its configuration long before the run meets the array *)
(* of ClockedArray: SysConfigRun does nothing, and what is proved there     *)
(* holds whatever Lead is.                                                  *)
THEOREM ConfiguredBefore == ASSUME ~Reconfig PROVE ConfigSpec => Spec
<1>1. ConfigInit => Init /\ NoConfig
  BY DEF ConfigInit, NoConfig, Due
<1>2. NoConfig /\ [ConfigNext]_configVars => NoConfig' /\ [Next]_vars
  BY NoConfigStays
<1>3. QED
  BY <1>1, <1>2, PTL DEF ConfigSpec, Spec
=============================================================================
