--------------------------- MODULE AxiPortProofs ---------------------------
(***************************************************************************)
(* AxiArbiter, for every number of masters, of writers among them, burst   *)
(* length and channel capacity, with and without random stalls.            *)
(*                                                                         *)
(* Round robin: while a request is held, fewer than Size others go before  *)
(* it (InTurn).                                                            *)
(*                                                                         *)
(* Routing: everybody gets his own data, in order (ReadsRouted), words are *)
(* stored under their own address (WritesPaired), and everybody gets his   *)
(* own response (ResponsesRouted).  The arbiter knows whom an answer is    *)
(* for only from the order of the requests, so the invariants put the      *)
(* queues on the way into one sequence of owners, one of answers and one   *)
(* of words, and say how they fit.  A step moves an entry from one queue   *)
(* to the next, which leaves the sequences as they are, or adds at the end *)
(* of one or takes from its beginning.                                     *)
(***************************************************************************)
EXTENDS AxiPort, SequenceTheorems, TLAPS

(* How many others may still be chosen before i when next is 0 .. k-1.      *)
Dist(i, k) == IF i < k THEN k - 1 - i ELSE k + Size - 1 - i

(* What is needed of a requester as a record. *)
Fields == {"at", "valid", "reg", "next", "chosen", "passed"}
Shape(t) == t = [f \in Fields |-> t[f]]

(* The inductive invariant: turns and distances of a requester add up to    *)
(* less than Size.                                                          *)
TurnFor(t, k) ==
    /\ t.next = 0 .. k-1
    /\ \A i \in t.valid : t.passed[i] + Dist(i, k) <= Size - 1

Turn(t) ==
    /\ Shape(t)
    /\ t.valid \in SUBSET Masters
    /\ t.passed \in [Masters -> Nat]
    /\ \A i \in Masters \ t.valid : t.passed[i] = 0
    /\ t.chosen \in Masters /\ t.passed[t.chosen] = 0
    /\ \E k \in 1 .. Size : TurnFor(t, k)

-----------------------------------------------------------------------------
(* What pick returns when it is the turn of 0 .. k-1. *)
LEMMA PickOne ==
    ASSUME NEW valid \in SUBSET Masters, NEW k \in 1 .. Size, NEW c \in Pick(valid, 0 .. k-1)
    PROVE  /\ c \in valid
           /\ c < k => \A i \in valid : i < k => i <= c
           /\ c >= k => \A i \in valid : k <= i /\ i <= c
<1>1. CASE valid \cap (0 .. k-1) # {}
  <2>1. c \in valid \cap (0 .. k-1) /\ \A d \in valid \cap (0 .. k-1) : d <= c
    BY <1>1 DEF Pick, Top
  <2>2. c < k
    BY <2>1, SizeAssumption DEF Masters
  <2>. QED
    BY <2>1, <2>2, SizeAssumption DEF Masters
<1>2. CASE valid \cap (0 .. k-1) = {}
  <2>1. c \in valid /\ \A d \in valid : d <= c
    BY <1>2 DEF Pick, Top
  <2>2. \A d \in valid : k <= d
    BY <1>2, SizeAssumption DEF Masters
  <2>. QED
    BY <2>1, <2>2, SizeAssumption DEF Masters
<1>. QED
  BY <1>1, <1>2

(* A choice brings everybody else who is waiting closer to his turn. *)
LEMMA Closer ==
    ASSUME NEW valid \in SUBSET Masters, NEW k \in 1 .. Size, NEW c \in Pick(valid, 0 .. k-1)
    PROVE  \E l \in 1 .. Size :
              /\ NextMask(c) = 0 .. l-1
              /\ \A i \in valid \ {c} : Dist(i, l) + 1 <= Dist(i, k)
<1>1. /\ c \in valid
      /\ c < k => \A i \in valid : i < k => i <= c
      /\ c >= k => \A i \in valid : k <= i /\ i <= c
  BY PickOne
<1>2. CASE c = 0
  <2>1. Size \in 1 .. Size /\ NextMask(c) = 0 .. Size-1
    BY <1>2, SizeAssumption DEF NextMask
  <2>2. \A i \in valid \ {c} : Dist(i, Size) + 1 <= Dist(i, k)
    BY <1>1, <1>2, SizeAssumption DEF Dist, Masters
  <2>. QED
    BY <2>1, <2>2
<1>3. CASE c # 0
  <2>1. c \in 1 .. Size /\ NextMask(c) = 0 .. c-1
    BY <1>1, <1>3, SizeAssumption DEF NextMask, Masters
  <2>2. \A i \in valid \ {c} : Dist(i, c) + 1 <= Dist(i, k)
    BY <1>1, <1>3, SizeAssumption DEF Dist, Masters
  <2>. QED
    BY <2>1, <2>2
<1>. QED
  BY <1>2, <1>3

(* The beginning. *)
LEMMA TurnInit == Turn(Requester)
<1>1. Size \in 1 .. Size /\ TurnFor(Requester, Size)
  BY SizeAssumption DEF Requester, TurnFor, Masters
<1>2. Shape(Requester)
  BY DEF Shape, Fields, Requester
<1>3. 0 \in Masters
  BY SizeAssumption DEF Masters
<1>4. Requester.passed \in [Masters -> Nat] /\ Requester.valid = {} /\ Requester.chosen = 0
      /\ \A i \in Masters : Requester.passed[i] = 0
  BY DEF Requester
<1>. QED
  BY <1>1, <1>2, <1>3, <1>4 DEF Turn

(* Taking requests keeps the invariant: a new one has been passed by nobody. *)
LEMMA TurnTook ==
    ASSUME NEW t, Turn(t), NEW S \in SUBSET (Masters \ t.valid), NEW req
    PROVE  Turn(Took(t, S, req))
<1>. DEFINE u == Took(t, S, req)
<1>1. /\ Shape(u) /\ u.valid = t.valid \cup S /\ u.next = t.next /\ u.passed = t.passed
      /\ u.chosen = t.chosen
  BY DEF Turn, Shape, Fields, Took
<1>2. PICK k \in 1 .. Size : TurnFor(t, k)
  BY DEF Turn
<1>3. \A i \in S : t.passed[i] + Dist(i, k) <= Size - 1
  <2>1. \A i \in S : t.passed[i] = 0 /\ i \in Masters
    BY DEF Turn
  <2>. QED
    BY <2>1, SizeAssumption DEF Dist, Masters
<1>4. TurnFor(u, k)
  BY <1>1, <1>2, <1>3 DEF TurnFor
<1>. QED
  BY <1>1, <1>4 DEF Turn

(* A choice keeps it: what is passed once more is one closer. *)
LEMMA TurnChosen ==
    ASSUME NEW t, Turn(t), NEW c \in Pick(t.valid, t.next)
    PROVE  Turn(Chosen(t, c))
<1>. DEFINE u == Chosen(t, c)
<1>1. /\ Shape(u) /\ u.valid = t.valid /\ u.next = NextMask(c) /\ u.chosen = c
      /\ u.passed = [i \in Masters |-> IF i = c THEN 0
                                      ELSE IF i \in t.valid THEN t.passed[i] + 1 ELSE t.passed[i]]
  BY DEF Turn, Shape, Fields, Chosen
<1>2. PICK k \in 1 .. Size : TurnFor(t, k)
  BY DEF Turn
<1>3. c \in Pick(t.valid, 0 .. k-1) /\ t.valid \in SUBSET Masters
  BY <1>2 DEF TurnFor, Turn
<1>4. PICK l \in 1 .. Size : /\ NextMask(c) = 0 .. l-1
                             /\ \A i \in t.valid \ {c} : Dist(i, l) + 1 <= Dist(i, k)
  BY <1>3, Closer
<1>5. u.passed \in [Masters -> Nat]
  BY <1>1 DEF Turn
<1>6. ASSUME NEW i \in t.valid PROVE u.passed[i] + Dist(i, l) <= Size - 1
  <2>1. i \in Masters /\ t.passed[i] \in Nat /\ t.passed[i] + Dist(i, k) <= Size - 1
    BY <1>2, <1>3, <1>6 DEF TurnFor, Turn
  <2>2. CASE i = c
    BY <1>1, <2>1, <2>2, SizeAssumption DEF Dist, Masters
  <2>3. CASE i # c
    <3>1. u.passed[i] = t.passed[i] + 1 /\ Dist(i, l) + 1 <= Dist(i, k)
      BY <1>1, <1>4, <1>6, <2>1, <2>3
    <3>2. Dist(i, l) \in Int /\ Dist(i, k) \in Int
      BY <2>1, SizeAssumption DEF Dist, Masters
    <3>. QED
      BY <2>1, <3>1, <3>2, SizeAssumption
  <2>. QED
    BY <2>2, <2>3
<1>7. TurnFor(u, l)
  BY <1>1, <1>4, <1>6 DEF TurnFor
<1>8. \A i \in Masters \ u.valid : u.passed[i] = 0
  BY <1>1 DEF Turn
<1>9. u.chosen \in Masters /\ u.passed[u.chosen] = 0
  <2>1. c \in Masters
    BY <1>3, PickOne
  <2>. QED
    BY <1>1, <2>1
<1>. QED
  BY <1>1, <1>3, <1>5, <1>7, <1>8, <1>9 DEF Turn

(* What the thread does next does not matter. *)
LEMMA TurnAt ==
    ASSUME NEW t, Turn(t), NEW at
    PROVE  Turn([t EXCEPT !.at = at])
<1>. DEFINE u == [t EXCEPT !.at = at]
<1>1. /\ Shape(u) /\ u.valid = t.valid /\ u.next = t.next /\ u.passed = t.passed
      /\ u.chosen = t.chosen
  BY DEF Turn, Shape, Fields
<1>2. PICK k \in 1 .. Size : TurnFor(t, k)
  BY DEF Turn
<1>3. TurnFor(u, k)
  BY <1>1, <1>2 DEF TurnFor
<1>. QED
  BY <1>1, <1>3 DEF Turn

(* Passing the request on keeps it: the one chosen has been passed by nobody. *)
LEMMA TurnPassed ==
    ASSUME NEW t, Turn(t)
    PROVE  Turn(Passed(t))
<1>. DEFINE u == Passed(t)
<1>1. /\ Shape(u) /\ u.valid = t.valid \ {t.chosen} /\ u.next = t.next /\ u.passed = t.passed
      /\ u.chosen = t.chosen
  BY DEF Turn, Shape, Fields, Passed
<1>2. PICK k \in 1 .. Size : TurnFor(t, k)
  BY DEF Turn
<1>3. TurnFor(u, k)
  BY <1>1, <1>2 DEF TurnFor
<1>. QED
  BY <1>1, <1>3 DEF Turn

(* One iteration of run_ar or run_aw keeps it. *)
LEMMA TurnPoll ==
    ASSUME NEW t, Turn(t), NEW tt, NEW req, NEW reqq, RequestPoll(t, tt, req, reqq)
    PROVE  Turn(tt)
<1>1. PICK S \in SUBSET (Masters \ t.valid) :
        \E c \in Pick(t.valid \cup S, t.next) : tt = Chosen(Took(t, S, req), c)
  BY DEF RequestPoll
<1>2. PICK c \in Pick(t.valid \cup S, t.next) : tt = Chosen(Took(t, S, req), c)
  BY <1>1
<1>3. Turn(Took(t, S, req))
  BY TurnTook
<1>4. Took(t, S, req).valid = t.valid \cup S /\ Took(t, S, req).next = t.next
  BY DEF Turn, Shape, Fields, Took
<1>. QED
  BY <1>2, <1>3, <1>4, TurnChosen

(* The distance is never negative, so the count stays below Size.          *)
LEMMA TurnBound ==
    ASSUME NEW t, Turn(t), NEW i \in Masters
    PROVE  t.passed[i] < Size
<1>1. PICK k \in 1 .. Size : TurnFor(t, k)
  BY DEF Turn
<1>2. t.passed[i] \in Nat
  BY DEF Turn
<1>3. CASE i \in t.valid
  <2>1. t.passed[i] + Dist(i, k) <= Size - 1
    BY <1>1, <1>3 DEF TurnFor
  <2>2. Dist(i, k) \in Nat
    BY SizeAssumption DEF Dist, Masters
  <2>. QED
    BY <1>2, <2>1, <2>2, SizeAssumption
<1>4. CASE i \notin t.valid
  BY <1>4, SizeAssumption DEF Turn
<1>. QED
  BY <1>3, <1>4

-----------------------------------------------------------------------------
Turns == Turn(ar) /\ Turn(aw)

(* Every thread's step keeps both invariants. *)
LEMMA TurnsKept == Turns /\ [Next]_vars => Turns'
<1>. SUFFICES ASSUME Turns, [Next]_vars PROVE Turns'
  OBVIOUS
<1>1. ASSUME ar' = ar, aw' = aw PROVE Turns'
  BY <1>1 DEF Turns
<1>2. CASE run_ar
  <2>1. CASE ArPoll
    BY <2>1, TurnPoll DEF ArPoll, Turns, writeVars
  <2>2. CASE ArPush
    BY <2>2, TurnPassed, TurnAt DEF ArPush, Turns, writeVars
  <2>3. CASE ArInFlight
    BY <2>3, TurnAt DEF ArInFlight, Turns, writeVars
  <2>. QED
    BY <1>2, <2>1, <2>2, <2>3 DEF run_ar
<1>3. CASE run_aw
  <2>1. CASE AwPoll
    BY <2>1, TurnPoll DEF AwPoll, Turns, readVars
  <2>2. CASE AwPush
    BY <2>2, TurnAt DEF AwPush, Turns, readVars
  <2>3. CASE AwActive
    BY <2>3, TurnAt DEF AwActive, Turns, readVars
  <2>4. CASE AwInFlight
    BY <2>4, TurnAt DEF AwInFlight, Turns, readVars
  <2>5. CASE AwLast
    BY <2>5, TurnPassed DEF AwLast, Turns, readVars
  <2>. QED
    BY <1>3, <2>1, <2>2, <2>3, <2>4, <2>5 DEF run_aw
<1>4. CASE run_r
  BY <1>4, <1>1 DEF run_r, RPoll, RPush, writeVars
<1>5. CASE run_w
  BY <1>5, <1>1 DEF run_w, WActive, WPop, WPush, WLast, readVars
<1>6. CASE run_b
  BY <1>6, <1>1 DEF run_b, BPoll, BPush, readVars
<1>7. CASE \E i \in Masters : ReadRequest(i) \/ ReadData(i)
  BY <1>7, <1>1 DEF ReadRequest, ReadData, writeVars
<1>8. CASE \E i \in Writers : WriteRequest(i) \/ WriteData(i) \/ WriteResponse(i)
  BY <1>8, <1>1 DEF WriteRequest, WriteData, WriteResponse, readVars
<1>9. CASE Slave
  BY <1>9, <1>1 DEF Slave, SlaveTakeRead, SlaveGiveBeat, SlaveTakeAddr, SlaveTakeData,
                    SlaveStore, SlaveGiveResponse, readVars, writeVars
<1>10. CASE UNCHANGED vars
  BY <1>10, <1>1 DEF vars, readVars, writeVars
<1>. QED
  BY <1>2, <1>3, <1>4, <1>5, <1>6, <1>7, <1>8, <1>9, <1>10 DEF Next

(* For every number of masters, burst length, channel capacity, with and    *)
(* without random stalls: while AxiArbiter holds a request, it passes on at *)
(* most Size - 1 others before it.                                          *)
THEOREM RoundRobin == Spec => []InTurn
<1>1. Init => Turns
  BY TurnInit DEF Init, Turns
<1>2. Turns => InTurn
  BY TurnBound DEF Turns, InTurn
<1>. QED
  BY <1>1, <1>2, TurnsKept, PTL DEF Spec

-----------------------------------------------------------------------------
(* Sequences *)

(* A channel's oldest entry moves to the end of the one before it: together *)
(* they are as they were.                                                   *)
LEMMA Moved ==
    ASSUME NEW T, NEW s \in Seq(T), NEW t \in Seq(T), t # << >>
    PROVE  Append(s, Head(t)) \o Tail(t) = s \o t
<1>1. /\ Head(t) \in T /\ Tail(t) \in Seq(T) /\ Len(Tail(t)) = Len(t) - 1 /\ Head(t) = t[1]
      /\ \A k \in 1 .. Len(Tail(t)) : Tail(t)[k] = t[k+1]
      /\ Len(t) \in Nat /\ Len(t) >= 1
  BY HeadTailProperties
<1>2. /\ Append(s, Head(t)) \in Seq(T) /\ Len(Append(s, Head(t))) = Len(s) + 1
      /\ \A k \in 1 .. Len(s) : Append(s, Head(t))[k] = s[k]
      /\ Append(s, Head(t))[Len(s) + 1] = Head(t)
      /\ Len(s) \in Nat
  BY <1>1, AppendProperties
<1> DEFINE u == Append(s, Head(t))
           v == Tail(t)
<1> HIDE DEF u, v
<1>3. /\ u \o v \in Seq(T) /\ Len(u \o v) = Len(u) + Len(v)
      /\ \A i \in 1 .. Len(u) + Len(v) : (u \o v)[i] = IF i <= Len(u) THEN u[i] ELSE v[i - Len(u)]
  BY <1>1, <1>2, ConcatProperties DEF u, v
<1>4. /\ s \o t \in Seq(T) /\ Len(s \o t) = Len(s) + Len(t)
      /\ \A i \in 1 .. Len(s) + Len(t) : (s \o t)[i] = IF i <= Len(s) THEN s[i] ELSE t[i - Len(s)]
  BY ConcatProperties
<1>5. Len(u \o v) = Len(s \o t)
  BY <1>1, <1>2, <1>3, <1>4 DEF u, v
<1>6. ASSUME NEW i \in 1 .. Len(s) + Len(t)
      PROVE  (u \o v)[i] = (s \o t)[i]
  <2>1. CASE i <= Len(s)
    BY <1>1, <1>2, <1>3, <1>4, <2>1 DEF u, v
  <2>2. CASE i = Len(s) + 1
    <3>1. (u \o v)[i] = Head(t)
      BY <1>1, <1>2, <1>3, <2>2 DEF u, v
    <3>2. (s \o t)[i] = t[1]
      <4>1. i - Len(s) = 1 /\ ~(i <= Len(s)) /\ i \in 1 .. Len(s) + Len(t)
        BY <1>1, <1>2, <2>2
      <4>2. QED
        BY <1>4, <4>1
    <3>3. QED
      BY <1>1, <3>1, <3>2
  <2>3. CASE i > Len(s) + 1
    <3>1. (u \o v)[i] = v[i - (Len(s) + 1)] /\ i - (Len(s) + 1) \in 1 .. Len(v)
      BY <1>1, <1>2, <1>3, <2>3 DEF u, v
    <3>2. v[i - (Len(s) + 1)] = t[(i - (Len(s) + 1)) + 1]
      BY <1>1, <3>1 DEF v
    <3>3. (i - (Len(s) + 1)) + 1 = i - Len(s) /\ i \in 1 .. Len(s) + Len(t) /\ ~(i <= Len(s))
      BY <1>1, <1>2, <1>5, <1>4, <2>3
    <3>4. QED
      BY <1>4, <3>1, <3>2, <3>3
  <2>4. i \in Int /\ Len(s) \in Int
    BY <1>1, <1>2
  <2>5. i <= Len(s) \/ i = Len(s) + 1 \/ i > Len(s) + 1
    BY <2>4
  <2>6. QED
    BY <2>1, <2>2, <2>3, <2>5
<1>7. QED
  BY <1>3, <1>4, <1>5, <1>6, SeqEqual DEF u, v

(* The same in short, for the queues and streams below. *)
LEMMA Appended ==
    ASSUME NEW T, NEW s \in Seq(T), NEW e \in T
    PROVE  /\ Append(s, e) \in Seq(T) /\ Append(s, e) # << >> /\ Len(Append(s, e)) = Len(s) + 1
           /\ \A k \in 1 .. Len(s) : Append(s, e)[k] = s[k]
           /\ Append(s, e)[Len(s) + 1] = e
           /\ Len(s) \in Nat
BY AppendProperties

(* What is left of a queue when its first entry is taken. *)
LEMMA TailOf ==
    ASSUME NEW T, NEW s \in Seq(T), s # << >>
    PROVE  /\ Tail(s) \in Seq(T) /\ Len(Tail(s)) = Len(s) - 1
           /\ \A k \in 1 .. Len(s) - 1 : Tail(s)[k] = s[k + 1]
           /\ Head(s) = s[1] /\ s[1] \in T
           /\ Len(s) \in Nat /\ Len(s) >= 1
BY HeadTailProperties

-----------------------------------------------------------------------------
(* Beats in the order of their bursts *)

(* A beat of data: the burst, its place in it, and the mark on the last.    *)
BeatType == [burst : Burst, k : 1 .. MaxLen, last : BOOLEAN]

(* No entry twice; the beats of a burst.                                    *)
Distinct(B) == \A p, q \in 1 .. Len(B) : B[p] = B[q] => p = q
InBurst(beat, burst) == \E k \in 1 .. burst.len : beat = Beat(burst, k)

(* What comes after beat x, if the bursts are those of B. *)
NextBeat(x, y, B) ==
    IF x.last
    THEN \A p \in 1 .. Len(B) : B[p] = x.burst => p < Len(B) /\ y = Beat(B[p+1], 1)
    ELSE y = Beat(x.burst, x.k + 1)

(* S has beats of the bursts of B, in order and without a gap, the first of *)
(* them of the first.                                                       *)
Chained(S, B) ==
    /\ \A j \in 1 .. Len(S) : \E p \in 1 .. Len(B) : InBurst(S[j], B[p])
    /\ \A j \in 1 .. Len(S) - 1 : NextBeat(S[j], S[j+1], B)
    /\ \A j, l \in 1 .. Len(S) : j < l /\ S[j].last => S[l].burst # S[j].burst
    /\ S # << >> => S[1].burst = B[1]

(* Beat k of a burst. *)
LEMMA BeatIs ==
    ASSUME NEW burst \in Burst, NEW k
    PROVE  /\ Beat(burst, k).burst = burst /\ Beat(burst, k).k = k
           /\ Beat(burst, k).last <=> k = burst.len
           /\ burst.len \in Nat /\ burst.len >= 1
           /\ k \in 1 .. burst.len => Beat(burst, k) \in BeatType
<1>1. Beat(burst, k).burst = burst /\ Beat(burst, k).k = k /\ Beat(burst, k).last = (k = burst.len)
  BY DEF Beat
<1>2. burst.len \in Nat /\ burst.len >= 1 /\ burst.len \in 1 .. MaxLen /\ MaxLen \in Nat
  BY MaxLenAssumption DEF Burst
<1>3. ASSUME k \in 1 .. burst.len PROVE Beat(burst, k) \in BeatType
  <2>1. k \in 1 .. MaxLen /\ (k = burst.len) \in BOOLEAN
    BY <1>2, <1>3
  <2>2. QED
    BY <2>1 DEF Beat, BeatType
<1>4. QED
  BY <1>1, <1>2, <1>3

(* The first beat is taken: if it was the last of its burst, the next ones  *)
(* begin with the first beat of the next burst.                             *)
LEMMA ChainPop ==
    ASSUME NEW S \in Seq(BeatType), NEW B \in Seq(Burst), Distinct(B), Chained(S, B), S # << >>
    PROVE  /\ B # << >> /\ InBurst(S[1], B[1])
           /\ ~S[1].last => Chained(Tail(S), B)
           /\ S[1].last => Chained(Tail(S), Tail(B))
           /\ Tail(S) # << >> =>
                 IF S[1].last THEN Len(B) > 1 /\ Tail(S)[1] = Beat(B[2], 1)
                 ELSE Tail(S)[1] = Beat(B[1], S[1].k + 1)
<1>1. /\ Tail(S) \in Seq(BeatType) /\ Len(Tail(S)) = Len(S) - 1
      /\ \A k \in 1 .. Len(S) - 1 : Tail(S)[k] = S[k+1]
      /\ Len(S) \in Nat /\ Len(S) >= 1
  BY TailOf
<1>2. PICK p \in 1 .. Len(B) : InBurst(S[1], B[p])
  BY <1>1 DEF Chained
<1>3. B # << >> /\ Len(B) \in Nat /\ Len(B) >= 1 /\ \A q \in 1 .. Len(B) : B[q] \in Burst
  BY <1>2
<1>4. InBurst(S[1], B[1]) /\ S[1].burst = B[1]
  <2>1. S[1].burst = B[p]
    BY <1>2, <1>3, BeatIs DEF InBurst
  <2>2. S[1].burst = B[1]
    BY DEF Chained
  <2>3. QED
    BY <1>2, <2>1, <2>2
<1>5. ASSUME Tail(S) # << >>
      PROVE  1 \in 1 .. Len(S) - 1 /\ NextBeat(S[1], Tail(S)[1], B)
  <2>1. Len(Tail(S)) >= 1 /\ 1 \in 1 .. Len(S) - 1
    BY <1>1, <1>5, EmptySeq
  <2>2. Tail(S)[1] = S[1 + 1]
    BY <1>1, <2>1
  <2>3. QED
    BY <2>1, <2>2 DEF Chained
<1>6. Tail(S) # << >> =>
        IF S[1].last THEN Len(B) > 1 /\ Tail(S)[1] = Beat(B[2], 1)
        ELSE Tail(S)[1] = Beat(B[1], S[1].k + 1)
  BY <1>3, <1>4, <1>5 DEF NextBeat
<1>9. ASSUME NEW j \in 1 .. Len(Tail(S)), NEW l \in 1 .. Len(Tail(S)), j < l, Tail(S)[j].last
      PROVE  Tail(S)[l].burst # Tail(S)[j].burst
  <2>1. j + 1 \in 1 .. Len(S) /\ l + 1 \in 1 .. Len(S) /\ j + 1 < l + 1
    BY <1>1, <1>9
  <2>2. Tail(S)[j] = S[j+1] /\ Tail(S)[l] = S[l+1]
    BY <1>1
  <2>3. QED
    BY <1>9, <2>1, <2>2 DEF Chained
<1>7. ASSUME ~S[1].last PROVE Chained(Tail(S), B)
  <2>1. ASSUME NEW j \in 1 .. Len(Tail(S))
        PROVE  \E q \in 1 .. Len(B) : InBurst(Tail(S)[j], B[q])
    BY <1>1 DEF Chained
  <2>2. ASSUME NEW j \in 1 .. Len(Tail(S)) - 1
        PROVE  NextBeat(Tail(S)[j], Tail(S)[j+1], B)
    BY <1>1 DEF Chained
  <2>3. Tail(S) # << >> => Tail(S)[1].burst = B[1]
    BY <1>3, <1>6, <1>7, BeatIs
  <2>4. QED
    BY <1>9, <2>1, <2>2, <2>3 DEF Chained
<1>8. ASSUME S[1].last PROVE Chained(Tail(S), Tail(B))
  <2>1. /\ Len(Tail(B)) = Len(B) - 1
        /\ \A k \in 1 .. Len(B) - 1 : Tail(B)[k] = B[k+1]
    BY <1>3, TailOf
  <2>2. ASSUME NEW j \in 1 .. Len(Tail(S))
        PROVE  \E q \in 1 .. Len(Tail(B)) : InBurst(Tail(S)[j], Tail(B)[q])
    <3>1. j + 1 \in 1 .. Len(S) /\ 1 \in 1 .. Len(S) /\ 1 < j + 1 /\ Tail(S)[j] = S[j+1]
      BY <1>1
    <3>2. PICK q \in 1 .. Len(B) : InBurst(S[j+1], B[q])
      BY <3>1 DEF Chained
    <3>3. S[j+1].burst # S[1].burst
      BY <1>8, <3>1 DEF Chained
    <3>4. S[j+1].burst = B[q] /\ q # 1
      BY <1>3, <1>4, <3>2, <3>3, BeatIs DEF InBurst
    <3>5. q - 1 \in 1 .. Len(Tail(B)) /\ Tail(B)[q-1] = B[q]
      BY <1>3, <2>1, <3>4
    <3>6. QED
      BY <3>1, <3>2, <3>5
  <2>3. ASSUME NEW j \in 1 .. Len(Tail(S)) - 1
        PROVE  NextBeat(Tail(S)[j], Tail(S)[j+1], Tail(B))
    <3>1. NextBeat(Tail(S)[j], Tail(S)[j+1], B)
      BY <1>1 DEF Chained
    <3>2. QED
      BY <1>3, <2>1, <3>1 DEF NextBeat
  <2>4. Tail(S) # << >> => Tail(S)[1].burst = Tail(B)[1]
    BY <1>3, <1>6, <1>8, <2>1, BeatIs
  <2>5. QED
    BY <1>9, <2>2, <2>3, <2>4 DEF Chained
<1>10. QED
  BY <1>3, <1>4, <1>6, <1>7, <1>8

(* A beat is added that follows the last one, of the last burst.  *)
LEMMA ChainAdd ==
    ASSUME NEW S \in Seq(BeatType), NEW B \in Seq(Burst), Distinct(B), Chained(S, B),
           NEW x \in BeatType, B # << >>, InBurst(x, B[Len(B)]),
           S = << >> => Len(B) = 1,
           S # << >> => IF S[Len(S)].last
                        THEN Len(B) > 1 /\ S[Len(S)].burst = B[Len(B) - 1] /\ x = Beat(B[Len(B)], 1)
                        ELSE x = Beat(S[Len(S)].burst, S[Len(S)].k + 1)
    PROVE  Chained(Append(S, x), B)
<1> DEFINE u == Append(S, x)
           n == Len(S)
<1>1. /\ u \in Seq(BeatType) /\ Len(u) = n + 1 /\ n \in Nat /\ u # << >>
      /\ \A j \in 1 .. n : u[j] = S[j]
      /\ u[n+1] = x
  BY Appended
<1>2. Len(B) \in Nat /\ Len(B) >= 1 /\ \A q \in 1 .. Len(B) : B[q] \in Burst
  BY EmptySeq
<1>3. x.burst = B[Len(B)]
  BY <1>2, BeatIs DEF InBurst
<1> HIDE DEF u
<1>4. ASSUME NEW j \in 1 .. Len(u)
      PROVE  \E p \in 1 .. Len(B) : InBurst(u[j], B[p])
  <2>1. CASE j = n + 1
    BY <1>1, <1>2, <2>1
  <2>2. CASE j # n + 1
    <3>1. j \in 1 .. Len(S) /\ u[j] = S[j]
      BY <1>1, <2>2
    <3>2. QED
      BY <3>1 DEF Chained
  <2>3. QED
    BY <2>1, <2>2
<1>5. ASSUME n > 0, S[n].last, NEW p \in 1 .. Len(B), B[p] = S[n].burst
      PROVE  p + 1 = Len(B) /\ x = Beat(B[p+1], 1)
  <2>1. S # << >>
    BY <1>5
  <2>2. Len(B) > 1 /\ S[n].burst = B[Len(B) - 1] /\ x = Beat(B[Len(B)], 1)
    BY <1>5, <2>1
  <2>3. Len(B) - 1 \in 1 .. Len(B)
    BY <1>2, <2>2
  <2>4. p = Len(B) - 1
    BY <1>5, <2>2, <2>3 DEF Distinct
  <2>5. QED
    BY <1>2, <2>2, <2>4
<1>6. ASSUME NEW j \in 1 .. Len(u) - 1
      PROVE  NextBeat(u[j], u[j+1], B)
  <2>1. CASE j = n
    <3>1. n > 0 /\ S # << >> /\ u[j] = S[n] /\ u[j+1] = x
      BY <1>1, <2>1
    <3>2. CASE S[n].last
      BY <1>2, <1>5, <3>1, <3>2 DEF NextBeat
    <3>3. CASE ~S[n].last
      BY <3>1, <3>3 DEF NextBeat
    <3>4. QED
      BY <3>2, <3>3
  <2>2. CASE j # n
    <3>1. j \in 1 .. n - 1 /\ u[j] = S[j] /\ u[j+1] = S[j+1]
      BY <1>1, <2>2
    <3>2. QED
      BY <3>1 DEF Chained
  <2>3. QED
    BY <2>1, <2>2
<1>7. ASSUME NEW j \in 1 .. Len(u), NEW l \in 1 .. Len(u), j < l, u[j].last
      PROVE  u[l].burst # u[j].burst
  <2>1. j \in 1 .. n /\ u[j] = S[j]
    BY <1>1, <1>7
  <2>2. CASE l = n + 1
    <3>1. u[l].burst = B[Len(B)]
      BY <1>1, <1>3, <2>2
    <3>2. SUFFICES ASSUME S[j].burst = B[Len(B)] PROVE FALSE
      BY <2>1, <3>1
    <3>3. Len(B) \in 1 .. Len(B)
      BY <1>2
    <3>4. CASE j = n
      BY <1>2, <1>5, <1>7, <2>1, <3>2, <3>3, <3>4
    <3>5. CASE j # n
      <4>1. j \in 1 .. n - 1
        BY <1>1, <2>1, <3>5
      <4>2. NextBeat(S[j], S[j+1], B) /\ S[j].last
        BY <1>7, <2>1, <4>1 DEF Chained
      <4>3. QED
        BY <1>2, <3>2, <3>3, <4>2 DEF NextBeat
    <3>6. QED
      BY <3>4, <3>5
  <2>3. CASE l # n + 1
    <3>1. l \in 1 .. n /\ u[l] = S[l]
      BY <1>1, <2>3
    <3>2. QED
      BY <1>7, <2>1, <3>1 DEF Chained
  <2>4. QED
    BY <2>2, <2>3
<1>8. u[1].burst = B[1]
  <2>1. CASE S = << >>
    <3>1. n + 1 = 1
      BY <2>1, EmptySeq
    <3>2. QED
      BY <1>1, <1>3, <2>1, <3>1
  <2>2. CASE S # << >>
    <3>1. n >= 1
      BY <2>2, EmptySeq
    <3>2. QED
      BY <1>1, <2>2, <3>1 DEF Chained
  <2>3. QED
    BY <2>1, <2>2
<1>9. QED
  BY <1>4, <1>6, <1>7, <1>8 DEF Chained, u

(* A further burst does no harm. *)
LEMMA ChainMore ==
    ASSUME NEW S \in Seq(BeatType), NEW B \in Seq(Burst), Chained(S, B), NEW c \in Burst,
           \A p \in 1 .. Len(B) : B[p] # c
    PROVE  Chained(S, Append(B, c))
<1> DEFINE v == Append(B, c)
<1>1. /\ v \in Seq(Burst) /\ Len(v) = Len(B) + 1 /\ Len(B) \in Nat
      /\ \A p \in 1 .. Len(B) : v[p] = B[p]
      /\ v[Len(B) + 1] = c
  BY Appended
<1>2. \A p \in 1 .. Len(B) : B[p] \in Burst
  OBVIOUS
<1> HIDE DEF v
<1>3. ASSUME NEW j \in 1 .. Len(S)
      PROVE  \E p \in 1 .. Len(v) : InBurst(S[j], v[p])
  <2>1. PICK p \in 1 .. Len(B) : InBurst(S[j], B[p])
    BY DEF Chained
  <2>2. p \in 1 .. Len(v) /\ v[p] = B[p]
    BY <1>1
  <2>3. QED
    BY <2>1, <2>2
<1>4. ASSUME NEW j \in 1 .. Len(S) - 1
      PROVE  NextBeat(S[j], S[j+1], v)
  <2>0. j \in 1 .. Len(S)
    BY EmptySeq
  <2>1. NextBeat(S[j], S[j+1], B) /\ j \in 1 .. Len(S)
    BY <2>0 DEF Chained
  <2>2. PICK q \in 1 .. Len(B) : InBurst(S[j], B[q])
    BY <2>1 DEF Chained
  <2>3. S[j].burst = B[q]
    BY <1>2, <2>2, BeatIs DEF InBurst
  <2>4. ASSUME S[j].last, NEW p \in 1 .. Len(v), v[p] = S[j].burst
        PROVE  p < Len(v) /\ S[j+1] = Beat(v[p+1], 1)
    <3>1. p \in 1 .. Len(B) /\ B[p] = S[j].burst
      BY <1>1, <2>3, <2>4
    <3>2. p < Len(B) /\ S[j+1] = Beat(B[p+1], 1)
      BY <2>1, <2>4, <3>1 DEF NextBeat
    <3>3. p + 1 \in 1 .. Len(B) /\ p < Len(v)
      BY <1>1, <3>1, <3>2, SMTT(60)
    <3>4. QED
      BY <1>1, <3>2, <3>3
  <2>5. QED
    BY <2>1, <2>4 DEF NextBeat
<1>5. ASSUME S # << >> PROVE S[1].burst = v[1]
  <2>1. 1 \in 1 .. Len(S)
    BY <1>5, EmptySeq
  <2>2. 1 \in 1 .. Len(B)
    BY <2>1, <1>1 DEF Chained
  <2>3. QED
    BY <1>1, <1>5, <2>2 DEF Chained
<1>6. QED
  BY <1>3, <1>4, <1>5 DEF Chained, v

(* A whole burst is added after the last beat of the one before. *)
Complete(S, B) ==
    IF B = << >> THEN S = << >>
    ELSE S # << >> /\ S[Len(S)].last /\ S[Len(S)].burst = B[Len(B)]

(* The beats with which the slave answers a read request. *)
LEMMA BeatsAre ==
    ASSUME NEW c \in Burst
    PROVE  /\ Beats(c) \in Seq(BeatType) /\ Len(Beats(c)) = c.len /\ c.len \in Nat /\ c.len >= 1
           /\ \A k \in 1 .. c.len : Beats(c)[k] = Beat(c, k) /\ InBurst(Beat(c, k), c)
<1>1. c.len \in Nat /\ c.len >= 1
  BY BeatIs
<1>2. \A k \in 1 .. c.len : Beats(c)[k] = Beat(c, k) /\ Beat(c, k) \in BeatType
  BY BeatIs DEF Beats
<1>3. Beats(c) \in Seq(BeatType)
  <2>1. Beats(c) \in [1 .. c.len -> BeatType]
    BY <1>2 DEF Beats
  <2>2. QED
    BY <1>1, <2>1
<1>4. Len(Beats(c)) = c.len
  BY <1>1, <1>3 DEF Beats
<1>5. QED
  BY <1>1, <1>2, <1>3, <1>4 DEF InBurst

(* The slave answers the next request: the beats of a burst new to S are put*)
(* behind those of the bursts before it.                                    *)
LEMMA ChainBurst ==
    ASSUME NEW S \in Seq(BeatType), NEW B \in Seq(Burst), Distinct(B), Chained(S, B), Complete(S, B),
           NEW c \in Burst, \A p \in 1 .. Len(B) : B[p] # c
    PROVE  /\ S \o Beats(c) \in Seq(BeatType)
           /\ Chained(S \o Beats(c), Append(B, c)) /\ Complete(S \o Beats(c), Append(B, c))
           /\ S # << >> => (S \o Beats(c))[1] = S[1]
           /\ S = << >> => (S \o Beats(c))[1] = Beat(c, 1)
           /\ S \o Beats(c) # << >>
<1> DEFINE T == Beats(c)
           u == S \o T
           v == Append(B, c)
           n == Len(S)
<1>1. /\ T \in Seq(BeatType) /\ Len(T) = c.len /\ c.len \in Nat /\ c.len >= 1
      /\ \A k \in 1 .. c.len : T[k] = Beat(c, k) /\ InBurst(Beat(c, k), c)
  BY BeatsAre
<1> HIDE DEF T
<1>2. /\ u \in Seq(BeatType) /\ Len(u) = n + c.len /\ n \in Nat
      /\ \A j \in 1 .. n : u[j] = S[j]
      /\ \A k \in 1 .. c.len : u[n + k] = Beat(c, k)
  <2>1. /\ u \in Seq(BeatType) /\ Len(u) = Len(S) + Len(T)
        /\ \A i \in 1 .. Len(S) + Len(T) : u[i] = IF i <= Len(S) THEN S[i] ELSE T[i - Len(S)]
    BY <1>1, ConcatProperties
  <2>2. n \in Nat
    OBVIOUS
  <2>3. ASSUME NEW k \in 1 .. c.len PROVE u[n + k] = Beat(c, k)
    <3>1. n + k \in 1 .. Len(S) + Len(T) /\ ~(n + k <= Len(S)) /\ n + k - Len(S) = k
      BY <1>1, <2>2
    <3>2. QED
      BY <1>1, <2>1, <3>1
  <2>4. QED
    BY <1>1, <2>1, <2>2, <2>3
<1>3. /\ v \in Seq(Burst) /\ Len(v) = Len(B) + 1 /\ Len(B) \in Nat
      /\ \A p \in 1 .. Len(B) : v[p] = B[p]
      /\ v[Len(B) + 1] = c /\ v # << >>
  BY Appended
<1>4. Chained(S, v)
  BY ChainMore
<1>5. \A k \in 1 .. c.len : Beat(c, k).burst = c /\ Beat(c, k).k = k /\ (Beat(c, k).last <=> k = c.len)
  BY BeatIs
<1>6. \A j \in 1 .. n : S[j].burst # c
  <2>1. TAKE j \in 1 .. n
  <2>2. PICK p \in 1 .. Len(B) : InBurst(S[j], B[p])
    BY DEF Chained
  <2>3. S[j].burst = B[p]
    BY <2>2, BeatIs DEF InBurst
  <2>4. QED
    BY <2>3
<1> HIDE DEF u, v
<1>7. ASSUME NEW j \in 1 .. Len(u), ~(j \in 1 .. n)
      PROVE  j - n \in 1 .. c.len /\ u[j] = Beat(c, j - n)
  <2>1. j - n \in 1 .. c.len /\ n + (j - n) = j
    BY <1>1, <1>2, <1>7
  <2>2. QED
    BY <1>2, <2>1
<1>8. ASSUME NEW j \in 1 .. Len(u)
      PROVE  \E p \in 1 .. Len(v) : InBurst(u[j], v[p])
  <2>1. CASE j \in 1 .. n
    BY <1>2, <1>4, <2>1 DEF Chained
  <2>2. CASE ~(j \in 1 .. n)
    <3>1. Len(B) + 1 \in 1 .. Len(v)
      BY <1>3
    <3>2. QED
      BY <1>1, <1>3, <1>7, <2>2, <3>1
  <2>3. QED
    BY <2>1, <2>2
<1>9. ASSUME NEW j \in 1 .. Len(u) - 1
      PROVE  NextBeat(u[j], u[j+1], v)
  <2>1. CASE j \in 1 .. n - 1
    <3>1. j \in 1 .. n /\ j + 1 \in 1 .. n
      BY <1>2, <2>1
    <3>2. QED
      BY <1>2, <1>4, <2>1, <3>1 DEF Chained
  <2>2. CASE j = n
    <3>1. n \in 1 .. n /\ u[n] = S[n] /\ u[n+1] = Beat(c, 1) /\ S # << >>
      BY <1>1, <1>2, <2>2, EmptySeq
    <3>2. B # << >> /\ S[n].last /\ S[n].burst = B[Len(B)]
      BY <3>1 DEF Complete
    <3>3. Len(B) >= 1
      BY <3>2, <1>3, EmptySeq
    <3>4. ASSUME NEW p \in 1 .. Len(v), v[p] = S[n].burst
          PROVE  p < Len(v) /\ u[n+1] = Beat(v[p+1], 1)
      <4>1. p # Len(B) + 1
        BY <1>3, <1>6, <3>1, <3>4
      <4>2. p \in 1 .. Len(B) /\ Len(B) \in 1 .. Len(B)
        BY <1>3, <3>3, <4>1
      <4>3. p = Len(B)
        BY <1>3, <3>2, <3>4, <4>2 DEF Distinct
      <4>4. QED
        BY <1>3, <3>1, <4>3
    <3>5. QED
      BY <2>2, <3>1, <3>2, <3>4 DEF NextBeat
  <2>3. CASE j > n
    <3>1. j - n \in 1 .. c.len /\ j - n + 1 \in 1 .. c.len /\ j - n # c.len
          /\ j \in 1 .. Len(u) /\ n + (j - n) = j /\ n + (j - n + 1) = j + 1
      BY <1>1, <1>2, <2>3, SMTT(60)
    <3>2. u[j] = Beat(c, j - n) /\ u[j+1] = Beat(c, j - n + 1)
      BY <1>2, <3>1
    <3>3. QED
      BY <1>5, <3>1, <3>2, SMTT(60) DEF NextBeat
  <2>4. j \in Int /\ j >= 1 /\ n \in Int
    BY <1>2
  <2>5. QED
    BY <2>1, <2>2, <2>3, <2>4
<1>10. ASSUME NEW j \in 1 .. Len(u), NEW l \in 1 .. Len(u), j < l, u[j].last
       PROVE  u[l].burst # u[j].burst
  <2>1. CASE j \in 1 .. n
    <3>1. CASE l \in 1 .. n
      BY <1>2, <1>4, <1>10, <2>1, <3>1, SMTT(60) DEF Chained
    <3>2. CASE ~(l \in 1 .. n)
      <4>1. u[j].burst # c
        BY <1>2, <1>6, <2>1
      <4>2. u[l].burst = c
        BY <1>5, <1>7, <3>2
      <4>3. QED
        BY <4>1, <4>2
    <3>3. QED
      BY <3>1, <3>2
  <2>2. CASE ~(j \in 1 .. n)
    <3>1. j - n = c.len
      BY <1>5, <1>7, <1>10, <2>2
    <3>2. QED
      BY <1>1, <1>2, <1>10, <3>1
  <2>3. QED
    BY <2>1, <2>2
<1>11. /\ S # << >> => u[1] = S[1]
       /\ S = << >> => u[1] = Beat(c, 1) /\ n = 0
       /\ S = << >> => B = << >>
       /\ S # << >> => B # << >>
  <2>1. CASE S = << >>
    <3>1. n = 0 /\ 1 \in 1 .. c.len /\ n + 1 = 1
      BY <1>1, <2>1, EmptySeq
    <3>2. QED
      BY <1>2, <2>1, <3>1 DEF Complete
  <2>2. CASE S # << >>
    <3>1. 1 \in 1 .. n
      BY <1>2, <2>2, EmptySeq
    <3>2. QED
      BY <1>2, <2>2, <3>1 DEF Complete
  <2>3. QED
    BY <2>1, <2>2
<1>12. u[1].burst = v[1]
  <2>1. CASE S = << >>
    <3>1. Len(B) = 0 /\ Len(B) + 1 = 1 /\ 1 \in 1 .. c.len
      BY <1>1, <1>11, <2>1, EmptySeq
    <3>2. QED
      BY <1>3, <1>5, <1>11, <2>1, <3>1
  <2>2. CASE S # << >>
    BY <1>4, <1>11, <2>2 DEF Chained
  <2>3. QED
    BY <2>1, <2>2
<1>13. u # << >> /\ u[Len(u)] = Beat(c, c.len) /\ u[Len(u)].last /\ u[Len(u)].burst = v[Len(v)]
  <2>1. c.len \in 1 .. c.len /\ Len(u) > 0
    BY <1>1, <1>2
  <2>2. QED
    BY <1>2, <1>3, <1>5, <2>1
<1>14. Chained(u, v)
  BY <1>8, <1>9, <1>10, <1>12 DEF Chained
<1>15. Complete(u, v)
  BY <1>3, <1>13 DEF Complete
<1>16. QED
  BY <1>2, <1>11, <1>13, <1>14, <1>15 DEF u, v, T

(* The reads of the masters and what is on its way to them. *)
Read == [at : {"idle", "data"}, k : Nat, burst : Burst]
Reads(rds) ==
    /\ rds \in [Masters -> Read]
    /\ \A i \in Masters : rds[i].burst.master = i

(* A read of which nothing has come yet.                                    *)
Fresh(i, rds, rm) == rds[i].at = "data" /\ rds[i].k = 0 /\ rm[i] = << >>

(* The bursts of the first n owners. *)
Asked(O, n, rds) == [p \in 1 .. n |-> rds[O[p]].burst]

(* O are the masters whose reads are on their way, S the beats on their     *)
(* way to run_r, A the requests that the slave has not begun to answer: no  *)
(* master is there twice, the beats are those of the masters, one after the *)
(* other, and only the first may have got some of its beats already.        *)
Routing(O, S, A, rds, rm) ==
    /\ O \in Seq(Masters) /\ S \in Seq(BeatType) /\ A \in Seq(Burst)
    /\ Distinct(O) /\ Len(A) <= Len(O)
    /\ \A p \in 1 .. Len(O) : /\ rds[O[p]].at = "data"
                              /\ p > 1 \/ Len(A) = Len(O) => Fresh(O[p], rds, rm)
    /\ \A k \in 1 .. Len(A) : A[k] = rds[O[Len(O) - Len(A) + k]].burst
    /\ LET B == Asked(O, Len(O) - Len(A), rds) IN Chained(S, B) /\ Complete(S, B)
    /\ S # << >> => S[1].k = rds[O[1]].k + Len(rm[O[1]]) + 1

(* Owners are different, and so are the bursts they asked for. *)
LEMMA AskedIs ==
    ASSUME NEW O \in Seq(Masters), NEW n \in Nat, n <= Len(O), Distinct(O), NEW rds, Reads(rds)
    PROVE  /\ Asked(O, n, rds) \in Seq(Burst) /\ Len(Asked(O, n, rds)) = n
           /\ \A p \in 1 .. n : Asked(O, n, rds)[p] = rds[O[p]].burst /\ Asked(O, n, rds)[p].master = O[p]
           /\ Distinct(Asked(O, n, rds))
<1> DEFINE B == Asked(O, n, rds)
<1>1. \A p \in 1 .. n : O[p] \in Masters /\ p \in 1 .. Len(O)
  OBVIOUS
<1>2. \A p \in 1 .. n : B[p] = rds[O[p]].burst
  BY DEF Asked
<1>3. \A p \in 1 .. n : B[p] \in Burst /\ B[p].master = O[p]
  BY <1>1, <1>2 DEF Reads, Read
<1>4. B \in [1 .. n -> Burst]
  BY <1>3 DEF Asked
<1>5. B \in Seq(Burst) /\ Len(B) = n
  BY <1>4
<1> HIDE DEF B
<1>6. Distinct(B)
  <2>1. ASSUME NEW p \in 1 .. n, NEW q \in 1 .. n, B[p] = B[q] PROVE p = q
    BY <1>1, <1>3, <2>1 DEF Distinct
  <2>2. QED
    BY <1>5, <2>1 DEF Distinct
<1>7. QED
  BY <1>2, <1>3, <1>5, <1>6 DEF B

(* run_ar passes on a request. *)
LEMMA RoutingGranted ==
    ASSUME NEW O, NEW S, NEW A, NEW rds, NEW rm, Reads(rds), Routing(O, S, A, rds, rm),
           NEW c \in Masters, Fresh(c, rds, rm), \A p \in 1 .. Len(O) : O[p] # c
    PROVE  Routing(Append(O, c), S, Append(A, rds[c].burst), rds, rm)
<1> DEFINE OO == Append(O, c)
           AA == Append(A, rds[c].burst)
           m == Len(O) - Len(A)
<1>1. O \in Seq(Masters) /\ A \in Seq(Burst) /\ rds[c].burst \in Burst /\ Len(A) <= Len(O)
  BY DEF Routing, Reads, Read
<1>2. /\ OO \in Seq(Masters) /\ Len(OO) = Len(O) + 1 /\ Len(O) \in Nat
      /\ \A k \in 1 .. Len(O) : OO[k] = O[k]
      /\ OO[Len(O) + 1] = c
  BY <1>1, Appended
<1>3. /\ AA \in Seq(Burst) /\ Len(AA) = Len(A) + 1 /\ Len(A) \in Nat
      /\ \A k \in 1 .. Len(A) : AA[k] = A[k]
      /\ AA[Len(A) + 1] = rds[c].burst
  BY <1>1, Appended
<1> HIDE DEF OO, AA
<1>4. Len(OO) - Len(AA) = m /\ Len(AA) <= Len(OO) /\ m \in Nat /\ (Len(AA) = Len(OO) <=> Len(A) = Len(O))
  BY <1>1, <1>2, <1>3
<1>5. Distinct(OO)
  BY <1>2, SMTT(60) DEF Distinct, Routing
<1>6. ASSUME NEW p \in 1 .. Len(OO)
      PROVE  /\ rds[OO[p]].at = "data"
             /\ p > 1 \/ Len(AA) = Len(OO) => Fresh(OO[p], rds, rm)
  <2>1. CASE p = Len(O) + 1
    BY <1>2, <2>1 DEF Fresh
  <2>2. CASE p # Len(O) + 1
    <3>1. p \in 1 .. Len(O) /\ OO[p] = O[p]
      BY <1>2, <2>2
    <3>2. QED
      BY <1>4, <3>1 DEF Routing
  <2>3. QED
    BY <2>1, <2>2
<1>7. ASSUME NEW k \in 1 .. Len(AA)
      PROVE  AA[k] = rds[OO[Len(OO) - Len(AA) + k]].burst
  <2>1. CASE k = Len(A) + 1
    <3>1. m + k = Len(O) + 1
      BY <1>2, <1>3, <2>1
    <3>2. QED
      BY <1>2, <1>3, <1>4, <2>1, <3>1
  <2>2. CASE k # Len(A) + 1
    <3>1. k \in 1 .. Len(A) /\ m + k \in 1 .. Len(O)
      BY <1>1, <1>2, <1>3, <2>2
    <3>2. AA[k] = A[k] /\ OO[m+k] = O[m+k] /\ A[k] = rds[O[m+k]].burst
      BY <1>2, <1>3, <3>1 DEF Routing
    <3>3. QED
      BY <1>4, <3>2
  <2>3. QED
    BY <2>1, <2>2
<1>8. Asked(OO, m, rds) = Asked(O, m, rds)
  <2>1. \A p \in 1 .. m : OO[p] = O[p]
    BY <1>1, <1>2, <1>3
  <2>2. QED
    BY <2>1 DEF Asked
<1>9. ASSUME S # << >> PROVE OO[1] = O[1]
  <2>1. 1 \in 1 .. Len(S)
    BY <1>9, EmptySeq DEF Routing
  <2>2. Asked(O, m, rds) # << >>
    BY <1>9 DEF Routing, Complete
  <2>3. m # 0
    BY <2>2, SMTT(60) DEF Asked
  <2>4. QED
    BY <1>1, <1>2, <1>3, <2>3
<1>10. QED
  BY <1>2, <1>3, <1>4, <1>5, <1>6, <1>7, <1>8, <1>9 DEF Routing, OO, AA

(* The slave takes the next address, and has the whole burst to return. *)
LEMMA RoutingTaken ==
    ASSUME NEW O, NEW S, NEW A, NEW rds, NEW rm, Reads(rds), Routing(O, S, A, rds, rm), A # << >>
    PROVE  Routing(O, S \o Beats(Head(A)), Tail(A), rds, rm)
<1> DEFINE AA == Tail(A)
           m == Len(O) - Len(A)
           SS == S \o Beats(Head(A))
           c == rds[O[m+1]].burst
           B == Asked(O, m, rds)
<1>1. /\ AA \in Seq(Burst) /\ Len(AA) = Len(A) - 1
      /\ \A k \in 1 .. Len(A) - 1 : AA[k] = A[k + 1]
      /\ Head(A) = A[1] /\ A[1] \in Burst
      /\ Len(A) \in Nat /\ Len(A) >= 1
  BY TailOf DEF Routing
<1>2. /\ O \in Seq(Masters) /\ Len(O) \in Nat /\ Len(A) <= Len(O) /\ m \in Nat /\ m < Len(O)
      /\ S \in Seq(BeatType) /\ Distinct(O) /\ m + 1 \in 1 .. Len(O)
      /\ m = Len(O) - Len(A)
  BY <1>1 DEF Routing
<1> HIDE DEF m
<1>3. Head(A) = c /\ c \in Burst /\ O[m+1] \in Masters
  <2>1. O[m+1] \in Masters
    BY <1>2
  <2>2. c \in Burst
    BY <2>1 DEF Reads, Read
  <2>3. A[1] = rds[O[m + 1]].burst
    <3>1. 1 \in 1 .. Len(A)
      BY <1>1
    <3>2. \A k \in 1 .. Len(A) : A[k] = rds[O[m + k]].burst
      BY <1>2 DEF Routing
    <3>3. QED
      BY <3>1, <3>2
  <2>4. QED
    BY <1>1, <2>1, <2>2, <2>3
<1>4. /\ B \in Seq(Burst) /\ Len(B) = m /\ Distinct(B) /\ Chained(S, B) /\ Complete(S, B)
      /\ \A p \in 1 .. m : B[p] = rds[O[p]].burst /\ B[p].master = O[p]
  <2>1. m <= Len(O)
    BY <1>2
  <2>2. /\ B \in Seq(Burst) /\ Len(B) = m /\ Distinct(B)
        /\ \A p \in 1 .. m : B[p] = rds[O[p]].burst /\ B[p].master = O[p]
    <3>1. /\ O \in Seq(Masters) /\ m \in Nat /\ m <= Len(O) /\ Distinct(O) /\ Reads(rds)
      BY <1>2, <2>1
    <3>2. QED
      BY <3>1, AskedIs, ZenonT(60)
  <2>3. Chained(S, B) /\ Complete(S, B)
    BY <1>2 DEF Routing
  <2>4. QED
    BY <2>2, <2>3
<1>5. Asked(O, m + 1, rds) = Append(B, c)
  <2>1. /\ Asked(O, m + 1, rds) \in Seq(Burst) /\ Len(Asked(O, m + 1, rds)) = m + 1
        /\ \A p \in 1 .. m + 1 : Asked(O, m + 1, rds)[p] = rds[O[p]].burst
    <3> DEFINE n == m + 1
    <3>1. n \in Nat /\ n <= Len(O)
      BY <1>2
    <3> HIDE DEF n
    <3>2. /\ Asked(O, n, rds) \in Seq(Burst) /\ Len(Asked(O, n, rds)) = n
          /\ \A p \in 1 .. n : Asked(O, n, rds)[p] = rds[O[p]].burst
      <4>1. /\ O \in Seq(Masters) /\ n \in Nat /\ n <= Len(O) /\ Distinct(O) /\ Reads(rds)
        BY <1>2, <3>1
      <4>2. QED
        BY <4>1, AskedIs, ZenonT(60)
    <3>3. QED
      BY <3>2 DEF n
  <2> HIDE DEF c, B
  <2>2. /\ Append(B, c) \in Seq(Burst) /\ Len(Append(B, c)) = m + 1
        /\ \A p \in 1 .. m : Append(B, c)[p] = B[p]
        /\ Append(B, c)[m + 1] = c
    BY <1>3, <1>4, Appended
  <2>3. ASSUME NEW p \in 1 .. m + 1 PROVE Asked(O, m + 1, rds)[p] = Append(B, c)[p]
    <3>1. CASE p = m + 1
      BY <2>1, <2>2, <3>1 DEF c
    <3>2. CASE p # m + 1
      <4>1. p \in 1 .. m
        BY <1>2, <3>2
      <4>2. QED
        BY <1>4, <2>1, <2>2, <4>1
    <3>3. QED
      BY <3>1, <3>2
  <2>4. QED
    BY <2>1, <2>2, <2>3, SeqEqual
<1> HIDE DEF AA, B, c
<1>6. \A p \in 1 .. Len(B) : B[p] # c
  <2>. TAKE p \in 1 .. Len(B)
  <2>1. p \in 1 .. m /\ p # m + 1 /\ p \in 1 .. Len(O)
    BY <1>2, <1>4
  <2>2. B[p].master = O[p] /\ O[p] # O[m+1]
    BY <1>2, <1>4, <2>1 DEF Distinct
  <2>3. c.master = O[m+1]
    BY <1>3 DEF Reads, c
  <2>4. QED
    BY <2>2, <2>3
<1> HIDE DEF c
<1>7. /\ SS \in Seq(BeatType)
      /\ Chained(SS, Append(B, c)) /\ Complete(SS, Append(B, c))
      /\ S # << >> => SS[1] = S[1]
      /\ S = << >> => SS[1] = Beat(c, 1)
      /\ SS # << >>
  BY <1>2, <1>3, <1>4, <1>6, ChainBurst, ZenonT(60)
<1>8. Len(O) - Len(AA) = m + 1 /\ Len(AA) <= Len(O) /\ Len(AA) # Len(O)
  BY <1>1, <1>2
<1>9. ASSUME NEW p \in 1 .. Len(O)
      PROVE  /\ rds[O[p]].at = "data"
             /\ p > 1 \/ Len(AA) = Len(O) => Fresh(O[p], rds, rm)
  BY <1>8 DEF Routing
<1>10. ASSUME NEW k \in 1 .. Len(AA)
       PROVE  AA[k] = rds[O[Len(O) - Len(AA) + k]].burst
  <2>1. k + 1 \in 1 .. Len(A) /\ AA[k] = A[k+1] /\ Len(O) - Len(AA) + k = m + (k + 1)
    BY <1>1, <1>2, <1>8
  <2>2. A[k+1] = rds[O[m + (k + 1)]].burst
    BY <1>2, <2>1 DEF Routing
  <2>3. QED
    BY <2>1, <2>2
<1>11. SS[1].k = rds[O[1]].k + Len(rm[O[1]]) + 1
  <2>1. CASE S # << >>
    BY <1>7, <2>1 DEF Routing
  <2>2. CASE S = << >>
    <3>1. m = 0
      BY <1>4, <2>2, EmptySeq DEF Complete
    <3>2. Len(A) = Len(O) /\ m + 1 = 1
      BY <1>1, <1>2, <3>1
    <3>3. Fresh(O[1], rds, rm)
      BY <1>2, <3>1, <3>2 DEF Routing
    <3>4. SS[1].k = 1
      BY <1>3, <1>7, <2>2, BeatIs
    <3>5. Len(rm[O[1]]) = 0 /\ rds[O[1]].k = 0
      BY <3>3 DEF Fresh
    <3> HIDE DEF SS
    <3>6. 1 = 0 + 0 + 1
      OBVIOUS
    <3>7. QED
      BY <3>4, <3>5, <3>6
  <2>3. QED
    BY <2>1, <2>2
<1>12. QED
  BY <1>1, <1>2, <1>5, <1>7, <1>8, <1>9, <1>10, <1>11 DEF Routing, AA, B, m

(* What Routing says of the beat that is next. *)
LEMMA RoutingNext ==
    ASSUME NEW O, NEW S, NEW A, NEW rds, NEW rm, Reads(rds), Routing(O, S, A, rds, rm)
    PROVE  LET m == Len(O) - Len(A)
               B == Asked(O, m, rds)
           IN  /\ m \in Nat /\ m <= Len(O)
               /\ B \in Seq(Burst) /\ Len(B) = m /\ Distinct(B) /\ Chained(S, B) /\ Complete(S, B)
               /\ \A p \in 1 .. m : B[p] = rds[O[p]].burst /\ B[p].master = O[p]
               /\ m > 0 <=> S # << >>
               /\ S # << >> =>
                     /\ m >= 1 /\ 1 \in 1 .. Len(O) /\ O[1] \in Masters
                     /\ S[1] = Beat(rds[O[1]].burst, rds[O[1]].k + Len(rm[O[1]]) + 1)
                     /\ rds[O[1]].k + Len(rm[O[1]]) + 1 \in 1 .. rds[O[1]].burst.len
<1> DEFINE m == Len(O) - Len(A)
           B == Asked(O, m, rds)
<1>1. /\ O \in Seq(Masters) /\ A \in Seq(Burst) /\ S \in Seq(BeatType) /\ Len(O) \in Nat
      /\ Len(A) \in Nat
      /\ Len(A) <= Len(O) /\ m \in Nat /\ m <= Len(O) /\ Distinct(O) /\ m = Len(O) - Len(A)
  BY DEF Routing
<1>2. Chained(S, B) /\ Complete(S, B)
  BY DEF Routing
<1> HIDE DEF m
<1>3. /\ B \in Seq(Burst) /\ Len(B) = m /\ Distinct(B)
      /\ \A p \in 1 .. m : B[p] = rds[O[p]].burst /\ B[p].master = O[p]
  <2>1. /\ O \in Seq(Masters) /\ m \in Nat /\ m <= Len(O) /\ Distinct(O) /\ Reads(rds)
    BY <1>1
  <2>2. QED
    BY <2>1, AskedIs, ZenonT(60)
<1> HIDE DEF B
<1>4. m > 0 <=> S # << >>
  BY <1>1, <1>2, <1>3, EmptySeq DEF Complete
<1>5. ASSUME S # << >>
      PROVE  /\ m >= 1 /\ 1 \in 1 .. Len(O) /\ O[1] \in Masters
             /\ S[1] = Beat(rds[O[1]].burst, rds[O[1]].k + Len(rm[O[1]]) + 1)
             /\ rds[O[1]].k + Len(rm[O[1]]) + 1 \in 1 .. rds[O[1]].burst.len
  <2>1. m >= 1 /\ 1 \in 1 .. Len(O) /\ O[1] \in Masters
    BY <1>1, <1>4, <1>5
  <2>2. InBurst(S[1], B[1])
    BY <1>1, <1>2, <1>3, <1>5, ChainPop
  <2>3. B[1] = rds[O[1]].burst /\ B[1] \in Burst
    BY <1>1, <1>3, <2>1
  <2>4. PICK k \in 1 .. B[1].len : S[1] = Beat(B[1], k)
    BY <2>2 DEF InBurst
  <2>5. S[1].k = k
    BY <2>3, <2>4, BeatIs
  <2>6. S[1].k = rds[O[1]].k + Len(rm[O[1]]) + 1
    BY <1>5 DEF Routing
  <2>7. QED
    BY <2>1, <2>3, <2>4, <2>5, <2>6
<1>6. QED
  BY <1>1, <1>2, <1>3, <1>4, <1>5 DEF m, B

(* A queue of one entry, and no other, is empty after that. *)
LEMMA TailEmpty ==
    ASSUME NEW T, NEW s \in Seq(T), s # << >>
    PROVE  Tail(s) = << >> <=> Len(s) = 1
<1> DEFINE t == Tail(s)
<1>1. t \in Seq(T) /\ Len(t) = Len(s) - 1 /\ Len(s) \in Nat
  BY TailOf
<1> HIDE DEF t
<1>2. t = << >> <=> Len(t) = 0
  BY <1>1, EmptySeq
<1>3. QED
  BY <1>1, <1>2 DEF t

(* Without the first owner, the others are still different. *)
LEMMA DistinctTail ==
    ASSUME NEW T, NEW O \in Seq(T), O # << >>, Distinct(O)
    PROVE  Distinct(Tail(O))
<1>1. /\ Len(Tail(O)) = Len(O) - 1 /\ Len(O) \in Nat
      /\ \A p \in 1 .. Len(O) - 1 : Tail(O)[p] = O[p+1]
  BY TailOf
<1>2. ASSUME NEW p \in 1 .. Len(Tail(O)), NEW q \in 1 .. Len(Tail(O)), Tail(O)[p] = Tail(O)[q]
      PROVE  p = q
  <2>1. p + 1 \in 1 .. Len(O) /\ q + 1 \in 1 .. Len(O) /\ O[p+1] = O[q+1]
    BY <1>1, <1>2
  <2>2. p + 1 = q + 1
    BY <2>1 DEF Distinct
  <2>3. QED
    BY <2>2
<1>3. QED
  BY <1>2 DEF Distinct

(* Only the masters to be answered matter. *)
LEMMA RoutingSame ==
    ASSUME NEW O, NEW S, NEW A, NEW rds, NEW rm, Reads(rds), Routing(O, S, A, rds, rm),
           NEW rds2, NEW rm2,
           \A p \in 1 .. Len(O) : rds2[O[p]] = rds[O[p]] /\ rm2[O[p]] = rm[O[p]]
    PROVE  Routing(O, S, A, rds2, rm2)
<1> DEFINE m == Len(O) - Len(A)
<1>1. /\ m \in Nat /\ m <= Len(O) /\ Len(O) \in Nat /\ Len(A) \in Nat
      /\ S # << >> => 1 \in 1 .. Len(O)
      /\ m = Len(O) - Len(A)
  <2>1. m \in Nat /\ m <= Len(O) /\ (S # << >> => 1 \in 1 .. Len(O))
    BY RoutingNext
  <2>2. Len(O) \in Nat /\ Len(A) \in Nat
    BY DEF Routing
  <2>3. QED
    BY <2>1, <2>2
<1> HIDE DEF m
<1>2. Asked(O, m, rds2) = Asked(O, m, rds)
  BY <1>1 DEF Asked
<1>3. \A p \in 1 .. Len(O) : /\ rds2[O[p]].at = "data"
                             /\ p > 1 \/ Len(A) = Len(O) => Fresh(O[p], rds2, rm2)
  BY DEF Routing, Fresh
<1>4. \A k \in 1 .. Len(A) : A[k] = rds2[O[m + k]].burst
  <2>1. TAKE k \in 1 .. Len(A)
  <2>2. m + k \in 1 .. Len(O)
    BY <1>1
  <2>3. A[k] = rds[O[m + k]].burst
    BY <1>1 DEF Routing
  <2>4. QED
    BY <2>2, <2>3
<1>5. S # << >> => S[1].k = rds2[O[1]].k + Len(rm2[O[1]]) + 1
  BY <1>1 DEF Routing
<1>6. QED
  BY <1>1, <1>2, <1>3, <1>4, <1>5 DEF Routing

(* run_r gives the next beat to the master it believes is next. *)
LEMMA RoutingDelivered ==
    ASSUME NEW O, NEW S, NEW A, NEW rds, NEW rm, Reads(rds), Routing(O, S, A, rds, rm),
           rm \in [Masters -> Seq(BeatType)], S # << >>
    PROVE  Routing(IF S[1].last THEN Tail(O) ELSE O, Tail(S), A, rds,
                   [rm EXCEPT ![O[1]] = Append(@, S[1])])
<1> DEFINE m == Len(O) - Len(A)
           B == Asked(O, m, rds)
           rm2 == [rm EXCEPT ![O[1]] = Append(@, S[1])]
<1>1. /\ O \in Seq(Masters) /\ A \in Seq(Burst) /\ S \in Seq(BeatType) /\ Len(O) \in Nat
      /\ Len(A) \in Nat
      /\ Distinct(O)
      /\ m \in Nat /\ m <= Len(O) /\ m >= 1 /\ 1 \in 1 .. Len(O) /\ O[1] \in Masters /\ O # << >>
      /\ m = Len(O) - Len(A)
      /\ S[1] = Beat(rds[O[1]].burst, rds[O[1]].k + Len(rm[O[1]]) + 1)
      /\ S[1].k = rds[O[1]].k + Len(rm[O[1]]) + 1
  <2>1. O \in Seq(Masters) /\ A \in Seq(Burst) /\ S \in Seq(BeatType) /\ Distinct(O)
        /\ S[1].k = rds[O[1]].k + Len(rm[O[1]]) + 1
    BY DEF Routing
  <2>2. /\ m \in Nat /\ m <= Len(O) /\ m >= 1 /\ 1 \in 1 .. Len(O) /\ O[1] \in Masters
        /\ S[1] = Beat(rds[O[1]].burst, rds[O[1]].k + Len(rm[O[1]]) + 1)
    BY RoutingNext
  <2>3. O # << >> /\ Len(O) \in Nat /\ Len(A) \in Nat
    BY <2>1, <2>2, EmptySeq
  <2>4. QED
    BY <2>1, <2>2, <2>3
<1>2. /\ B \in Seq(Burst) /\ Len(B) = m /\ Distinct(B) /\ Chained(S, B) /\ Complete(S, B)
      /\ \A p \in 1 .. m : B[p] = rds[O[p]].burst /\ B[p].master = O[p]
  BY RoutingNext
<1> HIDE DEF m
<1>3. rm2[O[1]] = Append(rm[O[1]], S[1]) /\ \A i \in Masters : i # O[1] => rm2[i] = rm[i]
  BY <1>1
<1>4. /\ rm[O[1]] \in Seq(BeatType) /\ S[1] \in BeatType
      /\ Len(rm[O[1]]) \in Nat /\ Len(rm2[O[1]]) = Len(rm[O[1]]) + 1
      /\ rds[O[1]].k \in Nat /\ S[1].k \in Nat
  <2>1. rm[O[1]] \in Seq(BeatType) /\ S[1] \in BeatType
    BY <1>1, TailOf
  <2>2. rds[O[1]].k \in Nat
    BY <1>1 DEF Reads, Read
  <2>3. Len(rm2[O[1]]) = Len(rm[O[1]]) + 1 /\ Len(rm[O[1]]) \in Nat
    BY <1>3, <2>1, Appended
  <2>4. QED
    BY <1>1, <2>1, <2>2, <2>3, SMTT(60)
<1>5. /\ Tail(S) \in Seq(BeatType) /\ Len(Tail(S)) = Len(S) - 1
      /\ \A j \in 1 .. Len(S) - 1 : Tail(S)[j] = S[j+1]
      /\ Len(S) \in Nat /\ Len(S) >= 1
  BY <1>1, TailOf
<1>6. /\ B # << >> /\ InBurst(S[1], B[1])
      /\ ~S[1].last => Chained(Tail(S), B)
      /\ S[1].last => Chained(Tail(S), Tail(B))
      /\ Tail(S) # << >> =>
            IF S[1].last THEN Len(B) > 1 /\ Tail(S)[1] = Beat(B[2], 1)
            ELSE Tail(S)[1] = Beat(B[1], S[1].k + 1)
  BY <1>1, <1>2, ChainPop
<1>7. /\ S[Len(S)].last /\ S[Len(S)].burst = B[m] /\ S[1].burst = B[1] /\ B[1] \in Burst
      /\ B[m] \in Burst
  <2>1. 1 \in 1 .. m /\ m \in 1 .. m
    BY <1>1
  <2>2. B[1] \in Burst /\ B[m] \in Burst
    BY <1>2, <2>1
  <2>3. S[1].burst = B[1]
    BY <1>2 DEF Chained
  <2>4. QED
    BY <1>2, <1>6, <2>2, <2>3 DEF Complete
<1>8. Tail(S) # << >> => Tail(S)[Len(Tail(S))] = S[Len(S)]
  <2>1. SUFFICES ASSUME Tail(S) # << >> PROVE Tail(S)[Len(Tail(S))] = S[Len(S)]
    OBVIOUS
  <2>2. Len(S) - 1 \in 1 .. Len(S) - 1
    BY <1>5, <2>1, EmptySeq
  <2>3. QED
    BY <1>5, <2>2
<1>9. Tail(S) = << >> => Len(S) = 1
  BY <1>1, TailEmpty
<1>10. \A p \in 1 .. Len(O) : p > 1 =>
         /\ O[p] # O[1] /\ O[p] \in Masters /\ rm2[O[p]] = rm[O[p]]
         /\ Fresh(O[p], rds, rm) /\ Fresh(O[p], rds, rm2)
  <2>1. TAKE p \in 1 .. Len(O)
  <2>2. HAVE p > 1
  <2>3. O[p] # O[1] /\ O[p] \in Masters
    BY <1>1, <2>2 DEF Distinct
  <2>4. Fresh(O[p], rds, rm)
    BY <2>2 DEF Routing
  <2>5. QED
    BY <1>3, <2>3, <2>4 DEF Fresh
<1> HIDE DEF B, rm2
<1>0. Len(rm2[O[1]]) \in Nat /\ rds[O[1]].k + Len(rm2[O[1]]) + 1 = S[1].k + 1
  BY <1>1, <1>4, SMTT(60)
<1>11. CASE ~S[1].last
  <2>1. Complete(Tail(S), B)
    BY <1>2, <1>6, <1>7, <1>8, <1>9, <1>11 DEF Complete
  <2>2. Tail(S) # << >> => Tail(S)[1].k = rds[O[1]].k + Len(rm2[O[1]]) + 1
    <3>1. Tail(S) # << >> => Tail(S)[1].k = S[1].k + 1
      BY <1>6, <1>7, <1>11, BeatIs
    <3>2. QED
      BY <1>0, <3>1
  <2>3. ASSUME NEW p \in 1 .. Len(O)
        PROVE  /\ rds[O[p]].at = "data"
               /\ p > 1 \/ Len(A) = Len(O) => Fresh(O[p], rds, rm2)
    BY <1>1, <1>10 DEF Routing
  <2>4. Routing(O, Tail(S), A, rds, rm2)
    BY <1>1, <1>5, <1>6, <1>11, <2>1, <2>2, <2>3 DEF Routing, B
  <2>5. QED
    BY <1>11, <2>4 DEF rm2
<1>12. CASE S[1].last
  <2> DEFINE OO == Tail(O)
  <2>1. /\ OO \in Seq(Masters) /\ Len(OO) = Len(O) - 1
        /\ \A p \in 1 .. Len(O) - 1 : OO[p] = O[p+1]
    BY <1>1, TailOf
  <2> HIDE DEF OO
  <2>2. /\ Tail(B) \in Seq(Burst) /\ Len(Tail(B)) = m - 1
        /\ \A p \in 1 .. m - 1 : Tail(B)[p] = B[p+1]
    BY <1>2, <1>6, TailOf
  <2>3. Asked(OO, Len(OO) - Len(A), rds) = Tail(B)
    <3> DEFINE n == m - 1
    <3>1. Len(OO) - Len(A) = n /\ n \in Nat /\ n <= Len(OO)
      BY <1>1, <2>1
    <3>2. Distinct(OO)
      BY <1>1, DistinctTail DEF OO
    <3> HIDE DEF n
    <3>3. /\ Asked(OO, n, rds) \in Seq(Burst) /\ Len(Asked(OO, n, rds)) = n
          /\ \A p \in 1 .. n : Asked(OO, n, rds)[p] = rds[OO[p]].burst
      <4>1. /\ OO \in Seq(Masters) /\ n \in Nat /\ n <= Len(OO) /\ Distinct(OO) /\ Reads(rds)
        BY <2>1, <3>1, <3>2
      <4>2. QED
        BY <4>1, AskedIs, ZenonT(60)
    <3>4. ASSUME NEW p \in 1 .. n PROVE Asked(OO, n, rds)[p] = Tail(B)[p]
      <4>1. p \in 1 .. m - 1 /\ p + 1 \in 1 .. m /\ p \in 1 .. Len(O) - 1
        BY <1>1, <3>4 DEF n
      <4>2. QED
        BY <1>2, <2>1, <2>2, <3>3, <4>1
    <3>5. Len(Tail(B)) = n
      BY <2>2 DEF n
    <3>6. QED
      BY <2>2, <3>1, <3>3, <3>4, <3>5, SeqEqual
  <2>4. Distinct(OO) /\ Len(A) <= Len(OO)
    <3>1. Distinct(OO)
      BY <1>1, DistinctTail DEF OO
    <3>2. QED
      BY <1>1, <2>1, <3>1
  <2>5. ASSUME NEW p \in 1 .. Len(OO)
        PROVE  rds[OO[p]].at = "data" /\ Fresh(OO[p], rds, rm2)
    <3>1. p + 1 \in 1 .. Len(O) /\ p + 1 > 1 /\ OO[p] = O[p+1]
      BY <1>1, <2>1
    <3>2. QED
      BY <1>10, <3>1 DEF Fresh
  <2>6. ASSUME NEW k \in 1 .. Len(A)
        PROVE  A[k] = rds[OO[Len(OO) - Len(A) + k]].burst
    <3>1. (m - 1) + k \in 1 .. Len(O) - 1 /\ (m - 1) + k + 1 = m + k /\ Len(OO) - Len(A) = m - 1
      BY <1>1, <2>1
    <3>2. OO[(m - 1) + k] = O[m + k]
      BY <2>1, <3>1
    <3>3. A[k] = rds[O[m + k]].burst
      BY <1>1 DEF Routing
    <3>4. QED
      BY <3>1, <3>2, <3>3
  <2>7. Complete(Tail(S), Tail(B))
    <3>1. CASE m = 1
      <4>1. Tail(S) = << >>
        BY <1>2, <1>6, <1>12, <3>1
      <4>2. Tail(B) = << >>
        BY <1>2, <1>6, <3>1, TailEmpty
      <4>3. QED
        BY <4>1, <4>2 DEF Complete
    <3>2. CASE m # 1
      <4>1. B[1] # B[m]
        <5>1. 1 \in 1 .. Len(B) /\ m \in 1 .. Len(B) /\ 1 # m
          BY <1>1, <1>2, <3>2
        <5>2. QED
          BY <1>2, <5>1 DEF Distinct
      <4>2. Tail(S) # << >>
        BY <1>7, <1>9, <4>1
      <4>3. Tail(B) # << >> /\ Tail(B)[Len(Tail(B))] = B[m]
        <5>1. m - 1 \in 1 .. m - 1 /\ m - 1 + 1 = m
          BY <1>1, <3>2
        <5>2. Tail(B)[m - 1] = B[m] /\ Len(Tail(B)) = m - 1
          BY <2>2, <5>1
        <5>3. Tail(B) # << >>
          BY <1>2, <1>6, <3>2, TailEmpty
        <5>4. QED
          BY <5>2, <5>3
      <4>4. QED
        BY <1>7, <1>8, <4>2, <4>3 DEF Complete
    <3>3. QED
      BY <3>1, <3>2
  <2>8. Tail(S) # << >> => Tail(S)[1].k = rds[OO[1]].k + Len(rm2[OO[1]]) + 1
    <3>1. SUFFICES ASSUME Tail(S) # << >>
                   PROVE  Tail(S)[1].k = rds[OO[1]].k + Len(rm2[OO[1]]) + 1
      OBVIOUS
    <3>2. m > 1 /\ Tail(S)[1] = Beat(B[2], 1)
      BY <1>2, <1>6, <1>12, <3>1
    <3>3. Tail(S)[1].k = 1
      <4>1. Beat(B[2], 1).k = 1
        BY DEF Beat
      <4>2. QED
        BY <3>2, <4>1
    <3>4. 1 \in 1 .. Len(OO)
      BY <1>1, <2>1, <3>2
    <3>5. rds[OO[1]].k = 0 /\ rm2[OO[1]] = << >>
      BY <2>5, <3>4 DEF Fresh
    <3>6. Len(rm2[OO[1]]) = 0
      BY <3>5
    <3>7. 1 = 0 + 0 + 1
      OBVIOUS
    <3>8. QED
      BY <3>3, <3>5, <3>6, <3>7
  <2>9. Routing(OO, Tail(S), A, rds, rm2)
    BY <1>1, <1>5, <1>6, <1>12, <2>1, <2>3, <2>4, <2>5, <2>6, <2>7, <2>8 DEF Routing
  <2>10. QED
    BY <1>12, <2>9 DEF OO, rm2
<1>13. QED
  BY <1>11, <1>12

(* One element in front. *)
LEMMA InFront ==
    ASSUME NEW T, NEW e \in T, NEW s \in Seq(T)
    PROVE  /\ <<e>> \o s \in Seq(T) /\ <<e>> \o s # << >>
           /\ (<<e>> \o s)[1] = e /\ Tail(<<e>> \o s) = s
           /\ Len(<<e>> \o s) = Len(s) + 1
           /\ \A k \in 1 .. Len(s) : (<<e>> \o s)[k + 1] = s[k]
<1> DEFINE u == <<e>> \o s
<1>1. <<e>> \in Seq(T) /\ Len(<<e>>) = 1 /\ <<e>>[1] = e /\ Len(s) \in Nat
  OBVIOUS
<1>2. /\ u \in Seq(T) /\ Len(u) = 1 + Len(s)
      /\ \A i \in 1 .. 1 + Len(s) : u[i] = IF i <= 1 THEN <<e>>[i] ELSE s[i - 1]
  BY <1>1, ConcatProperties
<1>3. u[1] = e /\ \A k \in 1 .. Len(s) : u[k+1] = s[k]
  BY <1>1, <1>2
<1> HIDE DEF u
<1>4. u # << >>
  BY <1>1, <1>2, EmptySeq
<1>5. Tail(u) \in Seq(T) /\ Len(Tail(u)) = Len(s) /\ \A k \in 1 .. Len(s) : Tail(u)[k] = s[k]
  <2>1. /\ Tail(u) \in Seq(T) /\ Len(Tail(u)) = Len(u) - 1
        /\ \A k \in 1 .. Len(u) - 1 : Tail(u)[k] = u[k+1]
    BY <1>2, <1>4, TailOf
  <2>2. Len(u) - 1 = Len(s)
    BY <1>1, <1>2
  <2>3. QED
    BY <1>3, <2>1, <2>2
<1>6. Tail(u) = s
  BY <1>5, SeqEqual
<1>7. QED
  BY <1>1, <1>2, <1>3, <1>4, <1>6, SMTT(60) DEF u

(* A sequence is its first entry and the rest. *)
LEMMA HeadFirst ==
    ASSUME NEW T, NEW s \in Seq(T), s # << >>
    PROVE  <<Head(s)>> \o Tail(s) = s
<1>1. Append(<< >>, Head(s)) \o Tail(s) = << >> \o s
  BY Moved, EmptySeq
<1>2. Append(<< >>, Head(s)) = <<Head(s)>>
  OBVIOUS
<1>3. << >> \o s = s
  BY ConcatEmptySeq
<1>4. QED
  BY <1>1, <1>2, <1>3

(* An entry added to the second of two sequences is added to both together. *)
LEMMA ConcatAppend ==
    ASSUME NEW T, NEW s \in Seq(T), NEW t \in Seq(T), NEW e \in T
    PROVE  s \o Append(t, e) = Append(s \o t, e)
<1>1. <<e>> \in Seq(T) /\ s \o t \in Seq(T)
  BY ConcatProperties
<1>2. Append(t, e) = t \o <<e>> /\ Append(s \o t, e) = (s \o t) \o <<e>>
  BY <1>1, AppendIsConcat
<1>3. QED
  BY <1>1, <1>2, ConcatAssociative

-----------------------------------------------------------------------------
(* Answering threads *)

(* What is needed of run_r and run_b: a message is in hand only for an owner. *)
Responding(t, T) ==
    /\ t \in [queue : Seq(Masters), busy : BOOLEAN, owner : Masters, hand : Seq(T)]
    /\ t.hand # << >> => t.busy /\ t.hand = <<t.hand[1]>>

(* The masters to be answered, in this order. *)
Serving(t) == IF t.busy THEN <<t.owner>> ELSE << >>
Due(t, flight) == Serving(t) \o (t.queue \o flight)

(* The masters to be answered are masters. *)
LEMMA DueType ==
    ASSUME NEW T, NEW t, Responding(t, T), NEW flight \in Seq(Masters)
    PROVE  /\ Serving(t) \in Seq(Masters) /\ t.queue \in Seq(Masters)
           /\ t.queue \o flight \in Seq(Masters) /\ Due(t, flight) \in Seq(Masters)
<1>1. t.queue \in Seq(Masters) /\ t.busy \in BOOLEAN /\ t.owner \in Masters
  BY DEF Responding
<1>2. Serving(t) \in Seq(Masters)
  BY <1>1 DEF Serving
<1>3. QED
  BY <1>1, <1>2, ConcatProperties DEF Due

(* One iteration of run_r or run_b moves a master's number or an answer on; *)
(* nobody is forgotten and no answer overtakes another.                     *)
LEMMA PollKeeps ==
    ASSUME NEW T, NEW t, Responding(t, T), NEW flight \in Seq(Masters), NEW answer \in Seq(T),
           NEW tt, NEW flightt, NEW answerr, ResponsePoll(t, tt, flight, flightt, answer, answerr)
    PROVE  /\ Responding(tt, T) /\ flightt \in Seq(Masters) /\ answerr \in Seq(T)
           /\ Due(tt, flightt) = Due(t, flight)
           /\ t.hand = << >> /\ tt.hand \o answerr = answer
<1>1. /\ t.hand = << >>
      /\ t \in [queue : Seq(Masters), busy : BOOLEAN, owner : Masters, hand : Seq(T)]
  BY DEF ResponsePoll, Responding
<1>2. PICK q \in IF Len(t.queue) < QueueLen THEN PopNB(flight) ELSE {FALSE},
           a \in IF t.busy THEN PopNB(answer) ELSE {FALSE} :
         LET queued == [t EXCEPT !.queue = IF q THEN Append(@, Head(flight)) ELSE @]
         IN /\ flightt = After(q, flight)
            /\ answerr = After(a, answer)
            /\ tt = IF t.busy THEN [queued EXCEPT !.hand = IF a THEN <<Head(answer)>> ELSE @]
                    ELSE IF queued.queue # << >> THEN Begun(queued)
                    ELSE queued
  BY DEF ResponsePoll
<1> DEFINE queue2 == IF q THEN Append(t.queue, Head(flight)) ELSE t.queue
           queued == [t EXCEPT !.queue = queue2]
<1>3. q \in BOOLEAN /\ a \in BOOLEAN /\ (q => flight # << >>) /\ (a => answer # << >> /\ t.busy)
  BY <1>2 DEF PopNB, HasMsg
<1>4. /\ flightt \in Seq(Masters) /\ queue2 \in Seq(Masters)
      /\ queue2 \o flightt = t.queue \o flight
  <2>1. CASE q
    <3>1. flightt = Tail(flight) /\ queue2 = Append(t.queue, Head(flight))
      BY <1>2, <2>1 DEF After
    <3>2. Head(flight) \in Masters /\ Tail(flight) \in Seq(Masters)
      BY <1>3, <2>1, HeadTailProperties
    <3>3. t.queue \in Seq(Masters) /\ flight # << >>
      BY <1>1, <1>3, <2>1
    <3>4. Append(t.queue, Head(flight)) \o Tail(flight) = t.queue \o flight
      BY <3>3, Moved
    <3>5. Append(t.queue, Head(flight)) \in Seq(Masters)
      BY <3>2, <3>3, AppendProperties
    <3>6. QED
      BY <3>1, <3>2, <3>4, <3>5
  <2>2. CASE ~q
    BY <1>1, <1>2, <2>2 DEF After
  <2>3. QED
    BY <1>3, <2>1, <2>2
<1>5. /\ queued \in [queue : Seq(Masters), busy : BOOLEAN, owner : Masters, hand : Seq(T)]
      /\ queued.queue = queue2 /\ queued.busy = t.busy /\ queued.owner = t.owner /\ queued.hand = << >>
  BY <1>1, <1>4
<1> HIDE DEF queue2
<1>6. tt = IF t.busy THEN [queued EXCEPT !.hand = IF a THEN <<Head(answer)>> ELSE @]
           ELSE IF queued.queue # << >> THEN Begun(queued) ELSE queued
  BY <1>2 DEF queue2
<1> HIDE DEF queued
<1>7. CASE t.busy
  <2>1. /\ tt = [queued EXCEPT !.hand = IF a THEN <<Head(answer)>> ELSE @]
        /\ a => Head(answer) \in T
    BY <1>3, <1>6, <1>7, HeadTailProperties
  <2>2. /\ tt \in [queue : Seq(Masters), busy : BOOLEAN, owner : Masters, hand : Seq(T)]
        /\ tt.queue = queue2 /\ tt.busy /\ tt.owner = t.owner
        /\ tt.hand = IF a THEN <<Head(answer)>> ELSE << >>
    <3> DEFINE h == IF a THEN <<Head(answer)>> ELSE << >>
    <3>1. h \in Seq(T)
      BY <2>1
    <3>2. tt = [queued EXCEPT !.hand = h]
      BY <1>5, <2>1
    <3> HIDE DEF h
    <3>3. /\ tt \in [queue : Seq(Masters), busy : BOOLEAN, owner : Masters, hand : Seq(T)]
          /\ tt.queue = queue2 /\ tt.busy /\ tt.owner = t.owner /\ tt.hand = h
      BY <1>5, <1>7, <3>1, <3>2
    <3>4. QED
      BY <3>3 DEF h
  <2>3. Responding(tt, T)
    BY <2>2 DEF Responding
  <2>4. Due(tt, flightt) = Due(t, flight)
    BY <1>4, <1>7, <2>2 DEF Due, Serving
  <2>5. answerr \in Seq(T) /\ tt.hand \o answerr = answer
    <3>1. CASE a
      BY <1>2, <1>3, <2>2, <3>1, HeadFirst, HeadTailProperties, SMTT(60) DEF After
    <3>2. CASE ~a
      BY <1>2, <2>2, <3>2, ConcatEmptySeq DEF After
    <3>3. QED
      BY <3>1, <3>2
  <2>6. QED
    BY <1>1, <1>4, <2>3, <2>4, <2>5
<1>8. CASE ~t.busy
  <2>0. answerr = answer /\ << >> \o answer = answer
    BY <1>2, <1>3, <1>8, ConcatEmptySeq DEF After
  <2>1. Due(t, flight) = queue2 \o flightt
    <3>1. t.queue \o flight \in Seq(Masters)
      BY <1>1, ConcatProperties
    <3>2. QED
      BY <1>4, <1>8, <3>1, ConcatEmptySeq DEF Due, Serving
  <2>2. CASE queue2 # << >>
    <3>1. tt = Begun(queued) /\ Head(queue2) \in Masters /\ Tail(queue2) \in Seq(Masters)
      BY <1>4, <1>5, <1>6, <1>8, <2>2, HeadTailProperties
    <3>2. /\ tt \in [queue : Seq(Masters), busy : BOOLEAN, owner : Masters, hand : Seq(T)]
          /\ tt.queue = Tail(queue2) /\ tt.busy /\ tt.owner = Head(queue2) /\ tt.hand = << >>
      BY <1>5, <3>1 DEF Begun
    <3>3. Due(tt, flightt) = <<Head(queue2)>> \o (Tail(queue2) \o flightt)
      BY <3>2 DEF Due, Serving
    <3>4. <<Head(queue2)>> \o (Tail(queue2) \o flightt) = (<<Head(queue2)>> \o Tail(queue2)) \o flightt
      <4>1. <<Head(queue2)>> \in Seq(Masters)
        BY <3>1
      <4>2. QED
        BY <1>4, <3>1, <4>1, ConcatAssociative, SMTT(60)
    <3>5. <<Head(queue2)>> \o Tail(queue2) = queue2
      BY <1>4, <2>2, HeadFirst
    <3>6. QED
      BY <1>1, <1>4, <2>0, <2>1, <3>2, <3>3, <3>4, <3>5 DEF Responding
  <2>3. CASE queue2 = << >>
    <3>1. tt = queued
      BY <1>5, <1>6, <1>8, <2>3
    <3>2. Due(tt, flightt) = queue2 \o flightt
      <4>1. queue2 \o flightt \in Seq(Masters)
        BY <1>4, ConcatProperties
      <4>2. QED
        BY <1>5, <1>8, <3>1, <4>1, ConcatEmptySeq DEF Due, Serving
    <3>3. Responding(tt, T)
      BY <1>5, <3>1 DEF Responding
    <3>4. tt.hand = << >>
      BY <1>5, <3>1
    <3>5. QED
      BY <1>1, <1>4, <2>0, <2>1, <3>2, <3>3, <3>4
  <2>4. QED
    BY <2>2, <2>3
<1>9. QED
  BY <1>7, <1>8

(* What a master has been given is what comes next. *)
Delivered(rds, rm) ==
    \A i \in Masters :
        /\ \A k \in 1 .. Len(rm[i]) : rds[i].at = "data" /\ rm[i][k] = Beat(rds[i].burst, rds[i].k + k)
        /\ rds[i].at = "data" => rds[i].k + Len(rm[i]) <= rds[i].burst.len

(* What a beat does to a read.                                              *)
Consumed(x) ==
    IF x.k + 1 = x.burst.len THEN [x EXCEPT !.at = "idle", !.k = 0] ELSE [x EXCEPT !.k = @ + 1]

(* A master that takes a beat: after the last of its burst it is idle. *)
LEMMA ConsumedIs ==
    ASSUME NEW x \in Read, x.at = "data"
    PROVE  /\ Consumed(x) \in Read /\ Consumed(x).burst = x.burst
           /\ x.k + 1 = x.burst.len => Consumed(x).at = "idle"
           /\ x.k + 1 # x.burst.len => Consumed(x).at = "data" /\ Consumed(x).k = x.k + 1
<1>1. x = [at |-> x.at, k |-> x.k, burst |-> x.burst] /\ x.k \in Nat /\ x.burst \in Burst
  BY DEF Read
<1>2. x.k + 1 \in Nat
  BY <1>1
<1>3. CASE x.k + 1 = x.burst.len
  <2>1. Consumed(x) = [at |-> "idle", k |-> 0, burst |-> x.burst]
    BY <1>1, <1>3 DEF Consumed
  <2>2. QED
    BY <1>1, <1>3, <2>1 DEF Read
<1>4. CASE x.k + 1 # x.burst.len
  <2>1. Consumed(x) = [at |-> x.at, k |-> x.k + 1, burst |-> x.burst]
    BY <1>1, <1>4 DEF Consumed
  <2>2. QED
    BY <1>1, <1>2, <1>4, <2>1 DEF Read
<1>5. QED
  BY <1>3, <1>4

(* A master takes a beat. *)
LEMMA DataConsumed ==
    ASSUME NEW O, NEW S, NEW A, NEW rds, NEW rm, Reads(rds), Routing(O, S, A, rds, rm),
           rm \in [Masters -> Seq(BeatType)], Delivered(rds, rm),
           NEW i \in Masters, rm[i] # << >>, rds[i].at = "data"
    PROVE  LET rds2 == [rds EXCEPT ![i] = Consumed(@)]
               rm2 == [rm EXCEPT ![i] = Tail(@)]
           IN  /\ Reads(rds2) /\ rm2 \in [Masters -> Seq(BeatType)]
               /\ Delivered(rds2, rm2) /\ Routing(O, S, A, rds2, rm2)
<1> DEFINE rds2 == [rds EXCEPT ![i] = Consumed(@)]
           rm2 == [rm EXCEPT ![i] = Tail(@)]
           x == rds[i]
<1>1. /\ rds \in [Masters -> Read] /\ x \in Read /\ x.k \in Nat /\ x.burst \in Burst
      /\ x.burst.master = i /\ x.burst.len \in Nat
  <2>1. rds \in [Masters -> Read] /\ x \in Read /\ x.burst.master = i
    BY DEF Reads
  <2>2. x.k \in Nat /\ x.burst \in Burst
    BY <2>1 DEF Read
  <2>3. x.burst.len \in Nat
    BY <2>2, BeatIs
  <2>4. QED
    BY <2>1, <2>2, <2>3
<1>2. /\ rm[i] \in Seq(BeatType) /\ Tail(rm[i]) \in Seq(BeatType)
      /\ Len(Tail(rm[i])) = Len(rm[i]) - 1
      /\ \A k \in 1 .. Len(rm[i]) - 1 : Tail(rm[i])[k] = rm[i][k + 1]
      /\ Len(rm[i]) \in Nat /\ Len(rm[i]) >= 1
  <2>1. rm[i] \in Seq(BeatType)
    OBVIOUS
  <2>2. QED
    BY <2>1, TailOf
<1>3. /\ Consumed(x) \in Read /\ Consumed(x).burst = x.burst
      /\ x.k + 1 = x.burst.len => Consumed(x).at = "idle"
      /\ x.k + 1 # x.burst.len => Consumed(x).at = "data" /\ Consumed(x).k = x.k + 1
  BY <1>1, ConsumedIs
<1>4. /\ rds2[i] = Consumed(x) /\ rm2[i] = Tail(rm[i])
      /\ \A j \in Masters : j # i => rds2[j] = rds[j] /\ rm2[j] = rm[j]
      /\ rds2 \in [Masters -> Read] /\ rm2 \in [Masters -> Seq(BeatType)]
  BY <1>1, <1>2, <1>3
<1>5. x.k + Len(rm[i]) <= x.burst.len
  BY DEF Delivered
<1> HIDE DEF rds2, rm2, x
<1>6. Reads(rds2)
  BY <1>1, <1>3, <1>4 DEF Reads, x
<1>7. Delivered(rds2, rm2)
  <2>1. SUFFICES ASSUME NEW j \in Masters
                 PROVE  /\ \A k \in 1 .. Len(rm2[j]) :
                             rds2[j].at = "data" /\ rm2[j][k] = Beat(rds2[j].burst, rds2[j].k + k)
                        /\ rds2[j].at = "data" => rds2[j].k + Len(rm2[j]) <= rds2[j].burst.len
    BY DEF Delivered
  <2>2. CASE j # i
    BY <1>4, <2>2 DEF Delivered
  <2>3. CASE j = i /\ x.k + 1 = x.burst.len
    <3>1. Len(Tail(rm[i])) = 0
      BY <1>1, <1>2, <1>5, <2>3
    <3>2. QED
      BY <1>3, <1>4, <2>3, <3>1
  <2>4. CASE j = i /\ x.k + 1 # x.burst.len
    <3>1. rds2[i].k = x.k + 1 /\ rds2[i].at = "data" /\ rds2[i].burst = x.burst
      BY <1>3, <1>4, <2>4
    <3>2. ASSUME NEW k \in 1 .. Len(Tail(rm[i]))
          PROVE  Tail(rm[i])[k] = Beat(x.burst, (x.k + 1) + k)
      <4>1. k + 1 \in 1 .. Len(rm[i]) /\ k \in 1 .. Len(rm[i]) - 1 /\ k \in Nat
        BY <1>2
      <4>4. x.k + (k + 1) = (x.k + 1) + k
        <5>1. \A a, c \in Nat : a + (c + 1) = (a + 1) + c
          OBVIOUS
        <5>2. x.k \in Nat
          BY <1>1
        <5>3. QED
          BY <4>1, <5>1, <5>2
      <4>2. rm[i][k+1] = Beat(x.burst, x.k + (k + 1))
        BY <4>1 DEF Delivered, x
      <4>3. QED
        BY <1>2, <4>1, <4>2, <4>4
    <3>3. (x.k + 1) + Len(Tail(rm[i])) <= x.burst.len
      BY <1>1, <1>2, <1>5
    <3>4. QED
      BY <1>4, <2>4, <3>1, <3>2, <3>3
  <2>5. QED
    BY <2>2, <2>3, <2>4
<1>8. O \in Seq(Masters) /\ Distinct(O) /\ (\A p \in 1 .. Len(O) : O[p] \in Masters) /\ A \in Seq(Burst)
      /\ Len(O) \in Nat /\ Len(A) \in Nat /\ Len(A) <= Len(O)
  BY DEF Routing
<1>9. Routing(O, S, A, rds2, rm2)
  <2>1. CASE \A p \in 1 .. Len(O) : O[p] # i
    <3>1. \A p \in 1 .. Len(O) : rds2[O[p]] = rds[O[p]] /\ rm2[O[p]] = rm[O[p]]
      BY <1>4, <1>8, <2>1
    <3>2. QED
      BY <3>1, RoutingSame
  <2>2. ASSUME NEW q \in 1 .. Len(O), O[q] = i PROVE Routing(O, S, A, rds2, rm2)
    <3> DEFINE m == Len(O) - Len(A)
    <3>1. q = 1 /\ Len(A) # Len(O)
      <4>1. ~Fresh(O[q], rds, rm)
        BY <2>2 DEF Fresh
      <4>2. q \in Int
        BY <1>8
      <4>3. QED
        BY <4>1, <4>2, SMTT(60) DEF Routing
    <3>2. /\ m \in Nat /\ S # << >> /\ m <= Len(O) /\ m = Len(O) - Len(A)
          /\ x.k + Len(rm[i]) + 1 \in 1 .. x.burst.len
      BY <1>8, <2>2, <3>1, RoutingNext, SMTT(60) DEF x
    <3> HIDE DEF m
    <3>3. x.k + 1 # x.burst.len
      BY <1>1, <1>2, <3>2
    <3>4. Asked(O, m, rds2) = Asked(O, m, rds)
      <4>1. \A j \in Masters : rds2[j].burst = rds[j].burst
        BY <1>3, <1>4 DEF x
      <4>3. \A p \in 1 .. m : O[p] \in Masters
        BY <1>8, <3>2
      <4>2. QED
        BY <4>1, <4>3 DEF Asked
    <3>5. ASSUME NEW p \in 1 .. Len(O)
          PROVE  /\ rds2[O[p]].at = "data" /\ rds2[O[p]].burst = rds[O[p]].burst
                 /\ p > 1 \/ Len(A) = Len(O) => Fresh(O[p], rds2, rm2)
      <4>1. CASE p = 1
        BY <1>3, <1>4, <2>2, <3>1, <3>3, <4>1 DEF x
      <4>2. CASE p # 1
        <5>1. O[p] # i /\ O[p] \in Masters
          BY <1>8, <2>2, <3>1, <4>2 DEF Distinct
        <5>2. rds[O[p]].at = "data" /\ (p > 1 => Fresh(O[p], rds, rm))
          BY DEF Routing
        <5>3. p > 1
          BY <4>2, <1>8
        <5>4. QED
          BY <1>4, <5>1, <5>2, <5>3 DEF Fresh
      <4>3. QED
        BY <4>1, <4>2
    <3>6. ASSUME NEW k \in 1 .. Len(A) PROVE A[k] = rds2[O[m + k]].burst
      <4>1. m + k \in 1 .. Len(O)
        BY <1>8, <3>2
      <4>2. A[k] = rds[O[m + k]].burst
        BY <3>2 DEF Routing
      <4>3. QED
        BY <3>5, <4>1, <4>2
    <3>7. S[1].k = rds2[O[1]].k + Len(rm2[O[1]]) + 1
      <4>1. O[1] = i
        BY <2>2, <3>1
      <4>2. S[1].k = x.k + Len(rm[i]) + 1
        BY <3>2, <4>1 DEF Routing, x
      <4>3. rds2[i].k = x.k + 1 /\ Len(rm2[i]) = Len(rm[i]) - 1
        BY <1>2, <1>3, <1>4, <3>3
      <4>4. x.k + Len(rm[i]) + 1 = (x.k + 1) + (Len(rm[i]) - 1) + 1
        BY <1>1, <1>2
      <4>5. QED
        BY <4>1, <4>2, <4>3, <4>4
    <3>8. QED
      BY <1>8, <3>2, <3>4, <3>5, <3>6, <3>7 DEF Routing
  <2>3. QED
    BY <2>1, <2>2
<1>10. QED
  BY <1>4, <1>6, <1>7, <1>9 DEF rds2, rm2

-----------------------------------------------------------------------------
(* The read side *)

(* The sequences of the read side: the owners from run_r to run_ar, and the *)
(* beats from run_r to the slave.                                           *)
ReadOwners == Due(r, read_in_flight) \o (IF ar.at = "flight" THEN <<ar.chosen>> ELSE << >>)
ReadStream == r.hand \o (r_s \o rd_resp)

(* What the threads and channels of the read side hold.                     *)
ReadTypes ==
    /\ Turn(ar) /\ ar.at \in {"poll", "addr", "flight"} /\ (ar.at = "addr" => ar.chosen \in ar.valid)
    /\ Reads(rd) /\ Responding(r, BeatType)
    /\ ar_m \in [Masters -> Seq(Burst)] /\ r_m \in [Masters -> Seq(BeatType)]
    /\ r_s \in Seq(BeatType) /\ rd_resp \in Seq(BeatType) /\ read_in_flight \in Seq(Masters)

(* A request that the master has made and run_ar has not passed on. *)
Asks(i) == ar_m[i] # << >> \/ i \in ar.valid
(* A request is that of the master's burst, and is in one place.            *)
Asking ==
    \A i \in Masters :
        /\ ar_m[i] # << >> => ar_m[i] = <<rd[i].burst>> /\ i \notin ar.valid
        /\ i \in ar.valid => ar.reg[i] = rd[i].burst
        /\ Asks(i) => Fresh(i, rd, r_m) /\ \A p \in 1 .. Len(ReadOwners) : ReadOwners[p] # i

(* The inductive invariant of the read side.                                *)
ReadInv ==
    /\ ReadTypes
    /\ Routing(ReadOwners, ReadStream, ar_s, rd, r_m)
    /\ Delivered(rd, r_m)
    /\ Asking

(* Nothing is asked for and nothing on its way in the beginning. *)
LEMMA ReadInit == Init => ReadInv
<1>. SUFFICES ASSUME Init PROVE ReadInv
  OBVIOUS
<1>1. /\ ar = Requester /\ r = Responder
      /\ rd = [i \in Masters |-> NoBurst(i)]
      /\ ar_m = [i \in Masters |-> << >>] /\ r_m = [i \in Masters |-> << >>]
      /\ ar_s = << >> /\ r_s = << >> /\ read_in_flight = << >> /\ rd_resp = << >>
  BY DEF Init
<1>2. 0 \in Masters
  BY SizeAssumption DEF Masters
<1>3. Turn(ar) /\ ar.at = "poll" /\ ar.valid = {}
  BY <1>1, TurnInit DEF Requester
<1>4. r = [queue |-> << >>, busy |-> FALSE, owner |-> 0, hand |-> << >>]
  BY <1>1 DEF Responder
<1>5. Responding(r, BeatType)
  BY <1>2, <1>4 DEF Responding
<1>6. Reads(rd)
  <2>1. ASSUME NEW i \in Masters
        PROVE  NoBurst(i) \in Read /\ NoBurst(i).burst.master = i
    <3>1. [master |-> i, seq |-> 0, len |-> 1] \in Burst
      BY MaxLenAssumption DEF Burst
    <3>2. QED
      BY <3>1 DEF NoBurst, Read
  <2>2. QED
    BY <1>1, <2>1 DEF Reads
<1>7. ReadTypes
  BY <1>1, <1>3, <1>5, <1>6 DEF ReadTypes
<1>8. ReadOwners = << >> /\ ReadStream = << >>
  BY <1>1, <1>3, <1>4 DEF ReadOwners, ReadStream, Due, Serving
<1>9. Asked(<< >>, 0, rd) = << >>
  BY DEF Asked
<1>10. Routing(<< >>, << >>, << >>, rd, r_m)
  BY <1>9 DEF Routing, Distinct, Chained, Complete
<1>11. Delivered(rd, r_m)
  BY <1>1 DEF Delivered, NoBurst
<1>12. Asking
  BY <1>1, <1>3 DEF Asking, Asks
<1>. QED
  BY <1>1, <1>7, <1>8, <1>10, <1>11, <1>12 DEF ReadInv

(* The threads of the write side leave the read side alone. *)
LEMMA ReadSame ==
    ReadInv /\ UNCHANGED <<rd, readVars>> => ReadInv'
<1>. SUFFICES ASSUME ReadInv, UNCHANGED <<rd, readVars>> PROVE ReadInv'
  OBVIOUS
<1>1. UNCHANGED <<rd, ar_m, r_m, ar_s, r_s, read_in_flight, ar, r, rd_resp>>
  BY DEF readVars
<1>2. ReadOwners' = ReadOwners /\ ReadStream' = ReadStream
  BY <1>1 DEF ReadOwners, ReadStream
<1>3. ReadTypes'
  BY <1>1 DEF ReadInv, ReadTypes
<1>4. Asking'
  BY <1>1, <1>2 DEF ReadInv, Asking, Asks, Fresh
<1>. QED
  BY <1>1, <1>2, <1>3, <1>4 DEF ReadInv

(* run_ar takes requests from the masters and chooses one. *)
LEMMA ReadArPoll == ReadInv /\ ArPoll => ReadInv'
<1>. SUFFICES ASSUME ReadInv, ArPoll PROVE ReadInv'
  OBVIOUS
<1>. USE DEF ReadInv
<1>1. /\ RequestPoll(ar, ar', ar_m, ar_m')
      /\ UNCHANGED <<rd, r_m, ar_s, r_s, read_in_flight, r, rd_resp>>
  BY DEF ArPoll, masterVars
<1>2. ar.at = "poll" /\ Turn(ar) /\ ar_m \in [Masters -> Seq(Burst)] /\ Shape(ar)
  BY <1>1 DEF RequestPoll, ReadTypes, Turn
<1>3. PICK S \in SUBSET (Masters \ ar.valid) :
         /\ \A i \in Masters \ ar.valid : (i \in S) \in PopNB(ar_m[i])
         /\ ar_m' = [i \in Masters |-> After(i \in S, ar_m[i])]
         /\ \E c \in Pick(ar.valid \cup S, ar.next) : ar' = Chosen(Took(ar, S, ar_m), c)
  BY <1>1 DEF RequestPoll
<1>4. PICK c \in Pick(ar.valid \cup S, ar.next) : ar' = Chosen(Took(ar, S, ar_m), c)
  BY <1>3
<1>5. \A i \in S : i \in Masters /\ i \notin ar.valid /\ ar_m[i] # << >> /\ ar_m[i] = <<rd[i].burst>>
  BY <1>3 DEF PopNB, HasMsg, Asking
<1>6. /\ ar'.at = "addr" /\ ar'.chosen = c /\ ar'.valid = ar.valid \cup S
      /\ ar'.reg = [i \in Masters |-> IF i \in S THEN Head(ar_m[i]) ELSE ar.reg[i]]
  BY <1>2, <1>4 DEF Chosen, Took, Shape, Fields
<1>7. c \in ar.valid \cup S
  <2>1. PICK k \in 1 .. Size : ar.next = 0 .. k-1
    BY <1>2 DEF Turn, TurnFor
  <2>2. ar.valid \cup S \in SUBSET Masters
    BY <1>2 DEF Turn
  <2>3. QED
    BY <1>4, <2>1, <2>2, PickOne
<1>8. Turn(ar)'
  BY <1>1, <1>2, TurnPoll
<1>9. \A i \in Masters : ar_m'[i] = IF i \in S THEN << >> ELSE ar_m[i]
  <2>1. TAKE i \in Masters
  <2>2. ar_m'[i] = IF i \in S THEN Tail(ar_m[i]) ELSE ar_m[i]
    BY <1>3 DEF After
  <2>3. CASE i \in S
    <3>1. Tail(<<rd[i].burst>>) = << >>
      OBVIOUS
    <3>2. QED
      BY <1>5, <2>2, <2>3, <3>1
  <2>4. QED
    BY <2>2, <2>3
<1>10. ar_m' \in [Masters -> Seq(Burst)]
  <2>1. \A i \in Masters : ar_m'[i] \in Seq(Burst)
    BY <1>2, <1>9, EmptySeq
  <2>2. QED
    BY <1>3, <2>1
<1>11. ReadTypes'
  BY <1>1, <1>6, <1>7, <1>8, <1>10 DEF ReadTypes
<1>12. ReadOwners' = ReadOwners /\ ReadStream' = ReadStream
  BY <1>1, <1>2, <1>6 DEF ReadOwners, ReadStream
<1>13. Asking'
  <2>1. SUFFICES ASSUME NEW i \in Masters
                 PROVE  /\ ar_m'[i] # << >> => ar_m'[i] = <<rd[i].burst>> /\ i \notin ar'.valid
                        /\ i \in ar'.valid => ar'.reg[i] = rd[i].burst
                        /\ ar_m'[i] # << >> \/ i \in ar'.valid =>
                             Fresh(i, rd, r_m) /\ \A p \in 1 .. Len(ReadOwners) : ReadOwners[p] # i
    BY <1>1, <1>12 DEF Asking, Asks, Fresh
  <2>2. CASE i \in S
    <3>1. Head(ar_m[i]) = rd[i].burst
      BY <1>5, <2>2
    <3>2. QED
      BY <1>5, <1>6, <1>9, <2>2, <3>1 DEF Asking, Asks
  <2>3. CASE i \notin S
    BY <1>6, <1>9, <2>3 DEF Asking, Asks
  <2>4. QED
    BY <2>2, <2>3
<1>. QED
  BY <1>1, <1>11, <1>12, <1>13

(* run_ar passes the request on: its master is owed an answer from now on,  *)
(* the last of all.                                                         *)
LEMMA ReadArPush == ReadInv /\ ArPush => ReadInv'
<1>. SUFFICES ASSUME ReadInv, ArPush PROVE ReadInv'
  OBVIOUS
<1>. USE DEF ReadInv
<1> DEFINE c == ar.chosen
<1>1. /\ ar.at = "addr" /\ ar_s' = Append(ar_s, ar.reg[c])
      /\ ar' = [Passed(ar) EXCEPT !.at = "flight"]
      /\ UNCHANGED <<rd, ar_m, r_m, r_s, read_in_flight, r, rd_resp>>
  BY DEF ArPush, masterVars
<1>2. Turn(ar) /\ Shape(ar) /\ c \in ar.valid /\ c \in Masters /\ Turn(ar)'
  <2>1. Turn(ar) /\ Shape(ar) /\ c \in ar.valid /\ c \in Masters
    BY <1>1 DEF ReadTypes, Turn
  <2>2. Turn(Passed(ar))
    BY <2>1, TurnPassed
  <2>3. QED
    BY <1>1, <2>1, <2>2, TurnAt
<1>3. ar'.at = "flight" /\ ar'.chosen = c /\ ar'.valid = ar.valid \ {c} /\ ar'.reg = ar.reg
  BY <1>1, <1>2 DEF Passed, Shape, Fields
<1>4. ReadTypes'
  BY <1>1, <1>2, <1>3 DEF ReadTypes
<1>5. ar.reg[c] = rd[c].burst /\ Fresh(c, rd, r_m) /\ ar_m[c] = << >>
      /\ \A p \in 1 .. Len(ReadOwners) : ReadOwners[p] # c
  BY <1>2 DEF Asking, Asks
<1>6. ReadStream' = ReadStream /\ ReadOwners \in Seq(Masters)
  BY <1>1 DEF ReadStream, Routing
<1>7. ReadOwners' = Append(ReadOwners, c)
  <2>1. Due(r, read_in_flight) \in Seq(Masters)
    BY DueType DEF ReadTypes
  <2>2. ReadOwners = Due(r, read_in_flight)
    BY <1>1, <2>1, ConcatEmptySeq DEF ReadOwners
  <2>3. ReadOwners' = Due(r, read_in_flight) \o <<c>>
    BY <1>1, <1>3 DEF ReadOwners
  <2>4. QED
    BY <1>2, <2>1, <2>2, <2>3, AppendIsConcat
<1>8. Routing(ReadOwners', ReadStream, ar_s', rd, r_m)
  <2>1. Routing(Append(ReadOwners, c), ReadStream, Append(ar_s, rd[c].burst), rd, r_m)
    BY <1>2, <1>5, RoutingGranted DEF ReadTypes
  <2>2. QED
    BY <1>1, <1>5, <1>7, <2>1
<1>9. Asking'
  <2>1. SUFFICES ASSUME NEW i \in Masters
                 PROVE  /\ ar_m[i] # << >> => ar_m[i] = <<rd[i].burst>> /\ i \notin ar'.valid
                        /\ i \in ar'.valid => ar.reg[i] = rd[i].burst
                        /\ ar_m[i] # << >> \/ i \in ar'.valid =>
                             Fresh(i, rd, r_m) /\ \A p \in 1 .. Len(ReadOwners') : ReadOwners'[p] # i
    BY <1>1, <1>3 DEF Asking, Asks, Fresh
  <2>2. CASE i = c
    BY <1>3, <1>5, <2>2
  <2>3. CASE i # c
    <3>1. /\ Len(ReadOwners') = Len(ReadOwners) + 1 /\ Len(ReadOwners) \in Nat
          /\ \A k \in 1 .. Len(ReadOwners) : ReadOwners'[k] = ReadOwners[k]
          /\ ReadOwners'[Len(ReadOwners) + 1] = c
      BY <1>2, <1>6, <1>7, Appended
    <3>2. (\A p \in 1 .. Len(ReadOwners) : ReadOwners[p] # i)
            => \A p \in 1 .. Len(ReadOwners') : ReadOwners'[p] # i
      BY <2>3, <3>1
    <3>3. QED
      BY <1>3, <2>3, <3>2 DEF Asking, Asks
  <2>4. QED
    BY <2>2, <2>3
<1>. QED
  BY <1>1, <1>4, <1>6, <1>8, <1>9

(* run_ar tells run_r whom the request is from. *)
LEMMA ReadArInFlight == ReadInv /\ ArInFlight => ReadInv'
<1>. SUFFICES ASSUME ReadInv, ArInFlight PROVE ReadInv'
  OBVIOUS
<1>. USE DEF ReadInv
<1> DEFINE c == ar.chosen
<1>1. /\ ar.at = "flight" /\ read_in_flight' = Append(read_in_flight, c)
      /\ ar' = [ar EXCEPT !.at = "poll"]
      /\ UNCHANGED <<rd, ar_m, r_m, ar_s, r_s, r, rd_resp>>
  BY DEF ArInFlight, masterVars
<1>2. Turn(ar) /\ Shape(ar) /\ c \in Masters /\ Turn(ar)' /\ read_in_flight \in Seq(Masters)
      /\ Responding(r, BeatType)
  <2>1. Turn(ar) /\ read_in_flight \in Seq(Masters) /\ Responding(r, BeatType)
    BY DEF ReadTypes
  <2>2. Shape(ar) /\ c \in Masters
    BY <2>1 DEF Turn
  <2>3. QED
    BY <1>1, <2>1, <2>2, TurnAt
<1>3. ar'.at = "poll" /\ ar'.chosen = c /\ ar'.valid = ar.valid /\ ar'.reg = ar.reg
  BY <1>1, <1>2 DEF Shape, Fields
<1>4. ReadTypes'
  BY <1>1, <1>2, <1>3, AppendProperties DEF ReadTypes
<1>5. ReadStream' = ReadStream
  BY <1>1 DEF ReadStream
<1>6. ReadOwners' = ReadOwners
  <2>1. /\ Serving(r) \in Seq(Masters) /\ r.queue \in Seq(Masters)
        /\ r.queue \o read_in_flight \in Seq(Masters) /\ Due(r, read_in_flight) \in Seq(Masters)
    BY <1>2, DueType
  <2>2. r.queue \o Append(read_in_flight, c) = Append(r.queue \o read_in_flight, c)
    <3>1. r.queue \in Seq(Masters) /\ read_in_flight \in Seq(Masters) /\ c \in Masters
      BY <1>2, <2>1
    <3> HIDE DEF c
    <3>2. QED
      <4>1. \A s, t \in Seq(Masters) : \A e \in Masters : s \o Append(t, e) = Append(s \o t, e)
        BY ConcatAppend
      <4>2. QED
        BY <3>1, <4>1
  <2>3. Due(r, Append(read_in_flight, c)) = Append(Due(r, read_in_flight), c)
    BY <1>2, <2>1, <2>2, ConcatAppend, SMTT(60) DEF Due
  <2>4. Due(r, Append(read_in_flight, c)) \in Seq(Masters)
    BY <1>2, <2>1, <2>3, AppendProperties
  <2>5. ReadOwners' = Due(r, Append(read_in_flight, c))
    BY <1>1, <1>3, <2>4, ConcatEmptySeq DEF ReadOwners, Due, Serving
  <2>6. ReadOwners = Append(Due(r, read_in_flight), c)
    BY <1>1, <1>2, <2>1, AppendIsConcat DEF ReadOwners
  <2>7. QED
    BY <2>3, <2>5, <2>6
<1>7. Asking'
  BY <1>1, <1>3, <1>6 DEF Asking, Asks, Fresh
<1>. QED
  BY <1>1, <1>4, <1>5, <1>6, <1>7

(* run_r takes the next master's number, or a beat. *)
LEMMA ReadRPoll == ReadInv /\ RPoll => ReadInv'
<1>. SUFFICES ASSUME ReadInv, RPoll PROVE ReadInv'
  OBVIOUS
<1>. USE DEF ReadInv
<1>1. /\ ResponsePoll(r, r', read_in_flight, read_in_flight', r_s, r_s')
      /\ UNCHANGED <<rd, ar_m, r_m, ar_s, ar, rd_resp>>
  BY DEF RPoll, masterVars
<1>2. /\ Responding(r, BeatType) /\ read_in_flight \in Seq(Masters) /\ r_s \in Seq(BeatType)
      /\ rd_resp \in Seq(BeatType)
  BY DEF ReadTypes
<1>3. /\ Responding(r', BeatType) /\ read_in_flight' \in Seq(Masters) /\ r_s' \in Seq(BeatType)
      /\ Due(r', read_in_flight') = Due(r, read_in_flight)
      /\ r.hand = << >> /\ r'.hand \o r_s' = r_s
  BY <1>1, <1>2, PollKeeps
<1>4. ReadTypes'
  BY <1>1, <1>3 DEF ReadTypes
<1>5. ReadOwners' = ReadOwners
  BY <1>1, <1>3 DEF ReadOwners
<1>6. ReadStream' = ReadStream
  <2>1. r'.hand \in Seq(BeatType)
    BY <1>3 DEF Responding
  <2>2. r'.hand \o (r_s' \o rd_resp) = r_s \o rd_resp
    <3>1. (r'.hand \o r_s') \o rd_resp = r'.hand \o (r_s' \o rd_resp)
      <4>1. r'.hand \in Seq(BeatType) /\ r_s' \in Seq(BeatType) /\ rd_resp \in Seq(BeatType)
        BY <1>2, <1>3, <2>1
      <4>2. \A s, t, u \in Seq(BeatType) : (s \o t) \o u = s \o (t \o u)
        BY ConcatAssociative, SMTT(60)
      <4>3. QED
        BY <4>1, <4>2
    <3>2. QED
      BY <1>3, <3>1
  <2>3. << >> \o (r_s \o rd_resp) = r_s \o rd_resp
    BY <1>2, ConcatProperties, ConcatEmptySeq
  <2>4. QED
    BY <1>1, <1>3, <2>2, <2>3 DEF ReadStream
<1>7. Asking'
  BY <1>1, <1>5 DEF Asking, Asks, Fresh
<1>. QED
  BY <1>1, <1>4, <1>5, <1>6, <1>7

(* The master being served is the first of those to be answered. *)
LEMMA ServedFirst ==
    ASSUME NEW o \in Masters, NEW queue \in Seq(Masters), NEW flight \in Seq(Masters),
           NEW others \in Seq(Masters)
    PROVE  LET O == (<<o>> \o (queue \o flight)) \o others IN
           /\ O \in Seq(Masters) /\ O # << >> /\ O[1] = o
           /\ Tail(O) = (<< >> \o (queue \o flight)) \o others
<1> DEFINE X == queue \o flight
           O == (<<o>> \o X) \o others
<1>1. X \in Seq(Masters) /\ <<o>> \in Seq(Masters)
  BY ConcatProperties
<1> HIDE DEF X
<1>2. << >> \o X = X
  BY <1>1, ConcatEmptySeq
<1>3. X \o others \in Seq(Masters)
  BY <1>1, ConcatProperties
<1>4. O = <<o>> \o (X \o others)
  <2>1. \A s, u, v \in Seq(Masters) : (s \o u) \o v = s \o (u \o v)
    BY ConcatAssociative, SMTT(60)
  <2>2. QED
    BY <1>1, <2>1
<1> HIDE DEF O
<1>5. O \in Seq(Masters) /\ O # << >> /\ O[1] = o /\ Tail(O) = X \o others
  BY <1>3, <1>4, InFront, SMTT(60)
<1>6. QED
  BY <1>2, <1>5 DEF O, X

(* A responder that has handed over its answer. *)
LEMMA HandedOver ==
    ASSUME NEW T, NEW t \in [queue : Seq(Masters), busy : BOOLEAN, owner : Masters, hand : Seq(T)],
           NEW more \in BOOLEAN
    PROVE  LET tt == [t EXCEPT !.hand = << >>, !.busy = more] IN
           /\ tt.queue = t.queue /\ tt.owner = t.owner /\ tt.hand = << >> /\ tt.busy = more
           /\ Responding(tt, T)
<1>1. << >> \in Seq(T)
  OBVIOUS
<1>2. QED
  BY <1>1 DEF Responding

(* run_r hands a beat to the master it serves, who is the one that asked. *)
LEMMA ReadRPush == ReadInv /\ RPush => ReadInv'
<1>. SUFFICES ASSUME ReadInv, RPush PROVE ReadInv'
  OBVIOUS
<1>. USE DEF ReadInv
<1> DEFINE i == r.owner
           h == r.hand[1]
           O == ReadOwners
           S == ReadStream
           others == IF ar.at = "flight" THEN <<ar.chosen>> ELSE << >>
<1>1. /\ r.hand # << >>
      /\ r_m' = [r_m EXCEPT ![r.owner] = Append(@, Head(r.hand))]
      /\ r' = [r EXCEPT !.hand = << >>, !.busy = ~ReadOver(Head(r.hand))]
      /\ UNCHANGED <<rd, ar_m, ar_s, r_s, read_in_flight, ar, rd_resp>>
  BY DEF RPush, masterVars
<1>2. /\ Responding(r, BeatType) /\ Reads(rd) /\ r_m \in [Masters -> Seq(BeatType)]
      /\ r_s \in Seq(BeatType) /\ rd_resp \in Seq(BeatType) /\ read_in_flight \in Seq(Masters)
      /\ ar.chosen \in Masters
  BY DEF ReadTypes, Turn
<1>3. /\ r \in [queue : Seq(Masters), busy : BOOLEAN, owner : Masters, hand : Seq(BeatType)]
      /\ r.busy /\ r.hand = <<h>>
  BY <1>1, <1>2 DEF Responding
<1>4. Head(r.hand) = h /\ h \in BeatType /\ i \in Masters
  BY <1>1, <1>3
<1> DEFINE more == ~h.last
<1>5. /\ r'.queue = r.queue /\ r'.owner = i /\ r'.hand = << >> /\ (r'.busy <=> ~h.last)
      /\ Responding(r', BeatType)
  <2>1. more \in BOOLEAN
    OBVIOUS
  <2>2. r' = [r EXCEPT !.hand = << >>, !.busy = more]
    BY <1>1, <1>4 DEF ReadOver
  <2>3. r'.busy = more => (r'.busy <=> ~h.last)
    OBVIOUS
  <2> HIDE DEF more, h
  <2>4. LET tt == [r EXCEPT !.hand = << >>, !.busy = more] IN
           /\ tt.queue = r.queue /\ tt.owner = r.owner /\ tt.hand = << >> /\ tt.busy = more
           /\ Responding(tt, BeatType)
    BY <1>3, <2>1, HandedOver
  <2>5. QED
    BY <2>2, <2>3, <2>4
<1> HIDE DEF more
<1>6. others \in Seq(Masters) /\ others' = others
  BY <1>1, <1>2
<1>7. O = Due(r, read_in_flight) \o others /\ O' = Due(r', read_in_flight) \o others
  BY <1>1, <1>6 DEF ReadOwners
<1> HIDE DEF others
<1>8. /\ O \in Seq(Masters) /\ O # << >> /\ O[1] = i
      /\ O' = IF h.last THEN Tail(O) ELSE O
  <2>1. /\ r.queue \in Seq(Masters) /\ r.owner \in Masters /\ r.busy
        /\ read_in_flight \in Seq(Masters) /\ others \in Seq(Masters)
        /\ r'.queue = r.queue /\ r'.owner = r.owner
    BY <1>2, <1>3, <1>5, <1>6
  <2>2. LET OO == (<<r.owner>> \o (r.queue \o read_in_flight)) \o others IN
        /\ OO \in Seq(Masters) /\ OO # << >> /\ OO[1] = r.owner
        /\ Tail(OO) = (<< >> \o (r.queue \o read_in_flight)) \o others
    <3>1. r.owner \in Masters /\ r.queue \in Seq(Masters)
          /\ read_in_flight \in Seq(Masters) /\ others \in Seq(Masters)
      BY <2>1
    <3>2. QED
      BY <3>1, ServedFirst, ZenonT(60)
  <2>3. O = (<<r.owner>> \o (r.queue \o read_in_flight)) \o others
    BY <1>3, <1>7 DEF Due, Serving
  <2>4. O' = IF h.last THEN (<< >> \o (r.queue \o read_in_flight)) \o others ELSE O
    BY <1>5, <1>7, <2>3 DEF Due, Serving
  <2> HIDE DEF O, h
  <2>5. QED
    BY <2>2, <2>3, <2>4
<1>9. S # << >> /\ S[1] = h /\ S' = Tail(S)
  <2> DEFINE Y == r_s \o rd_resp
  <2>1. Y \in Seq(BeatType) /\ Y' = Y
    BY <1>1, <1>2, ConcatProperties
  <2>2. S = <<h>> \o Y /\ S' = << >> \o Y
    BY <1>3, <1>5, <2>1 DEF ReadStream
  <2> HIDE DEF Y, h
  <2>3. QED
    BY <1>4, <2>1, <2>2, InFront, ConcatEmptySeq
<1>10. r_m' = [r_m EXCEPT ![O[1]] = Append(@, S[1])] /\ r_m[i] \in Seq(BeatType)
  BY <1>1, <1>2, <1>4, <1>8, <1>9
<1> HIDE DEF O, S, i, h
<1>11. Routing(O', S', ar_s', rd', r_m')
  <2>1. Routing(IF S[1].last THEN Tail(O) ELSE O, Tail(S), ar_s, rd, [r_m EXCEPT ![O[1]] = Append(@, S[1])])
    BY <1>2, <1>9, RoutingDelivered DEF O, S
  <2>2. QED
    BY <1>1, <1>8, <1>9, <1>10, <2>1
<1>12. /\ S[1] = Beat(rd[i].burst, rd[i].k + Len(r_m[i]) + 1)
       /\ rd[i].k + Len(r_m[i]) + 1 \in 1 .. rd[i].burst.len
       /\ rd[i].at = "data"
  <2>1. 1 \in 1 .. Len(O)
    BY <1>8, EmptySeq
  <2>2. rd[i].at = "data"
    BY <1>8, <2>1 DEF Routing, O
  <2>3. QED
    <3>1. /\ ReadStream # << >> =>
              /\ ReadStream[1] = Beat(rd[O[1]].burst, rd[O[1]].k + Len(r_m[O[1]]) + 1)
              /\ rd[O[1]].k + Len(r_m[O[1]]) + 1 \in 1 .. rd[O[1]].burst.len
      BY <1>2, RoutingNext, SMTT(60) DEF O
    <3>2. QED
      BY <1>8, <1>9, <2>2, <3>1 DEF S
<1>13. /\ r_m'[i] = Append(r_m[i], S[1]) /\ Len(r_m'[i]) = Len(r_m[i]) + 1
       /\ \A k \in 1 .. Len(r_m[i]) : r_m'[i][k] = r_m[i][k]
       /\ r_m'[i][Len(r_m[i]) + 1] = S[1]
       /\ Len(r_m[i]) \in Nat /\ r_m'[i] \in Seq(BeatType)
       /\ \A j \in Masters : j # i => r_m'[j] = r_m[j]
       /\ r_m' \in [Masters -> Seq(BeatType)]
  <2>1. r_m'[i] = Append(r_m[i], S[1]) /\ \A j \in Masters : j # i => r_m'[j] = r_m[j]
    BY <1>2, <1>4, <1>8, <1>10 DEF i
  <2>2. S[1] \in BeatType
    BY <1>4, <1>9
  <2>3. /\ Len(r_m'[i]) = Len(r_m[i]) + 1
        /\ \A k \in 1 .. Len(r_m[i]) : r_m'[i][k] = r_m[i][k]
        /\ r_m'[i][Len(r_m[i]) + 1] = S[1]
        /\ Len(r_m[i]) \in Nat /\ r_m'[i] \in Seq(BeatType)
    BY <1>10, <2>1, <2>2, Appended
  <2>4. r_m' \in [Masters -> Seq(BeatType)]
    BY <1>2, <1>4, <1>8, <1>10, <2>1, <2>3
  <2>5. QED
    BY <2>1, <2>3, <2>4
<1>14. Delivered(rd, r_m)'
  <2>1. SUFFICES ASSUME NEW j \in Masters
                 PROVE  /\ \A k \in 1 .. Len(r_m'[j]) :
                             rd[j].at = "data" /\ r_m'[j][k] = Beat(rd[j].burst, rd[j].k + k)
                        /\ rd[j].at = "data" => rd[j].k + Len(r_m'[j]) <= rd[j].burst.len
    BY <1>1 DEF Delivered
  <2>2. CASE j # i
    BY <1>13, <2>2 DEF Delivered
  <2>3. CASE j = i
    <3>0. rd[i].k \in Nat /\ rd[i].burst.len \in Nat
      BY <1>2, <1>4, BeatIs DEF Reads, Read
    <3>1. ASSUME NEW k \in 1 .. Len(r_m'[i])
          PROVE  r_m'[i][k] = Beat(rd[i].burst, rd[i].k + k)
      <4>1. CASE k = Len(r_m[i]) + 1
        <5>1. rd[i].k + Len(r_m[i]) + 1 = rd[i].k + k
          BY <1>13, <3>0, <4>1
        <5>2. QED
          BY <1>12, <1>13, <4>1, <5>1
      <4>2. CASE k # Len(r_m[i]) + 1
        <5>1. k \in 1 .. Len(r_m[i])
          BY <1>13, <4>2
        <5>2. QED
          BY <1>4, <1>13, <5>1 DEF Delivered
      <4>3. QED
        BY <4>1, <4>2
    <3>2. rd[i].k + Len(r_m'[i]) <= rd[i].burst.len
      BY <1>12, <1>13, <3>0, SMTT(60)
    <3>3. QED
      BY <1>12, <2>3, <3>1, <3>2
  <2>4. QED
    BY <2>2, <2>3
<1>15. ReadTypes'
  BY <1>1, <1>5, <1>13 DEF ReadTypes
<1>16. Asking'
  <2>1. SUFFICES ASSUME NEW j \in Masters, Asks(j)
                 PROVE  Fresh(j, rd, r_m') /\ \A p \in 1 .. Len(O') : O'[p] # j
    BY <1>1 DEF Asking, Asks, Fresh, O
  <2>2. Fresh(j, rd, r_m) /\ \A p \in 1 .. Len(O) : O[p] # j
    BY <2>1 DEF Asking, O
  <2>3. 1 \in 1 .. Len(O)
    BY <1>8, EmptySeq
  <2>4. j # i
    BY <1>8, <2>2, <2>3
  <2>5. \A p \in 1 .. Len(O') : O'[p] # j
    <3>1. /\ Len(Tail(O)) = Len(O) - 1
          /\ \A p \in 1 .. Len(O) - 1 : Tail(O)[p] = O[p+1]
          /\ Len(O) \in Nat
      BY <1>8, TailOf
    <3>2. ASSUME NEW p \in 1 .. Len(Tail(O)) PROVE Tail(O)[p] # j
      <4>1. p + 1 \in 1 .. Len(O) /\ Tail(O)[p] = O[p+1]
        BY <3>1
      <4>2. QED
        BY <2>2, <4>1
    <3>3. QED
      BY <1>8, <2>2, <3>2
  <2>6. QED
    BY <1>13, <2>2, <2>4, <2>5 DEF Fresh
<1>17. QED
  BY <1>11, <1>14, <1>15, <1>16 DEF O, S

(* A master asks for a burst; none of its last one is on its way. *)
LEMMA ReadReadRequest == ASSUME NEW j \in Masters PROVE ReadInv /\ ReadRequest(j) => ReadInv'
<1>. SUFFICES ASSUME ReadInv, ReadRequest(j) PROVE ReadInv'
  OBVIOUS
<1>. USE DEF ReadInv
<1>1. PICK n \in 1 .. MaxLen :
         rd' = [rd EXCEPT ![j] = [at |-> "data", k |-> 0, burst |-> NextBurst(@.burst, n)]]
  BY DEF ReadRequest
<1>2. /\ rd[j].at = "idle"
      /\ ar_m' = [ar_m EXCEPT ![j] = Append(@, rd'[j].burst)]
      /\ UNCHANGED <<r_m, ar_s, r_s, read_in_flight, ar, r, rd_resp>>
  BY DEF ReadRequest
<1>3. /\ Reads(rd) /\ ar_m \in [Masters -> Seq(Burst)] /\ r_m \in [Masters -> Seq(BeatType)]
      /\ ar.valid \subseteq Masters
  BY DEF ReadTypes, Turn
<1> DEFINE c == NextBurst(rd[j].burst, n)
<1>4. c \in Burst /\ c.master = j
  <2>1. rd[j].burst \in Burst /\ rd[j].burst.master = j
    BY <1>3 DEF Reads, Read
  <2>2. 1 - rd[j].burst.seq \in 0 .. 1
    BY <2>1 DEF Burst
  <2>3. QED
    BY <2>1, <2>2 DEF NextBurst, Burst
<1> HIDE DEF c
<1>5. rd' = [rd EXCEPT ![j] = [at |-> "data", k |-> 0, burst |-> c]]
  BY <1>1 DEF c
<1>6. /\ rd'[j] = [at |-> "data", k |-> 0, burst |-> c]
      /\ \A i \in Masters : i # j => rd'[i] = rd[i]
  BY <1>3, <1>5 DEF Reads
<1>7. Reads(rd')
  <2>1. [at |-> "data", k |-> 0, burst |-> c] \in Read
    BY <1>4 DEF Read
  <2>2. QED
    BY <1>3, <1>4, <1>5, <1>6, <2>1 DEF Reads
<1>8. ~Fresh(j, rd, r_m) /\ ~Asks(j) /\ r_m[j] = << >> /\ ar_m[j] = << >>
  <2>1. ~Fresh(j, rd, r_m)
    BY <1>2 DEF Fresh
  <2>2. ~Asks(j)
    BY <2>1 DEF Asking
  <2>3. r_m[j] = << >>
    <3>1. r_m[j] \in Seq(BeatType)
      BY <1>3
    <3>2. r_m[j] # << >> => 1 \in 1 .. Len(r_m[j])
      BY <3>1, EmptySeq
    <3>3. QED
      BY <1>2, <3>2 DEF Delivered
  <2>4. QED
    BY <2>1, <2>2, <2>3 DEF Asks
<1>9. \A p \in 1 .. Len(ReadOwners) : ReadOwners[p] \in Masters /\ ReadOwners[p] # j
  BY <1>2 DEF Routing
<1>10. ar_m' = [ar_m EXCEPT ![j] = <<c>>]
  BY <1>2, <1>3, <1>6, <1>8
<1>11. ReadOwners' = ReadOwners /\ ReadStream' = ReadStream
  BY <1>2 DEF ReadOwners, ReadStream
<1>12. Routing(ReadOwners, ReadStream, ar_s, rd', r_m)
  <2>1. \A p \in 1 .. Len(ReadOwners) : rd'[ReadOwners[p]] = rd[ReadOwners[p]]
    BY <1>6, <1>9
  <2>2. QED
    BY <1>3, <2>1, RoutingSame
<1>13. Delivered(rd', r_m)
  <2>1. SUFFICES ASSUME NEW i \in Masters
                 PROVE  /\ \A k \in 1 .. Len(r_m[i]) :
                             rd'[i].at = "data" /\ r_m[i][k] = Beat(rd'[i].burst, rd'[i].k + k)
                        /\ rd'[i].at = "data" => rd'[i].k + Len(r_m[i]) <= rd'[i].burst.len
    BY DEF Delivered
  <2>2. CASE i # j
    BY <1>6, <2>2 DEF Delivered
  <2>3. CASE i = j
    <3>1. Len(r_m[j]) = 0 /\ rd'[j].k = 0 /\ rd'[j].burst = c /\ c.len \in Nat
      BY <1>4, <1>6, <1>8, BeatIs
    <3>2. 0 + 0 <= c.len
      BY <3>1
    <3>3. QED
      BY <2>3, <3>1, <3>2
  <2>4. QED
    BY <2>2, <2>3
<1>14. ReadTypes'
  <2>1. <<c>> \in Seq(Burst)
    BY <1>4
  <2>2. ar_m' \in [Masters -> Seq(Burst)]
    BY <1>3, <1>10, <2>1
  <2>3. QED
    BY <1>2, <1>7, <2>2 DEF ReadTypes
<1>15. Asking'
  <2>1. SUFFICES ASSUME NEW i \in Masters
                 PROVE  /\ ar_m'[i] # << >> => ar_m'[i] = <<rd'[i].burst>> /\ i \notin ar.valid
                        /\ i \in ar.valid => ar.reg[i] = rd'[i].burst
                        /\ ar_m'[i] # << >> \/ i \in ar.valid =>
                             Fresh(i, rd', r_m) /\ \A p \in 1 .. Len(ReadOwners) : ReadOwners[p] # i
    BY <1>2, <1>11 DEF Asking, Asks, Fresh
  <2>2. CASE i # j
    <3>1. ar_m'[i] = ar_m[i] /\ rd'[i] = rd[i]
      BY <1>3, <1>6, <1>10, <2>2
    <3>2. QED
      BY <3>1 DEF Asking, Asks, Fresh
  <2>3. CASE i = j
    <3>1. ar_m'[j] = <<c>> /\ rd'[j].burst = c /\ j \notin ar.valid /\ Fresh(j, rd', r_m)
      BY <1>3, <1>6, <1>8, <1>10 DEF Asks, Fresh
    <3>2. QED
      BY <1>9, <2>3, <3>1
  <2>4. QED
    BY <2>2, <2>3
<1>. QED
  BY <1>2, <1>11, <1>12, <1>13, <1>14, <1>15

(* A master takes a beat. *)
LEMMA ReadReadData == ASSUME NEW j \in Masters PROVE ReadInv /\ ReadData(j) => ReadInv'
<1>. SUFFICES ASSUME ReadInv, ReadData(j) PROVE ReadInv'
  OBVIOUS
<1>. USE DEF ReadInv
<1>1. /\ rd[j].at = "data" /\ r_m[j] # << >>
      /\ r_m' = [r_m EXCEPT ![j] = Tail(@)]
      /\ rd' = [rd EXCEPT ![j] = Consumed(@)]
      /\ UNCHANGED <<ar_m, ar_s, r_s, read_in_flight, ar, r, rd_resp>>
  BY DEF ReadData, HasMsg, Consumed
<1>2. Reads(rd) /\ r_m \in [Masters -> Seq(BeatType)]
  BY DEF ReadTypes
<1>3. /\ Reads(rd') /\ r_m' \in [Masters -> Seq(BeatType)]
      /\ Delivered(rd', r_m') /\ Routing(ReadOwners, ReadStream, ar_s, rd', r_m')
  BY <1>1, <1>2, DataConsumed
<1>4. ReadOwners' = ReadOwners /\ ReadStream' = ReadStream
  BY <1>1 DEF ReadOwners, ReadStream
<1>5. ReadTypes'
  BY <1>1, <1>3 DEF ReadTypes
<1>6. ~Asks(j)
  BY <1>1 DEF Asking, Fresh
<1>7. \A i \in Masters : i # j => rd'[i] = rd[i] /\ r_m'[i] = r_m[i]
  BY <1>1, <1>2 DEF Reads
<1>8. Asking'
  <2>1. SUFFICES ASSUME NEW i \in Masters
                 PROVE  /\ ar_m[i] # << >> => ar_m[i] = <<rd'[i].burst>> /\ i \notin ar.valid
                        /\ i \in ar.valid => ar.reg[i] = rd'[i].burst
                        /\ Asks(i) =>
                             Fresh(i, rd', r_m') /\ \A p \in 1 .. Len(ReadOwners) : ReadOwners[p] # i
    BY <1>1, <1>4 DEF Asking, Asks, Fresh
  <2>2. CASE i # j
    BY <1>7, <2>2 DEF Asking, Asks, Fresh
  <2>3. CASE i = j
    BY <1>6, <2>3 DEF Asks
  <2>4. QED
    BY <2>2, <2>3
<1>. QED
  BY <1>1, <1>3, <1>4, <1>5, <1>8

(* The slave takes a request: its beats come after those of the requests    *)
(* before it.                                                               *)
LEMMA ReadSlaveTake == ReadInv /\ SlaveTakeRead => ReadInv'
<1>. SUFFICES ASSUME ReadInv, SlaveTakeRead PROVE ReadInv'
  OBVIOUS
<1>. USE DEF ReadInv
<1>1. /\ ar_s # << >> /\ ar_s' = Tail(ar_s) /\ rd_resp' = rd_resp \o Beats(Head(ar_s))
      /\ UNCHANGED <<rd, ar_m, r_m, r_s, read_in_flight, ar, r>>
  BY DEF SlaveTakeRead, HasMsg, masterVars
<1>2. Reads(rd) /\ r_s \in Seq(BeatType) /\ rd_resp \in Seq(BeatType) /\ r.hand \in Seq(BeatType)
      /\ ar_s \in Seq(Burst)
  BY DEF ReadTypes, Responding, Routing
<1>3. Beats(Head(ar_s)) \in Seq(BeatType)
  BY <1>1, <1>2, BeatsAre, HeadTailProperties
<1>4. ReadStream' = ReadStream \o Beats(Head(ar_s))
  <2> DEFINE T == Beats(Head(ar_s))
  <2>1. \A s, t, u \in Seq(BeatType) : (s \o t) \o u = s \o (t \o u) /\ s \o t \in Seq(BeatType)
    BY ConcatAssociative, ConcatProperties, SMTT(60)
  <2>2. ReadStream' = r.hand \o (r_s \o (rd_resp \o T))
    BY <1>1 DEF ReadStream
  <2> HIDE DEF T
  <2>3. T \in Seq(BeatType)
    BY <1>3 DEF T
  <2>4. r_s \o (rd_resp \o T) = (r_s \o rd_resp) \o T
    BY <1>2, <2>1, <2>3, SMTT(60)
  <2>5. r.hand \o ((r_s \o rd_resp) \o T) = (r.hand \o (r_s \o rd_resp)) \o T
    <3> DEFINE Y == r_s \o rd_resp
    <3>1. Y \in Seq(BeatType)
      BY <1>2, <2>1
    <3> HIDE DEF Y
    <3>2. r.hand \o (Y \o T) = (r.hand \o Y) \o T
      <4>1. r.hand \in Seq(BeatType) /\ Y \in Seq(BeatType) /\ T \in Seq(BeatType)
        BY <1>2, <2>3, <3>1
      <4>2. (r.hand \o Y) \o T = r.hand \o (Y \o T)
        BY <4>1, <2>1, ZenonT(60)
      <4>3. QED
        BY <4>2
    <3>3. QED
      BY <3>2 DEF Y
  <2>6. QED
    BY <2>2, <2>4, <2>5 DEF ReadStream, T
<1>5. ReadOwners' = ReadOwners
  BY <1>1 DEF ReadOwners
<1>6. Routing(ReadOwners, ReadStream', ar_s', rd, r_m)
  BY <1>1, <1>2, <1>4, RoutingTaken
<1>7. ReadTypes'
  <2>1. rd_resp' \in Seq(BeatType)
    BY <1>1, <1>2, <1>3, ConcatProperties
  <2>2. QED
    BY <1>1, <2>1 DEF ReadTypes
<1>8. Asking'
  BY <1>1, <1>5 DEF Asking, Asks, Fresh
<1>. QED
  BY <1>1, <1>5, <1>6, <1>7, <1>8

(* The slave gives a beat. *)
LEMMA ReadSlaveGive == ReadInv /\ SlaveGiveBeat => ReadInv'
<1>. SUFFICES ASSUME ReadInv, SlaveGiveBeat PROVE ReadInv'
  OBVIOUS
<1>. USE DEF ReadInv
<1>1. /\ rd_resp # << >> /\ r_s' = Append(r_s, Head(rd_resp)) /\ rd_resp' = Tail(rd_resp)
      /\ UNCHANGED <<rd, ar_m, r_m, ar_s, read_in_flight, ar, r>>
  BY DEF SlaveGiveBeat, masterVars
<1>2. r_s \in Seq(BeatType) /\ rd_resp \in Seq(BeatType)
  BY DEF ReadTypes
<1>3. ReadStream' = ReadStream
  BY <1>1, <1>2, Moved DEF ReadStream
<1>4. ReadOwners' = ReadOwners
  BY <1>1 DEF ReadOwners
<1>5. ReadTypes'
  <2>1. r_s' \in Seq(BeatType) /\ rd_resp' \in Seq(BeatType)
    BY <1>1, <1>2, HeadTailProperties, AppendProperties
  <2>2. QED
    BY <1>1, <2>1 DEF ReadTypes
<1>6. Asking'
  BY <1>1, <1>4 DEF Asking, Asks, Fresh
<1>. QED
  BY <1>1, <1>3, <1>4, <1>5, <1>6

(* Every step keeps the invariant of the read side. *)
LEMMA ReadKept == ReadInv /\ [Next]_vars => ReadInv'
<1>. SUFFICES ASSUME ReadInv, [Next]_vars PROVE ReadInv'
  OBVIOUS
<1>1. CASE run_ar
  BY <1>1, ReadArPoll, ReadArPush, ReadArInFlight DEF run_ar
<1>2. CASE run_r
  BY <1>2, ReadRPoll, ReadRPush DEF run_r
<1>3. CASE run_aw
  BY <1>3, ReadSame DEF run_aw, AwPoll, AwPush, AwActive, AwInFlight, AwLast, masterVars
<1>4. CASE run_w
  BY <1>4, ReadSame DEF run_w, WActive, WPop, WPush, WLast, masterVars
<1>5. CASE run_b
  BY <1>5, ReadSame DEF run_b, BPoll, BPush, masterVars
<1>6. CASE \E i \in Masters : ReadRequest(i) \/ ReadData(i)
  BY <1>6, ReadReadRequest, ReadReadData
<1>7. CASE \E i \in Writers : WriteRequest(i) \/ WriteData(i) \/ WriteResponse(i)
  BY <1>7, ReadSame DEF WriteRequest, WriteData, WriteResponse
<1>8. CASE Slave
  BY <1>8, ReadSlaveTake, ReadSlaveGive, ReadSame
     DEF Slave, SlaveTakeAddr, SlaveTakeData, SlaveStore, SlaveGiveResponse, masterVars
<1>9. CASE UNCHANGED vars
  BY <1>9, ReadSame DEF vars, masterVars
<1>. QED
  BY <1>1, <1>2, <1>3, <1>4, <1>5, <1>6, <1>7, <1>8, <1>9 DEF Next

(* For every number of masters, burst length and channel capacity, with and *)
(* without random stalls: run_r and run_ar, which know a beat's owner only  *)
(* from the order of read_in_flight, give every master its own data, in     *)
(* order and none missing.                                                  *)
THEOREM ReadsReturn == Spec => []ReadsRouted
<1>1. ReadInv => ReadsRouted
  BY DEF ReadInv, Delivered, ReadsRouted
<1>. QED
  BY <1>1, ReadInit, ReadKept, PTL DEF Spec

-----------------------------------------------------------------------------
(* The write side: words W and the addresses U they belong to.  If more     *)
(* words of the last burst are to come, k of them have come.                *)
Ends(W, U, more, k) ==
    IF more
    THEN /\ U # << >> /\ k < U[Len(U)].len
         /\ W = << >> => Len(U) = 1
         /\ W # << >> => IF k = 0 THEN Len(U) > 1 /\ W[Len(W)].last /\ W[Len(W)].burst = U[Len(U) - 1]
                         ELSE W[Len(W)] = Beat(U[Len(U)], k)
    ELSE Complete(W, U)

(* run_aw passes on an address. *)
LEMMA EndsGranted ==
    ASSUME NEW W \in Seq(BeatType), NEW U \in Seq(Burst), Chained(W, U), Complete(W, U),
           NEW c \in Burst, \A p \in 1 .. Len(U) : U[p] # c
    PROVE  Chained(W, Append(U, c)) /\ Ends(W, Append(U, c), TRUE, 0)
<1> DEFINE v == Append(U, c)
<1>1. Chained(W, v)
  BY ChainMore
<1>2. /\ v \in Seq(Burst) /\ v # << >> /\ Len(v) = Len(U) + 1 /\ Len(U) \in Nat
      /\ \A p \in 1 .. Len(U) : v[p] = U[p]
      /\ v[Len(U) + 1] = c
  BY Appended
<1>3. c.len \in Nat /\ c.len >= 1
  BY BeatIs
<1> HIDE DEF v
<1>4. W = << >> => Len(v) = 1
  <2>1. W = << >> => U = << >>
    BY DEF Complete
  <2>2. U = << >> => Len(U) = 0
    OBVIOUS
  <2>3. QED
    BY <1>2, <2>1, <2>2
<1>5. W # << >> => Len(v) > 1 /\ W[Len(W)].last /\ W[Len(W)].burst = v[Len(v) - 1]
  <2>1. SUFFICES ASSUME W # << >>
                 PROVE  Len(v) > 1 /\ W[Len(W)].last /\ W[Len(W)].burst = v[Len(v) - 1]
    OBVIOUS
  <2>2. U # << >> /\ W[Len(W)].last /\ W[Len(W)].burst = U[Len(U)]
    BY <2>1 DEF Complete
  <2>3. Len(U) >= 1
    BY <2>2, EmptySeq
  <2>4. Len(U) \in 1 .. Len(U) /\ Len(v) - 1 = Len(U) /\ Len(v) > 1
    BY <1>2, <2>3
  <2>5. QED
    BY <1>2, <2>2, <2>4
<1>6. v[Len(v)] = c /\ 0 < c.len
  BY <1>2, <1>3
<1>7. QED
  BY <1>1, <1>2, <1>4, <1>5, <1>6 DEF Ends, v

(* run_w passes on the next word. *)
LEMMA EndsAdded ==
    ASSUME NEW W \in Seq(BeatType), NEW U \in Seq(Burst), Distinct(U), Chained(W, U),
           NEW k \in Nat, Ends(W, U, TRUE, k), NEW x, x = Beat(U[Len(U)], k + 1)
    PROVE  /\ x \in BeatType /\ Append(W, x) \in Seq(BeatType)
           /\ Chained(Append(W, x), U)
           /\ Ends(Append(W, x), U, ~x.last, k + 1)
<1> DEFINE m == Len(U)
           v == Append(W, x)
<1>1. /\ U # << >> /\ k < U[m].len /\ (W = << >> => m = 1)
      /\ W # << >> => IF k = 0 THEN m > 1 /\ W[Len(W)].last /\ W[Len(W)].burst = U[m - 1]
                      ELSE W[Len(W)] = Beat(U[m], k)
  BY DEF Ends
<1>2. m \in Nat /\ m >= 1 /\ U[m] \in Burst
  BY <1>1, EmptySeq
<1>3. /\ U[m].len \in Nat /\ k + 1 \in 1 .. U[m].len
      /\ x.burst = U[m] /\ x.k = k + 1 /\ (x.last <=> k + 1 = U[m].len) /\ x \in BeatType
      /\ Beat(U[m], k).burst = U[m] /\ Beat(U[m], k).k = k /\ (Beat(U[m], k).last <=> k = U[m].len)
  <2>1. U[m].len \in Nat
    BY <1>2, BeatIs
  <2>2. k + 1 \in 1 .. U[m].len
    BY <1>1, <2>1
  <2>3. QED
    BY <1>2, <2>1, <2>2, BeatIs
<1>4. InBurst(x, U[m])
  BY <1>3 DEF InBurst
<1>5. W # << >> => IF W[Len(W)].last
                   THEN m > 1 /\ W[Len(W)].burst = U[m - 1] /\ x = Beat(U[m], 1)
                   ELSE x = Beat(W[Len(W)].burst, W[Len(W)].k + 1)
  <2>1. CASE k = 0
    BY <1>1, <2>1
  <2>2. CASE k # 0
    <3>1. k # U[m].len
      BY <1>1, <1>3
    <3>2. W # << >> => W[Len(W)].burst = U[m] /\ W[Len(W)].k = k /\ ~W[Len(W)].last
      BY <1>1, <1>3, <2>2, <3>1
    <3>3. QED
      BY <3>2
  <2>3. QED
    BY <2>1, <2>2
<1>6. Chained(v, U)
  BY <1>1, <1>3, <1>4, <1>5, ChainAdd
<1>7. v \in Seq(BeatType) /\ v # << >> /\ v[Len(v)] = x
  BY <1>3, Appended
<1> HIDE DEF v
<1>10. Ends(v, U, ~x.last, k + 1)
  <2>1. CASE x.last
    BY <1>1, <1>3, <1>7, <2>1 DEF Ends, Complete
  <2>2. CASE ~x.last
    <3>1. k + 1 < U[m].len /\ k + 1 # 0
      BY <1>3, <2>2
    <3>2. x = Beat(U[m], k + 1)
      OBVIOUS
    <3>3. QED
      BY <1>1, <1>7, <2>2, <3>1, <3>2 DEF Ends
  <2>3. QED
    BY <2>1, <2>2, <1>3
<1>11. QED
  BY <1>3, <1>6, <1>7, <1>10 DEF v

(* The slave stores the oldest word, and with the last of a burst is done   *)
(* with the address.                                                        *)
LEMMA EndsStored ==
    ASSUME NEW W \in Seq(BeatType), NEW U \in Seq(Burst), Distinct(U), Chained(W, U),
           NEW more \in BOOLEAN, NEW k, Ends(W, U, more, k), W # << >>
    PROVE  LET V == IF W[1].last THEN Tail(U) ELSE U
           IN  /\ Chained(Tail(W), V) /\ Ends(Tail(W), V, more, k)
               /\ U # << >> /\ W[1].burst = U[1]
<1> DEFINE V == IF W[1].last THEN Tail(U) ELSE U
           T == Tail(W)
           m == Len(U)
           n == Len(W)
<1>1. /\ U # << >> /\ InBurst(W[1], U[1])
      /\ ~W[1].last => Chained(T, U)
      /\ W[1].last => Chained(T, Tail(U))
      /\ T # << >> =>
            IF W[1].last THEN m > 1 /\ T[1] = Beat(U[2], 1)
            ELSE T[1] = Beat(U[1], W[1].k + 1)
  BY ChainPop
<1>2. W[1].burst = U[1]
  BY DEF Chained
<1>3. /\ T \in Seq(BeatType) /\ Len(T) = n - 1
      /\ \A j \in 1 .. n - 1 : T[j] = W[j+1]
      /\ n \in Nat /\ n >= 1
      /\ (T = << >> <=> n = 1)
  BY TailOf, TailEmpty
<1>4. m \in Nat /\ m >= 1 /\ \A p \in 1 .. m : U[p] \in Burst
  BY <1>1, EmptySeq
<1>5. /\ Tail(U) \in Seq(Burst) /\ Len(Tail(U)) = m - 1
      /\ \A p \in 1 .. m - 1 : Tail(U)[p] = U[p+1]
      /\ (Tail(U) = << >> <=> m = 1)
  BY <1>1, TailOf, TailEmpty
<1>6. T # << >> => T[Len(T)] = W[n] /\ n > 1
  <2>1. SUFFICES ASSUME T # << >> PROVE T[Len(T)] = W[n] /\ n > 1
    OBVIOUS
  <2>2. n - 1 \in 1 .. n - 1
    BY <1>3, <2>1
  <2>3. QED
    BY <1>3, <2>2
<1>7. W[1].last /\ n > 1 => W[n].burst # U[1]
  BY <1>2, <1>3 DEF Chained
<1>8. \A p, q \in 1 .. m : U[p] = U[q] => p = q
  BY DEF Distinct
<1> HIDE DEF T, m, n
<1>9. CASE W[1].last
  <2> DEFINE Y == Tail(U)
  <2>0. V = Y
    BY <1>9
  <2>1. Y # << >> => Y[Len(Y)] = U[m] /\ m > 1
    <3>1. SUFFICES ASSUME Y # << >> PROVE Y[Len(Y)] = U[m] /\ m > 1
      OBVIOUS
    <3>2. m - 1 \in 1 .. m - 1
      BY <1>4, <1>5, <3>1
    <3>3. QED
      BY <1>4, <1>5, <3>2
  <2> HIDE DEF Y
  <2>2. CASE more
    <3>1. /\ k < U[m].len
          /\ IF k = 0 THEN m > 1 /\ W[n].last /\ W[n].burst = U[m - 1]
             ELSE W[n] = Beat(U[m], k)
      BY <2>2 DEF Ends, m, n
    <3>4. Ends(T, Y, more, k)
      <4>2. CASE k = 0
        <5>1. /\ m > 1 /\ Y # << >> /\ m - 1 \in 1 .. m /\ 1 \in 1 .. m /\ U[m-1] = W[n].burst
              /\ W[n].last
          BY <1>4, <1>5, <3>1, <4>2 DEF Y
        <5>2. CASE n = 1
          <6>1. m - 1 = 1
            BY <1>2, <1>8, <5>1, <5>2
          <6>2. T = << >> /\ Len(Y) = 1
            BY <1>3, <1>5, <5>2, <6>1 DEF Y
          <6>3. QED
            BY <2>1, <2>2, <3>1, <5>1, <6>2 DEF Ends
        <5>3. CASE n # 1
          <6>1. n > 1 /\ T # << >>
            BY <1>3, <5>3
          <6>2. m - 1 # 1
            BY <1>7, <1>9, <5>1, <6>1
          <6>3. Len(Y) > 1 /\ Len(Y) - 1 = m - 2 /\ m - 2 \in 1 .. m - 1 /\ (m - 2) + 1 = m - 1
            BY <1>4, <1>5, <5>1, <6>2 DEF Y
          <6>4. Y[Len(Y) - 1] = U[m - 1]
            BY <1>5, <6>3 DEF Y
          <6>5. QED
            BY <1>6, <2>1, <2>2, <3>1, <4>2, <5>1, <6>1, <6>3, <6>4 DEF Ends
        <5>4. QED
          BY <5>2, <5>3
      <4>3. CASE k # 0
        <5>1. W[n] = Beat(U[m], k) /\ U[m] \in Burst /\ m \in 1 .. m
          BY <1>4, <3>1, <4>3
        <5>2. W[n].burst = U[m] /\ (W[n].last <=> k = U[m].len) /\ U[m].len \in Nat
          BY <5>1, BeatIs
        <5>3. ~W[n].last
          BY <3>1, <5>2
        <5>4. n > 1 /\ T # << >>
          BY <1>3, <1>9, <5>3
        <5>5. Y # << >>
          BY <1>1, <1>4, <1>5, <1>9, <5>4 DEF Y, m
        <5>6. QED
          BY <1>6, <2>1, <2>2, <3>1, <4>3, <5>1, <5>4, <5>5 DEF Ends
      <4>4. QED
        BY <4>2, <4>3
    <3>5. QED
      BY <1>1, <1>2, <1>9, <2>0, <3>4 DEF T, Y
  <2>3. CASE ~more
    <3>1. W[n].last /\ W[n].burst = U[m]
      BY <1>1, <2>3 DEF Ends, Complete, m, n
    <3>2. Complete(T, Y)
      <4>1. CASE m = 1
        <5>1. Y = << >>
          BY <1>5, <4>1 DEF Y
        <5>2. T = << >>
          BY <1>1, <1>9, <4>1 DEF m
        <5>3. QED
          BY <5>1, <5>2 DEF Complete
      <4>2. CASE m # 1
        <5>1. Y # << >>
          BY <1>5, <4>2 DEF Y
        <5>2. U[1] # U[m]
          BY <1>4, <1>8, <4>2
        <5>3. n # 1
          BY <1>2, <3>1, <5>2
        <5>4. T # << >>
          BY <1>3, <5>3
        <5>5. QED
          BY <1>6, <2>1, <3>1, <5>1, <5>4 DEF Complete
      <4>3. QED
        BY <4>1, <4>2
    <3>3. Ends(T, Y, more, k)
      BY <2>3, <3>2 DEF Ends
    <3>4. QED
      BY <1>1, <1>2, <1>9, <2>0, <3>3 DEF T, Y
  <2>4. QED
    BY <2>2, <2>3
<1>10. CASE ~W[1].last
  <2>0. V = U
    BY <1>10
  <2>1. CASE more
    <3>1. /\ k < U[m].len
          /\ IF k = 0 THEN m > 1 /\ W[n].last /\ W[n].burst = U[m - 1]
             ELSE W[n] = Beat(U[m], k)
      BY <2>1 DEF Ends, m, n
    <3>2. T = << >> => m = 1
      <4>1. SUFFICES ASSUME T = << >> PROVE m = 1
        OBVIOUS
      <4>2. n = 1 /\ k # 0
        BY <1>3, <1>10, <3>1, <4>1
      <4>3. W[1].burst = U[m] /\ m \in 1 .. m /\ 1 \in 1 .. m
        BY <1>4, <3>1, <4>2, BeatIs
      <4>4. QED
        BY <1>2, <1>8, <4>3
    <3>3. Ends(T, U, more, k)
      BY <1>1, <1>6, <2>1, <3>1, <3>2 DEF Ends, m
    <3>4. QED
      BY <1>1, <1>2, <1>10, <2>0, <3>3 DEF T
  <2>2. CASE ~more
    <3>1. W[n].last /\ W[n].burst = U[m]
      BY <1>1, <2>2 DEF Ends, Complete, m, n
    <3>2. T # << >>
      BY <1>3, <1>10, <3>1
    <3>3. Ends(T, U, more, k)
      BY <1>1, <1>6, <2>2, <3>1, <3>2 DEF Ends, Complete, m
    <3>4. QED
      BY <1>1, <1>2, <1>10, <2>0, <3>3 DEF T
  <2>3. QED
    BY <2>1, <2>2
<1>11. QED
  BY <1>9, <1>10

-----------------------------------------------------------------------------
(* The masters whose writes are on their way, and the answers they get. *)
Write == [at : {"idle", "data", "resp"}, k : Nat, burst : Burst]
Writes(wrs) ==
    /\ wrs \in [Writers -> Write]
    /\ \A i \in Writers : wrs[i].burst.master = i

Quiet(i, wrs, wm) == wrs[i].at = "resp" /\ wm[i] = << >>

(* O are the masters, A their answers; if more words of the last write are  *)
(* to come, its master need not be done.                                    *)
Order(O, A, more, wrs, wm) ==
    /\ O \in Seq(Masters) /\ Distinct(O) /\ Len(A) = Len(O)
    /\ \A p \in 1 .. Len(O) :
          /\ O[p] \in Writers /\ A[p] = wrs[O[p]].burst /\ wrs[O[p]].at # "idle"
          /\ (more /\ p = Len(O)) \/ Quiet(O[p], wrs, wm)

(* run_aw passes on a request. *)
LEMMA OrderAdded ==
    ASSUME NEW O, NEW A \in Seq(Burst), NEW wrs, NEW wm, Writes(wrs), Order(O, A, FALSE, wrs, wm),
           NEW c \in Writers, wrs[c].at # "idle", \A p \in 1 .. Len(O) : O[p] # c
    PROVE  Order(Append(O, c), Append(A, wrs[c].burst), TRUE, wrs, wm)
<1> DEFINE P == Append(O, c)
           B == Append(A, wrs[c].burst)
<1>1. c \in Masters /\ wrs[c].burst \in Burst /\ O \in Seq(Masters) /\ Len(A) = Len(O)
  BY WritersAssumption DEF Writes, Write, Order
<1>2. /\ P \in Seq(Masters) /\ Len(P) = Len(O) + 1 /\ Len(O) \in Nat
      /\ \A p \in 1 .. Len(O) : P[p] = O[p]
      /\ P[Len(O) + 1] = c
  BY <1>1, Appended
<1>3. /\ Len(B) = Len(O) + 1
      /\ \A p \in 1 .. Len(O) : B[p] = A[p]
      /\ B[Len(O) + 1] = wrs[c].burst
  BY <1>1, Appended
<1> HIDE DEF P, B
<1>4. Distinct(P)
  <2>1. SUFFICES ASSUME NEW p \in 1 .. Len(P), NEW q \in 1 .. Len(P), P[p] = P[q] PROVE p = q
    BY DEF Distinct
  <2>2. p \in 1 .. Len(O) \/ p = Len(O) + 1
    BY <1>2
  <2>3. q \in 1 .. Len(O) \/ q = Len(O) + 1
    BY <1>2
  <2>4. QED
    BY <1>2, <2>1, <2>2, <2>3 DEF Order, Distinct
<1>5. ASSUME NEW p \in 1 .. Len(P)
      PROVE  /\ P[p] \in Writers /\ B[p] = wrs[P[p]].burst /\ wrs[P[p]].at # "idle"
             /\ p = Len(P) \/ Quiet(P[p], wrs, wm)
  <2>1. CASE p = Len(O) + 1
    BY <1>2, <1>3, <2>1
  <2>2. CASE p # Len(O) + 1
    <3>1. p \in 1 .. Len(O)
      BY <1>2, <2>2
    <3>2. QED
      BY <1>2, <1>3, <3>1 DEF Order
  <2>3. QED
    BY <2>1, <2>2
<1>6. QED
  BY <1>2, <1>3, <1>4, <1>5 DEF Order, P, B

(* run_b hands over the first answer; the master of the write that is not   *)
(* complete is not the first.                                               *)
LEMMA OrderServed ==
    ASSUME NEW O, NEW A \in Seq(Burst), NEW more \in BOOLEAN, NEW wrs, NEW wm,
           Order(O, A, more, wrs, wm), O # << >>, more => Len(O) # 1
    PROVE  /\ Order(Tail(O), Tail(A), more, wrs, wm)
           /\ O[1] \in Writers /\ A[1] = wrs[O[1]].burst /\ Quiet(O[1], wrs, wm)
           /\ \A p \in 1 .. Len(Tail(O)) : Tail(O)[p] # O[1]
<1>1. O \in Seq(Masters) /\ Len(A) = Len(O) /\ Distinct(O)
  BY DEF Order
<1>2. /\ Tail(O) \in Seq(Masters) /\ Len(Tail(O)) = Len(O) - 1
      /\ \A p \in 1 .. Len(O) - 1 : Tail(O)[p] = O[p+1]
      /\ Len(O) \in Nat /\ Len(O) >= 1
  BY <1>1, TailOf
<1>3. A # << >>
  BY <1>1, <1>2
<1>4. /\ Len(Tail(A)) = Len(O) - 1
      /\ \A p \in 1 .. Len(O) - 1 : Tail(A)[p] = A[p+1]
  BY <1>1, <1>3, TailOf
<1>5. Distinct(Tail(O))
  BY <1>1, DistinctTail
<1>6. 1 \in 1 .. Len(O) /\ (more => 1 # Len(O))
  BY <1>2
<1>7. O[1] \in Writers /\ A[1] = wrs[O[1]].burst /\ Quiet(O[1], wrs, wm)
  BY <1>6 DEF Order
<1>8. ASSUME NEW p \in 1 .. Len(O) - 1 PROVE Tail(O)[p] # O[1] /\ p + 1 \in 1 .. Len(O) /\ (p = Len(O) - 1 <=> p + 1 = Len(O))
  <2>1. p + 1 \in 1 .. Len(O) /\ p + 1 # 1 /\ (p = Len(O) - 1 <=> p + 1 = Len(O))
    BY <1>2
  <2>2. QED
    BY <1>1, <1>2, <1>6, <2>1 DEF Distinct
<1>9. ASSUME NEW p \in 1 .. Len(O) - 1
      PROVE  /\ Tail(O)[p] \in Writers /\ Tail(A)[p] = wrs[Tail(O)[p]].burst /\ wrs[Tail(O)[p]].at # "idle"
             /\ (more /\ p = Len(O) - 1) \/ Quiet(Tail(O)[p], wrs, wm)
  <2>1. p + 1 \in 1 .. Len(O) /\ (p = Len(O) - 1 <=> p + 1 = Len(O)) /\ Tail(O)[p] = O[p+1] /\ Tail(A)[p] = A[p+1]
    BY <1>2, <1>4, <1>8
  <2>2. /\ O[p+1] \in Writers /\ A[p+1] = wrs[O[p+1]].burst /\ wrs[O[p+1]].at # "idle"
        /\ (more /\ p + 1 = Len(O)) \/ Quiet(O[p+1], wrs, wm)
    BY <2>1 DEF Order
  <2>3. QED
    BY <2>1, <2>2
<1>10. Order(Tail(O), Tail(A), more, wrs, wm)
  BY <1>2, <1>4, <1>5, <1>9 DEF Order
<1>11. QED
  BY <1>2, <1>7, <1>8, <1>10

(* The addresses the slave has not yet done with are of different masters.  *)
LEMMA OrderOwned ==
    ASSUME NEW O, NEW D \in Seq(Burst), NEW U \in Seq(Burst), NEW more, NEW wrs, NEW wm,
           Writes(wrs), Order(O, D \o U, more, wrs, wm)
    PROVE  /\ Distinct(U) /\ Len(O) = Len(D) + Len(U) /\ Len(D) \in Nat /\ Len(U) \in Nat
           /\ \A p \in 1 .. Len(U) : /\ Len(D) + p \in 1 .. Len(O)
                                     /\ U[p] = wrs[O[Len(D) + p]].burst
                                     /\ U[p].master = O[Len(D) + p]
<1>1. /\ Len(D \o U) = Len(D) + Len(U) /\ Len(D) \in Nat /\ Len(U) \in Nat
      /\ \A i \in 1 .. Len(D) + Len(U) : (D \o U)[i] = IF i <= Len(D) THEN D[i] ELSE U[i - Len(D)]
  BY ConcatProperties
<1>2. Len(O) = Len(D) + Len(U) /\ Distinct(O)
  BY <1>1 DEF Order
<1>3. ASSUME NEW p \in 1 .. Len(U)
      PROVE  /\ Len(D) + p \in 1 .. Len(O)
             /\ U[p] = wrs[O[Len(D) + p]].burst
             /\ U[p].master = O[Len(D) + p]
  <2>1. Len(D) + p \in 1 .. Len(O) /\ ~(Len(D) + p <= Len(D)) /\ (Len(D) + p) - Len(D) = p
    BY <1>1, <1>2
  <2>2. (D \o U)[Len(D) + p] = U[p]
    BY <1>1, <1>2, <2>1
  <2>3. O[Len(D) + p] \in Writers /\ (D \o U)[Len(D) + p] = wrs[O[Len(D) + p]].burst
    BY <2>1 DEF Order
  <2>4. QED
    BY <2>1, <2>2, <2>3 DEF Writes
<1>4. Distinct(U)
  <2>1. SUFFICES ASSUME NEW p \in 1 .. Len(U), NEW q \in 1 .. Len(U), U[p] = U[q] PROVE p = q
    BY DEF Distinct
  <2>2. O[Len(D) + p] = O[Len(D) + q] /\ Len(D) + p \in 1 .. Len(O) /\ Len(D) + q \in 1 .. Len(O)
    <3>1. U[p].master = O[Len(D) + p] /\ Len(D) + p \in 1 .. Len(O)
      BY <1>3
    <3>2. U[q].master = O[Len(D) + q] /\ Len(D) + q \in 1 .. Len(O)
      BY <1>3
    <3>3. QED
      BY <2>1, <3>1, <3>2
  <2>3. Len(D) + p = Len(D) + q
    BY <1>2, <2>2 DEF Distinct
  <2>4. QED
    BY <1>1, <2>3
<1>5. QED
  BY <1>1, <1>2, <1>3, <1>4

(* The sequences of the write side: the owners from run_b to run_aw, the    *)
(* responses from run_b to the slave, the addresses whose words are not all *)
(* stored, and the words from run_w to the slave.                           *)
WriteOwners == Due(b, write_in_flight)
                 \o (IF aw.at \in {"active", "flight"} THEN <<aw.chosen>> ELSE << >>)
Done == b.hand \o (b_s \o wr_resp)
Unstored == wr_addr \o aw_s
Words == wr_data \o (w_s \o (IF w.at = "push" THEN w.reg ELSE << >>))

(* More words of the last write passed on are to come. *)
Open ==
    \/ aw.at = "active" \/ active_write_master # << >> \/ w.at = "pop"
    \/ w.at \in {"push", "last"} /\ ~w.reg[1].last

(* The master is not among the owners.                                      *)
NotIn(i, O) == \A p \in 1 .. Len(O) : O[p] # i

(* What the threads and channels of the write side hold.                    *)
WriteTypes ==
    /\ Turn(aw) /\ aw.at \in {"poll", "addr", "active", "flight", "wait"}
    /\ aw.valid \subseteq Writers /\ (aw.at # "poll" => aw.chosen \in aw.valid)
    /\ Writes(wr) /\ Responding(b, Burst)
    /\ aw_m \in [Masters -> Seq(Burst)] /\ w_m \in [Masters -> Seq(BeatType)]
    /\ b_m \in [Masters -> Seq(Burst)]
    /\ aw_s \in Seq(Burst) /\ b_s \in Seq(Burst) /\ wr_addr \in Seq(Burst) /\ wr_resp \in Seq(Burst)
    /\ w_s \in Seq(BeatType) /\ wr_data \in Seq(BeatType)
    /\ write_in_flight \in Seq(Masters) /\ active_write_master \in Seq(Masters)
    /\ w_last \in Seq(BOOLEAN)
    /\ w \in [at : {"idle", "pop", "push", "last"}, master : Masters, reg : Seq(BeatType)]
    /\ w.at \in {"push", "last"} => w.reg # << >> /\ w.reg = <<w.reg[1]>> /\ w.reg[1] \in BeatType

(* How far run_aw and run_w are with a write. *)
NotHanded == active_write_master = << >> /\ w.at = "idle" /\ w_last = << >>
Given == active_write_master = <<aw.chosen>> /\ w.at = "idle" /\ w_last = << >>
Passing == /\ active_write_master = << >> /\ w.at \in {"pop", "push", "last"} /\ w.master = aw.chosen
           /\ \A k \in 1 .. Len(w_last) : ~w_last[k]
Finished == /\ active_write_master = << >> /\ w.at = "idle" /\ w_last # << >>
            /\ \A k \in 1 .. Len(w_last) : w_last[k] <=> k = Len(w_last)
Handing == IF aw.at \in {"poll", "addr", "active"} THEN NotHanded ELSE Given \/ Passing \/ Finished

(* The words a master has sent that run_w has taken. *)
Sent(i, wrs, wm) == wrs[i].k - Len(wm[i])

(* The words of a master come in order and none is missing.                 *)
Sending(wrs, wm) ==
    \A i \in Writers :
        /\ wrs[i].at = "idle" => wm[i] = << >>
        /\ wrs[i].at = "data" => wrs[i].k < wrs[i].burst.len
        /\ wrs[i].at = "resp" => wrs[i].k = wrs[i].burst.len
        /\ Len(wm[i]) <= wrs[i].k
        /\ \A k \in 1 .. Len(wm[i]) : wm[i][k] = Beat(wrs[i].burst, Sent(i, wrs, wm) + k)

(* The words on their way are those of the addresses on their way, and of   *)
(* the last one exactly those that its master has sent.                     *)
Fits(W, U, more, c, wrs, wm) ==
    /\ Chained(W, U) /\ Ends(W, U, more, Sent(c, wrs, wm))
    /\ more => U # << >> /\ U[Len(U)] = wrs[c].burst

(* A response that a master has not taken is that of its write.             *)
Replied(O, wrs, wm, bm) ==
    \A i \in Masters :
        bm[i] # << >> => i \in Writers /\ bm[i] = <<wrs[i].burst>> /\ Quiet(i, wrs, wm) /\ NotIn(i, O)

(* The request of i is held and not yet passed on.                          *)
Waiting(i, t) == i \in t.valid /\ (i = t.chosen => t.at \in {"poll", "addr"})

(* What is known of a master whose request run_aw has not yet passed on. *)
Applies(i, O, wrs, wm, bm) ==
    i \in Writers /\ wrs[i].at # "idle" /\ Sent(i, wrs, wm) = 0 /\ bm[i] = << >> /\ NotIn(i, O)
Applying(O, t, req, wrs, wm, bm) ==
    \A i \in Masters :
        /\ req[i] # << >> => req[i] = <<wrs[i].burst>> /\ ~Waiting(i, t)
        /\ Waiting(i, t) => t.reg[i] = wrs[i].burst
        /\ req[i] # << >> \/ Waiting(i, t) => Applies(i, O, wrs, wm, bm)

(* The inductive invariant of the write side.                               *)
WriteInv ==
    /\ WriteTypes /\ Handing /\ Sending(wr, w_m)
    /\ Order(WriteOwners, Done \o Unstored, Open, wr, w_m)
    /\ Fits(Words, Unstored, Open, aw.chosen, wr, w_m)
    /\ Replied(WriteOwners, wr, w_m, b_m)
    /\ Applying(WriteOwners, aw, aw_m, wr, w_m, b_m)

-----------------------------------------------------------------------------
(* Nothing is written in the beginning. *)
LEMMA WriteInit == Init => WriteInv
<1>. SUFFICES ASSUME Init PROVE WriteInv
  OBVIOUS
<1>1. /\ aw = Requester /\ b = Responder
      /\ wr = [i \in Writers |-> NoBurst(i)]
      /\ aw_m = [i \in Masters |-> << >>] /\ w_m = [i \in Masters |-> << >>]
      /\ b_m = [i \in Masters |-> << >>]
      /\ aw_s = << >> /\ w_s = << >> /\ b_s = << >> /\ write_in_flight = << >>
      /\ active_write_master = << >> /\ w_last = << >>
      /\ w = [at |-> "idle", master |-> 0, reg |-> << >>]
      /\ wr_addr = << >> /\ wr_data = << >> /\ wr_resp = << >>
  BY DEF Init
<1>2. 0 \in Masters
  BY SizeAssumption DEF Masters
<1>3. Turn(aw) /\ aw.at = "poll" /\ aw.valid = {}
  BY <1>1, TurnInit DEF Requester
<1>4. b = [queue |-> << >>, busy |-> FALSE, owner |-> 0, hand |-> << >>]
  BY <1>1 DEF Responder
<1>5. Responding(b, Burst)
  BY <1>2, <1>4 DEF Responding
<1>6. Writes(wr)
  <2>1. ASSUME NEW i \in Writers
        PROVE  NoBurst(i) \in Write /\ NoBurst(i).burst.master = i
    <3>1. [master |-> i, seq |-> 0, len |-> 1] \in Burst
      BY MaxLenAssumption, WritersAssumption DEF Burst
    <3>2. QED
      BY <3>1 DEF NoBurst, Write
  <2>2. QED
    BY <1>1, <2>1 DEF Writes
<1>7. /\ w.at = "idle"
      /\ w \in [at : {"idle", "pop", "push", "last"}, master : Masters, reg : Seq(BeatType)]
  BY <1>1, <1>2
<1>8. WriteTypes
  BY <1>1, <1>3, <1>5, <1>6, <1>7 DEF WriteTypes
<1>9. /\ WriteOwners = << >> /\ Done = << >> /\ Unstored = << >> /\ Words = << >>
      /\ Done \o Unstored = << >> /\ Open = FALSE /\ Handing
  BY <1>1, <1>3, <1>4, <1>7
     DEF WriteOwners, Done, Unstored, Words, Due, Serving, Open, Handing, NotHanded
<1>10. Sending(wr, w_m)
  BY <1>1, WritersAssumption DEF Sending, NoBurst
<1>11. Order(<< >>, << >>, FALSE, wr, w_m)
  BY DEF Order, Distinct
<1>12. Fits(<< >>, << >>, FALSE, aw.chosen, wr, w_m)
  BY DEF Fits, Chained, Ends, Complete
<1>13. Replied(<< >>, wr, w_m, b_m)
  BY <1>1 DEF Replied
<1>14. Applying(<< >>, aw, aw_m, wr, w_m, b_m)
  BY <1>1, <1>3 DEF Applying, Waiting
<1>. QED
  BY <1>8, <1>9, <1>10, <1>11, <1>12, <1>13, <1>14 DEF WriteInv

(* What a step of the others, or of none, keeps. *)
LEMMA WriteSame == WriteInv /\ UNCHANGED <<wr, writeVars>> => WriteInv'
<1>. SUFFICES ASSUME WriteInv, UNCHANGED <<wr, writeVars>> PROVE WriteInv'
  OBVIOUS
<1>1. UNCHANGED <<wr, aw_m, w_m, b_m, aw_s, w_s, b_s, write_in_flight, active_write_master,
                  w_last, aw, w, b, wr_addr, wr_data, wr_resp>>
  BY DEF writeVars
<1>2. /\ WriteOwners' = WriteOwners /\ Done' = Done /\ Unstored' = Unstored /\ Words' = Words
      /\ Open' = Open /\ Handing' = Handing
  BY <1>1 DEF WriteOwners, Done, Unstored, Words, Open, Handing, NotHanded, Given, Passing, Finished
<1>3. WriteTypes'
  BY <1>1 DEF WriteInv, WriteTypes
<1>4. Handing'
  BY <1>2 DEF WriteInv
<1>5. QED
  BY <1>1, <1>2, <1>3, <1>4 DEF WriteInv

(* The master of the last write passed on, if more of its words are to come. *)
LEMMA OpenOwner ==
    ASSUME WriteInv, Open
    PROVE  LET O == WriteOwners IN
           /\ O # << >> /\ Len(O) \in Nat /\ Len(O) \in 1 .. Len(O) /\ O[Len(O)] = aw.chosen
           /\ aw.chosen \in Writers /\ Unstored # << >>
<1> DEFINE O == WriteOwners
           U == Unstored
           D == Done
<1>1. /\ Order(O, D \o U, Open, wr, w_m) /\ U # << >> /\ U[Len(U)] = wr[aw.chosen].burst
  BY DEF WriteInv, Fits
<1>2. D \in Seq(Burst) /\ U \in Seq(Burst) /\ Writes(wr)
  <2>1. /\ b.hand \in Seq(Burst) /\ b_s \in Seq(Burst) /\ wr_resp \in Seq(Burst)
        /\ wr_addr \in Seq(Burst) /\ aw_s \in Seq(Burst) /\ Writes(wr)
    BY DEF WriteInv, WriteTypes, Responding
  <2>2. b_s \o wr_resp \in Seq(Burst)
    BY <2>1, ConcatProperties
  <2>3. QED
    BY <2>1, <2>2, ConcatProperties DEF Done, Unstored
<1>3. aw.chosen \in Writers
  <2>1. aw.at # "poll"
    BY DEF WriteInv, Open, Handing, NotHanded
  <2>2. QED
    BY <2>1 DEF WriteInv, WriteTypes
<1> HIDE DEF O, U, D
<1>4. /\ Len(O) = Len(D) + Len(U) /\ Len(D) \in Nat /\ Len(U) \in Nat
      /\ \A p \in 1 .. Len(U) : /\ Len(D) + p \in 1 .. Len(O)
                                /\ U[p].master = O[Len(D) + p]
  BY <1>1, <1>2, OrderOwned, ZenonT(60)
<1>5. Len(U) \in 1 .. Len(U)
  BY <1>1, <1>2, EmptySeq
<1>6. Len(O) \in 1 .. Len(O) /\ O[Len(O)] = U[Len(U)].master
  BY <1>4, <1>5
<1>7. wr[aw.chosen].burst.master = aw.chosen
  BY <1>2, <1>3 DEF Writes
<1>8. O \in Seq(Masters) /\ Len(O) \in Nat
  BY <1>1 DEF Order
<1>9. O # << >>
  BY <1>6, <1>8
<1>10. QED
  BY <1>1, <1>3, <1>6, <1>7, <1>8, <1>9 DEF O, U

(* Types of the queues put together. *)
LEMMA WriteSeqs ==
    WriteInv => /\ Done \in Seq(Burst) /\ Unstored \in Seq(Burst) /\ Done \o Unstored \in Seq(Burst)
                /\ Words \in Seq(BeatType) /\ WriteOwners \in Seq(Masters)
<1>. SUFFICES ASSUME WriteInv
             PROVE  /\ Done \in Seq(Burst) /\ Unstored \in Seq(Burst) /\ Done \o Unstored \in Seq(Burst)
                    /\ Words \in Seq(BeatType) /\ WriteOwners \in Seq(Masters)
  OBVIOUS
<1>1. /\ b.hand \in Seq(Burst) /\ b_s \in Seq(Burst) /\ wr_resp \in Seq(Burst)
      /\ wr_addr \in Seq(Burst) /\ aw_s \in Seq(Burst)
      /\ w_s \in Seq(BeatType) /\ wr_data \in Seq(BeatType) /\ w.reg \in Seq(BeatType)
  BY DEF WriteInv, WriteTypes, Responding
<1>2. b_s \o wr_resp \in Seq(Burst)
  BY <1>1, ConcatProperties
<1>3. Done \in Seq(Burst) /\ Unstored \in Seq(Burst)
  BY <1>1, <1>2, ConcatProperties DEF Done, Unstored
<1>4. Done \o Unstored \in Seq(Burst)
  BY <1>3, ConcatProperties
<1> DEFINE Reg == IF w.at = "push" THEN w.reg ELSE << >>
<1>5. Reg \in Seq(BeatType)
  BY <1>1
<1> HIDE DEF Reg
<1>6. w_s \o Reg \in Seq(BeatType)
  BY <1>1, <1>5, ConcatProperties
<1>7. wr_data \o (w_s \o Reg) \in Seq(BeatType)
  BY <1>1, <1>6, ConcatProperties
<1>8. Words \in Seq(BeatType)
  BY <1>7 DEF Words, Reg
<1>9. WriteOwners \in Seq(Masters)
  BY DEF WriteInv, Order
<1>. QED
  BY <1>3, <1>4, <1>8, <1>9

(* run_aw takes requests from the masters and chooses one. *)
LEMMA WriteAwPoll == WriteInv /\ AwPoll => WriteInv'
<1>. SUFFICES ASSUME WriteInv, AwPoll PROVE WriteInv'
  OBVIOUS
<1>. USE DEF WriteInv
<1>1. /\ RequestPoll(aw, aw', aw_m, aw_m')
      /\ UNCHANGED <<wr, w_m, b_m, aw_s, w_s, b_s, write_in_flight,
                     active_write_master, w_last, w, b, wr_addr, wr_data, wr_resp>>
  BY DEF AwPoll, masterVars
<1>2. /\ aw.at = "poll" /\ Turn(aw) /\ aw_m \in [Masters -> Seq(Burst)] /\ Shape(aw)
      /\ aw.valid \subseteq Writers
  BY <1>1 DEF RequestPoll, WriteTypes, Turn
<1>3. PICK S \in SUBSET (Masters \ aw.valid) :
         /\ \A i \in Masters \ aw.valid : (i \in S) \in PopNB(aw_m[i])
         /\ aw_m' = [i \in Masters |-> After(i \in S, aw_m[i])]
         /\ \E c \in Pick(aw.valid \cup S, aw.next) : aw' = Chosen(Took(aw, S, aw_m), c)
  BY <1>1 DEF RequestPoll
<1>4. PICK c \in Pick(aw.valid \cup S, aw.next) : aw' = Chosen(Took(aw, S, aw_m), c)
  BY <1>3
<1>5. \A i \in S : i \in Masters /\ i \notin aw.valid /\ aw_m[i] # << >> /\ aw_m[i] = <<wr[i].burst>>
                   /\ i \in Writers
  BY <1>3 DEF PopNB, HasMsg, Applying, Applies
<1>6. /\ aw'.at = "addr" /\ aw'.chosen = c /\ aw'.valid = aw.valid \cup S
      /\ aw'.reg = [i \in Masters |-> IF i \in S THEN Head(aw_m[i]) ELSE aw.reg[i]]
  BY <1>2, <1>4 DEF Chosen, Took, Shape, Fields
<1>7. c \in aw.valid \cup S
  <2>1. PICK k \in 1 .. Size : aw.next = 0 .. k-1
    BY <1>2 DEF Turn, TurnFor
  <2>2. aw.valid \cup S \in SUBSET Masters
    BY <1>2 DEF Turn
  <2>3. QED
    BY <1>4, <2>1, <2>2, PickOne
<1>8. Turn(aw)'
  BY <1>1, <1>2, TurnPoll
<1>9. \A i \in Masters : aw_m'[i] = IF i \in S THEN << >> ELSE aw_m[i]
  <2>1. TAKE i \in Masters
  <2>2. aw_m'[i] = IF i \in S THEN Tail(aw_m[i]) ELSE aw_m[i]
    BY <1>3 DEF After
  <2>3. CASE i \in S
    <3>1. Tail(<<wr[i].burst>>) = << >>
      OBVIOUS
    <3>2. QED
      BY <1>5, <2>2, <2>3, <3>1
  <2>4. QED
    BY <2>2, <2>3
<1>10. aw_m' \in [Masters -> Seq(Burst)]
  <2>1. \A i \in Masters : aw_m'[i] \in Seq(Burst)
    BY <1>2, <1>9, EmptySeq
  <2>2. QED
    BY <1>3, <2>1
<1>11. WriteTypes'
  <2>1. aw'.valid \subseteq Writers /\ aw'.at = "addr" /\ aw'.chosen \in aw'.valid
    BY <1>2, <1>5, <1>6, <1>7
  <2>2. QED
    BY <1>1, <1>8, <1>10, <2>1 DEF WriteTypes
<1>12. NotHanded
  BY <1>2 DEF Handing
<1>13. /\ WriteOwners' = WriteOwners /\ Done' = Done /\ Unstored' = Unstored /\ Words' = Words
       /\ Open = FALSE /\ Open' = FALSE /\ Handing'
  BY <1>1, <1>2, <1>6, <1>12
     DEF WriteOwners, Done, Unstored, Words, Open, Handing, NotHanded
<1>14. Fits(Words, Unstored, FALSE, c, wr, w_m)
  BY <1>13 DEF Fits, Ends
<1>15. Applying(WriteOwners, aw', aw_m', wr, w_m, b_m)
  <2>1. SUFFICES ASSUME NEW i \in Masters
                 PROVE  /\ aw_m'[i] # << >> => aw_m'[i] = <<wr[i].burst>> /\ i \notin aw'.valid
                        /\ i \in aw'.valid => aw'.reg[i] = wr[i].burst
                        /\ aw_m'[i] # << >> \/ i \in aw'.valid => Applies(i, WriteOwners, wr, w_m, b_m)
    BY DEF Applying, Waiting
  <2>2. CASE i \in S
    <3>1. Head(aw_m[i]) = wr[i].burst
      BY <1>5, <2>2
    <3>2. QED
      BY <1>5, <1>6, <1>9, <2>2, <3>1 DEF Applying
  <2>3. CASE i \notin S
    BY <1>2, <1>6, <1>9, <2>3 DEF Applying, Waiting
  <2>4. QED
    BY <2>2, <2>3
<1>. QED
  BY <1>1, <1>6, <1>11, <1>13, <1>14, <1>15

(* run_aw passes the address on: from now on the master is owed a response, *)
(* and words of its burst, and of no other, are to come.                    *)
LEMMA WriteAwPush == WriteInv /\ AwPush => WriteInv'
<1>. SUFFICES ASSUME WriteInv, AwPush PROVE WriteInv'
  OBVIOUS
<1>. USE DEF WriteInv
<1> DEFINE c == aw.chosen
           O == WriteOwners
           U == Unstored
<1>1. /\ aw.at = "addr" /\ aw_s' = Append(aw_s, aw.reg[c])
      /\ aw' = [aw EXCEPT !.at = "active"]
      /\ UNCHANGED <<wr, aw_m, w_m, b_m, w_s, b_s, write_in_flight,
                     active_write_master, w_last, w, b, wr_addr, wr_data, wr_resp>>
  BY DEF AwPush, masterVars
<1>2. /\ Turn(aw) /\ Shape(aw) /\ c \in aw.valid /\ c \in Masters /\ Turn(aw)' /\ c \in Writers
      /\ Writes(wr)
  <2>1. Turn(aw) /\ Shape(aw) /\ c \in aw.valid /\ c \in Masters /\ c \in Writers /\ Writes(wr)
    BY <1>1 DEF WriteTypes, Turn
  <2>2. QED
    BY <1>1, <2>1, TurnAt
<1>3. aw'.at = "active" /\ aw'.chosen = c /\ aw'.valid = aw.valid /\ aw'.reg = aw.reg
  BY <1>1, <1>2 DEF Shape, Fields
<1>4. aw.reg[c] = wr[c].burst /\ aw_m[c] = << >> /\ Applies(c, O, wr, w_m, b_m)
  BY <1>1, <1>2 DEF Applying, Waiting
<1>5. wr[c].burst \in Burst /\ wr[c].burst.master = c
  BY <1>2 DEF Writes, Write
<1>6. /\ O \in Seq(Masters) /\ U \in Seq(Burst) /\ Done \in Seq(Burst)
      /\ Done \o U \in Seq(Burst) /\ Words \in Seq(BeatType)
      /\ wr_addr \in Seq(Burst) /\ aw_s \in Seq(Burst)
  BY WriteSeqs DEF WriteTypes
<1>7. Open = FALSE /\ Open' = TRUE /\ NotHanded /\ Handing'
  BY <1>1, <1>3 DEF Open, Handing, NotHanded
<1>8. WriteTypes'
  <2>1. aw_s' \in Seq(Burst)
    BY <1>1, <1>4, <1>5, <1>6, AppendProperties
  <2>2. QED
    BY <1>1, <1>2, <1>3, <2>1 DEF WriteTypes
<1>9. Done' = Done /\ Words' = Words
  BY <1>1 DEF Done, Words
<1>10. U' = Append(U, wr[c].burst)
  BY <1>1, <1>4, <1>5, <1>6, ConcatAppend, SMTT(60) DEF Unstored
<1>11. Done' \o U' = Append(Done \o U, wr[c].burst)
  <2> HIDE DEF U
  <2>1. QED
    BY <1>5, <1>6, <1>9, <1>10, ConcatAppend, SMTT(60)
<1>12. O' = Append(O, c)
  <2>1. Due(b, write_in_flight) \in Seq(Masters)
    BY DueType DEF WriteTypes
  <2>2. O = Due(b, write_in_flight)
    BY <1>1, <2>1, ConcatEmptySeq DEF WriteOwners
  <2>3. O' = Due(b, write_in_flight) \o <<c>>
    BY <1>1, <1>3 DEF WriteOwners
  <2>4. QED
    BY <1>2, <2>1, <2>2, <2>3, AppendIsConcat
<1>13. Order(O', Done' \o U', TRUE, wr, w_m)
  <2>1. Order(O, Done \o U, FALSE, wr, w_m)
    BY <1>7
  <2>2. wr[c].at # "idle" /\ \A p \in 1 .. Len(O) : O[p] # c
    BY <1>4 DEF Applies, NotIn
  <2> HIDE DEF O, U, c
  <2>3. Order(Append(O, c), Append(Done \o U, wr[c].burst), TRUE, wr, w_m)
    BY <1>2, <1>6, <2>1, <2>2, OrderAdded
  <2>4. QED
    BY <1>11, <1>12, <2>3
<1>14. Fits(Words, U', TRUE, c, wr, w_m)
  <2>1. Chained(Words, U) /\ Complete(Words, U)
    BY <1>7 DEF Fits, Ends
  <2>2. \A p \in 1 .. Len(U) : U[p] # wr[c].burst
    <3>1. Order(O, Done \o U, Open, wr, w_m)
      OBVIOUS
    <3> HIDE DEF O, U, c
    <3>2. \A p \in 1 .. Len(U) : Len(Done) + p \in 1 .. Len(O) /\ U[p].master = O[Len(Done) + p]
      BY <1>2, <1>6, <3>1, OrderOwned
    <3>3. \A p \in 1 .. Len(O) : O[p] # c
      BY <1>4 DEF Applies, NotIn
    <3>4. QED
      BY <1>5, <3>2, <3>3
  <2>3. Sent(c, wr, w_m) = 0
    BY <1>4 DEF Applies
  <2> HIDE DEF U, c
  <2>4. Chained(Words, Append(U, wr[c].burst)) /\ Ends(Words, Append(U, wr[c].burst), TRUE, 0)
    BY <1>5, <1>6, <2>1, <2>2, EndsGranted
  <2>5. /\ Append(U, wr[c].burst) # << >> /\ Len(Append(U, wr[c].burst)) = Len(U) + 1
        /\ Append(U, wr[c].burst)[Len(U) + 1] = wr[c].burst
    <3>1. \A s \in Seq(Burst) : \A e \in Burst :
             Append(s, e) # << >> /\ Len(Append(s, e)) = Len(s) + 1 /\ Append(s, e)[Len(s) + 1] = e
      BY Appended
    <3>2. U \in Seq(Burst) /\ wr[c].burst \in Burst
      BY <1>5, <1>6
    <3>3. QED
      BY <3>1, <3>2, Zenon
  <2>6. QED
    BY <1>10, <2>3, <2>4, <2>5 DEF Fits
<1>15. ASSUME NEW i \in Masters, i # c, NotIn(i, O) PROVE NotIn(i, O')
  <2> HIDE DEF O, c
  <2>1. /\ Len(O') = Len(O) + 1 /\ Len(O) \in Nat
        /\ \A k \in 1 .. Len(O) : O'[k] = O[k]
        /\ O'[Len(O) + 1] = c
    BY <1>2, <1>6, <1>12, Appended
  <2>2. QED
    BY <1>15, <2>1 DEF NotIn
<1>16. Replied(O', wr, w_m, b_m)
  <2>1. SUFFICES ASSUME NEW i \in Masters, b_m[i] # << >>
                 PROVE  i \in Writers /\ b_m[i] = <<wr[i].burst>> /\ Quiet(i, wr, w_m) /\ NotIn(i, O')
    BY DEF Replied
  <2>2. i # c
    BY <1>4, <2>1 DEF Applies
  <2>3. QED
    BY <1>15, <2>1, <2>2 DEF Replied
<1>17. Applying(O', aw', aw_m, wr, w_m, b_m)
  <2>1. SUFFICES ASSUME NEW i \in Masters
                 PROVE  /\ aw_m[i] # << >> => aw_m[i] = <<wr[i].burst>> /\ ~Waiting(i, aw')
                        /\ Waiting(i, aw') => aw'.reg[i] = wr[i].burst
                        /\ aw_m[i] # << >> \/ Waiting(i, aw') => Applies(i, O', wr, w_m, b_m)
    BY DEF Applying
  <2>2. CASE i = c
    BY <1>3, <1>4, <2>2 DEF Waiting
  <2>3. CASE i # c
    <3>1. Waiting(i, aw') <=> Waiting(i, aw)
      BY <1>3, <2>3 DEF Waiting
    <3>2. Applies(i, O, wr, w_m, b_m) => Applies(i, O', wr, w_m, b_m)
      BY <1>15, <2>3 DEF Applies
    <3>3. QED
      BY <1>3, <3>1, <3>2 DEF Applying
  <2>4. QED
    BY <2>2, <2>3
<1>. QED
  BY <1>1, <1>3, <1>7, <1>8, <1>9, <1>13, <1>14, <1>16, <1>17

(* run_aw tells run_w whose words to pass on. *)
LEMMA WriteAwActive == WriteInv /\ AwActive => WriteInv'
<1>. SUFFICES ASSUME WriteInv, AwActive PROVE WriteInv'
  OBVIOUS
<1>. USE DEF WriteInv
<1>1. /\ aw.at = "active" /\ active_write_master' = Append(active_write_master, aw.chosen)
      /\ aw' = [aw EXCEPT !.at = "flight"]
      /\ UNCHANGED <<wr, aw_m, w_m, b_m, aw_s, w_s, b_s, write_in_flight, w_last, w, b,
                     wr_addr, wr_data, wr_resp>>
  BY DEF AwActive, masterVars
<1>2. Turn(aw) /\ Shape(aw) /\ aw.chosen \in Masters /\ Turn(aw)'
  <2>1. Turn(aw) /\ Shape(aw) /\ aw.chosen \in Masters
    BY DEF WriteTypes, Turn
  <2>2. QED
    BY <1>1, <2>1, TurnAt
<1>3. aw'.at = "flight" /\ aw'.chosen = aw.chosen /\ aw'.valid = aw.valid /\ aw'.reg = aw.reg
  BY <1>1, <1>2 DEF Shape, Fields
<1>4. NotHanded
  BY <1>1 DEF Handing
<1>5. active_write_master' = <<aw.chosen>>
  BY <1>1, <1>4 DEF NotHanded
<1>6. WriteTypes'
  BY <1>1, <1>2, <1>3, <1>5, SMTT(60) DEF WriteTypes
<1>7. Open = TRUE /\ Open' = TRUE /\ Handing'
  BY <1>1, <1>3, <1>4, <1>5 DEF Open, Handing, NotHanded, Given
<1>8. WriteOwners' = WriteOwners /\ Done' = Done /\ Unstored' = Unstored /\ Words' = Words
  BY <1>1, <1>3 DEF WriteOwners, Done, Unstored, Words
<1>9. Applying(WriteOwners, aw', aw_m, wr, w_m, b_m)
  BY <1>1, <1>3 DEF Applying, Waiting
<1>. QED
  BY <1>1, <1>3, <1>6, <1>7, <1>8, <1>9

(* run_aw tells run_b whom the request is from. *)
LEMMA WriteAwInFlight == WriteInv /\ AwInFlight => WriteInv'
<1>. SUFFICES ASSUME WriteInv, AwInFlight PROVE WriteInv'
  OBVIOUS
<1>. USE DEF WriteInv
<1> DEFINE c == aw.chosen
<1>1. /\ aw.at = "flight" /\ write_in_flight' = Append(write_in_flight, c)
      /\ aw' = [aw EXCEPT !.at = "wait"]
      /\ UNCHANGED <<wr, aw_m, w_m, b_m, aw_s, w_s, b_s, active_write_master, w_last, w, b,
                     wr_addr, wr_data, wr_resp>>
  BY DEF AwInFlight, masterVars
<1>2. Turn(aw) /\ Shape(aw) /\ c \in Masters /\ Turn(aw)' /\ write_in_flight \in Seq(Masters)
      /\ Responding(b, Burst)
  <2>1. Turn(aw) /\ write_in_flight \in Seq(Masters) /\ Responding(b, Burst)
    BY DEF WriteTypes
  <2>2. Shape(aw) /\ c \in Masters
    BY <2>1 DEF Turn
  <2>3. QED
    BY <1>1, <2>1, <2>2, TurnAt
<1>3. aw'.at = "wait" /\ aw'.chosen = c /\ aw'.valid = aw.valid /\ aw'.reg = aw.reg
  BY <1>1, <1>2 DEF Shape, Fields
<1>4. WriteTypes'
  BY <1>1, <1>2, <1>3, AppendProperties DEF WriteTypes
<1>5. Open' = Open /\ Handing'
  BY <1>1, <1>3 DEF Open, Handing, Given, Passing, Finished
<1>6. Done' = Done /\ Unstored' = Unstored /\ Words' = Words
  BY <1>1 DEF Done, Unstored, Words
<1>7. WriteOwners' = WriteOwners
  <2>1. /\ Serving(b) \in Seq(Masters) /\ b.queue \in Seq(Masters)
        /\ b.queue \o write_in_flight \in Seq(Masters) /\ Due(b, write_in_flight) \in Seq(Masters)
    BY <1>2, DueType
  <2>2. b.queue \o Append(write_in_flight, c) = Append(b.queue \o write_in_flight, c)
    <3>1. b.queue \in Seq(Masters) /\ write_in_flight \in Seq(Masters) /\ c \in Masters
      BY <1>2, <2>1
    <3> HIDE DEF c
    <3>2. \A s, t \in Seq(Masters) : \A e \in Masters : s \o Append(t, e) = Append(s \o t, e)
      BY ConcatAppend
    <3>3. QED
      BY <3>1, <3>2
  <2>3. Due(b, Append(write_in_flight, c)) = Append(Due(b, write_in_flight), c)
    BY <1>2, <2>1, <2>2, ConcatAppend, SMTT(60) DEF Due
  <2>4. Due(b, Append(write_in_flight, c)) \in Seq(Masters)
    BY <1>2, <2>1, <2>3, AppendProperties
  <2>5. WriteOwners' = Due(b, Append(write_in_flight, c))
    BY <1>1, <1>3, <2>4, ConcatEmptySeq DEF WriteOwners, Due, Serving
  <2>6. WriteOwners = Append(Due(b, write_in_flight), c)
    BY <1>1, <1>2, <2>1, AppendIsConcat DEF WriteOwners
  <2>7. QED
    BY <2>3, <2>5, <2>6
<1>8. Applying(WriteOwners, aw', aw_m, wr, w_m, b_m)
  BY <1>1, <1>3 DEF Applying, Waiting
<1>. QED
  BY <1>1, <1>3, <1>4, <1>5, <1>6, <1>7, <1>8

(* run_aw hears from run_w whether that was the last word, and only then goes*)
(* on to the next request.                                                  *)
LEMMA WriteAwLast == WriteInv /\ AwLast => WriteInv'
<1>. SUFFICES ASSUME WriteInv, AwLast PROVE WriteInv'
  OBVIOUS
<1>. USE DEF WriteInv
<1>1. /\ aw.at = "wait" /\ w_last # << >> /\ w_last' = Tail(w_last)
      /\ aw' = IF Head(w_last) THEN Passed(aw) ELSE aw
      /\ UNCHANGED <<wr, aw_m, w_m, b_m, aw_s, w_s, b_s, write_in_flight, active_write_master,
                     w, b, wr_addr, wr_data, wr_resp>>
  BY DEF AwLast, masterVars, HasMsg
<1>2. Turn(aw) /\ Shape(aw) /\ aw.chosen \in Masters /\ w_last \in Seq(BOOLEAN)
  BY DEF WriteTypes, Turn
<1>3. /\ w_last' \in Seq(BOOLEAN) /\ Len(w_last') = Len(w_last) - 1
      /\ \A k \in 1 .. Len(w_last) - 1 : w_last'[k] = w_last[k+1]
      /\ Head(w_last) = w_last[1] /\ w_last[1] \in BOOLEAN
      /\ Len(w_last) \in Nat /\ Len(w_last) >= 1
      /\ (w_last' = << >> <=> Len(w_last) = 1)
  BY <1>1, <1>2, TailOf, TailEmpty
<1>4. Passing \/ Finished
  BY <1>1 DEF Handing, Given
<1>5. Done' = Done /\ Unstored' = Unstored /\ Words' = Words
  BY <1>1 DEF Done, Unstored, Words
<1>6. CASE w_last[1]
  <2>1. aw' = Passed(aw)
    BY <1>1, <1>3, <1>6
  <2>2. /\ aw'.at = "poll" /\ aw'.chosen = aw.chosen /\ aw'.valid = aw.valid \ {aw.chosen}
        /\ aw'.reg = aw.reg /\ Turn(aw)'
    BY <1>2, <2>1, TurnPassed DEF Passed, Shape, Fields
  <2>3. Finished /\ w_last' = << >>
    <3>1. 1 \in 1 .. Len(w_last)
      BY <1>3
    <3>2. Finished
      BY <1>4, <1>6, <3>1 DEF Passing
    <3>3. QED
      BY <1>3, <1>6, <3>1, <3>2 DEF Finished
  <2>4. Open' = Open /\ Open = FALSE /\ Handing'
    BY <1>1, <2>2, <2>3 DEF Open, Handing, NotHanded, Finished
  <2>5. WriteOwners' = WriteOwners
    BY <1>1, <2>2 DEF WriteOwners
  <2>6. WriteTypes'
    BY <1>1, <1>3, <2>2 DEF WriteTypes
  <2>7. Applying(WriteOwners, aw', aw_m, wr, w_m, b_m)
    BY <1>1, <2>2 DEF Applying, Waiting
  <2>. QED
    BY <1>1, <1>5, <2>2, <2>4, <2>5, <2>6, <2>7
<1>7. CASE ~w_last[1]
  <2>1. aw' = aw
    BY <1>1, <1>3, <1>7
  <2>2. Open' = Open
    BY <1>1, <2>1 DEF Open
  <2>3. Handing'
    <3>1. CASE Passing
      <4>1. \A k \in 1 .. Len(w_last) - 1 : k + 1 \in 1 .. Len(w_last)
        BY <1>3
      <4>2. \A k \in 1 .. Len(w_last') : ~w_last'[k]
        BY <1>3, <3>1, <4>1 DEF Passing
      <4>3. QED
        BY <1>1, <2>1, <3>1, <4>2 DEF Passing, Handing
    <3>2. CASE Finished
      <4>1. 1 \in 1 .. Len(w_last)
        BY <1>3
      <4>2. Len(w_last) # 1
        BY <1>7, <3>2, <4>1 DEF Finished
      <4>3. \A k \in 1 .. Len(w_last) - 1 : k + 1 \in 1 .. Len(w_last) /\ (k + 1 = Len(w_last) <=> k = Len(w_last) - 1)
        BY <1>3
      <4>4. \A k \in 1 .. Len(w_last') : w_last'[k] <=> k = Len(w_last')
        BY <1>3, <3>2, <4>3 DEF Finished
      <4>5. QED
        BY <1>1, <1>3, <2>1, <3>2, <4>2, <4>4 DEF Finished, Handing
    <3>3. QED
      BY <1>4, <3>1, <3>2
  <2>4. WriteOwners' = WriteOwners
    BY <1>1, <2>1 DEF WriteOwners
  <2>5. WriteTypes'
    BY <1>1, <1>3, <2>1 DEF WriteTypes
  <2>. QED
    BY <1>1, <1>5, <2>1, <2>2, <2>3, <2>4, <2>5
<1>. QED
  BY <1>3, <1>6, <1>7

(* run_w turns to the master chosen. *)
LEMMA WriteWActive == WriteInv /\ WActive => WriteInv'
<1>. SUFFICES ASSUME WriteInv, WActive PROVE WriteInv'
  OBVIOUS
<1>. USE DEF WriteInv
<1>1. /\ w.at = "idle" /\ active_write_master # << >>
      /\ active_write_master' = Tail(active_write_master)
      /\ w' = [w EXCEPT !.at = "pop", !.master = Head(active_write_master)]
      /\ UNCHANGED <<wr, aw_m, w_m, b_m, aw_s, w_s, b_s, write_in_flight, w_last, aw, b,
                     wr_addr, wr_data, wr_resp>>
  BY DEF WActive, masterVars, HasMsg
<1>2. /\ w \in [at : {"idle", "pop", "push", "last"}, master : Masters, reg : Seq(BeatType)]
      /\ aw.chosen \in Masters
  BY DEF WriteTypes, Turn
<1>3. Given /\ aw.at \notin {"poll", "addr", "active"}
  BY <1>1 DEF Handing, NotHanded, Passing, Finished
<1>4. active_write_master' = << >> /\ Head(active_write_master) = aw.chosen
  BY <1>1, <1>3 DEF Given
<1>5. w'.at = "pop" /\ w'.master = aw.chosen /\ w'.reg = w.reg
      /\ w' \in [at : {"idle", "pop", "push", "last"}, master : Masters, reg : Seq(BeatType)]
  BY <1>1, <1>2, <1>4
<1>6. WriteTypes'
  <2>1. active_write_master' \in Seq(Masters) /\ w'.at \notin {"push", "last"}
    BY <1>4, <1>5
  <2>2. QED
    BY <1>1, <1>5, <2>1 DEF WriteTypes
<1>7. Open = TRUE /\ Open' = TRUE
  BY <1>1, <1>5 DEF Open
<1>8. Handing'
  BY <1>1, <1>3, <1>4, <1>5 DEF Handing, Passing, Given
<1>9. WriteOwners' = WriteOwners /\ Done' = Done /\ Unstored' = Unstored /\ Words' = Words
  BY <1>1, <1>5 DEF WriteOwners, Done, Unstored, Words
<1>. QED
  BY <1>1, <1>6, <1>7, <1>8, <1>9

(* run_w passes the word on. *)
LEMMA WriteWPush == WriteInv /\ WPush => WriteInv'
<1>. SUFFICES ASSUME WriteInv, WPush PROVE WriteInv'
  OBVIOUS
<1>. USE DEF WriteInv
<1>1. /\ w.at = "push" /\ w_s' = w_s \o w.reg
      /\ w' = [w EXCEPT !.at = "last"]
      /\ UNCHANGED <<wr, aw_m, w_m, b_m, aw_s, b_s, write_in_flight, active_write_master, w_last,
                     aw, b, wr_addr, wr_data, wr_resp>>
  BY DEF WPush, masterVars
<1>2. /\ w \in [at : {"idle", "pop", "push", "last"}, master : Masters, reg : Seq(BeatType)]
      /\ w.reg # << >> /\ w.reg = <<w.reg[1]>> /\ w.reg[1] \in BeatType
      /\ w_s \in Seq(BeatType) /\ w.reg \in Seq(BeatType)
  BY <1>1 DEF WriteTypes
<1>3. w'.at = "last" /\ w'.master = w.master /\ w'.reg = w.reg
      /\ w' \in [at : {"idle", "pop", "push", "last"}, master : Masters, reg : Seq(BeatType)]
  BY <1>1, <1>2
<1>4. w_s' \in Seq(BeatType)
  BY <1>1, <1>2, ConcatProperties
<1>5. WriteTypes'
  BY <1>1, <1>2, <1>3, <1>4 DEF WriteTypes
<1>6. Open' = Open
  BY <1>1, <1>3 DEF Open
<1>7. Handing'
  BY <1>1, <1>3 DEF Handing, NotHanded, Passing, Given, Finished
<1>8. WriteOwners' = WriteOwners /\ Done' = Done /\ Unstored' = Unstored
  BY <1>1 DEF WriteOwners, Done, Unstored
<1>9. Words' = Words
  <2>1. w_s' \o << >> = w_s'
    BY <1>4, ConcatEmptySeq
  <2>2. QED
    BY <1>1, <1>3, <2>1 DEF Words
<1>. QED
  BY <1>1, <1>5, <1>6, <1>7, <1>8, <1>9

(* run_w tells run_aw whether the word was the last. *)
LEMMA WriteWLast == WriteInv /\ WLast => WriteInv'
<1>. SUFFICES ASSUME WriteInv, WLast PROVE WriteInv'
  OBVIOUS
<1>. USE DEF WriteInv
<1> DEFINE over == w.reg[1].last
<1>1. /\ w.at = "last" /\ w.reg # << >> /\ w.reg = <<w.reg[1]>> /\ w.reg[1] \in BeatType
      /\ w \in [at : {"idle", "pop", "push", "last"}, master : Masters, reg : Seq(BeatType)]
      /\ w_last \in Seq(BOOLEAN)
  BY DEF WriteTypes, WLast
<1>2. WriteOver(Head(w.reg)) = over /\ over \in BOOLEAN
  <2>1. Head(w.reg) = w.reg[1]
    BY <1>1
  <2>2. QED
    BY <1>1, <2>1 DEF WriteOver, BeatType
<1> HIDE DEF over
<1>3. /\ w_last' = Append(w_last, over)
      /\ w' = [w EXCEPT !.at = IF over THEN "idle" ELSE "pop", !.reg = << >>]
      /\ UNCHANGED <<wr, aw_m, w_m, b_m, aw_s, w_s, b_s, write_in_flight, active_write_master,
                     aw, b, wr_addr, wr_data, wr_resp>>
  BY <1>2 DEF WLast, masterVars
<1>4. /\ w'.at = (IF over THEN "idle" ELSE "pop") /\ w'.master = w.master /\ w'.reg = << >>
      /\ w' \in [at : {"idle", "pop", "push", "last"}, master : Masters, reg : Seq(BeatType)]
  <2> DEFINE next == IF over THEN "idle" ELSE "pop"
  <2>1. next \in {"idle", "pop", "push", "last"}
    OBVIOUS
  <2>2. w' = [w EXCEPT !.at = next, !.reg = << >>]
    BY <1>3
  <2> HIDE DEF next
  <2>3. w'.at = next /\ w'.master = w.master /\ w'.reg = << >>
        /\ w' \in [at : {"idle", "pop", "push", "last"}, master : Masters, reg : Seq(BeatType)]
    <3>1. << >> \in Seq(BeatType)
      OBVIOUS
    <3>2. w \in [at : {"idle", "pop", "push", "last"}, master : Masters, reg : Seq(BeatType)]
      BY <1>1
    <3>3. QED
      BY <2>1, <2>2, <3>1, <3>2
  <2>4. QED
    BY <2>3 DEF next
<1>5. /\ w_last' \in Seq(BOOLEAN) /\ w_last' # << >> /\ Len(w_last') = Len(w_last) + 1
      /\ \A k \in 1 .. Len(w_last) : w_last'[k] = w_last[k]
      /\ w_last'[Len(w_last) + 1] = over
      /\ Len(w_last) \in Nat
  BY <1>1, <1>2, <1>3, Appended
<1>6. Passing /\ aw.at \notin {"poll", "addr", "active"}
  BY <1>1 DEF Handing, NotHanded, Given, Finished
<1>7. WriteTypes'
  BY <1>3, <1>4, <1>5 DEF WriteTypes
<1>8. Open' = Open
  BY <1>1, <1>3, <1>4, <1>6 DEF Open, Passing, over
<1>9. Handing'
  <2>1. \A k \in 1 .. Len(w_last') : k \in 1 .. Len(w_last) \/ k = Len(w_last) + 1
    BY <1>5
  <2>2. \A k \in 1 .. Len(w_last) : k # Len(w_last) + 1
    BY <1>5
  <2>3. CASE over
    <3>1. \A k \in 1 .. Len(w_last') : w_last'[k] <=> k = Len(w_last')
      BY <1>5, <1>6, <2>1, <2>2, <2>3 DEF Passing
    <3>2. Finished'
      BY <1>3, <1>4, <1>5, <1>6, <2>3, <3>1 DEF Finished, Passing
    <3>3. QED
      BY <1>3, <1>6, <3>2 DEF Handing
  <2>4. CASE ~over
    <3>1. \A k \in 1 .. Len(w_last') : ~w_last'[k]
      BY <1>5, <1>6, <2>1, <2>4 DEF Passing
    <3>2. Passing'
      BY <1>3, <1>4, <1>6, <2>4, <3>1 DEF Passing
    <3>3. QED
      BY <1>3, <1>6, <3>2 DEF Handing
  <2>5. QED
    BY <2>3, <2>4
<1>10. WriteOwners' = WriteOwners /\ Done' = Done /\ Unstored' = Unstored /\ Words' = Words
  BY <1>1, <1>3, <1>4 DEF WriteOwners, Done, Unstored, Words
<1>. QED
  BY <1>3, <1>7, <1>8, <1>9, <1>10

(* run_w takes a word of the master chosen: it is the next of its burst, and*)
(* with the last the master is done sending.                                *)
LEMMA WriteWPop == WriteInv /\ WPop => WriteInv'
<1>. SUFFICES ASSUME WriteInv, WPop PROVE WriteInv'
  OBVIOUS
<1>. USE DEF WriteInv
<1> DEFINE c == aw.chosen
           x == w_m[c][1]
           O == WriteOwners
           U == Unstored
           W == Words
           k == Sent(c, wr, w_m)
<1>1. w.at = "pop"
  BY DEF WPop
<1>2. Passing /\ aw.at \notin {"poll", "addr", "active"}
  BY <1>1 DEF Handing, NotHanded, Given, Finished
<1>3. /\ w_m[c] # << >> /\ w_m' = [w_m EXCEPT ![c] = Tail(@)]
      /\ w' = [w EXCEPT !.at = "push", !.reg = <<Head(w_m[c])>>]
      /\ UNCHANGED <<wr, aw_m, b_m, aw_s, w_s, b_s, write_in_flight, active_write_master, w_last,
                     aw, b, wr_addr, wr_data, wr_resp>>
  BY <1>2 DEF WPop, masterVars, HasMsg, Passing
<1>4. Open = TRUE
  BY <1>1 DEF Open
<1>5. /\ O # << >> /\ Len(O) \in Nat /\ Len(O) \in 1 .. Len(O) /\ O[Len(O)] = c
      /\ c \in Writers /\ c \in Masters /\ U # << >>
  BY <1>4, OpenOwner, WritersAssumption
<1>6. /\ w_m \in [Masters -> Seq(BeatType)] /\ Writes(wr) /\ w_m[c] \in Seq(BeatType)
      /\ w \in [at : {"idle", "pop", "push", "last"}, master : Masters, reg : Seq(BeatType)]
      /\ w_s \in Seq(BeatType) /\ wr_data \in Seq(BeatType)
  BY <1>5 DEF WriteTypes
<1>7. /\ Tail(w_m[c]) \in Seq(BeatType) /\ Len(Tail(w_m[c])) = Len(w_m[c]) - 1
      /\ \A j \in 1 .. Len(w_m[c]) - 1 : Tail(w_m[c])[j] = w_m[c][j+1]
      /\ Head(w_m[c]) = x /\ x \in BeatType
      /\ Len(w_m[c]) \in Nat /\ Len(w_m[c]) >= 1
      /\ (Tail(w_m[c]) = << >> <=> Len(w_m[c]) = 1)
  BY <1>3, <1>6, TailOf, TailEmpty
<1>8. w'.at = "push" /\ w'.master = c /\ w'.reg = <<x>> /\ w'.reg[1] = x
      /\ w' \in [at : {"idle", "pop", "push", "last"}, master : Masters, reg : Seq(BeatType)]
  <2>1. w' = [w EXCEPT !.at = "push", !.reg = <<x>>] /\ <<x>> \in Seq(BeatType) /\ w.master = c
    BY <1>2, <1>3, <1>7 DEF Passing
  <2> HIDE DEF x, c
  <2>2. QED
    BY <1>6, <2>1
<1>9. /\ w_m'[c] = Tail(w_m[c]) /\ w_m' \in [Masters -> Seq(BeatType)]
      /\ \A i \in Masters : i # c => w_m'[i] = w_m[i]
  BY <1>3, <1>5, <1>6, <1>7
<1>10. WriteTypes'
  BY <1>3, <1>8, <1>9, <1>7 DEF WriteTypes
<1>11. Handing' /\ (Open' <=> ~x.last)
  BY <1>2, <1>3, <1>8 DEF Handing, Passing, Open
<1>12. /\ wr[c].k \in Nat /\ wr[c].burst \in Burst /\ wr[c].burst.len \in Nat
       /\ Len(w_m[c]) <= wr[c].k /\ k \in Nat /\ k + Len(w_m[c]) = wr[c].k
       /\ Sent(c, wr, w_m') = k + 1
  <2>1. wr[c].k \in Nat /\ wr[c].burst \in Burst /\ wr[c].burst.len \in Nat
    BY <1>5, <1>6, BeatIs DEF Writes, Write
  <2>2. Len(w_m[c]) <= wr[c].k
    BY <1>5 DEF Sending
  <2>3. QED
    BY <1>7, <1>9, <2>1, <2>2, SMTT(60) DEF Sent
<1>13. x = Beat(wr[c].burst, k + 1) /\ (x.last <=> k + 1 = wr[c].burst.len)
  <2>1. 1 \in 1 .. Len(w_m[c])
    BY <1>7
  <2>2. x = Beat(wr[c].burst, k + 1)
    BY <1>5, <2>1 DEF Sending
  <2>3. QED
    BY <1>12, <2>2, BeatIs
<1>14. U \in Seq(Burst) /\ W \in Seq(BeatType) /\ O \in Seq(Masters) /\ Done \in Seq(Burst)
  BY WriteSeqs
<1>15. O' = O /\ Done' = Done /\ U' = U
  BY <1>3 DEF WriteOwners, Done, Unstored
<1>16. W' = Append(W, x)
  <2>1. w_s \o << >> = w_s /\ w_s \o <<x>> = Append(w_s, x)
    BY <1>6, <1>7, ConcatEmptySeq, AppendIsConcat
  <2>2. W = wr_data \o w_s /\ W' = wr_data \o Append(w_s, x)
    BY <1>1, <1>3, <1>8, <2>1 DEF Words
  <2> HIDE DEF x, W
  <2>3. wr_data \o Append(w_s, x) = Append(wr_data \o w_s, x)
    <3>1. \A s, t \in Seq(BeatType) : \A e \in BeatType : s \o Append(t, e) = Append(s \o t, e)
      BY ConcatAppend
    <3>2. QED
      BY <1>6, <1>7, <3>1
  <2>4. QED
    BY <2>2, <2>3
<1>17. wr[c].at = "data" \/ wr[c].at = "resp"
  <2>1. wr[c].at # "idle"
    BY <1>5 DEF Order
  <2>2. QED
    BY <1>5, <1>6, <2>1 DEF Writes, Write
<1>18. x.last => Quiet(c, wr, w_m')
  <2>1. SUFFICES ASSUME x.last PROVE Quiet(c, wr, w_m')
    OBVIOUS
  <2>2. wr[c].burst.len <= wr[c].k /\ wr[c].k = (wr[c].burst.len - 1) + Len(w_m[c])
    BY <1>7, <1>12, <1>13, <2>1, SMTT(60)
  <2>3. wr[c].at = "resp"
    BY <1>5, <1>12, <1>17, <2>2 DEF Sending
  <2>4. wr[c].k = wr[c].burst.len
    BY <1>5, <2>3 DEF Sending
  <2>5. Len(w_m[c]) = 1
    BY <1>7, <1>12, <2>2, <2>4, SMTT(60)
  <2>6. QED
    BY <1>7, <1>9, <2>3, <2>5 DEF Quiet
<1>19. Order(O', Done' \o U', Open', wr, w_m')
  <2>1. ASSUME NEW p \in 1 .. Len(O)
        PROVE  (Open' /\ p = Len(O)) \/ Quiet(O[p], wr, w_m')
    <3>1. CASE p = Len(O)
      BY <1>5, <1>11, <1>18, <3>1
    <3>2. CASE p # Len(O)
      <4>1. Quiet(O[p], wr, w_m) /\ O[p] # c /\ O[p] \in Masters
        BY <1>5, <3>2, WritersAssumption DEF Order, Distinct
      <4>2. QED
        BY <1>9, <4>1 DEF Quiet
    <3>3. QED
      BY <3>1, <3>2
  <2>2. QED
    BY <1>15, <2>1 DEF Order
<1>20. Fits(W', U', Open', c, wr, w_m')
  <2>1. Distinct(U)
    <3>1. Order(O, Done \o U, Open, wr, w_m)
      OBVIOUS
    <3> HIDE DEF O, U
    <3>2. QED
      BY <1>6, <1>14, <3>1, OrderOwned
  <2>2. Chained(W, U) /\ Ends(W, U, TRUE, k) /\ U[Len(U)] = wr[c].burst
    BY <1>4 DEF Fits
  <2>3. x = Beat(U[Len(U)], k + 1)
    BY <1>13, <2>2
  <2> HIDE DEF x, W, U, k, c
  <2>4. Chained(Append(W, x), U) /\ Ends(Append(W, x), U, ~x.last, k + 1)
    BY <1>12, <1>14, <2>1, <2>2, <2>3, EndsAdded
  <2>5. Open' = ~x.last
    <3>1. Open' \in BOOLEAN
      BY DEF Open
    <3>2. QED
      BY <1>11, <3>1
  <2>6. QED
    BY <1>5, <1>12, <1>15, <1>16, <2>2, <2>4, <2>5 DEF Fits
<1>21. Sending(wr, w_m')
  <2>1. SUFFICES ASSUME NEW i \in Writers
                 PROVE  /\ wr[i].at = "idle" => w_m'[i] = << >>
                        /\ wr[i].at = "data" => wr[i].k < wr[i].burst.len
                        /\ wr[i].at = "resp" => wr[i].k = wr[i].burst.len
                        /\ Len(w_m'[i]) <= wr[i].k
                        /\ \A j \in 1 .. Len(w_m'[i]) : w_m'[i][j] = Beat(wr[i].burst, Sent(i, wr, w_m') + j)
    BY DEF Sending
  <2>2. CASE i # c
    <3>1. w_m'[i] = w_m[i] /\ Sent(i, wr, w_m') = Sent(i, wr, w_m)
      BY <1>9, <2>2, WritersAssumption DEF Sent
    <3>2. QED
      BY <3>1 DEF Sending
  <2>3. CASE i = c
    <3>1. Len(w_m'[c]) <= wr[c].k
      BY <1>7, <1>9, <1>12
    <3>2. ASSUME NEW j \in 1 .. Len(w_m'[c])
          PROVE  w_m'[c][j] = Beat(wr[c].burst, (k + 1) + j)
      <4>1. j + 1 \in 1 .. Len(w_m[c]) /\ j \in 1 .. Len(w_m[c]) - 1 /\ k + (j + 1) = (k + 1) + j
        <5>1. Len(w_m'[c]) = Len(w_m[c]) - 1 /\ Len(w_m[c]) \in Nat /\ k \in Nat
          BY <1>7, <1>9, <1>12
        <5> HIDE DEF k, c
        <5>2. QED
          BY <5>1
      <4>2. w_m[c][j+1] = Beat(wr[c].burst, k + (j + 1))
        BY <1>5, <4>1 DEF Sending
      <4>3. QED
        BY <1>7, <1>9, <4>1, <4>2
    <3>3. QED
      BY <1>5, <1>12, <1>17, <2>3, <3>1, <3>2 DEF Sending
  <2>4. QED
    BY <2>2, <2>3
<1>22. Replied(O', wr, w_m', b_m)
  <2>1. SUFFICES ASSUME NEW i \in Masters, b_m[i] # << >>
                 PROVE  i \in Writers /\ b_m[i] = <<wr[i].burst>> /\ Quiet(i, wr, w_m') /\ NotIn(i, O)
    BY <1>15 DEF Replied
  <2>2. i \in Writers /\ b_m[i] = <<wr[i].burst>> /\ Quiet(i, wr, w_m) /\ NotIn(i, O)
    BY <2>1 DEF Replied
  <2>3. i # c
    BY <1>5, <2>2 DEF NotIn
  <2>4. QED
    BY <1>9, <2>2, <2>3 DEF Quiet
<1>23. Applying(O', aw, aw_m, wr, w_m', b_m)
  <2>1. ~Applies(c, O, wr, w_m, b_m)
    BY <1>5 DEF Applies, NotIn
  <2>2. \A i \in Masters : Applies(i, O, wr, w_m, b_m) => Applies(i, O', wr, w_m', b_m)
    <3>1. TAKE i \in Masters
    <3>2. HAVE Applies(i, O, wr, w_m, b_m)
    <3>3. i # c
      BY <2>1, <3>2
    <3>4. Sent(i, wr, w_m') = Sent(i, wr, w_m)
      BY <1>9, <3>3 DEF Sent
    <3>5. QED
      BY <1>15, <3>2, <3>4 DEF Applies
  <2>3. QED
    BY <2>2 DEF Applying
<1>. QED
  BY <1>3, <1>10, <1>11, <1>19, <1>20, <1>21, <1>22, <1>23

(* run_b takes the next master's number, or a response. *)
LEMMA WriteBPoll == WriteInv /\ BPoll => WriteInv'
<1>. SUFFICES ASSUME WriteInv, BPoll PROVE WriteInv'
  OBVIOUS
<1>. USE DEF WriteInv
<1>1. /\ ResponsePoll(b, b', write_in_flight, write_in_flight', b_s, b_s')
      /\ UNCHANGED <<wr, aw_m, w_m, b_m, aw_s, w_s, active_write_master, w_last, aw, w,
                     wr_addr, wr_data, wr_resp>>
  BY DEF BPoll, masterVars
<1>2. /\ Responding(b, Burst) /\ write_in_flight \in Seq(Masters) /\ b_s \in Seq(Burst)
      /\ wr_resp \in Seq(Burst)
  BY DEF WriteTypes
<1>3. /\ Responding(b', Burst) /\ write_in_flight' \in Seq(Masters) /\ b_s' \in Seq(Burst)
      /\ Due(b', write_in_flight') = Due(b, write_in_flight)
      /\ b.hand = << >> /\ b'.hand \o b_s' = b_s
  BY <1>1, <1>2, PollKeeps
<1>4. WriteTypes'
  BY <1>1, <1>3 DEF WriteTypes
<1>5. WriteOwners' = WriteOwners /\ Unstored' = Unstored /\ Words' = Words /\ Open' = Open
  BY <1>1, <1>3 DEF WriteOwners, Unstored, Words, Open
<1>6. Handing'
  BY <1>1 DEF Handing, NotHanded, Given, Passing, Finished
<1>7. Done' = Done
  <2>1. b'.hand \in Seq(Burst)
    BY <1>3 DEF Responding
  <2>2. b'.hand \o (b_s' \o wr_resp) = b_s \o wr_resp
    <3>1. (b'.hand \o b_s') \o wr_resp = b'.hand \o (b_s' \o wr_resp)
      <4>1. b'.hand \in Seq(Burst) /\ b_s' \in Seq(Burst) /\ wr_resp \in Seq(Burst)
        BY <1>2, <1>3, <2>1
      <4>2. \A s, t, u \in Seq(Burst) : (s \o t) \o u = s \o (t \o u)
        BY ConcatAssociative
      <4>3. QED
        BY <4>1, <4>2
    <3>2. QED
      BY <1>3, <3>1
  <2>3. << >> \o (b_s \o wr_resp) = b_s \o wr_resp
    BY <1>2, ConcatProperties, ConcatEmptySeq
  <2>4. QED
    BY <1>1, <1>3, <2>2, <2>3 DEF Done
<1>. QED
  BY <1>1, <1>4, <1>5, <1>6, <1>7

(* The first of two sequences put together is the one taken first. *)
LEMMA TailFirst ==
    ASSUME NEW T, NEW s \in Seq(T), NEW t \in Seq(T), s # << >>
    PROVE  s \o t # << >> /\ (s \o t)[1] = Head(s) /\ Tail(s \o t) = Tail(s) \o t
<1> DEFINE e == Head(s)
           u == Tail(s)
<1>1. e \in T /\ u \in Seq(T) /\ s = <<e>> \o u
  BY HeadFirst, HeadTailProperties
<1> HIDE DEF e, u
<1>2. u \o t \in Seq(T) /\ <<e>> \in Seq(T)
  BY <1>1, ConcatProperties
<1>3. s \o t = <<e>> \o (u \o t)
  <2>1. \A x, y, z \in Seq(T) : (x \o y) \o z = x \o (y \o z)
    BY ConcatAssociative, SMTT(60)
  <2>2. QED
    BY <1>1, <1>2, <2>1
<1>4. <<e>> \o (u \o t) # << >> /\ (<<e>> \o (u \o t))[1] = e /\ Tail(<<e>> \o (u \o t)) = u \o t
  BY <1>1, <1>2, InFront
<1>5. QED
  BY <1>3, <1>4 DEF e, u

(* run_b hands a response to the master it serves, whose burst it is for and*)
(* who is done sending.                                                     *)
LEMMA WriteBPush == WriteInv /\ BPush => WriteInv'
<1>. SUFFICES ASSUME WriteInv, BPush PROVE WriteInv'
  OBVIOUS
<1>. USE DEF WriteInv
<1> DEFINE i == b.owner
           h == b.hand[1]
           O == WriteOwners
           D == Done
           U == Unstored
           others == IF aw.at \in {"active", "flight"} THEN <<aw.chosen>> ELSE << >>
<1>1. /\ b.hand # << >>
      /\ b_m' = [b_m EXCEPT ![b.owner] = Append(@, Head(b.hand))]
      /\ b' = [b EXCEPT !.hand = << >>, !.busy = FALSE]
      /\ UNCHANGED <<wr, aw_m, w_m, aw_s, w_s, b_s, write_in_flight, active_write_master, w_last,
                     aw, w, wr_addr, wr_data, wr_resp>>
  BY DEF BPush, masterVars
<1>2. /\ Responding(b, Burst) /\ Writes(wr) /\ b_m \in [Masters -> Seq(Burst)]
      /\ b_s \in Seq(Burst) /\ wr_resp \in Seq(Burst) /\ write_in_flight \in Seq(Masters)
      /\ aw.chosen \in Masters
  BY DEF WriteTypes, Turn
<1>3. /\ b \in [queue : Seq(Masters), busy : BOOLEAN, owner : Masters, hand : Seq(Burst)]
      /\ b.busy /\ b.hand = <<h>>
  BY <1>1, <1>2 DEF Responding
<1>4. Head(b.hand) = h /\ h \in Burst /\ i \in Masters
  BY <1>1, <1>3
<1>5. /\ b'.queue = b.queue /\ b'.hand = << >> /\ ~b'.busy
      /\ Responding(b', Burst)
  <2>1. FALSE \in BOOLEAN
    OBVIOUS
  <2>2. LET tt == [b EXCEPT !.hand = << >>, !.busy = FALSE] IN
           /\ tt.queue = b.queue /\ tt.owner = b.owner /\ tt.hand = << >> /\ tt.busy = FALSE
           /\ Responding(tt, Burst)
    BY <1>3, <2>1, HandedOver
  <2>3. QED
    BY <1>1, <2>2
<1>6. others \in Seq(Masters) /\ others' = others
  BY <1>1, <1>2
<1>7. O = Due(b, write_in_flight) \o others /\ O' = Due(b', write_in_flight) \o others
  BY <1>1, <1>6 DEF WriteOwners
<1> HIDE DEF others
<1>8. /\ O \in Seq(Masters) /\ O # << >> /\ O[1] = i
      /\ O' = Tail(O)
  <2>1. /\ b.queue \in Seq(Masters) /\ b.owner \in Masters /\ write_in_flight \in Seq(Masters)
        /\ others \in Seq(Masters)
    BY <1>2, <1>3, <1>6
  <2>2. LET OO == (<<b.owner>> \o (b.queue \o write_in_flight)) \o others IN
        /\ OO \in Seq(Masters) /\ OO # << >> /\ OO[1] = b.owner
        /\ Tail(OO) = (<< >> \o (b.queue \o write_in_flight)) \o others
    <3>1. b.owner \in Masters /\ b.queue \in Seq(Masters)
          /\ write_in_flight \in Seq(Masters) /\ others \in Seq(Masters)
      BY <2>1
    <3>2. QED
      BY <3>1, ServedFirst, ZenonT(60)
  <2>3. O = (<<b.owner>> \o (b.queue \o write_in_flight)) \o others
    BY <1>3, <1>7 DEF Due, Serving
  <2>4. O' = (<< >> \o (b.queue \o write_in_flight)) \o others
    BY <1>5, <1>7 DEF Due, Serving
  <2> HIDE DEF O
  <2>5. QED
    BY <2>2, <2>3, <2>4
<1>9. D \in Seq(Burst) /\ D # << >> /\ D[1] = h /\ D' = Tail(D)
  <2> DEFINE Y == b_s \o wr_resp
  <2>1. Y \in Seq(Burst) /\ Y' = Y
    BY <1>1, <1>2, ConcatProperties
  <2>2. D = <<h>> \o Y /\ D' = << >> \o Y
    BY <1>3, <1>5, <2>1 DEF Done
  <2> HIDE DEF Y, h
  <2>3. QED
    BY <1>4, <2>1, <2>2, InFront, ConcatEmptySeq
<1>10. U \in Seq(Burst) /\ U' = U /\ D \o U \in Seq(Burst)
  BY <1>1, WriteSeqs DEF Unstored
<1>11. Words' = Words /\ Open' = Open /\ Handing'
  BY <1>1 DEF Words, Open, Handing, NotHanded, Given, Passing, Finished
<1>12. (D \o U)[1] = h /\ D' \o U' = Tail(D \o U)
  <2> HIDE DEF D, U, h
  <2>1. /\ Len(D) \in Nat /\ Len(D) >= 1 /\ Tail(D) \in Seq(Burst)
    BY <1>9, TailOf
  <2>2. D = <<h>> \o Tail(D) /\ h \in Burst
    <3>1. <<Head(D)>> \o Tail(D) = D /\ Head(D) = D[1]
      BY <1>9, HeadFirst, TailOf
    <3>2. QED
      BY <1>4, <1>9, <3>1
  <2>3. D \o U = <<h>> \o (Tail(D) \o U) /\ Tail(D) \o U \in Seq(Burst)
    <3>1. <<h>> \in Seq(Burst)
      BY <2>2
    <3>2. \A s, t, v \in Seq(Burst) : (s \o t) \o v = s \o (t \o v) /\ t \o v \in Seq(Burst)
      BY ConcatAssociative, ConcatProperties, SMTT(60)
    <3> DEFINE T == Tail(D)
    <3>3. T \in Seq(Burst) /\ D = <<h>> \o T
      BY <2>1, <2>2
    <3> HIDE DEF T
    <3>4. D \o U = <<h>> \o (T \o U) /\ T \o U \in Seq(Burst)
      BY <1>10, <3>1, <3>2, <3>3
    <3>5. QED
      BY <3>4 DEF T
  <2> DEFINE V == Tail(D) \o U
  <2>4. V \in Seq(Burst) /\ D \o U = <<h>> \o V /\ D' \o U' = V
    BY <1>9, <1>10, <2>3
  <2> HIDE DEF V
  <2>5. (<<h>> \o V)[1] = h /\ Tail(<<h>> \o V) = V
    BY <2>2, <2>4, InFront
  <2>6. QED
    BY <2>4, <2>5
<1>13. Open => Len(O) # 1
  <2>1. SUFFICES ASSUME Open PROVE Len(O) # 1
    OBVIOUS
  <2>2. U # << >>
    BY <2>1, OpenOwner
  <2>3. Order(O, D \o U, Open, wr, w_m)
    OBVIOUS
  <2> HIDE DEF O, D, U
  <2>4. Len(O) = Len(D) + Len(U)
    BY <1>2, <1>9, <1>10, <2>3, OrderOwned
  <2>5. Len(D) \in Nat /\ Len(D) >= 1 /\ Len(U) \in Nat /\ Len(U) >= 1
    BY <1>9, <1>10, <2>2, EmptySeq
  <2>6. QED
    BY <2>4, <2>5
<1>14. /\ Order(O', D' \o U', Open', wr, w_m)
       /\ i \in Writers /\ h = wr[i].burst /\ Quiet(i, wr, w_m) /\ NotIn(i, O')
  <2>1. Order(O, D \o U, Open, wr, w_m) /\ Open \in BOOLEAN
    BY DEF Open
  <2> DEFINE A == D \o U
  <2>2. /\ Order(O, A, Open, wr, w_m) /\ Open \in BOOLEAN /\ A \in Seq(Burst) /\ A[1] = h
        /\ D' \o U' = Tail(A)
    BY <1>10, <1>12, <2>1
  <2> HIDE DEF O, A, i, h
  <2>3. /\ Order(Tail(O), Tail(A), Open, wr, w_m)
        /\ O[1] \in Writers /\ A[1] = wr[O[1]].burst /\ Quiet(O[1], wr, w_m)
        /\ \A p \in 1 .. Len(Tail(O)) : Tail(O)[p] # O[1]
    BY <1>8, <1>13, <2>2, OrderServed
  <2>4. QED
    BY <1>8, <1>11, <2>2, <2>3 DEF NotIn
<1>15. b_m[i] = << >>
  <2>1. 1 \in 1 .. Len(O)
    BY <1>8, EmptySeq
  <2>2. ~NotIn(i, O)
    BY <1>8, <2>1 DEF NotIn
  <2>3. QED
    BY <1>4, <2>2 DEF Replied
<1>16. /\ b_m' = [b_m EXCEPT ![i] = <<h>>] /\ b_m'[i] = <<h>>
       /\ \A j \in Masters : j # i => b_m'[j] = b_m[j]
       /\ b_m' \in [Masters -> Seq(Burst)]
  <2>1. b_m' = [b_m EXCEPT ![i] = <<h>>]
    BY <1>1, <1>2, <1>4, <1>15
  <2>2. <<h>> \in Seq(Burst)
    BY <1>4
  <2> HIDE DEF i, h
  <2>3. QED
    BY <1>2, <1>4, <2>1, <2>2
<1>17. WriteTypes'
  BY <1>1, <1>5, <1>16 DEF WriteTypes
<1>18. \A j \in Masters : NotIn(j, O) => NotIn(j, O')
  <2>1. O \in Seq(Masters) /\ O # << >>
    BY <1>8
  <2> HIDE DEF O
  <2>2. Len(Tail(O)) = Len(O) - 1 /\ \A p \in 1 .. Len(O) - 1 : Tail(O)[p] = O[p+1] /\ Len(O) \in Nat
    BY <2>1, TailOf
  <2>3. \A p \in 1 .. Len(O) - 1 : p + 1 \in 1 .. Len(O)
    BY <2>2
  <2>4. QED
    BY <1>8, <2>2, <2>3 DEF NotIn
<1>19. Replied(O', wr, w_m, b_m')
  <2>1. SUFFICES ASSUME NEW j \in Masters, b_m'[j] # << >>
                 PROVE  j \in Writers /\ b_m'[j] = <<wr[j].burst>> /\ Quiet(j, wr, w_m) /\ NotIn(j, O')
    BY DEF Replied
  <2>2. CASE j = i
    BY <1>14, <1>16, <2>2
  <2>3. CASE j # i
    BY <1>16, <1>18, <2>1, <2>3 DEF Replied
  <2>4. QED
    BY <2>2, <2>3
<1>20. Applying(O', aw, aw_m, wr, w_m, b_m')
  <2>1. ~Applies(i, O, wr, w_m, b_m)
    <3>1. 1 \in 1 .. Len(O)
      BY <1>8, EmptySeq
    <3>2. QED
      BY <1>8, <3>1 DEF Applies, NotIn
  <2>2. \A j \in Masters : Applies(j, O, wr, w_m, b_m) => Applies(j, O', wr, w_m, b_m')
    BY <1>16, <1>18, <2>1 DEF Applies
  <2>3. QED
    BY <2>2 DEF Applying
<1>. QED
  BY <1>1, <1>10, <1>11, <1>14, <1>17, <1>19, <1>20

(* The slave takes an address. *)
LEMMA WriteSlaveTakeAddr == WriteInv /\ SlaveTakeAddr => WriteInv'
<1>. SUFFICES ASSUME WriteInv, SlaveTakeAddr PROVE WriteInv'
  OBVIOUS
<1>. USE DEF WriteInv
<1>1. /\ aw_s # << >> /\ aw_s' = Tail(aw_s) /\ wr_addr' = Append(wr_addr, Head(aw_s))
      /\ UNCHANGED <<wr, aw_m, w_m, b_m, w_s, b_s, write_in_flight, active_write_master, w_last,
                     aw, w, b, wr_data, wr_resp>>
  BY DEF SlaveTakeAddr, HasMsg, masterVars
<1>2. aw_s \in Seq(Burst) /\ wr_addr \in Seq(Burst)
  BY DEF WriteTypes
<1>3. Unstored' = Unstored
  BY <1>1, <1>2, Moved DEF Unstored
<1>4. aw_s' \in Seq(Burst) /\ wr_addr' \in Seq(Burst)
  BY <1>1, <1>2, HeadTailProperties, AppendProperties
<1>5. WriteTypes'
  BY <1>1, <1>4 DEF WriteTypes
<1>6. /\ WriteOwners' = WriteOwners /\ Done' = Done /\ Words' = Words
      /\ Open' = Open /\ Handing' = Handing
  BY <1>1 DEF WriteOwners, Done, Words, Open, Handing, NotHanded, Given, Passing, Finished
<1>7. Handing'
  BY <1>6
<1>. QED
  BY <1>1, <1>3, <1>5, <1>6, <1>7

(* The slave takes a word. *)
LEMMA WriteSlaveTakeData == WriteInv /\ SlaveTakeData => WriteInv'
<1>. SUFFICES ASSUME WriteInv, SlaveTakeData PROVE WriteInv'
  OBVIOUS
<1>. USE DEF WriteInv
<1>1. /\ w_s # << >> /\ w_s' = Tail(w_s) /\ wr_data' = Append(wr_data, Head(w_s))
      /\ UNCHANGED <<wr, aw_m, w_m, b_m, aw_s, b_s, write_in_flight, active_write_master, w_last,
                     aw, w, b, wr_addr, wr_resp>>
  BY DEF SlaveTakeData, HasMsg, masterVars
<1> DEFINE Reg == IF w.at = "push" THEN w.reg ELSE << >>
<1>2. w_s \in Seq(BeatType) /\ wr_data \in Seq(BeatType) /\ Reg \in Seq(BeatType) /\ Reg' = Reg
  BY <1>1 DEF WriteTypes
<1>3. w_s' \in Seq(BeatType) /\ wr_data' \in Seq(BeatType)
  BY <1>1, <1>2, HeadTailProperties, AppendProperties
<1>4. Words = wr_data \o (w_s \o Reg) /\ Words' = wr_data' \o (w_s' \o Reg)
  BY <1>2 DEF Words
<1> HIDE DEF Reg
<1>5. Words' = Words
  <2>1. wr_data' \o w_s' = wr_data \o w_s
    BY <1>1, <1>2, Moved
  <2>2. \A s, t, u \in Seq(BeatType) : (s \o t) \o u = s \o (t \o u)
    BY ConcatAssociative, SMTT(60)
  <2>3. /\ (wr_data \o w_s) \o Reg = wr_data \o (w_s \o Reg)
        /\ (wr_data' \o w_s') \o Reg = wr_data' \o (w_s' \o Reg)
    BY <1>2, <1>3, <2>2, ZenonT(60)
  <2>4. QED
    BY <1>4, <2>1, <2>3
<1>6. WriteTypes'
  BY <1>1, <1>3 DEF WriteTypes
<1>7. /\ WriteOwners' = WriteOwners /\ Done' = Done /\ Unstored' = Unstored
      /\ Open' = Open /\ Handing' = Handing
  BY <1>1 DEF WriteOwners, Done, Unstored, Open, Handing, NotHanded, Given, Passing, Finished
<1>8. Handing'
  BY <1>7
<1>. QED
  BY <1>1, <1>5, <1>6, <1>7, <1>8

(* The slave gives a response. *)
LEMMA WriteSlaveGive == WriteInv /\ SlaveGiveResponse => WriteInv'
<1>. SUFFICES ASSUME WriteInv, SlaveGiveResponse PROVE WriteInv'
  OBVIOUS
<1>. USE DEF WriteInv
<1>1. /\ wr_resp # << >> /\ b_s' = Append(b_s, Head(wr_resp)) /\ wr_resp' = Tail(wr_resp)
      /\ UNCHANGED <<wr, aw_m, w_m, b_m, aw_s, w_s, write_in_flight, active_write_master, w_last,
                     aw, w, b, wr_addr, wr_data>>
  BY DEF SlaveGiveResponse, masterVars
<1>2. b_s \in Seq(Burst) /\ wr_resp \in Seq(Burst)
  BY DEF WriteTypes
<1>3. Done' = Done
  BY <1>1, <1>2, Moved DEF Done
<1>4. b_s' \in Seq(Burst) /\ wr_resp' \in Seq(Burst)
  BY <1>1, <1>2, HeadTailProperties, AppendProperties
<1>5. WriteTypes'
  BY <1>1, <1>4 DEF WriteTypes
<1>6. /\ WriteOwners' = WriteOwners /\ Unstored' = Unstored /\ Words' = Words
      /\ Open' = Open /\ Handing' = Handing
  BY <1>1 DEF WriteOwners, Unstored, Words, Open, Handing, NotHanded, Given, Passing, Finished
<1>7. Handing'
  BY <1>6
<1>. QED
  BY <1>1, <1>3, <1>5, <1>6, <1>7

(* The slave stores a word under its oldest address, and responds to that   *)
(* address after the last word of the burst.                                *)
LEMMA WriteSlaveStore == WriteInv /\ SlaveStore => WriteInv'
<1>. SUFFICES ASSUME WriteInv, SlaveStore PROVE WriteInv'
  OBVIOUS
<1>. USE DEF WriteInv
<1> DEFINE U == Unstored
           W == Words
           D == Done
           c == aw.chosen
           k == Sent(c, wr, w_m)
           Rest == w_s \o (IF w.at = "push" THEN w.reg ELSE << >>)
<1>1. /\ wr_addr # << >> /\ wr_data # << >> /\ wr_data' = Tail(wr_data)
      /\ IF Head(wr_data).last
         THEN wr_addr' = Tail(wr_addr) /\ wr_resp' = Append(wr_resp, Head(wr_addr))
         ELSE wr_addr' = wr_addr /\ wr_resp' = wr_resp
      /\ UNCHANGED <<wr, aw_m, w_m, b_m, aw_s, w_s, b_s, write_in_flight, active_write_master, w_last,
                     aw, w, b>>
  BY DEF SlaveStore, masterVars
<1>2. /\ wr_addr \in Seq(Burst) /\ wr_resp \in Seq(Burst) /\ wr_data \in Seq(BeatType)
      /\ aw_s \in Seq(Burst) /\ w_s \in Seq(BeatType) /\ b_s \in Seq(Burst)
      /\ b.hand \in Seq(Burst) /\ Writes(wr) /\ w.reg \in Seq(BeatType)
  BY DEF WriteTypes, Responding
<1>3. U \in Seq(Burst) /\ W \in Seq(BeatType) /\ D \in Seq(Burst)
  BY WriteSeqs
<1>4. /\ Rest \in Seq(BeatType) /\ W = wr_data \o Rest /\ W' = Tail(wr_data) \o Rest
  <2>1. (IF w.at = "push" THEN w.reg ELSE << >>) \in Seq(BeatType)
    BY <1>2
  <2>2. Rest \in Seq(BeatType)
    BY <1>2, <2>1, ConcatProperties
  <2>3. QED
    BY <1>1, <2>2 DEF Words
<1> HIDE DEF Rest, W
<1>5. W # << >> /\ W[1] = Head(wr_data) /\ W' = Tail(W)
  BY <1>1, <1>2, <1>4, TailFirst
<1>6. /\ U = wr_addr \o aw_s /\ U # << >> /\ U[1] = Head(wr_addr) /\ Tail(U) = Tail(wr_addr) \o aw_s
      /\ Head(U) = U[1] /\ U[1] \in Burst /\ Tail(U) \in Seq(Burst)
  <2>1. U # << >> /\ U[1] = Head(wr_addr) /\ Tail(U) = Tail(wr_addr) \o aw_s
    BY <1>1, <1>2, TailFirst DEF Unstored
  <2>2. U = wr_addr \o aw_s
    BY DEF Unstored
  <2> HIDE DEF U
  <2>3. QED
    BY <1>3, <2>1, <2>2, TailOf
<1>7. U' = IF W[1].last THEN Tail(U) ELSE U
  BY <1>1, <1>5, <1>6 DEF Unstored
<1>8. D' = IF W[1].last THEN Append(D, U[1]) ELSE D
  <2>1. CASE W[1].last
    <3>1. D' = b.hand \o (b_s \o Append(wr_resp, U[1]))
      BY <1>1, <1>5, <1>6, <2>1 DEF Done
    <3> DEFINE e == U[1]
               Y == b_s \o wr_resp
    <3>2. e \in Burst /\ Y \in Seq(Burst) /\ D = b.hand \o Y
      BY <1>2, <1>6, ConcatProperties DEF Done
    <3> HIDE DEF e
    <3>3. \A s, t \in Seq(Burst) : \A x \in Burst : s \o Append(t, x) = Append(s \o t, x)
      BY ConcatAppend
    <3>4. b_s \o Append(wr_resp, e) = Append(Y, e)
      BY <1>2, <3>2, <3>3
    <3> HIDE DEF Y, D
    <3>5. b.hand \o Append(Y, e) = Append(D, e)
      BY <1>2, <3>2, <3>3
    <3>6. QED
      BY <2>1, <3>1, <3>4, <3>5 DEF e
  <2>2. CASE ~W[1].last
    BY <1>1, <1>5, <2>2 DEF Done
  <2>3. QED
    BY <2>1, <2>2
<1>9. D' \o U' = D \o U
  <2>1. CASE W[1].last
    <3>1. Append(D, Head(U)) \o Tail(U) = D \o U
      <4> HIDE DEF D, U
      <4>1. QED
        BY <1>3, <1>6, Moved
    <3>2. QED
      BY <1>6, <1>7, <1>8, <2>1, <3>1
  <2>2. CASE ~W[1].last
    BY <1>7, <1>8, <2>2
  <2>3. QED
    BY <2>1, <2>2
<1>10. WriteTypes'
  <2>1. /\ wr_addr' \in Seq(Burst) /\ wr_resp' \in Seq(Burst) /\ wr_data' \in Seq(BeatType)
    <3>1. /\ Head(wr_addr) \in Burst /\ Tail(wr_addr) \in Seq(Burst)
          /\ Tail(wr_data) \in Seq(BeatType)
      BY <1>1, <1>2, HeadTailProperties
    <3>2. Append(wr_resp, Head(wr_addr)) \in Seq(Burst)
      BY <1>2, <3>1, AppendProperties
    <3>3. QED
      BY <1>1, <1>2, <3>1, <3>2
  <2>2. QED
    BY <1>1, <2>1 DEF WriteTypes
<1>11. /\ WriteOwners' = WriteOwners /\ Open' = Open /\ Handing' = Handing
  BY <1>1 DEF WriteOwners, Open, Handing, NotHanded, Given, Passing, Finished
<1>12. Handing'
  BY <1>11
<1>13. Distinct(U)
  <2>1. Order(WriteOwners, D \o U, Open, wr, w_m)
    OBVIOUS
  <2> HIDE DEF D, U
  <2>2. QED
    BY <1>2, <1>3, <2>1, OrderOwned
<1>14. Chained(W', U') /\ Ends(W', U', Open, k)
  <2>1. Chained(W, U) /\ Ends(W, U, Open, k) /\ Open \in BOOLEAN
    BY DEF Fits, W, Open
  <2> DEFINE V == IF W[1].last THEN Tail(U) ELSE U
  <2> HIDE DEF U, k
  <2>2. Chained(Tail(W), V) /\ Ends(Tail(W), V, Open, k)
    BY <1>3, <1>5, <1>13, <2>1, EndsStored
  <2>3. QED
    BY <1>5, <1>7, <2>2
<1>15. Open => U' # << >> /\ U'[Len(U')] = wr[c].burst
  <2>1. SUFFICES ASSUME Open PROVE U' # << >> /\ U'[Len(U')] = wr[c].burst
    OBVIOUS
  <2>2. U' # << >>
    BY <1>14, <2>1 DEF Ends
  <2>3. U[Len(U)] = wr[c].burst
    BY <2>1 DEF Fits
  <2>4. CASE W[1].last
    <3> DEFINE T == Tail(U)
    <3>1. U' = T /\ T # << >>
      BY <1>7, <2>2, <2>4
    <3>2. /\ T \in Seq(Burst) /\ Len(T) = Len(U) - 1
          /\ \A p \in 1 .. Len(U) - 1 : T[p] = U[p+1]
          /\ Len(U) \in Nat /\ (T = << >> <=> Len(U) = 1) /\ Len(U) >= 1
      BY <1>3, <1>6, TailOf, TailEmpty
    <3> HIDE DEF T, U
    <3>3. Len(U) - 1 \in 1 .. Len(U) - 1 /\ (Len(U) - 1) + 1 = Len(U)
      BY <3>1, <3>2
    <3>4. QED
      BY <2>2, <2>3, <3>1, <3>2, <3>3
  <2>5. CASE ~W[1].last
    BY <1>6, <1>7, <2>3, <2>5
  <2>6. QED
    BY <2>4, <2>5
<1>16. Fits(W', U', Open, c, wr, w_m)
  BY <1>14, <1>15 DEF Fits
<1>. QED
  BY <1>1, <1>9, <1>10, <1>11, <1>12, <1>16 DEF W

(* A master asks to write; nothing of its last burst is left. *)
LEMMA WriteWriteRequest == ASSUME NEW j \in Writers PROVE WriteInv /\ WriteRequest(j) => WriteInv'
<1>. SUFFICES ASSUME WriteInv, WriteRequest(j) PROVE WriteInv'
  OBVIOUS
<1>. USE DEF WriteInv
<1> DEFINE O == WriteOwners
<1>1. PICK n \in 1 .. MaxLen :
         wr' = [wr EXCEPT ![j] = [at |-> "data", k |-> 0, burst |-> NextBurst(@.burst, n)]]
  BY DEF WriteRequest
<1>2. /\ wr[j].at = "idle"
      /\ aw_m' = [aw_m EXCEPT ![j] = Append(@, wr'[j].burst)]
      /\ UNCHANGED <<w_m, b_m, aw_s, w_s, b_s, write_in_flight, active_write_master, w_last,
                     aw, w, b, wr_addr, wr_data, wr_resp>>
  BY DEF WriteRequest
<1>3. /\ Writes(wr) /\ aw_m \in [Masters -> Seq(Burst)] /\ w_m \in [Masters -> Seq(BeatType)]
      /\ j \in Masters /\ aw.valid \subseteq Masters
  BY WritersAssumption DEF WriteTypes
<1> DEFINE e == NextBurst(wr[j].burst, n)
<1>4. e \in Burst /\ e.master = j
  <2>1. wr[j].burst \in Burst /\ wr[j].burst.master = j
    BY <1>3 DEF Writes, Write
  <2>2. 1 - wr[j].burst.seq \in 0 .. 1
    BY <2>1 DEF Burst
  <2>3. QED
    BY <2>1, <2>2 DEF NextBurst, Burst
<1>5. wr' = [wr EXCEPT ![j] = [at |-> "data", k |-> 0, burst |-> e]]
  BY <1>1
<1> HIDE DEF e
<1>6. /\ wr'[j] = [at |-> "data", k |-> 0, burst |-> e]
      /\ \A i \in Writers : i # j => wr'[i] = wr[i]
  BY <1>3, <1>5 DEF Writes
<1>7. Writes(wr')
  <2>1. [at |-> "data", k |-> 0, burst |-> e] \in Write
    BY <1>4 DEF Write
  <2>2. QED
    BY <1>3, <1>4, <1>5, <1>6, <2>1 DEF Writes
<1>8. w_m[j] = << >> /\ b_m[j] = << >> /\ aw_m[j] = << >> /\ ~Waiting(j, aw)
  <2>1. w_m[j] = << >>
    BY <1>2 DEF Sending
  <2>2. b_m[j] = << >>
    BY <1>2, <1>3 DEF Replied, Quiet
  <2>3. aw_m[j] = << >> /\ ~Waiting(j, aw)
    BY <1>2, <1>3 DEF Applying, Applies
  <2>4. QED
    BY <2>1, <2>2, <2>3
<1>9. \A p \in 1 .. Len(O) : O[p] \in Writers /\ O[p] # j
  BY <1>2 DEF Order
<1>10. aw_m' = [aw_m EXCEPT ![j] = <<e>>]
  BY <1>2, <1>3, <1>6, <1>8
<1>11. /\ O' = O /\ Done' = Done /\ Unstored' = Unstored /\ Words' = Words
       /\ Open' = Open /\ Handing' = Handing
  BY <1>2 DEF WriteOwners, Done, Unstored, Words, Open, Handing, NotHanded, Given, Passing, Finished
<1>12. WriteTypes'
  <2>1. <<e>> \in Seq(Burst)
    BY <1>4
  <2>2. aw_m' \in [Masters -> Seq(Burst)]
    BY <1>3, <1>10, <2>1
  <2>3. QED
    BY <1>2, <1>7, <2>2 DEF WriteTypes
<1>13. Handing'
  BY <1>11
<1>14. Sending(wr', w_m)
  <2>1. SUFFICES ASSUME NEW i \in Writers
                 PROVE  /\ wr'[i].at = "idle" => w_m[i] = << >>
                        /\ wr'[i].at = "data" => wr'[i].k < wr'[i].burst.len
                        /\ wr'[i].at = "resp" => wr'[i].k = wr'[i].burst.len
                        /\ Len(w_m[i]) <= wr'[i].k
                        /\ \A k \in 1 .. Len(w_m[i]) : w_m[i][k] = Beat(wr'[i].burst, Sent(i, wr', w_m) + k)
    BY DEF Sending
  <2>2. CASE i # j
    BY <1>6, <2>2 DEF Sending, Sent
  <2>3. CASE i = j
    <3>1. e.len \in Nat /\ e.len >= 1
      BY <1>4, BeatIs
    <3>2. Len(w_m[j]) = 0 /\ wr'[j].k = 0 /\ wr'[j].burst = e /\ wr'[j].at = "data"
      BY <1>6, <1>8
    <3>3. QED
      BY <2>3, <3>1, <3>2
  <2>4. QED
    BY <2>2, <2>3
<1>15. Order(O, Done \o Unstored, Open, wr', w_m)
  BY <1>6, <1>9 DEF Order, Quiet
<1>16. Fits(Words, Unstored, Open, aw.chosen, wr', w_m)
  <2>1. CASE Open
    <3>1. aw.chosen \in Writers /\ aw.chosen # j
      BY <1>9, <2>1, OpenOwner
    <3>2. wr'[aw.chosen] = wr[aw.chosen]
      BY <1>6, <3>1
    <3>3. QED
      BY <3>2 DEF Fits, Sent
  <2>2. CASE ~Open
    BY <2>2 DEF Fits, Ends
  <2>3. QED
    BY <2>1, <2>2
<1>17. Replied(O, wr', w_m, b_m)
  BY <1>6, <1>8 DEF Replied, Quiet
<1>18. Applying(O, aw, aw_m', wr', w_m, b_m)
  <2>1. SUFFICES ASSUME NEW i \in Masters
                 PROVE  /\ aw_m'[i] # << >> => aw_m'[i] = <<wr'[i].burst>> /\ ~Waiting(i, aw)
                        /\ Waiting(i, aw) => aw.reg[i] = wr'[i].burst
                        /\ aw_m'[i] # << >> \/ Waiting(i, aw) => Applies(i, O, wr', w_m, b_m)
    BY DEF Applying
  <2>2. CASE i # j
    <3>1. aw_m'[i] = aw_m[i]
      BY <1>3, <1>10, <2>2
    <3>2. aw_m[i] # << >> \/ Waiting(i, aw) => Applies(i, O, wr, w_m, b_m)
      BY DEF Applying
    <3>3. Applies(i, O, wr, w_m, b_m) => wr'[i] = wr[i]
      BY <1>6, <2>2 DEF Applies
    <3>4. QED
      BY <3>1, <3>2, <3>3 DEF Applying, Applies, Sent
  <2>3. CASE i = j
    <3>1. aw_m'[j] = <<e>> /\ wr'[j].burst = e /\ wr'[j].at = "data"
      BY <1>3, <1>6, <1>10
    <3>2. Sent(j, wr', w_m) = 0
      BY <1>6, <1>8 DEF Sent
    <3>3. Applies(j, O, wr', w_m, b_m)
      BY <1>8, <1>9, <3>1, <3>2 DEF Applies, NotIn
    <3>4. QED
      BY <1>8, <2>3, <3>1, <3>3
  <2>4. QED
    BY <2>2, <2>3
<1>. QED
  BY <1>2, <1>11, <1>12, <1>13, <1>14, <1>15, <1>16, <1>17, <1>18

(* A master sends the next word. *)
LEMMA WriteWriteData == ASSUME NEW j \in Writers PROVE WriteInv /\ WriteData(j) => WriteInv'
<1>. SUFFICES ASSUME WriteInv, WriteData(j) PROVE WriteInv'
  OBVIOUS
<1>. USE DEF WriteInv
<1> DEFINE O == WriteOwners
           burst == wr[j].burst
           k == wr[j].k
           over == k + 1 = burst.len
           x == Beat(burst, k + 1)
<1>1. /\ wr[j].at = "data"
      /\ w_m' = [w_m EXCEPT ![j] = Append(@, x)]
      /\ wr' = [wr EXCEPT ![j].k = @ + 1, ![j].at = IF over THEN "resp" ELSE @]
      /\ UNCHANGED <<aw_m, b_m, aw_s, w_s, b_s, write_in_flight, active_write_master, w_last,
                     aw, w, b, wr_addr, wr_data, wr_resp>>
  BY DEF WriteData
<1>2. /\ Writes(wr) /\ w_m \in [Masters -> Seq(BeatType)] /\ j \in Masters
      /\ w_m[j] \in Seq(BeatType)
  BY WritersAssumption DEF WriteTypes
<1>3. wr[j] \in Write /\ wr[j].burst.master = j /\ burst \in Burst /\ k \in Nat
      /\ burst.len \in Nat /\ k < burst.len
  <2>1. wr[j] \in Write /\ wr[j].burst.master = j /\ burst \in Burst /\ k \in Nat
    BY <1>2 DEF Writes, Write
  <2>2. burst.len \in Nat /\ k < burst.len
    BY <1>1, <2>1, BeatIs DEF Sending
  <2>3. QED
    BY <2>1, <2>2
<1>4. x \in BeatType
  <2>1. k + 1 \in 1 .. burst.len
    BY <1>3
  <2>2. QED
    BY <1>3, <2>1, BeatIs
<1>5. /\ w_m'[j] = Append(w_m[j], x) /\ w_m' \in [Masters -> Seq(BeatType)]
      /\ \A i \in Masters : i # j => w_m'[i] = w_m[i]
      /\ Len(w_m'[j]) = Len(w_m[j]) + 1 /\ Len(w_m[j]) \in Nat
      /\ \A l \in 1 .. Len(w_m[j]) : w_m'[j][l] = w_m[j][l]
      /\ w_m'[j][Len(w_m[j]) + 1] = x
  <2> HIDE DEF x
  <2>1. /\ Append(w_m[j], x) \in Seq(BeatType) /\ Len(Append(w_m[j], x)) = Len(w_m[j]) + 1
        /\ \A l \in 1 .. Len(w_m[j]) : Append(w_m[j], x)[l] = w_m[j][l]
        /\ Append(w_m[j], x)[Len(w_m[j]) + 1] = x
        /\ Len(w_m[j]) \in Nat
    BY <1>2, <1>4, Appended
  <2>2. QED
    BY <1>1, <1>2, <2>1
<1> DEFINE at == IF over THEN "resp" ELSE "data"
           next == [wr[j] EXCEPT !.k = k + 1, !.at = at]
<1>6. /\ wr' = [wr EXCEPT ![j] = next] /\ next \in Write
      /\ next.at = at /\ next.k = k + 1 /\ next.burst = burst
  <2>1. wr[j].at = "data" /\ wr[j].k = k
    BY <1>1
  <2>2. wr' = [wr EXCEPT ![j] = [wr[j] EXCEPT !.k = k + 1, !.at = IF over THEN "resp" ELSE wr[j].at]]
    BY <1>1, <1>2 DEF Writes
  <2>3. at = IF over THEN "resp" ELSE wr[j].at
    BY <2>1
  <2>4. at \in {"idle", "data", "resp"} /\ k + 1 \in Nat
    BY <1>3
  <2> HIDE DEF at, over, k
  <2>5. next \in Write /\ next.at = at /\ next.k = k + 1 /\ next.burst = wr[j].burst
    BY <1>3, <2>4 DEF Write
  <2>6. QED
    BY <2>2, <2>3, <2>5
<1>7. /\ wr'[j].at = at /\ wr'[j].k = k + 1 /\ wr'[j].burst = burst
      /\ \A i \in Writers : i # j => wr'[i] = wr[i]
      /\ Writes(wr') /\ wr'[j].at # "idle" /\ (wr'[j].at = "resp" <=> over)
  <2> HIDE DEF next
  <2>1. wr'[j] = next /\ \A i \in Writers : i # j => wr'[i] = wr[i]
    BY <1>2, <1>6 DEF Writes
  <2>2. wr'[j].at = at /\ wr'[j].k = k + 1 /\ wr'[j].burst = burst
    BY <1>6, <2>1
  <2>3. Writes(wr')
    BY <1>2, <1>3, <1>6, <2>1, <2>2 DEF Writes
  <2>4. QED
    BY <2>1, <2>2, <2>3
<1> HIDE DEF at, next
<1>8. Sent(j, wr', w_m') = Sent(j, wr, w_m) /\ \A i \in Writers : Sent(i, wr', w_m') = Sent(i, wr, w_m)
  <2>1. wr'[j].k = k + 1 /\ k \in Nat /\ Len(w_m'[j]) = Len(w_m[j]) + 1 /\ Len(w_m[j]) \in Nat
    BY <1>3, <1>5, <1>7
  <2>2. (k + 1) - (Len(w_m[j]) + 1) = k - Len(w_m[j])
    <3> HIDE DEF k
    <3>1. \A c, d \in Nat : (c + 1) - (d + 1) = c - d
      OBVIOUS
    <3>2. QED
      BY <2>1, <3>1
  <2>3. Sent(j, wr', w_m') = Sent(j, wr, w_m)
    BY <2>1, <2>2 DEF Sent
  <2>4. \A i \in Writers : i # j => Sent(i, wr', w_m') = Sent(i, wr, w_m)
    BY <1>5, <1>7, WritersAssumption DEF Sent
  <2>5. QED
    BY <2>3, <2>4
<1>9. /\ O' = O /\ Done' = Done /\ Unstored' = Unstored /\ Words' = Words
      /\ Open' = Open /\ Handing' = Handing
  BY <1>1 DEF WriteOwners, Done, Unstored, Words, Open, Handing, NotHanded, Given, Passing, Finished
<1>10. WriteTypes'
  BY <1>1, <1>5, <1>7 DEF WriteTypes
<1>11. Handing'
  BY <1>9
<1>12. Sending(wr', w_m')
  <2>1. SUFFICES ASSUME NEW i \in Writers
                 PROVE  /\ wr'[i].at = "idle" => w_m'[i] = << >>
                        /\ wr'[i].at = "data" => wr'[i].k < wr'[i].burst.len
                        /\ wr'[i].at = "resp" => wr'[i].k = wr'[i].burst.len
                        /\ Len(w_m'[i]) <= wr'[i].k
                        /\ \A l \in 1 .. Len(w_m'[i]) : w_m'[i][l] = Beat(wr'[i].burst, Sent(i, wr', w_m') + l)
    BY DEF Sending
  <2>2. CASE i # j
    <3>1. wr'[i] = wr[i] /\ w_m'[i] = w_m[i] /\ Sent(i, wr', w_m') = Sent(i, wr, w_m)
      BY <1>5, <1>7, <1>8, <2>2, WritersAssumption
    <3>2. QED
      BY <3>1 DEF Sending
  <2>3. CASE i = j
    <3>1. Len(w_m[j]) <= k
      BY DEF Sending
    <3>2. Len(w_m'[j]) <= k + 1
      BY <1>3, <1>5, <3>1
    <3>3. ~over => k + 1 < burst.len
      BY <1>3
    <3>4. ASSUME NEW l \in 1 .. Len(w_m'[j])
          PROVE  w_m'[j][l] = Beat(burst, Sent(j, wr, w_m) + l)
      <4>1. CASE l = Len(w_m[j]) + 1
        <5>1. Sent(j, wr, w_m) + l = k + 1
          <6>1. k \in Nat /\ Len(w_m[j]) \in Nat
            BY <1>3, <1>5
          <6> HIDE DEF k
          <6>2. \A c, d \in Nat : (c - d) + (d + 1) = c + 1
            OBVIOUS
          <6>3. QED
            BY <4>1, <6>1, <6>2 DEF Sent, k
        <5>2. QED
          BY <1>5, <4>1, <5>1
      <4>2. CASE l # Len(w_m[j]) + 1
        <5>1. l \in 1 .. Len(w_m[j])
          BY <1>5, <4>2
        <5>2. QED
          BY <1>5, <5>1 DEF Sending
      <4>3. QED
        BY <4>1, <4>2
    <3>5. QED
      BY <1>7, <1>8, <2>3, <3>2, <3>3, <3>4 DEF at
  <2>4. QED
    BY <2>2, <2>3
<1>13. Order(O, Done \o Unstored, Open, wr', w_m')
  <2>1. ASSUME NEW p \in 1 .. Len(O)
        PROVE  /\ O[p] \in Writers /\ wr'[O[p]].burst = wr[O[p]].burst /\ wr'[O[p]].at # "idle"
               /\ (Open /\ p = Len(O)) \/ Quiet(O[p], wr', w_m')
    <3>0. /\ O[p] \in Writers /\ wr[O[p]].at # "idle"
          /\ (Open /\ p = Len(O)) \/ Quiet(O[p], wr, w_m)
      BY DEF Order
    <3>1. CASE O[p] = j
      <4>1. ~Quiet(j, wr, w_m)
        BY <1>1 DEF Quiet
      <4>2. QED
        BY <1>7, <3>0, <3>1, <4>1
    <3>2. CASE O[p] # j
      <4>1. wr'[O[p]] = wr[O[p]] /\ w_m'[O[p]] = w_m[O[p]]
        BY <1>5, <1>7, <3>0, <3>2, WritersAssumption
      <4>2. QED
        BY <3>0, <4>1 DEF Quiet
    <3>3. QED
      BY <3>1, <3>2
  <2>2. QED
    BY <2>1 DEF Order
<1>14. Fits(Words, Unstored, Open, aw.chosen, wr', w_m')
  <2>1. CASE Open
    <3>1. aw.chosen \in Writers
      BY <2>1, OpenOwner
    <3>2. /\ wr'[aw.chosen].burst = wr[aw.chosen].burst
          /\ Sent(aw.chosen, wr', w_m') = Sent(aw.chosen, wr, w_m)
      BY <1>7, <1>8, <3>1
    <3>3. QED
      BY <3>2 DEF Fits
  <2>2. CASE ~Open
    BY <2>2 DEF Fits, Ends
  <2>3. QED
    BY <2>1, <2>2
<1>15. Replied(O, wr', w_m', b_m)
  <2>1. SUFFICES ASSUME NEW i \in Masters, b_m[i] # << >>
                 PROVE  i \in Writers /\ b_m[i] = <<wr'[i].burst>> /\ Quiet(i, wr', w_m') /\ NotIn(i, O)
    BY DEF Replied
  <2>2. i \in Writers /\ b_m[i] = <<wr[i].burst>> /\ Quiet(i, wr, w_m) /\ NotIn(i, O)
    BY <2>1 DEF Replied
  <2>3. i # j
    BY <1>1, <2>2 DEF Quiet
  <2>4. QED
    BY <1>5, <1>7, <2>2, <2>3 DEF Quiet
<1>16. Applying(O, aw, aw_m, wr', w_m', b_m)
  <2>1. \A i \in Writers : wr'[i].burst = wr[i].burst /\ (wr[i].at # "idle" => wr'[i].at # "idle")
    BY <1>7
  <2>2. \A i \in Masters : Applies(i, O, wr, w_m, b_m) => /\ Applies(i, O, wr', w_m', b_m)
                                                          /\ wr'[i].burst = wr[i].burst
    BY <1>8, <2>1 DEF Applies
  <2>3. QED
    BY <2>2 DEF Applying
<1>. QED
  BY <1>1, <1>9, <1>10, <1>11, <1>12, <1>13, <1>14, <1>15, <1>16

(* A master takes its response. *)
LEMMA WriteWriteResponse == ASSUME NEW j \in Writers PROVE WriteInv /\ WriteResponse(j) => WriteInv'
<1>. SUFFICES ASSUME WriteInv, WriteResponse(j) PROVE WriteInv'
  OBVIOUS
<1>. USE DEF WriteInv
<1> DEFINE O == WriteOwners
<1>1. /\ wr[j].at = "resp" /\ b_m[j] # << >>
      /\ b_m' = [b_m EXCEPT ![j] = Tail(@)]
      /\ wr' = [wr EXCEPT ![j].at = "idle"]
      /\ UNCHANGED <<aw_m, w_m, aw_s, w_s, b_s, write_in_flight, active_write_master, w_last,
                     aw, w, b, wr_addr, wr_data, wr_resp>>
  BY DEF WriteResponse, HasMsg
<1>2. /\ Writes(wr) /\ b_m \in [Masters -> Seq(Burst)] /\ j \in Masters /\ wr[j] \in Write
  BY WritersAssumption DEF WriteTypes, Writes
<1>3. b_m[j] = <<wr[j].burst>> /\ Quiet(j, wr, w_m) /\ NotIn(j, O)
  BY <1>1, <1>2 DEF Replied
<1>4. Tail(b_m[j]) = << >>
  BY <1>3
<1>5. /\ b_m'[j] = << >> /\ b_m' \in [Masters -> Seq(Burst)]
      /\ \A i \in Masters : i # j => b_m'[i] = b_m[i]
  <2>1. b_m' = [b_m EXCEPT ![j] = << >>]
    BY <1>1, <1>2, <1>4
  <2>2. QED
    BY <1>2, <2>1
<1>6. /\ wr'[j] = [wr[j] EXCEPT !.at = "idle"]
      /\ \A i \in Writers : i # j => wr'[i] = wr[i]
      /\ wr' \in [Writers -> Write]
  <2>1. [wr[j] EXCEPT !.at = "idle"] \in Write
    BY <1>2 DEF Write
  <2>2. wr' = [wr EXCEPT ![j] = [wr[j] EXCEPT !.at = "idle"]]
    BY <1>1, <1>2 DEF Writes
  <2>3. QED
    BY <1>2, <2>1, <2>2 DEF Writes
<1>7. wr'[j].at = "idle" /\ wr'[j].k = wr[j].k /\ wr'[j].burst = wr[j].burst /\ Writes(wr')
  <2>1. wr'[j].at = "idle" /\ wr'[j].k = wr[j].k /\ wr'[j].burst = wr[j].burst
    BY <1>2, <1>6 DEF Write
  <2>2. QED
    BY <1>2, <1>6, <2>1 DEF Writes
<1>8. /\ O' = O /\ Done' = Done /\ Unstored' = Unstored /\ Words' = Words
      /\ Open' = Open /\ Handing' = Handing
  BY <1>1 DEF WriteOwners, Done, Unstored, Words, Open, Handing, NotHanded, Given, Passing, Finished
<1>9. WriteTypes'
  BY <1>1, <1>5, <1>7 DEF WriteTypes
<1>10. Handing'
  BY <1>8
<1>11. Sending(wr', w_m)
  <2>1. SUFFICES ASSUME NEW i \in Writers
                 PROVE  /\ wr'[i].at = "idle" => w_m[i] = << >>
                        /\ wr'[i].at = "data" => wr'[i].k < wr'[i].burst.len
                        /\ wr'[i].at = "resp" => wr'[i].k = wr'[i].burst.len
                        /\ Len(w_m[i]) <= wr'[i].k
                        /\ \A k \in 1 .. Len(w_m[i]) : w_m[i][k] = Beat(wr'[i].burst, Sent(i, wr', w_m) + k)
    BY DEF Sending
  <2>2. CASE i # j
    BY <1>6, <2>2 DEF Sending, Sent
  <2>3. CASE i = j
    BY <1>3, <1>7, <2>3 DEF Sending, Sent, Quiet
  <2>4. QED
    BY <2>2, <2>3
<1>12. \A p \in 1 .. Len(O) : O[p] \in Writers /\ O[p] # j
  BY <1>3 DEF NotIn, Order
<1>13. Order(O, Done \o Unstored, Open, wr', w_m)
  BY <1>6, <1>12 DEF Order, Quiet
<1>14. Fits(Words, Unstored, Open, aw.chosen, wr', w_m)
  <2>1. CASE Open
    <3>1. aw.chosen \in Writers /\ aw.chosen # j
      BY <1>12, <2>1, OpenOwner
    <3>2. wr'[aw.chosen] = wr[aw.chosen]
      BY <1>6, <3>1
    <3>3. QED
      BY <3>2 DEF Fits, Sent
  <2>2. CASE ~Open
    BY <2>2 DEF Fits, Ends
  <2>3. QED
    BY <2>1, <2>2
<1>15. Replied(O, wr', w_m, b_m')
  BY <1>5, <1>6 DEF Replied, Quiet
<1>16. Applying(O, aw, aw_m, wr', w_m, b_m')
  <2>1. ~Applies(j, O, wr, w_m, b_m)
    BY <1>1 DEF Applies
  <2>2. \A i \in Masters : Applies(i, O, wr, w_m, b_m) => /\ Applies(i, O, wr', w_m, b_m')
                                                          /\ wr'[i].burst = wr[i].burst
    BY <1>5, <1>6, <2>1 DEF Applies, Sent
  <2>3. QED
    BY <2>2 DEF Applying
<1>. QED
  BY <1>1, <1>8, <1>9, <1>10, <1>11, <1>13, <1>14, <1>15, <1>16

(* Every step keeps the invariant of the write side. *)
LEMMA WriteKept == WriteInv /\ [Next]_vars => WriteInv'
<1>. SUFFICES ASSUME WriteInv, [Next]_vars PROVE WriteInv'
  OBVIOUS
<1>1. CASE run_ar
  BY <1>1, WriteSame DEF run_ar, ArPoll, ArPush, ArInFlight, masterVars
<1>2. CASE run_r
  BY <1>2, WriteSame DEF run_r, RPoll, RPush, masterVars
<1>3. CASE run_aw
  BY <1>3, WriteAwPoll, WriteAwPush, WriteAwActive, WriteAwInFlight, WriteAwLast DEF run_aw
<1>4. CASE run_w
  BY <1>4, WriteWActive, WriteWPop, WriteWPush, WriteWLast DEF run_w
<1>5. CASE run_b
  BY <1>5, WriteBPoll, WriteBPush DEF run_b
<1>6. CASE \E i \in Masters : ReadRequest(i) \/ ReadData(i)
  BY <1>6, WriteSame DEF ReadRequest, ReadData
<1>7. CASE \E i \in Writers : WriteRequest(i) \/ WriteData(i) \/ WriteResponse(i)
  BY <1>7, WriteWriteRequest, WriteWriteData, WriteWriteResponse
<1>8. CASE Slave
  BY <1>8, WriteSlaveTakeAddr, WriteSlaveTakeData, WriteSlaveStore, WriteSlaveGive, WriteSame
     DEF Slave, SlaveTakeRead, SlaveGiveBeat, masterVars
<1>9. CASE UNCHANGED vars
  BY <1>9, WriteSame DEF vars, masterVars
<1>. QED
  BY <1>1, <1>2, <1>3, <1>4, <1>5, <1>6, <1>7, <1>8, <1>9 DEF Next

(* For every number of masters and of writers among them, burst length and  *)
(* channel capacity, with and without random stalls: the slave stores every *)
(* word under its own burst's address, because run_aw waits for the last    *)
(* word of a burst before it passes on the next address.                    *)
THEOREM DataKeepAddress == Spec => []WritesPaired
<1>1. WriteInv => WritesPaired
  <2>1. SUFFICES ASSUME WriteInv, wr_addr # << >>, wr_data # << >>
                 PROVE  Head(wr_data).burst = Head(wr_addr)
    BY DEF WritesPaired
  <2> DEFINE Reg == w_s \o (IF w.at = "push" THEN w.reg ELSE << >>)
  <2>2. /\ wr_addr \in Seq(Burst) /\ aw_s \in Seq(Burst)
        /\ wr_data \in Seq(BeatType) /\ Reg \in Seq(BeatType)
    <3>1. /\ wr_addr \in Seq(Burst) /\ aw_s \in Seq(Burst) /\ wr_data \in Seq(BeatType)
          /\ w_s \in Seq(BeatType) /\ w.reg \in Seq(BeatType)
      BY <2>1 DEF WriteInv, WriteTypes
    <3>2. (IF w.at = "push" THEN w.reg ELSE << >>) \in Seq(BeatType)
      BY <3>1
    <3>3. QED
      BY <3>1, <3>2, ConcatProperties
  <2>3. Words = wr_data \o Reg /\ Unstored = wr_addr \o aw_s
    BY DEF Words, Unstored
  <2> HIDE DEF Reg
  <2>4. Words # << >> /\ Words[1] = Head(wr_data)
    BY <2>1, <2>2, <2>3, TailFirst
  <2>5. Unstored[1] = Head(wr_addr)
    BY <2>1, <2>2, <2>3, TailFirst
  <2>6. Words[1].burst = Unstored[1]
    BY <2>1, <2>4 DEF WriteInv, Fits, Chained
  <2>7. QED
    BY <2>4, <2>5, <2>6
<1>. QED
  BY <1>1, WriteInit, WriteKept, PTL DEF Spec

(* Likewise: run_b, which knows the owner of a response only from the order *)
(* of write_in_flight, gives every master the response to its own burst, and*)
(* only when the master has sent it all.                                    *)
THEOREM ResponsesReturn == Spec => []ResponsesRouted
<1>1. WriteInv => ResponsesRouted
  <2>1. SUFFICES ASSUME WriteInv, NEW i \in Masters, NEW k \in 1 .. Len(b_m[i])
                 PROVE  i \in Writers /\ wr[i].at = "resp" /\ b_m[i][k] = wr[i].burst
    BY DEF ResponsesRouted
  <2>2. b_m[i] # << >>
    OBVIOUS
  <2>3. i \in Writers /\ b_m[i] = <<wr[i].burst>> /\ Quiet(i, wr, w_m)
    BY <2>1, <2>2 DEF WriteInv, Replied
  <2>4. k = 1
    BY <2>3
  <2>5. QED
    BY <2>3, <2>4 DEF Quiet
<1>. QED
  BY <1>1, WriteInit, WriteKept, PTL DEF Spec
=============================================================================
