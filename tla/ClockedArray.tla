---------------------------- MODULE ClockedArray ----------------------------
(***************************************************************************)
(* The array cycle by cycle: what the interleavings of SysArray leave to   *)
(* time.  In one cycle the messages of all channels move from Out ports to *)
(* In ports, then every thread runs once, from wait() to wait(); a blocked *)
(* Push is tried again in the next cycle, and the thread goes on from      *)
(* there.  A port register is full or empty (ClockedChannel); the data are *)
(* left out, their number is kept.                                         *)
(*                                                                         *)
(* The clients are as irregular as they may be: weight words and beats of  *)
(* activations come with any gaps, the memory takes the results when it    *)
(* likes, the computation begins in the cycle after the last word if it    *)
(* can, and the next load at once after the interrupt.  The configuration  *)
(* has long come; ClockedConfig adds one that has not.                     *)
(***************************************************************************)
EXTENDS Integers, FiniteSetsExt

CONSTANTS
    N,      \* the array is N x N
    M,      \* activation vectors in the run
    Group   \* columns that one weight word of the AXI bus serves

ASSUME NAssumption == N \in Nat \ {0}
ASSUME MAssumption == M \in Nat \ {0}
ASSUME GroupAssumption == Group \in 1 .. N /\ N % Group = 0

Idx == 0 .. N-1

VARIABLES
    pe,         \* SysPE i,j: its place in the loop, valid flags, ports, counts
    bias,       \* SysBias j
    zero,       \* AccumInRun: Out ports
    weight,     \* WeightAxi: beats taken, next column to push, Out ports
    feed,       \* ReadRspRun: beats taken, next row to push, Out ports
    collect     \* WriteReqRun: place, In ports, counters

vars == <<pe, bias, zero, weight, feed, collect>>

Init ==
    /\ pe = [i \in Idx |-> [j \in Idx |->
               [at |-> "poll", isW |-> FALSE, isA |-> FALSE, isS |-> FALSE,
                inW |-> FALSE, inA |-> FALSE, inS |-> FALSE,
                outW |-> FALSE, outA |-> FALSE, outS |-> FALSE,
                recv |-> 0, fired |-> 0]]]
    /\ bias = [j \in Idx |-> [at |-> "poll", inW |-> FALSE, inS |-> FALSE, out |-> FALSE,
                             recv |-> 0, made |-> 0]]
    /\ zero = [j \in Idx |-> FALSE]
    /\ weight = [beat |-> 0, col |-> N, out |-> [j \in Idx |-> FALSE]]
    /\ feed = [beat |-> 0, row |-> N, out |-> [i \in Idx |-> FALSE]]
    /\ collect = [at |-> "poll", in |-> [j \in Idx |-> FALSE], ctr |-> [j \in Idx |-> 0]]

-----------------------------------------------------------------------------
(* The edge: what every port holds when the threads run. *)

Arrives(in, out) == in \/ out       \* an In port after the edge
Stays(out, in) == out /\ in         \* an Out port after the edge

AtEdge(i, j) ==
    [pe[i][j] EXCEPT
       !.inW = Arrives(@, IF i = 0 THEN weight.out[j] ELSE pe[i-1][j].outW),
       !.inA = Arrives(@, IF j = 0 THEN feed.out[i] ELSE pe[i][j-1].outA),
       !.inS = Arrives(@, IF i = 0 THEN zero[j] ELSE pe[i-1][j].outS),
       !.outW = Stays(@, IF i = N-1 THEN bias[j].inW ELSE pe[i+1][j].inW),
       !.outA = Stays(@, IF j = N-1 THEN FALSE ELSE pe[i][j+1].inA),
       !.outS = Stays(@, IF i = N-1 THEN bias[j].inS ELSE pe[i+1][j].inS)]

BiasAtEdge(j) ==
    [bias[j] EXCEPT !.inW = Arrives(@, pe[N-1][j].outW), !.inS = Arrives(@, pe[N-1][j].outS),
                    !.out = Stays(@, collect.in[j])]

WeightAtEdge == [j \in Idx |-> Stays(weight.out[j], pe[0][j].inW)]
FeedAtEdge == [i \in Idx |-> Stays(feed.out[i], pe[i][0].inA)]
CollectAtEdge == [j \in Idx |-> Arrives(collect.in[j], bias[j].out)]

-----------------------------------------------------------------------------
(* PERun, one cycle: the iteration up to its wait, or up to a Push that     *)
(* finds its Out port full.                                                 *)

Poll(p) ==
    IF p.at # "poll" THEN p
    ELSE LET a == p.isA \/ p.inA
             s == p.isS \/ p.inS
         IN [p EXCEPT !.at = IF a /\ s THEN "act" ELSE "weight",
                      !.isW = p.inW, !.inW = FALSE,
                      !.isA = a /\ ~s, !.inA = @ /\ p.isA,
                      !.isS = s /\ ~a, !.inS = @ /\ p.isS,
                      !.recv = IF p.inW THEN @ + 1 ELSE @,
                      !.fired = IF a /\ s THEN @ + 1 ELSE @]

PushAct(p) ==
    IF p.at = "act" /\ ~p.outA THEN [p EXCEPT !.outA = TRUE, !.at = "accum"] ELSE p

PushAccum(p) ==
    IF p.at = "accum" /\ ~p.outS THEN [p EXCEPT !.outS = TRUE, !.at = "weight"] ELSE p

(* Faulty variant: a wait() between the polls and the Push of the weight. *)
PushWeightLater(p) ==
    IF p.at = "weight" /\ p.isW THEN [p EXCEPT !.at = "late"]
    ELSE IF p.at = "late" /\ ~p.outW THEN [p EXCEPT !.outW = TRUE, !.isW = FALSE, !.at = "poll"]
    ELSE IF p.at = "weight" THEN [p EXCEPT !.at = "poll"] ELSE p

PushWeight(p) ==
    IF p.at = "weight" /\ (p.isW => ~p.outW)
    THEN [p EXCEPT !.outW = @ \/ p.isW, !.isW = FALSE, !.at = "poll"] ELSE p

PERun(p) == PushWeight(PushAccum(PushAct(Poll(p))))

-----------------------------------------------------------------------------
(* SysBiasRun, if no configuration comes. *)

BiasPoll(b) ==
    IF b.at # "poll" THEN b
    ELSE IF b.inS THEN [b EXCEPT !.inS = FALSE, !.at = "push"]
    ELSE IF b.inW THEN [b EXCEPT !.inW = FALSE, !.recv = @ + 1]
    ELSE b

BiasPush(b) ==
    IF b.at = "push" /\ ~b.out THEN [b EXCEPT !.out = TRUE, !.made = @ + 1, !.at = "poll"] ELSE b

SysBiasRun(b) == BiasPush(BiasPoll(b))

-----------------------------------------------------------------------------
(* A client that pushes the messages of a beat to the ports in Members, in  *)
(* ascending order from port next on, stops at the first that is full.      *)
StopsAt(Members, next, out) ==
    LET full == {k \in Members : k >= next /\ out[k]}
    IN IF full = {} THEN N ELSE Min(full)

PushedTo(Members, next, out) ==
    [k \in Idx |-> out[k] \/ (k \in Members /\ next <= k /\ k < StopsAt(Members, next, out))]

(* WeightAxiRun: a beat of the AXI burst carries one row for Group columns; *)
(* go is whether a new beat has come.                                       *)
Loaded == weight.beat = (N + 1) * (N \div Group) /\ weight.col = N

WeightAxiRun(go) ==
    LET new == weight.col = N
        beat == IF new THEN weight.beat ELSE weight.beat - 1
        next == IF new THEN 0 ELSE weight.col
        cols == {j \in Idx : j \div Group = beat % (N \div Group)}
    IN IF new /\ (Loaded \/ ~go)
       THEN [weight EXCEPT !.out = WeightAtEdge]
       ELSE [beat |-> beat + 1,
             col |-> StopsAt(cols, next, WeightAtEdge),
             out |-> PushedTo(cols, next, WeightAtEdge)]

(* ReadRspRun: beat k has the rows i with vector k - i; go is whether a     *)
(* response of the memory has come.                                         *)
LastBeat == N + M - 1
InBeat(k, i) == k >= i /\ k - i <= M - 1

ReadRspRun(go) ==
    LET new == feed.row = N
        beat == IF new THEN feed.beat ELSE feed.beat - 1
        next == IF new THEN 0 ELSE feed.row
        rows == {i \in Idx : InBeat(beat, i)}
    IN IF new /\ (~Loaded \/ beat = LastBeat \/ ~go)
       THEN [feed EXCEPT !.out = FeedAtEdge]
       ELSE [beat |-> beat + 1,
             row |-> StopsAt(rows, next, FeedAtEdge),
             out |-> PushedTo(rows, next, FeedAtEdge)]

-----------------------------------------------------------------------------
(* Faulty variants: of the columns with an output only the last is served;  *)
(* the first column ends the run, or one vector too many.                   *)
ServedLast(in) == {j \in Idx : in[j] /\ \A k \in Idx : k > j => ~in[k]}
RunDoneFirst(c) == c[0] = M
RunDoneLong(c) == c[N-1] = M + 1

(* The columns WriteReqRun takes an output from, and the end of the run. *)
Served(in) == {j \in Idx : in[j]}
RunDone(c) == c[N-1] = M

(* WriteReqRun: room is whether the memory takes the request. *)
WriteReqRun(room) ==
    LET taken == IF collect.at = "poll" THEN Served(CollectAtEdge) ELSE {}
        ctr == [j \in Idx |-> IF j \in taken THEN collect.ctr[j] + 1 ELSE collect.ctr[j]]
        blocked == ~room /\ (collect.at = "push" \/ taken # {})
    IN [at |-> IF collect.at = "done" THEN "done"
               ELSE IF blocked THEN "push"
               ELSE IF RunDone(ctr) THEN "done" ELSE "poll",
        in |-> [j \in Idx |-> CollectAtEdge[j] /\ j \notin taken],
        ctr |-> ctr]

-----------------------------------------------------------------------------
(* One cycle; SysBias takes its configuration, and nothing else, in the     *)
(* columns of configured.                                                   *)
Cycle(configured, newWord, newBeat, room) ==
    /\ pe' = [i \in Idx |-> [j \in Idx |-> PERun(AtEdge(i, j))]]
    /\ bias' = [j \in Idx |-> IF j \in configured THEN BiasAtEdge(j) ELSE SysBiasRun(BiasAtEdge(j))]
    /\ zero' = [j \in Idx |-> TRUE]     \* AccumInRun: PushNB to every free port
    /\ weight' = WeightAxiRun(newWord)
    /\ feed' = ReadRspRun(newBeat)
    /\ collect' = WriteReqRun(room)

(* After the interrupt the host loads the next weights, as soon as it likes. *)
NextLoad ==
    /\ collect.at = "done"
    /\ pe' = [i \in Idx |-> [j \in Idx |-> [pe[i][j] EXCEPT !.recv = 0, !.fired = 0]]]
    /\ bias' = [j \in Idx |-> [bias[j] EXCEPT !.recv = 0, !.made = 0]]
    /\ weight' = [weight EXCEPT !.beat = 0]
    /\ feed' = [feed EXCEPT !.beat = 0]
    /\ collect' = [collect EXCEPT !.at = "poll", !.ctr = [j \in Idx |-> 0]]
    /\ UNCHANGED zero

Next ==
    \/ \E newWord, newBeat, room \in BOOLEAN : Cycle({}, newWord, newBeat, room)
    \/ NextLoad

Spec == Init /\ [][Next]_vars

-----------------------------------------------------------------------------
(* Properties *)

(* The columns put out their vectors from left to right: the skew with      *)
(* which the rows are fed survives every gap and every wait of the memory.  *)
(* This is the guard InWavefront of SysArray and DoubleBuffer.              *)
ColumnsInOrder == \A j \in Idx : \A k \in Idx : j < k => bias[k].made <= bias[j].made

(* A PE multiplies no activation before its own weight, the last of the     *)
(* N + 1 words it gets, has come, and no sum is finished before its bias:   *)
(* words still shift down when the first activations enter, and stay ahead  *)
(* of them even if no time passes between the last word and the start.      *)
(* This is why StartRun of SysArray may wait for Settled.                   *)
WeightsAhead ==
    /\ \A i \in Idx, j \in Idx : pe[i][j].fired > 0 => pe[i][j].recv = N + 1
    /\ \A j \in Idx : bias[j].at = "push" \/ bias[j].made > 0 => bias[j].recv = N + 1

(* When WriteReqRun takes the run to be over, every column has given all    *)
(* its M outputs (the assertion NVHLS_ASSERT(ctr[0]-1 == M_1) and more).    *)
EndsWhole == collect.at = "done" => \A j \in Idx : collect.ctr[j] = M

(* Nothing gets stuck: through all the blocking Pushes, and whatever the    *)
(* pace of the clients, the load settles and the run ends.                  *)
Finishes == []<>(collect.at = "done")
=============================================================================
