---------------------------- MODULE MemoryProofs ----------------------------
(***************************************************************************)
(* The double-buffered memory and those who use it, for every size of the  *)
(* memory, the words, the bursts, the array and the channels, and a host   *)
(* that lets the memory come to rest before it gives its next command.     *)
(*                                                                         *)
(* A flip reaches SplitReqRun and MergeRspRun at different times, but while *)
(* a unit works both copies of mem_id are where the host has put them      *)
(* (SidesStayFixed).  Hence a side of the memory is one queue of requests  *)
(* and one of answers, whatever channels and registers they are in: Req(s) *)
(* and Rsp(s), which a thread of the memory leaves alone or moves from one *)
(* to the other (MemoryMoves).  On them Shape says who uses which side,    *)
(* which requests and answers are on their way, and how the counters of    *)
(* the masters, of InputSetup and of the array belong to them.             *)
(* Without stalls, nobody waits for himself (NeverJammed).                 *)
(***************************************************************************)
EXTENDS DoubleBuffer, SequenceTheorems, TLAPS

-----------------------------------------------------------------------------
(* The inductive invariant *)

Copy(k) == IF k = 0 THEN split_id ELSE merge_id

FlipShape == flip_inter \in [Ids -> Seq(Ids)] /\ id \in Ids /\ flip_to \in 0 .. 2

(* The host's last flip is taken by both copies, in the first channel, or   *)
(* being handed out.                                                        *)
FlipOnItsWay ==
    \/ /\ flip_mem = <<id>> /\ flip_to = 2
       /\ \A k \in Ids : flip_inter[k] = << >>
    \/ /\ flip_mem = << >> /\ (flip_to # 2 => flip_reg = id)
       /\ \A k \in Ids :
            \/ flip_inter[k] = << >> /\ (k < flip_to => Copy(k) = id)
            \/ flip_inter[k] = <<id>> /\ k < flip_to

(* The host flips only when nothing else is going on. *)
NoFlip ==
    flip_mem = << >> /\ flip_to = 2 /\ \A k \in Ids : flip_inter[k] = << >>

FlipInv == FlipShape /\ FlipOnItsWay /\ (waiting # {} => NoFlip)

flipState == <<flipVars, split_id, merge_id, id>>

-----------------------------------------------------------------------------
LEMMA PoppedFlip ==
    ASSUME NEW ch, TRUE \in PopNB(ch)
    PROVE  ch # << >>
BY DEF PopNB, HasMsg

LEMMA SingleFlip ==
    ASSUME NEW v \in Ids
    PROVE  /\ Append(<< >>, v) = <<v>> /\ <<v>> # << >>
           /\ Head(<<v>>) = v /\ Tail(<<v>>) = << >>
OBVIOUS

LEMMA SameFlip ==
    ASSUME FlipInv, UNCHANGED flipState, waiting' # {} => waiting # {} \/ NoFlip
    PROVE  FlipInv'
BY DEF FlipInv, FlipShape, FlipOnItsWay, NoFlip, Copy, flipState, flipVars

(* FlipRun hands the word to SplitReqRun first. *)
LEMMA FlipRunKeeps ==
    ASSUME FlipInv, FlipRun, UNCHANGED clientVars
    PROVE  FlipInv'
<1>0. UNCHANGED <<id, waiting, split_id, merge_id>> /\ id \in Ids /\ FlipShape
  BY DEF clientVars, hostVars, FlipRun, FlipPop, FlipPush, splitVars, mergeVars, FlipInv, FlipShape
<1>1. CASE FlipPop
  <2>1. flip_mem = <<id>> /\ flip_to = 2 /\ \A k \in Ids : flip_inter[k] = << >>
    BY <1>1, PoppedFlip DEF FlipPop, FlipInv, FlipOnItsWay
  <2>2. flip_mem' = << >> /\ flip_reg' = id /\ flip_to' = 0 /\ UNCHANGED flip_inter
    BY <1>0, <1>1, <2>1, SingleFlip DEF FlipPop
  <2>3. waiting = {}
    BY <1>0, <2>1, SingleFlip DEF FlipInv, NoFlip
  <2>4. QED
    BY <1>0, <2>1, <2>2, <2>3 DEF FlipInv, FlipShape, FlipOnItsWay, Ids
<1>2. CASE FlipPush
  <2>1. flip_to \in Ids /\ flip_to # 2
    BY <1>2 DEF FlipPush, Ids
  <2>2. /\ flip_mem = << >> /\ flip_reg = id
        /\ \A k \in Ids : \/ flip_inter[k] = << >> /\ (k < flip_to => Copy(k) = id)
                          \/ flip_inter[k] = <<id>> /\ k < flip_to
    BY <2>1 DEF FlipInv, FlipOnItsWay
  <2>3. flip_inter[flip_to] = << >>
    BY <2>1, <2>2 DEF Ids
  <2>4. /\ flip_inter'[flip_to] = <<id>>
        /\ \A k \in Ids : k # flip_to => flip_inter'[k] = flip_inter[k]
        /\ flip_inter' \in [Ids -> Seq(Ids)]
        /\ flip_to' = flip_to + 1 /\ UNCHANGED <<flip_mem, flip_reg>>
    BY <1>0, <1>2, <2>1, <2>2, <2>3, SingleFlip DEF FlipPush, FlipShape
  <2>5. /\ flip_to' \in 0 .. 2
        /\ \A k \in Ids : k # flip_to => (k < flip_to + 1 <=> k < flip_to)
        /\ flip_to < flip_to + 1
    BY <2>1, <2>4 DEF Ids
  <2>6. waiting = {}
    BY <2>1 DEF FlipInv, NoFlip
  <2>7. FlipOnItsWay'
    BY <1>0, <2>1, <2>2, <2>4, <2>5 DEF FlipOnItsWay, Copy
  <2>8. QED
    BY <1>0, <2>4, <2>5, <2>6, <2>7 DEF FlipInv, FlipShape
<1>3. QED
  BY <1>1, <1>2 DEF FlipRun

(* The end of an iteration of SplitReqRun (k = 0) or of MergeRspRun.  *)
LEMMA UpdateKeeps ==
    ASSUME FlipInv, NEW k \in Ids, Update(k, Copy(k), Copy(k)'),
           \A c \in Ids : c # k => Copy(c)' = Copy(c),
           UNCHANGED <<flip_mem, flip_reg, flip_to, id, waiting>>
    PROVE  FlipInv'
<1>0. id \in Ids /\ FlipShape
  BY DEF FlipInv, FlipShape
<1>1. PICK ok \in PopNB(flip_inter[k]) :
        /\ flip_inter' = [flip_inter EXCEPT ![k] = After(ok, @)]
        /\ Copy(k)' = Got(ok, flip_inter[k], Copy(k))
  BY DEF Update
<1>2. CASE ok
  <2>1. flip_inter[k] # << >>
    BY <1>1, <1>2 DEF PopNB, HasMsg
  <2>2. /\ flip_inter[k] = <<id>> /\ flip_mem = << >>
        /\ flip_to # 2 => flip_reg = id
        /\ \A c \in Ids : \/ flip_inter[c] = << >> /\ (c < flip_to => Copy(c) = id)
                          \/ flip_inter[c] = <<id>> /\ c < flip_to
    BY <2>1 DEF FlipInv, FlipOnItsWay
  <2>3. /\ flip_inter'[k] = << >> /\ Copy(k)' = id
        /\ \A c \in Ids : c # k => flip_inter'[c] = flip_inter[c]
        /\ flip_inter' \in [Ids -> Seq(Ids)]
    BY <1>0, <1>1, <1>2, <2>2, SingleFlip DEF FlipShape, After, Got
  <2>4. ASSUME NEW c \in Ids
        PROVE  \/ flip_inter'[c] = << >> /\ (c < flip_to' => Copy(c)' = id')
               \/ flip_inter'[c] = <<id'>> /\ c < flip_to'
    <3>1. CASE c = k
      BY <2>3, <3>1
    <3>2. CASE c # k
      <4>1. Copy(c)' = Copy(c)
        BY <3>2
      <4>2. QED
        BY <2>2, <2>3, <3>2, <4>1
    <3>3. QED
      BY <3>1, <3>2
  <2>5. FlipOnItsWay'
    BY <2>2, <2>4 DEF FlipOnItsWay
  <2>6. QED
    BY <1>0, <2>1, <2>3, <2>5 DEF FlipInv, FlipShape, NoFlip
<1>3. CASE ~ok
  <2>1. UNCHANGED flip_inter /\ \A c \in Ids : Copy(c)' = Copy(c)
    BY <1>0, <1>1, <1>3 DEF FlipShape, After, Got
  <2>2. QED
    BY <2>1 DEF FlipInv, FlipShape, FlipOnItsWay, NoFlip
<1>4. QED
  BY <1>1, <1>2, <1>3 DEF PopNB

LEMMA SplitKeeps ==
    ASSUME FlipInv, SplitReqRun, UNCHANGED clientVars
    PROVE  FlipInv'
<1>1. UNCHANGED <<flip_mem, flip_reg, flip_to, merge_id, id, waiting>>
  BY DEF SplitReqRun, SplitPoll, SplitPush, mergeVars, clientVars, hostVars
<1>2. Update(0, split_id, split_id') \/ UNCHANGED <<flip_inter, split_id>>
  BY DEF SplitReqRun, SplitPoll, SplitPush
<1>3. CASE Update(0, split_id, split_id')
  <2>1. /\ 0 \in Ids /\ Copy(0) = split_id /\ Copy(0)' = split_id'
        /\ \A c \in Ids : c # 0 => Copy(c)' = Copy(c)
    BY <1>1 DEF Ids, Copy
  <2>2. QED
    BY <1>1, <1>3, <2>1, UpdateKeeps
<1>4. CASE UNCHANGED <<flip_inter, split_id>>
  BY <1>1, <1>4, SameFlip DEF flipState, flipVars
<1>5. QED
  BY <1>2, <1>3, <1>4

LEMMA MergeKeeps ==
    ASSUME FlipInv, MergeRspRun, UNCHANGED clientVars
    PROVE  FlipInv'
<1>1. UNCHANGED <<flip_mem, flip_reg, flip_to, split_id, id, waiting>>
  BY DEF MergeRspRun, MergePoll, MergePush, splitVars, clientVars, hostVars
<1>2. Update(1, merge_id, merge_id') \/ UNCHANGED <<flip_inter, merge_id>>
  BY DEF MergeRspRun, MergePoll, MergePush
<1>3. CASE Update(1, merge_id, merge_id')
  <2>1. /\ 1 \in Ids /\ Copy(1) = merge_id /\ Copy(1)' = merge_id'
        /\ \A c \in Ids : c # 1 => Copy(c)' = Copy(c)
    BY <1>1 DEF Ids, Copy
  <2>2. QED
    BY <1>1, <1>3, <2>1, UpdateKeeps
<1>4. CASE UNCHANGED <<flip_inter, merge_id>>
  BY <1>1, <1>4, SameFlip DEF flipState, flipVars
<1>5. QED
  BY <1>2, <1>3, <1>4

(* With a host that lets the memory come to rest before its next command. *)
LEMMA HostKeeps ==
    ASSUME FlipInv, ~Prompt, NEW u, NEW m, NEW v \in Ids,
           StartCommand(u, m) \/ FlipCommand(v) \/ Interrupt(u)
    PROVE  FlipInv'
<1>1. Ready /\ waiting = {} => NoFlip
  BY DEF Ready, Quiet, NoFlip
<1>2. CASE StartCommand(u, m)
  <2>1. Ready /\ UNCHANGED flipState
    BY <1>2 DEF StartCommand, flipState, memoryVars, splitVars, mergeVars
  <2>2. QED
    BY <1>1, <2>1, SameFlip
<1>3. CASE FlipCommand(v)
  <2>1. NoFlip
    BY <1>1, <1>3 DEF FlipCommand
  <2>2. /\ flip_mem' = <<v>> /\ id' = v
        /\ UNCHANGED <<flip_to, flip_inter, waiting>> /\ waiting = {}
    BY <1>3, <2>1, SingleFlip DEF FlipCommand, NoFlip
  <2>3. QED
    BY <2>1, <2>2 DEF FlipInv, FlipShape, FlipOnItsWay, NoFlip
<1>4. CASE Interrupt(u)
  <2>1. UNCHANGED flipState /\ (waiting' # {} => waiting # {})
    BY <1>4 DEF Interrupt, flipState, memoryVars, splitVars, mergeVars
  <2>2. QED
    BY <2>1, SameFlip
<1>5. QED
  BY <1>2, <1>3, <1>4

(* No other thread has to do with the sides. *)
LEMMA OthersKeep ==
    ASSUME FlipInv, NEW j \in Port,
           \/ MasterRead \/ MasterWriteReq \/ MasterWrite
           \/ ReadReqRun \/ ReadRspRun \/ WriteReqRun
           \/ ArrayOut(j) \/ UNCHANGED vars
    PROVE  FlipInv'
<1>1. UNCHANGED <<flipState, waiting>>
  <2> USE DEF flipState, memoryVars, flipVars, splitVars, mergeVars, hostVars
  <2>1. CASE MasterRead
    BY <2>1 DEF MasterRead, MasterReadTrig, MasterReadAddr, MasterReadData
  <2>2. CASE MasterWriteReq
    BY <2>2 DEF MasterWriteReq, MasterWriteReqTrig, MasterWriteReqPush
  <2>3. CASE MasterWrite
    BY <2>3 DEF MasterWrite, MasterWriteTrig, MasterWriteAddr, MasterWriteData
  <2>4. CASE ReadReqRun
    BY <2>4 DEF ReadReqRun, ReadReqStart, ReadReqBeat
  <2>5. CASE ReadRspRun
    BY <2>5 DEF ReadRspRun
  <2>6. CASE WriteReqRun
    BY <2>6 DEF WriteReqRun, WriteReqStart, WriteReqPoll, WriteReqPush, WriteReqIRQ
  <2>7. CASE ArrayOut(j)
    BY <2>7 DEF ArrayOut
  <2>8. CASE UNCHANGED vars
    BY <2>8 DEF vars, clientVars
  <2>9. QED
    BY <2>1, <2>2, <2>3, <2>4, <2>5, <2>6, <2>7, <2>8
<1>2. QED
  BY <1>1, SameFlip

LEMMA CoreKeeps ==
    ASSUME FlipInv, NEW b \in Ids, MemoryRun(b), UNCHANGED clientVars
    PROVE  FlipInv'
<1>1. UNCHANGED <<flipState, waiting>>
  BY DEF MemoryRun, CorePop, CorePush, splitVars, mergeVars, flipState, clientVars, hostVars
<1>2. QED
  BY <1>1, SameFlip

LEMMA InitFlip == Init => FlipInv
BY DEF Init, MemoryInit, FlipInv, FlipShape, FlipOnItsWay, Copy, Ids

LEMMA NextFlip ==
    ASSUME FlipInv, ~Prompt, [Next]_vars
    PROVE  FlipInv'
<1>0. 0 \in Port /\ 0 \in Ids
  BY NAssumption DEF Port, Ids
<1>1. CASE MemoryStep
  BY <1>1, FlipRunKeeps, SplitKeeps, MergeKeeps, CoreKeeps DEF MemoryStep, MemoryNext
<1>2. CASE MasterRead \/ MasterWriteReq \/ MasterWrite \/ ReadReqRun \/ ReadRspRun \/ WriteReqRun
  BY <1>0, <1>2, OthersKeep
<1>3. CASE \E j \in Port : ArrayOut(j)
  BY <1>3, OthersKeep
<1>4. CASE \E u \in Units : (\E m \in Lengths : StartCommand(u, m)) \/ Interrupt(u)
  BY <1>0, <1>4, HostKeeps
<1>5. CASE \E v \in Ids : FlipCommand(v)
  BY <1>5, HostKeeps
<1>6. CASE Stop \/ UNCHANGED vars
  BY <1>0, <1>6, OthersKeep DEF Stop
<1>7. QED
  BY <1>1, <1>2, <1>3, <1>4, <1>5, <1>6 DEF Next

(* With a host that lets the memory come to rest before its next command,  *)
(* the sides do not move under a unit that works.                          *)
THEOREM SidesStayFixed == Spec => [](~Prompt => SidesFixed)
<1>1. FlipInv => SidesFixed
  <2> SUFFICES ASSUME FlipInv, waiting # {}
               PROVE  NoFlip /\ split_id = id /\ merge_id = id
    BY DEF SidesFixed, NoFlip
  <2>1. NoFlip
    BY DEF FlipInv
  <2>2. \A k \in Ids : k < 2 => Copy(k) = id
    BY <2>1, SingleFlip DEF FlipInv, FlipShape, FlipOnItsWay, NoFlip
  <2>3. Copy(0) = id /\ Copy(1) = id
    BY <2>2 DEF Ids
  <2>4. QED
    BY <2>1, <2>3 DEF Copy
<1>2. Init => (~Prompt => FlipInv)
  BY InitFlip
<1>3. (~Prompt => FlipInv) /\ [Next]_vars => (~Prompt => FlipInv)'
  BY NextFlip
<1>4. QED
  BY <1>1, <1>2, <1>3, PTL DEF Spec

-----------------------------------------------------------------------------
(* Queues *)

(* A queue: a sequence of anything. *)
IsQueue(q) == \E S : q \in Seq(S)

(* The empty queue, and the queue of one element. *)
LEMMA QueueOf ==
    /\ IsQueue(<< >>) /\ Len(<< >>) = 0
    /\ \A e : IsQueue(<<e>>) /\ Len(<<e>>) = 1 /\ <<e>>[1] = e /\ Head(<<e>>) = e /\ Tail(<<e>>) = << >> /\ <<e>> # << >>
<1>1. << >> \in Seq({})
  OBVIOUS
<1>2. ASSUME NEW e PROVE <<e>> \in Seq({e})
  OBVIOUS
<1>3. IsQueue(<< >>) /\ \A e : IsQueue(<<e>>)
  BY <1>1, <1>2 DEF IsQueue
<1>4. /\ Len(<< >>) = 0
      /\ \A e : Len(<<e>>) = 1 /\ <<e>>[1] = e /\ Head(<<e>>) = e /\ Tail(<<e>>) = << >> /\ <<e>> # << >>
  OBVIOUS
<1>5. QED
  BY <1>3, <1>4

(* The length of a queue, and the empty queue next to it. *)
LEMMA QueueIs ==
    ASSUME NEW q, IsQueue(q)
    PROVE  /\ Len(q) \in Nat /\ (Len(q) = 0 <=> q = << >>)
           /\ q \o << >> = q /\ << >> \o q = q
<1>1. PICK S : q \in Seq(S)
  BY DEF IsQueue
<1>2. QED
  BY <1>1

(* One queue after the other. *)
LEMMA QueueCat ==
    ASSUME NEW q, IsQueue(q), NEW r, IsQueue(r)
    PROVE  /\ IsQueue(q \o r) /\ Len(q \o r) = Len(q) + Len(r)
           /\ (q \o r = << >> <=> q = << >> /\ r = << >>)
           /\ \A k \in 1 .. Len(q) : (q \o r)[k] = q[k]
           /\ \A k \in 1 .. Len(r) : (q \o r)[Len(q) + k] = r[k]
<1>1. PICK S : q \in Seq(S)
  BY DEF IsQueue
<1>2. PICK T : r \in Seq(T)
  BY DEF IsQueue
<1>3. q \in Seq(S \cup T) /\ r \in Seq(S \cup T)
  BY <1>1, <1>2
<1>4. q \o r \in Seq(S \cup T) /\ Len(q \o r) = Len(q) + Len(r)
  BY <1>3
<1>5. \A k \in 1 .. Len(q) : (q \o r)[k] = q[k]
  BY <1>3
<1>6. \A k \in 1 .. Len(r) : (q \o r)[Len(q) + k] = r[k]
  BY <1>3
<1>7. q \o r = << >> <=> q = << >> /\ r = << >>
  BY <1>3, <1>4
<1>8. QED
  BY <1>4, <1>5, <1>6, <1>7 DEF IsQueue

(* Three queues one after the other. *)
LEMMA QueueAssoc ==
    ASSUME NEW q, IsQueue(q), NEW r, IsQueue(r), NEW t, IsQueue(t)
    PROVE  (q \o r) \o t = q \o (r \o t)
<1>1. PICK S : q \in Seq(S)
  BY DEF IsQueue
<1>2. PICK T : r \in Seq(T)
  BY DEF IsQueue
<1>3. PICK U : t \in Seq(U)
  BY DEF IsQueue
<1> DEFINE A == S \cup T \cup U
<1>4. q \in Seq(A) /\ r \in Seq(A) /\ t \in Seq(A)
  BY <1>1, <1>2, <1>3
<1> HIDE DEF A
<1>5. QED
  BY <1>4, ConcatAssociative

(* One more element at the end of a queue. *)
LEMMA QueueAppend ==
    ASSUME NEW q, IsQueue(q), NEW e
    PROVE  /\ Append(q, e) = q \o <<e>> /\ IsQueue(q \o <<e>>)
           /\ Len(q \o <<e>>) = Len(q) + 1 /\ q \o <<e>> # << >>
           /\ \A k \in 1 .. Len(q) : (q \o <<e>>)[k] = q[k]
           /\ (q \o <<e>>)[Len(q) + 1] = e
<1>1. PICK S : q \in Seq(S)
  BY DEF IsQueue
<1>2. q \in Seq(S \cup {e})
  BY <1>1
<1>3. Append(q, e) = q \o <<e>>
  BY <1>2
<1>4. QED
  BY <1>2, <1>3, QueueOf, QueueCat

(* A queue without its head. *)
LEMMA QueueTail ==
    ASSUME NEW q, IsQueue(q), q # << >>
    PROVE  /\ Len(q) >= 1 /\ Head(q) = q[1] /\ IsQueue(Tail(q)) /\ Len(Tail(q)) = Len(q) - 1
           /\ q = <<Head(q)>> \o Tail(q)
           /\ \A k \in 1 .. Len(q) - 1 : Tail(q)[k] = q[k+1]
<1>1. PICK S : q \in Seq(S)
  BY DEF IsQueue
<1>2. Len(q) >= 1 /\ Head(q) = q[1] /\ Tail(q) \in Seq(S) /\ Len(Tail(q)) = Len(q) - 1
  BY <1>1
<1>3. \A k \in 1 .. Len(q) - 1 : Tail(q)[k] = q[k+1]
  BY <1>1
<1>4. q = <<Head(q)>> \o Tail(q)
  BY <1>1
<1>5. QED
  BY <1>2, <1>3, <1>4 DEF IsQueue

(* The first of two queues one after the other. *)
LEMMA QueueFront ==
    ASSUME NEW q, IsQueue(q), NEW r, IsQueue(r), q # << >>
    PROVE  Tail(q \o r) = Tail(q) \o r /\ Head(q \o r) = Head(q) /\ q \o r # << >>
<1>1. PICK S : q \in Seq(S)
  BY DEF IsQueue
<1>2. PICK T : r \in Seq(T)
  BY DEF IsQueue
<1>3. q \in Seq(S \cup T) /\ r \in Seq(S \cup T)
  BY <1>1, <1>2
<1>4. QED
  BY <1>3

-----------------------------------------------------------------------------
(* The two sides of the memory *)

(* Side 0 is the input side, 1 the output side. *)
Sides == {0, 1}
Core(s) == IF s = 0 THEN id ELSE 1 - id
Req(s) == req_inter[Core(s)] \o (split_reg[Core(s)] \o (mem_req[2*s] \o mem_req[2*s + 1]))
Rsp(s) == mem_rsp[s] \o (merge_reg[s] \o (rsp_inter[Core(s)] \o core_rsp[Core(s)]))
Banks(s) == mem[Core(s)]

Channel(q) == IsQueue(q) /\ Len(q) <= Cap
Slot(q) == q = << >> \/ \E e : q = <<e>>

MemShape ==
    /\ mem_req = [p \in 0 .. 3 |-> mem_req[p]] /\ \A p \in 0 .. 3 : Channel(mem_req[p])
    /\ mem_rsp = [s \in Ids |-> mem_rsp[s]] /\ \A s \in Ids : Channel(mem_rsp[s])
    /\ req_inter = [b \in Ids |-> req_inter[b]] /\ \A b \in Ids : Channel(req_inter[b])
    /\ rsp_inter = [b \in Ids |-> rsp_inter[b]] /\ \A b \in Ids : Channel(rsp_inter[b])
    /\ split_reg = [b \in Ids |-> split_reg[b]] /\ \A b \in Ids : Slot(split_reg[b])
    /\ merge_reg = [s \in Ids |-> merge_reg[s]] /\ \A s \in Ids : Slot(merge_reg[s])
    /\ core_rsp = [b \in Ids |-> core_rsp[b]] /\ \A b \in Ids : Slot(core_rsp[b])
    /\ mem = [b \in Ids |-> mem[b]] /\ \A b \in Ids : mem[b] = [a \in Addr |-> mem[b][a]]
    /\ id \in Ids

(* At most one of the two ports of a side is in use. *)
Exclusive == \A s \in Ids : mem_req[2*s] = << >> \/ mem_req[2*s + 1] = << >>

(* A flip is on its way only when nothing else is. *)
AtRest == waiting = {} /\ \A s \in Ids : Req(s) = << >> /\ Rsp(s) = << >>
FlipAlone == (NoFlip /\ split_id = id /\ merge_id = id) \/ AtRest

memoryView == <<Req(0), Req(1), Rsp(0), Rsp(1), Banks(0), Banks(1)>>

(* What a core does with the next request of side s. *)
CoreTakes(s) ==
    /\ Req(s) # << >> /\ Req(s)' = Tail(Req(s))
    /\ IF Head(Req(s)).type = "load"
       THEN Rsp(s)' = Rsp(s) \o <<Loaded(Banks(s), Head(Req(s)))>> /\ UNCHANGED Banks(s)
       ELSE UNCHANGED Rsp(s) /\ Banks(s)' = Stored(Banks(s), Head(Req(s)))
    /\ UNCHANGED <<Req(1-s), Rsp(1-s), Banks(1-s)>>

(* A register holds one message or none. *)
LEMMA SlotIs ==
    ASSUME NEW q, Slot(q)
    PROVE  /\ IsQueue(q) /\ Len(q) <= 1
           /\ q # << >> => q = <<Head(q)>> /\ Tail(q) = << >>
<1>1. CASE q = << >>
  BY <1>1, QueueOf
<1>2. CASE q # << >>
  <2>1. PICK e : q = <<e>>
    BY <1>2 DEF Slot
  <2>2. IsQueue(<<e>>) /\ Len(<<e>>) = 1 /\ Head(<<e>>) = e /\ Tail(<<e>>) = << >>
    BY QueueOf
  <2>3. QED
    BY <2>1, <2>2
<1>3. QED
  BY <1>1, <1>2

(* A channel after a push or a pop. *)
LEMMA ChannelMoves ==
    ASSUME NEW q, Channel(q)
    PROVE  /\ IsQueue(q) /\ Len(q) \in Nat
           /\ \A e : HasRoom(q) => Channel(Append(q, e)) /\ Append(q, e) = q \o <<e>>
           /\ q # << >> => Channel(Tail(q))
<1>1. IsQueue(q) /\ Len(q) \in Nat /\ Len(q) <= Cap
  BY QueueIs DEF Channel
<1>2. ASSUME NEW e, HasRoom(q) PROVE Channel(Append(q, e)) /\ Append(q, e) = q \o <<e>>
  <2>1. Append(q, e) = q \o <<e>> /\ IsQueue(q \o <<e>>) /\ Len(q \o <<e>>) = Len(q) + 1
    BY <1>1, QueueAppend
  <2>2. Len(q) < Cap /\ Cap \in Nat
    BY <1>2, CapAssumption DEF HasRoom
  <2>3. QED
    BY <1>1, <2>1, <2>2 DEF Channel
<1>3. q # << >> => Channel(Tail(q))
  <2>1. q # << >> => IsQueue(Tail(q)) /\ Len(Tail(q)) = Len(q) - 1
    BY <1>1, QueueTail
  <2>2. QED
    BY <1>1, <2>1, CapAssumption DEF Channel
<1>4. QED
  BY <1>1, <1>2, <1>3

(* The two sides are the two cores, whatever the last flip was. *)
LEMMA Cores ==
    ASSUME id \in Ids
    PROVE  /\ \A s \in Ids : Core(s) \in Ids /\ 1-s \in Ids /\ Core(1-s) # Core(s) /\ 1-(1-s) = s
           /\ \A b \in Ids : \E s \in Ids : b = Core(s)
           /\ \A s \in Ids, c \in Ids : Core(s) = Core(c) => s = c
           /\ \A s \in Ids : 2*s \in 0 .. 3 /\ 2*s+1 \in 0 .. 3
           /\ \A s \in Ids : \A b \in Ids : b = Core(s) <=> PortOf(b, id) = s
           /\ \A s \in Ids : \A r \in 0 .. 3 : CoreOf(r, id) = Core(s) <=> r \in {2*s, 2*s+1}
BY DEF Ids, Core, PortOf, CoreOf

(* The queues of a side are queues. *)
LEMMA Parts ==
    ASSUME MemShape, NEW s \in Ids
    PROVE  /\ IsQueue(req_inter[Core(s)]) /\ IsQueue(split_reg[Core(s)])
           /\ IsQueue(mem_req[2*s]) /\ IsQueue(mem_req[2*s+1]) /\ IsQueue(mem_req[2*s] \o mem_req[2*s+1])
           /\ IsQueue(split_reg[Core(s)] \o (mem_req[2*s] \o mem_req[2*s+1]))
           /\ IsQueue(mem_rsp[s]) /\ IsQueue(merge_reg[s])
           /\ IsQueue(rsp_inter[Core(s)]) /\ IsQueue(core_rsp[Core(s)])
           /\ IsQueue(rsp_inter[Core(s)] \o core_rsp[Core(s)])
           /\ IsQueue(merge_reg[s] \o (rsp_inter[Core(s)] \o core_rsp[Core(s)]))
           /\ IsQueue(Req(s)) /\ IsQueue(Rsp(s))
<1>1. Core(s) \in Ids /\ 2*s \in 0 .. 3 /\ 2*s+1 \in 0 .. 3
  BY Cores DEF MemShape
<1>2. /\ IsQueue(req_inter[Core(s)]) /\ IsQueue(split_reg[Core(s)])
      /\ IsQueue(mem_req[2*s]) /\ IsQueue(mem_req[2*s+1])
      /\ IsQueue(mem_rsp[s]) /\ IsQueue(merge_reg[s])
      /\ IsQueue(rsp_inter[Core(s)]) /\ IsQueue(core_rsp[Core(s)])
  BY <1>1, SlotIs DEF MemShape, Channel
<1>3. IsQueue(mem_req[2*s] \o mem_req[2*s+1]) /\ IsQueue(rsp_inter[Core(s)] \o core_rsp[Core(s)])
  BY <1>2, QueueCat
<1>4. /\ IsQueue(split_reg[Core(s)] \o (mem_req[2*s] \o mem_req[2*s+1]))
      /\ IsQueue(merge_reg[s] \o (rsp_inter[Core(s)] \o core_rsp[Core(s)]))
  BY <1>2, <1>3, QueueCat
<1>5. IsQueue(Req(s)) /\ IsQueue(Rsp(s))
  BY <1>2, <1>4, QueueCat DEF Req, Rsp
<1>6. QED
  BY <1>2, <1>3, <1>4, <1>5

(* A side is empty when all its queues are. *)
LEMMA EmptySide ==
    ASSUME MemShape, NEW s \in Ids
    PROVE  /\ Req(s) = << >> <=> /\ req_inter[Core(s)] = << >> /\ split_reg[Core(s)] = << >>
                                /\ mem_req[2*s] = << >> /\ mem_req[2*s+1] = << >>
           /\ Rsp(s) = << >> <=> /\ mem_rsp[s] = << >> /\ merge_reg[s] = << >>
                                /\ rsp_inter[Core(s)] = << >> /\ core_rsp[Core(s)] = << >>
BY Parts, QueueCat DEF Req, Rsp

-----------------------------------------------------------------------------
(* Steps of the memory: SplitReqRun *)

(* No flip is on its way, and everybody is where the host has put them. *)
Settled == NoFlip /\ split_id = id /\ merge_id = id

(* Without a flip on its way a copy of mem_id stays what it is. *)
LEMMA UpdateSettled ==
    ASSUME NEW k \in Ids, NoFlip, FlipShape, NEW a, NEW b, Update(k, a, b)
    PROVE  b = a /\ UNCHANGED flip_inter
<1>1. flip_inter[k] = << >>
  BY DEF NoFlip
<1>2. PICK ok \in PopNB(flip_inter[k]) :
        /\ flip_inter' = [flip_inter EXCEPT ![k] = After(ok, @)]
        /\ b = Got(ok, flip_inter[k], a)
  BY DEF Update
<1>3. ~ok
  BY <1>1, <1>2 DEF PopNB, HasMsg
<1>4. QED
  BY <1>2, <1>3 DEF After, Got, FlipShape

(* The request SplitReqRun takes of side s, if it takes one. *)
LEMMA ChainIs ==
    ASSUME NEW q \in 0 .. 3, NEW r \in 0 .. 3, NEW p \in Chain(q, r)
    PROVE  p = -1 \/ (p \in {q, r} /\ mem_req[p] # << >>)
BY DEF Chain, PopNB, HasMsg

(* What a poll of SplitReqRun takes goes into the register of the core of   *)
(* its side.                                                                *)
LEMMA SplitPollTaken ==
    ASSUME SplitPoll, Settled, id \in Ids, NEW s \in Ids
    PROVE  /\ split_reg[Core(s)] = << >>
           /\ \/ /\ split_reg'[Core(s)] = << >>
                 /\ mem_req'[2*s] = mem_req[2*s] /\ mem_req'[2*s+1] = mem_req[2*s+1]
              \/ \E c \in {2*s, 2*s+1} :
                   /\ mem_req[c] # << >> /\ split_reg'[Core(s)] = <<Head(mem_req[c])>>
                   /\ mem_req'[c] = Tail(mem_req[c])
                   /\ \A d \in {2*s, 2*s+1} : d # c => mem_req'[d] = mem_req[d]
<1>1. PICK p \in Chain(0, 1), q \in Chain(2, 3) :
        /\ mem_req' = [r \in 0 .. 3 |-> After(r \in {p, q} \ {-1}, mem_req[r])]
        /\ split_reg' = [b \in Ids |->
             IF \E r \in {p, q} \ {-1} : CoreOf(r, split_id) = b
             THEN <<Head(mem_req[CHOOSE r \in {p, q} \ {-1} : CoreOf(r, split_id) = b])>>
             ELSE << >>]
  BY DEF SplitPoll
<1>2. split_reg = [b \in Ids |-> << >>] /\ split_id = id
  BY DEF SplitPoll, Settled
<1>3. /\ p = -1 \/ (p \in {0, 1} /\ mem_req[p] # << >>)
      /\ q = -1 \/ (q \in {2, 3} /\ mem_req[q] # << >>)
  BY ChainIs
<1> DEFINE taken == {p, q} \ {-1}
           c == IF s = 0 THEN p ELSE q
<1>4. /\ c = -1 \/ (c \in taken /\ c \in {2*s, 2*s+1} /\ mem_req[c] # << >>)
      /\ \A r \in taken : r \in {2*s, 2*s+1} <=> r = c
      /\ taken \subseteq 0 .. 3 /\ 2*s \in 0 .. 3 /\ 2*s+1 \in 0 .. 3
      /\ -1 \notin {2*s, 2*s+1}
  BY <1>3 DEF Ids
<1>5. Core(s) \in Ids /\ \A r \in taken : CoreOf(r, id) = Core(s) <=> r = c
  BY <1>4, Cores
<1>6. /\ split_reg'[Core(s)] = IF \E r \in taken : CoreOf(r, id) = Core(s)
                               THEN <<Head(mem_req[CHOOSE r \in taken : CoreOf(r, id) = Core(s)])>>
                               ELSE << >>
      /\ \A d \in {2*s, 2*s+1} : mem_req'[d] = After(d \in taken, mem_req[d])
      /\ split_reg[Core(s)] = << >>
  BY <1>1, <1>2, <1>4, <1>5
<1> HIDE DEF taken, c
<1>7. CASE c = -1
  <2>1. \A r \in taken : r \notin {2*s, 2*s+1}
    BY <1>4, <1>7
  <2>2. ~ \E r \in taken : CoreOf(r, id) = Core(s)
    BY <1>4, <1>5, <1>7, <2>1
  <2>3. QED
    BY <1>6, <2>1, <2>2 DEF After
<1>8. CASE c # -1
  <2>1. c \in taken /\ c \in {2*s, 2*s+1} /\ mem_req[c] # << >>
    BY <1>4, <1>8
  <2>2. (CHOOSE r \in taken : CoreOf(r, id) = Core(s)) = c
    BY <1>5, <2>1
  <2>3. \A d \in {2*s, 2*s+1} : d # c => d \notin taken
    BY <1>4
  <2>4. QED
    BY <1>5, <1>6, <2>1, <2>2, <2>3 DEF After
<1>9. QED
  BY <1>7, <1>8

(* It goes to the core of its side. *)
LEMMA SplitPollKeeps ==
    ASSUME SplitPoll, Settled, FlipShape, MemShape, Exclusive, UNCHANGED clientVars
    PROVE  MemShape' /\ Exclusive' /\ UNCHANGED memoryView
<1>0. /\ UNCHANGED <<req_inter, mem_rsp, merge_reg, rsp_inter, core_rsp, mem, id>>
      /\ id \in Ids
      /\ mem_req' = [p \in 0 .. 3 |-> mem_req'[p]] /\ split_reg' = [b \in Ids |-> split_reg'[b]]
  BY DEF SplitPoll, mergeVars, coreVars, clientVars, hostVars, MemShape
<1>1. ASSUME NEW s \in Ids
      PROVE  /\ Core(s)' = Core(s) /\ Core(s) \in Ids /\ 2*s \in 0 .. 3 /\ 2*s+1 \in 0 .. 3
             /\ Channel(mem_req[2*s]) /\ Channel(mem_req[2*s+1])
  BY <1>0, Cores DEF Core, MemShape
<1>2. ASSUME NEW s \in Ids
      PROVE  /\ Slot(split_reg'[Core(s)])
             /\ Channel(mem_req'[2*s]) /\ Channel(mem_req'[2*s+1])
             /\ mem_req'[2*s] = << >> \/ mem_req'[2*s+1] = << >>
             /\ Req(s)' = Req(s)
  <2> DEFINE A == mem_req[2*s]
             B == mem_req[2*s+1]
             R == req_inter[Core(s)]
  <2>1. split_reg[Core(s)] = << >>
    BY <1>0, SplitPollTaken
  <2>2. /\ Channel(A) /\ Channel(B) /\ IsQueue(A) /\ IsQueue(B) /\ IsQueue(R)
        /\ A = << >> \/ B = << >>
        /\ Req(s) = R \o (<< >> \o (A \o B))
        /\ Req(s)' = R \o (split_reg'[Core(s)] \o (mem_req'[2*s] \o mem_req'[2*s+1]))
    BY <1>0, <1>1, <2>1, Parts DEF Exclusive, Req
  <2>3. IsQueue(<< >>) /\ A \o << >> = A /\ << >> \o B = B /\ << >> \o (A \o B) = A \o B
    BY <2>2, QueueOf, QueueIs, QueueCat
  <2>4. CASE /\ split_reg'[Core(s)] = << >>
             /\ mem_req'[2*s] = mem_req[2*s] /\ mem_req'[2*s+1] = mem_req[2*s+1]
    <3> HIDE DEF R
    <3>1. Slot(split_reg'[Core(s)])
      BY <2>4 DEF Slot
    <3>2. QED
      BY <2>2, <2>4, <3>1
  <2>5. ASSUME NEW c \in {2*s, 2*s+1},
               mem_req[c] # << >>, split_reg'[Core(s)] = <<Head(mem_req[c])>>,
               mem_req'[c] = Tail(mem_req[c]),
               \A d \in {2*s, 2*s+1} : d # c => mem_req'[d] = mem_req[d]
        PROVE  /\ Slot(split_reg'[Core(s)])
               /\ Channel(mem_req'[2*s]) /\ Channel(mem_req'[2*s+1])
               /\ mem_req'[2*s] = << >> \/ mem_req'[2*s+1] = << >>
               /\ Req(s)' = Req(s)
    <3>1. Slot(split_reg'[Core(s)])
      BY <2>5 DEF Slot
    <3>2. 2*s # 2*s+1
      BY <1>1 DEF Ids
    <3>3. CASE c = 2*s
      <4>1. /\ mem_req'[2*s] = Tail(A) /\ mem_req'[2*s+1] = B /\ A # << >> /\ B = << >>
            /\ split_reg'[Core(s)] = <<Head(A)>>
        BY <2>2, <2>5, <3>2, <3>3
      <4> HIDE DEF A, B, R
      <4>2. Channel(Tail(A)) /\ IsQueue(Tail(A)) /\ A = <<Head(A)>> \o Tail(A)
        BY <2>2, <4>1, ChannelMoves, QueueTail
      <4>3. Tail(A) \o << >> = Tail(A)
        BY <4>2, QueueIs
      <4>4. QED
        BY <2>2, <2>3, <3>1, <4>1, <4>2, <4>3
    <3>4. CASE c = 2*s+1
      <4>1. /\ mem_req'[2*s] = A /\ mem_req'[2*s+1] = Tail(B) /\ B # << >> /\ A = << >>
            /\ split_reg'[Core(s)] = <<Head(B)>>
        BY <2>2, <2>5, <3>2, <3>4
      <4> HIDE DEF A, B, R
      <4>2. Channel(Tail(B)) /\ IsQueue(Tail(B)) /\ B = <<Head(B)>> \o Tail(B)
        BY <2>2, <4>1, ChannelMoves, QueueTail
      <4>3. << >> \o Tail(B) = Tail(B)
        BY <4>2, QueueIs
      <4>4. QED
        BY <2>2, <2>3, <3>1, <4>1, <4>2, <4>3
    <3>5. QED
      BY <3>3, <3>4
  <2>6. QED
    BY <1>0, <2>4, <2>5, SplitPollTaken
<1>3. \A b \in Ids : Slot(split_reg'[b])
  BY <1>0, <1>2, Cores
<1>4. \A p \in 0 .. 3 : \E s \in Ids : p \in {2*s, 2*s+1}
  BY DEF Ids
<1>5. \A p \in 0 .. 3 : Channel(mem_req'[p])
  BY <1>2, <1>4
<1>6. \A s \in Ids : Rsp(s)' = Rsp(s) /\ Banks(s)' = Banks(s)
  BY <1>0, <1>1 DEF Rsp, Banks
<1>7. MemShape'
  BY <1>0, <1>3, <1>5 DEF MemShape, Channel, Slot
<1>8. Exclusive'
  BY <1>2 DEF Exclusive
<1>9. UNCHANGED memoryView
  BY <1>2, <1>6 DEF memoryView, Ids
<1>10. QED
  BY <1>7, <1>8, <1>9

-----------------------------------------------------------------------------
(* Steps of the memory: the cores' answers and MergeRspRun *)

(* A message handed from one queue to the next stays where it is. *)
LEMMA Handed ==
    ASSUME NEW a, IsQueue(a), NEW g, Slot(g), g # << >>, NEW t, IsQueue(t)
    PROVE  Append(a, Head(g)) \o (<< >> \o t) = a \o (g \o t)
<1>1. g = <<Head(g)>> /\ IsQueue(g)
  BY SlotIs
<1>2. Append(a, Head(g)) = a \o g
  BY <1>1, QueueAppend
<1>3. << >> \o t = t
  BY QueueIs
<1>4. IsQueue(g)
  BY <1>1
<1>6. (a \o g) \o t = a \o (g \o t)
  BY <1>4, QueueAssoc
<1>5. QED
  BY <1>2, <1>3, <1>6, Zenon

(* SplitReqRun hands a request on. *)
LEMMA SplitPushKeeps ==
    ASSUME NEW b \in Ids, SplitPush(b), Settled, FlipShape, MemShape, Exclusive, UNCHANGED clientVars
    PROVE  MemShape' /\ Exclusive' /\ UNCHANGED memoryView
<1>0. /\ UNCHANGED <<mem_req, mem_rsp, merge_reg, rsp_inter, core_rsp, mem, id>>
      /\ id \in Ids
      /\ split_reg[b] # << >> /\ HasRoom(req_inter[b])
      /\ req_inter' = [req_inter EXCEPT ![b] = Append(@, Head(split_reg[b]))]
      /\ split_reg' = [split_reg EXCEPT ![b] = << >>]
  BY DEF SplitPush, HasMsg, mergeVars, coreVars, clientVars, hostVars, MemShape
<1>1. ASSUME NEW s \in Ids
      PROVE  Core(s)' = Core(s) /\ Core(s) \in Ids /\ Rsp(s)' = Rsp(s) /\ Banks(s)' = Banks(s)
  BY <1>0, Cores DEF Core, Rsp, Banks
<1>2. ASSUME NEW c \in Ids
      PROVE  /\ Channel(req_inter'[c]) /\ Slot(split_reg'[c])
             /\ c # b => req_inter'[c] = req_inter[c] /\ split_reg'[c] = split_reg[c]
             /\ req_inter'[b] = Append(req_inter[b], Head(split_reg[b])) /\ split_reg'[b] = << >>
  <2>1. Channel(req_inter[c]) /\ Slot(split_reg[c]) /\ Channel(req_inter[b])
    BY DEF MemShape
  <2>2. Channel(Append(req_inter[b], Head(split_reg[b]))) /\ Slot(<< >>)
    BY <1>0, <2>1, ChannelMoves DEF Slot
  <2>3. /\ c # b => req_inter'[c] = req_inter[c] /\ split_reg'[c] = split_reg[c]
        /\ req_inter'[b] = Append(req_inter[b], Head(split_reg[b])) /\ split_reg'[b] = << >>
    BY <1>0 DEF MemShape
  <2>4. QED
    BY <2>1, <2>2, <2>3
<1>3. ASSUME NEW s \in Ids PROVE Req(s)' = Req(s)
  <2> DEFINE T == mem_req[2*s] \o mem_req[2*s+1]
  <2>1. Req(s) = req_inter[Core(s)] \o (split_reg[Core(s)] \o T)
    BY DEF Req
  <2>2. Req(s)' = req_inter'[Core(s)] \o (split_reg'[Core(s)] \o T)
    BY <1>0, <1>1 DEF Req
  <2>3. CASE Core(s) = b
    <3>1. IsQueue(T) /\ IsQueue(req_inter[b]) /\ Slot(split_reg[b]) /\ split_reg[b] # << >>
      BY <1>0, <1>1, <2>3, Parts DEF MemShape
    <3> DEFINE A == req_inter[b]
               G == split_reg[b]
    <3>2. /\ IsQueue(T) /\ IsQueue(A) /\ Slot(G) /\ G # << >>
          /\ Req(s) = A \o (G \o T) /\ Req(s)' = Append(A, Head(G)) \o (<< >> \o T)
      BY <1>2, <2>1, <2>2, <2>3, <3>1
    <3> HIDE DEF T, A, G
    <3>3. QED
      BY <3>2, Handed
  <2>4. CASE Core(s) # b
    BY <1>1, <1>2, <2>1, <2>2, <2>4
  <2>5. QED
    BY <2>3, <2>4
<1>4. req_inter' = [c \in Ids |-> req_inter'[c]] /\ split_reg' = [c \in Ids |-> split_reg'[c]]
  BY <1>0 DEF MemShape
<1>50. UNCHANGED <<mem_req, mem_rsp, merge_reg, rsp_inter, core_rsp, mem, id>>
  BY <1>0
<1>5. MemShape'
  BY <1>50, <1>2, <1>4, SMTT(60) DEF MemShape, Channel, Slot
<1>6. QED
  BY <1>0, <1>1, <1>3, <1>5 DEF Exclusive, memoryView, Ids

(* A core hands a response on. *)
LEMMA CorePushKeeps ==
    ASSUME NEW b \in Ids, CorePush(b), MemShape, Exclusive, UNCHANGED clientVars
    PROVE  MemShape' /\ Exclusive' /\ UNCHANGED memoryView
<1>0. /\ UNCHANGED <<mem_req, mem_rsp, merge_reg, req_inter, split_reg, mem, id>>
      /\ id \in Ids
      /\ core_rsp[b] # << >> /\ HasRoom(rsp_inter[b])
      /\ rsp_inter' = [rsp_inter EXCEPT ![b] = Append(@, Head(core_rsp[b]))]
      /\ core_rsp' = [core_rsp EXCEPT ![b] = << >>]
  BY DEF CorePush, HasMsg, splitVars, clientVars, hostVars, MemShape
<1>1. ASSUME NEW s \in Ids
      PROVE  Core(s)' = Core(s) /\ Core(s) \in Ids /\ Req(s)' = Req(s) /\ Banks(s)' = Banks(s)
  BY <1>0, Cores DEF Core, Req, Banks
<1>2. ASSUME NEW c \in Ids
      PROVE  /\ Channel(rsp_inter'[c]) /\ Slot(core_rsp'[c])
             /\ c # b => rsp_inter'[c] = rsp_inter[c] /\ core_rsp'[c] = core_rsp[c]
             /\ rsp_inter'[b] = Append(rsp_inter[b], Head(core_rsp[b])) /\ core_rsp'[b] = << >>
  <2>1. Channel(rsp_inter[c]) /\ Slot(core_rsp[c]) /\ Channel(rsp_inter[b])
    BY DEF MemShape
  <2>2. Channel(Append(rsp_inter[b], Head(core_rsp[b]))) /\ Slot(<< >>)
    BY <1>0, <2>1, ChannelMoves DEF Slot
  <2>3. /\ c # b => rsp_inter'[c] = rsp_inter[c] /\ core_rsp'[c] = core_rsp[c]
        /\ rsp_inter'[b] = Append(rsp_inter[b], Head(core_rsp[b])) /\ core_rsp'[b] = << >>
    BY <1>0 DEF MemShape
  <2>4. QED
    BY <2>1, <2>2, <2>3
<1>3. ASSUME NEW s \in Ids PROVE Rsp(s)' = Rsp(s)
  <2>1. Rsp(s) = mem_rsp[s] \o (merge_reg[s] \o (rsp_inter[Core(s)] \o core_rsp[Core(s)]))
    BY DEF Rsp
  <2>2. Rsp(s)' = mem_rsp[s] \o (merge_reg[s] \o (rsp_inter'[Core(s)] \o core_rsp'[Core(s)]))
    BY <1>0, <1>1 DEF Rsp
  <2>3. CASE Core(s) = b
    <3>1. IsQueue(rsp_inter[b]) /\ Slot(core_rsp[b]) /\ core_rsp[b] # << >> /\ IsQueue(<< >>)
      BY <1>0, <1>1, <2>3, Parts, QueueOf DEF MemShape
    <3> DEFINE A == rsp_inter[b]
               G == core_rsp[b]
               Q == mem_rsp[s]
               K == merge_reg[s]
    <3>2. /\ IsQueue(A) /\ Slot(G) /\ G # << >>
          /\ Rsp(s) = Q \o (K \o (A \o G))
          /\ Rsp(s)' = Q \o (K \o (Append(A, Head(G)) \o << >>))
      BY <1>2, <2>1, <2>2, <2>3, <3>1
    <3> HIDE DEF A, G, Q, K
    <3>3. IsQueue(<< >>) /\ << >> \o << >> = << >> /\ G \o << >> = G
      BY <3>1, <3>2, SlotIs, QueueIs
    <3>4. Append(A, Head(G)) \o (<< >> \o << >>) = A \o (G \o << >>)
      BY <3>2, <3>3, Handed, SMTT(60)
    <3>5. Append(A, Head(G)) \o << >> = A \o G
      BY <3>3, <3>4
    <3>6. QED
      BY <3>2, <3>5
  <2>4. CASE Core(s) # b
    BY <1>1, <1>2, <2>1, <2>2, <2>4
  <2>5. QED
    BY <2>3, <2>4
<1>4. rsp_inter' = [c \in Ids |-> rsp_inter'[c]] /\ core_rsp' = [c \in Ids |-> core_rsp'[c]]
  BY <1>0 DEF MemShape
<1>50. UNCHANGED <<mem_req, mem_rsp, merge_reg, req_inter, split_reg, mem, id>>
  BY <1>0
<1>5. MemShape'
  BY <1>50, <1>2, <1>4, SMTT(60) DEF MemShape, Channel, Slot
<1>6. QED
  BY <1>0, <1>1, <1>3, <1>5 DEF Exclusive, memoryView, Ids

(* MergeRspRun takes a response for the port of its side. *)
LEMMA MergePollKeeps ==
    ASSUME MergePoll, Settled, FlipShape, MemShape, Exclusive, UNCHANGED clientVars
    PROVE  MemShape' /\ Exclusive' /\ UNCHANGED memoryView
<1>0. /\ UNCHANGED <<mem_req, mem_rsp, req_inter, split_reg, core_rsp, mem, id>>
      /\ id \in Ids
      /\ merge_reg = [p \in Ids |-> << >>] /\ merge_id = id
  BY DEF MergePoll, splitVars, coreVars, clientVars, hostVars, MemShape, Settled
<1>1. PICK b \in {0, 1, -1} :
        /\ b = 0 => TRUE \in PopNB(rsp_inter[0])
        /\ b = 1 => TRUE \in PopNB(rsp_inter[1])
        /\ rsp_inter' = [c \in Ids |-> After(b = c, rsp_inter[c])]
        /\ merge_reg' = [p \in Ids |-> IF b # -1 /\ PortOf(b, merge_id) = p
                                       THEN <<Head(rsp_inter[b])>> ELSE << >>]
  BY DEF MergePoll
<1>2. b = -1 \/ (b \in Ids /\ rsp_inter[b] # << >>)
  BY <1>1 DEF PopNB, HasMsg, Ids
<1>3. ASSUME NEW s \in Ids
      PROVE  Core(s)' = Core(s) /\ Core(s) \in Ids /\ Req(s)' = Req(s) /\ Banks(s)' = Banks(s)
  BY <1>0, Cores DEF Core, Req, Banks
<1>4. ASSUME NEW s \in Ids
      PROVE  IF b = Core(s)
             THEN merge_reg'[s] = <<Head(rsp_inter[b])>> /\ rsp_inter'[b] = Tail(rsp_inter[b])
             ELSE merge_reg'[s] = << >> /\ rsp_inter'[Core(s)] = rsp_inter[Core(s)]
  <2>1. b \in Ids => (b = Core(s) <=> PortOf(b, id) = s)
    BY <1>0, Cores
  <2>2. CASE b = Core(s)
    <3>1. b # -1 /\ b \in Ids /\ PortOf(b, merge_id) = s
      BY <1>0, <1>3, <2>1, <2>2 DEF Ids
    <3>2. QED
      BY <1>1, <2>2, <3>1 DEF After
  <2>3. CASE b # Core(s)
    <3>1. ~(b # -1 /\ PortOf(b, merge_id) = s)
      BY <1>0, <1>2, <2>1, <2>3
    <3>2. QED
      BY <1>1, <1>3, <2>3, <3>1 DEF After
  <2>4. QED
    BY <2>2, <2>3
<1>5. ASSUME NEW s \in Ids
      PROVE  Rsp(s)' = Rsp(s) /\ Channel(rsp_inter'[Core(s)]) /\ Slot(merge_reg'[s])
  <2> DEFINE R == rsp_inter[Core(s)]
             T == core_rsp[Core(s)]
  <2>1. /\ Rsp(s) = mem_rsp[s] \o (<< >> \o (R \o T))
        /\ Rsp(s)' = mem_rsp[s] \o (merge_reg'[s] \o (rsp_inter'[Core(s)] \o T))
    BY <1>0, <1>3 DEF Rsp
  <2>2. Channel(R) /\ IsQueue(R) /\ IsQueue(T) /\ IsQueue(R \o T)
    BY <1>3, Parts DEF MemShape
  <2> HIDE DEF R, T
  <2>3. CASE b # Core(s)
    BY <1>4, <2>1, <2>2, <2>3 DEF Slot, R
  <2>4. CASE b = Core(s)
    <3>1. merge_reg'[s] = <<Head(R)>> /\ rsp_inter'[Core(s)] = Tail(R) /\ R # << >>
      BY <1>2, <1>3, <1>4, <2>4 DEF R, Ids
    <3>2. Slot(merge_reg'[s]) /\ Channel(Tail(R)) /\ IsQueue(Tail(R)) /\ R = <<Head(R)>> \o Tail(R)
      BY <2>2, <3>1, ChannelMoves, QueueTail DEF Slot
    <3> DEFINE G == <<Head(R)>>
               L == Tail(R)
               P == mem_rsp[s]
    <3>3. IsQueue(<<Head(R)>>)
      BY QueueOf
    <3>4. /\ IsQueue(G) /\ IsQueue(L) /\ IsQueue(T) /\ R = G \o L
          /\ Rsp(s) = P \o (<< >> \o (R \o T)) /\ Rsp(s)' = P \o (G \o (L \o T))
      BY <2>1, <2>2, <3>1, <3>2, <3>3
    <3> HIDE DEF G, L, P
    <3>5. (G \o L) \o T = G \o (L \o T)
      BY <3>4, QueueAssoc, SMTT(60)
    <3>6. << >> \o (R \o T) = R \o T
      BY <2>2, QueueIs
    <3>7. Rsp(s)' = Rsp(s)
      BY <3>4, <3>5, <3>6
    <3>8. QED
      BY <3>1, <3>2, <3>7
  <2>5. QED
    BY <2>3, <2>4
<1>6. \A c \in Ids : Channel(rsp_inter'[c])
  BY <1>0, <1>5, Cores
<1>7. rsp_inter' = [c \in Ids |-> rsp_inter'[c]] /\ merge_reg' = [c \in Ids |-> merge_reg'[c]]
  BY <1>1
<1>8. MemShape'
  BY <1>0, <1>5, <1>6, <1>7 DEF MemShape, Channel, Slot
<1>9. QED
  BY <1>0, <1>3, <1>5, <1>8 DEF Exclusive, memoryView, Ids

(* MergeRspRun hands a response on. *)
LEMMA MergePushKeeps ==
    ASSUME NEW p \in Ids, MergePush(p), MemShape, Exclusive, UNCHANGED clientVars
    PROVE  MemShape' /\ Exclusive' /\ UNCHANGED memoryView
<1>0. /\ UNCHANGED <<mem_req, req_inter, split_reg, rsp_inter, core_rsp, mem, id>>
      /\ id \in Ids
      /\ merge_reg[p] # << >> /\ HasRoom(mem_rsp[p])
      /\ mem_rsp' = [mem_rsp EXCEPT ![p] = Append(@, Head(merge_reg[p]))]
      /\ merge_reg' = [merge_reg EXCEPT ![p] = << >>]
  BY DEF MergePush, HasMsg, splitVars, coreVars, clientVars, hostVars, MemShape
<1>1. ASSUME NEW s \in Ids
      PROVE  Core(s)' = Core(s) /\ Core(s) \in Ids /\ Req(s)' = Req(s) /\ Banks(s)' = Banks(s)
  BY <1>0, Cores DEF Core, Req, Banks
<1>2. ASSUME NEW c \in Ids
      PROVE  /\ Channel(mem_rsp'[c]) /\ Slot(merge_reg'[c])
             /\ c # p => mem_rsp'[c] = mem_rsp[c] /\ merge_reg'[c] = merge_reg[c]
             /\ mem_rsp'[p] = Append(mem_rsp[p], Head(merge_reg[p])) /\ merge_reg'[p] = << >>
  <2>1. Channel(mem_rsp[c]) /\ Slot(merge_reg[c]) /\ Channel(mem_rsp[p])
    BY DEF MemShape
  <2>2. Channel(Append(mem_rsp[p], Head(merge_reg[p]))) /\ Slot(<< >>)
    BY <1>0, <2>1, ChannelMoves DEF Slot
  <2>3. /\ c # p => mem_rsp'[c] = mem_rsp[c] /\ merge_reg'[c] = merge_reg[c]
        /\ mem_rsp'[p] = Append(mem_rsp[p], Head(merge_reg[p])) /\ merge_reg'[p] = << >>
    BY <1>0 DEF MemShape
  <2>4. QED
    BY <2>1, <2>2, <2>3
<1>3. ASSUME NEW s \in Ids PROVE Rsp(s)' = Rsp(s)
  <2> DEFINE T == rsp_inter[Core(s)] \o core_rsp[Core(s)]
  <2>1. Rsp(s) = mem_rsp[s] \o (merge_reg[s] \o T)
    BY DEF Rsp
  <2>2. Rsp(s)' = mem_rsp'[s] \o (merge_reg'[s] \o T)
    BY <1>0, <1>1 DEF Rsp
  <2>3. CASE s = p
    <3>1. IsQueue(T) /\ IsQueue(mem_rsp[p]) /\ Slot(merge_reg[p]) /\ merge_reg[p] # << >>
      BY <1>0, <1>1, <2>3, Parts DEF MemShape
    <3> DEFINE A == mem_rsp[p]
               G == merge_reg[p]
    <3>2. /\ IsQueue(T) /\ IsQueue(A) /\ Slot(G) /\ G # << >>
          /\ Rsp(s) = A \o (G \o T) /\ Rsp(s)' = Append(A, Head(G)) \o (<< >> \o T)
      BY <1>2, <2>1, <2>2, <2>3, <3>1
    <3> HIDE DEF T, A, G
    <3>3. QED
      BY <3>2, Handed
  <2>4. CASE s # p
    BY <1>1, <1>2, <2>1, <2>2, <2>4
  <2>5. QED
    BY <2>3, <2>4
<1>4. mem_rsp' = [c \in Ids |-> mem_rsp'[c]] /\ merge_reg' = [c \in Ids |-> merge_reg'[c]]
  BY <1>0 DEF MemShape
<1>50. UNCHANGED <<mem_req, req_inter, split_reg, rsp_inter, core_rsp, mem, id>>
  BY <1>0
<1>5. MemShape'
  BY <1>50, <1>2, <1>4, SMTT(60) DEF MemShape, Channel, Slot
<1>6. QED
  BY <1>0, <1>1, <1>3, <1>5 DEF Exclusive, memoryView, Ids

-----------------------------------------------------------------------------
(* Steps of the memory: all of them *)

(* One more at the end of the last of three queues. *)
LEMMA CatLast ==
    ASSUME NEW q, NEW r, NEW t, NEW u, IsQueue(q), IsQueue(r), IsQueue(t), IsQueue(u)
    PROVE  q \o (r \o (t \o u)) = (q \o (r \o t)) \o u
<1> DEFINE v == r \o t
<1>1. r \o (t \o u) = v \o u
  BY QueueAssoc, SMTT(60)
<1>2. IsQueue(v)
  BY QueueCat
<1> HIDE DEF v
<1>3. (q \o v) \o u = q \o (v \o u)
  BY <1>2, QueueAssoc, SMTT(60)
<1>4. QED
  BY <1>1, <1>3 DEF v

(* A store of one side leaves the banks of the other alone. *)
LEMMA Stored1 ==
    ASSUME NEW bank, NEW req
    PROVE  Stored(bank, req) = [a \in Addr |-> Stored(bank, req)[a]]
BY DEF Stored

(* A core takes the oldest request of its side. *)
LEMMA CorePopTakes ==
    ASSUME NEW b \in Ids, CorePop(b), MemShape, Exclusive, UNCHANGED clientVars
    PROVE  MemShape' /\ Exclusive' /\ \E s \in Ids : b = Core(s) /\ CoreTakes(s)
<1> DEFINE req == Head(req_inter[b])
<1>0. /\ UNCHANGED <<mem_req, mem_rsp, merge_reg, rsp_inter, split_reg, id>>
      /\ id \in Ids
      /\ core_rsp[b] = << >> /\ req_inter[b] # << >>
      /\ req_inter' = [req_inter EXCEPT ![b] = Tail(@)]
      /\ IF req.type = "load"
         THEN core_rsp' = [core_rsp EXCEPT ![b] = <<Loaded(mem[b], req)>>] /\ UNCHANGED mem
         ELSE mem' = [mem EXCEPT ![b] = Stored(@, req)] /\ UNCHANGED core_rsp
  BY DEF CorePop, HasMsg, PopNB, flipVars, mergeVars, clientVars, hostVars, MemShape
<1> DEFINE isLoad == req.type = "load"
<1>1. ASSUME NEW s \in Ids PROVE Core(s)' = Core(s) /\ Core(s) \in Ids
  BY <1>0, Cores DEF Core
<1>2. PICK s \in Ids : b = Core(s)
  BY <1>0, Cores
<1>3. 1-s \in Ids /\ Core(1-s) # b /\ Core(1-s) \in Ids /\ s # 1-s
  BY <1>0, <1>2, Cores DEF Ids
<1>4. ASSUME NEW c \in Ids
      PROVE  /\ c # b => UNCHANGED <<req_inter[c], core_rsp[c], mem[c]>>
             /\ req_inter'[b] = Tail(req_inter[b])
             /\ IF isLoad THEN core_rsp'[b] = <<Loaded(mem[b], req)>> /\ UNCHANGED mem
                          ELSE mem'[b] = Stored(mem[b], req) /\ UNCHANGED core_rsp
             /\ Channel(req_inter'[c]) /\ Slot(core_rsp'[c]) /\ mem'[c] = [a \in Addr |-> mem'[c][a]]
  <2>1. /\ Channel(req_inter[c]) /\ Slot(core_rsp[c]) /\ mem[c] = [a \in Addr |-> mem[c][a]]
        /\ Channel(req_inter[b])
    BY DEF MemShape
  <2>2. Channel(Tail(req_inter[b]))
    BY <1>0, <2>1, ChannelMoves
  <2>3. /\ c # b => UNCHANGED <<req_inter[c], core_rsp[c], mem[c]>>
        /\ req_inter'[b] = Tail(req_inter[b])
        /\ IF isLoad THEN core_rsp'[b] = <<Loaded(mem[b], req)>> /\ UNCHANGED mem
                     ELSE mem'[b] = Stored(mem[b], req) /\ UNCHANGED core_rsp
    BY <1>0 DEF MemShape
  <2> HIDE DEF req, isLoad
  <2>4. Slot(core_rsp'[c])
    <3>1. Slot(<<Loaded(mem[b], req)>>)
      BY DEF Slot
    <3>2. QED
      BY <2>1, <2>3, <3>1
  <2>5. mem'[c] = [a \in Addr |-> mem'[c][a]]
    BY <2>1, <2>3, Stored1
  <2>6. Channel(req_inter'[c])
    BY <2>1, <2>2, <2>3
  <2>7. QED
    BY <2>3, <2>4, <2>5, <2>6
<1>5. UNCHANGED <<Req(1-s), Rsp(1-s), Banks(1-s)>>
  <2>1. UNCHANGED <<req_inter[Core(1-s)], core_rsp[Core(1-s)], mem[Core(1-s)]>>
    BY <1>1, <1>3, <1>4
  <2>2. UNCHANGED <<Core(1-s), mem_req, mem_rsp, merge_reg, rsp_inter, split_reg>>
    BY <1>0, <1>1, <1>3
  <2>3. QED
    BY <2>1, <2>2 DEF Req, Rsp, Banks
<1> DEFINE A == req_inter[b]
           T == split_reg[b] \o (mem_req[2*s] \o mem_req[2*s+1])
           P == mem_rsp[s]
           G == merge_reg[s]
           R == rsp_inter[b]
           L == <<Loaded(Banks(s), Head(Req(s)))>>
<1>6. /\ Req(s) = A \o T /\ Req(s)' = Tail(A) \o T /\ A # << >> /\ IsQueue(A) /\ IsQueue(T)
      /\ Rsp(s) = P \o (G \o (R \o << >>)) /\ Rsp(s)' = P \o (G \o (R \o core_rsp'[b]))
      /\ Banks(s) = mem[b] /\ Banks(s)' = mem'[b]
      /\ IsQueue(P) /\ IsQueue(G) /\ IsQueue(R)
  <2>1. Core(s)' = Core(s) /\ Core(s) = b
    BY <1>1, <1>2
  <2>2. /\ Req(s) = A \o T /\ Rsp(s) = P \o (G \o (R \o << >>)) /\ Banks(s) = mem[b]
    BY <1>0, <2>1 DEF Req, Rsp, Banks
  <2>3. /\ Req(s)' = Tail(A) \o T /\ Rsp(s)' = P \o (G \o (R \o core_rsp'[b])) /\ Banks(s)' = mem'[b]
    BY <1>0, <1>4, <2>1 DEF Req, Rsp, Banks
  <2>4. IsQueue(A) /\ IsQueue(T) /\ IsQueue(P) /\ IsQueue(G) /\ IsQueue(R)
    BY <2>1, Parts
  <2>5. QED
    BY <1>0, <2>2, <2>3, <2>4
<1>7. IF isLoad THEN core_rsp'[b] = <<Loaded(mem[b], req)>> /\ mem'[b] = mem[b]
                ELSE mem'[b] = Stored(mem[b], req) /\ core_rsp'[b] = << >>
  BY <1>0, <1>4
<1>8. req = Head(A)
  OBVIOUS
<1> HIDE DEF A, T, P, G, R, req
<1>9. Req(s) # << >> /\ Head(Req(s)) = req /\ Req(s)' = Tail(Req(s))
  <2>1. IsQueue(A) /\ IsQueue(T) /\ A # << >>
    BY <1>6
  <2>2. Tail(A \o T) = Tail(A) \o T /\ Head(A \o T) = Head(A) /\ A \o T # << >>
    BY <2>1, QueueFront, SMTT(30)
  <2>3. QED
    BY <1>6, <1>8, <2>2
<1>10. L = <<Loaded(mem[b], req)>> /\ IsQueue(L)
  BY <1>6, <1>9, QueueOf
<1> HIDE DEF L
<1>11. P \o (G \o (R \o L)) = (P \o (G \o (R \o << >>))) \o L
  <2>1. R \o << >> = R
    BY <1>6, QueueIs
  <2>4. IsQueue(P) /\ IsQueue(G) /\ IsQueue(R) /\ IsQueue(L)
    BY <1>6, <1>10
  <2>2. P \o (G \o (R \o L)) = (P \o (G \o R)) \o L
    BY <2>4, CatLast, SMTT(60)
  <2>3. QED
    BY <2>1, <2>2
<1>12. CoreTakes(s)
  <2>1. CASE isLoad
    <3>1. Rsp(s)' = Rsp(s) \o L /\ UNCHANGED Banks(s)
      BY <1>6, <1>7, <1>10, <1>11, <2>1
    <3>2. Head(Req(s)).type = "load"
      BY <1>9, <2>1
    <3>3. QED
      BY <1>5, <1>9, <3>1, <3>2 DEF CoreTakes, L
  <2>2. CASE ~isLoad
    <3>1. UNCHANGED Rsp(s) /\ Banks(s)' = Stored(Banks(s), Head(Req(s)))
      BY <1>6, <1>7, <1>9, <2>2
    <3>2. Head(Req(s)).type # "load"
      BY <1>9, <2>2
    <3>3. QED
      BY <1>5, <1>9, <3>1, <3>2 DEF CoreTakes
  <2>3. QED
    BY <2>1, <2>2
<1>13. /\ req_inter' = [c \in Ids |-> req_inter'[c]] /\ core_rsp' = [c \in Ids |-> core_rsp'[c]]
       /\ mem' = [c \in Ids |-> mem'[c]]
  BY <1>0 DEF MemShape
<1>14. UNCHANGED <<mem_req, mem_rsp, merge_reg, rsp_inter, split_reg, id>>
  BY <1>0
<1>15. MemShape'
  BY <1>4, <1>13, <1>14, SMTT(60) DEF MemShape, Channel, Slot
<1>16. QED
  BY <1>2, <1>12, <1>14, <1>15 DEF Exclusive

(* With nothing to take, SplitReqRun and MergeRspRun take nothing.  *)
LEMMA PollsIdle ==
    ASSUME MemShape, \A p \in 0 .. 3 : mem_req[p] = << >>, \A b \in Ids : rsp_inter[b] = << >>
    PROVE  /\ SplitPoll => UNCHANGED <<mem_req, split_reg>>
           /\ MergePoll => UNCHANGED <<rsp_inter, merge_reg>>
<1>1. ASSUME SplitPoll PROVE UNCHANGED <<mem_req, split_reg>>
  <2>1. PICK p \in Chain(0, 1), q \in Chain(2, 3) :
          /\ mem_req' = [r \in 0 .. 3 |-> After(r \in {p, q} \ {-1}, mem_req[r])]
          /\ split_reg' = [b \in Ids |->
               IF \E r \in {p, q} \ {-1} : CoreOf(r, split_id) = b
               THEN <<Head(mem_req[CHOOSE r \in {p, q} \ {-1} : CoreOf(r, split_id) = b])>>
               ELSE << >>]
    BY <1>1 DEF SplitPoll
  <2>2. p = -1 /\ q = -1
    BY ChainIs
  <2>3. {p, q} \ {-1} = {}
    BY <2>2
  <2> DEFINE taken == {p, q} \ {-1}
  <2>4. split_reg = [b \in Ids |-> << >>]
    BY <1>1 DEF SplitPoll
  <2>5. mem_req = [r \in 0 .. 3 |-> mem_req[r]]
    BY DEF MemShape
  <2>6. /\ mem_req' = [r \in 0 .. 3 |-> After(r \in taken, mem_req[r])]
        /\ split_reg' = [b \in Ids |->
               IF \E r \in taken : CoreOf(r, split_id) = b
               THEN <<Head(mem_req[CHOOSE r \in taken : CoreOf(r, split_id) = b])>>
               ELSE << >>]
    BY <2>1
  <2>9. \A r : r \notin taken
    BY <2>3
  <2> HIDE DEF taken
  <2>7. mem_req' = [r \in 0 .. 3 |-> mem_req[r]] /\ split_reg' = [b \in Ids |-> << >>]
    BY <2>6, <2>9 DEF After
  <2>8. QED
    BY <2>4, <2>5, <2>7, Zenon
<1>2. ASSUME MergePoll PROVE UNCHANGED <<rsp_inter, merge_reg>>
  <2>1. PICK b \in {0, 1, -1} :
          /\ b = 0 => TRUE \in PopNB(rsp_inter[0])
          /\ b = 1 => TRUE \in PopNB(rsp_inter[1])
          /\ rsp_inter' = [c \in Ids |-> After(b = c, rsp_inter[c])]
          /\ merge_reg' = [p \in Ids |-> IF b # -1 /\ PortOf(b, merge_id) = p
                                         THEN <<Head(rsp_inter[b])>> ELSE << >>]
    BY <1>2 DEF MergePoll
  <2>2. b = -1
    BY <2>1 DEF PopNB, HasMsg, Ids
  <2>3. merge_reg = [p \in Ids |-> << >>] /\ rsp_inter = [b1 \in Ids |-> rsp_inter[b1]]
    BY <1>2 DEF MergePoll, MemShape
  <2>4. rsp_inter' = [c \in Ids |-> rsp_inter[c]] /\ merge_reg' = [p \in Ids |-> << >>]
    BY <2>1, <2>2 DEF After, Ids
  <2>5. QED
    BY <2>3, <2>4, Zenon
<1>3. QED
  BY <1>1, <1>2

(* A step of the memory: each side answers its requests in order, whatever  *)
(* the channels and the registers in between and wherever the flips are.    *)
LEMMA MemoryMoves ==
    ASSUME MemoryStep, FlipShape, FlipAlone, MemShape, Exclusive
    PROVE  /\ MemShape' /\ Exclusive' /\ UNCHANGED clientVars
           /\ UNCHANGED memoryView \/ \E s \in Ids : CoreTakes(s)
<1>0. MemoryNext /\ UNCHANGED clientVars /\ id \in Ids /\ UNCHANGED id
  BY DEF MemoryStep, MemShape, clientVars, hostVars
<1>1. CASE FlipRun
  <2>1. UNCHANGED <<mem_req, mem_rsp, req_inter, rsp_inter, split_reg, merge_reg, core_rsp, mem, id>>
    BY <1>0, <1>1 DEF FlipRun, FlipPop, FlipPush, splitVars, mergeVars, coreVars
  <2>2. \A s \in Ids : UNCHANGED <<Req(s), Rsp(s), Banks(s)>>
    BY <2>1 DEF Req, Rsp, Banks, Core
  <2>3. MemShape' /\ Exclusive'
    BY <2>1 DEF MemShape, Exclusive, Channel, Slot
  <2>4. QED
    BY <1>0, <2>2, <2>3 DEF memoryView, Ids
<1>2. CASE Settled
  <2>1. CASE SplitPoll
    BY <1>0, <1>2, <2>1, SplitPollKeeps
  <2>2. CASE \E b \in Ids : SplitPush(b)
    BY <1>0, <1>2, <2>2, SplitPushKeeps
  <2>3. CASE MergePoll
    BY <1>0, <1>2, <2>3, MergePollKeeps
  <2>4. CASE \E p \in Ids : MergePush(p)
    BY <1>0, <1>2, <2>4, MergePushKeeps
  <2>5. CASE \E b \in Ids : CorePop(b)
    BY <1>0, <1>2, <2>5, CorePopTakes
  <2>6. CASE \E b \in Ids : CorePush(b)
    BY <1>0, <1>2, <2>6, CorePushKeeps
  <2>7. QED
    BY <1>0, <1>1, <2>1, <2>2, <2>3, <2>4, <2>5, <2>6 DEF MemoryNext, SplitReqRun, MergeRspRun, MemoryRun
<1>3. CASE AtRest
  <2>1. \A s \in Ids : /\ req_inter[Core(s)] = << >> /\ split_reg[Core(s)] = << >>
                       /\ mem_req[2*s] = << >> /\ mem_req[2*s+1] = << >>
                       /\ mem_rsp[s] = << >> /\ merge_reg[s] = << >>
                       /\ rsp_inter[Core(s)] = << >> /\ core_rsp[Core(s)] = << >>
    BY <1>3, EmptySide DEF AtRest
  <2>2. \A b \in Ids : /\ req_inter[b] = << >> /\ split_reg[b] = << >>
                       /\ mem_rsp[b] = << >> /\ merge_reg[b] = << >>
                       /\ rsp_inter[b] = << >> /\ core_rsp[b] = << >>
    <3>1. ASSUME NEW b \in Ids
          PROVE  /\ req_inter[b] = << >> /\ split_reg[b] = << >>
                 /\ rsp_inter[b] = << >> /\ core_rsp[b] = << >>
      <4>1. PICK s \in Ids : b = Core(s)
        BY <1>0, Cores
      <4>2. QED
        BY <2>1, <4>1
    <3>2. \A b \in Ids : mem_rsp[b] = << >> /\ merge_reg[b] = << >>
      BY <2>1
    <3>3. QED
      BY <3>1, <3>2
  <2>3. \A p \in 0 .. 3 : mem_req[p] = << >>
    <3>1. \A p \in 0 .. 3 : \E s \in Ids : p \in {2*s, 2*s+1}
      BY DEF Ids
    <3>2. QED
      BY <2>1, <3>1
  <2>4. SplitPoll \/ MergePoll \/ FlipRun
    BY <1>0, <2>2 DEF MemoryNext, SplitReqRun, MergeRspRun, MemoryRun, SplitPush, MergePush,
                      CorePop, CorePush, HasMsg, PopNB
  <2>5. CASE SplitPoll \/ MergePoll
    <3>1. UNCHANGED <<mem_req, mem_rsp, req_inter, rsp_inter, split_reg, merge_reg, core_rsp, mem, id>>
      BY <1>0, <2>2, <2>3, <2>5, PollsIdle DEF SplitPoll, MergePoll, splitVars, mergeVars, coreVars
    <3>2. \A s \in Ids : UNCHANGED <<Req(s), Rsp(s), Banks(s)>>
      BY <3>1 DEF Req, Rsp, Banks, Core
    <3>3. MemShape' /\ Exclusive'
      BY <3>1 DEF MemShape, Exclusive, Channel, Slot
    <3>4. QED
      BY <1>0, <3>2, <3>3 DEF memoryView, Ids
  <2>6. QED
    BY <1>1, <2>4, <2>5
<1>4. QED
  BY <1>2, <1>3 DEF FlipAlone, Settled

-----------------------------------------------------------------------------
(* Steps of a client of the memory *)

pipes == <<mem_req, mem_rsp, req_inter, rsp_inter, split_reg, merge_reg, core_rsp, mem>>

(* A client asks side s, or takes an answer of it. *)
Asks(s, req) ==
    /\ Req(s)' = Req(s) \o <<req>>
    /\ UNCHANGED <<Rsp(s), Banks(s), Req(1-s), Rsp(1-s), Banks(1-s)>>
Gets(s) ==
    /\ Rsp(s) # << >> /\ Head(Rsp(s)) = Head(mem_rsp[s]) /\ Rsp(s)' = Tail(Rsp(s))
    /\ UNCHANGED <<Req(s), Banks(s), Req(1-s), Rsp(1-s), Banks(1-s)>>

(* A step that touches no queue leaves them as they are. *)
LEMMA PipesSame ==
    ASSUME MemShape, Exclusive, UNCHANGED <<pipes, id>>
    PROVE  MemShape' /\ Exclusive' /\ UNCHANGED memoryView
BY DEF pipes, MemShape, Exclusive, Channel, Slot, memoryView, Req, Rsp, Banks, Core

(* A push into a port is a request at the end of its side. *)
LEMMA RequestMade ==
    ASSUME MemShape, Exclusive, NEW s \in Ids, NEW p \in {2*s, 2*s+1}, NEW req, HasRoom(mem_req[p]),
           \A d \in {2*s, 2*s+1} : d # p => mem_req[d] = << >>,
           mem_req' = [mem_req EXCEPT ![p] = Append(@, req)],
           UNCHANGED <<mem_rsp, req_inter, rsp_inter, split_reg, merge_reg, core_rsp, mem, id>>
    PROVE  MemShape' /\ Exclusive' /\ Asks(s, req)
<1>0. id \in Ids
  BY DEF MemShape
<1>1. /\ p \in 0 .. 3 /\ 2*s \in 0 .. 3 /\ 2*s+1 \in 0 .. 3 /\ 2*s # 2*s+1 /\ 1-s \in Ids
      /\ \A c \in Ids : c # s => 2*c # p /\ 2*c+1 # p /\ 2*c \in 0 .. 3 /\ 2*c+1 \in 0 .. 3
      /\ 1-s # s
  BY DEF Ids
<1>2. \A d \in 0 .. 3 : mem_req'[d] = IF d = p THEN Append(mem_req[p], req) ELSE mem_req[d]
  BY <1>1 DEF MemShape
<1>3. mem_req' = [d \in 0 .. 3 |-> mem_req'[d]]
  BY DEF MemShape
<1>4. \A d \in 0 .. 3 : Channel(mem_req'[d])
  <2>1. \A d \in 0 .. 3 : Channel(mem_req[d])
    BY DEF MemShape
  <2>2. Channel(Append(mem_req[p], req))
    BY <1>1, <2>1, ChannelMoves
  <2>3. QED
    BY <1>2, <2>1, <2>2
<1>5. UNCHANGED <<mem_rsp, req_inter, rsp_inter, split_reg, merge_reg, core_rsp, mem, id>>
  OBVIOUS
<1>6. MemShape'
  BY <1>3, <1>4, <1>5, SMTT(60) DEF MemShape, Channel, Slot
<1>7. Exclusive'
  <2>1. ASSUME NEW c \in Ids PROVE mem_req'[2*c] = << >> \/ mem_req'[2*c+1] = << >>
    <3>1. CASE c = s
      BY <1>1, <1>2, <3>1
    <3>2. CASE c # s
      BY <1>1, <1>2, <3>2 DEF Exclusive
    <3>3. QED
      BY <3>1, <3>2
  <2>2. QED
    BY <2>1 DEF Exclusive
<1>8. \A c \in Ids : Core(c)' = Core(c)
  BY <1>5 DEF Core
<1>9. \A c \in Ids : UNCHANGED <<Rsp(c), Banks(c)>>
  BY <1>5, <1>8 DEF Rsp, Banks
<1>10. UNCHANGED Req(1-s)
  BY <1>1, <1>2, <1>5, <1>8 DEF Req
<1>11. Req(s)' = Req(s) \o <<req>>
  <2> DEFINE A == req_inter[Core(s)]
             B == split_reg[Core(s)]
             C == mem_req[p]
             R == <<req>>
  <2>1. IsQueue(A) /\ IsQueue(B) /\ IsQueue(C) /\ IsQueue(R)
    <3>1. IsQueue(A) /\ IsQueue(B) /\ IsQueue(mem_req[2*s]) /\ IsQueue(mem_req[2*s+1])
      BY Parts
    <3>2. QED
      BY <3>1, QueueOf
  <2>2. CASE p = 2*s
    <3>1. mem_req[2*s+1] = << >> /\ mem_req'[2*s+1] = << >> /\ mem_req'[2*s] = Append(C, req)
      BY <1>1, <1>2, <2>2
    <3>2. Req(s) = A \o (B \o (C \o << >>)) /\ Req(s)' = A \o (B \o (Append(C, req) \o << >>))
      BY <1>1, <1>5, <1>8, <2>2, <3>1 DEF Req
    <3> HIDE DEF A, B, C
    <3>3. Append(C, req) = C \o R /\ IsQueue(C \o R)
      BY <2>1, QueueAppend
    <3>4. C \o << >> = C /\ Append(C, req) \o << >> = C \o R
      BY <2>1, <3>3, QueueIs
    <3>5. Req(s) = A \o (B \o C) /\ Req(s)' = A \o (B \o (C \o R))
      BY <3>2, <3>4
    <3>6. QED
      BY <2>1, <3>5, CatLast, SMTT(60)
  <2>3. CASE p = 2*s+1
    <3>1. mem_req[2*s] = << >> /\ mem_req'[2*s] = << >> /\ mem_req'[2*s+1] = Append(C, req)
      BY <1>1, <1>2, <2>3
    <3>2. Req(s) = A \o (B \o (<< >> \o C)) /\ Req(s)' = A \o (B \o (<< >> \o Append(C, req)))
      BY <1>1, <1>5, <1>8, <2>3, <3>1 DEF Req
    <3> HIDE DEF A, B, C
    <3>3. Append(C, req) = C \o R /\ IsQueue(C \o R)
      BY <2>1, QueueAppend
    <3>4. << >> \o C = C /\ << >> \o Append(C, req) = C \o R
      BY <2>1, <3>3, QueueIs
    <3>5. Req(s) = A \o (B \o C) /\ Req(s)' = A \o (B \o (C \o R))
      BY <3>2, <3>4
    <3>6. QED
      BY <2>1, <3>5, CatLast, SMTT(60)
  <2>4. QED
    BY <2>2, <2>3
<1>12. QED
  BY <1>1, <1>6, <1>7, <1>9, <1>10, <1>11 DEF Asks

(* A pop from a port is the oldest response of its side. *)
LEMMA AnswerTaken ==
    ASSUME MemShape, Exclusive, NEW s \in Ids, HasMsg(mem_rsp[s]),
           mem_rsp' = [mem_rsp EXCEPT ![s] = Tail(@)],
           UNCHANGED <<mem_req, req_inter, rsp_inter, split_reg, merge_reg, core_rsp, mem, id>>
    PROVE  MemShape' /\ Exclusive' /\ Gets(s)
<1>0. id \in Ids /\ mem_rsp[s] # << >>
  BY DEF MemShape, HasMsg
<1>1. 1-s \in Ids /\ 1-s # s
  BY DEF Ids
<1>2. \A c \in Ids : mem_rsp'[c] = IF c = s THEN Tail(mem_rsp[s]) ELSE mem_rsp[c]
  BY DEF MemShape
<1>3. mem_rsp' = [c \in Ids |-> mem_rsp'[c]]
  BY DEF MemShape
<1>4. \A c \in Ids : Channel(mem_rsp'[c])
  <2>1. \A c \in Ids : Channel(mem_rsp[c])
    BY DEF MemShape
  <2>2. Channel(Tail(mem_rsp[s]))
    BY <1>0, <2>1, ChannelMoves
  <2>3. QED
    BY <1>2, <2>1, <2>2
<1>5. UNCHANGED <<mem_req, req_inter, rsp_inter, split_reg, merge_reg, core_rsp, mem, id>>
  BY <1>0
<1>6. MemShape'
  BY <1>3, <1>4, <1>5, SMTT(60) DEF MemShape, Channel, Slot
<1>7. Exclusive'
  BY <1>5 DEF Exclusive
<1>8. \A c \in Ids : Core(c)' = Core(c)
  BY <1>5 DEF Core
<1>9. \A c \in Ids : UNCHANGED <<Req(c), Banks(c)>>
  BY <1>5, <1>8 DEF Req, Banks
<1>10. UNCHANGED Rsp(1-s)
  BY <1>1, <1>2, <1>5, <1>8 DEF Rsp
<1>11. Rsp(s) # << >> /\ Head(Rsp(s)) = Head(mem_rsp[s]) /\ Rsp(s)' = Tail(Rsp(s))
  <2> DEFINE A == mem_rsp[s]
             T == merge_reg[s] \o (rsp_inter[Core(s)] \o core_rsp[Core(s)])
  <2>1. IsQueue(A) /\ IsQueue(T)
    BY Parts
  <2>2. Rsp(s) = A \o T /\ Rsp(s)' = Tail(A) \o T /\ A # << >>
    BY <1>0, <1>2, <1>5, <1>8 DEF Rsp
  <2> HIDE DEF A, T
  <2>3. Tail(A \o T) = Tail(A) \o T /\ Head(A \o T) = Head(A) /\ A \o T # << >>
    BY <2>1, <2>2, QueueFront
  <2>4. QED
    BY <2>2, <2>3 DEF A
<1>12. UNCHANGED <<Req(s), Banks(s), Req(1-s), Rsp(1-s), Banks(1-s)>>
  BY <1>1, <1>9, <1>10
<1>13. Gets(s)
  BY <1>11, <1>12 DEF Gets
<1>14. QED
  BY <1>6, <1>7, <1>13

-----------------------------------------------------------------------------
(* The shape of the requests, the units and their counters *)

(* The vectors of the computation. *)
M == len["com"]

AllOf(q, type) == \A k \in 1 .. Len(q) : q[k].type = type

(* The requests F[i], F[i+1], ... of which the first have been answered. *)
Fits(q, F, i) == \A k \in 1 .. Len(q) : DOMAIN q[k] = DOMAIN F[i + k - 1].addr
Runs(q, F, i) == \A k \in 1 .. Len(q) : q[k] = F[i + k - 1]
Served(req, rsp, F, i) == Fits(rsp, F, i) /\ Runs(req, F, i + Len(rsp))

WordAddr(burst, i) == [j \in 0 .. W-1 |-> ByteAddr(burst, i, j)]
WordLoads(burst) == [i \in Nat |-> Load(WordAddr(burst, i))]
BeatLoads == [i \in Nat |-> Load(Beat(i, M))]

PortTypes ==
    /\ AllOf(mem_req[0], "store") /\ AllOf(mem_req[1], "load")
    /\ AllOf(mem_req[2], "store") /\ AllOf(mem_req[3], "load")

(* Triggers and interrupts *)
Running == start_wr # << >> \/ ws # "idle"
Busy(u) == IF u = "load" THEN rd.at # "idle"
           ELSE IF u = "store" THEN wr.at # "idle"
           ELSE rq.at # "idle" \/ Running
Token(u) ==
    /\ start[u] \in {<< >>, <<len[u]>>} /\ irq[u] \in {<< >>, <<1>>}
    /\ len[u] \in Nat /\ (u \in waiting => len[u] \in 1 .. Entries)
    /\ u \in waiting <=> start[u] # << >> \/ irq[u] # << >> \/ Busy(u)
    /\ start[u] # << >> => irq[u] = << >> /\ ~Busy(u)
    /\ irq[u] # << >> => ~Busy(u)
Tokens ==
    /\ start = [u \in Units |-> start[u]] /\ irq = [u \in Units |-> irq[u]]
    /\ len = [u \in Units |-> len[u]]
    /\ \A u \in Units : Token(u)
    /\ waiting \subseteq {"load", "store"} \/ waiting = {"com"}

(* The masters *)
Stage == [at : {"idle", "addr", "data", "irq"}, left : Nat, burst : Nat, i : Nat, len : Nat]
Burster(u, m) ==
    /\ u \in Stage
    /\ u.at = "addr" => u.burst * Burst + u.left = Words(m) /\ u.left > 0
    /\ u.at = "data" => /\ u.i <= u.len /\ u.len < Burst
                        /\ u.burst * Burst + u.len + 1 + u.left = Words(m)
                        /\ u.left > 0 => u.len = Burst - 1

StoreStage ==
    \/ /\ trig = <<wr>> /\ wr.i = 0 /\ wq.at = "idle"
       /\ Rsp(1) = << >> /\ Req(1) = << >>
    \/ /\ trig = << >> /\ wq.at = "data" /\ wq.burst = wr.burst /\ wq.len = wr.len
       /\ wr.i + Len(Rsp(1)) + Len(Req(1)) = wq.i /\ wq.i <= wq.len
    \/ /\ trig = << >> /\ wq.at = "idle"
       /\ wr.i + Len(Rsp(1)) + Len(Req(1)) = wr.len + 1
StorePath ==
    /\ wq \in Stage
    /\ wr.at # "data" => /\ trig = << >> /\ wq.at = "idle"
                         /\ Rsp(1) = << >> /\ AllOf(Req(1), "store")
    /\ wr.at = "data" => /\ StoreStage
                         /\ Served(Req(1), Rsp(1), WordLoads(wr.burst), wr.i)

(* The input side serves loads of the computation only, the output side     *)
(* stores of it only when it works.                                         *)
SideUse ==
    /\ "com" \notin waiting => Rsp(0) = << >> /\ AllOf(Req(0), "store")
    /\ waiting \cap {"load", "store"} # {} => AllOf(Req(1), "load")
    /\ "com" \in waiting => AllOf(Req(1), "store")

(* The beats of a computation *)
Share(b, i) == IF b <= i THEN 0 ELSE IF b - i >= M THEN M ELSE b - i
Issued == IF rq.at = "beat" THEN rq.i ELSE IF Running THEN N + M - 1 ELSE 0
Answers == Issued - Len(Req(0)) - Len(Rsp(0))
Taken == IF "com" \in waiting THEN Answers ELSE 0
Ctr(j) == IF ws = "idle" THEN 0 ELSE ctr[j]
Retired == Ctr(N-1) + Len(act_out[N-1]) - out[N-1]

ComShape ==
    /\ M \in Nat
    /\ rq \in [at : {"idle", "trig", "beat"}, i : Nat, len : Nat] /\ (rq.at # "idle" => rq.len = M)
    /\ ws \in {"idle", "poll", "push", "irq", "abort"}
    /\ start_wr \in {<< >>, <<M>>} /\ (start_wr # << >> => ws = "idle") /\ (ws # "idle" => wm = M)
    /\ rq.at = "trig" => ~Running /\ rq.i = 0
    /\ rq.at = "beat" => Running /\ rq.i <= N + M - 2
    /\ ws # "push" => wreg = << >>
    /\ ws = "push" => \E req : wreg = <<req>> /\ req.type = "store"
    /\ ctr = [j \in Port |-> ctr[j]] /\ \A j \in Port : ctr[j] \in Nat
    /\ ws = "poll" => ctr[N-1] < M
    /\ ws = "push" => ctr[N-1] <= M
    /\ ws \in {"irq", "abort"} => ctr[N-1] = M
ComBeats ==
    "com" \in waiting => Answers >= 0 /\ Served(Req(0), Rsp(0), BeatLoads, Answers)
ArrayShape ==
    /\ fed = [i \in Port |-> fed[i]] /\ out = [j \in Port |-> out[j]]
    /\ act_out = [j \in Port |-> act_out[j]]
    /\ \A j \in Port : out[j] \in Nat /\ Channel(act_out[j])
    /\ \A i \in Port : IsQueue(fed[i]) /\ Len(fed[i]) <= Depth
    /\ \A i, j \in Port : out[j] <= Len(fed[i])
ComCount == \A i \in Port : Retired + Len(fed[i]) = Share(Taken, i)

MasterShape == Burster(rd, len["load"]) /\ Burster(wr, len["store"])
Shape == /\ MemShape /\ Exclusive /\ PortTypes /\ FlipAlone /\ Tokens /\ MasterShape /\ StorePath
         /\ SideUse /\ ComShape /\ ComBeats /\ ArrayShape /\ ComCount

-----------------------------------------------------------------------------
(* Loads and stores in a queue; requests and their answers *)

(* Loads and stores in two queues one after the other. *)
LEMMA AllOfCat ==
    ASSUME NEW q, NEW r, IsQueue(q), IsQueue(r), NEW t
    PROVE  AllOf(q \o r, t) <=> AllOf(q, t) /\ AllOf(r, t)
<1>1. /\ Len(q) \in Nat /\ Len(r) \in Nat /\ Len(q \o r) = Len(q) + Len(r)
      /\ \A k \in 1 .. Len(q) : (q \o r)[k] = q[k]
      /\ \A k \in 1 .. Len(r) : (q \o r)[Len(q) + k] = r[k]
  BY QueueIs, QueueCat
<1> DEFINE u == q \o r
<1>2. /\ Len(u) = Len(q) + Len(r)
      /\ \A k \in 1 .. Len(q) : u[k] = q[k]
      /\ \A k \in 1 .. Len(r) : u[Len(q) + k] = r[k]
  BY <1>1
<1> HIDE DEF u
<1>3. ASSUME AllOf(u, t) PROVE AllOf(q, t) /\ AllOf(r, t)
  <2>1. ASSUME NEW k \in 1 .. Len(q) PROVE q[k].type = t
    <3>1. k \in 1 .. Len(u) /\ u[k] = q[k]
      BY <1>1, <1>2
    <3>2. QED
      BY <1>3, <3>1 DEF AllOf
  <2>2. ASSUME NEW k \in 1 .. Len(r) PROVE r[k].type = t
    <3>1. Len(q) + k \in 1 .. Len(u) /\ u[Len(q) + k] = r[k]
      BY <1>1, <1>2
    <3>2. QED
      BY <1>3, <3>1 DEF AllOf
  <2>3. QED
    BY <2>1, <2>2 DEF AllOf
<1>4. ASSUME AllOf(q, t), AllOf(r, t), NEW k \in 1 .. Len(u) PROVE u[k].type = t
  <2>1. CASE k <= Len(q)
    <3>1. k \in 1 .. Len(q)
      BY <1>1, <1>2, <2>1
    <3>2. QED
      BY <1>2, <1>4, <3>1 DEF AllOf
  <2>2. CASE ~(k <= Len(q))
    <3>1. k - Len(q) \in 1 .. Len(r) /\ Len(q) + (k - Len(q)) = k
      BY <1>1, <1>2, <2>2
    <3>2. u[k] = r[k - Len(q)]
      BY <1>2, <3>1
    <3>3. QED
      BY <1>4, <3>1, <3>2 DEF AllOf
  <2>3. QED
    BY <2>1, <2>2
<1>5. QED
  BY <1>3, <1>4 DEF AllOf, u

(* Loads and stores in short queues. *)
LEMMA AllOfOne ==
    ASSUME NEW t
    PROVE  AllOf(<< >>, t) /\ \A e : AllOf(<<e>>, t) <=> e.type = t
<1>1. AllOf(<< >>, t)
  BY QueueOf DEF AllOf
<1>2. ASSUME NEW e PROVE AllOf(<<e>>, t) <=> e.type = t
  <2>1. Len(<<e>>) = 1 /\ <<e>>[1] = e
    BY QueueOf
  <2>2. QED
    BY <2>1 DEF AllOf
<1>3. QED
  BY <1>1, <1>2

(* Loads and stores in what is left of a queue. *)
LEMMA AllOfTail ==
    ASSUME NEW q, IsQueue(q), NEW t, AllOf(q, t), q # << >>
    PROVE  Head(q).type = t /\ AllOf(Tail(q), t)
<1>1. /\ Len(q) \in Nat /\ Len(q) >= 1 /\ Head(q) = q[1] /\ Len(Tail(q)) = Len(q) - 1
      /\ \A k \in 1 .. Len(q) - 1 : Tail(q)[k] = q[k+1]
  BY QueueIs, QueueTail
<1> DEFINE h == Head(q)
           u == Tail(q)
<1>2. h = q[1] /\ Len(u) = Len(q) - 1 /\ \A k \in 1 .. Len(q) - 1 : u[k] = q[k+1]
  BY <1>1
<1> HIDE DEF h, u
<1>3. h.type = t
  BY <1>1, <1>2 DEF AllOf
<1>4. ASSUME NEW k \in 1 .. Len(u) PROVE u[k].type = t
  <2>1. k + 1 \in 1 .. Len(q) /\ u[k] = q[k+1]
    BY <1>1, <1>2
  <2>2. QED
    BY <2>1 DEF AllOf
<1>5. QED
  BY <1>3, <1>4 DEF AllOf, h, u

(* Loads and stores are not the same. *)
LEMMA NotBoth ==
    ASSUME NEW q, IsQueue(q), AllOf(q, "load"), AllOf(q, "store")
    PROVE  q = << >>
<1>1. Len(q) \in Nat /\ (Len(q) = 0 <=> q = << >>)
  BY QueueIs
<1>2. ASSUME Len(q) # 0 PROVE FALSE
  <2>1. 1 \in 1 .. Len(q)
    BY <1>1, <1>2
  <2>2. q[1].type = "load" /\ q[1].type = "store"
    BY <2>1 DEF AllOf
  <2>3. QED
    BY <2>2
<1>3. QED
  BY <1>1, <1>2

(* Nothing asked, nothing owed. *)
LEMMA ServedEmpty ==
    ASSUME NEW F, NEW i
    PROVE  Served(<< >>, << >>, F, i)
BY QueueOf DEF Served, Fits, Runs

(* The next request is asked. *)
LEMMA ServedAsk ==
    ASSUME NEW req, NEW rsp, IsQueue(req), IsQueue(rsp), NEW F, NEW i \in Nat, Served(req, rsp, F, i)
    PROVE  Served(req \o <<F[i + Len(rsp) + Len(req)]>>, rsp, F, i)
<1> DEFINE e == F[i + Len(rsp) + Len(req)]
           u == req \o <<e>>
<1>1. Len(req) \in Nat /\ Len(rsp) \in Nat
  BY QueueIs
<1>2. Len(u) = Len(req) + 1 /\ (\A k \in 1 .. Len(req) : u[k] = req[k]) /\ u[Len(req) + 1] = e
  BY QueueAppend
<1> HIDE DEF u
<1>3. ASSUME NEW k \in 1 .. Len(u) PROVE u[k] = F[i + Len(rsp) + k - 1]
  <2>1. CASE k = Len(req) + 1
    <3>1. i + Len(rsp) + k - 1 = i + Len(rsp) + Len(req)
      BY <1>1, <2>1
    <3>2. QED
      BY <1>2, <2>1, <3>1
  <2>2. CASE k # Len(req) + 1
    <3>1. k \in 1 .. Len(req)
      BY <1>1, <1>2, <2>2
    <3>2. QED
      BY <1>2, <3>1 DEF Served, Runs
  <2>3. QED
    BY <2>1, <2>2
<1>4. QED
  BY <1>3 DEF Served, Runs, u

(* The core answers the oldest request. *)
LEMMA ServedTake ==
    ASSUME NEW req, NEW rsp, IsQueue(req), IsQueue(rsp), NEW F, NEW i \in Nat, Served(req, rsp, F, i),
           req # << >>, NEW e, DOMAIN e = DOMAIN Head(req).addr
    PROVE  /\ Head(req) = F[i + Len(rsp)]
           /\ Served(Tail(req), rsp \o <<e>>, F, i)
<1> DEFINE h == Head(req)
           u == Tail(req)
           v == rsp \o <<e>>
<1>1. /\ Len(req) \in Nat /\ Len(rsp) \in Nat /\ Len(req) >= 1 /\ h = req[1]
      /\ Len(u) = Len(req) - 1 /\ \A k \in 1 .. Len(req) - 1 : u[k] = req[k+1]
  BY QueueIs, QueueTail
<1>2. Len(v) = Len(rsp) + 1 /\ (\A k \in 1 .. Len(rsp) : v[k] = rsp[k]) /\ v[Len(rsp) + 1] = e
  BY QueueAppend
<1>3. DOMAIN e = DOMAIN h.addr
  OBVIOUS
<1> HIDE DEF h, u, v
<1>4. h = F[i + Len(rsp)]
  <2>1. 1 \in 1 .. Len(req) /\ i + Len(rsp) + 1 - 1 = i + Len(rsp)
    BY <1>1
  <2>2. req[1] = F[i + Len(rsp) + 1 - 1]
    BY <2>1 DEF Served, Runs
  <2>3. QED
    BY <1>1, <2>1, <2>2
<1>5. ASSUME NEW k \in 1 .. Len(v) PROVE DOMAIN v[k] = DOMAIN F[i + k - 1].addr
  <2>1. CASE k = Len(rsp) + 1
    <3>1. i + k - 1 = i + Len(rsp)
      BY <1>1, <2>1
    <3>2. QED
      BY <1>2, <1>3, <1>4, <2>1, <3>1
  <2>2. CASE k # Len(rsp) + 1
    <3>1. k \in 1 .. Len(rsp)
      BY <1>1, <1>2, <2>2
    <3>2. QED
      BY <1>2, <3>1 DEF Served, Fits
  <2>3. QED
    BY <2>1, <2>2
<1>6. ASSUME NEW k \in 1 .. Len(u) PROVE u[k] = F[i + Len(v) + k - 1]
  <2>1. k + 1 \in 1 .. Len(req) /\ u[k] = req[k+1] /\ i + Len(v) + k - 1 = i + Len(rsp) + (k + 1) - 1
    BY <1>1, <1>2
  <2>2. req[k+1] = F[i + Len(rsp) + (k + 1) - 1]
    BY <2>1 DEF Served, Runs
  <2>3. QED
    BY <2>1, <2>2
<1>7. QED
  BY <1>4, <1>5, <1>6 DEF Served, Fits, Runs, h, u, v

(* The client takes the oldest answer. *)
LEMMA ServedGet ==
    ASSUME NEW req, NEW rsp, IsQueue(req), IsQueue(rsp), NEW F, NEW i \in Nat, Served(req, rsp, F, i),
           rsp # << >>
    PROVE  /\ DOMAIN Head(rsp) = DOMAIN F[i].addr
           /\ Served(req, Tail(rsp), F, i + 1)
<1> DEFINE h == Head(rsp)
           u == Tail(rsp)
<1>1. /\ Len(rsp) \in Nat /\ Len(rsp) >= 1 /\ h = rsp[1]
      /\ Len(u) = Len(rsp) - 1 /\ \A k \in 1 .. Len(rsp) - 1 : u[k] = rsp[k+1]
  BY QueueIs, QueueTail
<1>0. Len(req) \in Nat
  BY QueueIs
<1> HIDE DEF h, u
<1>2. DOMAIN h = DOMAIN F[i].addr
  <2>1. 1 \in 1 .. Len(rsp) /\ i + 1 - 1 = i
    BY <1>1
  <2>2. DOMAIN rsp[1] = DOMAIN F[i + 1 - 1].addr
    BY <2>1 DEF Served, Fits
  <2>3. QED
    BY <1>1, <2>1, <2>2
<1>3. ASSUME NEW k \in 1 .. Len(u) PROVE DOMAIN u[k] = DOMAIN F[i + 1 + k - 1].addr
  <2>1. k + 1 \in 1 .. Len(rsp) /\ u[k] = rsp[k+1] /\ i + 1 + k - 1 = i + (k + 1) - 1
    BY <1>1
  <2>2. DOMAIN rsp[k+1] = DOMAIN F[i + (k + 1) - 1].addr
    BY <2>1 DEF Served, Fits
  <2>3. QED
    BY <2>1, <2>2
<1>4. ASSUME NEW k \in 1 .. Len(req) PROVE req[k] = F[i + 1 + Len(u) + k - 1]
  <2>1. i + 1 + Len(u) + k - 1 = i + Len(rsp) + k - 1
    BY <1>1
  <2>2. req[k] = F[i + Len(rsp) + k - 1]
    BY DEF Served, Runs
  <2>3. QED
    BY <2>1, <2>2
<1>5. QED
  BY <1>2, <1>3, <1>4 DEF Served, Fits, Runs, h, u

-----------------------------------------------------------------------------
(* The crossbar grants the requests of the program in full *)

(* Numbers less than N apart are in different banks. *)
LEMMA BankOf ==
    ASSUME NEW a \in Nat, NEW b \in Nat, Bank(a) = Bank(b), a - b < N, b - a < N
    PROVE  a = b
<1>0. N \in Nat /\ N > 0
  BY NAssumption
<1> DEFINE x == a \div N
           y == b \div N
           r == a % N
<1>1. /\ x \in Int /\ y \in Int /\ r \in Int
      /\ a = N * x + r /\ b = N * y + r
  BY <1>0 DEF Bank
<1> HIDE DEF x, y, r
<1>2. ASSUME x >= y + 1 PROVE FALSE
  <2>1. N * x >= N * (y + 1) /\ N * (y + 1) = N * y + N
    BY <1>0, <1>1, <1>2
  <2>2. N * x \in Int /\ N * y \in Int
    BY <1>0, <1>1
  <2>3. QED
    BY <1>0, <1>1, <2>1, <2>2
<1>3. ASSUME y >= x + 1 PROVE FALSE
  <2>1. N * y >= N * (x + 1) /\ N * (x + 1) = N * x + N
    BY <1>0, <1>1, <1>3
  <2>2. N * x \in Int /\ N * y \in Int
    BY <1>0, <1>1
  <2>3. QED
    BY <1>0, <1>1, <2>1, <2>2
<1>4. x = y
  BY <1>1, <1>2, <1>3
<1>5. QED
  BY <1>1, <1>4

(* The bank and the entry of an address. *)
LEMMA ModOf ==
    ASSUME NEW x \in Nat, NEW j \in Nat, j < N
    PROVE  (N * x + j) % N = j /\ (N * x + j) \div N = x
<1>0. N \in Nat /\ N > 0
  BY NAssumption
<1> DEFINE a == N * x + j
           y == a \div N
           r == a % N
<1>1. N * x \in Nat
  BY <1>0
<1>2. a \in Nat
  BY <1>1
<1>3. a = N * x + j
  OBVIOUS
<1> HIDE DEF a
<1>4. /\ y \in Int /\ r \in Int /\ a = N * y + r /\ 0 <= r /\ r < N
  BY <1>0, <1>2
<1> HIDE DEF y, r
<1>5. ASSUME x >= y + 1 PROVE FALSE
  <2>1. N * x >= N * (y + 1) /\ N * (y + 1) = N * y + N /\ N * y \in Int
    BY <1>0, <1>4, <1>5
  <2>2. QED
    BY <1>0, <1>1, <1>3, <1>4, <2>1
<1>6. ASSUME y >= x + 1 PROVE FALSE
  <2>1. N * y >= N * (x + 1) /\ N * (x + 1) = N * x + N /\ N * y \in Int
    BY <1>0, <1>4, <1>6
  <2>2. QED
    BY <1>0, <1>1, <1>3, <1>4, <2>1
<1>7. x = y
  BY <1>4, <1>5, <1>6
<1>8. r = j
  BY <1>1, <1>3, <1>4, <1>7
<1>9. QED
  BY <1>3, <1>7, <1>8 DEF y, r

(* The crossbar grants every port whose bank nobody else wants. *)
Spread(addr) ==
    /\ DOMAIN addr \subseteq Port
    /\ \A p \in DOMAIN addr : addr[p] \in Nat
    /\ \A p, q \in DOMAIN addr : Bank(addr[p]) = Bank(addr[q]) => p = q

(* A spread request is granted to the full. *)
LEMMA GrantedAll ==
    ASSUME NEW addr, Spread(addr)
    PROVE  Granted(addr) = DOMAIN addr
<1>1. \A p \in DOMAIN addr : p \in Int
  BY NAssumption DEF Spread, Port
<1>2. QED
  BY <1>1 DEF Spread, Granted

IsLoads(F) == \A i \in Nat : F[i].type = "load" /\ Spread(F[i].addr)

(* The bytes of a word follow each other. *)
LEMMA ByteAddrNat ==
    ASSUME NEW burst \in Nat, NEW i \in Nat
    PROVE  /\ W * i + burst * W * Burst \in Nat
           /\ \A j \in Nat : ByteAddr(burst, i, j) = j + (W * i + burst * W * Burst)
<1>1. W \in Nat /\ Burst \in Nat
  BY WAssumption, NAssumption, BurstAssumption
<1>2. W * i \in Nat /\ burst * W \in Nat
  BY <1>1
<1>3. (burst * W) * Burst \in Nat
  BY <1>1, <1>2
<1>4. QED
  BY <1>2, <1>3 DEF ByteAddr

(* The words of a burst are spread over the banks, since W <= N. *)
LEMMA WordSpread ==
    ASSUME NEW burst \in Nat
    PROVE  IsLoads(WordLoads(burst))
<1> SUFFICES ASSUME NEW i \in Nat
             PROVE  /\ WordLoads(burst)[i].type = "load"
                    /\ Spread(WordLoads(burst)[i].addr)
  BY DEF IsLoads
<1>1. WordLoads(burst)[i] = Load(WordAddr(burst, i))
  BY DEF WordLoads
<1> DEFINE u == WordAddr(burst, i)
           base == W * i + burst * W * Burst
<1>2. WordLoads(burst)[i].type = "load" /\ WordLoads(burst)[i].addr = u
  BY <1>1 DEF Load
<1>3. W \in Nat /\ W <= N /\ N \in Nat
  BY WAssumption, NAssumption
<1>4. base \in Nat /\ \A j \in Nat : ByteAddr(burst, i, j) = j + base
  BY ByteAddrNat
<1> HIDE DEF base
<1>5. DOMAIN u = 0 .. W-1 /\ \A j \in 0 .. W-1 : u[j] = j + base /\ u[j] \in Nat
  BY <1>3, <1>4 DEF WordAddr
<1> HIDE DEF u
<1>6. ASSUME NEW p \in DOMAIN u, NEW q \in DOMAIN u, Bank(u[p]) = Bank(u[q]) PROVE p = q
  <2>1. /\ p \in Nat /\ q \in Nat /\ u[p] \in Nat /\ u[q] \in Nat
        /\ u[p] = p + base /\ u[q] = q + base /\ p < W /\ q < W
    BY <1>3, <1>5
  <2>2. u[p] - u[q] < N /\ u[q] - u[p] < N
    BY <1>3, <1>4, <2>1
  <2>3. u[p] = u[q]
    BY <1>6, <2>1, <2>2, BankOf
  <2>4. QED
    BY <1>4, <2>1, <2>3
<1>7. DOMAIN u \subseteq Port
  BY <1>3, <1>5 DEF Port
<1>8. Spread(u)
  BY <1>5, <1>6, <1>7 DEF Spread
<1>9. QED
  BY <1>2, <1>8

(* A beat has at most one address in every bank. *)
LEMMA BeatIsSpread ==
    ASSUME NEW i \in Nat, NEW m
    PROVE  Spread(Beat(i, m))
<1> DEFINE u == Beat(i, m)
<1>1. N \in Nat /\ N > 0
  BY NAssumption
<1>2. /\ DOMAIN u = {j \in Port : InBeat(i, j, m)}
      /\ \A j \in DOMAIN u : u[j] = N*(i-j) + j
  BY DEF Beat
<1> HIDE DEF u
<1>3. ASSUME NEW j \in DOMAIN u PROVE u[j] \in Nat /\ Bank(u[j]) = j
  <2>1. j \in Nat /\ j < N /\ i - j \in Nat /\ u[j] = N*(i-j) + j
    BY <1>1, <1>2 DEF Port, InBeat
  <2> DEFINE x == i - j
  <2>2. N * x \in Nat
    BY <1>1, <2>1
  <2>3. u[j] \in Nat
    BY <2>1, <2>2
  <2>4. (N * x + j) % N = j
    BY <1>1, <2>1, ModOf
  <2>5. QED
    BY <2>1, <2>3, <2>4 DEF Bank
<1>4. Spread(u)
  BY <1>2, <1>3 DEF Spread
<1>5. QED
  BY <1>4 DEF u

(* So are the beats of a computation. *)
LEMMA BeatSpread == IsLoads(BeatLoads)
<1>1. ASSUME NEW i \in Nat PROVE BeatLoads[i].type = "load" /\ Spread(BeatLoads[i].addr)
  <2>1. BeatLoads[i] = Load(Beat(i, M))
    BY DEF BeatLoads
  <2>2. QED
    BY <2>1, BeatIsSpread DEF Load
<1>2. QED
  BY <1>1 DEF IsLoads

(* A core that takes a request of a served side answers it in full. *)
LEMMA CoreServes ==
    ASSUME MemShape, NEW s \in Ids, CoreTakes(s), NEW F, IsLoads(F), NEW i \in Nat,
           Served(Req(s), Rsp(s), F, i)
    PROVE  /\ Served(Req(s)', Rsp(s)', F, i)
           /\ Len(Rsp(s)') = Len(Rsp(s)) + 1 /\ Len(Req(s)') = Len(Req(s)) - 1
<1> DEFINE req == Req(s)
           rsp == Rsp(s)
           h == Head(req)
           e == Loaded(Banks(s), h)
<1>1. IsQueue(req) /\ IsQueue(rsp) /\ req # << >>
  BY Parts DEF CoreTakes
<1>2. Len(rsp) \in Nat
  BY <1>1, QueueIs
<1>3. h = F[i + Len(rsp)]
  <2>1. PICK d : DOMAIN d = DOMAIN h.addr
    OBVIOUS
  <2>2. DOMAIN d = DOMAIN Head(req).addr
    BY <2>1
  <2> HIDE DEF req, rsp
  <2>3. QED
    BY <1>1, <2>2, ServedTake DEF req, rsp
<1>4. h.type = "load" /\ Spread(h.addr)
  BY <1>2, <1>3 DEF IsLoads
<1>5. Req(s)' = Tail(req) /\ Rsp(s)' = rsp \o <<e>>
  BY <1>4 DEF CoreTakes
<1>6. DOMAIN e = DOMAIN h.addr
  BY <1>4, GrantedAll DEF Loaded
<1>7. Served(req, rsp, F, i)
  OBVIOUS
<1>8. DOMAIN e = DOMAIN Head(req).addr
  BY <1>6
<1> HIDE DEF req, rsp, h, e
<1>9. Served(Tail(req), rsp \o <<e>>, F, i)
  BY <1>1, <1>7, <1>8, ServedTake
<1>10. Len(Tail(req)) = Len(req) - 1 /\ Len(rsp \o <<e>>) = Len(rsp) + 1
  BY <1>1, QueueTail, QueueAppend
<1>11. QED
  BY <1>5, <1>9, <1>10 DEF req, rsp

-----------------------------------------------------------------------------
(* What a step leaves alone *)

comState == <<rq, start_wr, ws, wm, ctr, wreg, M>>
arrayState == <<fed, out, act_out>>

(* Nobody starts and nobody ends. *)
LEMMA TokensSame ==
    ASSUME Tokens, UNCHANGED <<start, irq, waiting, len>>, \A u \in Units : Busy(u)' <=> Busy(u)
    PROVE  Tokens'
BY DEF Tokens, Token

(* The units work on. *)
LEMMA BusySame ==
    ASSUME UNCHANGED <<rd, wr, rq, start_wr, ws>>
    PROVE  \A u \in Units : Busy(u)' <=> Busy(u)
BY DEF Busy, Running

(* The masters stand still. *)
LEMMA MasterSame ==
    ASSUME MasterShape, UNCHANGED <<rd, wr, len>>
    PROVE  MasterShape'
BY DEF MasterShape, Burster, Stage

(* The path of MasterWrite is not touched. *)
LEMMA StoreSame ==
    ASSUME StorePath, UNCHANGED <<wr, wq, trig, Req(1), Rsp(1)>>
    PROVE  StorePath'
BY DEF StorePath, StoreStage, Served, Fits, Runs, AllOf, WordLoads, WordAddr, ByteAddr

(* The sides are used as before. *)
LEMMA SideSame ==
    ASSUME SideUse, UNCHANGED <<waiting, Req(0), Rsp(0), Req(1)>>
    PROVE  SideUse'
BY DEF SideUse, AllOf

(* InputSetup stands still. *)
LEMMA ComShapeSame ==
    ASSUME ComShape, UNCHANGED comState
    PROVE  ComShape'
BY DEF ComShape, comState, Running

(* The array stands still. *)
LEMMA ArraySame ==
    ASSUME ArrayShape, UNCHANGED arrayState
    PROVE  ArrayShape'
BY DEF ArrayShape, arrayState, Channel, IsQueue

(* No beat is issued or answered. *)
LEMMA AnswersSame ==
    ASSUME UNCHANGED <<rq, start_wr, ws, waiting, M, Req(0), Rsp(0)>>
    PROVE  Answers' = Answers /\ Taken' = Taken
BY DEF Answers, Taken, Issued, Running

(* The beats on their way are the same. *)
LEMMA BeatsSame ==
    ASSUME ComBeats, UNCHANGED <<rq, start_wr, ws, waiting, M, Req(0), Rsp(0)>>
    PROVE  ComBeats'
<1>1. Answers' = Answers
  BY AnswersSame
<1>2. QED
  BY <1>1 DEF ComBeats, Served, Fits, Runs, BeatLoads, Beat

(* No vector comes or goes. *)
LEMMA CountSame ==
    ASSUME ComCount, Taken' = Taken, UNCHANGED <<ws, ctr, arrayState, M>>
    PROVE  ComCount'
BY DEF ComCount, Share, Retired, Ctr, arrayState

(* The ports hold what they held. *)
LEMMA PortSame ==
    ASSUME PortTypes, UNCHANGED mem_req
    PROVE  PortTypes'
BY DEF PortTypes, AllOf

(* A flip that is over stays over while somebody works.  *)
LEMMA AloneSame ==
    ASSUME FlipAlone, waiting # {},
           UNCHANGED <<flip_mem, flip_to, flip_inter, split_id, merge_id, id>>
    PROVE  FlipAlone' /\ Settled
BY DEF FlipAlone, AtRest, NoFlip, Settled

-----------------------------------------------------------------------------
(* A step of the memory *)

(* The memory only takes from the ports. *)
LEMMA MemoryKeepsPorts ==
    ASSUME MemShape, PortTypes, MemoryStep
    PROVE  PortTypes'
<1>1. \A p \in 0 .. 3 : \/ mem_req'[p] = mem_req[p]
                        \/ mem_req[p] # << >> /\ mem_req'[p] = Tail(mem_req[p])
  <2>1. CASE SplitPoll
    <3>1. PICK p \in Chain(0, 1), q \in Chain(2, 3) :
            mem_req' = [r \in 0 .. 3 |-> After(r \in {p, q} \ {-1}, mem_req[r])]
      BY <2>1 DEF SplitPoll
    <3>2. (p = -1 \/ mem_req[p] # << >>) /\ (q = -1 \/ mem_req[q] # << >>)
      BY ChainIs
    <3>3. \A r \in 0 .. 3 : r \in {p, q} \ {-1} => mem_req[r] # << >>
      BY <3>2
    <3>4. QED
      BY <3>1, <3>3 DEF After
  <2>2. CASE UNCHANGED mem_req
    BY <2>2
  <2>3. SplitPoll \/ UNCHANGED mem_req
    BY DEF MemoryStep, MemoryNext, FlipRun, FlipPop, FlipPush, SplitReqRun, SplitPush, MergeRspRun,
           MergePoll, MergePush, MemoryRun, CorePop, CorePush, splitVars
  <2>4. QED
    BY <2>1, <2>2, <2>3
<1>2. ASSUME NEW p \in 0 .. 3, NEW t, AllOf(mem_req[p], t)
      PROVE  AllOf(mem_req'[p], t)
  <2> DEFINE q == mem_req[p]
             r == mem_req'[p]
  <2>1. IsQueue(q) /\ AllOf(q, t)
    BY <1>2 DEF MemShape, Channel
  <2>3. r = q \/ (q # << >> /\ r = Tail(q))
    BY <1>1
  <2> HIDE DEF q, r
  <2>2. AllOf(r, t)
    BY <2>1, <2>3, AllOfTail
  <2>4. QED
    BY <2>2 DEF r
<1>3. /\ AllOf(mem_req'[0], "store") /\ AllOf(mem_req'[1], "load")
      /\ AllOf(mem_req'[2], "store") /\ AllOf(mem_req'[3], "load")
  BY <1>2 DEF PortTypes
<1>4. QED
  BY <1>3 DEF PortTypes, AllOf

(* A flip under way, or none, is not disturbed by the memory. *)
LEMMA MemoryKeepsAlone ==
    ASSUME MemShape, Exclusive, FlipShape, FlipAlone, MemoryStep
    PROVE  FlipAlone'
<1>0. /\ MemoryNext /\ UNCHANGED <<waiting, id>>
      /\ UNCHANGED memoryView \/ \E s \in Ids : CoreTakes(s)
  BY MemoryMoves DEF MemoryStep, clientVars, hostVars
<1>1. CASE AtRest
  <2>1. ~ \E s \in Ids : CoreTakes(s)
    BY <1>1 DEF AtRest, CoreTakes
  <2>2. \A s \in Ids : UNCHANGED <<Req(s), Rsp(s)>>
    BY <1>0, <2>1 DEF memoryView, Ids
  <2>3. QED
    BY <1>0, <1>1, <2>2 DEF AtRest, FlipAlone
<1>2. CASE Settled
  <2>1. ~FlipPop /\ ~FlipPush
    BY <1>2 DEF Settled, NoFlip, FlipPop, FlipPush, PopNB, HasMsg, Ids
  <2>2. UNCHANGED <<flip_mem, flip_to>>
    BY <1>0, <2>1 DEF MemoryNext, FlipRun, SplitReqRun, SplitPoll, SplitPush, MergeRspRun, MergePoll,
                      MergePush, MemoryRun, CorePop, CorePush, flipVars
  <2>3. CASE UNCHANGED <<flip_inter, split_id, merge_id>>
    BY <1>0, <1>2, <2>2, <2>3 DEF Settled, NoFlip, FlipAlone
  <2>4. CASE Update(0, split_id, split_id') /\ UNCHANGED merge_id
    <3>1. split_id' = split_id /\ UNCHANGED flip_inter
      BY <1>2, <2>4, UpdateSettled DEF Settled, Ids
    <3>2. QED
      BY <2>3, <2>4, <3>1
  <2>5. CASE Update(1, merge_id, merge_id') /\ UNCHANGED split_id
    <3>1. merge_id' = merge_id /\ UNCHANGED flip_inter
      BY <1>2, <2>5, UpdateSettled DEF Settled, Ids
    <3>2. QED
      BY <2>3, <2>5, <3>1
  <2>6. QED
    BY <1>0, <2>1, <2>3, <2>4, <2>5
       DEF MemoryNext, FlipRun, SplitReqRun, SplitPoll, SplitPush, MergeRspRun, MergePoll,
           MergePush, MemoryRun, CorePop, CorePush, flipVars, splitVars, mergeVars
<1>3. QED
  BY <1>1, <1>2 DEF FlipAlone, Settled

(* A core takes a request of MasterWriteReq. *)
LEMMA TakesKeepsStore ==
    ASSUME MemShape, MasterShape, StorePath, NEW s \in Ids, CoreTakes(s), UNCHANGED <<wr, wq, trig>>
    PROVE  StorePath'
<1>1. CASE s = 0
  <2>1. UNCHANGED <<Req(1), Rsp(1)>>
    BY <1>1 DEF CoreTakes
  <2>2. QED
    BY <2>1, StoreSame
<1>2. CASE s = 1 /\ wr.at # "data"
  <2>1. /\ Req(1) # << >> /\ Req(1)' = Tail(Req(1)) /\ AllOf(Req(1), "store") /\ Rsp(1) = << >>
        /\ IsQueue(Req(1))
    BY <1>2, Parts DEF CoreTakes, StorePath
  <2> DEFINE q == Req(1)
  <2>2. /\ q # << >> /\ AllOf(q, "store") /\ IsQueue(q)
    BY <2>1
  <2> HIDE DEF q
  <2>3. Head(q).type = "store" /\ AllOf(Tail(q), "store")
    BY <2>2, AllOfTail
  <2>4. Rsp(1)' = << >> /\ AllOf(Req(1)', "store")
    BY <1>2, <2>1, <2>3 DEF CoreTakes, q
  <2>5. QED
    BY <1>2, <2>4 DEF StorePath, AllOf
<1>3. CASE s = 1 /\ wr.at = "data"
  <2> DEFINE F == WordLoads(wr.burst)
  <2>1. wr.burst \in Nat /\ wr.i \in Nat /\ Served(Req(1), Rsp(1), F, wr.i)
    BY <1>3 DEF MasterShape, Burster, Stage, StorePath
  <2>2. IsLoads(F) /\ CoreTakes(1) /\ 1 \in Ids
    BY <1>3, <2>1, WordSpread DEF Ids
  <2> HIDE DEF F
  <2>3. /\ Served(Req(1)', Rsp(1)', F, wr.i)
        /\ Len(Rsp(1)') = Len(Rsp(1)) + 1 /\ Len(Req(1)') = Len(Req(1)) - 1
    BY <2>1, <2>2, CoreServes
  <2>4. Req(1) # << >> /\ Len(Req(1)) \in Nat /\ Len(Rsp(1)) \in Nat
    BY <2>2, Parts, QueueIs DEF CoreTakes
  <2>5. StoreStage'
    <3>1. ~(trig = <<wr>> /\ wr.i = 0 /\ wq.at = "idle" /\ Rsp(1) = << >> /\ Req(1) = << >>)
      BY <2>4
    <3>2. wr.i + Len(Rsp(1)') + Len(Req(1)') = wr.i + Len(Rsp(1)) + Len(Req(1))
      BY <2>1, <2>3, <2>4
    <3>3. StoreStage
      BY <1>3 DEF StorePath
    <3>4. QED
      BY <3>1, <3>2, <3>3 DEF StoreStage
  <2>6. Served(Req(1), Rsp(1), WordLoads(wr.burst), wr.i)'
    BY <2>3 DEF F, Served, Fits, Runs, WordLoads, WordAddr, ByteAddr
  <2>7. QED
    BY <1>3, <2>5, <2>6 DEF StorePath
<1>4. QED
  BY <1>1, <1>2, <1>3 DEF Ids

(* A core takes a request: the sides are used as before. *)
LEMMA TakesKeepsSides ==
    ASSUME MemShape, SideUse, NEW s \in Ids, CoreTakes(s), UNCHANGED waiting
    PROVE  SideUse'
<1> DEFINE q == Req(s)
<1>1. q # << >> /\ IsQueue(q) /\ Req(s)' = Tail(q)
  BY Parts DEF CoreTakes
<1>2. ASSUME NEW t, AllOf(Req(s), t) PROVE Head(Req(s)).type = t /\ AllOf(Req(s)', t)
  <2>1. AllOf(q, t)
    BY <1>2
  <2> HIDE DEF q
  <2>2. Head(q).type = t /\ AllOf(Tail(q), t)
    BY <1>1, <2>1, AllOfTail
  <2>3. QED
    BY <1>1, <2>2 DEF q
<1> HIDE DEF q
<1>3. CASE s = 0
  <2>1. UNCHANGED Req(1)
    BY <1>3 DEF CoreTakes
  <2>2. ASSUME "com" \notin waiting PROVE Rsp(0)' = << >> /\ AllOf(Req(0)', "store")
    <3>1. AllOf(Req(0), "store") /\ Rsp(0) = << >>
      BY <2>2 DEF SideUse
    <3>2. Head(Req(0)).type = "store" /\ AllOf(Req(0)', "store")
      BY <1>2, <1>3, <3>1
    <3>3. QED
      BY <1>3, <3>1, <3>2 DEF CoreTakes
  <2>3. QED
    BY <2>1, <2>2 DEF SideUse, AllOf
<1>4. CASE s = 1
  <2>1. UNCHANGED <<Req(0), Rsp(0)>>
    BY <1>4 DEF CoreTakes
  <2>2. \A t : AllOf(Req(1), t) => AllOf(Req(1)', t)
    BY <1>2, <1>4
  <2>3. QED
    BY <2>1, <2>2 DEF SideUse, AllOf
<1>5. QED
  BY <1>3, <1>4 DEF Ids

(* A core takes a beat of the computation. *)
LEMMA TakesKeepsBeats ==
    ASSUME MemShape, ComShape, ComBeats, SideUse, NEW s \in Ids, CoreTakes(s),
           UNCHANGED <<comState, waiting>>
    PROVE  ComBeats' /\ Taken' = Taken
<1>1. CASE s = 1
  <2>1. UNCHANGED <<Req(0), Rsp(0)>>
    BY <1>1 DEF CoreTakes
  <2>2. QED
    BY <2>1, BeatsSame, AnswersSame DEF comState
<1>2. CASE s = 0 /\ "com" \in waiting
  <2>1. 0 \in Ids /\ CoreTakes(0) /\ Answers \in Int /\ Answers >= 0
        /\ Served(Req(0), Rsp(0), BeatLoads, Answers)
    <3>1. IsQueue(Req(0)) /\ IsQueue(Rsp(0)) /\ 0 \in Ids
      BY <1>2, Parts DEF Ids
    <3>2. Len(Req(0)) \in Nat /\ Len(Rsp(0)) \in Nat
      BY <3>1, QueueIs
    <3>3. Issued \in Int
      BY NAssumption, EntriesAssumption DEF Issued, ComShape, M
    <3>4. QED
      BY <1>2, <3>1, <3>2, <3>3 DEF ComBeats, Answers
  <2> DEFINE i == Answers
  <2>2. i \in Nat /\ Served(Req(0), Rsp(0), BeatLoads, i)
    BY <2>1
  <2> HIDE DEF i
  <2>3. /\ Served(Req(0)', Rsp(0)', BeatLoads, i)
        /\ Len(Rsp(0)') = Len(Rsp(0)) + 1 /\ Len(Req(0)') = Len(Req(0)) - 1
    BY <2>1, <2>2, BeatSpread, CoreServes
  <2>4. Answers' = Answers
    <3>1. IsQueue(Req(0)) /\ IsQueue(Rsp(0))
      BY <2>1, Parts
    <3>2. Len(Req(0)) \in Nat /\ Len(Rsp(0)) \in Nat
      BY <3>1, QueueIs
    <3>3. Issued \in Int /\ Issued' = Issued
      BY NAssumption, EntriesAssumption DEF Issued, ComShape, M, Running, comState
    <3>4. QED
      BY <2>3, <3>2, <3>3 DEF Answers
  <2>5. Served(Req(0), Rsp(0), BeatLoads, Answers)'
    BY <2>3, <2>4 DEF i, Served, Fits, Runs, BeatLoads, Beat, InBeat, comState
  <2>6. QED
    BY <1>2, <2>1, <2>4, <2>5 DEF ComBeats, Taken
<1>3. CASE s = 0 /\ "com" \notin waiting
  BY <1>3 DEF ComBeats, Taken
<1>4. QED
  BY <1>1, <1>2, <1>3 DEF Ids

(* A step of the memory. *)
LEMMA MemoryKeepsShape ==
    ASSUME Shape, FlipShape, MemoryStep
    PROVE  Shape'
<1>0. /\ MemShape /\ Exclusive /\ PortTypes /\ FlipAlone /\ Tokens /\ MasterShape /\ StorePath
      /\ SideUse /\ ComShape /\ ComBeats /\ ArrayShape /\ ComCount
  BY DEF Shape
<1>1. /\ MemShape' /\ Exclusive' /\ UNCHANGED clientVars
      /\ UNCHANGED memoryView \/ \E s \in Ids : CoreTakes(s)
  BY <1>0, MemoryMoves
<1>2. UNCHANGED <<start, irq, waiting, len, M, rd, wr, trig, wq, rq, start_wr, ws, comState, arrayState, ctr>>
  BY <1>1 DEF clientVars, axiVars, setupVars, hostVars, comState, arrayState, M
<1>3. PortTypes' /\ FlipAlone'
  BY <1>0, MemoryKeepsPorts, MemoryKeepsAlone
<1>4. Tokens' /\ MasterShape' /\ ComShape' /\ ArrayShape'
  BY <1>0, <1>2, BusySame, TokensSame, MasterSame, ComShapeSame, ArraySame
<1>5. StorePath' /\ SideUse' /\ ComBeats' /\ Taken' = Taken
  <2>1. CASE UNCHANGED memoryView
    <3>1. UNCHANGED <<Req(0), Rsp(0), Req(1), Rsp(1)>>
      BY <2>1 DEF memoryView
    <3>2. QED
      BY <1>0, <1>2, <3>1, StoreSame, SideSame, BeatsSame, AnswersSame
  <2>2. CASE \E s \in Ids : CoreTakes(s)
    BY <1>0, <1>2, <2>2, TakesKeepsStore, TakesKeepsSides, TakesKeepsBeats
  <2>3. QED
    BY <1>1, <2>1, <2>2
<1>6. ComCount'
  BY <1>0, <1>2, <1>5, CountSame
<1>7. QED
  BY <1>1, <1>3, <1>4, <1>5, <1>6 DEF Shape

-----------------------------------------------------------------------------
(* Triggers and interrupts *)

(* A channel with one trigger. *)
LEMMA OneToken ==
    \A e : <<e>> # << >> /\ Head(<<e>>) = e /\ Tail(<<e>>) = << >> /\ Append(<< >>, e) = <<e>>
OBVIOUS

(* A unit takes its trigger. *)
LEMMA TokenTaken ==
    ASSUME Tokens, NEW u \in Units, start[u] # << >>, start' = [start EXCEPT ![u] = Tail(@)],
           UNCHANGED <<irq, waiting, len>>, Busy(u)',
           \A v \in Units : v # u => (Busy(v)' <=> Busy(v))
    PROVE  Tokens'
<1>1. Token(u) /\ start[u] = <<len[u]>> /\ u \in waiting /\ irq[u] = << >>
  BY DEF Tokens, Token
<1>2. /\ start' = [v \in Units |-> start'[v]] /\ start'[u] = << >>
      /\ \A v \in Units : v # u => start'[v] = start[v]
  BY <1>1, OneToken DEF Tokens
<1>3. ASSUME NEW v \in Units PROVE Token(v)'
  <2>1. CASE v = u
    BY <1>1, <1>2, <2>1 DEF Token
  <2>2. CASE v # u
    BY <1>2, <2>2 DEF Tokens, Token
  <2>3. QED
    BY <2>1, <2>2
<1>4. QED
  BY <1>2, <1>3 DEF Tokens

(* A unit raises its interrupt. *)
LEMMA TokenRaised ==
    ASSUME Tokens, NEW u \in Units, Busy(u), irq' = [irq EXCEPT ![u] = Append(@, 1)],
           UNCHANGED <<start, waiting, len>>, ~Busy(u)',
           \A v \in Units : v # u => (Busy(v)' <=> Busy(v))
    PROVE  Tokens'
<1>1. Token(u) /\ irq[u] = << >> /\ u \in waiting /\ start[u] = << >>
  BY DEF Tokens, Token
<1>2. /\ irq' = [v \in Units |-> irq'[v]] /\ irq'[u] = <<1>>
      /\ \A v \in Units : v # u => irq'[v] = irq[v]
  BY <1>1, OneToken DEF Tokens
<1>3. ASSUME NEW v \in Units PROVE Token(v)'
  <2>1. CASE v = u
    BY <1>1, <1>2, <2>1, OneToken DEF Token
  <2>2. CASE v # u
    BY <1>2, <2>2 DEF Tokens, Token
  <2>3. QED
    BY <2>1, <2>2
<1>4. QED
  BY <1>2, <1>3 DEF Tokens

(* A unit that works is one the host waits for. *)
LEMMA WorkIsWaited ==
    ASSUME Tokens
    PROVE  /\ rd.at # "idle" => "load" \in waiting /\ "com" \notin waiting
           /\ wr.at # "idle" => "store" \in waiting /\ "com" \notin waiting
           /\ rq.at # "idle" \/ Running =>
                "com" \in waiting /\ "load" \notin waiting /\ "store" \notin waiting
           /\ \A u \in Units : start[u] # << >> \/ irq[u] # << >> => u \in waiting
<1>1. \A u \in Units : Token(u)
  BY DEF Tokens
<1>2. Token("load") /\ Token("store") /\ Token("com")
  BY <1>1 DEF Units
<1>3. QED
  BY <1>1, <1>2 DEF Tokens, Token, Busy

(* The length of a command, and its trigger. *)
LEMMA LengthIs ==
    ASSUME Tokens, NEW u \in Units
    PROVE  len[u] \in Nat /\ (u \in waiting => len[u] >= 1 /\ len[u] <= Entries)
BY EntriesAssumption DEF Tokens, Token

LEMMA TriggerIs ==
    ASSUME Tokens, NEW u \in Units, start[u] # << >>
    PROVE  /\ u \in waiting /\ start[u] = <<len[u]>> /\ Head(start[u]) = len[u]
           /\ len[u] \in Nat /\ len[u] >= 1 /\ len[u] <= Entries
<1>1. u \in waiting /\ start[u] = <<len[u]>>
  BY DEF Tokens, Token
<1>2. QED
  BY <1>1, LengthIs, OneToken

-----------------------------------------------------------------------------
(* The bursts of a master *)

(* A transfer has at least one word. *)
LEMMA WordsPositive ==
    ASSUME NEW m \in Nat
    PROVE  Words(m) \in Nat /\ (m >= 1 => Words(m) >= 1)
<1>1. N \in Nat /\ N >= 1 /\ W \in Nat /\ W >= 1 /\ W <= N
  BY NAssumption, WAssumption
<1>2. N * m \in Nat /\ (m >= 1 => N * m >= N)
  BY <1>1
<1> DEFINE a == N * m
           x == a \div W
           r == a % W
<1>3. a \in Nat /\ (m >= 1 => a >= W)
  BY <1>1, <1>2
<1> HIDE DEF a
<1>4. x \in Int /\ r \in Int /\ a = W * x + r /\ r < W /\ r >= 0
  BY <1>1, <1>3
<1>5. x = a \div W
  OBVIOUS
<1> HIDE DEF x, r
<1>8. ASSUME x <= -1 PROVE FALSE
  <2>1. W * x <= W * (-1)
    BY <1>1, <1>4, <1>8
  <2>2. W * x \in Int /\ W * (-1) = -W
    BY <1>1, <1>4
  <2>3. QED
    BY <1>1, <1>3, <1>4, <2>1, <2>2
<1>6. ASSUME m >= 1, x <= 0 PROVE FALSE
  <2>1. W * x <= W * 0
    BY <1>1, <1>4, <1>6
  <2>2. W * x \in Int /\ W * 0 = 0
    BY <1>1, <1>4
  <2>3. QED
    BY <1>1, <1>3, <1>4, <1>6, <2>1, <2>2
<1>7. QED
  BY <1>4, <1>6, <1>8 DEF Words, x, a

(* A master at the start of a transfer. *)
LEMMA BurstStarts ==
    ASSUME NEW m \in Nat
    PROVE
    /\ Idle \in Stage /\ Idle.at = "idle" /\ Burster(Idle, m)
    /\ \A v : m >= 1 /\ v = [Idle EXCEPT !.at = "addr", !.left = Words(m)] =>
         v.at = "addr" /\ v.burst = 0 /\ v.left = Words(m) /\ Burster(v, m)
<1>1. Idle \in Stage /\ Idle.at = "idle" /\ Burster(Idle, m)
  BY DEF Idle, Stage, Burster
<1>2. ASSUME m >= 1, NEW v, v = [Idle EXCEPT !.at = "addr", !.left = Words(m)]
      PROVE  v.at = "addr" /\ v.burst = 0 /\ v.left = Words(m) /\ Burster(v, m)
  <2>1. v = [at |-> "addr", left |-> Words(m), burst |-> 0, i |-> 0, len |-> 0]
    BY <1>2 DEF Idle
  <2> DEFINE w == Words(m)
  <2>2. w \in Nat /\ w >= 1
    BY <1>2, WordsPositive
  <2>3. v = [at |-> "addr", left |-> w, burst |-> 0, i |-> 0, len |-> 0]
    BY <2>1
  <2> HIDE DEF w
  <2>4. v.at = "addr" /\ v.burst = 0 /\ v.left = w /\ v \in Stage
    BY <2>2, <2>3 DEF Stage
  <2>5. 0 * Burst + w = w
    BY <2>2, BurstAssumption
  <2>6. w = Words(m)
    BY DEF w
  <2>7. QED
    BY <2>2, <2>4, <2>5, <2>6 DEF Burster
<1>3. QED
  BY <1>1, <1>2

(* A master sends the address of a burst. *)
LEMMA BurstGoesOut ==
    ASSUME NEW m \in Nat, NEW u, Burster(u, m), u.at = "addr", NEW v, v = NextBurst(u)
    PROVE  Burster(v, m) /\ v.at = "data" /\ v.i = 0 /\ v.burst = u.burst
<1>0. Burst \in Nat /\ Burst >= 1
  BY BurstAssumption
<1>1. u \in Stage /\ u.burst * Burst + u.left = Words(m) /\ u.left > 0
  BY DEF Burster, Stage
<1>2. u.left \in Nat /\ u.burst \in Nat /\ u.burst * Burst \in Nat
  BY <1>0, <1>1 DEF Stage
<1>3. /\ v.at = "data" /\ v.i = 0 /\ v.burst = u.burst /\ v.len = BurstLen(u.left)
      /\ v.left = IF u.left > Burst THEN u.left - Burst ELSE 0
  BY <1>1 DEF NextBurst, Stage
<1>4. BurstLen(u.left) \in Nat /\ v.left \in Nat
  BY <1>0, <1>1, <1>2, <1>3 DEF BurstLen
<1>5. v \in Stage
  <2>1. v = [at |-> "data", left |-> v.left, burst |-> u.burst, i |-> 0, len |-> BurstLen(u.left)]
    BY <1>1 DEF NextBurst, Stage
  <2>2. QED
    BY <1>2, <1>4, <2>1 DEF Stage
<1> DEFINE x == u.burst * Burst
           last == BurstLen(u.left)
<1>6. x \in Nat /\ x + u.left = Words(m) /\ Words(m) \in Nat
  BY <1>1, <1>2, WordsPositive
<1>7. last = IF u.left > Burst THEN Burst - 1 ELSE u.left - 1
  BY DEF BurstLen
<1> HIDE DEF x, last
<1>8. last < Burst /\ x + last + 1 + v.left = Words(m) /\ (v.left > 0 => last = Burst - 1)
  BY <1>0, <1>1, <1>2, <1>3, <1>6, <1>7
<1>9. QED
  BY <1>3, <1>4, <1>5, <1>8 DEF Burster, Stage, x, last

(* A master is done with a word. *)
LEMMA WordGoesOut ==
    ASSUME NEW m \in Nat, NEW u, Burster(u, m), u.at = "data", NEW v, v = NextWord(u)
    PROVE  /\ Burster(v, m)
           /\ u.i < u.len => v.at = "data" /\ v.i = u.i + 1 /\ v.burst = u.burst /\ v.len = u.len
           /\ ~(u.i < u.len) => v.at = (IF u.left > 0 THEN "addr" ELSE "irq") /\ u.i = u.len
                                /\ v.burst = u.burst + 1
<1>0. Burst \in Nat /\ Burst >= 1
  BY BurstAssumption
<1>1. /\ u \in Stage /\ u.i <= u.len /\ u.len < Burst
      /\ u.burst * Burst + u.len + 1 + u.left = Words(m)
      /\ u.left > 0 => u.len = Burst - 1
  BY DEF Burster, Stage
<1>2. /\ u.left \in Nat /\ u.burst \in Nat /\ u.i \in Nat /\ u.len \in Nat /\ u.burst * Burst \in Nat
  BY <1>0, <1>1 DEF Stage
<1>3. CASE u.i < u.len
  <2>1. v = [u EXCEPT !.i = @ + 1]
    BY <1>3 DEF NextWord
  <2>2. /\ v.at = "data" /\ v.i = u.i + 1 /\ v.burst = u.burst /\ v.len = u.len /\ v.left = u.left
        /\ v \in Stage
    BY <1>1, <1>2, <2>1 DEF Stage
  <2>3. v.i <= v.len
    BY <1>2, <1>3, <2>2
  <2>4. QED
    BY <1>1, <1>3, <2>2, <2>3 DEF Burster, Stage
<1>4. CASE ~(u.i < u.len)
  <2>1. v = [u EXCEPT !.burst = @ + 1, !.at = IF u.left > 0 THEN "addr" ELSE "irq"]
    BY <1>4 DEF NextWord
  <2>2. /\ v.at = (IF u.left > 0 THEN "addr" ELSE "irq")
        /\ v.i = u.i /\ v.burst = u.burst + 1 /\ v.len = u.len /\ v.left = u.left
    BY <1>1, <2>1 DEF Stage
  <2>3. v \in Stage
    <3>1. v = [at |-> IF u.left > 0 THEN "addr" ELSE "irq", left |-> u.left,
               burst |-> u.burst + 1, i |-> u.i, len |-> u.len]
      BY <1>1, <2>1 DEF Stage
    <3>2. u.burst + 1 \in Nat
      BY <1>2
    <3>3. QED
      BY <1>2, <3>1, <3>2 DEF Stage
  <2>4. u.i = u.len
    BY <1>1, <1>2, <1>4
  <2>5. (u.burst + 1) * Burst = u.burst * Burst + Burst
    BY <1>0, <1>2
  <2>6. u.left > 0 => (u.burst + 1) * Burst + u.left = Words(m)
    <3> DEFINE x == u.burst * Burst
               y == (u.burst + 1) * Burst
    <3>1. x \in Nat /\ y = x + Burst /\ x + u.len + 1 + u.left = Words(m)
      BY <1>1, <1>2, <2>5
    <3> HIDE DEF x, y
    <3>2. u.left > 0 => y + u.left = Words(m)
      BY <1>0, <1>1, <1>2, <3>1
    <3>3. QED
      BY <3>2 DEF y
  <2>7. QED
    BY <1>4, <2>2, <2>3, <2>4, <2>6 DEF Burster, Stage
<1>5. QED
  BY <1>3, <1>4

-----------------------------------------------------------------------------
(* A client and its side *)

(* The requests of a side are those of its ports and more. *)
LEMMA ReqParts ==
    ASSUME MemShape, NEW s \in Ids, NEW t, AllOf(Req(s), t)
    PROVE  AllOf(mem_req[2*s], t) /\ AllOf(mem_req[2*s+1], t)
<1> DEFINE A == req_inter[Core(s)]
           B == split_reg[Core(s)]
           C == mem_req[2*s]
           D == mem_req[2*s+1]
           CD == C \o D
           BCD == B \o CD
<1>1. IsQueue(A) /\ IsQueue(B) /\ IsQueue(C) /\ IsQueue(D) /\ IsQueue(CD) /\ IsQueue(BCD)
      /\ Req(s) = A \o BCD
  BY Parts DEF Req
<1> HIDE DEF A, B, C, D
<1>2. AllOf(A \o BCD, t)
  BY <1>1
<1> HIDE DEF BCD
<1>3. AllOf(BCD, t)
  BY <1>1, <1>2, AllOfCat
<1> HIDE DEF CD
<1>4. AllOf(B \o CD, t)
  BY <1>3 DEF BCD
<1>5. AllOf(CD, t)
  BY <1>1, <1>4, AllOfCat
<1>6. AllOf(C \o D, t)
  BY <1>5 DEF CD
<1>7. AllOf(C, t) /\ AllOf(D, t)
  BY <1>1, <1>6, AllOfCat
<1>8. QED
  BY <1>7 DEF C, D

(* The other port of a side is empty when the side serves only the one.  *)
LEMMA OtherPort ==
    ASSUME MemShape, PortTypes
    PROVE  /\ AllOf(Req(0), "store") => mem_req[1] = << >>
           /\ AllOf(Req(0), "load") => mem_req[0] = << >>
           /\ AllOf(Req(1), "store") => mem_req[3] = << >>
           /\ AllOf(Req(1), "load") => mem_req[2] = << >>
<1>1. 0 \in Ids /\ 1 \in Ids /\ 2*0 = 0 /\ 2*0+1 = 1 /\ 2*1 = 2 /\ 2*1+1 = 3
  BY DEF Ids
<1>2. \A p \in {0, 1, 2, 3} : IsQueue(mem_req[p])
  BY DEF MemShape, Channel
<1>3. \A t : AllOf(Req(0), t) => AllOf(mem_req[0], t) /\ AllOf(mem_req[1], t)
  BY <1>1, ReqParts
<1>4. \A t : AllOf(Req(1), t) => AllOf(mem_req[2], t) /\ AllOf(mem_req[3], t)
  BY <1>1, ReqParts
<1>5. \A p \in {0, 1, 2, 3} : AllOf(mem_req[p], "load") /\ AllOf(mem_req[p], "store") => mem_req[p] = << >>
  <2> SUFFICES ASSUME NEW p \in {0, 1, 2, 3}, AllOf(mem_req[p], "load"), AllOf(mem_req[p], "store")
               PROVE  mem_req[p] = << >>
    OBVIOUS
  <2> DEFINE q == mem_req[p]
  <2>1. IsQueue(q) /\ AllOf(q, "load") /\ AllOf(q, "store")
    BY <1>2
  <2> HIDE DEF q
  <2>2. q = << >>
    BY <2>1, NotBoth
  <2>3. QED
    BY <2>2 DEF q
<1>6. QED
  BY <1>3, <1>4, <1>5 DEF PortTypes

(* A client pushes a request. *)
LEMMA AskKeeps ==
    ASSUME MemShape, Exclusive, PortTypes, FlipAlone, waiting # {}, NEW s \in Ids,
           NEW p \in {2*s, 2*s+1}, NEW req, HasRoom(mem_req[p]),
           \A d \in {2*s, 2*s+1} : d # p => mem_req[d] = << >>,
           mem_req' = [mem_req EXCEPT ![p] = Append(@, req)],
           req.type = (IF p \in {0, 2} THEN "store" ELSE "load"),
           UNCHANGED <<req_inter, split_id, split_reg, flipVars, mergeVars, coreVars, id, waiting>>
    PROVE  MemShape' /\ Exclusive' /\ PortTypes' /\ FlipAlone' /\ Asks(s, req)
<1>1. MemShape' /\ Exclusive' /\ Asks(s, req)
  BY RequestMade DEF mergeVars, coreVars
<1>2. FlipAlone'
  BY AloneSame DEF flipVars, mergeVars
<1>3. p \in 0 .. 3
  BY DEF Ids
<1>4. \A d \in 0 .. 3 : mem_req'[d] = IF d = p THEN Append(mem_req[p], req) ELSE mem_req[d]
  BY <1>3 DEF MemShape
<1> DEFINE t == IF p \in {0, 2} THEN "store" ELSE "load"
           q == mem_req[p]
<1>5. IsQueue(q) /\ AllOf(q, t)
  BY <1>3 DEF MemShape, Channel, PortTypes
<1>6. AllOf(<<req>>, t) /\ IsQueue(<<req>>)
  BY AllOfOne, QueueOf
<1> HIDE DEF q, t
<1>7. Append(q, req) = q \o <<req>> /\ AllOf(q \o <<req>>, t)
  BY <1>5, <1>6, QueueAppend, AllOfCat
<1>8. AllOf(mem_req'[p], t)
  BY <1>3, <1>4, <1>7 DEF q
<1>9. \A d \in 0 .. 3 : d # p => mem_req'[d] = mem_req[d]
  BY <1>4
<1>10. /\ AllOf(mem_req'[0], "store") /\ AllOf(mem_req'[1], "load")
       /\ AllOf(mem_req'[2], "store") /\ AllOf(mem_req'[3], "load")
  <2>1. \A d \in {0, 1, 2, 3} : AllOf(mem_req'[d], IF d \in {0, 2} THEN "store" ELSE "load")
    <3> SUFFICES ASSUME NEW d \in {0, 1, 2, 3}
                 PROVE  AllOf(mem_req'[d], IF d \in {0, 2} THEN "store" ELSE "load")
      OBVIOUS
    <3>1. CASE d = p
      BY <1>8, <3>1 DEF t
    <3>2. CASE d # p
      <4>1. mem_req'[d] = mem_req[d]
        BY <1>9, <3>2
      <4>2. QED
        BY <4>1 DEF PortTypes
    <3>3. QED
      BY <3>1, <3>2
  <2>2. QED
    BY <2>1
<1>11. PortTypes'
  BY <1>10 DEF PortTypes, AllOf
<1>12. QED
  BY <1>1, <1>2, <1>11

(* A client pops an answer. *)
LEMMA GetKeeps ==
    ASSUME MemShape, Exclusive, PortTypes, FlipAlone, waiting # {}, NEW s \in Ids,
           HasMsg(mem_rsp[s]), mem_rsp' = [mem_rsp EXCEPT ![s] = Tail(@)],
           UNCHANGED <<rsp_inter, merge_id, merge_reg, flipVars, splitVars, coreVars, id, waiting>>
    PROVE  MemShape' /\ Exclusive' /\ PortTypes' /\ FlipAlone' /\ Gets(s)
<1>1. MemShape' /\ Exclusive' /\ Gets(s)
  BY AnswerTaken DEF splitVars, coreVars
<1>2. FlipAlone'
  BY AloneSame DEF flipVars, splitVars
<1>3. PortTypes'
  BY PortSame DEF splitVars
<1>4. QED
  BY <1>1, <1>2, <1>3

(* A step that leaves the memory alone. *)
LEMMA PipesKeep ==
    ASSUME Shape, UNCHANGED <<memoryVars, id>>
    PROVE  /\ MemShape' /\ Exclusive' /\ PortTypes'
           /\ UNCHANGED <<Req(0), Req(1), Rsp(0), Rsp(1)>>
           /\ (waiting # {} \/ UNCHANGED waiting) => FlipAlone'
<1>1. MemShape' /\ Exclusive' /\ UNCHANGED memoryView
  BY PipesSame DEF Shape, pipes, memoryVars, splitVars, mergeVars, coreVars
<1>2. PortTypes'
  BY PortSame DEF Shape, memoryVars, splitVars
<1>3. UNCHANGED <<Req(0), Req(1), Rsp(0), Rsp(1)>>
  BY <1>1 DEF memoryView
<1>4. UNCHANGED <<flip_mem, flip_to, flip_inter, split_id, merge_id, id>>
  BY DEF memoryVars, flipVars, splitVars, mergeVars
<1>5. waiting # {} => FlipAlone'
  BY <1>4, AloneSame DEF Shape
<1>6. UNCHANGED waiting => FlipAlone'
  <2> SUFFICES ASSUME UNCHANGED waiting PROVE FlipAlone'
    OBVIOUS
  <2>1. FlipAlone
    BY DEF Shape
  <2>2. QED
    BY <1>3, <1>4, <2>1 DEF FlipAlone, AtRest, NoFlip, Ids
<1>7. QED
  BY <1>1, <1>2, <1>3, <1>5, <1>6

(* The computation is not touched by the masters, nor they by it.  *)
LEMMA ComSame ==
    ASSUME Shape, UNCHANGED <<comState, arrayState, waiting, Req(0), Rsp(0)>>
    PROVE  ComShape' /\ ComBeats' /\ ArrayShape' /\ ComCount'
<1>1. UNCHANGED <<rq, start_wr, ws, ctr, M>>
  BY DEF comState
<1>2. ComShape' /\ ComBeats' /\ ArrayShape' /\ Taken' = Taken
  BY <1>1, ComShapeSame, BeatsSame, ArraySame, AnswersSame DEF Shape
<1>3. ComCount'
  BY <1>1, <1>2, CountSame DEF Shape
<1>4. QED
  BY <1>2, <1>3

(* A step that leaves the masters alone. *)
LEMMA MastersSame ==
    ASSUME Shape, UNCHANGED <<rd, wr, wq, trig, len, Req(1), Rsp(1)>>
    PROVE  MasterShape' /\ StorePath'
BY MasterSame, StoreSame DEF Shape

-----------------------------------------------------------------------------
(* Steps of InputAxi *)

(* MasterRead takes its trigger, sends an address, or raises its interrupt. *)
LEMMA MasterReadKeeps ==
    ASSUME Shape, MasterReadTrig \/ MasterReadAddr
    PROVE  Shape'
<1>0. /\ Tokens /\ MasterShape /\ SideUse
      /\ UNCHANGED <<memoryVars, id, waiting, len, M, wr, trig, wq, rq, start_wr, ws, comState, arrayState>>
  BY DEF Shape, MasterReadTrig, MasterReadAddr, setupVars, hostVars, comState, arrayState, M
<1>1. /\ MemShape' /\ Exclusive' /\ PortTypes' /\ FlipAlone'
      /\ UNCHANGED <<Req(0), Req(1), Rsp(0), Rsp(1)>>
  BY <1>0, PipesKeep
<1>2. SideUse' /\ ComShape' /\ ComBeats' /\ ArrayShape' /\ ComCount' /\ StorePath'
  BY <1>0, <1>1, SideSame, ComSame, StoreSame DEF Shape
<1>3. Burster(rd, len["load"]) /\ Burster(wr, len["store"])
  BY <1>0 DEF MasterShape
<1>4. \A u \in Units : u # "load" => (Busy(u)' <=> Busy(u))
  BY <1>0 DEF Busy, Running
<1>5. /\ Busy("load") <=> rd.at # "idle"
      /\ Busy("load")' <=> rd'.at # "idle"
      /\ "load" \in Units
  BY DEF Busy, Units
<1>6. CASE TakeStart("load", rd, rd')
  <2>1. Burster(rd', len["load"]) /\ rd'.at = "addr"
    BY <1>0, <1>6, TriggerIs, BurstStarts DEF TakeStart, HasMsg, Units
  <2>2. Tokens'
    BY <1>0, <1>4, <1>5, <1>6, <2>1, TokenTaken DEF TakeStart, HasMsg
  <2>3. MasterShape'
    BY <1>0, <1>3, <2>1 DEF MasterShape, Burster
  <2>4. QED
    BY <1>1, <1>2, <2>2, <2>3 DEF Shape
<1>7. CASE RaiseIRQ("load", rd, rd')
  <2>1. Burster(rd', len["load"]) /\ rd'.at = "idle" /\ rd.at # "idle"
    BY <1>0, <1>7, LengthIs, BurstStarts DEF RaiseIRQ, Units
  <2>2. Tokens'
    BY <1>0, <1>4, <1>5, <1>7, <2>1, TokenRaised DEF RaiseIRQ
  <2>3. MasterShape'
    BY <1>0, <1>3, <2>1 DEF MasterShape, Burster
  <2>4. QED
    BY <1>1, <1>2, <2>2, <2>3 DEF Shape
<1>8. CASE MasterReadAddr
  <2>1. Burster(rd', len["load"]) /\ rd'.at = "data" /\ rd.at = "addr"
    BY <1>0, <1>3, <1>8, LengthIs, BurstGoesOut DEF MasterReadAddr, Units
  <2>2. Tokens'
    <3>1. \A u \in Units : Busy(u)' <=> Busy(u)
      BY <1>4, <1>5, <2>1
    <3>2. QED
      BY <1>0, <1>8, <3>1, TokensSame DEF MasterReadAddr
  <2>3. MasterShape'
    BY <1>0, <1>3, <2>1 DEF MasterShape, Burster
  <2>4. QED
    BY <1>1, <1>2, <2>2, <2>3 DEF Shape
<1>9. QED
  BY <1>6, <1>7, <1>8 DEF MasterReadTrig

(* A master in a burst does not fall idle. *)
LEMMA NotIdle ==
    ASSUME NEW m \in Nat, NEW u, Burster(u, m), u.at = "data"
    PROVE  NextWord(u).at # "idle" /\ Burster(NextWord(u), m)
BY WordGoesOut

(* MasterRead stores a word. *)
LEMMA MasterReadDataKeeps ==
    ASSUME Shape, MasterReadData
    PROVE  Shape'
<1>0. /\ Tokens /\ MasterShape /\ SideUse /\ MemShape /\ PortTypes /\ Exclusive /\ FlipAlone
      /\ UNCHANGED <<req_inter, split_id, split_reg, flipVars, mergeVars, coreVars, id, waiting, len, M,
                     start, irq, wr, trig, wq, rq, start_wr, ws, comState, arrayState>>
      /\ rd.at = "data" /\ rd' = NextWord(rd) /\ HasRoom(mem_req[0])
  BY DEF Shape, MasterReadData, setupVars, hostVars, comState, arrayState, M
<1>1. PICK req : req.type = "store" /\ mem_req' = [mem_req EXCEPT ![0] = Append(@, req)]
  BY DEF MasterReadData, Store
<1>2. "load" \in waiting /\ "com" \notin waiting
  BY <1>0, WorkIsWaited
<1>3. AllOf(Req(0), "store") /\ Rsp(0) = << >> /\ mem_req[1] = << >>
  BY <1>0, <1>2, OtherPort DEF SideUse
<1>4. /\ MemShape' /\ Exclusive' /\ PortTypes' /\ FlipAlone' /\ Asks(0, req)
  <2>1. 0 \in Ids /\ 0 \in {2*0, 2*0+1} /\ waiting # {}
    BY <1>2 DEF Ids
  <2>2. \A d \in {2*0, 2*0+1} : d # 0 => mem_req[d] = << >>
    BY <1>3
  <2>3. QED
    BY <1>0, <1>1, <2>1, <2>2, AskKeeps
<1>5. Req(0)' = Req(0) \o <<req>> /\ UNCHANGED <<Rsp(0), Req(1), Rsp(1)>>
  BY <1>4 DEF Asks
<1>6. AllOf(Req(0)', "store")
  <2> DEFINE q == Req(0)
  <2>1. IsQueue(q) /\ AllOf(q, "store")
    BY <1>0, <1>3, Parts DEF Ids
  <2>2. IsQueue(<<req>>) /\ AllOf(<<req>>, "store")
    BY <1>1, QueueOf, AllOfOne
  <2> HIDE DEF q
  <2>3. AllOf(q \o <<req>>, "store")
    BY <2>1, <2>2, AllOfCat
  <2>4. QED
    BY <1>5, <2>3 DEF q
<1>7. SideUse'
  BY <1>0, <1>2, <1>3, <1>5, <1>6 DEF SideUse, AllOf
<1>8. StorePath'
  BY <1>0, <1>5, StoreSame DEF Shape
<1>9. Burster(rd', len["load"]) /\ rd'.at # "idle"
  BY <1>0, LengthIs, NotIdle DEF MasterShape, Units
<1>10. MasterShape'
  BY <1>0, <1>9 DEF MasterShape, Burster
<1>11. Tokens'
  <2>1. \A u \in Units : Busy(u)' <=> Busy(u)
    BY <1>0, <1>9 DEF Busy, Running
  <2>2. QED
    BY <1>0, <2>1, TokensSame
<1>12. ComShape' /\ ComBeats' /\ ArrayShape' /\ ComCount'
  <2>1. "com" \notin waiting'
    BY <1>0, <1>2
  <2>2. ComShape' /\ ArrayShape'
    BY <1>0, ComShapeSame, ArraySame DEF Shape
  <2>3. ComBeats' /\ Taken' = Taken
    BY <1>2, <2>1 DEF ComBeats, Taken
  <2>4. UNCHANGED <<ws, ctr, arrayState, M>> /\ ComCount
    BY <1>0 DEF Shape, comState
  <2>5. ComCount'
    BY <2>3, <2>4, CountSame
  <2>6. QED
    BY <2>2, <2>3, <2>5
<1>13. QED
  BY <1>4, <1>7, <1>8, <1>10, <1>11, <1>12 DEF Shape

(* MasterWrite takes its trigger, sends an address, or raises its           *)
(* interrupt.                                                               *)
LEMMA MasterWriteKeeps ==
    ASSUME Shape, MasterWriteTrig \/ MasterWriteAddr
    PROVE  Shape'
<1>0. /\ Tokens /\ MasterShape /\ SideUse /\ StorePath
      /\ UNCHANGED <<memoryVars, id, waiting, len, M, rd, wq, rq, start_wr, ws, comState, arrayState>>
  BY DEF Shape, MasterWriteTrig, MasterWriteAddr, setupVars, hostVars, comState, arrayState, M
<1>1. /\ MemShape' /\ Exclusive' /\ PortTypes' /\ FlipAlone'
      /\ UNCHANGED <<Req(0), Req(1), Rsp(0), Rsp(1)>>
  BY <1>0, PipesKeep
<1>2. SideUse' /\ ComShape' /\ ComBeats' /\ ArrayShape' /\ ComCount'
  BY <1>0, <1>1, SideSame, ComSame
<1>3. Burster(rd, len["load"]) /\ Burster(wr, len["store"])
  BY <1>0 DEF MasterShape
<1>4. \A u \in Units : u # "store" => (Busy(u)' <=> Busy(u))
  BY <1>0 DEF Busy, Running
<1>5. /\ Busy("store") <=> wr.at # "idle"
      /\ Busy("store")' <=> wr'.at # "idle"
      /\ "store" \in Units
  BY DEF Busy, Units
<1>6. wr.at # "data"
  BY DEF MasterWriteTrig, MasterWriteAddr, TakeStart, RaiseIRQ
<1>7. trig = << >> /\ wq.at = "idle" /\ Rsp(1) = << >> /\ AllOf(Req(1), "store") /\ wq \in Stage
  BY <1>0, <1>6 DEF StorePath
<1>8. wr'.at # "data" /\ UNCHANGED trig => StorePath'
  BY <1>0, <1>1, <1>7 DEF StorePath, AllOf
<1>9. CASE TakeStart("store", wr, wr') /\ MasterWriteTrig
  <2>1. Burster(wr', len["store"]) /\ wr'.at = "addr" /\ UNCHANGED trig
    BY <1>0, <1>9, TriggerIs, BurstStarts DEF TakeStart, HasMsg, MasterWriteTrig, Units
  <2>2. Tokens'
    BY <1>0, <1>4, <1>5, <1>9, <2>1, TokenTaken DEF TakeStart, HasMsg
  <2>3. MasterShape'
    BY <1>0, <1>3, <2>1 DEF MasterShape, Burster
  <2>4. QED
    BY <1>1, <1>2, <1>8, <2>1, <2>2, <2>3 DEF Shape
<1>10. CASE RaiseIRQ("store", wr, wr') /\ MasterWriteTrig
  <2>1. Burster(wr', len["store"]) /\ wr'.at = "idle" /\ wr.at # "idle" /\ UNCHANGED trig
    BY <1>0, <1>10, LengthIs, BurstStarts DEF RaiseIRQ, MasterWriteTrig, Units
  <2>2. Tokens'
    BY <1>0, <1>4, <1>5, <1>10, <2>1, TokenRaised DEF RaiseIRQ
  <2>3. MasterShape'
    BY <1>0, <1>3, <2>1 DEF MasterShape, Burster
  <2>4. QED
    BY <1>1, <1>2, <1>8, <2>1, <2>2, <2>3 DEF Shape
<1>11. CASE MasterWriteAddr
  <2>1. Burster(wr', len["store"]) /\ wr'.at = "data" /\ wr'.i = 0 /\ wr.at = "addr" /\ UNCHANGED <<start, irq>>
    BY <1>0, <1>3, <1>11, LengthIs, BurstGoesOut DEF MasterWriteAddr, Units
  <2>2. trig' = <<wr'>>
    <3>1. trig' = Append(<< >>, wr')
      BY <1>7, <1>11 DEF MasterWriteAddr
    <3>2. \A e : Append(<< >>, e) = <<e>>
      OBVIOUS
    <3>3. QED
      BY <3>1, <3>2
  <2>3. Req(1) = << >>
    <3>1. "store" \in waiting
      BY <1>0, <2>1, WorkIsWaited
    <3>2. AllOf(Req(1), "load")
      BY <1>0, <3>1 DEF SideUse
    <3>3. IsQueue(Req(1))
      BY Parts DEF Shape, Ids
    <3>4. QED
      BY <1>7, <3>2, <3>3, NotBoth
  <2>4. StorePath'
    <3>1. StoreStage'
      BY <1>0, <1>1, <1>7, <2>1, <2>2, <2>3 DEF StoreStage
    <3>2. Served(Req(1)', Rsp(1)', WordLoads(wr'.burst), wr'.i)
      BY <1>1, <1>7, <2>3, ServedEmpty
    <3>3. Served(Req(1), Rsp(1), WordLoads(wr.burst), wr.i)'
      BY <3>2 DEF Served, Fits, Runs, WordLoads, WordAddr, ByteAddr
    <3>4. QED
      BY <1>0, <1>7, <2>1, <3>1, <3>3 DEF StorePath
  <2>5. Tokens'
    <3>1. \A u \in Units : Busy(u)' <=> Busy(u)
      BY <1>4, <1>5, <2>1
    <3>2. QED
      BY <1>0, <2>1, <3>1, TokensSame
  <2>6. MasterShape'
    BY <1>0, <1>3, <2>1 DEF MasterShape, Burster
  <2>7. QED
    BY <1>1, <1>2, <2>4, <2>5, <2>6 DEF Shape
<1>12. QED
  BY <1>9, <1>10, <1>11 DEF MasterWriteTrig

(* While MasterWrite works no computation does. *)
LEMMA NotRunning ==
    ASSUME Shape, wr.at = "data"
    PROVE  /\ "store" \in waiting /\ "com" \notin waiting
           /\ AllOf(Req(1), "load") /\ mem_req[2] = << >>
           /\ wr \in Stage /\ wr.i <= wr.len /\ wr.i \in Nat /\ wr.len \in Nat /\ wr.burst \in Nat
           /\ IsLoads(WordLoads(wr.burst))
           /\ StoreStage /\ Served(Req(1), Rsp(1), WordLoads(wr.burst), wr.i) /\ wq \in Stage
           /\ IsQueue(Req(1)) /\ IsQueue(Rsp(1)) /\ Len(Req(1)) \in Nat /\ Len(Rsp(1)) \in Nat
<1>1. Tokens /\ SideUse /\ MasterShape /\ MemShape /\ PortTypes /\ StorePath
  BY DEF Shape
<1>2. "store" \in waiting /\ "com" \notin waiting
  BY <1>1, WorkIsWaited
<1>3. AllOf(Req(1), "load")
  BY <1>1, <1>2 DEF SideUse
<1>4. mem_req[2] = << >>
  BY <1>1, <1>3, OtherPort
<1>5. wr \in Stage /\ wr.i <= wr.len
  BY <1>1 DEF MasterShape, Burster
<1>6. wr.i \in Nat /\ wr.len \in Nat /\ wr.burst \in Nat
  BY <1>5 DEF Stage
<1>7. StoreStage /\ Served(Req(1), Rsp(1), WordLoads(wr.burst), wr.i) /\ wq \in Stage
  BY <1>1 DEF StorePath
<1>8. IsQueue(Req(1)) /\ IsQueue(Rsp(1))
  BY <1>1, Parts DEF Ids
<1>9. QED
  BY <1>2, <1>3, <1>4, <1>5, <1>6, <1>7, <1>8, WordSpread, QueueIs

(* MasterWriteReq takes a burst. *)
LEMMA WriteReqTrigKeeps ==
    ASSUME Shape, MasterWriteReqTrig
    PROVE  Shape'
<1>0. /\ Tokens /\ MasterShape /\ SideUse /\ StorePath
      /\ UNCHANGED <<memoryVars, id, waiting, len, M, start, irq, rd, wr, rq, start_wr, ws, comState, arrayState>>
      /\ wq.at = "idle" /\ trig # << >> /\ wq' = Head(trig) /\ trig' = Tail(trig)
  BY DEF Shape, MasterWriteReqTrig, setupVars, hostVars, comState, arrayState, HasMsg, M
<1>1. /\ MemShape' /\ Exclusive' /\ PortTypes' /\ FlipAlone'
      /\ UNCHANGED <<Req(0), Req(1), Rsp(0), Rsp(1)>>
  BY <1>0, PipesKeep
<1>2. SideUse' /\ ComShape' /\ ComBeats' /\ ArrayShape' /\ ComCount'
  BY <1>0, <1>1, SideSame, ComSame
<1>3. MasterShape' /\ Tokens'
  BY <1>0, MasterSame, BusySame, TokensSame
<1>4. wr.at = "data" /\ StoreStage /\ Served(Req(1), Rsp(1), WordLoads(wr.burst), wr.i)
  BY <1>0 DEF StorePath
<1>5. trig = <<wr>> /\ wr.i = 0 /\ Rsp(1) = << >> /\ Req(1) = << >>
  BY <1>0, <1>4 DEF StoreStage
<1>6. wr \in Stage /\ wr.i <= wr.len
  BY <1>0, <1>4 DEF MasterShape, Burster
<1>7. wq' = wr /\ trig' = << >>
  <2>1. \A e : Head(<<e>>) = e /\ Tail(<<e>>) = << >>
    OBVIOUS
  <2>2. QED
    BY <1>0, <1>5, <2>1
<1>8. StoreStage'
  <2>1. wr.i + 0 + 0 = wr.i
    BY <1>5
  <2>2. Len(Rsp(1)') = 0 /\ Len(Req(1)') = 0
    BY <1>1, <1>5, QueueOf
  <2>3. wr'.i + Len(Rsp(1)') + Len(Req(1)') = wq'.i
    BY <1>0, <1>7, <2>1, <2>2
  <2>4. /\ trig' = << >> /\ wq'.at = "data" /\ wq'.burst = wr'.burst /\ wq'.len = wr'.len
        /\ wq'.i <= wq'.len
    BY <1>0, <1>4, <1>6, <1>7
  <2>5. QED
    BY <2>3, <2>4 DEF StoreStage
<1>9. Served(Req(1), Rsp(1), WordLoads(wr.burst), wr.i)'
  BY <1>0, <1>1, <1>4, SMTT(60) DEF Served, Fits, Runs, WordLoads, WordAddr, ByteAddr
<1>10. StorePath'
  BY <1>0, <1>4, <1>6, <1>7, <1>8, <1>9 DEF StorePath
<1>11. QED
  BY <1>1, <1>2, <1>3, <1>10 DEF Shape

(* MasterWriteReq asks for a word. *)
LEMMA WriteReqPushKeeps ==
    ASSUME Shape, MasterWriteReqPush
    PROVE  Shape'
<1>0. /\ Tokens /\ MasterShape /\ SideUse /\ StorePath /\ MemShape /\ PortTypes /\ Exclusive /\ FlipAlone
      /\ UNCHANGED <<req_inter, split_id, split_reg, flipVars, mergeVars, coreVars, id, waiting, len, M,
                     start, irq, rd, wr, trig, rq, start_wr, ws, comState, arrayState>>
      /\ wq.at = "data" /\ HasRoom(mem_req[3])
      /\ wq' = IF wq.i < wq.len THEN [wq EXCEPT !.i = @ + 1] ELSE Idle
  BY DEF Shape, MasterWriteReqPush, setupVars, hostVars, comState, arrayState, M
<1> DEFINE F == WordLoads(wr.burst)
           req == F[wq.i]
<1>1. wr.at = "data"
  BY <1>0 DEF StorePath
<1>2. /\ "store" \in waiting /\ "com" \notin waiting
      /\ AllOf(Req(1), "load") /\ mem_req[2] = << >>
      /\ wr.i <= wr.len /\ wr.i \in Nat /\ wr.len \in Nat
      /\ StoreStage /\ Served(Req(1), Rsp(1), F, wr.i) /\ wq \in Stage
      /\ IsQueue(Req(1)) /\ IsQueue(Rsp(1)) /\ Len(Req(1)) \in Nat /\ Len(Rsp(1)) \in Nat
      /\ IsLoads(F)
  BY <1>1, NotRunning
<1>3. /\ trig = << >> /\ wq.burst = wr.burst /\ wq.len = wr.len
      /\ wr.i + Len(Rsp(1)) + Len(Req(1)) = wq.i /\ wq.i <= wq.len
  BY <1>0, <1>2 DEF StoreStage
<1>4. wq.i \in Nat /\ wq.len \in Nat
  BY <1>2 DEF Stage
<1>5. req.type = "load"
  BY <1>2, <1>4 DEF IsLoads
<1>6. mem_req' = [mem_req EXCEPT ![3] = Append(@, req)]
  <2>1. req = Load([j \in 0 .. W-1 |-> ByteAddr(wq.burst, wq.i, j)])
    BY <1>3, <1>4 DEF WordLoads, WordAddr
  <2> HIDE DEF req
  <2>2. QED
    BY <2>1 DEF MasterWriteReqPush
<1> HIDE DEF req
<1>7. /\ MemShape' /\ Exclusive' /\ PortTypes' /\ FlipAlone' /\ Asks(1, req)
  <2>1. 1 \in Ids /\ 3 \in {2*1, 2*1+1} /\ waiting # {}
    BY <1>2 DEF Ids
  <2>2. \A d \in {2*1, 2*1+1} : d # 3 => mem_req[d] = << >>
    BY <1>2
  <2>3. req.type = (IF 3 \in {0, 2} THEN "store" ELSE "load")
    BY <1>5
  <2>4. QED
    BY <1>0, <1>6, <2>1, <2>2, <2>3, AskKeeps
<1>8. Req(1)' = Req(1) \o <<req>> /\ UNCHANGED <<Rsp(0), Req(0), Rsp(1)>>
  BY <1>7 DEF Asks
<1> DEFINE q == Req(1)
           r == Rsp(1)
           u == q \o <<req>>
<1>9. IsQueue(q) /\ IsQueue(r) /\ AllOf(q, "load") /\ Served(q, r, F, wr.i) /\ req = F[wr.i + Len(r) + Len(q)]
  BY <1>2, <1>3 DEF req
<1> HIDE DEF q, r, F
<1>10. Len(u) = Len(q) + 1
  BY <1>9, QueueAppend
<1>11. AllOf(u, "load")
  <2>1. IsQueue(<<req>>) /\ AllOf(<<req>>, "load")
    BY <1>5, QueueOf, AllOfOne
  <2>2. QED
    BY <1>9, <2>1, AllOfCat
<1>12. Served(u, r, F, wr.i)
  BY <1>2, <1>9, ServedAsk
<1> HIDE DEF u
<1>13. Req(1)' = u /\ Rsp(1)' = r
  BY <1>8 DEF u, q, r
<1>14. wr.i + Len(r) + Len(u) = wq.i + 1
  <2>1. Len(r) \in Nat /\ Len(q) \in Nat /\ wr.i + Len(r) + Len(q) = wq.i
    BY <1>2, <1>3 DEF q, r
  <2>2. wr.i \in Nat
    BY <1>2
  <2>3. wr.i + Len(r) + (Len(q) + 1) = wq.i + 1
    BY <1>4, <2>1, <2>2, SMTT(60)
  <2>4. QED
    BY <1>10, <2>3
<1>15. wq' \in Stage /\ StoreStage'
  <2>1. CASE wq.i < wq.len
    <3>1. wq' = [at |-> wq.at, left |-> wq.left, burst |-> wq.burst, i |-> wq.i + 1, len |-> wq.len]
      BY <1>0, <1>2, <2>1 DEF Stage
    <3>2. wq.i + 1 \in Nat /\ wq.i + 1 <= wq.len
      BY <1>4, <2>1
    <3>3. wq' \in Stage
      BY <1>2, <3>1, <3>2 DEF Stage
    <3>4. /\ trig' = << >> /\ wq'.at = "data" /\ wq'.burst = wr'.burst /\ wq'.len = wr'.len
          /\ wq'.i = wq.i + 1 /\ wq'.i <= wq'.len
      BY <1>0, <1>3, <3>1, <3>2
    <3>5. wr'.i + Len(Rsp(1)') + Len(Req(1)') = wq'.i
      BY <1>0, <1>13, <1>14, <3>4
    <3>6. QED
      BY <3>3, <3>4, <3>5 DEF StoreStage
  <2>2. CASE ~(wq.i < wq.len)
    <3>1. wq' = Idle /\ wq'.at = "idle" /\ wq' \in Stage
      BY <1>0, <2>2, BurstStarts
    <3>2. wq.i = wr.len
      BY <1>3, <1>4, <2>2
    <3>3. wr'.i + Len(Rsp(1)') + Len(Req(1)') = wr'.len + 1
      BY <1>0, <1>13, <1>14, <3>2
    <3>4. trig' = << >>
      BY <1>0, <1>3
    <3>5. QED
      BY <3>1, <3>3, <3>4 DEF StoreStage
  <2>3. QED
    BY <2>1, <2>2
<1>16. Served(Req(1), Rsp(1), WordLoads(wr.burst), wr.i)'
  <2>1. Served(Req(1)', Rsp(1)', WordLoads(wr'.burst), wr'.i)
    BY <1>0, <1>12, <1>13 DEF F
  <2>2. QED
    BY <2>1 DEF Served, Fits, Runs, WordLoads, WordAddr, ByteAddr
<1>17. StorePath'
  BY <1>0, <1>1, <1>15, <1>16 DEF StorePath
<1>18. SideUse'
  BY <1>0, <1>2, <1>8, <1>11, <1>13 DEF SideUse, AllOf
<1>19. MasterShape' /\ Tokens'
  BY <1>0, MasterSame, BusySame, TokensSame
<1>20. ComShape' /\ ComBeats' /\ ArrayShape' /\ ComCount'
  BY <1>0, <1>8, ComSame
<1>21. QED
  BY <1>7, <1>17, <1>18, <1>19, <1>20 DEF Shape

(* MasterWrite takes a word. *)
LEMMA WriteDataKeeps ==
    ASSUME Shape, MasterWriteData
    PROVE  Shape'
<1>0. /\ Tokens /\ MasterShape /\ SideUse /\ StorePath /\ MemShape /\ PortTypes /\ Exclusive /\ FlipAlone
      /\ UNCHANGED <<rsp_inter, merge_id, merge_reg, flipVars, splitVars, coreVars, id, waiting, len, M,
                     start, irq, rd, trig, wq, rq, start_wr, ws, comState, arrayState>>
      /\ wr.at = "data" /\ HasMsg(mem_rsp[1])
      /\ mem_rsp' = [mem_rsp EXCEPT ![1] = Tail(@)] /\ wr' = NextWord(wr)
  BY DEF Shape, MasterWriteData, setupVars, hostVars, comState, arrayState, M
<1> DEFINE F == WordLoads(wr.burst)
<1>2. /\ "store" \in waiting /\ "com" \notin waiting
      /\ AllOf(Req(1), "load") /\ mem_req[2] = << >>
      /\ wr.i <= wr.len /\ wr.i \in Nat /\ wr.len \in Nat
      /\ StoreStage /\ Served(Req(1), Rsp(1), F, wr.i) /\ wq \in Stage
      /\ IsQueue(Req(1)) /\ IsQueue(Rsp(1)) /\ Len(Req(1)) \in Nat /\ Len(Rsp(1)) \in Nat
  BY <1>0, NotRunning
<1>3. /\ MemShape' /\ Exclusive' /\ PortTypes' /\ FlipAlone' /\ Gets(1)
  <2>1. 1 \in Ids /\ waiting # {}
    BY <1>2 DEF Ids
  <2>2. QED
    BY <1>0, <2>1, GetKeeps
<1>4. Rsp(1) # << >> /\ Rsp(1)' = Tail(Rsp(1)) /\ UNCHANGED <<Rsp(0), Req(0), Req(1)>>
  BY <1>3 DEF Gets
<1> DEFINE q == Req(1)
           r == Rsp(1)
           t == Tail(r)
<1>5. IsQueue(q) /\ IsQueue(r) /\ r # << >> /\ Served(q, r, F, wr.i)
  BY <1>2, <1>4
<1>6. Len(q) \in Nat /\ Len(r) \in Nat /\ Rsp(1)' = t /\ Req(1)' = q
  BY <1>2, <1>4
<1> HIDE DEF q, r, F
<1>7. Len(r) >= 1 /\ Len(t) = Len(r) - 1
  BY <1>5, QueueTail
<1>8. Served(q, t, F, wr.i + 1)
  BY <1>2, <1>5, ServedGet
<1>9. IsQueue(t) /\ Len(t) \in Nat
  BY <1>5, QueueTail, QueueIs
<1> HIDE DEF t
<1>10. Burster(wr, len["store"]) /\ Burster(rd, len["load"])
  BY <1>0 DEF MasterShape
<1>11. /\ Burster(wr', len["store"])
       /\ wr.i < wr.len => wr'.at = "data" /\ wr'.i = wr.i + 1 /\ wr'.burst = wr.burst /\ wr'.len = wr.len
       /\ ~(wr.i < wr.len) => wr'.at = (IF wr.left > 0 THEN "addr" ELSE "irq") /\ wr.i = wr.len
  BY <1>0, <1>10, LengthIs, WordGoesOut DEF Units
<1>12. StoreStage' \/ (wr'.at # "data" /\ trig = << >> /\ wq.at = "idle" /\ q = << >> /\ t = << >>)
  <2>1. trig = << >>
    BY <1>2, <1>5 DEF StoreStage, r
  <2>2. CASE wq.at = "data"
    <3>1. /\ wq.burst = wr.burst /\ wq.len = wr.len
          /\ wr.i + Len(r) + Len(q) = wq.i /\ wq.i <= wq.len
      BY <1>2, <2>2, <2>1 DEF StoreStage, q, r
    <3>2. wq.i \in Nat /\ wq.len \in Nat
      BY <1>2 DEF Stage
    <3>3. wr.i < wr.len
      BY <1>2, <1>6, <1>7, <3>1, <3>2
    <3>4. wr.i + 1 + Len(t) + Len(q) = wq.i
      BY <1>2, <1>6, <1>7, <1>9, <3>1, <3>2
    <3>5. wr'.i + Len(Rsp(1)') + Len(Req(1)') = wq.i
      BY <1>6, <1>11, <3>3, <3>4
    <3>6. QED
      BY <1>0, <1>11, <2>1, <2>2, <3>1, <3>3, <3>5 DEF StoreStage
  <2>3. CASE wq.at # "data"
    <3>1. wq.at = "idle" /\ wr.i + Len(r) + Len(q) = wr.len + 1
      BY <1>2, <1>5, <2>1, <2>3 DEF StoreStage, q, r
    <3>2. CASE wr.i < wr.len
      <4>1. wr.i + 1 + Len(t) + Len(q) = wr.len + 1
        BY <1>2, <1>6, <1>7, <1>9, <3>1
      <4>2. wr'.i + Len(Rsp(1)') + Len(Req(1)') = wr'.len + 1
        BY <1>6, <1>11, <3>2, <4>1
      <4>3. QED
        BY <1>0, <2>1, <3>1, <4>2 DEF StoreStage
    <3>3. CASE ~(wr.i < wr.len)
      <4>1. wr.i = wr.len
        BY <1>11, <3>3
      <4>2. Len(t) = 0 /\ Len(q) = 0
        BY <1>2, <1>6, <1>7, <1>9, <3>1, <4>1
      <4>3. t = << >> /\ q = << >>
        BY <1>5, <1>9, <4>2, QueueIs
      <4>4. wr'.at # "data"
        BY <1>11, <3>3
      <4>5. QED
        BY <2>1, <3>1, <4>3, <4>4
    <3>4. QED
      BY <3>2, <3>3
  <2>4. QED
    BY <2>2, <2>3
<1>13. StorePath'
  <2>1. wq' \in Stage
    BY <1>0, <1>2
  <2>2. CASE wr'.at = "data"
    <3>1. wr'.i = wr.i + 1 /\ wr'.burst = wr.burst
      BY <1>11, <2>2
    <3>2. Served(Req(1), Rsp(1), WordLoads(wr.burst), wr.i)'
      BY <1>6, <1>8, <3>1 DEF F, Served, Fits, Runs, WordLoads, WordAddr, ByteAddr
    <3>3. QED
      BY <1>12, <2>1, <2>2, <3>2 DEF StorePath
  <2>3. CASE wr'.at # "data"
    <3>1. ASSUME StoreStage' PROVE trig = << >> /\ wq.at = "idle" /\ q = << >> /\ t = << >>
      <4>1. ~(wr.i < wr.len) /\ wr.i = wr.len
        BY <1>11, <2>3
      <4>2. trig = << >>
        BY <1>2, <1>5 DEF StoreStage, r
      <4>3. wq.at # "data"
        <5>1. SUFFICES ASSUME wq.at = "data" PROVE FALSE
          OBVIOUS
        <5>2. wq.len = wr.len /\ wr.i + Len(r) + Len(q) = wq.i /\ wq.i <= wq.len
          BY <1>2, <4>2, <5>1 DEF StoreStage, q, r
        <5>3. wq.i \in Nat /\ wq.len \in Nat
          BY <1>2 DEF Stage
        <5>4. QED
          BY <1>2, <1>6, <1>7, <4>1, <5>2, <5>3
      <4>4. wq.at = "idle" /\ wr.i + Len(r) + Len(q) = wr.len + 1
        BY <1>2, <1>5, <4>2, <4>3 DEF StoreStage, q, r
      <4>5. Len(t) = 0 /\ Len(q) = 0
        BY <1>2, <1>6, <1>7, <1>9, <4>1, <4>4
      <4>6. QED
        BY <1>5, <1>9, <4>2, <4>4, <4>5, QueueIs
    <3>2. trig = << >> /\ wq.at = "idle" /\ q = << >> /\ t = << >>
      BY <1>12, <3>1
    <3>3. trig' = << >> /\ wq'.at = "idle" /\ Rsp(1)' = << >> /\ AllOf(Req(1)', "store")
      BY <1>0, <1>6, <3>2, AllOfOne
    <3>4. QED
      BY <2>1, <2>3, <3>3 DEF StorePath, AllOf
  <2>4. QED
    BY <2>2, <2>3
<1>14. SideUse'
  BY <1>0, <1>4, SideSame
<1>15. MasterShape'
  BY <1>0, <1>10, <1>11 DEF MasterShape, Burster, Stage
<1>16. Tokens'
  <2>1. wr'.at # "idle"
    BY <1>11
  <2>2. \A u \in Units : Busy(u)' <=> Busy(u)
    BY <1>0, <2>1 DEF Busy, Running
  <2>3. QED
    BY <1>0, <2>2, TokensSame
<1>17. ComShape' /\ ComBeats' /\ ArrayShape' /\ ComCount'
  BY <1>0, <1>4, ComSame
<1>18. QED
  BY <1>3, <1>13, <1>14, <1>15, <1>16, <1>17 DEF Shape

-----------------------------------------------------------------------------
(* Steps of InputSetup *)

(* What is still to be answered are loads. *)
LEMMA ServedLoads ==
    ASSUME NEW req, NEW rsp, IsQueue(req), IsQueue(rsp), NEW F, IsLoads(F), NEW i \in Nat,
           Served(req, rsp, F, i)
    PROVE  AllOf(req, "load")
<1>1. Len(req) \in Nat /\ Len(rsp) \in Nat
  BY QueueIs
<1>2. ASSUME NEW k \in 1 .. Len(req) PROVE req[k].type = "load"
  <2>1. req[k] = F[i + Len(rsp) + k - 1]
    BY DEF Served, Runs
  <2>2. i + Len(rsp) + k - 1 \in Nat
    BY <1>1
  <2>3. QED
    BY <2>1, <2>2 DEF IsLoads
<1>3. QED
  BY <1>2 DEF AllOf

(* The sizes are not zero. *)
LEMMA SizesPositive == N \in Nat /\ N >= 1 /\ N-1 \in Port /\ 0 \in Port
BY NAssumption DEF Port

(* ReadReqRun issues at most N + M - 1 beats. *)
LEMMA IssuedNat ==
    ASSUME ComShape
    PROVE  /\ Issued \in Nat /\ Issued <= N + M - 1
           /\ rq.at = "beat" => Issued <= N + M - 2
           /\ rq.at # "beat" /\ ~Running => Issued = 0
<1>1. rq.i \in Nat /\ (rq.at = "beat" => rq.i <= N + M - 2)
  BY DEF ComShape
<1>2. QED
  BY <1>1, SizesPositive DEF Issued, ComShape

(* What is so while a computation is waited for. *)
LEMMA Computing ==
    ASSUME Shape, "com" \in waiting
    PROVE  /\ waiting = {"com"} /\ rd.at = "idle" /\ wr.at = "idle"
           /\ IsQueue(Req(0)) /\ IsQueue(Rsp(0)) /\ Len(Req(0)) \in Nat /\ Len(Rsp(0)) \in Nat
           /\ Answers \in Nat /\ Answers = Issued - Len(Req(0)) - Len(Rsp(0))
           /\ Served(Req(0), Rsp(0), BeatLoads, Answers)
           /\ AllOf(Req(0), "load") /\ mem_req[0] = << >>
           /\ AllOf(Req(1), "store") /\ mem_req[3] = << >> /\ Rsp(1) = << >>
           /\ Taken = Answers
<1>1. Tokens /\ SideUse /\ MemShape /\ PortTypes /\ ComShape /\ ComBeats /\ StorePath
  BY DEF Shape
<1>2. waiting = {"com"} /\ rd.at = "idle" /\ wr.at = "idle"
  <2>1. waiting = {"com"}
    BY <1>1 DEF Tokens
  <2>2. QED
    BY <1>1, <2>1, WorkIsWaited
<1>3. IsQueue(Req(0)) /\ IsQueue(Rsp(0))
  BY <1>1, Parts DEF Ids
<1>4. Len(Req(0)) \in Nat /\ Len(Rsp(0)) \in Nat
  BY <1>3, QueueIs
<1>5. Answers \in Nat /\ Answers = Issued - Len(Req(0)) - Len(Rsp(0))
  <2>1. Issued \in Nat
    BY <1>1, IssuedNat
  <2>2. Answers >= 0
    BY <1>1 DEF ComBeats
  <2>3. QED
    BY <1>4, <2>1, <2>2 DEF Answers
<1>6. Served(Req(0), Rsp(0), BeatLoads, Answers)
  BY <1>1 DEF ComBeats
<1>7. AllOf(Req(0), "load")
  <2> DEFINE q == Req(0)
             r == Rsp(0)
             n == Answers
  <2>1. IsQueue(q) /\ IsQueue(r) /\ n \in Nat /\ Served(q, r, BeatLoads, n)
    BY <1>3, <1>5, <1>6
  <2> HIDE DEF q, r, n
  <2>2. AllOf(q, "load")
    BY <2>1, BeatSpread, ServedLoads
  <2>3. QED
    BY <2>2 DEF q
<1>8. mem_req[0] = << >>
  BY <1>1, <1>7, OtherPort
<1>9. AllOf(Req(1), "store") /\ mem_req[3] = << >>
  BY <1>1, OtherPort DEF SideUse
<1>10. Rsp(1) = << >>
  BY <1>1, <1>2 DEF StorePath
<1>11. Taken = Answers
  BY DEF Taken
<1>12. QED
  BY <1>2, <1>3, <1>4, <1>5, <1>6, <1>7, <1>8, <1>9, <1>10, <1>11

(* ReadReqRun takes its trigger and passes it on. *)
LEMMA ReadReqStartKeeps ==
    ASSUME Shape, ReadReqStart
    PROVE  Shape'
<1>0. /\ Tokens /\ MasterShape /\ SideUse /\ ComShape /\ ComBeats /\ ComCount /\ ArrayShape
      /\ UNCHANGED <<memoryVars, id, waiting, len, M, irq, rd, wr, trig, wq, ws, wm, ctr, wreg, arrayState>>
  BY DEF Shape, ReadReqStart, axiVars, hostVars, arrayState, M
<1>1. /\ MemShape' /\ Exclusive' /\ PortTypes' /\ FlipAlone'
      /\ UNCHANGED <<Req(0), Req(1), Rsp(0), Rsp(1)>>
  BY <1>0, PipesKeep
<1>2. SideUse' /\ MasterShape' /\ StorePath' /\ ArrayShape'
  BY <1>0, <1>1, SideSame, MastersSame, ArraySame
<1>3. \A u \in Units : u # "com" => (Busy(u)' <=> Busy(u))
  BY <1>0 DEF Busy, Units
<1>4. "com" \in Units /\ (Busy("com") <=> rq.at # "idle" \/ Running)
      /\ (Busy("com")' <=> rq'.at # "idle" \/ Running')
  BY DEF Busy, Units
<1>5. rq.i \in Nat
  BY <1>0 DEF ComShape
<1>6. ASSUME Issued' = Issued PROVE ComBeats' /\ ComCount'
  <2>1. Answers' = Answers /\ Taken' = Taken
    BY <1>0, <1>1, <1>6 DEF Answers, Taken
  <2>2. ComCount'
    BY <1>0, <2>1, CountSame
  <2>3. ComBeats'
    BY <1>0, <1>1, <2>1 DEF ComBeats, Served, Fits, Runs, BeatLoads, Beat, InBeat
  <2>4. QED
    BY <2>2, <2>3
<1>7. CASE /\ rq.at = "idle" /\ HasMsg(start["com"])
           /\ start' = [start EXCEPT !["com"] = Tail(@)]
           /\ rq' = [NoRun EXCEPT !.at = "trig", !.len = Head(start["com"])]
           /\ UNCHANGED start_wr
  <2>1. start["com"] # << >>
    BY <1>7 DEF HasMsg
  <2>2. ~Running /\ ~Running'
    <3>1. Token("com")
      BY <1>0, <1>4 DEF Tokens
    <3>2. ~Running
      BY <1>4, <2>1, <3>1 DEF Token
    <3>3. QED
      BY <1>0, <1>7, <3>2 DEF Running
  <2>3. rq' = [at |-> "trig", i |-> 0, len |-> M] /\ M \in Nat
    BY <1>0, <1>4, <1>7, <2>1, TriggerIs DEF M, NoRun
  <2>4. Issued' = Issued
    BY <1>7, <2>2, <2>3 DEF Issued
  <2>5. ComShape'
    <3>1. rq' \in [at : {"idle", "trig", "beat"}, i : Nat, len : Nat] /\ rq'.at = "trig" /\ rq'.i = 0 /\ rq'.len = M
      BY <2>3
    <3>2. UNCHANGED <<start_wr, ws, wm, ctr, wreg, M>>
      BY <1>0, <1>7
    <3>3. QED
      BY <1>0, <2>2, <3>1, <3>2 DEF ComShape
  <2>6. Tokens'
    BY <1>0, <1>3, <1>4, <1>7, <2>1, <2>3, TokenTaken
  <2>7. QED
    BY <1>1, <1>2, <1>6, <2>4, <2>5, <2>6 DEF Shape
<1>8. CASE /\ rq.at = "trig" /\ HasRoom(start_wr)
           /\ start_wr' = Append(start_wr, rq.len)
           /\ rq' = [rq EXCEPT !.at = "beat"]
           /\ UNCHANGED start
  <2>1. ~Running /\ start_wr = << >> /\ ws = "idle"
    BY <1>0, <1>8 DEF ComShape, Running
  <2>2. start_wr' = <<M>> /\ start_wr' # << >> /\ Running'
    BY <1>0, <1>8, <2>1, OneToken DEF Running, ComShape
  <2>3. Issued' = Issued
    BY <1>0, <1>8, <2>1 DEF Issued, ComShape
  <2>4. ComShape'
    <3>1. rq' \in [at : {"idle", "trig", "beat"}, i : Nat, len : Nat] /\ rq'.at = "beat" /\ rq'.i = 0 /\ rq'.len = M
      BY <1>0, <1>8 DEF ComShape
    <3>2. 0 <= N + M - 2
      <4>1. M \in Nat /\ M >= 1
        BY <1>0, <1>4, <1>8, WorkIsWaited, LengthIs DEF M
      <4>2. QED
        BY <4>1, SizesPositive
    <3>3. QED
      BY <1>0, <2>1, <2>2, <3>1, <3>2 DEF ComShape
  <2>5. Tokens'
    <3>1. \A u \in Units : Busy(u)' <=> Busy(u)
      BY <1>3, <1>4, <1>8, <2>2
    <3>2. QED
      BY <1>0, <1>8, <3>1, TokensSame
  <2>6. QED
    BY <1>1, <1>2, <1>6, <2>3, <2>4, <2>5 DEF Shape
<1>9. QED
  BY <1>7, <1>8 DEF ReadReqStart

(* ReadReqRun asks for a beat. *)
LEMMA ReadReqBeatKeeps ==
    ASSUME Shape, ReadReqBeat
    PROVE  Shape'
<1>0. /\ Tokens /\ MasterShape /\ SideUse /\ ComShape /\ ComBeats /\ ComCount /\ ArrayShape
      /\ MemShape /\ PortTypes /\ Exclusive /\ FlipAlone
      /\ UNCHANGED <<req_inter, split_id, split_reg, flipVars, mergeVars, coreVars, id, waiting, len, M,
                     start, irq, rd, wr, trig, wq, start_wr, ws, wm, ctr, wreg, arrayState>>
      /\ rq.at = "beat" /\ HasRoom(mem_req[1])
      /\ mem_req' = [mem_req EXCEPT ![1] = Append(@, Load(Beat(rq.i, rq.len)))]
      /\ rq' = IF LastBeat(rq.i, rq.len) THEN NoRun ELSE [rq EXCEPT !.i = @ + 1]
  BY DEF Shape, ReadReqBeat, axiVars, hostVars, arrayState, M
<1>1. "com" \in waiting
  BY <1>0, WorkIsWaited
<1>2. /\ waiting = {"com"}
      /\ IsQueue(Req(0)) /\ IsQueue(Rsp(0)) /\ Len(Req(0)) \in Nat /\ Len(Rsp(0)) \in Nat
      /\ Answers \in Nat /\ Answers = Issued - Len(Req(0)) - Len(Rsp(0))
      /\ Served(Req(0), Rsp(0), BeatLoads, Answers) /\ mem_req[0] = << >>
  BY <1>1, Computing
<1>3. /\ rq.i \in Nat /\ rq.i <= N + M - 2 /\ Running /\ Issued = rq.i
      /\ rq \in [at : {"idle", "trig", "beat"}, i : Nat, len : Nat] /\ rq.len = M /\ M \in Nat
  BY <1>0 DEF ComShape, Issued
<1> DEFINE req == Load(Beat(rq.i, rq.len))
<1>4. req = BeatLoads[rq.i] /\ req.type = "load"
  BY <1>3 DEF BeatLoads, Load
<1>5. mem_req' = [mem_req EXCEPT ![1] = Append(@, req)]
  BY <1>0
<1> HIDE DEF req
<1>6. /\ MemShape' /\ Exclusive' /\ PortTypes' /\ FlipAlone' /\ Asks(0, req)
  <2>1. 0 \in Ids /\ 1 \in {2*0, 2*0+1} /\ waiting # {}
    BY <1>2 DEF Ids
  <2>2. \A d \in {2*0, 2*0+1} : d # 1 => mem_req[d] = << >>
    BY <1>2
  <2>3. req.type = (IF 1 \in {0, 2} THEN "store" ELSE "load")
    BY <1>4
  <2>4. QED
    BY <1>0, <1>5, <2>1, <2>2, <2>3, AskKeeps
<1>7. Req(0)' = Req(0) \o <<req>> /\ UNCHANGED <<Rsp(0), Req(1), Rsp(1)>>
  BY <1>6 DEF Asks
<1> DEFINE q == Req(0)
           r == Rsp(0)
           n == Answers
           u == q \o <<req>>
<1>8. /\ IsQueue(q) /\ IsQueue(r) /\ n \in Nat /\ Len(q) \in Nat /\ Len(r) \in Nat
      /\ Served(q, r, BeatLoads, n) /\ n = rq.i - Len(q) - Len(r)
  BY <1>2, <1>3
<1>9. Req(0)' = u /\ Rsp(0)' = r
  BY <1>7
<1> HIDE DEF q, r, n
<1>10. n + Len(r) + Len(q) = rq.i
  BY <1>3, <1>8
<1>11. Served(u, r, BeatLoads, n) /\ Len(u) = Len(q) + 1
  BY <1>4, <1>8, <1>10, ServedAsk, QueueAppend
<1> HIDE DEF u
<1>12. rq' \in [at : {"idle", "trig", "beat"}, i : Nat, len : Nat]
       /\ \/ (rq'.at = "idle" /\ rq.i = N + M - 2)
          \/ (rq'.at = "beat" /\ rq'.i = rq.i + 1 /\ rq'.i <= N + M - 2 /\ rq'.len = M)
  <2>1. CASE LastBeat(rq.i, rq.len)
    BY <1>0, <1>3, <2>1 DEF LastBeat, NoRun
  <2>2. CASE ~LastBeat(rq.i, rq.len)
    <3>1. rq' = [at |-> "beat", i |-> rq.i + 1, len |-> M]
      BY <1>0, <1>3, <2>2
    <3>2. rq.i + 1 \in Nat /\ rq.i + 1 <= N + M - 2
      BY <1>3, <2>2, SizesPositive DEF LastBeat
    <3>3. QED
      BY <1>3, <3>1, <3>2
  <2>3. QED
    BY <2>1, <2>2
<1>13. Running'
  BY <1>0, <1>3 DEF Running
<1>14. Issued' = rq.i + 1
  BY <1>0, <1>3, <1>12, <1>13, SizesPositive DEF Issued
<1>15. Answers' = Answers
  <2>1. Answers' = Issued' - Len(u) - Len(r)
    BY <1>9 DEF Answers
  <2>2. Answers' = (rq.i + 1) - (Len(q) + 1) - Len(r)
    BY <1>11, <1>14, <2>1
  <2>3. Answers' = n
    BY <1>3, <1>8, <2>2
  <2>4. QED
    BY <2>3 DEF n
<1>16. ComBeats'
  <2>1. Served(Req(0)', Rsp(0)', BeatLoads, Answers')
    BY <1>9, <1>11, <1>15 DEF n
  <2>2. Served(Req(0), Rsp(0), BeatLoads, Answers)'
    BY <1>0, <2>1 DEF Served, Fits, Runs, BeatLoads, Beat, InBeat
  <2>3. Answers' >= 0
    BY <1>2, <1>15
  <2>4. QED
    BY <2>2, <2>3 DEF ComBeats
<1>17. ComCount'
  <2>1. Taken' = Taken
    BY <1>0, <1>15 DEF Taken
  <2>2. QED
    BY <1>0, <2>1, CountSame
<1>18. ComShape'
  BY <1>0, <1>3, <1>12, <1>13 DEF ComShape, Running
<1>19. Tokens'
  <2>1. \A w \in Units : Busy(w)' <=> Busy(w)
    BY <1>0, <1>3, <1>13 DEF Busy
  <2>2. QED
    BY <1>0, <2>1, TokensSame
<1>20. SideUse'
  BY <1>0, <1>2, <1>7 DEF SideUse, AllOf
<1>21. MasterShape' /\ StorePath' /\ ArrayShape'
  BY <1>0, <1>7, MastersSame, ArraySame
<1>22. QED
  BY <1>6, <1>16, <1>17, <1>18, <1>19, <1>20, <1>21 DEF Shape

(* Another beat brings row i another vector, or none. *)
LEMMA ShareGrows ==
    ASSUME M \in Nat, NEW b \in Nat, NEW i \in Port
    PROVE  /\ Share(b, i) \in Nat /\ Share(b, i) <= M
           /\ Share(b+1, i) = IF InBeat(b, i, M) THEN Share(b, i) + 1 ELSE Share(b, i)
           /\ Share(0, i) = 0
           /\ b >= N + M - 1 => Share(b, i) = M
           /\ M >= 1 /\ Share(b, i) = M => b >= i + M
<1>1. i \in Nat /\ i <= N - 1
  BY SizesPositive DEF Port
<1>2. QED
  BY <1>1, SizesPositive DEF Share, InBeat

(* ReadRspRun feeds a beat into the array. *)
LEMMA ReadRspRunKeeps ==
    ASSUME Shape, ReadRspRun
    PROVE  Shape'
<1>0. /\ Tokens /\ MasterShape /\ SideUse /\ ComShape /\ ComBeats /\ ComCount /\ ArrayShape
      /\ MemShape /\ PortTypes /\ Exclusive /\ FlipAlone
      /\ UNCHANGED <<rsp_inter, merge_id, merge_reg, flipVars, splitVars, coreVars, id, waiting, len, M,
                     start, irq, rd, wr, trig, wq, comState, out, act_out>>
      /\ TRUE \in PopNB(mem_rsp[0])
      /\ mem_rsp' = [mem_rsp EXCEPT ![0] = Tail(@)]
  BY DEF Shape, ReadRspRun, axiVars, hostVars, comState, M
<1>1. /\ \A i \in DOMAIN Head(mem_rsp[0]) : Len(fed[i]) < Depth
      /\ fed' = [i \in Port |-> IF i \in DOMAIN Head(mem_rsp[0])
                                THEN Append(fed[i], Head(mem_rsp[0])[i]) ELSE fed[i]]
  BY DEF ReadRspRun
<1>2. HasMsg(mem_rsp[0])
  BY <1>0 DEF PopNB
<1>3. Rsp(0) # << >>
  BY <1>0, <1>2, EmptySide DEF Ids, HasMsg
<1>4. "com" \in waiting
  BY <1>0, <1>3 DEF SideUse
<1>5. /\ waiting = {"com"} /\ Taken = Answers
      /\ IsQueue(Req(0)) /\ IsQueue(Rsp(0)) /\ Len(Req(0)) \in Nat /\ Len(Rsp(0)) \in Nat
      /\ Answers \in Nat /\ Answers = Issued - Len(Req(0)) - Len(Rsp(0))
      /\ Served(Req(0), Rsp(0), BeatLoads, Answers)
  BY <1>4, Computing
<1>6. /\ MemShape' /\ Exclusive' /\ PortTypes' /\ FlipAlone' /\ Gets(0)
  <2>1. 0 \in Ids /\ waiting # {}
    BY <1>5 DEF Ids
  <2>2. QED
    BY <1>0, <1>2, <2>1, GetKeeps
<1>7. Rsp(0)' = Tail(Rsp(0)) /\ Head(Rsp(0)) = Head(mem_rsp[0]) /\ UNCHANGED <<Req(0), Req(1), Rsp(1)>>
  BY <1>6 DEF Gets
<1> DEFINE q == Req(0)
           r == Rsp(0)
           n == Answers
           t == Tail(r)
           rsp == Head(mem_rsp[0])
<1>8. /\ IsQueue(q) /\ IsQueue(r) /\ n \in Nat /\ Len(q) \in Nat /\ Len(r) \in Nat /\ r # << >>
      /\ Served(q, r, BeatLoads, n) /\ n = Issued - Len(q) - Len(r)
      /\ rsp = Head(r) /\ Req(0)' = q /\ Rsp(0)' = t
  BY <1>3, <1>5, <1>7
<1>9. Issued \in Nat /\ Issued' = Issued
  BY <1>0, IssuedNat DEF Issued, Running, comState
<1> HIDE DEF q, r, n, rsp
<1>10. DOMAIN rsp = DOMAIN BeatLoads[n].addr /\ Served(q, t, BeatLoads, n + 1)
  BY <1>8, ServedGet
<1>11. Len(t) = Len(r) - 1
  BY <1>8, QueueTail
<1> HIDE DEF t
<1>12. DOMAIN rsp = {i \in Port : InBeat(n, i, M)}
  <2>1. BeatLoads[n].addr = Beat(n, M)
    BY <1>8 DEF BeatLoads, Load
  <2>2. DOMAIN Beat(n, M) = {i \in Port : InBeat(n, i, M)}
    BY DEF Beat
  <2>3. QED
    BY <1>10, <2>1, <2>2
<1>13. Answers' = n + 1
  <2>1. Answers' = Issued' - Len(q) - Len(t)
    BY <1>8 DEF Answers
  <2>2. Answers' = Issued - Len(q) - (Len(r) - 1)
    BY <1>9, <1>11, <2>1
  <2>3. QED
    BY <1>8, <1>9, <2>2
<1>14. ComBeats'
  <2>1. Served(Req(0)', Rsp(0)', BeatLoads, Answers')
    BY <1>8, <1>10, <1>13
  <2>2. Served(Req(0), Rsp(0), BeatLoads, Answers)'
    BY <1>0, <2>1 DEF Served, Fits, Runs, BeatLoads, Beat, InBeat
  <2>3. Answers' >= 0
    BY <1>8, <1>13
  <2>4. QED
    BY <2>2, <2>3 DEF ComBeats
<1>15. ASSUME NEW i \in Port
       PROVE  /\ IsQueue(fed'[i]) /\ Len(fed'[i]) <= Depth
              /\ Len(fed[i]) \in Nat
              /\ Len(fed'[i]) = IF InBeat(n, i, M) THEN Len(fed[i]) + 1 ELSE Len(fed[i])
  <2> DEFINE f == fed[i]
             g == fed'[i]
  <2>1. IsQueue(f) /\ Len(f) <= Depth
    BY <1>0 DEF ArrayShape
  <2>2. g = IF i \in DOMAIN rsp THEN Append(f, rsp[i]) ELSE f
    BY <1>1 DEF rsp
  <2>3. i \in DOMAIN rsp => Len(f) < Depth
    BY <1>1 DEF rsp
  <2>4. i \in DOMAIN rsp <=> InBeat(n, i, M)
    BY <1>12
  <2> HIDE DEF f, g
  <2>5. Len(f) \in Nat /\ Depth \in Nat
    BY <2>1, QueueIs, DepthAssumption
  <2>6. /\ Append(f, rsp[i]) = f \o <<rsp[i]>> /\ IsQueue(f \o <<rsp[i]>>)
        /\ Len(f \o <<rsp[i]>>) = Len(f) + 1
    <3> DEFINE e == rsp[i]
    <3> HIDE DEF e
    <3>1. Append(f, e) = f \o <<e>> /\ IsQueue(f \o <<e>>) /\ Len(f \o <<e>>) = Len(f) + 1
      BY <2>1, QueueAppend
    <3>2. QED
      BY <3>1 DEF e
  <2>7. IsQueue(g) /\ Len(g) = IF InBeat(n, i, M) THEN Len(f) + 1 ELSE Len(f)
    BY <2>1, <2>2, <2>4, <2>6
  <2>8. Len(g) <= Depth
    BY <2>1, <2>3, <2>4, <2>5, <2>7
  <2>9. QED
    BY <2>5, <2>7, <2>8 DEF f, g
<1>16. ArrayShape'
  <2>1. fed' = [i \in Port |-> fed'[i]]
    BY <1>1
  <2>2. \A i, j \in Port : out[j] <= Len(fed'[i])
    <3> SUFFICES ASSUME NEW i \in Port, NEW j \in Port PROVE out[j] <= Len(fed'[i])
      OBVIOUS
    <3>1. out[j] <= Len(fed[i]) /\ out[j] \in Nat
      BY <1>0 DEF ArrayShape
    <3>2. QED
      BY <1>15, <3>1
  <2>3. QED
    BY <1>0, <1>15, <2>1, <2>2 DEF ArrayShape, Channel, IsQueue
<1>17. ComCount'
  <2>1. Taken' = n + 1
    BY <1>0, <1>4, <1>13 DEF Taken
  <2>2. Retired' = Retired
    BY <1>0 DEF Retired, Ctr, comState
  <2>3. Retired \in Int
    <3>1. Ctr(N-1) \in Nat /\ Len(act_out[N-1]) \in Nat /\ out[N-1] \in Nat
      BY <1>0, SizesPositive, ChannelMoves DEF Ctr, ComShape, ArrayShape
    <3>2. QED
      BY <3>1 DEF Retired
  <2>4. ASSUME NEW i \in Port PROVE Retired' + Len(fed'[i]) = Share(Taken', i)
    <3>1. Retired + Len(fed[i]) = Share(n, i)
      BY <1>0, <1>5 DEF ComCount, n
    <3>2. Share(n+1, i) = IF InBeat(n, i, M) THEN Share(n, i) + 1 ELSE Share(n, i)
      BY <1>0, <1>8, ShareGrows DEF ComShape
    <3>3. Retired + Len(fed'[i]) = Share(n+1, i)
      BY <1>15, <2>3, <3>1, <3>2
    <3>4. QED
      BY <2>1, <2>2, <3>3
  <2>5. QED
    BY <1>0, <2>4 DEF ComCount, Share
<1>18. ComShape' /\ MasterShape' /\ StorePath' /\ SideUse'
  <2>1. ComShape' /\ MasterShape' /\ StorePath'
    BY <1>0, <1>7, ComShapeSame, MastersSame
  <2>2. SideUse'
    BY <1>0, <1>5, <1>7 DEF SideUse, AllOf
  <2>3. QED
    BY <2>1, <2>2
<1>19. Tokens'
  BY <1>0, BusySame, TokensSame DEF comState
<1>20. QED
  BY <1>6, <1>14, <1>16, <1>17, <1>18, <1>19 DEF Shape

(* A column makes an output. *)
LEMMA ArrayOutKeeps ==
    ASSUME Shape, NEW j \in Port, ArrayOut(j)
    PROVE  Shape'
<1>0. /\ Tokens /\ MasterShape /\ SideUse /\ ComShape /\ ComBeats /\ ComCount /\ ArrayShape
      /\ UNCHANGED <<memoryVars, id, waiting, len, M, start, irq, rd, wr, trig, wq, comState>>
      /\ \A i \in Port : out[j] < Len(fed[i])
      /\ HasRoom(act_out[j])
  BY DEF Shape, ArrayOut, axiVars, hostVars, comState, M
<1>1. /\ MemShape' /\ Exclusive' /\ PortTypes' /\ FlipAlone'
      /\ UNCHANGED <<Req(0), Req(1), Rsp(0), Rsp(1)>>
  BY <1>0, PipesKeep
<1>2. SideUse' /\ MasterShape' /\ StorePath' /\ ComShape'
  BY <1>0, <1>1, SideSame, MastersSame, ComShapeSame
<1>3. UNCHANGED <<rq, start_wr, ws, ctr>>
  BY <1>0 DEF comState
<1>4. Tokens' /\ ComBeats' /\ Taken' = Taken
  BY <1>0, <1>1, <1>3, BusySame, TokensSame, BeatsSame, AnswersSame
<1>5. \A k \in Port : /\ Channel(act_out'[k])
                      /\ Len(act_out[k]) \in Nat
                      /\ Len(act_out'[k]) = IF k = j THEN Len(act_out[k]) + 1 ELSE Len(act_out[k])
  <2>1. PICK e : act_out' = [act_out EXCEPT ![j] = Append(@, e)]
    BY DEF ArrayOut
  <2>2. ASSUME NEW k \in Port
        PROVE  /\ Channel(act_out'[k]) /\ Len(act_out[k]) \in Nat
               /\ Len(act_out'[k]) = IF k = j THEN Len(act_out[k]) + 1 ELSE Len(act_out[k])
    <3> DEFINE c == act_out[k]
               d == act_out'[k]
    <3>1. Channel(c) /\ d = IF k = j THEN Append(c, e) ELSE c
      BY <1>0, <2>1 DEF ArrayShape
    <3>2. k = j => HasRoom(c)
      BY <1>0
    <3> HIDE DEF c, d
    <3>3. IsQueue(c) /\ Len(c) \in Nat /\ (HasRoom(c) => Channel(Append(c, e)) /\ Append(c, e) = c \o <<e>>)
      BY <3>1, ChannelMoves
    <3>4. Len(c \o <<e>>) = Len(c) + 1
      BY <3>3, QueueAppend
    <3>5. Channel(d) /\ Len(d) = IF k = j THEN Len(c) + 1 ELSE Len(c)
      BY <3>1, <3>2, <3>3, <3>4
    <3>6. QED
      BY <3>3, <3>5 DEF c, d
  <2>3. QED
    BY <2>2
<1>6. act_out' = [k \in Port |-> act_out'[k]]
  BY <1>0 DEF ArrayOut, ArrayShape
<1>7. \A k \in Port : out[k] \in Nat
  BY <1>0 DEF ArrayShape
<1>8. \A i \in Port : /\ IsQueue(fed[i]) /\ Len(fed[i]) \in Nat /\ fed[i] # << >> /\ Len(fed[i]) <= Depth
                      /\ \A k \in Port : out[k] <= Len(fed[i])
  <2> SUFFICES ASSUME NEW i \in Port
               PROVE  /\ IsQueue(fed[i]) /\ Len(fed[i]) \in Nat /\ fed[i] # << >> /\ Len(fed[i]) <= Depth
                      /\ \A k \in Port : out[k] <= Len(fed[i])
    OBVIOUS
  <2> DEFINE f == fed[i]
  <2>1. IsQueue(f) /\ out[j] < Len(f) /\ out[j] \in Nat /\ Len(f) <= Depth
        /\ \A k \in Port : out[k] <= Len(f)
    BY <1>0 DEF ArrayShape
  <2> HIDE DEF f
  <2>2. Len(f) \in Nat /\ (Len(f) = 0 <=> f = << >>)
    BY <2>1, QueueIs
  <2>3. f # << >>
    BY <2>1, <2>2
  <2>4. QED
    BY <2>1, <2>2, <2>3 DEF f
<1> DEFINE made == [out EXCEPT ![j] = @ + 1]
<1>9. \A k \in Port : /\ made[k] \in Nat /\ made[k] = IF k = j THEN out[k] + 1 ELSE out[k]
                      /\ \A i \in Port : made[k] <= Len(fed[i])
  <2>1. \A k \in Port : made[k] = IF k = j THEN out[k] + 1 ELSE out[k]
    BY <1>0 DEF ArrayShape
  <2> HIDE DEF made
  <2>2. \A k \in Port : made[k] \in Nat
    BY <1>7, <2>1
  <2>3. \A i \in Port : out[j] + 1 <= Len(fed[i])
    BY <1>0, <1>7, <1>8
  <2>4. QED
    BY <1>8, <2>1, <2>2, <2>3
<1> DEFINE d == IF \A k \in Port : made[k] > 0 THEN 1 ELSE 0
<1>10. /\ d \in {0, 1}
       /\ out' = [k \in Port |-> out'[k]] /\ fed' = [i \in Port |-> fed'[i]]
       /\ \A k \in Port : out'[k] = made[k] - d /\ out'[k] \in Nat
       /\ \A i \in Port : IsQueue(fed'[i]) /\ Len(fed'[i]) = Len(fed[i]) - d
  <2>1. CASE \A k \in Port : made[k] > 0
    <3>1. out' = [k \in Port |-> made[k] - 1] /\ fed' = [i \in Port |-> Tail(fed[i])]
      BY <2>1 DEF ArrayOut
    <3>2. d = 1
      BY <2>1
    <3> HIDE DEF made
    <3>3. \A k \in Port : out'[k] = made[k] - d /\ out'[k] \in Nat
      BY <1>9, <2>1, <3>1, <3>2
    <3>4. ASSUME NEW i \in Port PROVE IsQueue(fed'[i]) /\ Len(fed'[i]) = Len(fed[i]) - 1
      <4> DEFINE f == fed[i]
                 g == fed'[i]
      <4>1. IsQueue(f) /\ f # << >> /\ g = Tail(f)
        BY <1>8, <3>1
      <4> HIDE DEF f, g
      <4>2. IsQueue(g) /\ Len(g) = Len(f) - 1
        BY <4>1, QueueTail
      <4>3. QED
        BY <4>2 DEF f, g
    <3>5. QED
      BY <3>1, <3>2, <3>3, <3>4
  <2>2. CASE ~ \A k \in Port : made[k] > 0
    <3>1. out' = made /\ fed' = fed
      BY <2>2 DEF ArrayOut
    <3>2. d = 0
      BY <2>2
    <3>3. made = [k \in Port |-> made[k]] /\ fed = [i \in Port |-> fed[i]]
      BY <1>0 DEF ArrayShape
    <3> HIDE DEF made, d
    <3>4. \A k \in Port : out'[k] = made[k] - d /\ out'[k] \in Nat
      BY <1>9, <3>1, <3>2
    <3>5. \A i \in Port : IsQueue(fed'[i]) /\ Len(fed'[i]) = Len(fed[i]) - d
      BY <1>8, <3>1, <3>2
    <3>6. QED
      BY <3>1, <3>2, <3>3, <3>4, <3>5
  <2>3. QED
    BY <2>1, <2>2
<1> HIDE DEF made, d
<1>11. ArrayShape'
  <2>1. \A i \in Port : Len(fed'[i]) <= Depth
    BY <1>8, <1>10, DepthAssumption
  <2>2. \A i, k \in Port : out'[k] <= Len(fed'[i])
    BY <1>8, <1>9, <1>10
  <2>3. QED
    BY <1>5, <1>6, <1>10, <2>1, <2>2 DEF ArrayShape, Channel, IsQueue
<1>12. ComCount'
  <2> DEFINE c == Ctr(N-1)
             a == Len(act_out[N-1])
             o == out[N-1]
  <2>1. c \in Nat /\ a \in Nat /\ o \in Nat /\ Ctr(N-1)' = c
    BY <1>0, <1>3, <1>5, <1>7, SizesPositive DEF Ctr, ComShape
  <2>2. Retired = c + a - o
    BY DEF Retired
  <2>3. Retired' = c + Len(act_out'[N-1]) - out'[N-1]
    BY <2>1 DEF Retired
  <2>4. /\ Len(act_out'[N-1]) = IF N-1 = j THEN a + 1 ELSE a
        /\ out'[N-1] = (IF N-1 = j THEN o + 1 ELSE o) - d
    BY <1>5, <1>9, <1>10, SizesPositive
  <2> HIDE DEF c, a, o
  <2>5. Retired' = Retired + d
    <3>1. d \in Int
      BY <1>10
    <3>2. CASE N-1 = j
      <4>1. Retired' = c + (a + 1) - ((o + 1) - d)
        BY <2>3, <2>4, <3>2
      <4>2. QED
        BY <2>1, <2>2, <3>1, <4>1
    <3>3. CASE N-1 # j
      <4>1. Retired' = c + a - (o - d)
        BY <2>3, <2>4, <3>3
      <4>2. QED
        BY <2>1, <2>2, <3>1, <4>1
    <3>4. QED
      BY <3>2, <3>3
  <2>6. Retired \in Int
    BY <2>1, <2>2
  <2>7. ASSUME NEW i \in Port PROVE Retired' + Len(fed'[i]) = Share(Taken', i)
    <3>1. Retired + Len(fed[i]) = Share(Taken, i)
      BY <1>0 DEF ComCount
    <3>2. Retired' + Len(fed'[i]) = Retired + Len(fed[i])
      BY <1>8, <1>10, <2>5, <2>6
    <3>3. QED
      BY <1>4, <3>1, <3>2
  <2>8. QED
    BY <1>0, <2>7 DEF ComCount, Share
<1>13. QED
  BY <1>1, <1>2, <1>4, <1>11, <1>12 DEF Shape

(* WriteReqRun takes its trigger. *)
LEMMA WriteReqStartKeeps ==
    ASSUME Shape, WriteReqStart
    PROVE  Shape'
<1>0. /\ Tokens /\ MasterShape /\ SideUse /\ ComShape /\ ComBeats /\ ComCount /\ ArrayShape
      /\ UNCHANGED <<memoryVars, id, waiting, len, M, start, irq, rd, wr, trig, wq, rq, wreg, arrayState>>
      /\ ws = "idle" /\ start_wr # << >> /\ start_wr' = Tail(start_wr)
      /\ ctr' = [j \in Port |-> 0] /\ ws' = "poll"
  BY DEF Shape, WriteReqStart, axiVars, hostVars, arrayState, HasMsg, M
<1>1. /\ MemShape' /\ Exclusive' /\ PortTypes' /\ FlipAlone'
      /\ UNCHANGED <<Req(0), Req(1), Rsp(0), Rsp(1)>>
  BY <1>0, PipesKeep
<1>2. SideUse' /\ MasterShape' /\ StorePath' /\ ArrayShape'
  BY <1>0, <1>1, SideSame, MastersSame, ArraySame
<1>3. start_wr' = << >> /\ Running /\ Running'
  BY <1>0, OneToken DEF ComShape, Running
<1>4. Tokens'
  <2>1. \A u \in Units : Busy(u)' <=> Busy(u)
    BY <1>0, <1>3 DEF Busy
  <2>2. QED
    BY <1>0, <2>1, TokensSame
<1>5. Answers' = Answers /\ Taken' = Taken
  BY <1>0, <1>1, <1>3 DEF Answers, Taken, Issued
<1>6. ComBeats'
  BY <1>0, <1>1, <1>5 DEF ComBeats, Served, Fits, Runs, BeatLoads, Beat, InBeat
<1>7. ComCount'
  <2>1. Ctr(N-1) = 0 /\ Ctr(N-1)' = 0
    BY <1>0, SizesPositive DEF Ctr
  <2>2. Retired' = Retired
    BY <1>0, <2>1 DEF Retired, arrayState
  <2>3. QED
    BY <1>0, <1>5, <2>2 DEF ComCount, arrayState, Share
<1>8. ComShape'
  <2>1. wm' = M
    BY <1>0, OneToken DEF ComShape, WriteReqStart
  <2>2. M \in Nat /\ M >= 1
    <3>1. "com" \in Units /\ Busy("com")
      BY <1>3 DEF Busy, Units
    <3>2. QED
      BY <1>0, <1>3, <3>1, WorkIsWaited, LengthIs DEF M
  <2>3. ctr'[N-1] = 0 /\ ctr' = [j \in Port |-> ctr'[j]] /\ \A j \in Port : ctr'[j] \in Nat
    BY <1>0, SizesPositive
  <2>4. QED
    BY <1>0, <1>3, <2>1, <2>2, <2>3 DEF ComShape
<1>9. QED
  BY <1>1, <1>2, <1>4, <1>6, <1>7, <1>8 DEF Shape

(* WriteReqRun takes outputs. *)
LEMMA WriteReqPollKeeps ==
    ASSUME Shape, WriteReqPoll
    PROVE  Shape'
<1>0. /\ Tokens /\ MasterShape /\ SideUse /\ ComShape /\ ComBeats /\ ComCount /\ ArrayShape
      /\ UNCHANGED <<memoryVars, id, waiting, len, M, start, irq, rd, wr, trig, wq, rq, start_wr, wm, fed, out>>
      /\ ws = "poll" /\ ws' = "push"
  BY DEF Shape, WriteReqPoll, axiVars, hostVars, M
<1>1. PICK S \in SUBSET Port :
         /\ \A j \in Port : (j \in S) \in PopNB(act_out[j])
         /\ wreg' = <<Store([j \in S |-> j + ctr[j]*N], [j \in S |-> Head(act_out[j])])>>
         /\ act_out' = [j \in Port |-> After(j \in S, act_out[j])]
         /\ ctr' = [j \in Port |-> IF j \in S THEN ctr[j] + 1 ELSE ctr[j]]
  BY DEF WriteReqPoll
<1>2. /\ MemShape' /\ Exclusive' /\ PortTypes' /\ FlipAlone'
      /\ UNCHANGED <<Req(0), Req(1), Rsp(0), Rsp(1)>>
  BY <1>0, PipesKeep
<1>3. SideUse' /\ MasterShape' /\ StorePath'
  BY <1>0, <1>2, SideSame, MastersSame
<1>4. Running /\ Running'
  BY <1>0 DEF Running
<1>5. Tokens'
  <2>1. \A u \in Units : Busy(u)' <=> Busy(u)
    BY <1>0, <1>4 DEF Busy
  <2>2. QED
    BY <1>0, <2>1, TokensSame
<1>6. Answers' = Answers /\ Taken' = Taken
  BY <1>0, <1>2, <1>4 DEF Answers, Taken, Issued
<1>7. ComBeats'
  BY <1>0, <1>2, <1>6 DEF ComBeats, Served, Fits, Runs, BeatLoads, Beat, InBeat
<1>8. ASSUME NEW j \in Port
      PROVE  /\ Channel(act_out'[j]) /\ ctr[j] \in Nat /\ ctr'[j] \in Nat /\ Len(act_out[j]) \in Nat
             /\ ctr'[j] <= ctr[j] + 1
             /\ ctr'[j] + Len(act_out'[j]) = ctr[j] + Len(act_out[j])
  <2> DEFINE c == act_out[j]
             d == act_out'[j]
             x == ctr[j]
             y == ctr'[j]
  <2>1. /\ Channel(c) /\ x \in Nat
        /\ d = (IF j \in S THEN Tail(c) ELSE c)
        /\ y = IF j \in S THEN x + 1 ELSE x
    BY <1>0, <1>1 DEF ArrayShape, ComShape, After
  <2>2. j \in S => c # << >>
    BY <1>1 DEF PopNB, HasMsg
  <2> HIDE DEF c, d, x, y
  <2>3. IsQueue(c) /\ Len(c) \in Nat /\ (c # << >> => Channel(Tail(c)))
    BY <2>1, ChannelMoves
  <2>4. c # << >> => Len(Tail(c)) = Len(c) - 1
    BY <2>3, QueueTail
  <2>5. Channel(d)
    BY <2>1, <2>2, <2>3
  <2>6. Len(d) = IF j \in S THEN Len(c) - 1 ELSE Len(c)
    BY <2>1, <2>2, <2>4
  <2>7. x \in Nat /\ Len(c) \in Nat
    BY <2>1, <2>3
  <2>8. CASE j \in S
    <3>1. y = x + 1 /\ Len(d) = Len(c) - 1
      BY <2>1, <2>6, <2>8
    <3>2. x + 1 + (Len(c) - 1) = x + Len(c) /\ x + 1 \in Nat /\ x + 1 <= x + 1
      BY <2>7
    <3>3. y \in Nat /\ y <= x + 1 /\ y + Len(d) = x + Len(c)
      BY <3>1, <3>2
    <3>4. QED
      BY <2>5, <2>7, <3>3 DEF c, d, x, y
  <2>9. CASE j \notin S
    <3>1. y = x /\ Len(d) = Len(c)
      BY <2>1, <2>6, <2>9
    <3>2. x <= x + 1
      BY <2>7
    <3>3. y \in Nat /\ y <= x + 1 /\ y + Len(d) = x + Len(c)
      BY <2>7, <3>1, <3>2
    <3>4. QED
      BY <2>5, <2>7, <3>3 DEF c, d, x, y
  <2>10. QED
    BY <2>8, <2>9
<1>9. ArrayShape'
  BY <1>0, <1>1, <1>8 DEF ArrayShape, Channel, IsQueue
<1>10. ComCount'
  <2> DEFINE a == ctr'[N-1] + Len(act_out'[N-1])
             b == ctr[N-1] + Len(act_out[N-1])
  <2>1. a = b
    BY <1>8, SizesPositive
  <2>5. /\ ctr[N-1] \in Nat /\ ctr'[N-1] \in Nat /\ Len(act_out[N-1]) \in Nat
        /\ Len(act_out'[N-1]) \in Nat /\ out[N-1] \in Nat
    BY <1>0, <1>8, SizesPositive, ChannelMoves DEF ArrayShape
  <2>2. Retired' = a - out[N-1]
    <3>1. Retired' = Ctr(N-1)' + Len(act_out'[N-1]) - out[N-1]
      BY <1>0 DEF Retired
    <3>2. Ctr(N-1)' = ctr'[N-1]
      BY <1>0 DEF Ctr
    <3>3. QED
      BY <2>5, <3>1, <3>2
  <2>4. Retired = b - out[N-1]
    <3>1. Ctr(N-1) = ctr[N-1]
      BY <1>0 DEF Ctr
    <3>2. QED
      BY <2>5, <3>1 DEF Retired
  <2> HIDE DEF a, b
  <2>3. Retired' = Retired
    BY <2>1, <2>2, <2>4
  <2>6. QED
    BY <1>0, <1>6, <2>3 DEF ComCount, Share
<1>11. ComShape'
  <2>1. ctr'[N-1] <= M
    <3>1. ctr[N-1] < M /\ ctr'[N-1] <= ctr[N-1] + 1 /\ ctr[N-1] \in Nat /\ ctr'[N-1] \in Nat
      BY <1>0, <1>8, SizesPositive DEF ComShape
    <3>2. QED
      BY <1>0, <3>1, SizesPositive DEF ComShape
  <2>2. \E req : wreg' = <<req>> /\ req.type = "store"
    BY <1>1 DEF Store
  <2>3. ctr' = [j \in Port |-> ctr'[j]] /\ \A j \in Port : ctr'[j] \in Nat
    BY <1>1, <1>8
  <2>4. QED
    BY <1>0, <1>4, <2>1, <2>2, <2>3 DEF ComShape
<1>12. QED
  BY <1>2, <1>3, <1>5, <1>7, <1>9, <1>10, <1>11 DEF Shape

(* A step within a run issues no beat. *)
LEMMA ComIssued ==
    ASSUME UNCHANGED <<rq, waiting, M, Req(0), Rsp(0)>>, Running, Running'
    PROVE  Answers' = Answers /\ Taken' = Taken
BY DEF Answers, Taken, Issued

(* WriteReqRun stores outputs. *)
LEMMA WriteReqPushSteps ==
    ASSUME Shape, WriteReqPush
    PROVE  Shape'
<1>0. /\ Tokens /\ MasterShape /\ SideUse /\ ComShape /\ ComBeats /\ ComCount /\ ArrayShape
      /\ MemShape /\ PortTypes /\ Exclusive /\ FlipAlone /\ StorePath
      /\ UNCHANGED <<req_inter, split_id, split_reg, flipVars, mergeVars, coreVars, id, waiting, len, M,
                     start, irq, rd, wr, trig, wq, rq, start_wr, wm, ctr, arrayState>>
      /\ ws = "push" /\ HasRoom(mem_req[2]) /\ wreg' = << >>
      /\ mem_req' = [mem_req EXCEPT ![2] = Append(@, Head(wreg))]
      /\ ws' = IF ~RunDone(ctr, wm) THEN "poll" ELSE IF ctr[0] = wm THEN "irq" ELSE "abort"
  BY DEF Shape, WriteReqPush, axiVars, hostVars, arrayState, M
<1>1. PICK req : wreg = <<req>> /\ req.type = "store"
  BY <1>0 DEF ComShape
<1>2. mem_req' = [mem_req EXCEPT ![2] = Append(@, req)]
  <2>1. Head(wreg) = req
    BY <1>1, QueueOf
  <2>2. QED
    BY <1>0, <2>1
<1>3. Running /\ Running' /\ ws' \in {"poll", "irq", "abort"}
  BY <1>0 DEF Running
<1>4. "com" \in waiting
  BY <1>0, <1>3, WorkIsWaited
<1>5. /\ waiting = {"com"} /\ wr.at = "idle" /\ AllOf(Req(1), "store") /\ mem_req[3] = << >>
      /\ Rsp(1) = << >>
  BY <1>4, Computing
<1>6. /\ MemShape' /\ Exclusive' /\ PortTypes' /\ FlipAlone' /\ Asks(1, req)
  <2>1. 1 \in Ids /\ 2 \in {2*1, 2*1+1} /\ waiting # {}
    BY <1>5 DEF Ids
  <2>2. \A d \in {2*1, 2*1+1} : d # 2 => mem_req[d] = << >>
    BY <1>5
  <2>3. req.type = (IF 2 \in {0, 2} THEN "store" ELSE "load")
    BY <1>1
  <2>4. QED
    BY <1>0, <1>2, <2>1, <2>2, <2>3, AskKeeps
<1>7. Req(1)' = Req(1) \o <<req>> /\ UNCHANGED <<Rsp(0), Req(0), Rsp(1)>>
  BY <1>6 DEF Asks
<1>8. AllOf(Req(1)', "store")
  <2> DEFINE q == Req(1)
  <2>1. IsQueue(q) /\ AllOf(q, "store")
    BY <1>0, <1>5, Parts DEF Ids
  <2>2. IsQueue(<<req>>) /\ AllOf(<<req>>, "store")
    BY <1>1, QueueOf, AllOfOne
  <2> HIDE DEF q
  <2>3. AllOf(q \o <<req>>, "store")
    BY <2>1, <2>2, AllOfCat
  <2>4. QED
    BY <1>7, <2>3 DEF q
<1>9. StorePath'
  BY <1>0, <1>5, <1>7, <1>8 DEF StorePath, AllOf
<1>10. SideUse'
  BY <1>0, <1>5, <1>8 DEF SideUse, AllOf
<1>11. MasterShape' /\ ArrayShape'
  BY <1>0, MasterSame, ArraySame
<1>12. Tokens'
  <2>1. \A u \in Units : Busy(u)' <=> Busy(u)
    BY <1>0, <1>3 DEF Busy
  <2>2. QED
    BY <1>0, <2>1, TokensSame
<1>13. Answers' = Answers /\ Taken' = Taken
  BY <1>0, <1>3, <1>7, ComIssued
<1>14. ComBeats'
  BY <1>0, <1>7, <1>13 DEF ComBeats, Served, Fits, Runs, BeatLoads, Beat, InBeat
<1>15. ComCount'
  <2>1. Retired' = Retired
    BY <1>0, <1>3 DEF Retired, Ctr, arrayState
  <2>2. QED
    BY <1>0, <1>13, <2>1 DEF ComCount, arrayState, Share
<1>16. ComShape'
  <2>1. ctr[N-1] <= M /\ ctr[N-1] \in Nat
    BY <1>0, SizesPositive DEF ComShape
  <2>2. /\ ws' = "poll" => ctr[N-1] < M
        /\ ws' \in {"irq", "abort"} => ctr[N-1] = M
    BY <1>0, <2>1, SizesPositive DEF RunDone, ComShape
  <2>3. QED
    BY <1>0, <1>3, <2>2 DEF ComShape
<1>17. QED
  BY <1>6, <1>9, <1>10, <1>11, <1>12, <1>14, <1>15, <1>16 DEF Shape

(* The last column has stored M outputs only when every beat has come and  *)
(* gone.                                                                   *)
LEMMA ComOver ==
    ASSUME Shape, ws = "irq"
    PROVE  /\ waiting = {"com"} /\ rq.at = "idle" /\ start_wr = << >>
           /\ Req(0) = << >> /\ Rsp(0) = << >>
           /\ \A i \in Port : Retired - M + Len(fed[i]) = 0
           /\ Retired = M + Len(act_out[N-1]) - out[N-1]
<1>0. Tokens /\ ComShape /\ ComCount /\ ArrayShape
  BY DEF Shape
<1>1. ctr[N-1] = M /\ start_wr = << >> /\ Running /\ rq.at # "trig"
  BY <1>0 DEF ComShape, Running
<1>2. "com" \in waiting
  BY <1>0, <1>1, WorkIsWaited
<1>3. /\ waiting = {"com"} /\ Taken = Answers
      /\ IsQueue(Req(0)) /\ IsQueue(Rsp(0)) /\ Len(Req(0)) \in Nat /\ Len(Rsp(0)) \in Nat
      /\ Answers \in Nat /\ Answers = Issued - Len(Req(0)) - Len(Rsp(0))
  BY <1>2, Computing
<1>4. Retired = M + Len(act_out[N-1]) - out[N-1]
  BY <1>1 DEF Retired, Ctr
<1>5. Len(act_out[N-1]) \in Nat /\ out[N-1] \in Nat /\ out[N-1] <= Len(fed[N-1])
  BY <1>0, SizesPositive, ChannelMoves DEF ArrayShape
<1>6. Len(fed[N-1]) \in Nat
  <2> DEFINE f == fed[N-1]
  <2>1. IsQueue(f)
    BY <1>0, SizesPositive DEF ArrayShape
  <2> HIDE DEF f
  <2>2. Len(f) \in Nat
    BY <2>1, QueueIs
  <2>3. QED
    BY <2>2 DEF f
<1>7. Retired + Len(fed[N-1]) = Share(Answers, N-1)
  BY <1>0, <1>3, SizesPositive DEF ComCount
<1>8. Share(Answers, N-1) \in Nat /\ Share(Answers, N-1) <= M /\ (Share(Answers, N-1) = M => Answers >= N - 1 + M)
  BY <1>0, <1>2, <1>3, SizesPositive, ShareGrows, LengthIs DEF ComShape, M, Units
<1> DEFINE sh == Share(Answers, N-1)
           a == Len(act_out[N-1])
           o == out[N-1]
           f == Len(fed[N-1])
           n == Answers
<1>9. /\ M \in Nat /\ a \in Nat /\ o \in Nat /\ f \in Nat /\ o <= f /\ sh \in Nat /\ sh <= M
      /\ M + a - o + f = sh /\ (sh = M => n >= N - 1 + M) /\ n \in Nat
  BY <1>0, <1>3, <1>4, <1>5, <1>6, <1>7, <1>8 DEF ComShape
<1>10. n = Issued - Len(Req(0)) - Len(Rsp(0))
  BY <1>3
<1> HIDE DEF sh, a, o, f, n
<1>11. n >= N - 1 + M
  BY <1>9, SizesPositive
<1>12. Issued \in Nat /\ Issued <= N + M - 1 /\ (rq.at = "beat" => Issued <= N + M - 2)
  BY <1>0, IssuedNat
<1>13. rq.at # "beat" /\ Len(Req(0)) = 0 /\ Len(Rsp(0)) = 0 /\ n = N + M - 1
  BY <1>3, <1>9, <1>10, <1>11, <1>12, SizesPositive
<1>14. Req(0) = << >> /\ Rsp(0) = << >>
  BY <1>3, <1>13, QueueIs
<1>15. rq.at = "idle"
  BY <1>0, <1>1, <1>13 DEF ComShape
<1>16. ASSUME NEW i \in Port PROVE Retired - M + Len(fed[i]) = 0
  <2>1. Retired + Len(fed[i]) = Share(n, i)
    BY <1>0, <1>3 DEF ComCount, n
  <2>2. Share(n, i) = M
    BY <1>0, <1>9, <1>11, <1>13, SizesPositive, ShareGrows DEF ComShape
  <2>3. Len(fed[i]) \in Nat
    <3> DEFINE g == fed[i]
    <3>1. IsQueue(g)
      BY <1>0 DEF ArrayShape
    <3> HIDE DEF g
    <3>2. Len(g) \in Nat
      BY <3>1, QueueIs
    <3>3. QED
      BY <3>2 DEF g
  <2>4. Retired \in Int
    BY <1>4, <1>5, SizesPositive
  <2>5. QED
    BY <2>1, <2>2, <2>3, <2>4, SizesPositive
<1>17. QED
  BY <1>1, <1>3, <1>4, <1>14, <1>15, <1>16

(* WriteReqRun raises the interrupt. *)
LEMMA WriteReqIRQKeeps ==
    ASSUME Shape, WriteReqIRQ
    PROVE  Shape'
<1>0. /\ Tokens /\ MasterShape /\ SideUse /\ ComShape /\ ComBeats /\ ComCount /\ ArrayShape
      /\ UNCHANGED <<memoryVars, id, waiting, len, M, start, rd, wr, trig, wq, rq, start_wr, wm, ctr, wreg, arrayState>>
      /\ ws = "irq" /\ ws' = "idle" /\ irq' = [irq EXCEPT !["com"] = Append(@, 1)]
  BY DEF Shape, WriteReqIRQ, axiVars, hostVars, arrayState, M
<1>1. /\ MemShape' /\ Exclusive' /\ PortTypes' /\ FlipAlone'
      /\ UNCHANGED <<Req(0), Req(1), Rsp(0), Rsp(1)>>
  BY <1>0, PipesKeep
<1>2. SideUse' /\ MasterShape' /\ StorePath' /\ ArrayShape'
  BY <1>0, <1>1, SideSame, MastersSame, ArraySame
<1>3. /\ waiting = {"com"} /\ rq.at = "idle" /\ start_wr = << >>
      /\ Req(0) = << >> /\ Rsp(0) = << >>
      /\ \A i \in Port : Retired - M + Len(fed[i]) = 0
      /\ Retired = M + Len(act_out[N-1]) - out[N-1]
  BY <1>0, ComOver
<1>4. Running /\ ~Running'
  BY <1>0, <1>3 DEF Running
<1>5. Tokens'
  <2>1. "com" \in Units /\ Busy("com") /\ ~Busy("com")'
    BY <1>0, <1>3, <1>4 DEF Busy, Units
  <2>2. \A u \in Units : u # "com" => (Busy(u)' <=> Busy(u))
    BY <1>0 DEF Busy, Units
  <2>3. QED
    BY <1>0, <2>1, <2>2, TokenRaised
<1>6. Issued' = 0 /\ Len(Req(0)') = 0 /\ Len(Rsp(0)') = 0
  BY <1>0, <1>1, <1>3, <1>4, QueueOf DEF Issued
<1>7. Answers' = 0 /\ Taken' = 0
  BY <1>6 DEF Answers, Taken
<1>8. ComBeats'
  <2>1. Served(Req(0)', Rsp(0)', BeatLoads, Answers')
    BY <1>1, <1>3, ServedEmpty
  <2>2. Served(Req(0), Rsp(0), BeatLoads, Answers)'
    BY <1>0, <2>1 DEF Served, Fits, Runs, BeatLoads, Beat, InBeat
  <2>3. QED
    BY <1>7, <2>2 DEF ComBeats
<1>9. ComCount'
  <2> DEFINE a == Len(act_out[N-1])
             o == out[N-1]
  <2>1. a \in Nat /\ o \in Nat /\ M \in Nat /\ Retired = M + a - o
    BY <1>0, <1>3, SizesPositive, ChannelMoves DEF ArrayShape, ComShape
  <2>2. Retired' = 0 + a - o
    BY <1>0 DEF Retired, Ctr, arrayState
  <2> HIDE DEF a, o
  <2>3. Retired' = Retired - M
    BY <2>1, <2>2
  <2>4. ASSUME NEW i \in Port PROVE Retired' + Len(fed'[i]) = Share(Taken', i)
    <3>1. Share(Taken', i) = 0
      BY <1>0, <1>7, ShareGrows DEF ComShape
    <3>2. fed' = fed
      BY <1>0 DEF arrayState
    <3>3. QED
      BY <1>3, <2>3, <3>1, <3>2
  <2>5. QED
    BY <1>0, <2>4 DEF ComCount, Share
<1>10. ComShape'
  BY <1>0, <1>3, <1>4 DEF ComShape
<1>11. QED
  BY <1>1, <1>2, <1>5, <1>8, <1>9, <1>10 DEF Shape

-----------------------------------------------------------------------------
(* Steps of the host; the start *)

(* When the memory is quiet its sides are empty. *)
LEMMA QuietEmpty ==
    ASSUME MemShape, Quiet
    PROVE  NoFlip /\ \A s \in Ids : Req(s) = << >> /\ Rsp(s) = << >>
<1>1. NoFlip
  BY DEF Quiet, NoFlip
<1>2. ASSUME NEW s \in Ids PROVE Req(s) = << >> /\ Rsp(s) = << >>
  <2>1. Core(s) \in Ids /\ 2*s \in 0 .. 3 /\ 2*s+1 \in 0 .. 3
    BY Cores DEF MemShape
  <2>2. QED
    BY <2>1, EmptySide DEF Quiet
<1>3. QED
  BY <1>1, <1>2

(* A flip is over when both copies of mem_id have taken it. *)
LEMMA ComesToRest ==
    ASSUME FlipInv, NoFlip
    PROVE  Settled
<1>1. \A k \in Ids : k < 2 => Copy(k) = id
  BY SingleFlip DEF FlipInv, FlipShape, FlipOnItsWay, NoFlip
<1>2. Copy(0) = id /\ Copy(1) = id
  BY <1>1 DEF Ids
<1>3. QED
  BY <1>2 DEF Copy, Settled

(* Without a computation at work no beat is on its way. *)
LEMMA NobodyComputes ==
    ASSUME Shape, ~Busy("com")
    PROVE  /\ Issued = 0
           /\ "com" \in waiting => Answers = 0 /\ Req(0) = << >> /\ Rsp(0) = << >>
<1>1. rq.at = "idle" /\ ~Running
  BY DEF Busy
<1>2. Issued = 0
  BY <1>1 DEF Issued
<1>3. ASSUME "com" \in waiting PROVE Answers = 0 /\ Req(0) = << >> /\ Rsp(0) = << >>
  <2>1. /\ IsQueue(Req(0)) /\ IsQueue(Rsp(0)) /\ Len(Req(0)) \in Nat /\ Len(Rsp(0)) \in Nat
        /\ Answers \in Nat /\ Answers = Issued - Len(Req(0)) - Len(Rsp(0))
    BY <1>3, Computing
  <2> DEFINE a == Len(Req(0))
             b == Len(Rsp(0))
             n == Answers
  <2>2. a \in Nat /\ b \in Nat /\ n \in Nat /\ n = 0 - a - b
    BY <1>2, <2>1
  <2> HIDE DEF a, b, n
  <2>3. a = 0 /\ b = 0 /\ n = 0
    BY <2>2
  <2>4. QED
    BY <2>1, <2>3, QueueIs DEF a, b, n
<1>4. QED
  BY <1>2, <1>3

(* A unit that does not work is given another length. *)
LEMMA NewLength ==
    ASSUME MasterShape, StorePath, ComShape, ArrayShape, NEW u \in Units, ~Busy(u), NEW m \in Nat,
           len = [v \in Units |-> len[v]], len' = [len EXCEPT ![u] = m],
           UNCHANGED <<rd, wr, wq, trig, rq, start_wr, ws, wm, ctr, wreg, arrayState, Req(1), Rsp(1)>>
    PROVE  MasterShape' /\ StorePath' /\ ComShape' /\ ArrayShape'
<1>1. /\ len'[u] = m /\ \A v \in Units : v # u => len'[v] = len[v]
      /\ "load" \in Units /\ "store" \in Units /\ "com" \in Units
  BY DEF Units
<1>2. StorePath' /\ ArrayShape'
  BY StoreSame, ArraySame
<1>3. MasterShape'
  <2>1. u # "load" => len'["load"] = len["load"]
    BY <1>1
  <2>2. u # "store" => len'["store"] = len["store"]
    BY <1>1
  <2>3. u = "load" => rd.at = "idle"
    BY DEF Busy
  <2>4. u = "store" => wr.at = "idle"
    BY DEF Busy
  <2>5. QED
    BY <2>1, <2>2, <2>3, <2>4 DEF MasterShape, Burster, Stage
<1>4. ComShape'
  <2>1. CASE u = "com"
    <3>1. rq.at = "idle" /\ start_wr = << >> /\ ws = "idle" /\ M' = m
      BY <1>1, <2>1 DEF Busy, Running, M
    <3>2. QED
      BY <3>1 DEF ComShape, Running
  <2>2. CASE u # "com"
    <3>1. UNCHANGED comState
      BY <1>1, <2>2 DEF comState, M
    <3>2. QED
      BY <3>1, ComShapeSame
  <2>3. QED
    BY <2>1, <2>2
<1>5. QED
  BY <1>2, <1>3, <1>4

(* With no beat answered the length does not matter. *)
LEMMA CountAtRest ==
    ASSUME ComCount, Taken = 0, Taken' = 0, UNCHANGED <<ws, ctr, arrayState>>
    PROVE  ComCount'
<1>1. \A i \in Port : Share(0, i) = 0 /\ Share(0, i)' = 0
  BY NAssumption DEF Share, Port
<1>2. \A i \in Port : Retired + Len(fed[i]) = 0
  BY <1>1 DEF ComCount
<1>3. UNCHANGED <<Retired, fed>>
  BY DEF Retired, Ctr, arrayState
<1>4. \A i \in Port : Share(Taken, i)' = 0
  BY <1>1 DEF Share
<1>5. QED
  BY <1>2, <1>3, <1>4 DEF ComCount

(* The host gives a command. *)
LEMMA StartKeeps ==
    ASSUME Shape, FlipInv, ~Prompt, NEW u \in Units, NEW m \in Lengths, StartCommand(u, m)
    PROVE  Shape'
<1>0. /\ Tokens /\ MasterShape /\ SideUse /\ ComShape /\ ComBeats /\ ComCount /\ ArrayShape /\ StorePath
      /\ MemShape
      /\ UNCHANGED <<memoryVars, id, irq, rd, wr, trig, wq, rq, start_wr, ws, wm, ctr, wreg, arrayState>>
      /\ waiting \subseteq Overlaps(u) /\ HasRoom(start[u])
      /\ start' = [start EXCEPT ![u] = Append(@, m)] /\ waiting' = waiting \cup {u}
      /\ len' = [len EXCEPT ![u] = m] /\ m \in 1 .. Entries /\ m \in Nat
      /\ waiting = {} => Quiet
  BY LengthsAssumption, EntriesAssumption DEF Shape, StartCommand, axiVars, setupVars, arrayState, Ready
<1>1. /\ MemShape' /\ Exclusive' /\ PortTypes'
      /\ UNCHANGED <<Req(0), Req(1), Rsp(0), Rsp(1)>>
      /\ waiting # {} => FlipAlone'
  BY <1>0, PipesKeep
<1>2. waiting = {} => NoFlip /\ Req(0) = << >> /\ Req(1) = << >> /\ Rsp(0) = << >> /\ Rsp(1) = << >>
  BY <1>0, QuietEmpty DEF Ids
<1>3. FlipAlone'
  <2>1. CASE waiting # {}
    BY <1>1, <2>1
  <2>2. CASE waiting = {}
    <3>1. Settled
      BY <1>2, <2>2, ComesToRest
    <3>2. QED
      BY <1>0, <3>1 DEF Settled, NoFlip, FlipAlone, memoryVars, flipVars, splitVars, mergeVars
  <2>3. QED
    BY <2>1, <2>2
<1>4. u \notin waiting /\ "com" \notin waiting /\ (u = "com" => waiting = {})
  BY <1>0 DEF Overlaps, Units
<1>5. start[u] = << >> /\ irq[u] = << >> /\ ~Busy(u)
  BY <1>0, <1>4 DEF Tokens, Token
<1>6. Tokens'
  <2>1. /\ start' = [v \in Units |-> start'[v]] /\ start'[u] = <<m>>
        /\ \A v \in Units : v # u => start'[v] = start[v]
    BY <1>0, <1>5, OneToken DEF Tokens
  <2>7. /\ len' = [v \in Units |-> len'[v]] /\ len'[u] = m
        /\ \A v \in Units : v # u => len'[v] = len[v]
    BY <1>0 DEF Tokens
  <2>2. \A v \in Units : Busy(v)' <=> Busy(v)
    BY <1>0, BusySame
  <2>3. ASSUME NEW v \in Units PROVE Token(v)'
    <3>1. CASE v = u
      BY <1>0, <1>5, <2>1, <2>2, <2>7, <3>1, OneToken DEF Token
    <3>2. CASE v # u
      BY <1>0, <2>1, <2>2, <2>7, <3>2 DEF Tokens, Token
    <3>3. QED
      BY <3>1, <3>2
  <2>4. waiting' \subseteq {"load", "store"} \/ waiting' = {"com"}
    BY <1>0 DEF Overlaps, Units
  <2>5. irq' = [v \in Units |-> irq'[v]]
    BY <1>0 DEF Tokens
  <2>6. QED
    BY <2>1, <2>3, <2>4, <2>5, <2>7 DEF Tokens
<1>7. MasterShape' /\ StorePath' /\ ComShape' /\ ArrayShape'
  <2>1. len = [v \in Units |-> len[v]]
    BY <1>0 DEF Tokens
  <2>2. QED
    BY <1>0, <1>1, <1>5, <2>1, NewLength
<1>8. SideUse'
  <2>1. waiting = {} => AllOf(Req(1)', "load") /\ AllOf(Req(1)', "store")
    BY <1>1, <1>2, AllOfOne
  <2>2. "com" \notin waiting' => Rsp(0)' = << >> /\ AllOf(Req(0)', "store")
    BY <1>0, <1>1, <1>4 DEF SideUse, AllOf
  <2>3. waiting' \cap {"load", "store"} # {} => AllOf(Req(1)', "load")
    <3>1. CASE waiting = {}
      BY <2>1, <3>1
    <3>2. CASE waiting # {}
      <4>1. waiting \cap {"load", "store"} # {}
        BY <1>0, <3>2 DEF Overlaps
      <4>2. QED
        BY <1>0, <1>1, <4>1 DEF SideUse, AllOf
    <3>3. QED
      BY <3>1, <3>2
  <2>4. "com" \in waiting' => AllOf(Req(1)', "store")
    BY <1>0, <1>4, <2>1
  <2>5. QED
    BY <2>2, <2>3, <2>4 DEF SideUse, AllOf
<1>9. ASSUME "com" \in waiting' PROVE Answers' = 0 /\ Req(0)' = << >> /\ Rsp(0)' = << >>
  <2>1. u = "com" /\ waiting = {}
    BY <1>0, <1>4, <1>9
  <2>2. rq.at = "idle" /\ ~Running
    BY <1>5, <2>1 DEF Busy
  <2>3. Issued' = 0 /\ Req(0)' = << >> /\ Rsp(0)' = << >>
    BY <1>0, <1>1, <1>2, <2>1, <2>2 DEF Issued, Running
  <2>4. QED
    BY <2>3, QueueOf DEF Answers
<1>10. ComBeats'
  <2>1. "com" \in waiting' => Len(Req(0)') = 0 /\ Len(Rsp(0)') = 0
    BY <1>9, QueueOf
  <2>2. QED
    BY <1>9, <2>1 DEF ComBeats, Served, Fits, Runs
<1>11. Taken = 0 /\ Taken' = 0
  BY <1>4, <1>9 DEF Taken
<1>12. ComCount'
  BY <1>0, <1>11, CountAtRest
<1>13. QED
  BY <1>1, <1>3, <1>6, <1>7, <1>8, <1>10, <1>12 DEF Shape

(* The host flips the sides. *)
LEMMA FlipKeeps ==
    ASSUME Shape, ~Prompt, NEW v \in Ids, FlipCommand(v)
    PROVE  Shape'
<1>0. /\ Tokens /\ MemShape
      /\ UNCHANGED <<pipes, waiting, len, M, start, irq, rd, wr, trig, wq, rq, start_wr, ws, comState, arrayState>>
      /\ waiting = {} /\ Quiet /\ id' = v
  BY DEF Shape, FlipCommand, pipes, axiVars, setupVars, comState, arrayState, Ready, M,
         splitVars, mergeVars, coreVars
<1>1. MemShape' /\ Exclusive' /\ PortTypes'
  BY <1>0, SMTT(60) DEF Shape, pipes, MemShape, Exclusive, PortTypes, Channel, Slot, IsQueue, AllOf
<1>2. \A s \in Ids : Req(s) = << >> /\ Rsp(s) = << >>
  BY <1>0, QuietEmpty
<1>3. ASSUME NEW s \in Ids PROVE Req(s)' = << >> /\ Rsp(s)' = << >>
  <2>1. Core(s)' \in Ids /\ 2*s \in 0 .. 3 /\ 2*s+1 \in 0 .. 3
    BY <1>0 DEF Core, Ids
  <2>2. /\ req_inter'[Core(s)'] = << >> /\ split_reg'[Core(s)'] = << >>
        /\ mem_req'[2*s] = << >> /\ mem_req'[2*s+1] = << >>
        /\ mem_rsp'[s] = << >> /\ merge_reg'[s] = << >>
        /\ rsp_inter'[Core(s)'] = << >> /\ core_rsp'[Core(s)'] = << >>
    BY <1>0, <2>1 DEF Quiet, pipes
  <2>3. << >> \o << >> = << >>
    BY QueueOf, QueueIs
  <2>4. QED
    BY <2>2, <2>3 DEF Req, Rsp
<1>4. UNCHANGED <<Req(0), Req(1), Rsp(0), Rsp(1)>>
  BY <1>2, <1>3 DEF Ids
<1>5. FlipAlone'
  BY <1>0, <1>3 DEF FlipAlone, AtRest
<1>6. Tokens' /\ MasterShape' /\ StorePath' /\ SideUse' /\ ComShape' /\ ComBeats' /\ ArrayShape' /\ ComCount'
  BY <1>0, <1>4, BusySame, TokensSame, MastersSame, SideSame, ComSame DEF Shape
<1>7. QED
  BY <1>1, <1>5, <1>6 DEF Shape

(* The host takes an interrupt. *)
LEMMA InterruptKeeps ==
    ASSUME Shape, NEW u \in Units, Interrupt(u)
    PROVE  Shape'
<1>0. /\ Tokens /\ MasterShape /\ SideUse /\ ComShape /\ ComBeats /\ ComCount /\ ArrayShape /\ StorePath
      /\ MemShape
      /\ UNCHANGED <<memoryVars, id, start, rd, wr, trig, wq, rq, start_wr, ws, wm, ctr, wreg, arrayState>>
      /\ len' = [len EXCEPT ![u] = 0]
      /\ irq[u] # << >> /\ irq' = [irq EXCEPT ![u] = Tail(@)] /\ waiting' = waiting \ {u}
  BY DEF Shape, Interrupt, axiVars, setupVars, arrayState, HasMsg
<1>1. u \in waiting /\ start[u] = << >> /\ irq[u] = <<1>> /\ ~Busy(u)
  BY <1>0 DEF Tokens, Token
<1>2. /\ MemShape' /\ Exclusive' /\ PortTypes'
      /\ UNCHANGED <<Req(0), Req(1), Rsp(0), Rsp(1)>>
      /\ FlipAlone'
  BY <1>0, <1>1, PipesKeep
<1>3. Tokens'
  <2>1. /\ irq' = [v \in Units |-> irq'[v]] /\ irq'[u] = << >>
        /\ \A v \in Units : v # u => irq'[v] = irq[v]
    BY <1>0, <1>1, OneToken DEF Tokens
  <2>7. /\ len' = [v \in Units |-> len'[v]] /\ len'[u] = 0
        /\ \A v \in Units : v # u => len'[v] = len[v]
    BY <1>0 DEF Tokens
  <2>2. \A v \in Units : Busy(v)' <=> Busy(v)
    BY <1>0, BusySame
  <2>3. ASSUME NEW v \in Units PROVE Token(v)'
    <3>1. CASE v = u
      BY <1>0, <1>1, <2>1, <2>2, <2>7, <3>1 DEF Token
    <3>2. CASE v # u
      BY <1>0, <2>1, <2>2, <2>7, <3>2 DEF Tokens, Token
    <3>3. QED
      BY <3>1, <3>2
  <2>4. waiting' \subseteq {"load", "store"} \/ waiting' = {"com"}
    BY <1>0, <1>1 DEF Tokens
  <2>5. start' = [v \in Units |-> start'[v]]
    BY <1>0 DEF Tokens
  <2>6. QED
    BY <2>1, <2>3, <2>4, <2>5, <2>7 DEF Tokens
<1>4. MasterShape' /\ StorePath' /\ ComShape' /\ ArrayShape'
  <2>1. len = [v \in Units |-> len[v]]
    BY <1>0 DEF Tokens
  <2>2. QED
    BY <1>0, <1>1, <1>2, <2>1, NewLength
<1>5. CASE u = "com"
  <2>1. waiting = {"com"} /\ waiting' = {}
    BY <1>0, <1>1, <1>5 DEF Tokens
  <2>2. Answers = 0 /\ Req(0) = << >> /\ Rsp(0) = << >>
    BY <1>1, <1>5, NobodyComputes
  <2>3. SideUse'
    BY <1>2, <2>1, <2>2, AllOfOne DEF SideUse, AllOf
  <2>4. ComBeats' /\ Taken = 0 /\ Taken' = 0
    BY <2>1, <2>2 DEF ComBeats, Taken
  <2>5. ComCount'
    BY <1>0, <2>4, CountAtRest
  <2>6. QED
    BY <1>2, <1>3, <1>4, <2>3, <2>4, <2>5 DEF Shape
<1>6. CASE u # "com"
  <2>1. "com" \notin waiting /\ "com" \notin waiting'
    BY <1>0, <1>1, <1>6 DEF Tokens, Units
  <2>2. SideUse'
    BY <1>0, <1>2, <2>1 DEF SideUse, AllOf
  <2>3. ComBeats' /\ Taken = 0 /\ Taken' = 0
    BY <2>1 DEF ComBeats, Taken
  <2>4. ComCount'
    BY <1>0, <2>3, CountAtRest
  <2>5. QED
    BY <1>2, <1>3, <1>4, <2>2, <2>3, <2>4 DEF Shape
<1>7. QED
  BY <1>5, <1>6

(* Nothing happens. *)
LEMMA IdleKeeps ==
    ASSUME Shape, UNCHANGED vars
    PROVE  Shape'
<1>0. UNCHANGED <<memoryVars, id, waiting, len, M, start, irq, rd, wr, trig, wq, rq, start_wr, ws, comState, arrayState>>
  BY DEF vars, clientVars, axiVars, setupVars, hostVars, comState, arrayState, M
<1>1. /\ MemShape' /\ Exclusive' /\ PortTypes' /\ FlipAlone'
      /\ UNCHANGED <<Req(0), Req(1), Rsp(0), Rsp(1)>>
  BY <1>0, PipesKeep
<1>2. Tokens' /\ MasterShape' /\ StorePath' /\ SideUse' /\ ComShape' /\ ComBeats' /\ ArrayShape' /\ ComCount'
  BY <1>0, <1>1, BusySame, TokensSame, MastersSame, SideSame, ComSame DEF Shape
<1>3. QED
  BY <1>1, <1>2 DEF Shape

(* At the start nothing is on its way. *)
LEMMA InitShape ==
    ASSUME Init
    PROVE  Shape
<1>0. /\ NoFlip /\ split_id = 0 /\ merge_id = 0 /\ id = 0
      /\ mem_req = [p \in 0 .. 3 |-> << >>] /\ mem_rsp = [p \in Ids |-> << >>]
      /\ req_inter = [b \in Ids |-> << >>] /\ rsp_inter = [b \in Ids |-> << >>]
      /\ split_reg = [b \in Ids |-> << >>] /\ merge_reg = [p \in Ids |-> << >>]
      /\ core_rsp = [b \in Ids |-> << >>]
      /\ mem = [b \in Ids |-> [a \in Addr |-> Empty]]
  BY DEF Init, MemoryInit, NoFlip, Ids
<1>1. IsQueue(<< >>) /\ Len(<< >>) = 0 /\ Channel(<< >>) /\ Slot(<< >>)
  BY QueueOf, CapAssumption DEF Channel, Slot
<1>2. MemShape
  BY <1>0, <1>1 DEF MemShape, Ids
<1>3. \A p \in 0 .. 3 : mem_req[p] = << >>
  BY <1>0
<1>4. Exclusive /\ PortTypes
  BY <1>3, AllOfOne DEF Exclusive, PortTypes, Ids
<1>5. FlipAlone
  BY <1>0 DEF FlipAlone
<1>6. \A s \in Ids : Req(s) = << >> /\ Rsp(s) = << >>
  <2>1. ASSUME NEW s \in Ids PROVE Req(s) = << >> /\ Rsp(s) = << >>
    <3>1. Core(s) \in Ids /\ 2*s \in 0 .. 3 /\ 2*s+1 \in 0 .. 3
      BY <1>2, Cores DEF MemShape
    <3>2. QED
      BY <1>0, <1>2, <1>3, <3>1, EmptySide
  <2>2. QED
    BY <2>1
<1>7. Req(0) = << >> /\ Req(1) = << >> /\ Rsp(0) = << >> /\ Rsp(1) = << >>
  BY <1>6 DEF Ids
<1>8. /\ start = [u \in Units |-> << >>] /\ irq = [u \in Units |-> << >>]
      /\ rd = Idle /\ wr = Idle /\ wq = Idle /\ trig = << >>
      /\ rq = NoRun /\ start_wr = << >> /\ ws = "idle"
      /\ ctr = [j \in Port |-> 0] /\ wreg = << >>
      /\ fed = [i \in Port |-> << >>] /\ out = [j \in Port |-> 0] /\ act_out = [j \in Port |-> << >>]
      /\ waiting = {} /\ len = [u \in Units |-> 0]
  BY DEF Init
<1>9. Idle \in Stage /\ Idle.at = "idle" /\ (\A m \in Nat : Burster(Idle, m))
  BY BurstStarts
<1>10. Tokens
  BY <1>8, <1>9 DEF Tokens, Token, Busy, Running, Units, NoRun
<1>11. MasterShape /\ StorePath /\ SideUse
  <2>1. "load" \in Units /\ "store" \in Units
    BY DEF Units
  <2>2. len["load"] = 0 /\ len["store"] = 0 /\ 0 \in Nat
    BY <1>8, <2>1
  <2>3. QED
    BY <1>7, <1>8, <1>9, <2>2, AllOfOne DEF MasterShape, StorePath, SideUse
<1>12. ComShape
  BY <1>8 DEF ComShape, Running, NoRun, M, Units
<1>13. ComBeats /\ Taken = 0
  BY <1>8 DEF ComBeats, Taken
<1>14. ArrayShape
  BY <1>1, <1>8, DepthAssumption, SizesPositive DEF ArrayShape
<1>15. ComCount
  <2>1. Retired = 0
    BY <1>1, <1>8, SizesPositive DEF Retired, Ctr
  <2>2. \A i \in Port : Share(Taken, i) = 0 /\ Len(fed[i]) = 0
    BY <1>1, <1>8, <1>12, <1>13, ShareGrows DEF ComShape
  <2>3. QED
    BY <2>1, <2>2 DEF ComCount
<1>16. QED
  BY <1>2, <1>4, <1>5, <1>10, <1>11, <1>12, <1>13, <1>14, <1>15 DEF Shape

-----------------------------------------------------------------------------
(* The shape is an invariant, and what follows from it *)

(* Every step keeps the shape. *)
LEMMA NextShape ==
    ASSUME Shape, FlipInv, ~Prompt, [Next]_vars
    PROVE  Shape'
<1>1. CASE MemoryStep
  BY <1>1, MemoryKeepsShape DEF FlipInv
<1>2. CASE MasterRead
  BY <1>2, MasterReadKeeps, MasterReadDataKeeps DEF MasterRead
<1>3. CASE MasterWriteReq
  BY <1>3, WriteReqTrigKeeps, WriteReqPushKeeps DEF MasterWriteReq
<1>4. CASE MasterWrite
  BY <1>4, MasterWriteKeeps, WriteDataKeeps DEF MasterWrite
<1>5. CASE ReadReqRun
  BY <1>5, ReadReqStartKeeps, ReadReqBeatKeeps DEF ReadReqRun
<1>6. CASE ReadRspRun
  BY <1>6, ReadRspRunKeeps
<1>7. CASE WriteReqRun
  BY <1>7, WriteReqStartKeeps, WriteReqPollKeeps, WriteReqPushSteps, WriteReqIRQKeeps DEF WriteReqRun
<1>8. CASE \E j \in Port : ArrayOut(j)
  BY <1>8, ArrayOutKeeps
<1>9. CASE \E u \in Units : (\E m \in Lengths : StartCommand(u, m)) \/ Interrupt(u)
  BY <1>9, StartKeeps, InterruptKeeps
<1>10. CASE \E v \in Ids : FlipCommand(v)
  BY <1>10, FlipKeeps
<1>11. CASE Stop \/ UNCHANGED vars
  BY <1>11, IdleKeeps DEF Stop
<1>12. QED
  BY <1>1, <1>2, <1>3, <1>4, <1>5, <1>6, <1>7, <1>8, <1>9, <1>10, <1>11 DEF Next

BufferInv == FlipInv /\ Shape

(* The inductive invariant. *)
LEMMA BufferHolds == Spec => [](~Prompt => BufferInv)
<1>1. Init => (~Prompt => BufferInv)
  BY InitFlip, InitShape DEF BufferInv
<1>2. (~Prompt => BufferInv) /\ [Next]_vars => (~Prompt => BufferInv)'
  BY NextFlip, NextShape DEF BufferInv
<1>3. QED
  BY <1>1, <1>2, PTL DEF Spec

(* CopiesAgree. *)
THEOREM LoadsComeBack == Spec => [](~Prompt => CopiesAgree)
<1>1. BufferInv => CopiesAgree
  <2> SUFFICES ASSUME BufferInv, LoadInFlight
               PROVE  split_id = id /\ merge_id = id
    BY DEF CopiesAgree
  <2>1. MemShape /\ FlipAlone
    BY DEF BufferInv, Shape
  <2>2. CASE AtRest
    <3>1. \A s \in Ids : /\ mem_req[2*s+1] = << >> /\ merge_reg[s] = << >>
                         /\ req_inter[Core(s)] = << >> /\ split_reg[Core(s)] = << >>
                         /\ rsp_inter[Core(s)] = << >> /\ core_rsp[Core(s)] = << >>
      BY <2>1, <2>2, EmptySide DEF AtRest
    <3>2. \A b \in Ids : \E s \in Ids : b = Core(s)
      BY <2>1, Cores DEF MemShape
    <3>3. mem_req[1] = << >> /\ mem_req[3] = << >>
      BY <3>1 DEF Ids
    <3>4. \A b \in Ids : /\ merge_reg[b] = << >> /\ req_inter[b] = << >> /\ split_reg[b] = << >>
                         /\ rsp_inter[b] = << >> /\ core_rsp[b] = << >>
      BY <3>1, <3>2
    <3>5. QED
      BY <3>3, <3>4 DEF LoadInFlight, HasMsg
  <2>3. QED
    BY <2>1, <2>2 DEF FlipAlone
<1>2. QED
  BY <1>1, BufferHolds, PTL

(* ResponseWhole. *)
THEOREM WordsComeWhole == Spec => [](~Prompt => ResponseWhole)
<1>1. BufferInv => ResponseWhole
  <2> SUFFICES ASSUME BufferInv, NEW k \in 1 .. Len(mem_rsp[1])
               PROVE  DOMAIN mem_rsp[1][k] = 0 .. W-1
    BY DEF ResponseWhole
  <2>1. MemShape /\ StorePath /\ MasterShape /\ Shape
    BY DEF BufferInv, Shape
  <2> DEFINE a == mem_rsp[1]
             t == merge_reg[1] \o (rsp_inter[Core(1)] \o core_rsp[Core(1)])
             r == a \o t
  <2>2. IsQueue(a) /\ IsQueue(t) /\ Rsp(1) = r /\ k \in 1 .. Len(a)
    BY <2>1, Parts DEF Ids, Rsp
  <2> HIDE DEF a, t
  <2>3. Len(a) \in Nat /\ Len(t) \in Nat
    BY <2>2, QueueIs
  <2>4. Len(r) = Len(a) + Len(t) /\ r[k] = a[k] /\ (r = << >> => a = << >>)
    BY <2>2, QueueCat
  <2> HIDE DEF r
  <2>5. k \in 1 .. Len(r) /\ k \in Nat
    BY <2>2, <2>3, <2>4
  <2>6. wr.at = "data"
    <3>1. a # << >>
      BY <2>2, <2>3, QueueOf
    <3>2. QED
      BY <2>1, <2>2, <2>4, <3>1 DEF StorePath
  <2>7. Fits(r, WordLoads(wr.burst), wr.i) /\ wr.i \in Nat
    BY <2>1, <2>2, <2>6, NotRunning DEF Served
  <2>8. DOMAIN r[k] = DOMAIN WordLoads(wr.burst)[wr.i + k - 1].addr
    BY <2>5, <2>7 DEF Fits
  <2>9. wr.i + k - 1 \in Nat
    BY <2>5, <2>7
  <2>10. WordLoads(wr.burst)[wr.i + k - 1].addr = WordAddr(wr.burst, wr.i + k - 1)
    BY <2>9 DEF WordLoads, Load
  <2>11. DOMAIN WordAddr(wr.burst, wr.i + k - 1) = 0 .. W-1
    BY DEF WordAddr
  <2>12. QED
    BY <2>4, <2>8, <2>10, <2>11 DEF a
<1>2. QED
  BY <1>1, BufferHolds, PTL

-----------------------------------------------------------------------------
(* The circle of NotJammed never closes *)

(* The one who waits, and the one who is waited for; b is the core. *)
SplitWaits(b) == HasMsg(split_reg[b]) /\ ~HasRoom(req_inter[b])
CoreWaits(b) == HasMsg(core_rsp[b]) /\ ~HasRoom(rsp_inter[b])
MergeWaits == HasMsg(merge_reg[0]) /\ ~HasRoom(mem_rsp[0])
ReadWaits == \E i \in DOMAIN Head(mem_rsp[0]) : Len(fed[i]) = Depth
ArrayWaits == \E j \in Port : out[j] = 0 /\ ~HasRoom(act_out[j])
WriteWaits == ws = "push" /\ ~HasRoom(mem_req[2])
Circle(b) == SplitWaits(b) /\ CoreWaits(b) /\ MergeWaits /\ ReadWaits /\ ArrayWaits /\ WriteWaits

circleState(b) == <<split_reg[b], req_inter[b], core_rsp[b], rsp_inter[b],
                    merge_reg[0], mem_rsp[0], mem_req[2], fed, out, act_out, ws>>

(* A step that changes nothing of the circle does not close it. *)
LEMMA CircleSame ==
    ASSUME NEW b \in Ids, Circle(b)', UNCHANGED circleState(b)
    PROVE  Circle(b)
BY DEF Circle, SplitWaits, CoreWaits, MergeWaits, ReadWaits, ArrayWaits, WriteWaits, HasMsg, HasRoom,
       circleState

(* A channel that has just been read has room. *)
LEMMA RoomAfter ==
    ASSUME NEW q, Channel(q), q # << >>
    PROVE  HasRoom(Tail(q))
<1>1. IsQueue(q) /\ Len(q) <= Cap /\ Len(q) \in Nat
  BY QueueIs DEF Channel
<1>2. Len(Tail(q)) = Len(q) - 1
  BY <1>1, QueueTail
<1>3. QED
  BY <1>1, <1>2, CapAssumption DEF HasRoom

(* An empty channel has room. *)
LEMMA RoomEmpty == HasRoom(<< >>)
BY QueueOf, CapAssumption DEF HasRoom

(* Responses for the computation come only while the host waits for it; no  *)
(* response of the other core is on its way then.                           *)
LEMMA ResponseComputes ==
    ASSUME Shape, Rsp(0) # << >>
    PROVE  "com" \in waiting /\ Rsp(1) = << >> /\ core_rsp[Core(1)] = << >>
<1>1. MemShape /\ SideUse
  BY DEF Shape
<1>2. "com" \in waiting
  BY <1>1 DEF SideUse
<1>3. Rsp(1) = << >>
  BY <1>2, Computing
<1>4. QED
  BY <1>1, <1>2, <1>3, EmptySide DEF Ids

(* The response next in the channel of the computation is that of a beat:   *)
(* it has rows of the array.                                                *)
LEMMA HeadIsBeat ==
    ASSUME Shape, HasMsg(mem_rsp[0])
    PROVE  DOMAIN Head(mem_rsp[0]) \subseteq Port
<1>1. MemShape
  BY DEF Shape
<1>2. Rsp(0) # << >>
  BY <1>1, EmptySide DEF Ids, HasMsg
<1>3. "com" \in waiting
  BY <1>2, ResponseComputes
<1> DEFINE a == mem_rsp[0]
           t == merge_reg[0] \o (rsp_inter[Core(0)] \o core_rsp[Core(0)])
           r == a \o t
           n == Answers
<1>4. IsQueue(a) /\ IsQueue(t) /\ a # << >> /\ Rsp(0) = r
  BY <1>1, Parts DEF Ids, Rsp, HasMsg
<1>5. n \in Nat /\ Fits(r, BeatLoads, n)
  BY <1>3, <1>4, Computing DEF Served
<1> HIDE DEF a, t, n
<1>6. Head(r) = Head(a) /\ r # << >>
  BY <1>4, QueueFront
<1>7. IsQueue(r)
  BY <1>4, QueueCat
<1> HIDE DEF r
<1>8. Len(r) >= 1 /\ Len(r) \in Nat /\ Head(r) = r[1]
  BY <1>6, <1>7, QueueTail, QueueIs
<1>9. DOMAIN r[1] = DOMAIN BeatLoads[n + 1 - 1].addr
  BY <1>8, <1>5 DEF Fits
<1>10. n + 1 - 1 = n
  BY <1>5
<1>11. BeatLoads[n].addr = Beat(n, M)
  BY <1>5 DEF BeatLoads, Load
<1>12. DOMAIN Beat(n, M) \subseteq Port
  BY DEF Beat
<1>13. QED
  BY <1>6, <1>8, <1>9, <1>10, <1>11, <1>12 DEF a

(* SplitReqRun: the poll that takes a load takes the store waiting next to  *)
(* it, since no port stalls; the push makes the register free.              *)
LEMMA SplitOpens ==
    ASSUME Shape, ~RandStall, SplitReqRun, UNCHANGED clientVars, NEW b \in Ids, Circle(b)'
    PROVE  Circle(b)
<1>1. MemShape
  BY DEF Shape
<1>2. CASE SplitPoll
  <2>1. PICK p \in Chain(0, 1), q \in Chain(2, 3) :
          mem_req' = [r \in 0 .. 3 |-> After(r \in {p, q} \ {-1}, mem_req[r])]
    BY <1>2 DEF SplitPoll
  <2>2. Channel(mem_req[2])
    BY <1>1 DEF MemShape
  <2>3. mem_req[2] # << >> => q = 2
    BY DEF Chain, PopNB, HasMsg
  <2>4. mem_req'[2] = After(2 \in {p, q} \ {-1}, mem_req[2])
    BY <2>1
  <2>5. CASE mem_req[2] # << >>
    <3>1. mem_req'[2] = Tail(mem_req[2])
      BY <2>3, <2>4, <2>5 DEF After
    <3>2. HasRoom(mem_req'[2])
      BY <2>2, <2>5, <3>1, RoomAfter
    <3>3. QED
      BY <3>2 DEF Circle, WriteWaits, HasRoom
  <2>6. CASE mem_req[2] = << >>
    <3>1. p # 2 /\ q # 2
      BY <2>6 DEF Chain, PopNB, HasMsg
    <3>2. mem_req'[2] = << >>
      BY <2>4, <2>6, <3>1 DEF After
    <3>3. QED
      BY <3>2, RoomEmpty DEF Circle, WriteWaits, HasRoom
  <2>7. QED
    BY <2>5, <2>6
<1>3. ASSUME NEW c \in Ids, SplitPush(c) PROVE Circle(b)
  <2>1. /\ split_reg' = [split_reg EXCEPT ![c] = << >>]
        /\ req_inter' = [req_inter EXCEPT ![c] = Append(@, Head(split_reg[c]))]
        /\ UNCHANGED <<mem_req, mergeVars, coreVars>>
    BY <1>3 DEF SplitPush
  <2>2. CASE c = b
    <3>1. split_reg'[b] = << >>
      BY <1>1, <2>1, <2>2 DEF MemShape
    <3>2. QED
      BY <3>1 DEF Circle, SplitWaits, HasMsg
  <2>3. CASE c # b
    <3>1. split_reg'[b] = split_reg[b] /\ req_inter'[b] = req_inter[b]
      BY <1>1, <2>1, <2>3 DEF MemShape
    <3>2. UNCHANGED <<mem_req, mem_rsp, merge_reg, rsp_inter, core_rsp, fed, out, act_out, ws>>
      BY <2>1 DEF mergeVars, coreVars, clientVars, setupVars
    <3>3. UNCHANGED circleState(b)
      BY <3>1, <3>2 DEF circleState
    <3>4. QED
      BY <3>3, CircleSame
  <2>4. QED
    BY <2>2, <2>3
<1>4. QED
  BY <1>2, <1>3 DEF SplitReqRun

(* A core: taking a request makes room for the one SplitReqRun holds,       *)
(* giving a response makes the core's own register free.                    *)
LEMMA CoreOpens ==
    ASSUME Shape, NEW c \in Ids, MemoryRun(c), UNCHANGED clientVars, NEW b \in Ids, Circle(b)'
    PROVE  Circle(b)
<1>1. MemShape /\ UNCHANGED <<fed, out, act_out, ws>>
  BY DEF Shape, clientVars, setupVars
<1>2. CASE CorePop(c)
  <2>1. /\ core_rsp[c] = << >> /\ req_inter[c] # << >>
        /\ req_inter' = [req_inter EXCEPT ![c] = Tail(@)]
        /\ \E r : core_rsp' = [core_rsp EXCEPT ![c] = r]
        /\ UNCHANGED <<mem_req, split_reg, mem_rsp, merge_reg, rsp_inter>>
    <3>1. UNCHANGED core_rsp => core_rsp' = [core_rsp EXCEPT ![c] = core_rsp[c]]
      BY <1>1 DEF MemShape
    <3>2. QED
      BY <1>2, <3>1 DEF CorePop, PopNB, HasMsg, mergeVars
  <2>2. CASE c = b
    <3>1. Channel(req_inter[b]) /\ req_inter'[b] = Tail(req_inter[b])
      BY <1>1, <2>1, <2>2 DEF MemShape
    <3>2. HasRoom(req_inter'[b])
      BY <2>1, <2>2, <3>1, RoomAfter
    <3>3. QED
      BY <3>2 DEF Circle, SplitWaits, HasRoom
  <2>3. CASE c # b
    <3>1. core_rsp'[b] = core_rsp[b] /\ req_inter'[b] = req_inter[b]
      BY <1>1, <2>1, <2>3 DEF MemShape
    <3>2. UNCHANGED circleState(b)
      BY <1>1, <2>1, <3>1 DEF circleState
    <3>3. QED
      BY <3>2, CircleSame
  <2>4. QED
    BY <2>2, <2>3
<1>3. CASE CorePush(c)
  <2>1. /\ \E r : rsp_inter' = [rsp_inter EXCEPT ![c] = r]
        /\ core_rsp' = [core_rsp EXCEPT ![c] = << >>]
        /\ UNCHANGED <<mem_req, req_inter, split_reg, mem_rsp, merge_reg>>
    BY <1>3 DEF CorePush, splitVars
  <2>2. CASE c = b
    <3>1. core_rsp'[b] = << >>
      BY <1>1, <2>1, <2>2 DEF MemShape
    <3>2. QED
      BY <3>1 DEF Circle, CoreWaits, HasMsg
  <2>3. CASE c # b
    <3>1. core_rsp'[b] = core_rsp[b] /\ rsp_inter'[b] = rsp_inter[b]
      BY <1>1, <2>1, <2>3 DEF MemShape
    <3>2. UNCHANGED circleState(b)
      BY <1>1, <2>1, <3>1 DEF circleState
    <3>3. QED
      BY <3>2, CircleSame
  <2>4. QED
    BY <2>2, <2>3
<1>4. QED
  BY <1>2, <1>3 DEF MemoryRun

(* MergeRspRun: a response for the computation comes from the core on the   *)
(* input side, which then has room for another; that the other core holds a *)
(* response at the same time is excluded.                                   *)
LEMMA MergeOpens ==
    ASSUME Shape, MergeRspRun, UNCHANGED clientVars, NEW b \in Ids, Circle(b)'
    PROVE  Circle(b)
<1>1. MemShape /\ FlipAlone /\ UNCHANGED <<id, fed, out, act_out, ws>>
  BY DEF Shape, clientVars, setupVars, hostVars
<1>2. CASE MergePoll
  <2>1. PICK c \in {0, 1, -1} :
          /\ c = 0 => TRUE \in PopNB(rsp_inter[0])
          /\ c = 1 => TRUE \in PopNB(rsp_inter[1])
          /\ rsp_inter' = [d \in Ids |-> After(c = d, rsp_inter[d])]
          /\ merge_reg' = [p \in Ids |-> IF c # -1 /\ PortOf(c, merge_id) = p
                                         THEN <<Head(rsp_inter[c])>> ELSE << >>]
    BY <1>2 DEF MergePoll
  <2>2. core_rsp'[b] = core_rsp[b] /\ core_rsp[b] # << >> /\ merge_reg'[0] # << >> /\ ~HasRoom(rsp_inter'[b])
    BY <1>2 DEF MergePoll, coreVars, Circle, CoreWaits, MergeWaits, HasMsg, HasRoom
  <2>3. c # -1 /\ PortOf(c, merge_id) = 0
    BY <2>1, <2>2 DEF Ids
  <2>4. c \in Ids /\ c = merge_id
    BY <2>1, <2>3 DEF Ids, PortOf
  <2>5. rsp_inter[c] # << >>
    BY <2>1, <2>4 DEF PopNB, HasMsg, Ids
  <2>6. /\ id \in Ids
        /\ \A s \in Ids : Core(s) \in Ids
        /\ \A d \in Ids : \E s \in Ids : d = Core(s)
    BY <1>1, Cores DEF MemShape
  <2>7. merge_id = id
    <3>1. PICK s \in Ids : c = Core(s)
      BY <2>4, <2>6
    <3>2. Rsp(s) # << >>
      BY <1>1, <2>5, <3>1, EmptySide
    <3>3. ~AtRest
      BY <3>2 DEF AtRest
    <3>4. QED
      BY <1>1, <3>3 DEF FlipAlone
  <2>8. c = Core(0)
    BY <2>4, <2>7 DEF Core
  <2>9. Rsp(0) # << >>
    BY <1>1, <2>5, <2>8, EmptySide DEF Ids
  <2>10. core_rsp[Core(1)] = << >>
    BY <2>9, ResponseComputes
  <2>11. b = c
    <3>1. PICK s \in Ids : b = Core(s)
      BY <2>6
    <3>2. s = 0
      BY <2>2, <2>10, <3>1 DEF Ids
    <3>3. QED
      BY <2>8, <3>1, <3>2
  <2>12. Channel(rsp_inter[b]) /\ rsp_inter'[b] = Tail(rsp_inter[b])
    BY <1>1, <2>1, <2>11 DEF MemShape, After
  <2>13. HasRoom(rsp_inter'[b])
    BY <2>5, <2>11, <2>12, RoomAfter
  <2>14. QED
    BY <2>2, <2>13
<1>3. ASSUME NEW p \in Ids, MergePush(p) PROVE Circle(b)
  <2>1. /\ \E r : mem_rsp' = [mem_rsp EXCEPT ![p] = r]
        /\ merge_reg' = [merge_reg EXCEPT ![p] = << >>]
        /\ UNCHANGED <<mem_req, req_inter, split_reg, core_rsp, rsp_inter>>
    BY <1>3 DEF MergePush, splitVars, coreVars
  <2>2. 0 \in Ids
    BY DEF Ids
  <2>3. CASE p = 0
    <3>1. merge_reg'[0] = << >>
      BY <1>1, <2>1, <2>2, <2>3 DEF MemShape
    <3>2. QED
      BY <3>1 DEF Circle, MergeWaits, HasMsg
  <2>4. CASE p # 0
    <3>1. merge_reg'[0] = merge_reg[0] /\ mem_rsp'[0] = mem_rsp[0]
      BY <1>1, <2>1, <2>2, <2>4 DEF MemShape
    <3>2. UNCHANGED circleState(b)
      BY <1>1, <2>1, <3>1 DEF circleState
    <3>3. QED
      BY <3>2, CircleSame
  <2>5. QED
    BY <2>3, <2>4
<1>4. QED
  BY <1>2, <1>3 DEF MergeRspRun

(* ReadRspRun takes a response, and its channel has room again.             *)
LEMMA ReadOpens ==
    ASSUME Shape, ReadRspRun, NEW b \in Ids
    PROVE  ~Circle(b)'
<1>1. MemShape
  BY DEF Shape
<1>2. mem_rsp[0] # << >> /\ mem_rsp' = [mem_rsp EXCEPT ![0] = Tail(@)]
  BY DEF ReadRspRun, PopNB, HasMsg
<1>3. Channel(mem_rsp[0]) /\ mem_rsp'[0] = Tail(mem_rsp[0])
  BY <1>1, <1>2 DEF MemShape, Ids
<1>4. HasRoom(mem_rsp'[0])
  BY <1>2, <1>3, RoomAfter
<1>5. QED
  BY <1>4 DEF Circle, MergeWaits, HasRoom

(* A column that makes an output is not the one that makes none, and when   *)
(* the last column makes one, a vector leaves the array and every row of it *)
(* has room.                                                                *)
LEMMA ArrayOpens ==
    ASSUME Shape, NEW j \in Port, ArrayOut(j), NEW b \in Ids, Circle(b)'
    PROVE  Circle(b)
<1>1. /\ MemShape /\ ArrayShape
      /\ UNCHANGED <<mem_req, mem_rsp, req_inter, rsp_inter, split_reg, merge_reg, core_rsp, ws>>
      /\ \A i \in Port : out[j] < Len(fed[i])
  BY DEF Shape, ArrayOut, memoryVars, splitVars, mergeVars, coreVars
<1>2. HasMsg(mem_rsp[0])
  BY <1>1, RoomEmpty DEF Circle, MergeWaits, HasMsg, HasRoom
<1>3. DOMAIN Head(mem_rsp[0]) \subseteq Port
  BY <1>2, HeadIsBeat
<1>4. PICK i \in Port : i \in DOMAIN Head(mem_rsp[0]) /\ Len(fed'[i]) = Depth
  BY <1>1, <1>3 DEF Circle, ReadWaits
<1>5. PICK k \in Port : out'[k] = 0 /\ ~HasRoom(act_out'[k])
  BY DEF Circle, ArrayWaits, HasRoom
<1>6. \A m \in Port : out[m] \in Nat
  BY <1>1 DEF ArrayShape
<1> DEFINE made == [out EXCEPT ![j] = @ + 1]
<1>7. UNCHANGED fed /\ out' = made
  <2>1. IsQueue(fed[i]) /\ Len(fed[i]) <= Depth /\ Len(fed[i]) \in Nat /\ Len(fed[i]) > 0
    BY <1>1, <1>6, QueueIs DEF ArrayShape
  <2>2. fed[i] # << >>
    BY <2>1, QueueOf
  <2>3. Len(Tail(fed[i])) = Len(fed[i]) - 1
    BY <2>1, <2>2, QueueTail
  <2>4. fed' # [m \in Port |-> Tail(fed[m])]
    <3>1. ASSUME fed' = [m \in Port |-> Tail(fed[m])] PROVE FALSE
      <4>1. Len(fed'[i]) = Len(fed[i]) - 1
        BY <2>3, <3>1
      <4>2. QED
        BY <1>4, <2>1, <4>1, DepthAssumption
    <3>2. QED
      BY <3>1
  <2>5. QED
    BY <2>4 DEF ArrayOut
<1>8. out = [m \in Port |-> out[m]] /\ act_out = [m \in Port |-> act_out[m]]
  BY <1>1 DEF ArrayShape
<1>9. k # j /\ out[k] = 0
  BY <1>5, <1>6, <1>7, <1>8
<1>10. act_out'[k] = act_out[k]
  BY <1>8, <1>9 DEF ArrayOut
<1>11. ArrayWaits
  BY <1>5, <1>9, <1>10 DEF ArrayWaits
<1>12. QED
  BY <1>1, <1>7, <1>11 DEF Circle, SplitWaits, CoreWaits, MergeWaits, ReadWaits, WriteWaits, HasMsg, HasRoom

(* WriteReqRun: the poll takes from every column that has an output, since  *)
(* no port stalls; after any other step it does not wait to push.           *)
LEMMA WriteOpens ==
    ASSUME Shape, ~RandStall, WriteReqRun, NEW b \in Ids
    PROVE  ~Circle(b)'
<1>1. ArrayShape
  BY DEF Shape
<1>2. CASE WriteReqPoll
  <2>1. PICK S \in (SUBSET Port) \ {{}} :
          /\ \A j \in Port : (j \in S) \in PopNB(act_out[j])
          /\ act_out' = [j \in Port |-> After(j \in S, act_out[j])]
    BY <1>2 DEF WriteReqPoll
  <2>2. ASSUME NEW j \in Port PROVE HasRoom(act_out'[j])
    <3>1. Channel(act_out[j])
      BY <1>1 DEF ArrayShape
    <3>2. CASE act_out[j] # << >>
      <4>1. j \in S
        BY <2>1, <3>2 DEF PopNB, HasMsg
      <4>2. act_out'[j] = Tail(act_out[j])
        BY <2>1, <4>1 DEF After
      <4>3. QED
        BY <3>1, <3>2, <4>2, RoomAfter
    <3>3. CASE act_out[j] = << >>
      <4>1. j \notin S
        BY <2>1, <3>3 DEF PopNB, HasMsg
      <4>2. act_out'[j] = << >>
        BY <2>1, <3>3, <4>1 DEF After
      <4>3. QED
        BY <4>2, RoomEmpty
    <3>4. QED
      BY <3>2, <3>3
  <2>3. QED
    BY <2>2 DEF Circle, ArrayWaits, HasRoom
<1>3. CASE WriteReqStart \/ WriteReqPush \/ WriteReqIRQ
  <2>1. ws' # "push"
    BY <1>3 DEF WriteReqStart, WriteReqPush, WriteReqIRQ
  <2>2. QED
    BY <2>1 DEF Circle, WriteWaits
<1>4. QED
  BY <1>2, <1>3 DEF WriteReqRun

(* The masters, ReadReqRun and the host are not part of the circle.         *)
LEMMA OthersOpen ==
    ASSUME Shape, NEW b \in Ids, Circle(b)',
           \/ FlipRun /\ UNCHANGED clientVars
           \/ MasterRead \/ MasterWriteReq \/ MasterWrite \/ ReadReqRun
           \/ \E u \in Units : (\E m \in Lengths : StartCommand(u, m)) \/ Interrupt(u)
           \/ \E v \in Ids : FlipCommand(v)
           \/ UNCHANGED vars
    PROVE  Circle(b)
<1> USE DEF memoryVars, splitVars, mergeVars, coreVars, axiVars, setupVars, hostVars
<1>1. MemShape /\ 0 \in Ids /\ 1 \in Ids
  BY DEF Shape, Ids
<1>2. UNCHANGED <<req_inter, split_reg, core_rsp, rsp_inter, merge_reg, fed, out, act_out, ws>>
  <2>1. CASE FlipRun /\ UNCHANGED clientVars
    BY <2>1 DEF FlipRun, FlipPop, FlipPush, clientVars
  <2>2. CASE MasterRead
    BY <2>2 DEF MasterRead, MasterReadTrig, MasterReadAddr, MasterReadData
  <2>3. CASE MasterWriteReq \/ MasterWrite
    BY <2>3 DEF MasterWriteReq, MasterWriteReqTrig, MasterWriteReqPush,
                MasterWrite, MasterWriteTrig, MasterWriteAddr, MasterWriteData
  <2>4. CASE ReadReqRun
    BY <2>4 DEF ReadReqRun, ReadReqStart, ReadReqBeat
  <2>5. CASE \E u \in Units : (\E m \in Lengths : StartCommand(u, m)) \/ Interrupt(u)
    BY <2>5 DEF StartCommand, Interrupt
  <2>6. CASE \E v \in Ids : FlipCommand(v)
    BY <2>6 DEF FlipCommand
  <2>7. CASE UNCHANGED vars
    BY <2>7 DEF vars, clientVars
  <2>8. QED
    BY <2>1, <2>2, <2>3, <2>4, <2>5, <2>6, <2>7
<1>3. mem_req'[2] = mem_req[2]
  <2>1. CASE MasterReadData \/ MasterWriteReqPush \/ ReadReqBeat
    <3>1. \E p \in {0, 1, 3} : \E r : mem_req' = [mem_req EXCEPT ![p] = r]
      BY <2>1 DEF MasterReadData, MasterWriteReqPush, ReadReqBeat
    <3>2. QED
      BY <1>1, <3>1 DEF MemShape
  <2>2. CASE UNCHANGED mem_req
    BY <2>2
  <2>3. QED
    BY <2>1, <2>2 DEF FlipRun, FlipPop, FlipPush, MasterRead, MasterReadTrig, MasterReadAddr,
       MasterWriteReq, MasterWriteReqTrig, MasterWrite, MasterWriteTrig, MasterWriteAddr, MasterWriteData,
       ReadReqRun, ReadReqStart, StartCommand, Interrupt, FlipCommand, vars
<1>4. mem_rsp'[0] = mem_rsp[0]
  <2>1. CASE MasterWriteData
    BY <1>1, <2>1 DEF MasterWriteData, MemShape
  <2>2. CASE UNCHANGED mem_rsp
    BY <2>2
  <2>3. QED
    BY <2>1, <2>2 DEF FlipRun, FlipPop, FlipPush, MasterRead, MasterReadTrig, MasterReadAddr, MasterReadData,
       MasterWriteReq, MasterWriteReqTrig, MasterWriteReqPush, MasterWrite, MasterWriteTrig, MasterWriteAddr,
       ReadReqRun, ReadReqStart, ReadReqBeat, StartCommand, Interrupt, FlipCommand, vars
<1>5. UNCHANGED circleState(b)
  BY <1>2, <1>3, <1>4 DEF circleState
<1>6. QED
  BY <1>5, CircleSame

(* NotJammed: without stalls, the step of any one in the circle opens it at *)
(* the next one, for every size of the channels, the matrix and the array.  *)
THEOREM NeverJammed == Spec => [](~Prompt /\ ~RandStall => NotJammed)
<1>1. NotJammed <=> \A b \in Ids : ~Circle(b)
  BY DEF NotJammed, Circle, SplitWaits, CoreWaits, MergeWaits, ReadWaits, ArrayWaits, WriteWaits
<1>2. Init => NotJammed
  BY <1>1 DEF Init, Circle, WriteWaits
<1>3. (~Prompt => BufferInv) /\ (~Prompt /\ ~RandStall => NotJammed) /\ [Next]_vars
      => (~Prompt /\ ~RandStall => NotJammed)'
  <2> SUFFICES ASSUME Shape, ~RandStall, [Next]_vars, NEW b \in Ids, Circle(b)'
               PROVE  Circle(b)
    BY <1>1 DEF BufferInv, NotJammed, Circle, SplitWaits, CoreWaits, MergeWaits, ReadWaits, ArrayWaits, WriteWaits
  <2>1. CASE MemoryStep
    <3>1. CASE FlipRun
      BY <2>1, <3>1, OthersOpen DEF MemoryStep
    <3>2. CASE SplitReqRun
      BY <2>1, <3>2, SplitOpens DEF MemoryStep
    <3>3. CASE MergeRspRun
      BY <2>1, <3>3, MergeOpens DEF MemoryStep
    <3>4. CASE \E c \in Ids : MemoryRun(c)
      BY <2>1, <3>4, CoreOpens DEF MemoryStep
    <3>5. QED
      BY <2>1, <3>1, <3>2, <3>3, <3>4 DEF MemoryStep, MemoryNext
  <2>2. CASE ReadRspRun
    BY <2>2, ReadOpens
  <2>3. CASE WriteReqRun
    BY <2>3, WriteOpens
  <2>4. CASE \E j \in Port : ArrayOut(j)
    BY <2>4, ArrayOpens
  <2>5. CASE \/ MasterRead \/ MasterWriteReq \/ MasterWrite \/ ReadReqRun
             \/ \E u \in Units : (\E m \in Lengths : StartCommand(u, m)) \/ Interrupt(u)
             \/ \E v \in Ids : FlipCommand(v)
             \/ Stop \/ UNCHANGED vars
    BY <2>5, OthersOpen DEF Stop
  <2>6. QED
    BY <2>1, <2>2, <2>3, <2>4, <2>5 DEF Next
<1>4. QED
  BY <1>2, <1>3, BufferHolds, PTL DEF Spec
=============================================================================
