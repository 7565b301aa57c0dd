---------------------------- MODULE DoubleBuffer ----------------------------
(***************************************************************************)
(* The memory and those who use it: InputAxi copies a matrix from outside  *)
(* into the input side and the results from the output side to the         *)
(* outside; InputSetup streams the input side through the array and stores *)
(* the results in the output side; Control passes on the host's start and  *)
(* flip commands.  A flip swaps the sides, so that the results of one run  *)
(* become the input of the next.                                           *)
(*                                                                         *)
(* The array is reduced to what KeepsPromise of SysArray says of it, and   *)
(* the AXI slave to one that answers in order.                             *)
(***************************************************************************)
EXTENDS Memory

CONSTANTS
    W,          \* bytes of an AXI word (8 in the code)
    Burst,      \* AXI words of a full burst (256 in the code)
    Depth,      \* vectors the array has room for
    Lengths,    \* the values of M (M_1 + 1 in the code) of the host's commands
    Steps,      \* bound: commands of the host
    Prompt      \* TRUE: the host may follow an interrupt at once with a
                \* command; FALSE: it takes longer than the memory's pipeline

ASSUME WAssumption == W \in 1 .. N /\ N % W = 0
ASSUME BurstAssumption == Burst \in Nat \ {0}
ASSUME DepthAssumption == Depth \in Nat /\ Depth >= N
ASSUME LengthsAssumption == Lengths # {} /\ Lengths \subseteq 1 .. Entries
ASSUME StepsAssumption == Steps \in Nat \ {0}
ASSUME PromptAssumption == Prompt \in BOOLEAN

Words(m) == (N * m) \div W      \* num_words of a transfer
Units == {"load", "store", "com"}

VARIABLES
    start, irq,         \* channels of triggers (M) and of interrupts, per unit
    rd,                 \* InputAxi MasterRead
    wr, trig, wq, ext,  \* MasterWrite, its channel to MasterWriteReq, the outside
    rq, start_wr,       \* InputSetup ReadReqRun, its channel to WriteReqRun
    ws, wm, ctr, wreg,  \* WriteReqRun: where it is, M, counters, request
    fed, out, act_out,  \* the array: vectors inside, outputs made of them
    waiting, steps, loads,  \* host: commands without an interrupt, numbers of
                        \* commands and of load commands given
    len,                \* M of the command a unit works on, 0 if it has none
    id, input, output, saved    \* what the host believes: which core is the
                        \* input side, and what the two sides and the outside hold

axiVars == <<rd, wr, trig, wq, ext>>
setupVars == <<rq, start_wr, ws, wm, ctr, wreg, fed, out, act_out>>
hostVars == <<waiting, steps, loads, len, id, input, output, saved>>
clientVars == <<start, irq, axiVars, setupVars, hostVars>>
vars == <<memoryVars, clientVars>>

(* Values: byte a of the matrix of the host's load g, and the output of    *)
(* column j for a vector.                                                  *)
Empty == <<"empty", 0, 0>>
In(g, a) == <<"in", g, a>>
Out(j, vector) == <<"out", j, vector>>

(* A store or a load of some ports. *)
Store(addr, data) == [type |-> "store", addr |-> addr, data |-> data]
Load(addr) == [type |-> "load", addr |-> addr, data |-> << >>]

Idle == [at |-> "idle", left |-> 0, burst |-> 0, i |-> 0, len |-> 0]
NoRun == [at |-> "idle", i |-> 0, len |-> 0]

Init ==
    /\ MemoryInit(Empty)
    /\ start = [u \in Units |-> << >>]
    /\ irq = [u \in Units |-> << >>]
    /\ rd = Idle /\ wr = Idle /\ wq = Idle
    /\ trig = << >>
    /\ ext = [a \in Addr |-> Empty]
    /\ rq = NoRun
    /\ start_wr = << >>
    /\ ws = "idle" /\ wm = 0
    /\ ctr = [j \in Port |-> 0]
    /\ wreg = << >>
    /\ fed = [i \in Port |-> << >>]
    /\ out = [j \in Port |-> 0]
    /\ act_out = [j \in Port |-> << >>]
    /\ waiting = {}
    /\ steps = 0 /\ loads = 0
    /\ len = [u \in Units |-> 0]
    /\ id = 0
    /\ input = [a \in Addr |-> Empty]
    /\ output = [a \in Addr |-> Empty]
    /\ saved = [a \in Addr |-> Empty]

-----------------------------------------------------------------------------
(* InputAxi: MasterRead *)

(* Faulty variant: every burst starts at the first word. *)
ByteAddrFirst(burst, i, j) == j + W*i

(* Byte j of word i of a burst, in the outside and in the memory alike. *)
ByteAddr(burst, i, j) == j + W*i + burst*W*Burst

BurstLen(left) == IF left > Burst THEN Burst - 1 ELSE left - 1
NextBurst(u) == [u EXCEPT !.at = "data", !.len = BurstLen(u.left), !.i = 0,
                          !.left = IF @ > Burst THEN @ - Burst ELSE 0]
NextWord(u) ==
    IF u.i < u.len THEN [u EXCEPT !.i = @ + 1]
    ELSE [u EXCEPT !.burst = @ + 1, !.at = IF u.left > 0 THEN "addr" ELSE "irq"]

(* A master's trigger, its interrupt, and the address of its next burst. *)
TakeStart(u, v, v_next) ==
    /\ v.at = "idle"
    /\ HasMsg(start[u])
    /\ start' = [start EXCEPT ![u] = Tail(@)]
    /\ v_next = [Idle EXCEPT !.at = "addr", !.left = Words(Head(start[u]))]
    /\ UNCHANGED irq

RaiseIRQ(u, v, v_next) ==
    /\ v.at = "irq"
    /\ HasRoom(irq[u])
    /\ irq' = [irq EXCEPT ![u] = Append(@, 1)]
    /\ v_next = Idle
    /\ UNCHANGED start

MasterReadTrig ==
    /\ TakeStart("load", rd, rd') \/ RaiseIRQ("load", rd, rd')
    /\ UNCHANGED <<memoryVars, wr, trig, wq, ext, setupVars, hostVars>>

MasterReadAddr ==
    /\ rd.at = "addr"
    /\ rd' = NextBurst(rd)
    /\ UNCHANGED <<memoryVars, start, irq, wr, trig, wq, ext, setupVars, hostVars>>

MasterReadData ==
    /\ rd.at = "data"
    /\ HasRoom(mem_req[0])
    /\ LET addr == [j \in 0 .. W-1 |-> ByteAddr(rd.burst, rd.i, j)]
           data == [j \in 0 .. W-1 |-> In(loads, ByteAddr(rd.burst, rd.i, j))]
       IN mem_req' = [mem_req EXCEPT ![0] = Append(@, Store(addr, data))]
    /\ rd' = NextWord(rd)
    /\ UNCHANGED <<req_inter, split_id, split_reg, flipVars, mergeVars, coreVars,
                   start, irq, wr, trig, wq, ext, setupVars, hostVars>>

MasterRead == MasterReadTrig \/ MasterReadAddr \/ MasterReadData

-----------------------------------------------------------------------------
(* InputAxi: MasterWriteReq and MasterWrite *)

MasterWriteTrig ==
    /\ TakeStart("store", wr, wr') \/ RaiseIRQ("store", wr, wr')
    /\ UNCHANGED <<memoryVars, rd, trig, wq, ext, setupVars, hostVars>>

(* The address goes out, and MasterWriteReq is told of the burst. *)
MasterWriteAddr ==
    /\ wr.at = "addr"
    /\ HasRoom(trig)
    /\ wr' = NextBurst(wr)
    /\ trig' = Append(trig, wr')
    /\ UNCHANGED <<memoryVars, start, irq, rd, wq, ext, setupVars, hostVars>>

MasterWriteReqTrig ==
    /\ wq.at = "idle"
    /\ HasMsg(trig)
    /\ wq' = Head(trig)
    /\ trig' = Tail(trig)
    /\ UNCHANGED <<memoryVars, start, irq, rd, wr, ext, setupVars, hostVars>>

MasterWriteReqPush ==
    /\ wq.at = "data"
    /\ HasRoom(mem_req[3])
    /\ mem_req' = [mem_req EXCEPT ![3] =
                     Append(@, Load([j \in 0 .. W-1 |-> ByteAddr(wq.burst, wq.i, j)]))]
    /\ wq' = IF wq.i < wq.len THEN [wq EXCEPT !.i = @ + 1] ELSE Idle
    /\ UNCHANGED <<req_inter, split_id, split_reg, flipVars, mergeVars, coreVars,
                   start, irq, rd, wr, trig, ext, setupVars, hostVars>>

(* A response becomes a word of the burst; the slave acknowledges the last. *)
MasterWriteData ==
    /\ wr.at = "data"
    /\ HasMsg(mem_rsp[1])
    /\ mem_rsp' = [mem_rsp EXCEPT ![1] = Tail(@)]
    /\ LET rsp == Head(mem_rsp[1])
           bytes == {j \in 0 .. W-1 : j \in DOMAIN rsp}
       IN ext' = [a \in Addr |->
                    IF \E j \in bytes : ByteAddr(wr.burst, wr.i, j) = a
                    THEN rsp[CHOOSE j \in bytes : ByteAddr(wr.burst, wr.i, j) = a]
                    ELSE ext[a]]
    /\ wr' = NextWord(wr)
    /\ UNCHANGED <<rsp_inter, merge_id, merge_reg, flipVars, splitVars, coreVars,
                   start, irq, rd, trig, wq, setupVars, hostVars>>

MasterWriteReq == MasterWriteReqTrig \/ MasterWriteReqPush
MasterWrite == MasterWriteTrig \/ MasterWriteAddr \/ MasterWriteData

-----------------------------------------------------------------------------
(* InputSetup: ReadReqRun and ReadRspRun *)

ReadReqStart ==
    /\ \/ /\ rq.at = "idle" /\ HasMsg(start["com"])
          /\ start' = [start EXCEPT !["com"] = Tail(@)]
          /\ rq' = [NoRun EXCEPT !.at = "trig", !.len = Head(start["com"])]
          /\ UNCHANGED start_wr
       \/ /\ rq.at = "trig" /\ HasRoom(start_wr)
          /\ start_wr' = Append(start_wr, rq.len)
          /\ rq' = [rq EXCEPT !.at = "beat"]
          /\ UNCHANGED start
    /\ UNCHANGED <<memoryVars, irq, axiVars, ws, wm, ctr, wreg, fed, out, act_out, hostVars>>

(* Faulty variant: one vector too many. *)
InBeatLong(i, j, m) == i >= j /\ i - j <= m

(* Beat i carries the elements of the anti-diagonal: vector i-j of row j. *)
InBeat(i, j, m) == i >= j /\ i - j <= m - 1
LastBeat(i, m) == i = N + m - 2
Beat(i, m) == [j \in {j \in Port : InBeat(i, j, m)} |-> N*(i-j) + j]

ReadReqBeat ==
    /\ rq.at = "beat"
    /\ HasRoom(mem_req[1])
    /\ mem_req' = [mem_req EXCEPT ![1] = Append(@, Load(Beat(rq.i, rq.len)))]
    /\ rq' = IF LastBeat(rq.i, rq.len) THEN NoRun ELSE [rq EXCEPT !.i = @ + 1]
    /\ UNCHANGED <<req_inter, split_id, split_reg, flipVars, mergeVars, coreVars,
                   start, irq, axiVars, start_wr, ws, wm, ctr, wreg, fed, out, act_out, hostVars>>

ReadReqRun == ReadReqStart \/ ReadReqBeat

(* The rows of a response enter the array.  Their Pushes, one after the     *)
(* other in the code, are one action here: an output waits for all rows of  *)
(* its vector in any case.  SysArray and ClockedArray have single Pushes.   *)
ReadRspRun ==
    /\ TRUE \in PopNB(mem_rsp[0])
    /\ LET rsp == Head(mem_rsp[0])
       IN /\ \A i \in DOMAIN rsp : Len(fed[i]) < Depth
          /\ fed' = [i \in Port |-> IF i \in DOMAIN rsp THEN Append(fed[i], rsp[i]) ELSE fed[i]]
    /\ mem_rsp' = [mem_rsp EXCEPT ![0] = Tail(@)]
    /\ UNCHANGED <<rsp_inter, merge_id, merge_reg, flipVars, splitVars, coreVars,
                   start, irq, axiVars, rq, start_wr, ws, wm, ctr, wreg, out, act_out, hostVars>>

-----------------------------------------------------------------------------
(* The array.  A column makes the output of a vector once the vector is     *)
(* inside; a vector every column is done with leaves.  Without stalls a    *)
(* column is behind the one on its left.                                   *)

InWavefront(j) == RandStall \/ \A k \in Port : k + 1 = j => out[j] < out[k]

ArrayOut(j) ==
    /\ \A i \in Port : out[j] < Len(fed[i])
    /\ HasRoom(act_out[j])
    /\ InWavefront(j)
    /\ act_out' = [act_out EXCEPT ![j] =
                     Append(@, Out(j, [i \in Port |-> fed[i][out[j] + 1]]))]
    /\ LET made == [out EXCEPT ![j] = @ + 1]
       IN IF \A k \in Port : made[k] > 0
          THEN /\ out' = [k \in Port |-> made[k] - 1]
               /\ fed' = [i \in Port |-> Tail(fed[i])]
          ELSE /\ out' = made
               /\ UNCHANGED fed
    /\ UNCHANGED <<memoryVars, start, irq, axiVars, rq, start_wr, ws, wm, ctr, wreg, hostVars>>

-----------------------------------------------------------------------------
(* InputSetup: WriteReqRun *)

WriteReqStart ==
    /\ ws = "idle"
    /\ HasMsg(start_wr)
    /\ start_wr' = Tail(start_wr)
    /\ wm' = Head(start_wr)
    /\ ctr' = [j \in Port |-> 0]
    /\ ws' = "poll"
    /\ UNCHANGED <<memoryVars, start, irq, axiVars, rq, wreg, fed, out, act_out, hostVars>>

WriteReqPoll ==
    /\ ws = "poll"
    /\ \E S \in (SUBSET Port) \ {{}} :
         /\ \A j \in Port : (j \in S) \in PopNB(act_out[j])
         /\ wreg' = <<Store([j \in S |-> j + ctr[j]*N], [j \in S |-> Head(act_out[j])])>>
         /\ act_out' = [j \in Port |-> After(j \in S, act_out[j])]
         /\ ctr' = [j \in Port |-> IF j \in S THEN ctr[j] + 1 ELSE ctr[j]]
    /\ ws' = "push"
    /\ UNCHANGED <<memoryVars, start, irq, axiVars, rq, start_wr, wm, fed, out, hostVars>>

(* Faulty variant: one vector too many. *)
RunDoneLong(c, m) == c[N-1] = m + 1

(* The run is over when the last column is. *)
RunDone(c, m) == c[N-1] = m

WriteReqPush ==
    /\ ws = "push"
    /\ HasRoom(mem_req[2])
    /\ mem_req' = [mem_req EXCEPT ![2] = Append(@, Head(wreg))]
    /\ wreg' = << >>
    /\ ws' = IF ~RunDone(ctr, wm) THEN "poll" ELSE IF ctr[0] = wm THEN "irq" ELSE "abort"
    /\ UNCHANGED <<req_inter, split_id, split_reg, flipVars, mergeVars, coreVars,
                   start, irq, axiVars, rq, start_wr, wm, ctr, fed, out, act_out, hostVars>>

WriteReqIRQ ==
    /\ ws = "irq"
    /\ HasRoom(irq["com"])
    /\ irq' = [irq EXCEPT !["com"] = Append(@, 1)]
    /\ ws' = "idle"
    /\ UNCHANGED <<memoryVars, start, axiVars, rq, start_wr, wm, ctr, wreg, fed, out, act_out,
                   hostVars>>

WriteReqRun == WriteReqStart \/ WriteReqPoll \/ WriteReqPush \/ WriteReqIRQ

-----------------------------------------------------------------------------
(* The host, through Control *)

(* Nothing is on its way in the memory. *)
Quiet ==
    /\ \A p \in 0 .. 3 : mem_req[p] = << >>
    /\ \A b \in Ids : /\ mem_rsp[b] = << >> /\ req_inter[b] = << >> /\ rsp_inter[b] = << >>
                      /\ split_reg[b] = << >> /\ merge_reg[b] = << >> /\ core_rsp[b] = << >>
                      /\ flip_inter[b] = << >>
    /\ flip_mem = << >> /\ flip_to = 2

Ready == steps < Steps /\ (waiting = {} => Prompt \/ Quiet)

(* A load and a store use different sides and may overlap; a computation   *)
(* uses both.                                                              *)
Overlaps(u) == IF u = "load" THEN {"store"} ELSE IF u = "store" THEN {"load"} ELSE {}

(* What a run makes of an input. *)
Computed(buf) ==
    [a \in Addr |-> Out(a % N, [i \in Port |-> buf[N * (a \div N) + i]])]

(* The first m vectors of a buffer replaced. *)
Overlaid(buf, new, m) == [a \in Addr |-> IF a < N * m THEN new[a] ELSE buf[a]]

StartCommand(u, m) ==
    /\ Ready
    /\ waiting \subseteq Overlaps(u)
    /\ HasRoom(start[u])
    /\ start' = [start EXCEPT ![u] = Append(@, m)]
    /\ waiting' = waiting \cup {u}
    /\ len' = [len EXCEPT ![u] = m]
    /\ steps' = steps + 1
    /\ loads' = IF u = "load" THEN loads + 1 ELSE loads
    /\ input' = IF u = "load" THEN Overlaid(input, [a \in Addr |-> In(loads', a)], m) ELSE input
    /\ output' = IF u = "com" THEN Overlaid(output, Computed(input), m) ELSE output
    /\ saved' = IF u = "store" THEN Overlaid(saved, output, m) ELSE saved
    /\ UNCHANGED <<memoryVars, irq, axiVars, setupVars, id>>

FlipCommand(v) ==
    /\ Ready
    /\ waiting = {}
    /\ HasRoom(flip_mem)
    /\ flip_mem' = Append(flip_mem, v)
    /\ steps' = steps + 1
    /\ id' = v
    /\ input' = IF v = id THEN input ELSE output
    /\ output' = IF v = id THEN output ELSE input
    /\ UNCHANGED <<flip_inter, flip_reg, flip_to, splitVars, mergeVars, coreVars,
                   start, irq, axiVars, setupVars, waiting, loads, len, saved>>

Interrupt(u) ==
    /\ HasMsg(irq[u])
    /\ irq' = [irq EXCEPT ![u] = Tail(@)]
    /\ waiting' = waiting \ {u}
    /\ len' = [len EXCEPT ![u] = 0]
    /\ UNCHANGED <<memoryVars, start, axiVars, setupVars, steps, loads, id,
                   input, output, saved>>

(* The host has given its last command, or the assertion stopped the program. *)
Stop ==
    /\ ws = "abort" \/ (steps = Steps /\ waiting = {} /\ Quiet)
    /\ UNCHANGED vars

MemoryStep == MemoryNext /\ UNCHANGED clientVars

Next ==
    \/ MemoryStep
    \/ MasterRead \/ MasterWriteReq \/ MasterWrite
    \/ ReadReqRun \/ ReadRspRun \/ WriteReqRun
    \/ \E j \in Port : ArrayOut(j)
    \/ \E u \in Units : (\E m \in Lengths : StartCommand(u, m)) \/ Interrupt(u)
    \/ \E v \in Ids : FlipCommand(v)
    \/ Stop

Spec == Init /\ [][Next]_vars

(* Every thread is resumed at every clock edge, and the host takes its      *)
(* interrupts; all that is assumed of it is that someone who can move does. *)
FairSpec == Spec /\ WF_vars(Next)

-----------------------------------------------------------------------------
(* Properties *)

(* What SplitReqRun asserts of the requests of its ports. *)
PortType(p) == IF p \in {0, 2} THEN "store" ELSE "load"

IsRequest(req) ==
    /\ DOMAIN req.addr \subseteq Port
    /\ req.type = "store" => DOMAIN req.data = DOMAIN req.addr
    /\ \A p \in DOMAIN req.addr : req.addr[p] \in Addr

(* Every request addresses the memory and is of the type its port is for,   *)
(* no channel overflows, no counter runs past the run.                      *)
TypeOK ==
    /\ \A p \in 0 .. 3 :
         /\ Len(mem_req[p]) <= Cap
         /\ \A k \in 1 .. Len(mem_req[p]) :
              IsRequest(mem_req[p][k]) /\ mem_req[p][k].type = PortType(p)
    /\ \A b \in Ids : /\ Len(req_inter[b]) <= Cap /\ Len(rsp_inter[b]) <= Cap
                      /\ Len(mem_rsp[b]) <= Cap /\ Len(flip_inter[b]) <= Cap
                      /\ \A k \in 1 .. Len(req_inter[b]) : IsRequest(req_inter[b][k])
    /\ split_id \in Ids /\ merge_id \in Ids /\ id \in Ids
    /\ waiting \subseteq Units /\ steps \in 0 .. Steps /\ loads \in 0 .. Steps
    /\ \A j \in Port : ctr[j] \in 0 .. wm /\ out[j] \in 0 .. Depth /\ Len(fed[j]) <= Depth

(* When the host has its interrupts and the memory is quiet, both sides and *)
(* the outside hold what the host's commands mean, however the commands     *)
(* were ordered and the flips placed, and beyond the length of a command    *)
(* what they held before.                                                   *)
BuffersRight ==
    waiting = {} /\ Quiet => /\ mem[id] = input
                            /\ mem[1-id] = output
                            /\ ext = saved

(* As long as a load is on its way, SplitReqRun and MergeRspRun agree about *)
(* the sides, so its response finds its way back to the one who asked.      *)
LoadInFlight ==
    \/ \E p \in {1, 3} : HasMsg(mem_req[p])
    \/ \E b \in Ids :
         \/ HasMsg(core_rsp[b]) \/ HasMsg(rsp_inter[b]) \/ HasMsg(merge_reg[b])
         \/ \E req \in {split_reg[b], req_inter[b]} : HasMsg(req) /\ Head(req).type = "load"
CopiesAgree == LoadInFlight => split_id = id /\ merge_id = id

(* The sides do not move under a unit that works: from a command to its     *)
(* interrupt no flip is on its way, and the two copies of mem_id are those  *)
(* of the host's last flip, though each is updated by a channel and a       *)
(* thread of its own.                                                       *)
SidesFixed ==
    waiting # {} =>
        /\ flip_mem = << >> /\ flip_to = 2 /\ \A k \in Ids : flip_inter[k] = << >>
        /\ split_id = id /\ merge_id = id

(* The assertion of MasterWrite: a response has every byte of the word.     *)
ResponseWhole == \A k \in 1 .. Len(mem_rsp[1]) : DOMAIN mem_rsp[1][k] = 0 .. W-1

(* The interrupt of a computation or of a load means that it is complete:   *)
(* its results are in the memory.                                           *)
DoneAtInterrupt ==
    /\ HasMsg(irq["com"]) => mem[1-id] = output
    /\ HasMsg(irq["load"]) => mem[id] = input

(* The memory, the array and WriteReqRun never wait for each other in a     *)
(* circle: SplitReqRun on a core to take a load, the core on MergeRspRun,  *)
(* MergeRspRun on ReadRspRun, ReadRspRun on the array to take a vector, the *)
(* array on WriteReqRun, and WriteReqRun on SplitReqRun to take a store.   *)
NotJammed ==
    ~ \E b \in Ids :
        /\ HasMsg(split_reg[b]) /\ ~HasRoom(req_inter[b])
        /\ HasMsg(core_rsp[b]) /\ ~HasRoom(rsp_inter[b])
        /\ HasMsg(merge_reg[0]) /\ ~HasRoom(mem_rsp[0])
        /\ \E i \in DOMAIN Head(mem_rsp[0]) : Len(fed[i]) = Depth
        /\ \E j \in Port : out[j] = 0 /\ ~HasRoom(act_out[j])
        /\ ws = "push" /\ ~HasRoom(mem_req[2])

(* No command is left unanswered: a host that waits sees its interrupt,     *)
(* through all the waits of memory, masters and array.                      *)
Answered == []<>(waiting = {})
=============================================================================
