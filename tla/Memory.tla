------------------------------- MODULE Memory -------------------------------
(***************************************************************************)
(* The double-buffered memory: two MemoryCores and the three threads of    *)
(* Memory in front of them.  SplitReqRun sends the requests of ports 0 and *)
(* 1 (the input side) to core mem_id and those of ports 2 and 3 (the       *)
(* output side) to the other one; MergeRspRun sends the responses back the *)
(* same way; FlipRun gives each of them its own copy of mem_id.            *)
(*                                                                         *)
(* A request or a response carries a function from its valid ports (a row, *)
(* a column or a byte of an AXI word) to an address and a value.           *)
(***************************************************************************)
EXTENDS Integers, Sequences, Connections

CONSTANTS
    N,          \* banks of a core
    Entries     \* entries of a bank

ASSUME NAssumption == N \in Nat \ {0}
ASSUME EntriesAssumption == Entries \in Nat \ {0}

Ids == {0, 1}
Port == 0 .. N-1
Addr == 0 .. N*Entries - 1
Bank(a) == a % N

VARIABLES
    (* channels *)
    flip_mem, mem_req, mem_rsp, req_inter, rsp_inter, flip_inter,
    (* FlipRun: the word in hand and the next copy it goes to *)
    flip_reg, flip_to,
    (* SplitReqRun and MergeRspRun: their copies of mem_id, what they hold *)
    (* for a core or for a port *)
    split_id, split_reg, merge_id, merge_reg,
    (* MemoryRun of each core: the response it holds, its banks *)
    core_rsp, mem

flipVars == <<flip_mem, flip_inter, flip_reg, flip_to>>
splitVars == <<mem_req, req_inter, split_id, split_reg>>
mergeVars == <<mem_rsp, rsp_inter, merge_id, merge_reg>>
coreVars == <<core_rsp, mem>>
memoryVars == <<flipVars, splitVars, mergeVars, coreVars>>

MemoryInit(empty) ==
    /\ flip_mem = << >> /\ flip_reg = 0 /\ flip_to = 2
    /\ mem_req = [p \in 0 .. 3 |-> << >>]
    /\ mem_rsp = [p \in Ids |-> << >>]
    /\ req_inter = [b \in Ids |-> << >>]
    /\ rsp_inter = [b \in Ids |-> << >>]
    /\ flip_inter = [k \in Ids |-> << >>]
    /\ split_id = 0 /\ split_reg = [b \in Ids |-> << >>]
    /\ merge_id = 0 /\ merge_reg = [p \in Ids |-> << >>]
    /\ core_rsp = [b \in Ids |-> << >>]
    /\ mem = [b \in Ids |-> [a \in Addr |-> empty]]

-----------------------------------------------------------------------------
(* FlipRun *)

FlipPop ==
    /\ flip_to = 2
    /\ TRUE \in PopNB(flip_mem)
    /\ flip_mem' = Tail(flip_mem)
    /\ flip_reg' = Head(flip_mem)
    /\ flip_to' = 0
    /\ UNCHANGED <<flip_inter, splitVars, mergeVars, coreVars>>

FlipPush ==
    /\ flip_to \in Ids
    /\ HasRoom(flip_inter[flip_to])
    /\ flip_inter' = [flip_inter EXCEPT ![flip_to] = Append(@, flip_reg)]
    /\ flip_to' = flip_to + 1
    /\ UNCHANGED <<flip_mem, flip_reg, splitVars, mergeVars, coreVars>>

FlipRun == FlipPop \/ FlipPush

-----------------------------------------------------------------------------
(* SplitReqRun *)

(* The core a port's requests go to. *)
CoreOf(p, id) == IF p \in {0, 1} THEN id ELSE 1 - id

(* The choices of a polling chain "if PopNB(q) ... else if PopNB(r) ...":   *)
(* one port, or none.                                                       *)
Chain(q, r) ==
    {p \in {q, r, -1} :
        /\ p = q => TRUE \in PopNB(mem_req[q])
        /\ p # q => FALSE \in PopNB(mem_req[q])
        /\ p = r => TRUE \in PopNB(mem_req[r])
        /\ p = -1 => FALSE \in PopNB(mem_req[r])}

(* Faulty variant: a flip taken as a toggle. *)
UpdateToggle(k, id, id_next) ==
    \E ok \in PopNB(flip_inter[k]) :
        /\ flip_inter' = [flip_inter EXCEPT ![k] = After(ok, @)]
        /\ id_next = IF ok THEN 1 - id ELSE id

(* The end of an iteration: the copy of mem_id is brought up to date. *)
Update(k, id, id_next) ==
    \E ok \in PopNB(flip_inter[k]) :
        /\ flip_inter' = [flip_inter EXCEPT ![k] = After(ok, @)]
        /\ id_next = Got(ok, flip_inter[k], id)

(* The head of an iteration takes at most one request of either side.  One *)
(* that takes none goes straight to its end.                                *)
SplitPoll ==
    /\ split_reg = [b \in Ids |-> << >>]
    /\ \E p \in Chain(0, 1), q \in Chain(2, 3) :
        LET taken == {p, q} \ {-1}
        IN
        /\ mem_req' = [r \in 0 .. 3 |-> After(r \in taken, mem_req[r])]
        /\ split_reg' = [b \in Ids |->
             IF \E r \in taken : CoreOf(r, split_id) = b
             THEN <<Head(mem_req[CHOOSE r \in taken : CoreOf(r, split_id) = b])>>
             ELSE << >>]
        /\ IF taken = {}
           THEN Update(0, split_id, split_id') /\ flip_inter' # flip_inter
           ELSE UNCHANGED <<flip_inter, split_id>>
    /\ UNCHANGED <<req_inter, flip_mem, flip_reg, flip_to, mergeVars, coreVars>>

(* Core 0 is pushed before core 1; the last push ends the iteration. *)
SplitPush(b) ==
    /\ HasMsg(split_reg[b])
    /\ b = 1 => ~HasMsg(split_reg[0])
    /\ HasRoom(req_inter[b])
    /\ req_inter' = [req_inter EXCEPT ![b] = Append(@, Head(split_reg[b]))]
    /\ split_reg' = [split_reg EXCEPT ![b] = << >>]
    /\ IF HasMsg(split_reg'[1])
       THEN UNCHANGED <<flip_inter, split_id>>
       ELSE Update(0, split_id, split_id')
    /\ UNCHANGED <<mem_req, flip_mem, flip_reg, flip_to, mergeVars, coreVars>>

SplitReqRun == SplitPoll \/ \E b \in Ids : SplitPush(b)

-----------------------------------------------------------------------------
(* MemoryCore: MemoryRun and ArbitratedScratchpad::load_store *)

(* The crossbar grants each bank to one port; the request of another port  *)
(* for the same bank is dropped, since nobody looks at input_ready.  (Which *)
(* one wins is the arbiter's round-robin; here the lowest.)                 *)
Granted(addr) ==
    {p \in DOMAIN addr : \A q \in DOMAIN addr : Bank(addr[q]) = Bank(addr[p]) => p <= q}

Stored(bank, req) ==
    [a \in Addr |-> IF \E p \in Granted(req.addr) : req.addr[p] = a
                    THEN req.data[CHOOSE p \in Granted(req.addr) : req.addr[p] = a]
                    ELSE bank[a]]

Loaded(bank, req) == [p \in Granted(req.addr) |-> bank[req.addr[p]]]

CorePop(b) ==
    /\ ~HasMsg(core_rsp[b])
    /\ TRUE \in PopNB(req_inter[b])
    /\ req_inter' = [req_inter EXCEPT ![b] = Tail(@)]
    /\ LET req == Head(req_inter[b])
       IN IF req.type = "load"
          THEN /\ core_rsp' = [core_rsp EXCEPT ![b] = <<Loaded(mem[b], req)>>]
               /\ UNCHANGED mem
          ELSE /\ mem' = [mem EXCEPT ![b] = Stored(@, req)]
               /\ UNCHANGED core_rsp
    /\ UNCHANGED <<mem_req, split_id, split_reg, flipVars, mergeVars>>

CorePush(b) ==
    /\ HasMsg(core_rsp[b])
    /\ HasRoom(rsp_inter[b])
    /\ rsp_inter' = [rsp_inter EXCEPT ![b] = Append(@, Head(core_rsp[b]))]
    /\ core_rsp' = [core_rsp EXCEPT ![b] = << >>]
    /\ UNCHANGED <<mem, mem_rsp, merge_id, merge_reg, flipVars, splitVars>>

MemoryRun(b) == CorePop(b) \/ CorePush(b)

-----------------------------------------------------------------------------
(* MergeRspRun *)

(* Faulty variant: the responses of the two sides exchanged. *)
PortOfCrossed(b, id) == IF b = id THEN 1 ELSE 0

(* The port a core's responses go to: 0 is the computation's, 1 AXI's. *)
PortOf(b, id) == IF b = id THEN 0 ELSE 1

MergePoll ==
    /\ merge_reg = [p \in Ids |-> << >>]
    /\ \E b \in {0, 1, -1} :
        /\ b = 0 => TRUE \in PopNB(rsp_inter[0])
        /\ b # 0 => FALSE \in PopNB(rsp_inter[0])
        /\ b = 1 => TRUE \in PopNB(rsp_inter[1])
        /\ b = -1 => FALSE \in PopNB(rsp_inter[1])
        /\ rsp_inter' = [c \in Ids |-> After(b = c, rsp_inter[c])]
        /\ merge_reg' = [p \in Ids |-> IF b # -1 /\ PortOf(b, merge_id) = p
                                       THEN <<Head(rsp_inter[b])>> ELSE << >>]
        /\ IF b = -1
           THEN Update(1, merge_id, merge_id') /\ flip_inter' # flip_inter
           ELSE UNCHANGED <<flip_inter, merge_id>>
    /\ UNCHANGED <<mem_rsp, flip_mem, flip_reg, flip_to, splitVars, coreVars>>

MergePush(p) ==
    /\ HasMsg(merge_reg[p])
    /\ HasRoom(mem_rsp[p])
    /\ mem_rsp' = [mem_rsp EXCEPT ![p] = Append(@, Head(merge_reg[p]))]
    /\ merge_reg' = [merge_reg EXCEPT ![p] = << >>]
    /\ Update(1, merge_id, merge_id')
    /\ UNCHANGED <<rsp_inter, flip_mem, flip_reg, flip_to, splitVars, coreVars>>

MergeRspRun == MergePoll \/ \E p \in Ids : MergePush(p)

MemoryNext ==
    \/ FlipRun \/ SplitReqRun \/ MergeRspRun
    \/ \E b \in Ids : MemoryRun(b)
=============================================================================
