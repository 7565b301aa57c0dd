------------------------------ MODULE Control ------------------------------
(***************************************************************************)
(* The control path, cycle by cycle: a host on the AXI configuration port, *)
(* AxiSlaveToReadyValid, the two threads of Control, and the units it      *)
(* starts.  The interrupt is a level without a cause that lasts ten cycles, *)
(* so whether the host takes it for the right one, or sees it at all, is a *)
(* matter of how many cycles each access takes: hence the clock.           *)
(*                                                                         *)
(* A cycle is the edge, which moves the messages of all channels, and then *)
(* one step of every thread, from wait() to wait(), in a fixed order       *)
(* (turn): threads share nothing but channels and the interrupt, and the   *)
(* host reads that before InterruptRun writes it.  A Push that would have  *)
(* to wait has no step: TLC's search for deadlocks shows there is none.    *)
(***************************************************************************)
EXTENDS Integers, Sequences, ClockedChannel

CONSTANTS
    Entries,    \* vectors in the memory: IndexType has log2(Entries) bits
    Words,      \* configuration words the host writes
    Bases,      \* base addresses
    HostRegs    \* bound: the registers the host writes

ASSUME EntriesAssumption == Entries \in 1 .. 256
ASSUME BasesAssumption == Bases # {} /\ Bases \subseteq Nat
ASSUME HostRegsAssumption == HostRegs \subseteq 1 .. 6

(* The field of a word that has size values and lies above place.           *)
Slice(w, place, size) == (w \div place) % size

(* Words of 32 bits, with no bit outside the fields, and M within the memory. *)
IsWord(w) == /\ w \in Nat /\ w \div 16777216 < 256
             /\ Slice(w, 1, 256) < Entries /\ Slice(w, 512, 128) = 0

ASSUME WordsAssumption == Words # {} /\ \A w \in Words : IsWord(w)

Arb == INSTANCE Arbiter WITH Size <- 2      \* Arbiter<2>: 0 reads, 1 writes

Units == 1 .. 4     \* data of the start register: weight, load, store, compute

VARIABLES
    turn,
    host,           \* Master::Run: where it is, the access in hand
    written,        \* history: what the host last wrote to each register, or
                    \* would have to write for what the units are reset to
    axi,            \* AXI channels aw, w, b, ar, r
    slave,          \* AxiSlaveToReadyValid::run
    rv_in, rv_out,  \* its channels to and from ControlRun
    control,        \* ControlRun: where it is, the access in hand
    config_regs,
    start, sys_config, flip_mem, IRQs,   \* channels to and from the units
    unit,           \* idle or busy, and the job in hand
    cfg, mem_id,    \* configuration and side the array and the memory have
    interrupt, hold \* the level and the cycles InterruptRun still waits

vars == <<turn, host, written, axi, slave, rv_in, rv_out, control, config_regs, start,
          sys_config, flip_mem, IRQs, unit, cfg, mem_id, interrupt, hold>>
unitVars == <<unit, cfg, mem_id>>
commandVars == <<start, sys_config, flip_mem>>

Regs == 0 .. 7
NoJob == [len |-> 0, base |-> 0]
(* What SysBias is reset to, as a configuration word: the multiplier is 1.  *)
ResetWord == 16777216

(* The fields of the configuration word that go to the array.               *)
SysConfig(w) ==
    [is_relu |-> Slice(w, 256, 2), bias_left_shift |-> Slice(w, 65536, 16),
     accum_right_shift |-> Slice(w, 1048576, 16), accum_multiplier |-> Slice(w, 16777216, 256)]

NoAccess == [rw |-> FALSE, reg |-> 0, data |-> 0]

Init ==
    /\ turn = "edge"
    /\ host = [at |-> "idle", access |-> NoAccess]
    /\ written = [x \in Regs |-> IF x = 2 THEN ResetWord ELSE 0]
    /\ axi = [c \in {"aw", "w", "b", "ar", "r"} |-> NoMsgs]
    /\ slave = [reads |-> << >>, writes |-> << >>, select |-> {}, update |-> TRUE,
                inFlight |-> FALSE, next |-> {0, 1}]
    /\ rv_in = NoMsgs /\ rv_out = NoMsgs
    /\ control = [at |-> "poll", access |-> << >>]
    /\ config_regs = [x \in Regs |-> 0]
    /\ start = [u \in Units |-> NoMsgs] /\ IRQs = start
    /\ sys_config = NoMsgs /\ flip_mem = NoMsgs
    /\ unit = [u \in Units |-> [busy |-> FALSE, job |-> NoJob]]
    /\ cfg = SysConfig(ResetWord) /\ mem_id = FALSE
    /\ interrupt = FALSE /\ hold = 0

-----------------------------------------------------------------------------
Edge ==
    /\ turn = "edge"
    /\ turn' = "host"
    /\ axi' = [c \in DOMAIN axi |-> Transfer(axi[c])]
    /\ start' = [u \in Units |-> Transfer(start[u])]
    /\ IRQs' = [u \in Units |-> Transfer(IRQs[u])]
    /\ rv_in' = Transfer(rv_in) /\ rv_out' = Transfer(rv_out)
    /\ sys_config' = Transfer(sys_config) /\ flip_mem' = Transfer(flip_mem)
    /\ UNCHANGED <<host, written, slave, control, config_regs, unitVars, interrupt, hold>>

-----------------------------------------------------------------------------
(* The host: Master of the test bench.  Every write is read back; a start   *)
(* is then followed by the wait for the interrupt.                          *)

Data(x) ==
    CASE x = 1 -> Units [] x = 2 -> Words [] x = 6 -> {0, 1, 2} [] OTHER -> Bases

hostRest == <<slave, rv_in, rv_out, control, config_regs, commandVars, IRQs, unitVars,
              interrupt, hold>>

(* A cycle in which the host waits, or does nothing between two commands. *)
HostWait ==
    /\ \/ host.at = "idle"
       \/ host.at = "b" /\ ~CanPop(axi["b"])
       \/ host.at = "r" /\ ~CanPop(axi["r"])
       \/ host.at = "poll" /\ ~interrupt
    /\ UNCHANGED <<host, written, axi>>

HostAddr ==
    /\ host.at = "idle"
    /\ \E x \in HostRegs : \E d \in Data(x) :
         /\ host' = [at |-> "w", access |-> [rw |-> TRUE, reg |-> x, data |-> d]]
         /\ written' = [written EXCEPT ![x] = d]
         /\ axi' = [axi EXCEPT !["aw"] = Pushed(@, x)]
    /\ CanPush(axi["aw"])

HostData ==
    /\ host.at = "w"
    /\ CanPush(axi["w"])
    /\ axi' = [axi EXCEPT !["w"] = Pushed(@, host.access.data)]
    /\ host' = [host EXCEPT !.at = "b"]
    /\ UNCHANGED written

HostResponse ==
    /\ host.at = "b"
    /\ CanPop(axi["b"])
    /\ axi' = [axi EXCEPT !["b"] = Popped(@)]
    /\ host' = [host EXCEPT !.at = "ar"]
    /\ UNCHANGED written

HostReadAddr ==
    /\ host.at = "ar"
    /\ CanPush(axi["ar"])
    /\ axi' = [axi EXCEPT !["ar"] = Pushed(@, host.access.reg)]
    /\ host' = [host EXCEPT !.at = "r"]
    /\ UNCHANGED written

(* assert (data == data_read); if it fails the host stops. *)
HostReadData ==
    /\ host.at = "r"
    /\ CanPop(axi["r"])
    /\ axi' = [axi EXCEPT !["r"] = Popped(@)]
    /\ host' = [host EXCEPT !.at = IF Front(axi["r"]) # host.access.data THEN "abort"
                                   ELSE IF host.access.reg = 1 THEN "poll" ELSE "idle"]
    /\ UNCHANGED written

HostSeesInterrupt ==
    /\ host.at = "poll"
    /\ interrupt
    /\ host' = [host EXCEPT !.at = "idle"]
    /\ UNCHANGED <<written, axi>>

Host ==
    /\ turn = "host"
    /\ turn' = "slave"
    /\ \/ HostWait \/ HostAddr \/ HostData \/ HostResponse
       \/ HostReadAddr \/ HostReadData \/ HostSeesInterrupt
    /\ UNCHANGED hostRest

-----------------------------------------------------------------------------
(* AxiSlaveToReadyValid: one iteration.  The arbiter chooses among the      *)
(* requests of earlier cycles, then new requests are taken, then the chosen *)
(* one moves on.  The accesses have one beat.                               *)

Requests == {k \in {0, 1} : IF k = 0 THEN slave.reads # << >> ELSE slave.writes # << >>}

Arbitrated ==
    LET pick == Arb!Pick(Requests, slave.next)
    IN IF ~slave.update THEN slave
       ELSE [slave EXCEPT !.select = pick, !.update = (pick = {}),
                          !.next = IF pick = {} THEN @ ELSE Arb!NextMask(CHOOSE c \in pick : TRUE)]

TakesRead == slave.reads = << >> /\ CanPop(axi["ar"])
TakesWrite == slave.writes = << >> /\ CanPop(axi["aw"])

Requested ==
    [Arbitrated EXCEPT !.reads = IF TakesRead THEN <<Front(axi["ar"])>> ELSE @,
                       !.writes = IF TakesWrite THEN <<Front(axi["aw"])>> ELSE @]

AfterRequests ==
    [axi EXCEPT !["ar"] = IF TakesRead THEN Popped(@) ELSE @,
                !["aw"] = IF TakesWrite THEN Popped(@) ELSE @]

Forwards(access) == CanPush(rv_in) /\ rv_in' = Pushed(rv_in, access)

SlaveRead ==
    /\ Requested.select = {0} /\ ~Requested.inFlight
    /\ Forwards([rw |-> FALSE, reg |-> Head(Requested.reads), data |-> 0])
    /\ slave' = [Requested EXCEPT !.inFlight = TRUE]
    /\ axi' = AfterRequests
    /\ UNCHANGED rv_out

SlaveReadResponse ==
    /\ Requested.select = {0} /\ Requested.inFlight
    /\ CanPop(rv_out)
    /\ rv_out' = Popped(rv_out)
    /\ CanPush(axi["r"])
    /\ axi' = [AfterRequests EXCEPT !["r"] = Pushed(@, Front(rv_out))]
    /\ slave' = [Requested EXCEPT !.reads = << >>, !.update = TRUE, !.inFlight = FALSE]
    /\ UNCHANGED rv_in

SlaveWrite ==
    /\ Requested.select = {1}
    /\ CanPop(axi["w"])
    /\ Forwards([rw |-> TRUE, reg |-> Head(Requested.writes), data |-> Front(axi["w"])])
    /\ CanPush(axi["b"])
    /\ axi' = [AfterRequests EXCEPT !["w"] = Popped(@), !["b"] = Pushed(@, "okay")]
    /\ slave' = [Requested EXCEPT !.writes = << >>, !.update = TRUE]
    /\ UNCHANGED rv_out

SlaveWait ==
    /\ \/ Requested.select = {}
       \/ Requested.select = {0} /\ Requested.inFlight /\ ~CanPop(rv_out)
       \/ Requested.select = {1} /\ ~CanPop(axi["w"])
    /\ axi' = AfterRequests
    /\ slave' = Requested
    /\ UNCHANGED <<rv_in, rv_out>>

Slave ==
    /\ turn = "slave"
    /\ turn' = "control"
    /\ SlaveRead \/ SlaveReadResponse \/ SlaveWrite \/ SlaveWait
    /\ UNCHANGED <<host, written, control, config_regs, commandVars, IRQs, unitVars,
                   interrupt, hold>>

-----------------------------------------------------------------------------
(* ControlRun *)

(* Faulty variants: a read that stores its data word too; IndexType one bit *)
(* short.                                                                   *)
StoredAlways(regs, access) == [regs EXCEPT ![access.reg] = access.data]
IndexTypeShort(x) == IF Entries = 1 THEN 0 ELSE x % (Entries \div 2)

(* The registers after an access. *)
Stored(regs, access) ==
    IF access.rw THEN [regs EXCEPT ![access.reg] = access.data] ELSE regs

(* M - 1 as com_start carries it. *)
IndexType(x) == x % Entries

(* What a start command takes from the registers. *)
Job(u, regs) ==
    [len |-> CASE u = 1 -> 0
               [] u \in {2, 3} -> Slice(regs[2], 1, 256)
               [] u = 4 -> IndexType(Slice(regs[2], 1, 256)),
     base |-> IF u = 4 THEN 0 ELSE regs[u + 2]]

ControlIdle ==
    /\ control.at = "poll" /\ ~CanPop(rv_in)
    /\ control' = [at |-> "reply", access |-> << >>]
    /\ UNCHANGED <<rv_in, rv_out, config_regs, commandVars>>

ControlAccess ==
    /\ control.at = "poll" /\ CanPop(rv_in)
    /\ LET access == Front(rv_in)
       IN /\ config_regs' = Stored(config_regs, access)
          /\ control' = [at |-> "act",
                         access |-> <<[access EXCEPT !.data = config_regs'[access.reg]]>>]
    /\ rv_in' = Popped(rv_in)
    /\ UNCHANGED <<rv_out, commandVars>>

Writes(x) == Head(control.access).rw /\ Head(control.access).reg = x

(* The command of a write to register 6, 2 or 1; a start with no unit does  *)
(* nothing.                                                                 *)
ControlCommand ==
    /\ control.at = "act"
    /\ control' = [control EXCEPT !.at = "reply"]
    /\ IF Writes(6) THEN CanPush(flip_mem) /\ flip_mem' = Pushed(flip_mem, config_regs[6] > 0)
       ELSE UNCHANGED flip_mem
    /\ IF Writes(2) THEN CanPush(sys_config) /\ sys_config' = Pushed(sys_config, SysConfig(config_regs[2]))
       ELSE UNCHANGED sys_config
    /\ IF Writes(1) /\ config_regs[1] \in Units
       THEN LET u == config_regs[1]
            IN CanPush(start[u]) /\ start' = [start EXCEPT ![u] = Pushed(@, Job(u, config_regs))]
       ELSE UNCHANGED start
    /\ UNCHANGED <<rv_in, rv_out, config_regs>>

ControlReply ==
    /\ control.at = "reply"
    /\ control' = [at |-> "poll", access |-> << >>]
    /\ IF control.access # << >> /\ ~Head(control.access).rw
       THEN CanPush(rv_out) /\ rv_out' = Pushed(rv_out, Head(control.access).data)
       ELSE UNCHANGED rv_out
    /\ UNCHANGED <<rv_in, config_regs, commandVars>>

ControlRun ==
    /\ turn = "control"
    /\ turn' = "unit"
    /\ ControlIdle \/ ControlAccess \/ ControlCommand \/ ControlReply
    /\ UNCHANGED <<host, written, axi, slave, IRQs, unitVars, interrupt, hold>>

-----------------------------------------------------------------------------
(* The units, from outside: an idle one takes its start, a busy one may     *)
(* finish in any later cycle and then raises its interrupt.  The array and  *)
(* the memory take what is written for them.                                *)
UnitsRun(F) ==
    /\ turn = "unit"
    /\ turn' = "irq"
    /\ \A u \in F : unit[u].busy /\ CanPush(IRQs[u])
    /\ LET starts == {u \in Units : ~unit[u].busy /\ CanPop(start[u])}
       IN /\ unit' = [u \in Units |->
                        IF u \in F THEN [busy |-> FALSE, job |-> NoJob]
                        ELSE IF u \in starts THEN [busy |-> TRUE, job |-> Front(start[u])]
                        ELSE unit[u]]
          /\ start' = [u \in Units |-> IF u \in starts THEN Popped(start[u]) ELSE start[u]]
    /\ IRQs' = [u \in Units |-> IF u \in F THEN Pushed(IRQs[u], 1) ELSE IRQs[u]]
    /\ cfg' = IF CanPop(sys_config) THEN Front(sys_config) ELSE cfg
    /\ mem_id' = IF CanPop(flip_mem) THEN Front(flip_mem) ELSE mem_id
    /\ sys_config' = Popped(sys_config)
    /\ flip_mem' = Popped(flip_mem)
    /\ UNCHANGED <<host, written, axi, slave, rv_in, rv_out, control, config_regs,
                   interrupt, hold>>

-----------------------------------------------------------------------------
(* InterruptRun *)

(* Faulty variants: a level that lasts too long, or for one cycle. *)
HoldTwice == 20
HoldOnce == 1

Hold == 10

Pending == {u \in Units : CanPop(IRQs[u])}

InterruptRaise ==
    /\ hold = 0 /\ Pending # {}
    /\ IRQs' = [u \in Units |-> IF u \in Pending THEN Popped(IRQs[u]) ELSE IRQs[u]]
    /\ interrupt' = TRUE
    /\ hold' = Hold + 1

(* Ten cycles later the level falls; two more pass before the next poll. *)
InterruptHold ==
    /\ hold > 0
    /\ hold' = hold - 1
    /\ interrupt' = (interrupt /\ hold # 2)
    /\ UNCHANGED IRQs

InterruptIdle ==
    /\ hold = 0 /\ Pending = {}
    /\ UNCHANGED <<IRQs, interrupt, hold>>

InterruptRun ==
    /\ turn = "irq"
    /\ turn' = "edge"
    /\ InterruptRaise \/ InterruptHold \/ InterruptIdle
    /\ UNCHANGED <<host, written, axi, slave, rv_in, rv_out, control, config_regs,
                   commandVars, unitVars>>

-----------------------------------------------------------------------------
Finish == \E F \in (SUBSET Units) \ {{}} : UnitsRun(F)

Next ==
    \/ Edge
    \/ Host
    \/ Slave
    \/ ControlRun
    \/ UnitsRun({}) \/ Finish
    \/ InterruptRun

Spec == Init /\ [][Next]_vars

(* The clock does not stop, and a unit that is busy is done some day        *)
(* (Answered of DoubleBuffer, Finishes of ClockedArray).  Nothing is assumed *)
(* of the host, who may take his time between commands.                     *)
FairSpec == Spec /\ WF_vars(Next) /\ SF_vars(Finish)

-----------------------------------------------------------------------------
(* Properties *)

(* An interrupt is taken for the command it belongs to: when the host goes  *)
(* on, the command it gave is done and its interrupt used up.  The level of *)
(* the command before is still up when a new one is given; it has fallen by *)
(* the time the host, who reads the start register back first, looks at it. *)
OwnInterrupt ==
    host.at = "idle" =>
        \A u \in Units : ~unit[u].busy /\ start[u] = NoMsgs /\ IRQs[u] = NoMsgs

(* What is read back is what was written (the assertions of the test bench). *)
ReadBack == host.at # "abort"

(* A unit starts with what the host has configured, whatever the order in   *)
(* which the registers were written.  The word of register 2 is taken apart *)
(* and travels in pieces, M - 1 with the start command and the rest through *)
(* SysArray; when a unit works they add up to the word again, as the        *)
(* comment in Control.h lays it out.  The base address and the side of the  *)
(* memory come through two more channels.                                   *)
Layout(m, c) ==
    m + c.is_relu * 256 + c.bias_left_shift * 65536 + c.accum_right_shift * 1048576
      + c.accum_multiplier * 16777216

StartedAsConfigured ==
    \A u \in Units : unit[u].busy =>
        /\ u # 1 => Layout(unit[u].job.len, cfg) = written[2]
        /\ u # 4 => unit[u].job.base = written[u + 2]
        /\ mem_id = (written[6] > 0)

(* The interrupt is never missed: it is still up when the host begins to    *)
(* look, however quick the unit was.                                        *)
Answered == []<>(host.at = "idle")
=============================================================================
