--------------------------- MODULE ControlProofs ---------------------------
(***************************************************************************)
(* Theorems of Control.  The host has one access in hand, so there is one   *)
(* place where it is (AtWrite .. AtReply), and that place says what every   *)
(* channel holds.  The slave answers a write before Control has seen it, so *)
(* the read may follow close behind; rv_in keeps the two in order.          *)
(*                                                                         *)
(* The interrupt has no cause, so the argument is one of cycles: Limit is   *)
(* how long InterruptRun may still wait for the command before when a start *)
(* is at a given place.  A cycle takes one from the wait, if any is left,   *)
(* and at most one from the limit, which is 11 when the start is written    *)
(* and 1 when its answer is with the host, who looks only then; at 1 the    *)
(* level is down.                                                           *)
(***************************************************************************)
EXTENDS Control, TLAPS

-----------------------------------------------------------------------------
(* Channels: empty, a message just pushed, one that can be popped, and a    *)
(* message pushed behind one that can be popped.                            *)

Out(m) == [out |-> <<m>>, in |-> << >>]
In(m) == [out |-> << >>, in |-> <<m>>]
Both(n, m) == [out |-> <<n>>, in |-> <<m>>]
Carries(ch, m) == ch = Out(m) \/ ch = In(m)

(* A message is popped in the cycle after the one it is pushed in. *)
LEMMA Moves ==
    ASSUME NEW m
    PROVE  /\ Transfer(Out(m)) = In(m) /\ Transfer(In(m)) = In(m)
           /\ Pushed(NoMsgs, m) = Out(m)
           /\ Popped(In(m)) = NoMsgs /\ Popped(Out(m)) = Out(m)
           /\ Front(In(m)) = m
           /\ CanPop(In(m)) /\ ~CanPop(Out(m))
           /\ CanPush(In(m)) /\ ~CanPush(Out(m))
           /\ Out(m) # NoMsgs /\ In(m) # NoMsgs
  BY DEF Out, In, NoMsgs, Transfer, Pushed, Popped, Front, CanPop, CanPush

(* Nothing comes of an empty channel. *)
LEMMA Rests ==
    /\ Transfer(NoMsgs) = NoMsgs /\ Popped(NoMsgs) = NoMsgs
    /\ ~CanPop(NoMsgs) /\ CanPush(NoMsgs)
  BY DEF NoMsgs, Transfer, Popped, CanPop, CanPush

(* The four are distinct, and carry distinct messages. *)
LEMMA Differ ==
    ASSUME NEW m, NEW n
    PROVE  /\ Out(m) # In(n)
           /\ Out(m) = Out(n) => m = n
           /\ In(m) = In(n) => m = n
           /\ Both(n, m) # NoMsgs
           /\ \A k : Both(n, m) # Out(k) /\ Both(n, m) # In(k)
           /\ \A k, l : Both(n, m) = Both(k, l) => n = k /\ m = l
           /\ Pushed(In(m), n) = Both(n, m)
           /\ Popped(Both(n, m)) = Out(n)
           /\ Transfer(Both(n, m)) = Both(n, m)
           /\ Front(Both(n, m)) = m
           /\ CanPop(Both(n, m)) /\ ~CanPush(Both(n, m))
<1>1. <<m>> # << >> /\ <<n>> # << >> /\ (<<m>> = <<n>> => m = n)
  OBVIOUS
<1>2. \A k : (<<n>> = <<k>> => n = k) /\ (<<m>> = <<k>> => m = k)
  OBVIOUS
<1>3. QED
  BY <1>1, <1>2 DEF Out, In, Both, NoMsgs, Transfer, Pushed, Popped, Front, CanPop, CanPush

(* A request register holds one request. *)
LEMMA Sole ==
    ASSUME NEW m, NEW n
    PROVE  /\ <<m>> # << >> /\ Head(<<m>>) = m
           /\ <<m>> = <<n>> => m = n
  OBVIOUS

-----------------------------------------------------------------------------
(* The invariant *)

Axi == {"aw", "w", "b", "ar", "r"}
Turns == {"edge", "host", "slave", "control", "unit", "irq"}

(* The register of the access in hand, its write and read as Control gets   *)
(* them, and the answer.                                                    *)
Reg == host.access.reg
Write == host.access
Read == [rw |-> FALSE, reg |-> Reg, data |-> 0]
Answer == [rw |-> FALSE, reg |-> Reg, data |-> written[Reg]]
Only(S) == \A c \in Axi \ S : axi[c] = NoMsgs

(* What the host, its channels and its history are. *)
HostType ==
    /\ turn \in Turns
    /\ host = [at |-> host.at, access |-> host.access]
    /\ host.at \in {"idle", "w", "b", "ar", "r", "poll"}
    /\ written \in [Regs -> Nat] /\ IsWord(written[2])
    /\ host.at # "idle" => /\ host.access = [rw |-> TRUE, reg |-> Reg, data |-> written[Reg]]
                           /\ Reg \in 1 .. 6
                           /\ Reg = 1 => written[1] \in Units
    /\ axi = [c \in Axi |-> axi[c]]

(* A request is on its way to the register of the slave. *)
Requesting(ch, reg, m) ==
    \/ Carries(ch, m) /\ reg = << >>
    \/ ch = NoMsgs /\ reg = <<m>>

(* Where the access in hand is: its address, its data word, its response,   *)
(* the gap before it is read back, the read request, the read at Control,   *)
(* and its data; or there is none.                                          *)
AtWrite == /\ host.at = "w" /\ Only({"aw"}) /\ slave.reads = << >> /\ ~slave.inFlight
           /\ Requesting(axi["aw"], slave.writes, Reg)
AtData ==  /\ host.at = "b" /\ Only({"aw", "w"}) /\ slave.reads = << >> /\ ~slave.inFlight
           /\ Requesting(axi["aw"], slave.writes, Reg)
           /\ Carries(axi["w"], written[Reg])
AtResponse == /\ host.at = "b" /\ Only({"b"}) /\ slave.reads = << >> /\ slave.writes = << >>
              /\ ~slave.inFlight
              /\ Carries(axi["b"], "okay")
AtReadBack == /\ host.at = "ar" /\ Only({}) /\ slave.reads = << >> /\ slave.writes = << >>
              /\ ~slave.inFlight
AtRead == /\ host.at = "r" /\ Only({"ar"}) /\ slave.writes = << >> /\ ~slave.inFlight
          /\ Requesting(axi["ar"], slave.reads, Reg)
AtSlave == /\ host.at = "r" /\ Only({}) /\ slave.writes = << >> /\ slave.inFlight
           /\ slave.reads = <<Reg>>
AtReply == /\ host.at = "r" /\ Only({"r"}) /\ slave.writes = << >> /\ slave.reads = << >>
           /\ ~slave.inFlight
           /\ Carries(axi["r"], written[Reg])
AtRest == /\ host.at \in {"idle", "poll"} /\ Only({}) /\ slave.reads = << >> /\ slave.writes = << >>
          /\ ~slave.inFlight

(* The access in hand is somewhere. *)
HostPlace == AtWrite \/ AtData \/ AtResponse \/ AtReadBack \/ AtRead \/ AtSlave \/ AtReply \/ AtRest

(* A choice the slave keeps is one of a request it holds. *)
SlaveRight ==
    /\ slave = [reads |-> slave.reads, writes |-> slave.writes, select |-> slave.select,
                update |-> slave.update, inFlight |-> slave.inFlight, next |-> slave.next]
    /\ slave.update \in BOOLEAN /\ slave.inFlight \in BOOLEAN
    /\ slave.update \/ /\ slave.reads # << >>
                       /\ slave.select = {0}
                    \/ /\ slave.writes # << >>
                       /\ slave.select = {1}
    /\ slave.inFlight => ~slave.update

(* ControlRun has an access in hand from poll to reply. *)
ControlType ==
    /\ control = [at |-> control.at, access |-> control.access]
    /\ control.at \in {"poll", "act", "reply"}
    /\ control.at = "poll" => control.access = << >>
    /\ control.at = "act" => control.access # << >>

(* What is between the slave and Control: nothing; the write, alone; the    *)
(* read, behind its write, and then its answer.                             *)
Empty == rv_in = NoMsgs /\ rv_out = NoMsgs /\ control.access = << >>
WriteAhead ==
    /\ rv_out = NoMsgs
    /\ \/ rv_in = NoMsgs /\ control.access \in {<< >>, <<Write>>}
       \/ Carries(rv_in, Write) /\ control.access = << >>
ReadAhead ==
    \/ rv_out = NoMsgs /\ rv_in = Both(Read, Write) /\ control.access = << >>
    \/ rv_out = NoMsgs /\ Carries(rv_in, Read) /\ control.access \in {<< >>, <<Write>>}
    \/ rv_out = NoMsgs /\ rv_in = NoMsgs /\ control.access = <<Answer>>
    \/ Carries(rv_out, written[Reg]) /\ rv_in = NoMsgs /\ control.access = << >>

ControlPlace ==
    /\ AtWrite \/ AtData \/ AtReply \/ AtRest => Empty
    /\ AtResponse \/ AtReadBack \/ AtRead => WriteAhead
    /\ AtSlave => ReadAhead

(* The register in hand has not its new value yet; its command is yet to be *)
(* given.                                                                   *)
Unwritten == \/ AtWrite \/ AtData
             \/ host.at # "idle" /\ rv_in \in {Out(Write), In(Write), Both(Read, Write)}
Commanding == host.at # "idle" /\ control.at = "act" /\ control.access = <<Write>>

(* The registers are those the host wrote, but for the one under way, and   *)
(* for the configuration if he has not written it yet.                      *)
RegsRight ==
    /\ config_regs = [y \in Regs |-> config_regs[y]]
    /\ \A y \in Regs : \/ config_regs[y] = written[y]
                       \/ y = Reg /\ Unwritten
                       \/ y = 2 /\ Reg # 2 /\ config_regs[2] = 0 /\ written[2] = ResetWord

(* A setting is pushed with its command and taken in the next cycle, in     *)
(* which Control replies: before its register can be read back.             *)
Setting(reg) == IF reg = 2 THEN SysConfig(written[2]) ELSE written[6] > 0
Settling == control.at = "reply" /\ control.access = <<Write>>
Fresh(ch, reg) ==
    \/ ch = NoMsgs
    \/ /\ host.at \in {"b", "ar", "r"} /\ Reg = reg
       /\ \/ ch = Out(Setting(reg)) /\ turn \in {"unit", "irq", "edge"} /\ Settling
          \/ /\ ch = In(Setting(reg))
             /\ (turn \in {"host", "slave", "control"} /\ Settling) \/ turn = "unit"
Follows(value, ch, reg) ==
    value = Setting(reg) \/ (Reg = reg /\ (Unwritten \/ Commanding \/ ch # NoMsgs))
Settings ==
    /\ Fresh(sys_config, 2) /\ Follows(cfg, sys_config, 2)
    /\ Fresh(flip_mem, 6) /\ Follows(mem_id, flip_mem, 6)

(* A unit is off, or it is the one started last, by a start that has        *)
(* reached Control.                                                         *)
Off(u) == unit[u].busy = FALSE /\ start[u] = NoMsgs /\ IRQs[u] = NoMsgs
Starting(u) == unit[u].busy = FALSE /\ Carries(start[u], Job(u, written)) /\ IRQs[u] = NoMsgs
Working(u) == /\ unit[u].busy = TRUE /\ unit[u].job = Job(u, written)
              /\ start[u] = NoMsgs /\ IRQs[u] = NoMsgs
Raising(u) == unit[u].busy = FALSE /\ start[u] = NoMsgs /\ Carries(IRQs[u], 1)
On(u) == /\ Starting(u) \/ Working(u) \/ Raising(u)
         /\ host.at \in {"b", "ar", "r", "poll"} /\ Reg = 1 /\ u = written[1]
         /\ ~Unwritten /\ ~Commanding
UnitsRight ==
    /\ start = [u \in Units |-> start[u]] /\ IRQs = [u \in Units |-> IRQs[u]]
    /\ \A u \in Units : unit[u].busy \in BOOLEAN
    /\ \A u \in Units : Off(u) \/ On(u)

(* While a command is due, the level, if up, is that of the command before, *)
(* and it falls in time.  What falls due keeps its margin (Limit) until the *)
(* host looks.                                                              *)
Due == Unwritten \/ Commanding \/ \E u \in Units : ~Off(u)
Limit ==
    IF AtWrite THEN IF turn \in {"edge", "host"} THEN 10 ELSE 11
    ELSE IF AtData THEN IF axi["w"] = Out(written[Reg]) /\ turn # "edge" THEN 10 ELSE 9
    ELSE IF AtResponse THEN IF axi["b"] = Out("okay") /\ turn # "edge" THEN 9 ELSE 8
    ELSE IF AtReadBack THEN IF turn \in {"edge", "host"} THEN 7 ELSE 8
    ELSE IF AtRead THEN IF axi["ar"] = Out(Reg) /\ turn # "edge" THEN 7
                        ELSE IF slave.reads # << >> /\ turn \in {"edge", "host", "slave"} THEN 5 ELSE 6
    ELSE IF AtSlave THEN
         IF rv_in \in {Out(Read), Both(Read, Write)} THEN IF turn # "edge" THEN 5 ELSE 4
         ELSE IF rv_in = In(Read) THEN 4
         ELSE IF control.access = <<Answer>> THEN
              IF control.at = "act" THEN IF turn \in {"unit", "irq"} THEN 4 ELSE 3
              ELSE IF turn \in {"unit", "irq"} THEN 3 ELSE 2
         ELSE IF rv_out = Out(written[Reg]) /\ turn # "edge" THEN 2 ELSE 1
    ELSE 1
Timely ==
    /\ hold \in 0 .. 11
    /\ interrupt = IF hold >= 2 THEN TRUE ELSE FALSE
    /\ Due /\ host.at # "idle" /\ Reg = 1 => hold <= Limit

Inv == /\ HostType /\ HostPlace /\ SlaveRight /\ ControlType /\ ControlPlace
       /\ RegsRight /\ Settings /\ UnitsRight /\ Timely

(* What has been set changes only with what the host writes. *)
LEMMA SettingIs == ASSUME UNCHANGED written PROVE \A reg : Setting(reg)' = Setting(reg)
BY DEF Setting, SysConfig, Slice

(* M - 1 fits in IndexType. *)
LEMMA FitsIndex ==
    ASSUME NEW w, IsWord(w)
    PROVE  IndexType(Slice(w, 1, 256)) = Slice(w, 1, 256)
<1>1. w \in Nat /\ w % 256 < Entries /\ Entries \in 1 .. 256 /\ w \div 1 = w
  BY EntriesAssumption DEF IsWord, Slice
<1>2. w % 256 \in Nat
  BY <1>1
<1>3. (w % 256) % Entries = w % 256
  BY <1>1, <1>2
<1>4. QED
  BY <1>1, <1>3 DEF IndexType, Slice

(* The fields of a word, put together, are the word. *)
LEMMA FieldsAddUp ==
    ASSUME NEW w, IsWord(w)
    PROVE  Layout(Slice(w, 1, 256), SysConfig(w)) = w
<1> DEFINE a == w \div 256
           b == w \div 512
           c == w \div 65536
           d == w \div 1048576
           e == w \div 16777216
<1>1. w \in Nat /\ w \div 1 = w /\ e < 256 /\ b % 128 = 0
  BY DEF IsWord, Slice
<1>2. w = (w % 256) + 256 * a /\ a \in Nat
  BY <1>1
<1>3. b = a \div 2 /\ a = (a % 2) + 2 * b /\ b \in Nat
  BY <1>1
<1>4. b = 128 * c /\ c \in Nat
  BY <1>1
<1>5. c = (c % 16) + 16 * d /\ d \in Nat
  BY <1>1
<1>6. d = (d % 16) + 16 * e /\ e \in Nat /\ e % 256 = e
  BY <1>1
<1>7. Layout(Slice(w, 1, 256), SysConfig(w))
        = (w % 256) + (a % 2) * 256 + (c % 16) * 65536 + (d % 16) * 1048576 + (e % 256) * 16777216
  BY <1>1 DEF Layout, SysConfig, Slice
<1> HIDE DEF a, b, c, d, e
<1>8. QED
  BY <1>1, <1>2, <1>3, <1>4, <1>5, <1>6, <1>7

(* Once an access is stored, the registers are those the host wrote, but    *)
(* for a configuration he never wrote, which has the same M - 1.            *)
LEMMA Registers ==
    ASSUME RegsRight, ~Unwritten
    PROVE  /\ \A y \in Regs \ {2} : config_regs[y] = written[y]
           /\ Reg = 2 => config_regs[2] = written[2]
           /\ \A u \in Units : Job(u, config_regs) = Job(u, written)
<1>1. /\ \A y \in Regs \ {2} : config_regs[y] = written[y]
      /\ config_regs[2] = written[2] \/ (Reg # 2 /\ config_regs[2] = 0 /\ written[2] = ResetWord)
  BY DEF RegsRight, Regs
<1>2. Slice(config_regs[2], 1, 256) = Slice(written[2], 1, 256)
  BY <1>1 DEF Slice, ResetWord
<1>3. \A u \in Units : u # 4 => config_regs[u + 2] = written[u + 2]
  BY <1>1 DEF Units, Regs
<1>4. QED
  BY <1>1, <1>2, <1>3 DEF Job

-----------------------------------------------------------------------------
(* Places *)

(* The access is in one place at a time. *)
Apart ==
    /\ AtWrite => ~AtData /\ ~AtResponse /\ ~AtReadBack /\ ~AtRead /\ ~AtSlave /\ ~AtReply /\ ~AtRest
    /\ AtData => ~AtResponse /\ ~AtReadBack /\ ~AtRead /\ ~AtSlave /\ ~AtReply /\ ~AtRest
    /\ AtResponse => ~AtReadBack /\ ~AtRead /\ ~AtSlave /\ ~AtReply /\ ~AtRest
    /\ AtReadBack => ~AtRead /\ ~AtSlave /\ ~AtReply /\ ~AtRest
    /\ AtRead => ~AtSlave /\ ~AtReply /\ ~AtRest
    /\ AtSlave => ~AtReply /\ ~AtRest
    /\ AtReply => ~AtRest

LEMMA Exclusive == Apart
<1>1. AtData /\ AtResponse => FALSE
  <2>1. ASSUME AtData, AtResponse PROVE FALSE
    <3>1. axi["w"] = NoMsgs
      BY <2>1 DEF AtResponse, Only, Axi
    <3>2. QED
      BY <2>1, <3>1, Moves DEF AtData, Carries
  <2>2. QED
    BY <2>1
<1>2. AtRead /\ AtReply => FALSE
  <2>1. ASSUME AtRead, AtReply PROVE FALSE
    <3>1. axi["r"] = NoMsgs
      BY <2>1 DEF AtRead, Only, Axi
    <3>2. QED
      BY <2>1, <3>1, Moves DEF AtReply, Carries
  <2>2. QED
    BY <2>1
<1>3. QED
  BY <1>1, <1>2 DEF Apart, AtWrite, AtData, AtResponse, AtReadBack, AtRead, AtSlave, AtReply, AtRest

(* What the channels of a place hold, one by one. *)
LEMMA Named ==
    \A S : Only(S) <=> /\ "aw" \in S \/ axi["aw"] = NoMsgs
                       /\ "w" \in S \/ axi["w"] = NoMsgs
                       /\ "b" \in S \/ axi["b"] = NoMsgs
                       /\ "ar" \in S \/ axi["ar"] = NoMsgs
                       /\ "r" \in S \/ axi["r"] = NoMsgs
  BY DEF Only, Axi

(* A step that keeps each place keeps the place. *)
LEMMA PlacesSame ==
    ASSUME HostPlace, AtWrite => AtWrite', AtData => AtData', AtResponse => AtResponse',
           AtReadBack => AtReadBack', AtRead => AtRead', AtSlave => AtSlave', AtReply => AtReply',
           AtRest => AtRest'
    PROVE  /\ HostPlace'
           /\ AtWrite' = AtWrite /\ AtData' = AtData /\ AtResponse' = AtResponse
           /\ AtReadBack' = AtReadBack /\ AtRead' = AtRead /\ AtSlave' = AtSlave
           /\ AtReply' = AtReply /\ AtRest' = AtRest
<1> DEFINE p1 == AtWrite  p2 == AtData  p3 == AtResponse  p4 == AtReadBack
           p5 == AtRead  p6 == AtSlave  p7 == AtReply  p8 == AtRest
<1>1. /\ p1 \in BOOLEAN /\ p2 \in BOOLEAN /\ p3 \in BOOLEAN /\ p4 \in BOOLEAN
      /\ p5 \in BOOLEAN /\ p6 \in BOOLEAN /\ p7 \in BOOLEAN /\ p8 \in BOOLEAN
  BY DEF AtWrite, AtData, AtResponse, AtReadBack, AtRead, AtSlave, AtReply, AtRest
<1>2. /\ p1' \in BOOLEAN /\ p2' \in BOOLEAN /\ p3' \in BOOLEAN /\ p4' \in BOOLEAN
      /\ p5' \in BOOLEAN /\ p6' \in BOOLEAN /\ p7' \in BOOLEAN /\ p8' \in BOOLEAN
  BY DEF AtWrite, AtData, AtResponse, AtReadBack, AtRead, AtSlave, AtReply, AtRest
<1>3. Apart'
  BY Exclusive, PTL
<1>4. QED
  BY <1>1, <1>2, <1>3 DEF HostPlace, Apart

(* The limit at each place. *)
LEMMA Limits ==
    /\ Limit \in 1 .. 11
    /\ AtWrite => Limit = IF turn \in {"edge", "host"} THEN 10 ELSE 11
    /\ AtData => Limit = IF axi["w"] = Out(written[Reg]) /\ turn # "edge" THEN 10 ELSE 9
    /\ AtResponse => Limit = IF axi["b"] = Out("okay") /\ turn # "edge" THEN 9 ELSE 8
    /\ AtReadBack => Limit = IF turn \in {"edge", "host"} THEN 7 ELSE 8
    /\ AtRead => Limit = IF axi["ar"] = Out(Reg) /\ turn # "edge" THEN 7
                         ELSE IF slave.reads # << >> /\ turn \in {"edge", "host", "slave"} THEN 5 ELSE 6
    /\ AtSlave => Limit =
         IF rv_in \in {Out(Read), Both(Read, Write)} THEN IF turn # "edge" THEN 5 ELSE 4
         ELSE IF rv_in = In(Read) THEN 4
         ELSE IF control.access = <<Answer>> THEN
              IF control.at = "act" THEN IF turn \in {"unit", "irq"} THEN 4 ELSE 3
              ELSE IF turn \in {"unit", "irq"} THEN 3 ELSE 2
         ELSE IF rv_out = Out(written[Reg]) /\ turn # "edge" THEN 2 ELSE 1
    /\ AtReply \/ AtRest => Limit = 1
  BY Exclusive DEF Limit, Apart

(* A write is no read. *)
LEMMA ReadsDiffer ==
    ASSUME HostType, host.at # "idle"
    PROVE  Read # Write /\ Answer # Write
<1>1. Write.rw = TRUE /\ Read.rw = FALSE /\ Answer.rw = FALSE
  BY DEF HostType, Write, Read, Answer
<1>2. QED
  BY <1>1

-----------------------------------------------------------------------------
(* The edge *)

(* The edge moves what is under way, and the access stays where it is. *)
LEMMA EdgePlaces ==
    ASSUME Inv, Edge
    PROVE  /\ HostType'
           /\ AtWrite => AtWrite'
           /\ AtData => AtData' /\ axi["w"]' = In(written[Reg])
           /\ AtResponse => AtResponse' /\ axi["b"]' = In("okay")
           /\ AtReadBack => AtReadBack'
           /\ AtRead => AtRead' /\ axi["ar"]' # Out(Reg)
           /\ AtSlave => AtSlave'
           /\ AtReply => AtReply'
           /\ AtRest => AtRest'
<1>1. /\ axi' = [c \in Axi |-> Transfer(axi[c])]
      /\ UNCHANGED <<host, written, slave>> /\ turn' = "host"
  <2>1. DOMAIN axi = Axi
    BY DEF Inv, HostType
  <2>2. QED
    BY <2>1 DEF Edge
<1>2. \A c \in Axi : axi'[c] = Transfer(axi[c])
  BY <1>1
<1>3. HostType'
  <2>1. axi' = [c \in Axi |-> axi'[c]]
    BY <1>1
  <2>2. QED
    BY <1>1, <2>1 DEF Inv, HostType, Turns, Reg
<1>4. \A S : Only(S) => Only(S)'
  BY <1>2, Rests DEF Only
<1>5. \A m : Requesting(axi["aw"], slave.writes, m) => Requesting(axi["aw"], slave.writes, m)'
  BY <1>1, <1>2, Rests, Moves DEF Requesting, Carries, Axi
<1>6. \A m : Requesting(axi["ar"], slave.reads, m) => Requesting(axi["ar"], slave.reads, m)'
  BY <1>1, <1>2, Rests, Moves DEF Requesting, Carries, Axi
<1>7. \A c \in Axi : \A m : Carries(axi[c], m) => axi'[c] = In(m)
  BY <1>2, Moves DEF Carries
<1>8. AtWrite => AtWrite'
  BY <1>1, <1>4, <1>5 DEF AtWrite, Reg
<1>9. AtData => AtData' /\ axi["w"]' = In(written[Reg])
  BY <1>1, <1>4, <1>5, <1>7 DEF AtData, Reg, Axi, Carries
<1>10. AtResponse => AtResponse' /\ axi["b"]' = In("okay")
  BY <1>1, <1>4, <1>7 DEF AtResponse, Axi, Carries
<1>11. AtReadBack => AtReadBack'
  BY <1>1, <1>4 DEF AtReadBack
<1>12. AtRead => AtRead' /\ axi["ar"]' # Out(Reg)
  <2>1. AtRead => axi["ar"]' # Out(Reg)
    BY <1>2, <1>7, Rests, Moves, Differ DEF AtRead, Requesting, Axi
  <2>2. QED
    BY <1>1, <1>4, <1>6, <2>1 DEF AtRead, Reg
<1>13. AtSlave => AtSlave'
  BY <1>1, <1>4 DEF AtSlave, Reg
<1>14. AtReply => AtReply'
  BY <1>1, <1>4, <1>7 DEF AtReply, Axi, Carries, Reg
<1>15. AtRest => AtRest'
  BY <1>1, <1>4 DEF AtRest
<1>16. QED
  BY <1>3, <1>8, <1>9, <1>10, <1>11, <1>12, <1>13, <1>14, <1>15

(* What was pushed can be popped; the margin is that of the cycle to come. *)
LEMMA EdgeStep ==
    ASSUME Inv, Edge
    PROVE  Inv'
<1>1. /\ turn = "edge" /\ turn' = "host"
      /\ UNCHANGED <<host, written, slave, control, config_regs, unit, cfg, mem_id, interrupt, hold>>
      /\ rv_in' = Transfer(rv_in) /\ rv_out' = Transfer(rv_out)
      /\ sys_config' = Transfer(sys_config) /\ flip_mem' = Transfer(flip_mem)
      /\ start' = [u \in Units |-> Transfer(start[u])]
      /\ IRQs' = [u \in Units |-> Transfer(IRQs[u])]
  BY DEF Edge, unitVars
<1>2. HostType' /\ HostType
  BY EdgePlaces DEF Inv
<1>3. /\ HostPlace'
      /\ AtWrite' = AtWrite /\ AtData' = AtData /\ AtResponse' = AtResponse
      /\ AtReadBack' = AtReadBack /\ AtRead' = AtRead /\ AtSlave' = AtSlave
      /\ AtReply' = AtReply /\ AtRest' = AtRest
  BY EdgePlaces, PlacesSame DEF Inv
<1>4. SlaveRight'
  BY <1>1 DEF SlaveRight, Inv
<1>5. ControlType'
  BY <1>1 DEF ControlType, Inv
<1>6. Reg' = Reg /\ Write' = Write /\ Read' = Read /\ Answer' = Answer
  BY <1>1 DEF Reg, Write, Read, Answer
<1>7. ControlPlace'
  <2>1. Empty => Empty'
    BY <1>1, Rests DEF Empty
  <2>2. WriteAhead => WriteAhead'
    BY <1>1, <1>6, Rests, Moves DEF WriteAhead, Carries
  <2>3. ReadAhead => ReadAhead'
    <3>1. \A m : Carries(rv_in, m) => Carries(rv_in', m)
      BY <1>1, Moves DEF Carries
    <3>2. \A m : Carries(rv_out, m) => Carries(rv_out', m)
      BY <1>1, Moves DEF Carries
    <3>3. \A n, m : rv_in = Both(n, m) => rv_in' = Both(n, m)
      BY <1>1, Differ
    <3>4. QED
      BY <1>1, <1>6, <3>1, <3>2, <3>3, Rests DEF ReadAhead, Carries
  <2>4. QED
    BY <1>3, <2>1, <2>2, <2>3 DEF ControlPlace, Inv
<1>8. Unwritten' = Unwritten /\ Commanding' = Commanding
  <2>1. rv_in = NoMsgs => rv_in' = NoMsgs
    BY <1>1, Rests
  <2>2. \A m : rv_in = Out(m) \/ rv_in = In(m) => rv_in' = In(m)
    BY <1>1, Moves
  <2>3. \A n, m : rv_in = Both(n, m) => rv_in' = Both(n, m)
    BY <1>1, Differ
  <2>4. host.at # "idle" => (rv_in' \in {Out(Write), In(Write), Both(Read, Write)}
                             <=> rv_in \in {Out(Write), In(Write), Both(Read, Write)})
    <3>1. ASSUME host.at # "idle"
          PROVE  rv_in' \in {Out(Write), In(Write), Both(Read, Write)}
                             <=> rv_in \in {Out(Write), In(Write), Both(Read, Write)}
      <4>1. Read # Write
        BY <1>2, <3>1, ReadsDiffer
      <4>2. \/ rv_in = NoMsgs \/ rv_in = Both(Read, Write)
            \/ Carries(rv_in, Write) \/ Carries(rv_in, Read)
        BY DEF Inv, HostPlace, ControlPlace, Empty, WriteAhead, ReadAhead
      <4>3. QED
        BY <2>1, <2>2, <2>3, <4>1, <4>2, Differ, Moves DEF Carries
    <3>2. QED
      BY <3>1
  <2>5. QED
    BY <1>1, <1>3, <1>6, <2>4 DEF Unwritten, Commanding
<1>9. RegsRight'
  BY <1>1, <1>6, <1>8 DEF RegsRight, Inv
<1>10. Settings'
  <2>1. ASSUME NEW ch, NEW reg, Fresh(ch, reg)
        PROVE  \/ Transfer(ch) = NoMsgs /\ ch = NoMsgs
               \/ /\ host.at \in {"b", "ar", "r"} /\ Reg = reg /\ Settling
                  /\ Transfer(ch) = In(Setting(reg)) /\ ch # NoMsgs
    BY <1>1, <2>1, Moves, Rests DEF Fresh
  <2>2. Settling' = Settling
    BY <1>1, <1>6 DEF Settling
  <2>3. Fresh(sys_config, 2)' /\ Fresh(flip_mem, 6)'
    BY <1>1, <1>6, <2>1, <2>2, SettingIs DEF Fresh, Settings, Inv
  <2>4. Follows(cfg, sys_config, 2)' /\ Follows(mem_id, flip_mem, 6)'
    BY <1>1, <1>6, <1>8, <2>1, Moves, SettingIs DEF Follows, Settings, Inv
  <2>5. QED
    BY <2>3, <2>4 DEF Settings
<1>11. /\ UnitsRight' 
       /\ \A u \in Units : Off(u) => Off(u)'
  <2>1. \A u \in Units : Off(u) => Off(u)'
    BY <1>1, Rests DEF Off
  <2>2. \A u \in Units : On(u) => On(u)'
    <3>1. ASSUME NEW u \in Units PROVE Job(u, written)' = Job(u, written)
      BY <1>1 DEF Job, IndexType
    <3>2. \A u \in Units : \A m : Carries(start[u], m) => Carries(start'[u], m)
      BY <1>1, Moves DEF Carries
    <3>3. \A u \in Units : \A m : Carries(IRQs[u], m) => Carries(IRQs'[u], m)
      BY <1>1, Moves DEF Carries
    <3>4. \A u \in Units : /\ start[u] = NoMsgs => start'[u] = NoMsgs
                           /\ IRQs[u] = NoMsgs => IRQs'[u] = NoMsgs
      BY <1>1, Rests
    <3>6. ASSUME NEW u \in Units, On(u) PROVE On(u)'
      <4>1. ~Unwritten' /\ ~Commanding'
        BY <1>8, <3>6 DEF On
      <4>2. Starting(u)' \/ Working(u)' \/ Raising(u)'
        BY <1>1, <3>1, <3>2, <3>3, <3>4, <3>6 DEF On, Starting, Working, Raising, Carries
      <4>3. host'.at \in {"b", "ar", "r", "poll"} /\ Reg' = 1 /\ u = written'[1]
        BY <1>1, <1>6, <3>6 DEF On
      <4>4. QED
        BY <4>1, <4>2, <4>3 DEF On
    <3>5. QED
      BY <3>6
  <2>3. start' = [u \in Units |-> start'[u]] /\ IRQs' = [u \in Units |-> IRQs'[u]]
    BY <1>1
  <2>4. QED
    BY <1>1, <2>1, <2>2, <2>3 DEF UnitsRight, Inv
<1>12. Timely'
  <2>1. Due' => Due
    BY <1>8, <1>11 DEF Due
  <2>2. Limit \in Nat /\ Limit' \in Nat /\ Limit <= Limit'
    <3>0. Limits'
      BY Limits, PTL
    <3>1. CASE AtWrite
      BY <1>1, <1>3, <3>0, <3>1, Limits
    <3>2. CASE AtData
      BY <1>1, <1>3, <3>0, <3>2, Limits, EdgePlaces, Differ
    <3>3. CASE AtResponse
      BY <1>1, <1>3, <3>0, <3>3, Limits, EdgePlaces, Differ
    <3>4. CASE AtReadBack
      BY <1>1, <1>3, <3>0, <3>4, Limits
    <3>5. CASE AtRead
      BY <1>1, <1>3, <1>6, <3>0, <3>5, Limits, EdgePlaces
    <3>6. CASE AtSlave
      <4>1. Limit \in Nat /\ Limit' \in Nat
        BY <3>0, Limits
      <4>2. host.at # "idle" /\ ReadAhead
        BY <3>6 DEF AtSlave, ControlPlace, Inv
      <4>3. Read # Write
        BY <1>2, <4>2, ReadsDiffer
      <4>4. CASE rv_in \in {Out(Read), Both(Read, Write), In(Read)}
        <5>1. Limit = 4 /\ Limit' >= 4
          BY <1>1, <1>3, <1>6, <3>0, <3>6, <4>4, Limits, Moves, Differ
        <5>2. QED
          BY <4>1, <5>1
      <4>5. CASE rv_in = NoMsgs /\ control.access = <<Answer>>
        <5>1. rv_in' = NoMsgs
          BY <1>1, <4>5, Rests
        <5>2. Limit' = Limit
          BY <1>1, <1>3, <1>6, <3>0, <3>6, <4>5, <5>1, Limits, Moves, Differ
        <5>3. QED
          BY <4>1, <5>2
      <4>6. CASE rv_in = NoMsgs /\ control.access = << >>
        <5>1. rv_in = NoMsgs
          BY <4>6
        <5>2. Limit = 1
          BY <1>1, <3>6, <4>6, Limits, Moves, Differ, Sole
        <5>3. QED
          BY <4>1, <5>2, <3>0
      <4>7. QED
        BY <4>2, <4>4, <4>5, <4>6 DEF ReadAhead, Carries
    <3>7. CASE AtReply \/ AtRest
      BY <1>1, <1>3, <3>0, <3>7, Limits
    <3>8. QED
      BY <3>1, <3>2, <3>3, <3>4, <3>5, <3>6, <3>7 DEF Inv, HostPlace
  <2>3. /\ hold \in 0 .. 11
        /\ interrupt = IF hold >= 2 THEN TRUE ELSE FALSE
        /\ Due /\ host.at # "idle" /\ Reg = 1 => hold <= Limit
    BY DEF Timely, Inv
  <2>4. Due' /\ host'.at # "idle" /\ Reg' = 1 => hold' <= Limit'
    BY <1>1, <1>6, <2>1, <2>2, <2>3
  <2>5. QED
    BY <1>1, <2>3, <2>4 DEF Timely
<1>13. QED
  BY <1>2, <1>3, <1>4, <1>5, <1>7, <1>9, <1>10, <1>11, <1>12 DEF Inv

-----------------------------------------------------------------------------
(* The units and the interrupt *)

(* A step that leaves host, slave and the channels between them alone. *)
LEMMA PlacesKept ==
    ASSUME Inv, UNCHANGED <<host, written, axi, slave>>, turn' \in Turns
    PROVE  /\ HostType' /\ HostPlace' /\ SlaveRight'
           /\ AtWrite' = AtWrite /\ AtData' = AtData /\ AtResponse' = AtResponse
           /\ AtReadBack' = AtReadBack /\ AtRead' = AtRead /\ AtSlave' = AtSlave
           /\ AtReply' = AtReply /\ AtRest' = AtRest
           /\ Reg' = Reg /\ Write' = Write /\ Read' = Read /\ Answer' = Answer
<1>1. Reg' = Reg /\ Write' = Write /\ Read' = Read /\ Answer' = Answer
  BY DEF Reg, Write, Read, Answer
<1>2. HostType'
  BY <1>1 DEF HostType, Inv
<1>3. \A S : Only(S) => Only(S)'
  BY DEF Only
<1>4. /\ HostPlace'
      /\ AtWrite' = AtWrite /\ AtData' = AtData /\ AtResponse' = AtResponse
      /\ AtReadBack' = AtReadBack /\ AtRead' = AtRead /\ AtSlave' = AtSlave
      /\ AtReply' = AtReply /\ AtRest' = AtRest
  <2>1. AtWrite => AtWrite'
    BY <1>1, <1>3 DEF AtWrite
  <2>2. AtData => AtData'
    BY <1>1, <1>3 DEF AtData
  <2>3. AtResponse => AtResponse'
    BY <1>3 DEF AtResponse
  <2>4. AtReadBack => AtReadBack'
    BY <1>3 DEF AtReadBack
  <2>5. AtRead => AtRead'
    BY <1>1, <1>3 DEF AtRead
  <2>6. AtSlave => AtSlave'
    BY <1>1, <1>3 DEF AtSlave
  <2>7. AtReply => AtReply'
    BY <1>1, <1>3 DEF AtReply
  <2>8. AtRest => AtRest'
    BY <1>3 DEF AtRest
  <2>9. QED
    BY <2>1, <2>2, <2>3, <2>4, <2>5, <2>6, <2>7, <2>8, PlacesSame DEF Inv
<1>5. SlaveRight'
  BY DEF SlaveRight, Inv
<1>6. QED
  BY <1>1, <1>2, <1>4, <1>5

(* A step that leaves all of the access in hand alone. *)
LEMMA AccessKept ==
    ASSUME Inv, UNCHANGED <<host, written, axi, slave, rv_in, rv_out, control, config_regs>>,
           turn' \in Turns
    PROVE  /\ HostType' /\ HostPlace' /\ SlaveRight' /\ ControlType' /\ ControlPlace' /\ RegsRight'
           /\ AtWrite' = AtWrite /\ AtData' = AtData /\ AtResponse' = AtResponse
           /\ AtReadBack' = AtReadBack /\ AtRead' = AtRead /\ AtSlave' = AtSlave
           /\ AtReply' = AtReply /\ AtRest' = AtRest
           /\ Unwritten' = Unwritten /\ Commanding' = Commanding
           /\ Reg' = Reg /\ Write' = Write /\ Read' = Read /\ Answer' = Answer
<1>1. /\ HostType' /\ HostPlace' /\ SlaveRight'
      /\ AtWrite' = AtWrite /\ AtData' = AtData /\ AtResponse' = AtResponse
      /\ AtReadBack' = AtReadBack /\ AtRead' = AtRead /\ AtSlave' = AtSlave
      /\ AtReply' = AtReply /\ AtRest' = AtRest
      /\ Reg' = Reg /\ Write' = Write /\ Read' = Read /\ Answer' = Answer
  BY PlacesKept
<1>2. ControlType'
  BY DEF ControlType, Inv
<1>3. ControlPlace'
  BY <1>1 DEF ControlPlace, Inv, Empty, WriteAhead, ReadAhead
<1>4. Unwritten' = Unwritten /\ Commanding' = Commanding
  BY <1>1 DEF Unwritten, Commanding
<1>5. RegsRight'
  BY <1>1, <1>4 DEF RegsRight, Inv
<1>6. QED
  BY <1>1, <1>2, <1>3, <1>4, <1>5

(* Every cycle takes at most one from the limit of an access that waits. *)
LEMMA LimitKept ==
    ASSUME Inv, UNCHANGED <<host, written, axi, slave, rv_in, rv_out, control, config_regs>>,
           \/ turn = "unit" /\ turn' = "irq"
           \/ turn = "irq" /\ turn' = "edge"
    PROVE  /\ Limit' \in Nat /\ Limit' >= 1
           /\ turn = "unit" => Limit' = Limit
           /\ turn = "irq" => Limit' >= Limit - 1
<1>0. Limits'
  BY Limits, PTL
<1>1. turn' \in Turns
  BY DEF Turns
<1>2. /\ AtWrite' = AtWrite /\ AtData' = AtData /\ AtResponse' = AtResponse
      /\ AtReadBack' = AtReadBack /\ AtRead' = AtRead /\ AtSlave' = AtSlave
      /\ AtReply' = AtReply /\ AtRest' = AtRest
      /\ Reg' = Reg /\ Write' = Write /\ Read' = Read /\ Answer' = Answer
  BY <1>1, AccessKept
<1>3. Limit \in Nat /\ Limit' \in Nat /\ Limit' >= 1
  BY <1>0, Limits
<1>4. CASE AtWrite
  BY <1>0, <1>2, <1>3, <1>4, Limits
<1>5. CASE AtData
  BY <1>0, <1>2, <1>3, <1>5, Limits
<1>6. CASE AtResponse
  BY <1>0, <1>2, <1>3, <1>6, Limits
<1>7. CASE AtReadBack
  BY <1>0, <1>2, <1>3, <1>7, Limits
<1>8. CASE AtRead
  <2>1. axi["ar"] = Out(Reg) => slave.reads = << >>
    BY <1>8, Moves DEF AtRead, Requesting
  <2>2. QED
    BY <1>0, <1>2, <1>3, <1>8, <2>1, Limits
<1>9. CASE AtSlave
  BY <1>0, <1>2, <1>3, <1>9, Limits
<1>10. CASE AtReply \/ AtRest
  BY <1>0, <1>2, <1>3, <1>10, Limits
<1>11. QED
  BY <1>4, <1>5, <1>6, <1>7, <1>8, <1>9, <1>10 DEF Inv, HostPlace

(* A start is taken or a unit finishes, and the settings are taken. *)
LEMMA UnitsStep ==
    ASSUME Inv, NEW F \in SUBSET Units, UnitsRun(F)
    PROVE  Inv'
<1> DEFINE starts == {u \in Units : ~unit[u].busy /\ CanPop(start[u])}
<1>1. /\ turn = "unit" /\ turn' = "irq"
      /\ UNCHANGED <<host, written, axi, slave, rv_in, rv_out, control, config_regs, interrupt, hold>>
      /\ \A u \in F : unit[u].busy
      /\ unit' = [u \in Units |-> IF u \in F THEN [busy |-> FALSE, job |-> NoJob]
                                  ELSE IF u \in starts THEN [busy |-> TRUE, job |-> Front(start[u])]
                                  ELSE unit[u]]
      /\ start' = [u \in Units |-> IF u \in starts THEN Popped(start[u]) ELSE start[u]]
      /\ IRQs' = [u \in Units |-> IF u \in F THEN Pushed(IRQs[u], 1) ELSE IRQs[u]]
      /\ cfg' = IF CanPop(sys_config) THEN Front(sys_config) ELSE cfg
      /\ mem_id' = IF CanPop(flip_mem) THEN Front(flip_mem) ELSE mem_id
      /\ sys_config' = Popped(sys_config) /\ flip_mem' = Popped(flip_mem)
  BY DEF UnitsRun
<1>2. turn' \in Turns
  BY <1>1 DEF Turns
<1>3. /\ HostType' /\ HostPlace' /\ SlaveRight' /\ ControlType' /\ ControlPlace' /\ RegsRight'
      /\ Unwritten' = Unwritten /\ Commanding' = Commanding
      /\ Reg' = Reg /\ Write' = Write
  BY <1>1, <1>2, AccessKept
<1>4. Settings'
  <2>1. ASSUME NEW ch, NEW reg, NEW value, NEW next,
               Fresh(ch, reg), Follows(value, ch, reg),
               next = IF CanPop(ch) THEN Front(ch) ELSE value
        PROVE  \/ Popped(ch) = NoMsgs /\ (next = Setting(reg) \/ (Reg = reg /\ (Unwritten \/ Commanding)))
               \/ /\ host.at \in {"b", "ar", "r"} /\ Reg = reg /\ Settling
                  /\ Popped(ch) = Out(Setting(reg))
    BY <1>1, <2>1, Moves, Rests DEF Fresh, Follows
  <2>2. Settling' = Settling
    BY <1>1, <1>3 DEF Settling
  <2>3. Fresh(sys_config, 2)' /\ Follows(cfg, sys_config, 2)'
    <3>1. \/ sys_config' = NoMsgs /\ (cfg' = Setting(2) \/ (Reg = 2 /\ (Unwritten \/ Commanding)))
          \/ /\ host.at \in {"b", "ar", "r"} /\ Reg = 2 /\ Settling
             /\ sys_config' = Out(Setting(2))
      BY <1>1, <2>1 DEF Settings, Inv
    <3>2. QED
      BY <1>1, <1>3, <2>2, <3>1, Moves, SettingIs DEF Fresh, Follows
  <2>4. Fresh(flip_mem, 6)' /\ Follows(mem_id, flip_mem, 6)'
    <3>1. \/ flip_mem' = NoMsgs /\ (mem_id' = Setting(6) \/ (Reg = 6 /\ (Unwritten \/ Commanding)))
          \/ /\ host.at \in {"b", "ar", "r"} /\ Reg = 6 /\ Settling
             /\ flip_mem' = Out(Setting(6))
      BY <1>1, <2>1 DEF Settings, Inv
    <3>2. QED
      BY <1>1, <1>3, <2>2, <3>1, Moves, SettingIs DEF Fresh, Follows
  <2>5. QED
    BY <2>3, <2>4 DEF Settings
<1>5. /\ UnitsRight'
      /\ \A u \in Units : Off(u) => Off(u)'
  <2>0. \A u \in Units : unit[u].busy \in BOOLEAN
    BY DEF Inv, UnitsRight
  <2>1. ASSUME NEW u \in Units, Off(u) PROVE Off(u)'
    <3>1. u \notin F /\ u \notin starts
      BY <1>1, <2>0, <2>1, Rests DEF Off
    <3>2. QED
      BY <1>1, <2>1, <3>1 DEF Off
  <2>2. ASSUME NEW u \in Units, On(u) PROVE On(u)'
    <3>1. Job(u, written') = Job(u, written)
      BY <1>1
    <3>2. CASE u \in F
      <4>1. Working(u)
        BY <1>1, <2>0, <2>2, <3>2 DEF On, Starting, Raising
      <4>2. unit'[u].busy = FALSE /\ start'[u] = NoMsgs /\ IRQs'[u] = Out(1)
        BY <1>1, <2>0, <3>2, <4>1, Moves, Rests DEF Working
      <4>3. QED
        BY <1>1, <1>3, <2>2, <4>2 DEF On, Raising, Carries
    <3>3. CASE u \in starts
      <4>1. Starting(u) /\ start[u] = In(Job(u, written)) /\ u \notin F
        BY <1>1, <2>0, <2>2, <3>3, Moves, Rests DEF On, Starting, Working, Raising, Carries
      <4>2. /\ unit'[u] = [busy |-> TRUE, job |-> Job(u, written)]
            /\ start'[u] = NoMsgs /\ IRQs'[u] = NoMsgs
        BY <1>1, <3>3, <4>1, Moves DEF Starting
      <4>3. QED
        BY <1>1, <1>3, <2>2, <3>1, <4>2 DEF On, Working
    <3>4. CASE u \notin F /\ u \notin starts
      <4>1. unit'[u] = unit[u] /\ start'[u] = start[u] /\ IRQs'[u] = IRQs[u]
        BY <1>1, <3>4
      <4>2. QED
        BY <1>1, <1>3, <2>2, <3>1, <4>1 DEF On, Starting, Working, Raising, Carries
    <3>5. QED
      BY <3>2, <3>3, <3>4
  <2>3. start' = [u \in Units |-> start'[u]] /\ IRQs' = [u \in Units |-> IRQs'[u]]
    BY <1>1
  <2>4. \A u \in Units : unit'[u].busy \in BOOLEAN
    BY <1>1, <2>0
  <2>5. QED
    BY <2>1, <2>2, <2>3, <2>4 DEF UnitsRight, Inv
<1>6. Timely'
  <2>1. Due' => Due
    BY <1>3, <1>5 DEF Due
  <2>2. Limit' = Limit
    BY <1>1, LimitKept
  <2>3. QED
    BY <1>1, <1>3, <2>1, <2>2 DEF Timely, Inv
<1>7. QED
  BY <1>3, <1>4, <1>5, <1>6 DEF Inv

(* The level rises for a unit that is done, or is one cycle older. *)
LEMMA InterruptStep ==
    ASSUME Inv, InterruptRun
    PROVE  Inv'
<1>1. /\ turn = "irq" /\ turn' = "edge"
      /\ UNCHANGED <<host, written, axi, slave, rv_in, rv_out, control, config_regs,
                     start, sys_config, flip_mem, unit, cfg, mem_id>>
      /\ InterruptRaise \/ InterruptHold \/ InterruptIdle
  BY DEF InterruptRun, commandVars, unitVars
<1>2. turn' \in Turns
  BY <1>1 DEF Turns
<1>3. /\ HostType' /\ HostPlace' /\ SlaveRight' /\ ControlType' /\ ControlPlace' /\ RegsRight'
      /\ Unwritten' = Unwritten /\ Commanding' = Commanding
      /\ Reg' = Reg /\ Write' = Write
  BY <1>1, <1>2, AccessKept
<1>4. Settings'
  BY <1>1, <1>3, SettingIs DEF Settings, Fresh, Follows, Settling, Inv
<1>5. Timely
  BY DEF Inv
<1>6. Limit' \in Nat /\ Limit' >= 1 /\ Limit \in Nat /\ Limit' >= Limit - 1
  BY <1>1, LimitKept, Limits
<1>7. CASE InterruptRaise
  <2>1. /\ IRQs' = [u \in Units |-> IF u \in Pending THEN Popped(IRQs[u]) ELSE IRQs[u]]
        /\ hold' = 11 /\ interrupt' = TRUE /\ Pending # {}
    BY <1>7 DEF InterruptRaise, Hold
  <2>2. \A u \in Pending : u \in Units /\ On(u) /\ Raising(u) /\ IRQs[u] = In(1)
    BY Rests, Moves DEF Pending, Inv, UnitsRight, Off, On, Starting, Working, Raising, Carries
  <2>3. \A u \in Units : Off(u)'
    <3>1. PICK w \in Pending : On(w)
      BY <2>1, <2>2
    <3>2. ASSUME NEW u \in Units, u # w PROVE Off(u)
      BY <3>1, <3>2 DEF On, Inv, UnitsRight
    <3>3. ASSUME NEW u \in Units, u # w PROVE Off(u)'
      <4>1. u \notin Pending
        BY <3>2, <3>3, Rests DEF Pending, Off
      <4>2. QED
        BY <1>1, <2>1, <3>2, <3>3, <4>1 DEF Off
    <3>4. Off(w)'
      BY <1>1, <2>1, <2>2, Moves DEF Off, Raising
    <3>5. QED
      BY <3>3, <3>4
  <2>4. ~Unwritten /\ ~Commanding
    BY <2>1, <2>2 DEF On
  <2>5. UnitsRight'
    <3>1. IRQs' = [u \in Units |-> IRQs'[u]]
      BY <2>1
    <3>2. QED
      BY <1>1, <2>3, <3>1 DEF UnitsRight, Inv
  <2>6. ~Due'
    BY <1>3, <2>3, <2>4 DEF Due
  <2>7. Timely'
    BY <2>1, <2>6 DEF Timely
  <2>8. QED
    BY <1>3, <1>4, <2>5, <2>7 DEF Inv
<1>8. CASE InterruptHold \/ InterruptIdle
  <2>1. /\ IRQs' = IRQs
        /\ hold' = (IF hold > 0 THEN hold - 1 ELSE hold)
    <3>1. CASE InterruptHold
      BY <3>1 DEF InterruptHold
    <3>2. CASE InterruptIdle
      BY <3>2 DEF InterruptIdle
    <3>3. QED
      BY <1>8, <3>1, <3>2
  <2>2. \A u \in Units : Off(u)' = Off(u)
    BY <1>1, <2>1 DEF Off
  <2>3. \A u \in Units : On(u) => On(u)'
    BY <1>1, <1>3, <2>1 DEF On, Starting, Working, Raising
  <2>4. UnitsRight'
    BY <1>1, <2>1, <2>2, <2>3 DEF UnitsRight, Inv
  <2>5. Due' = Due
    BY <1>3, <2>2 DEF Due
  <2>6. Timely'
    <3>1. hold' \in 0 .. 11
      BY <1>5, <2>1 DEF Timely
    <3>2. interrupt' = IF hold' >= 2 THEN TRUE ELSE FALSE
      <4>1. CASE InterruptHold
        <5>1. interrupt' = (interrupt /\ hold # 2) /\ hold' = hold - 1
          BY <4>1 DEF InterruptHold
        <5>2. hold \in 0 .. 11 /\ interrupt = IF hold >= 2 THEN TRUE ELSE FALSE
          BY <1>5 DEF Timely
        <5>3. CASE hold > 2
          <6>1. interrupt = TRUE /\ hold # 2 /\ hold' >= 2
            BY <5>1, <5>2, <5>3
          <6>2. QED
            BY <5>1, <6>1
        <5>4. CASE hold = 2
          <6>1. (interrupt /\ hold # 2) = FALSE
            BY <5>4
          <6>2. ~(hold' >= 2)
            BY <5>1, <5>4
          <6>3. QED
            BY <5>1, <6>1, <6>2
        <5>5. CASE hold < 2
          <6>1. interrupt = FALSE /\ ~(hold' >= 2)
            BY <5>1, <5>2, <5>5
          <6>2. QED
            BY <5>1, <6>1
        <5>6. hold > 2 \/ hold = 2 \/ hold < 2
          BY <5>2
        <5>7. QED
          BY <5>3, <5>4, <5>5, <5>6, Zenon
      <4>2. CASE InterruptIdle
        BY <1>5, <4>2 DEF InterruptIdle, Timely
      <4>3. QED
        BY <1>8, <4>1, <4>2
    <3>3. Due' /\ host'.at # "idle" /\ Reg' = 1 => hold' <= Limit'
      BY <1>1, <1>3, <1>5, <1>6, <2>1, <2>5 DEF Timely
    <3>4. QED
      BY <3>1, <3>2, <3>3 DEF Timely
  <2>7. QED
    BY <1>3, <1>4, <2>4, <2>6 DEF Inv
<1>9. QED
  BY <1>1, <1>7, <1>8

-----------------------------------------------------------------------------
(* The host *)

(* While the access in hand stays the same. *)
LEMMA HostKeeps ==
    ASSUME Inv, turn = "host", turn' = "slave", UNCHANGED hostRest, written' = written,
           host'.access = host.access, host.at # "idle", host'.at \in {"b", "ar", "r"},
           Unwritten' = Unwritten
    PROVE  /\ Reg' = Reg /\ Write' = Write /\ Read' = Read /\ Answer' = Answer
           /\ SlaveRight' /\ ControlType'
           /\ RegsRight' /\ Settings' /\ UnitsRight' /\ Due' = Due
<1>1. Reg' = Reg /\ Write' = Write /\ Read' = Read /\ Answer' = Answer
  BY DEF Reg, Write, Read, Answer
<1>2. /\ UNCHANGED <<slave, rv_in, rv_out, control, config_regs, start, sys_config, flip_mem, IRQs>>
      /\ UNCHANGED <<unit, cfg, mem_id, interrupt, hold>>
  BY DEF hostRest, commandVars, unitVars
<1>3. SlaveRight' /\ ControlType'
  BY <1>2 DEF SlaveRight, ControlType, Inv
<1>4. Commanding' = Commanding
  BY <1>1, <1>2 DEF Commanding
<1>5. RegsRight'
  BY <1>1, <1>2 DEF RegsRight, Inv
<1>6. Settings'
  <2>1. Settling' = Settling
    BY <1>1, <1>2 DEF Settling
  <2>2. Fresh(sys_config, 2)' /\ Fresh(flip_mem, 6)'
    BY <1>1, <1>2, <2>1, SettingIs DEF Settings, Fresh, Inv
  <2>3. Follows(cfg, sys_config, 2)' /\ Follows(mem_id, flip_mem, 6)'
    BY <1>1, <1>2, <1>4, SettingIs DEF Settings, Follows, Inv
  <2>4. QED
    BY <2>2, <2>3 DEF Settings
<1>7. UnitsRight' /\ \A u \in Units : Off(u)' = Off(u)
  <2>1. \A u \in Units : Off(u)' = Off(u)
    BY <1>2 DEF Off
  <2>2. \A u \in Units : On(u) => On(u)'
    BY <1>1, <1>2, <1>4 DEF On, Starting, Working, Raising
  <2>3. QED
    BY <1>2, <2>1, <2>2 DEF UnitsRight, Inv
<1>8. Due' = Due
  BY <1>4, <1>7 DEF Due
<1>9. QED
  BY <1>1, <1>3, <1>5, <1>6, <1>7, <1>8

(* The host waits. *)
LEMMA HostWaitStep ==
    ASSUME Inv, turn = "host", turn' = "slave", UNCHANGED hostRest, HostWait
    PROVE  Inv'
<1>1. /\ UNCHANGED <<host, written, axi, slave, rv_in, rv_out, control, config_regs>>
      /\ UNCHANGED <<start, sys_config, flip_mem, IRQs, unit, cfg, mem_id, interrupt, hold>>
  BY DEF hostRest, commandVars, unitVars, HostWait
<1>2. turn' \in Turns
  BY DEF Turns
<1>3. /\ HostType' /\ HostPlace' /\ SlaveRight' /\ ControlType' /\ ControlPlace' /\ RegsRight'
      /\ AtWrite' = AtWrite /\ AtData' = AtData /\ AtResponse' = AtResponse
      /\ AtReadBack' = AtReadBack /\ AtRead' = AtRead /\ AtSlave' = AtSlave
      /\ AtReply' = AtReply /\ AtRest' = AtRest
      /\ Unwritten' = Unwritten /\ Commanding' = Commanding
      /\ Reg' = Reg /\ Write' = Write /\ Read' = Read /\ Answer' = Answer
  BY <1>1, <1>2, AccessKept
<1>4. Settings'
  BY <1>1, <1>3, SettingIs DEF Settings, Fresh, Follows, Settling, Inv
<1>5. \A u \in Units : Off(u)' = Off(u)
  BY <1>1 DEF Off
<1>6. UnitsRight'
  <2>1. \A u \in Units : On(u) => On(u)'
    BY <1>1, <1>3 DEF On, Starting, Working, Raising
  <2>2. QED
    BY <1>1, <1>5, <2>1 DEF UnitsRight, Inv
<1>7. Due' = Due
  BY <1>3, <1>5 DEF Due
<1>8. Limit' \in Nat /\ Limit \in Nat /\ Limit' >= Limit
  <2>0. Limits'
    BY Limits, PTL
  <2>1. Limit \in Nat /\ Limit' \in Nat
    BY <2>0, Limits
  <2>2. ~AtWrite /\ ~AtReadBack
    BY DEF HostWait, AtWrite, AtReadBack
  <2>3. CASE AtData
    BY <1>1, <1>3, <2>0, <2>1, <2>3, Limits
  <2>4. CASE AtResponse
    BY <1>1, <1>3, <2>0, <2>1, <2>4, Limits
  <2>5. CASE AtRead
    BY <1>1, <1>3, <2>0, <2>1, <2>5, Limits
  <2>6. CASE AtSlave
    BY <1>1, <1>3, <2>0, <2>1, <2>6, Limits
  <2>7. CASE AtReply \/ AtRest
    BY <1>1, <1>3, <2>0, <2>1, <2>7, Limits
  <2>8. QED
    BY <2>2, <2>3, <2>4, <2>5, <2>6, <2>7 DEF Inv, HostPlace
<1>9. Timely'
  BY <1>1, <1>3, <1>7, <1>8 DEF Timely, Inv
<1>10. QED
  BY <1>3, <1>4, <1>6, <1>9 DEF Inv

(* A new access. *)
LEMMA HostAddrStep ==
    ASSUME Inv, turn = "host", turn' = "slave", UNCHANGED hostRest, HostAddr
    PROVE  Inv'
<1>1. PICK x \in HostRegs : \E d \in Data(x) :
         /\ host' = [at |-> "w", access |-> [rw |-> TRUE, reg |-> x, data |-> d]]
         /\ written' = [written EXCEPT ![x] = d]
         /\ axi' = [axi EXCEPT !["aw"] = Pushed(@, x)]
  BY DEF HostAddr
<1>2. PICK d \in Data(x) :
         /\ host' = [at |-> "w", access |-> [rw |-> TRUE, reg |-> x, data |-> d]]
         /\ written' = [written EXCEPT ![x] = d]
         /\ axi' = [axi EXCEPT !["aw"] = Pushed(@, x)]
  BY <1>1
<1>3. /\ UNCHANGED <<slave, rv_in, rv_out, control, config_regs, start, sys_config, flip_mem, IRQs>>
      /\ UNCHANGED <<unit, cfg, mem_id, interrupt, hold>>
  BY DEF hostRest, commandVars, unitVars
<1>4. host.at = "idle"
  BY DEF HostAddr
<1>5. /\ x \in 1 .. 6 /\ d \in Nat
      /\ x = 1 => d \in Units
      /\ x = 2 => IsWord(d)
  BY <1>1, HostRegsAssumption, WordsAssumption, BasesAssumption DEF Data, Units, IsWord
<1>6. Reg' = x /\ Write' = [rw |-> TRUE, reg |-> x, data |-> d] /\ host'.at = "w"
  BY <1>2 DEF Reg, Write
<1>7. /\ written' \in [Regs -> Nat] /\ written'[x] = d
      /\ \A y \in Regs : y # x => written'[y] = written[y]
  BY <1>2, <1>5 DEF Inv, HostType, Regs
<1>8. AtRest /\ Empty
  BY <1>4 DEF Inv, HostPlace, ControlPlace, AtWrite, AtData, AtResponse, AtReadBack, AtRead, AtSlave,
              AtReply
<1>9. axi = [c \in Axi |-> axi[c]] /\ \A c \in Axi : axi[c] = NoMsgs
  BY <1>8 DEF Inv, HostType, AtRest, Only
<1>10. axi'["aw"] = Out(x) /\ \A c \in Axi \ {"aw"} : axi'[c] = NoMsgs
  BY <1>2, <1>9, Moves DEF Axi
<1>11. HostType'
  <2>1. axi' = [c \in Axi |-> axi'[c]]
    BY <1>2, <1>9
  <2>2. IsWord(written[2])'
    <3>1. x = 2 => written'[2] = d
      BY <1>7
    <3>2. x # 2 => written'[2] = written[2]
      BY <1>7 DEF Regs
    <3>3. IsWord(written[2])
      BY DEF Inv, HostType
    <3>4. QED
      BY <1>5, <3>1, <3>2, <3>3 DEF IsWord, Slice
  <2>3. host' = [at |-> host'.at, access |-> host'.access]
    BY <1>2
  <2>4. turn' \in Turns
    BY DEF Turns
  <2>5. host'.access = [rw |-> TRUE, reg |-> Reg', data |-> written'[Reg']]
    BY <1>6, <1>7 DEF Write
  <2>6. Reg' = 1 => written'[1] \in Units
    BY <1>5, <1>6, <1>7
  <2>7. QED
    BY <1>5, <1>6, <1>7, <2>1, <2>2, <2>3, <2>4, <2>5, <2>6 DEF HostType
<1>12. AtWrite'
  BY <1>3, <1>6, <1>8, <1>10 DEF AtWrite, AtRest, Only, Requesting, Carries
<1>13. HostPlace' /\ ControlPlace'
  <2>1. Empty'
    BY <1>3, <1>8 DEF Empty
  <2>2. Apart'
    BY Exclusive, PTL
  <2>3. QED
    BY <1>12, <2>1, <2>2 DEF HostPlace, ControlPlace, Apart
<1>14. SlaveRight' /\ ControlType'
  BY <1>3 DEF SlaveRight, ControlType, Inv
<1>15. ~Unwritten /\ ~Commanding
  BY <1>4 DEF Unwritten, Commanding, AtWrite, AtData
<1>16. Unwritten'
  BY <1>12 DEF Unwritten
<1>17. RegsRight'
  BY <1>3, <1>6, <1>7, <1>15, <1>16 DEF RegsRight, Inv
<1>18. Settings'
  <2>1. sys_config = NoMsgs /\ flip_mem = NoMsgs
    BY <1>4 DEF Inv, Settings, Fresh
  <2>2. cfg = Setting(2) /\ mem_id = Setting(6)
    BY <1>15, <2>1 DEF Inv, Settings, Follows
  <2>3. (x # 2 => Setting(2)' = Setting(2)) /\ (x # 6 => Setting(6)' = Setting(6))
    <3>1. (x # 2 => written'[2] = written[2]) /\ (x # 6 => written'[6] = written[6])
      BY <1>7 DEF Regs
    <3>2. QED
      BY <3>1 DEF Setting, SysConfig, Slice
  <2>4. QED
    BY <1>3, <1>6, <1>16, <2>1, <2>2, <2>3 DEF Settings, Fresh, Follows
<1>19. UnitsRight'
  <2>1. \A u \in Units : Off(u)
    BY <1>4 DEF Inv, UnitsRight, On
  <2>2. \A u \in Units : Off(u)'
    BY <1>3, <2>1 DEF Off
  <2>3. QED
    BY <1>3, <2>2 DEF UnitsRight, Inv
<1>20. Timely'
  <2>0. Limits'
    BY Limits, PTL
  <2>1. Limit' = 11
    BY <1>12, <2>0
  <2>2. QED
    BY <1>3, <2>1 DEF Timely, Inv
<1>21. QED
  BY <1>11, <1>13, <1>14, <1>17, <1>18, <1>19, <1>20 DEF Inv

(* A step of the access in hand: its parts, and what it leaves alone. *)
LEMMA HostDataStep ==
    ASSUME Inv, turn = "host", turn' = "slave", UNCHANGED hostRest, HostData
    PROVE  Inv'
<1>1. /\ host.at = "w" /\ host' = [host EXCEPT !.at = "b"] /\ written' = written
      /\ axi' = [axi EXCEPT !["w"] = Pushed(@, host.access.data)]
  BY DEF HostData
<1>2. HostType /\ HostPlace /\ ControlPlace
  BY DEF Inv
<1>3. AtWrite /\ Empty
  BY <1>1, <1>2 DEF HostPlace, ControlPlace, AtData, AtResponse, AtReadBack, AtRead, AtSlave, AtReply, AtRest
<1>4. host'.at = "b" /\ host'.access = host.access /\ host' = [at |-> host'.at, access |-> host'.access]
  BY <1>1, <1>2 DEF HostType
<1>5. Reg' = Reg /\ Write' = Write
  BY <1>4 DEF Reg, Write
<1>6. host.access.data = written[Reg]
  BY <1>1, <1>2 DEF HostType
<1>7. UNCHANGED <<slave, rv_in, rv_out, control, hold, interrupt>>
  BY DEF hostRest
<1>8. axi["w"] = NoMsgs
  BY <1>3, Named DEF AtWrite
<1>9. axi'["w"] = Out(written[Reg]) /\ \A c \in Axi \ {"w"} : axi'[c] = axi[c]
  BY <1>1, <1>2, <1>6, <1>8, Moves DEF HostType, Axi
<1>10. AtData'
  <2>1. Only({"aw", "w"})'
    BY <1>3, <1>9 DEF AtWrite, Only, Axi
  <2>2. Requesting(axi'["aw"], slave.writes, Reg)
    BY <1>3, <1>9 DEF AtWrite, Axi
  <2>3. QED
    BY <1>1, <1>3, <1>4, <1>5, <1>7, <1>9, <2>1, <2>2 DEF AtWrite, AtData, Carries
<1>11. HostType'
  <2>1. axi' = [c \in Axi |-> axi'[c]]
    BY <1>1, <1>2 DEF HostType
  <2>2. turn' \in Turns
    BY DEF Turns
  <2>3. QED
    BY <1>1, <1>2, <1>4, <1>5, <2>1, <2>2 DEF HostType, Write
<1>12. HostPlace' /\ ControlPlace'
  <2>1. Empty'
    BY <1>3, <1>7 DEF Empty
  <2>2. Apart'
    BY Exclusive, PTL
  <2>3. QED
    BY <1>10, <2>1, <2>2 DEF HostPlace, ControlPlace, Apart
<1>13. Unwritten' /\ Unwritten
  BY <1>3, <1>10 DEF Unwritten
<1>14. /\ SlaveRight' /\ ControlType'
       /\ RegsRight' /\ Settings' /\ UnitsRight' /\ Due' = Due
  <2>1. Unwritten' = Unwritten
    BY <1>13 DEF Unwritten, AtWrite, AtData
  <2>2. QED
    BY <1>1, <1>4, <2>1, HostKeeps
<1>15. Timely'
  <2>0. Limits'
    BY Limits, PTL
  <2>1. Limit = 10 /\ Limit' = 10
    BY <1>3, <1>1, <1>5, <1>9, <1>10, <2>0, Limits
  <2>2. QED
    BY <1>1, <1>5, <1>7, <1>14, <2>1 DEF Timely, Inv
<1>16. QED
  BY <1>11, <1>12, <1>14, <1>15 DEF Inv

(* The response comes before the write is in its register. *)
LEMMA HostResponseStep ==
    ASSUME Inv, turn = "host", turn' = "slave", UNCHANGED hostRest, HostResponse
    PROVE  Inv'
<1>1. /\ host.at = "b" /\ host' = [host EXCEPT !.at = "ar"] /\ written' = written
      /\ axi' = [axi EXCEPT !["b"] = Popped(@)] /\ CanPop(axi["b"])
  BY DEF HostResponse
<1>2. HostType /\ HostPlace /\ ControlPlace
  BY DEF Inv
<1>3. AtResponse /\ WriteAhead /\ axi["b"] = In("okay")
  <2>1. ~AtData
    <3>1. ASSUME AtData PROVE FALSE
      <4>1. axi["b"] = NoMsgs
        BY <3>1, Named DEF AtData
      <4>2. QED
        BY <1>1, <4>1, Rests
    <3>2. QED
      BY <3>1
  <2>2. AtResponse
    BY <1>1, <1>2, <2>1 DEF HostPlace, AtWrite, AtReadBack, AtRead, AtSlave, AtReply, AtRest
  <2>3. QED
    BY <1>1, <1>2, <2>2, Moves DEF ControlPlace, AtResponse, Carries
<1>4. host'.at = "ar" /\ host'.access = host.access /\ host' = [at |-> host'.at, access |-> host'.access]
  BY <1>1, <1>2 DEF HostType
<1>5. Reg' = Reg /\ Write' = Write /\ Read' = Read
  BY <1>4 DEF Reg, Write, Read
<1>7. UNCHANGED <<slave, rv_in, rv_out, control, hold, interrupt>>
  BY DEF hostRest
<1>9. axi'["b"] = NoMsgs /\ \A c \in Axi \ {"b"} : axi'[c] = axi[c]
  BY <1>1, <1>2, <1>3, Moves DEF HostType, Axi
<1>10. AtReadBack'
  <2>1. Only({})'
    BY <1>3, <1>9 DEF AtResponse, Only, Axi
  <2>3. QED
    BY <1>3, <1>4, <1>7, <2>1 DEF AtResponse, AtReadBack
<1>11. HostType'
  <2>1. axi' = [c \in Axi |-> axi'[c]]
    BY <1>1, <1>2 DEF HostType
  <2>2. turn' \in Turns
    BY DEF Turns
  <2>3. QED
    BY <1>1, <1>2, <1>4, <1>5, <2>1, <2>2 DEF HostType, Write
<1>12. HostPlace' /\ ControlPlace'
  <2>1. WriteAhead'
    BY <1>3, <1>5, <1>7 DEF WriteAhead
  <2>2. Apart'
    BY Exclusive, PTL
  <2>3. QED
    BY <1>10, <2>1, <2>2 DEF HostPlace, ControlPlace, Apart
<1>13. Unwritten' = Unwritten
  <2>1. ~AtWrite /\ ~AtData /\ ~AtWrite' /\ ~AtData'
    BY <1>3, <1>4, Exclusive DEF Apart, AtWrite, AtData
  <2>2. QED
    BY <1>1, <1>4, <1>5, <1>7, <2>1 DEF Unwritten
<1>14. /\ SlaveRight' /\ ControlType'
       /\ RegsRight' /\ Settings' /\ UnitsRight' /\ Due' = Due
  BY <1>1, <1>4, <1>13, HostKeeps
<1>15. Timely'
  <2>0. Limits'
    BY Limits, PTL
  <2>1. Limit = 8 /\ Limit' = 8
    <3>1. axi["b"] # Out("okay")
      BY <1>3, Differ
    <3>2. QED
      BY <1>3, <1>10, <2>0, <3>1, Limits
  <2>2. QED
    BY <1>1, <1>5, <1>7, <1>14, <2>1 DEF Timely, Inv
<1>16. QED
  BY <1>11, <1>12, <1>14, <1>15 DEF Inv

(* The register is read back. *)
LEMMA HostReadAddrStep ==
    ASSUME Inv, turn = "host", turn' = "slave", UNCHANGED hostRest, HostReadAddr
    PROVE  Inv'
<1>1. /\ host.at = "ar" /\ host' = [host EXCEPT !.at = "r"] /\ written' = written
      /\ axi' = [axi EXCEPT !["ar"] = Pushed(@, Reg)]
  BY DEF HostReadAddr, Reg
<1>2. HostType /\ HostPlace /\ ControlPlace
  BY DEF Inv
<1>3. AtReadBack /\ WriteAhead
  BY <1>1, <1>2 DEF HostPlace, ControlPlace, AtWrite, AtData, AtResponse, AtRead, AtSlave, AtReply, AtRest
<1>4. host'.at = "r" /\ host'.access = host.access /\ host' = [at |-> host'.at, access |-> host'.access]
  BY <1>1, <1>2 DEF HostType
<1>5. Reg' = Reg /\ Write' = Write /\ Read' = Read
  BY <1>4 DEF Reg, Write, Read
<1>7. UNCHANGED <<slave, rv_in, rv_out, control, hold, interrupt>>
  BY DEF hostRest
<1>8. axi["ar"] = NoMsgs
  BY <1>3, Named DEF AtReadBack
<1>9. axi'["ar"] = Out(Reg) /\ \A c \in Axi \ {"ar"} : axi'[c] = axi[c]
  BY <1>1, <1>2, <1>8, Moves DEF HostType, Axi
<1>10. AtRead'
  <2>1. Only({"ar"})'
    BY <1>3, <1>9 DEF AtReadBack, Only, Axi
  <2>3. QED
    BY <1>3, <1>4, <1>5, <1>7, <1>9, <2>1 DEF AtReadBack, AtRead, Requesting, Carries
<1>11. HostType'
  <2>1. axi' = [c \in Axi |-> axi'[c]]
    BY <1>1, <1>2 DEF HostType
  <2>2. turn' \in Turns
    BY DEF Turns
  <2>3. QED
    BY <1>1, <1>2, <1>4, <1>5, <2>1, <2>2 DEF HostType, Write
<1>12. HostPlace' /\ ControlPlace'
  <2>1. WriteAhead'
    BY <1>3, <1>5, <1>7 DEF WriteAhead
  <2>2. Apart'
    BY Exclusive, PTL
  <2>3. QED
    BY <1>10, <2>1, <2>2 DEF HostPlace, ControlPlace, Apart
<1>13. Unwritten' = Unwritten
  <2>1. ~AtWrite /\ ~AtData /\ ~AtWrite' /\ ~AtData'
    BY <1>1, <1>4 DEF AtWrite, AtData
  <2>2. QED
    BY <1>1, <1>4, <1>5, <1>7, <2>1 DEF Unwritten
<1>14. /\ SlaveRight' /\ ControlType'
       /\ RegsRight' /\ Settings' /\ UnitsRight' /\ Due' = Due
  BY <1>1, <1>4, <1>13, HostKeeps
<1>15. Timely'
  <2>0. Limits'
    BY Limits, PTL
  <2>1. Limit = 7 /\ Limit' = 7
    BY <1>3, <1>5, <1>9, <1>10, <2>0, Limits
  <2>2. QED
    BY <1>1, <1>5, <1>7, <1>14, <2>1 DEF Timely, Inv
<1>16. QED
  BY <1>11, <1>12, <1>14, <1>15 DEF Inv

(* Read back: the host goes on, or looks for the interrupt. *)
LEMMA HostReadDataStep ==
    ASSUME Inv, turn = "host", turn' = "slave", UNCHANGED hostRest, HostReadData
    PROVE  Inv'
<1>1. /\ host.at = "r" /\ written' = written
      /\ host' = [host EXCEPT !.at = IF Front(axi["r"]) # host.access.data THEN "abort"
                                     ELSE IF host.access.reg = 1 THEN "poll" ELSE "idle"]
      /\ axi' = [axi EXCEPT !["r"] = Popped(@)] /\ CanPop(axi["r"])
  BY DEF HostReadData
<1>2. HostType /\ HostPlace /\ ControlPlace
  BY DEF Inv
<1>3. AtReply /\ Empty /\ axi["r"] = In(written[Reg])
  <2>1. axi["r"] # NoMsgs
    BY <1>1, Rests
  <2>2. ~AtRead /\ ~AtSlave
    BY <2>1, Named DEF AtRead, AtSlave
  <2>3. AtReply
    BY <1>1, <1>2, <2>2 DEF HostPlace, AtWrite, AtData, AtResponse, AtReadBack, AtRest
  <2>4. QED
    BY <1>1, <1>2, <2>3, Moves DEF ControlPlace, AtReply, Carries
<1>4. host.access.data = written[Reg]
  BY <1>1, <1>2 DEF HostType
<1>5. /\ host'.at = IF Reg = 1 THEN "poll" ELSE "idle"
      /\ host'.access = host.access /\ host' = [at |-> host'.at, access |-> host'.access]
  <2>1. Front(axi["r"]) = host.access.data
    BY <1>3, <1>4, Moves
  <2>2. QED
    BY <1>1, <1>2, <2>1 DEF HostType, Reg
<1>6. Reg' = Reg /\ Write' = Write
  BY <1>5 DEF Reg, Write
<1>7. /\ UNCHANGED <<slave, rv_in, rv_out, control, config_regs, start, sys_config, flip_mem, IRQs>>
      /\ UNCHANGED <<unit, cfg, mem_id, interrupt, hold>>
  BY DEF hostRest, commandVars, unitVars
<1>8. axi'["r"] = NoMsgs /\ \A c \in Axi \ {"r"} : axi'[c] = axi[c]
  BY <1>1, <1>2, <1>3, Moves DEF HostType, Axi
<1>9. AtRest'
  <2>1. Only({})'
    BY <1>3, <1>8 DEF AtReply, Only, Axi
  <2>2. QED
    BY <1>3, <1>5, <1>7, <2>1 DEF AtReply, AtRest
<1>10. HostType'
  <2>1. axi' = [c \in Axi |-> axi'[c]]
    BY <1>1, <1>2 DEF HostType
  <2>2. turn' \in Turns
    BY DEF Turns
  <2>3. QED
    BY <1>1, <1>2, <1>5, <1>6, <2>1, <2>2 DEF HostType, Write
<1>11. HostPlace' /\ ControlPlace'
  <2>1. Empty'
    BY <1>3, <1>7 DEF Empty
  <2>2. Apart'
    BY Exclusive, PTL
  <2>3. QED
    BY <1>9, <2>1, <2>2 DEF HostPlace, ControlPlace, Apart
<1>12. SlaveRight' /\ ControlType'
  BY <1>7 DEF SlaveRight, ControlType, Inv
<1>13. ~Unwritten /\ ~Unwritten' /\ ~Commanding /\ ~Commanding'
  <2>1. rv_in = NoMsgs /\ control.access # <<Write>>
    BY <1>3, Sole DEF Empty
  <2>2. ~AtWrite /\ ~AtData /\ ~AtWrite' /\ ~AtData'
    BY <1>1, <1>5 DEF AtWrite, AtData
  <2>3. QED
    BY <1>6, <1>7, <2>1, <2>2, Moves, Differ DEF Unwritten, Commanding
<1>14. RegsRight'
  BY <1>1, <1>6, <1>7, <1>13 DEF RegsRight, Inv
<1>15. Settings'
  <2>1. ~Settling
    BY <1>3, Sole DEF Settling, Empty
  <2>2. sys_config = NoMsgs /\ flip_mem = NoMsgs
    BY <2>1 DEF Inv, Settings, Fresh
  <2>3. cfg = Setting(2) /\ mem_id = Setting(6)
    BY <1>13, <2>2 DEF Inv, Settings, Follows
  <2>4. QED
    BY <1>1, <1>7, <2>2, <2>3, SettingIs DEF Settings, Fresh, Follows
<1>16. UnitsRight' /\ \A u \in Units : Off(u)' = Off(u)
  <2>1. \A u \in Units : Off(u)' = Off(u)
    BY <1>7 DEF Off
  <2>2. \A u \in Units : On(u) => On(u)'
    BY <1>1, <1>5, <1>6, <1>7, <1>13 DEF On, Starting, Working, Raising
  <2>3. QED
    BY <1>7, <2>1, <2>2 DEF UnitsRight, Inv
<1>17. Timely'
  <2>0. Limits'
    BY Limits, PTL
  <2>1. Limit = 1 /\ Limit' = 1
    BY <1>3, <1>9, <2>0, Limits
  <2>2. Due' = Due
    BY <1>13, <1>16 DEF Due
  <2>3. QED
    BY <1>1, <1>6, <1>7, <2>1, <2>2 DEF Timely, Inv
<1>18. QED
  BY <1>10, <1>11, <1>12, <1>14, <1>15, <1>16, <1>17 DEF Inv

(* The level the host sees is that of its own command. *)
LEMMA HostSeesStep ==
    ASSUME Inv, turn = "host", turn' = "slave", UNCHANGED hostRest, HostSeesInterrupt
    PROVE  Inv'
<1>1. /\ host.at = "poll" /\ interrupt /\ host' = [host EXCEPT !.at = "idle"]
      /\ written' = written /\ axi' = axi
  BY DEF HostSeesInterrupt
<1>2. HostType /\ HostPlace /\ ControlPlace
  BY DEF Inv
<1>3. AtRest /\ Empty
  BY <1>1, <1>2 DEF HostPlace, ControlPlace, AtWrite, AtData, AtResponse, AtReadBack, AtRead, AtSlave,
                    AtReply
<1>4. /\ UNCHANGED <<slave, rv_in, rv_out, control, config_regs, start, sys_config, flip_mem, IRQs>>
      /\ UNCHANGED <<unit, cfg, mem_id, interrupt, hold>>
  BY DEF hostRest, commandVars, unitVars
<1>5. host'.at = "idle" /\ host'.access = host.access /\ host' = [at |-> host'.at, access |-> host'.access]
  BY <1>1, <1>2 DEF HostType
<1>6. Reg' = Reg /\ Write' = Write
  BY <1>5 DEF Reg, Write
<1>7. AtRest'
  BY <1>1, <1>3, <1>4, <1>5 DEF AtRest, Only
<1>8. HostType'
  <2>1. turn' \in Turns
    BY DEF Turns
  <2>2. QED
    BY <1>1, <1>2, <1>5, <2>1 DEF HostType
<1>9. HostPlace' /\ ControlPlace'
  <2>1. Empty'
    BY <1>3, <1>4 DEF Empty
  <2>2. Apart'
    BY Exclusive, PTL
  <2>3. QED
    BY <1>7, <2>1, <2>2 DEF HostPlace, ControlPlace, Apart
<1>10. SlaveRight' /\ ControlType'
  BY <1>4 DEF SlaveRight, ControlType, Inv
<1>11. ~Unwritten /\ ~Unwritten' /\ ~Commanding /\ ~Commanding'
  <2>1. rv_in = NoMsgs /\ control.access # <<Write>>
    BY <1>3, Sole DEF Empty
  <2>2. ~AtWrite /\ ~AtData /\ ~AtWrite' /\ ~AtData'
    BY <1>1, <1>5 DEF AtWrite, AtData
  <2>3. QED
    BY <1>5, <1>6, <1>4, <2>1, <2>2, Moves, Differ DEF Unwritten, Commanding
<1>12. RegsRight'
  BY <1>1, <1>4, <1>6, <1>11 DEF RegsRight, Inv
<1>13. Settings'
  <2>1. sys_config = NoMsgs /\ flip_mem = NoMsgs
    BY <1>1 DEF Inv, Settings, Fresh
  <2>2. cfg = Setting(2) /\ mem_id = Setting(6)
    BY <1>11, <2>1 DEF Inv, Settings, Follows
  <2>3. QED
    BY <1>1, <1>4, <2>1, <2>2, SettingIs DEF Settings, Fresh, Follows
<1>14. \A u \in Units : Off(u)
  <2>1. hold >= 2
    BY <1>1 DEF Inv, Timely
  <2>2. Limit = 1
    BY <1>3, Limits
  <2>3. ~(Due /\ Reg = 1)
    BY <1>1, <2>1, <2>2 DEF Inv, Timely
  <2>4. QED
    BY <2>3 DEF Due, Inv, UnitsRight, On
<1>15. UnitsRight'
  <2>1. \A u \in Units : Off(u)'
    BY <1>4, <1>14 DEF Off
  <2>2. QED
    BY <1>4, <2>1 DEF UnitsRight, Inv
<1>16. Timely'
  BY <1>4, <1>5 DEF Timely, Inv
<1>17. QED
  BY <1>8, <1>9, <1>10, <1>12, <1>13, <1>15, <1>16 DEF Inv

(* Every step of the host keeps the invariant. *)
LEMMA HostStep ==
    ASSUME Inv, Host
    PROVE  Inv'
  BY HostWaitStep, HostAddrStep, HostDataStep, HostResponseStep, HostReadAddrStep, HostReadDataStep,
     HostSeesStep DEF Host

-----------------------------------------------------------------------------
(* The slave *)

(* The choice among at most one. *)
LEMMA PickIs ==
    ASSUME NEW next
    PROVE  /\ Arb!Pick({}, next) = {}
           /\ Arb!Pick({0}, next) = {0}
           /\ Arb!Pick({1}, next) = {1}
<1>1. Arb!Top({}) = {} /\ Arb!Top({0}) = {0} /\ Arb!Top({1}) = {1}
  BY DEF Arb!Top
<1>2. /\ {} \cap next = {}
      /\ {0} \cap next = {} \/ {0} \cap next = {0}
      /\ {1} \cap next = {} \/ {1} \cap next = {1}
  OBVIOUS
<1>3. QED
  BY <1>1, <1>2 DEF Arb!Pick

(* What the slave has after it has chosen and taken new requests. *)
LEMMA RequestedIs ==
    ASSUME SlaveRight, slave.reads = << >> \/ slave.writes = << >>
    PROVE  /\ Requested = [reads |-> Requested.reads, writes |-> Requested.writes,
                           select |-> Requested.select, update |-> Requested.update,
                           inFlight |-> Requested.inFlight, next |-> Requested.next]
           /\ Requested.reads = IF TakesRead THEN <<Front(axi["ar"])>> ELSE slave.reads
           /\ Requested.writes = IF TakesWrite THEN <<Front(axi["aw"])>> ELSE slave.writes
           /\ Requested.inFlight = slave.inFlight
           /\ Requested.select = IF slave.reads # << >> THEN {0} ELSE IF slave.writes # << >> THEN {1} ELSE {}
           /\ Requested.update = IF slave.reads # << >> THEN FALSE ELSE IF slave.writes # << >> THEN FALSE ELSE TRUE
<1> DEFINE A == Arbitrated
<1>1. /\ A = [reads |-> slave.reads, writes |-> slave.writes, select |-> A.select,
              update |-> A.update, inFlight |-> slave.inFlight, next |-> A.next]
      /\ A.select = IF slave.reads # << >> THEN {0} ELSE IF slave.writes # << >> THEN {1} ELSE {}
      /\ A.update = IF slave.reads # << >> THEN FALSE ELSE IF slave.writes # << >> THEN FALSE ELSE TRUE
  <2>1. CASE slave.update = FALSE
    <3>1. A = slave
      BY <2>1 DEF Arbitrated
    <3>2. QED
      BY <2>1, <3>1 DEF SlaveRight
  <2>2. CASE slave.update = TRUE
    <3> DEFINE pick == Arb!Pick(Requests, slave.next)
    <3>1. pick = IF slave.reads # << >> THEN {0} ELSE IF slave.writes # << >> THEN {1} ELSE {}
      <4>1. CASE slave.reads # << >>
        <5>1. Requests = {0}
          BY <4>1 DEF Requests
        <5>2. QED
          BY <4>1, <5>1, PickIs
      <4>2. CASE slave.reads = << >> /\ slave.writes # << >>
        <5>1. Requests = {1}
          BY <4>2 DEF Requests
        <5>2. QED
          BY <4>2, <5>1, PickIs
      <4>3. CASE slave.reads = << >> /\ slave.writes = << >>
        <5>1. Requests = {}
          BY <4>3, SMTT(60) DEF Requests
        <5>2. QED
          BY <4>3, <5>1, PickIs
      <4>4. QED
        BY <4>1, <4>2, <4>3
    <3>2. PICK n : A = [slave EXCEPT !.select = pick, !.update = (pick = {}), !.next = n]
      BY <2>2 DEF Arbitrated
    <3> HIDE DEF pick
    <3>3. /\ A.select = pick /\ A.update = (pick = {})
          /\ A = [reads |-> slave.reads, writes |-> slave.writes, select |-> A.select,
                  update |-> A.update, inFlight |-> slave.inFlight, next |-> A.next]
      BY <3>2 DEF SlaveRight
    <3>4. QED
      BY <3>1, <3>3
  <2>3. QED
    BY <2>1, <2>2 DEF SlaveRight
<1>2. Requested = [A EXCEPT !.reads = IF TakesRead THEN <<Front(axi["ar"])>> ELSE @,
                            !.writes = IF TakesWrite THEN <<Front(axi["aw"])>> ELSE @]
  BY DEF Requested
<1> DEFINE r == IF TakesRead THEN <<Front(axi["ar"])>> ELSE slave.reads
           w == IF TakesWrite THEN <<Front(axi["aw"])>> ELSE slave.writes
<1>3. A.reads = slave.reads /\ A.writes = slave.writes
  BY <1>1
<1>4. Requested = [A EXCEPT !.reads = r, !.writes = w]
  BY <1>2, <1>3
<1> DEFINE sel == A.select
           upd == A.update
           nxt == A.next
<1>5. A = [reads |-> slave.reads, writes |-> slave.writes, select |-> sel, update |-> upd,
           inFlight |-> slave.inFlight, next |-> nxt]
  BY <1>1
<1> HIDE DEF A, r, w, sel, upd, nxt
<1>6. Requested = [reads |-> r, writes |-> w, select |-> sel, update |-> upd,
                   inFlight |-> slave.inFlight, next |-> nxt]
  BY <1>4, <1>5
<1>7. QED
  BY <1>1, <1>6 DEF r, w, sel, upd

(* While the access in hand stays the same, and the write is as far as it  *)
(* was.                                                                     *)
LEMMA SlaveKeeps ==
    ASSUME Inv, Slave, Unwritten' = Unwritten
    PROVE  ControlType' /\ RegsRight' /\ Settings' /\ UnitsRight' /\ Due' = Due
<1>1. /\ turn = "slave" /\ turn' = "control"
      /\ UNCHANGED <<host, written, control, config_regs, start, sys_config, flip_mem, IRQs>>
      /\ UNCHANGED <<unit, cfg, mem_id, interrupt, hold>>
  BY DEF Slave, commandVars, unitVars
<1>2. Reg' = Reg /\ Write' = Write
  BY <1>1 DEF Reg, Write
<1>3. ControlType'
  BY <1>1 DEF ControlType, Inv
<1>4. Commanding' = Commanding
  BY <1>1, <1>2 DEF Commanding
<1>5. RegsRight'
  BY <1>1, <1>2 DEF RegsRight, Inv
<1>6. Settings'
  <2>1. Settling' = Settling
    BY <1>1, <1>2 DEF Settling
  <2>2. Fresh(sys_config, 2)' /\ Fresh(flip_mem, 6)'
    BY <1>1, <1>2, <2>1, SettingIs DEF Settings, Fresh, Inv
  <2>3. Follows(cfg, sys_config, 2)' /\ Follows(mem_id, flip_mem, 6)'
    BY <1>1, <1>2, <1>4, SettingIs DEF Settings, Follows, Inv
  <2>4. QED
    BY <2>2, <2>3 DEF Settings
<1>7. UnitsRight' /\ \A u \in Units : Off(u)' = Off(u)
  <2>1. \A u \in Units : Off(u)' = Off(u)
    BY <1>1 DEF Off
  <2>2. \A u \in Units : On(u) => On(u)'
    BY <1>1, <1>2, <1>4 DEF On, Starting, Working, Raising
  <2>3. QED
    BY <1>1, <2>1, <2>2 DEF UnitsRight, Inv
<1>8. Due' = Due
  BY <1>4, <1>7 DEF Due
<1>9. QED
  BY <1>3, <1>5, <1>6, <1>7, <1>8

(* Nothing moves on: the slave has taken a request, or waits. *)
LEMMA SlaveStays ==
    ASSUME Inv, Slave, HostType',
           rv_in' = rv_in, rv_out' = rv_out, SlaveRight',
           AtWrite => AtWrite', AtData => AtData', AtResponse => AtResponse',
           AtReadBack => AtReadBack', AtRead => AtRead', AtSlave => AtSlave', AtReply => AtReply',
           AtRest => AtRest',
           AtData => axi'["w"] = axi["w"], AtResponse => axi'["b"] = axi["b"],
           AtRead => slave.reads = << >> /\ (axi["ar"] = Out(Reg) => axi'["ar"] = axi["ar"])
    PROVE  Inv'
<1>1. /\ turn = "slave" /\ turn' = "control"
      /\ UNCHANGED <<host, written, control, interrupt, hold>>
  BY DEF Slave
<1>2. Reg' = Reg /\ Write' = Write /\ Read' = Read /\ Answer' = Answer
  BY <1>1 DEF Reg, Write, Read, Answer
<1>3. /\ HostPlace'
      /\ AtWrite' = AtWrite /\ AtData' = AtData /\ AtResponse' = AtResponse
      /\ AtReadBack' = AtReadBack /\ AtRead' = AtRead /\ AtSlave' = AtSlave
      /\ AtReply' = AtReply /\ AtRest' = AtRest
  BY PlacesSame DEF Inv
<1>4. ControlPlace'
  BY <1>1, <1>2, <1>3 DEF ControlPlace, Inv, Empty, WriteAhead, ReadAhead
<1>5. Unwritten' = Unwritten
  BY <1>1, <1>2, <1>3 DEF Unwritten
<1>6. ControlType' /\ RegsRight' /\ Settings' /\ UnitsRight' /\ Due' = Due
  BY <1>5, SlaveKeeps
<1>7. Limit \in Nat /\ Limit' \in Nat /\ Limit' >= Limit
  <2>0. Limits'
    BY Limits, PTL
  <2>1. Limit \in Nat /\ Limit' \in Nat
    BY <2>0, Limits
  <2>2. CASE AtWrite
    BY <1>1, <1>3, <2>0, <2>1, <2>2, Limits
  <2>3. CASE AtData
    BY <1>1, <1>2, <1>3, <2>0, <2>1, <2>3, Limits
  <2>4. CASE AtResponse
    BY <1>1, <1>3, <2>0, <2>1, <2>4, Limits
  <2>5. CASE AtReadBack
    BY <1>1, <1>3, <2>0, <2>1, <2>5, Limits
  <2>6. CASE AtRead
    <3>1. Limit \in {6, 7} /\ Limit' \in {6, 7}
      BY <1>1, <1>3, <2>0, <2>6, Limits
    <3>2. Limit = 7 => Limit' = 7
      <4>1. axi["ar"] = Out(Reg) => axi'["ar"] = Out(Reg')
        BY <1>2, <2>6
      <4>2. QED
        BY <1>1, <1>2, <1>3, <2>0, <2>6, <4>1, Limits
    <3>3. QED
      BY <3>1, <3>2
  <2>7. CASE AtSlave
    BY <1>1, <1>2, <1>3, <2>0, <2>1, <2>7, Limits
  <2>8. CASE AtReply \/ AtRest
    BY <1>1, <1>3, <2>0, <2>1, <2>8, Limits
  <2>9. QED
    BY <2>2, <2>3, <2>4, <2>5, <2>6, <2>7, <2>8 DEF Inv, HostPlace
<1>8. Timely'
  BY <1>1, <1>2, <1>6, <1>7 DEF Timely, Inv
<1>9. QED
  BY <1>3, <1>4, <1>6, <1>8 DEF Inv

(* The AXI channels after the requests were taken. *)
LEMMA AfterIs ==
    ASSUME axi = [c \in Axi |-> axi[c]]
    PROVE  /\ AfterRequests = [c \in Axi |-> AfterRequests[c]]
           /\ AfterRequests["ar"] = IF TakesRead THEN Popped(axi["ar"]) ELSE axi["ar"]
           /\ AfterRequests["aw"] = IF TakesWrite THEN Popped(axi["aw"]) ELSE axi["aw"]
           /\ \A c \in {"w", "b", "r"} : AfterRequests[c] = axi[c]
  BY DEF AfterRequests, Axi

(* What a step of the slave leaves alone. *)
LEMMA SlaveShape ==
    ASSUME Inv, Slave
    PROVE  /\ HostType /\ SlaveRight /\ ControlPlace
           /\ axi = [c \in Axi |-> axi[c]]
           /\ turn = "slave" /\ turn' = "control" /\ turn' \in Turns
           /\ UNCHANGED <<host, written, control, interrupt, hold>>
           /\ Reg' = Reg /\ Write' = Write /\ Read' = Read /\ Answer' = Answer
           /\ axi' = [c \in Axi |-> axi'[c]] => HostType'
<1>1. /\ turn = "slave" /\ turn' = "control"
      /\ UNCHANGED <<host, written, control, interrupt, hold>>
  BY DEF Slave
<1>2. Reg' = Reg /\ Write' = Write /\ Read' = Read /\ Answer' = Answer
  BY <1>1 DEF Reg, Write, Read, Answer
<1>3. turn' \in Turns
  BY <1>1 DEF Turns
<1>4. HostType /\ SlaveRight /\ ControlPlace
  BY DEF Inv
<1>5. QED
  BY <1>1, <1>2, <1>3, <1>4 DEF HostType

(* No request in hand: one is taken, or none has come. *)
LEMMA SlaveTakes ==
    ASSUME Inv, Slave, slave.reads = << >>, slave.writes = << >>, ~slave.inFlight
    PROVE  Inv'
<1>1. /\ HostType /\ SlaveRight
      /\ axi = [c \in Axi |-> axi[c]]
      /\ UNCHANGED <<host, written>> /\ Reg' = Reg /\ turn' = "control"
      /\ axi' = [c \in Axi |-> axi'[c]] => HostType'
  BY SlaveShape
<1>2. Requested.select = {} /\ Requested.update = TRUE /\ Requested.inFlight = slave.inFlight
  BY <1>1, RequestedIs
<1>3. slave' = Requested /\ axi' = AfterRequests /\ rv_in' = rv_in /\ rv_out' = rv_out
  <2>1. ~(Requested.select = {0}) /\ ~(Requested.select = {1})
    BY <1>2
  <2>2. SlaveWait
    BY <2>1 DEF Slave, SlaveRead, SlaveReadResponse, SlaveWrite
  <2>3. QED
    BY <2>2 DEF SlaveWait
<1>4. HostType'
  BY <1>1, <1>3, AfterIs
<1>5. /\ slave'.reads = IF CanPop(axi["ar"]) THEN <<Front(axi["ar"])>> ELSE << >>
      /\ slave'.writes = IF CanPop(axi["aw"]) THEN <<Front(axi["aw"])>> ELSE << >>
      /\ slave'.inFlight = slave.inFlight
      /\ axi'["ar"] = IF CanPop(axi["ar"]) THEN Popped(axi["ar"]) ELSE axi["ar"]
      /\ axi'["aw"] = IF CanPop(axi["aw"]) THEN Popped(axi["aw"]) ELSE axi["aw"]
      /\ \A c \in {"w", "b", "r"} : axi'[c] = axi[c]
  BY <1>1, <1>3, RequestedIs, AfterIs DEF TakesRead, TakesWrite
<1>6. SlaveRight'
  <2>1. slave' = [reads |-> slave'.reads, writes |-> slave'.writes, select |-> slave'.select,
                  update |-> slave'.update, inFlight |-> slave'.inFlight, next |-> slave'.next]
    BY <1>1, <1>3, RequestedIs
  <2>2. slave'.update = TRUE /\ slave'.inFlight = FALSE
    BY <1>1, <1>2, <1>3 DEF SlaveRight
  <2>3. QED
    BY <2>1, <2>2 DEF SlaveRight
<1>7. \A S : Only(S) => Only(S)'
  <2>1. axi["ar"] = NoMsgs => axi'["ar"] = NoMsgs
    BY <1>5, Rests
  <2>2. axi["aw"] = NoMsgs => axi'["aw"] = NoMsgs
    BY <1>5, Rests
  <2>3. QED
    BY <1>5, <2>1, <2>2 DEF Only, Axi
<1>8. axi["aw"] = NoMsgs => slave'.writes = << >>
  BY <1>5, Rests
<1>9. axi["ar"] = NoMsgs => slave'.reads = << >>
  BY <1>5, Rests
<1>10. \A m : Carries(axi["aw"], m) => Requesting(axi'["aw"], slave'.writes, m)
  BY <1>5, Moves DEF Carries, Requesting
<1>11. \A m : Carries(axi["ar"], m) => Requesting(axi'["ar"], slave'.reads, m)
  BY <1>5, Moves DEF Carries, Requesting
<1>12. AtWrite => AtWrite'
  <2>1. ASSUME AtWrite PROVE AtWrite'
    <3>1. Only({"aw"})' /\ slave'.reads = << >>
      BY <1>7, <1>9, <2>1, Named DEF AtWrite
    <3>2. Carries(axi["aw"], Reg)
      BY <2>1, Sole DEF AtWrite, Requesting
    <3>3. Requesting(axi'["aw"], slave'.writes, Reg')
      BY <1>1, <1>10, <3>2
    <3>4. QED
      BY <1>1, <1>5, <2>1, <3>1, <3>3 DEF AtWrite
  <2>2. QED
    BY <2>1
<1>13. AtData => AtData'
  <2>1. ASSUME AtData PROVE AtData'
    <3>1. Only({"aw", "w"})' /\ slave'.reads = << >>
      BY <1>7, <1>9, <2>1, Named DEF AtData
    <3>2. Carries(axi["aw"], Reg)
      BY <2>1, Sole DEF AtData, Requesting
    <3>3. Requesting(axi'["aw"], slave'.writes, Reg')
      BY <1>1, <1>10, <3>2
    <3>4. Carries(axi'["w"], written'[Reg'])
      BY <1>1, <1>5, <2>1 DEF AtData
    <3>5. QED
      BY <1>1, <1>5, <2>1, <3>1, <3>3, <3>4 DEF AtData
  <2>2. QED
    BY <2>1
<1>14. AtRead => AtRead'
  <2>1. ASSUME AtRead PROVE AtRead'
    <3>1. Only({"ar"})' /\ slave'.writes = << >>
      BY <1>7, <1>8, <2>1, Named DEF AtRead
    <3>2. Carries(axi["ar"], Reg)
      BY <2>1, Sole DEF AtRead, Requesting
    <3>3. Requesting(axi'["ar"], slave'.reads, Reg')
      BY <1>1, <1>11, <3>2
    <3>4. QED
      BY <1>1, <1>5, <2>1, <3>1, <3>3 DEF AtRead
  <2>2. QED
    BY <2>1
<1>15. /\ AtResponse => AtResponse' /\ axi'["b"] = axi["b"]
       /\ AtReadBack => AtReadBack'
       /\ AtReply => AtReply'
       /\ AtRest => AtRest'
  <2>1. AtResponse \/ AtReadBack \/ AtReply \/ AtRest =>
           /\ slave'.reads = << >> /\ slave'.writes = << >> /\ ~slave'.inFlight
    BY <1>5, <1>8, <1>9, Named DEF AtResponse, AtReadBack, AtReply, AtRest
  <2>2. AtResponse => AtResponse' /\ axi'["b"] = axi["b"]
    BY <1>1, <1>5, <1>7, <2>1 DEF AtResponse
  <2>3. AtReadBack => AtReadBack'
    BY <1>1, <1>7, <2>1 DEF AtReadBack
  <2>4. AtReply => AtReply'
    BY <1>1, <1>5, <1>7, <2>1 DEF AtReply
  <2>5. AtRest => AtRest'
    BY <1>1, <1>7, <2>1 DEF AtRest
  <2>6. QED
    BY <2>2, <2>3, <2>4, <2>5
<1>16. ~AtSlave
  BY DEF AtSlave
<1>17. axi["ar"] = Out(Reg) => axi'["ar"] = axi["ar"]
  BY <1>5, Moves
<1>18. QED
  BY <1>3, <1>4, <1>5, <1>6, <1>12, <1>13, <1>14, <1>15, <1>16, <1>17, SlaveStays

(* A write in hand waits for its data, or goes to Control. *)
LEMMA SlaveWrites ==
    ASSUME Inv, Slave, slave.writes # << >>, AtWrite \/ AtData
    PROVE  Inv'
<1>1. /\ HostType /\ SlaveRight /\ ControlPlace
      /\ axi = [c \in Axi |-> axi[c]]
      /\ turn = "slave" /\ turn' = "control"
      /\ UNCHANGED <<host, written, control, interrupt, hold>>
      /\ Reg' = Reg /\ Write' = Write /\ Read' = Read /\ Answer' = Answer
      /\ axi' = [c \in Axi |-> axi'[c]] => HostType'
  BY SlaveShape
<1>2. /\ slave.writes = <<Reg>> /\ slave.reads = << >> /\ ~slave.inFlight
      /\ axi["aw"] = NoMsgs /\ axi["ar"] = NoMsgs /\ axi["b"] = NoMsgs /\ axi["r"] = NoMsgs
  BY Named DEF AtWrite, AtData, Requesting
<1>3. Empty /\ ~AtResponse /\ ~AtReadBack /\ ~AtRead /\ ~AtSlave /\ ~AtReply /\ ~AtRest
  BY <1>1, Exclusive DEF ControlPlace, Apart
<1>4. ~TakesRead /\ ~TakesWrite
  BY <1>2, Rests DEF TakesRead, TakesWrite
<1>5. /\ Requested.select = {1} /\ Requested.update = FALSE /\ Requested.inFlight = slave.inFlight
      /\ Requested.reads = << >> /\ Requested.writes = <<Reg>>
      /\ Requested = [reads |-> Requested.reads, writes |-> Requested.writes,
                      select |-> Requested.select, update |-> Requested.update,
                      inFlight |-> Requested.inFlight, next |-> Requested.next]
  BY <1>1, <1>2, <1>4, Sole, RequestedIs
<1>6. AfterRequests = axi
  <2>1. \A c \in Axi : AfterRequests[c] = axi[c]
    BY <1>1, <1>4, AfterIs DEF Axi
  <2>2. AfterRequests = [c \in Axi |-> AfterRequests[c]]
    BY <1>1, AfterIs
  <2>3. QED
    BY <1>1, <2>1, <2>2
<1>7. SlaveWrite \/ SlaveWait
  <2>1. ~(Requested.select = {0})
    BY <1>5
  <2>2. QED
    BY <2>1 DEF Slave, SlaveRead, SlaveReadResponse
<1>8. CASE SlaveWait
  <2>1. slave' = Requested /\ axi' = axi /\ rv_in' = rv_in /\ rv_out' = rv_out
    BY <1>6, <1>8 DEF SlaveWait
  <2>2. SlaveRight'
    BY <1>1, <1>2, <1>5, <2>1, Sole DEF SlaveRight
  <2>3. HostType'
    BY <1>1, <2>1
  <2>4. \A S : Only(S) => Only(S)'
    BY <2>1 DEF Only
  <2>5. AtWrite => AtWrite'
    BY <1>1, <1>2, <1>5, <2>1, <2>4 DEF AtWrite, Requesting
  <2>6. AtData => AtData'
    BY <1>1, <1>2, <1>5, <2>1, <2>4 DEF AtData, Requesting
  <2>7. QED
    BY <1>3, <2>1, <2>2, <2>3, <2>5, <2>6, SlaveStays
<1>9. CASE SlaveWrite
  <2>1. /\ CanPop(axi["w"])
        /\ rv_in' = Pushed(rv_in, [rw |-> TRUE, reg |-> Head(Requested.writes), data |-> Front(axi["w"])])
        /\ axi' = [axi EXCEPT !["w"] = Popped(@), !["b"] = Pushed(@, "okay")]
        /\ slave' = [Requested EXCEPT !.writes = << >>, !.update = TRUE]
        /\ rv_out' = rv_out
    BY <1>6, <1>9 DEF SlaveWrite, Forwards
  <2>2. AtData
    <3>1. ~AtWrite
      BY <2>1, Named, Rests DEF AtWrite
    <3>2. QED
      BY <3>1
  <2>3. axi["w"] = In(written[Reg])
    BY <2>1, <2>2, Moves DEF AtData, Carries
  <2>4. rv_in' = Out(Write)
    <3>1. Write = [rw |-> TRUE, reg |-> Reg, data |-> written[Reg]]
      BY <1>1, <2>2 DEF HostType, AtData, Write
    <3>2. Head(Requested.writes) = Reg /\ Front(axi["w"]) = written[Reg]
      BY <1>5, <2>3, Moves, Sole
    <3>3. QED
      BY <1>3, <2>1, <3>1, <3>2, Moves DEF Empty
  <2>5. /\ axi'["w"] = NoMsgs /\ axi'["b"] = Out("okay")
        /\ \A c \in {"aw", "ar", "r"} : axi'[c] = NoMsgs
        /\ axi' = [c \in Axi |-> axi'[c]]
    BY <1>1, <1>2, <2>1, <2>3, Moves DEF Axi
  <2>6. /\ slave'.reads = << >> /\ slave'.writes = << >> /\ slave'.inFlight = slave.inFlight
        /\ slave'.update = TRUE
        /\ slave' = [reads |-> slave'.reads, writes |-> slave'.writes, select |-> slave'.select,
                     update |-> slave'.update, inFlight |-> slave'.inFlight, next |-> slave'.next]
    BY <1>5, <2>1
  <2>7. SlaveRight'
    BY <1>1, <1>2, <2>6 DEF SlaveRight
  <2>8. HostType'
    BY <1>1, <2>5
  <2>9. AtResponse'
    <3>1. Only({"b"})'
      BY <2>5 DEF Only, Axi
    <3>2. QED
      BY <1>1, <1>2, <2>2, <2>5, <2>6, <3>1 DEF AtData, AtResponse, Carries
  <2>10. HostPlace' /\ ControlPlace'
    <3>1. WriteAhead'
      BY <1>1, <1>3, <2>1, <2>4 DEF Empty, WriteAhead, Carries
    <3>2. Apart'
      BY Exclusive, PTL
    <3>3. QED
      BY <2>9, <3>1, <3>2 DEF HostPlace, ControlPlace, Apart
  <2>11. Unwritten' = Unwritten
    <3>1. Unwritten
      BY <2>2 DEF Unwritten
    <3>2. Unwritten'
      BY <1>1, <2>2, <2>4 DEF Unwritten, AtData
    <3>3. QED
      BY <3>1, <3>2 DEF Unwritten, AtWrite, AtData
  <2>12. ControlType' /\ RegsRight' /\ Settings' /\ UnitsRight' /\ Due' = Due
    BY <2>11, SlaveKeeps
  <2>13. Timely'
    <3>0. Limits'
      BY Limits, PTL
    <3>1. Limit = 9 /\ Limit' = 9
      <4>1. axi["w"] # Out(written[Reg])
        BY <2>3, Differ
      <4>2. QED
        BY <1>1, <2>2, <2>5, <2>9, <3>0, <4>1, Limits
    <3>2. QED
      BY <1>1, <2>12, <3>1 DEF Timely, Inv
  <2>14. QED
    BY <2>7, <2>8, <2>10, <2>12, <2>13 DEF Inv
<1>10. QED
  BY <1>7, <1>8, <1>9

(* A read in hand goes to Control, behind the write if that is still there. *)
LEMMA SlaveReads ==
    ASSUME Inv, Slave, AtRead, slave.reads # << >>
    PROVE  Inv'
<1>1. /\ HostType /\ SlaveRight /\ ControlPlace
      /\ axi = [c \in Axi |-> axi[c]]
      /\ turn = "slave" /\ turn' = "control"
      /\ UNCHANGED <<host, written, control, interrupt, hold>>
      /\ Reg' = Reg /\ Write' = Write /\ Read' = Read /\ Answer' = Answer
      /\ axi' = [c \in Axi |-> axi'[c]] => HostType'
  BY SlaveShape
<1>2. /\ slave.reads = <<Reg>> /\ slave.writes = << >> /\ ~slave.inFlight /\ host.at = "r"
      /\ \A c \in Axi : axi[c] = NoMsgs
  <2>1. slave.reads = <<Reg>> /\ axi["ar"] = NoMsgs
    BY DEF AtRead, Requesting
  <2>2. QED
    BY <2>1, Named DEF AtRead, Axi
<1>3. WriteAhead
  BY <1>1 DEF ControlPlace
<1>4. ~TakesRead /\ ~TakesWrite
  BY <1>2, Rests, Sole DEF TakesRead, TakesWrite, Axi
<1>5. /\ Requested.select = {0} /\ Requested.update = FALSE /\ Requested.inFlight = slave.inFlight
      /\ Requested.reads = <<Reg>> /\ Requested.writes = << >>
      /\ Requested = [reads |-> Requested.reads, writes |-> Requested.writes,
                      select |-> Requested.select, update |-> Requested.update,
                      inFlight |-> Requested.inFlight, next |-> Requested.next]
  BY <1>1, <1>2, <1>4, Sole, RequestedIs
<1>6. AfterRequests = axi
  <2>1. \A c \in Axi : AfterRequests[c] = axi[c]
    BY <1>1, <1>4, AfterIs DEF Axi
  <2>2. AfterRequests = [c \in Axi |-> AfterRequests[c]]
    BY <1>1, AfterIs
  <2>3. QED
    BY <1>1, <2>1, <2>2
<1>7. SlaveRead
  <2>1. ~(Requested.select = {1}) /\ ~(Requested.select = {}) /\ ~Requested.inFlight
    BY <1>2, <1>5
  <2>2. QED
    BY <2>1 DEF Slave, SlaveReadResponse, SlaveWrite, SlaveWait
<1>8. /\ CanPush(rv_in) /\ rv_in' = Pushed(rv_in, Read) /\ rv_out' = rv_out
      /\ axi' = axi /\ slave' = [Requested EXCEPT !.inFlight = TRUE]
  <2>1. Head(Requested.reads) = Reg
    BY <1>5, Sole
  <2>2. QED
    BY <1>6, <1>7, <2>1 DEF SlaveRead, Forwards, Read
<1>9. /\ slave'.reads = <<Reg>> /\ slave'.writes = << >> /\ slave'.inFlight = TRUE
      /\ slave'.update = FALSE /\ slave'.select = {0}
      /\ slave' = [reads |-> slave'.reads, writes |-> slave'.writes, select |-> slave'.select,
                   update |-> slave'.update, inFlight |-> slave'.inFlight, next |-> slave'.next]
  BY <1>5, <1>8
<1>10. SlaveRight'
  BY <1>9, Sole DEF SlaveRight
<1>11. HostType'
  BY <1>1, <1>8
<1>12. AtSlave'
  <2>1. Only({})'
    BY <1>2, <1>8 DEF Only
  <2>2. QED
    BY <1>1, <1>2, <1>9, <2>1 DEF AtSlave
<1>13. \/ rv_in = NoMsgs /\ rv_in' = Out(Read)
       \/ rv_in = In(Write) /\ rv_in' = Both(Read, Write)
  BY <1>3, <1>8, Moves, Differ DEF WriteAhead, Carries
<1>14. HostPlace' /\ ControlPlace'
  <2>1. ReadAhead'
    BY <1>1, <1>3, <1>8, <1>13, Moves, Differ DEF WriteAhead, ReadAhead, Carries
  <2>2. Apart'
    BY Exclusive, PTL
  <2>3. QED
    BY <1>12, <2>1, <2>2 DEF HostPlace, ControlPlace, Apart
<1>15. Unwritten' = Unwritten
  <2>1. ~AtWrite /\ ~AtData /\ ~AtWrite' /\ ~AtData'
    BY <1>1, <1>2 DEF AtWrite, AtData
  <2>2. Read # Write
    BY <1>1, <1>2, ReadsDiffer
  <2>3. rv_in' \in {Out(Write), In(Write), Both(Read, Write)}
        <=> rv_in \in {Out(Write), In(Write), Both(Read, Write)}
    BY <1>13, <2>2, Moves, Differ
  <2>4. QED
    BY <1>1, <2>1, <2>3 DEF Unwritten
<1>16. ControlType' /\ RegsRight' /\ Settings' /\ UnitsRight' /\ Due' = Due
  BY <1>15, SlaveKeeps
<1>17. Timely'
  <2>0. Limits'
    BY Limits, PTL
  <2>1. Limit = 5
    <3>1. axi["ar"] # Out(Reg)
      BY <1>2, Moves DEF Axi
    <3>2. QED
      BY <1>1, <3>1, Limits
  <2>2. Limit' = 5
    BY <1>1, <1>12, <1>13, <2>0
  <2>3. QED
    BY <1>1, <1>16, <2>1, <2>2 DEF Timely, Inv
<1>18. QED
  BY <1>10, <1>11, <1>14, <1>16, <1>17 DEF Inv

(* A read under way waits for its answer, or passes it on. *)
LEMMA SlaveAnswers ==
    ASSUME Inv, Slave, AtSlave
    PROVE  Inv'
<1>1. /\ HostType /\ SlaveRight /\ ControlPlace
      /\ axi = [c \in Axi |-> axi[c]]
      /\ turn = "slave" /\ turn' = "control"
      /\ UNCHANGED <<host, written, control, interrupt, hold>>
      /\ Reg' = Reg /\ Write' = Write /\ Read' = Read /\ Answer' = Answer
      /\ axi' = [c \in Axi |-> axi'[c]] => HostType'
  BY SlaveShape
<1>2. /\ slave.reads = <<Reg>> /\ slave.writes = << >> /\ slave.inFlight /\ host.at = "r"
      /\ \A c \in Axi : axi[c] = NoMsgs
  BY DEF AtSlave, Only
<1>3. ReadAhead /\ ~AtWrite /\ ~AtData /\ ~AtResponse /\ ~AtReadBack /\ ~AtRead /\ ~AtReply /\ ~AtRest
  BY <1>1, Exclusive DEF ControlPlace, Apart
<1>4. ~TakesRead /\ ~TakesWrite
  BY <1>2, Rests, Sole DEF TakesRead, TakesWrite, Axi
<1>5. /\ Requested.select = {0} /\ Requested.update = FALSE /\ Requested.inFlight = slave.inFlight
      /\ Requested.reads = <<Reg>> /\ Requested.writes = << >>
      /\ Requested = [reads |-> Requested.reads, writes |-> Requested.writes,
                      select |-> Requested.select, update |-> Requested.update,
                      inFlight |-> Requested.inFlight, next |-> Requested.next]
  BY <1>1, <1>2, <1>4, Sole, RequestedIs
<1>6. AfterRequests = axi
  <2>1. \A c \in Axi : AfterRequests[c] = axi[c]
    BY <1>1, <1>4, AfterIs DEF Axi
  <2>2. AfterRequests = [c \in Axi |-> AfterRequests[c]]
    BY <1>1, AfterIs
  <2>3. QED
    BY <1>1, <2>1, <2>2
<1>7. SlaveReadResponse \/ SlaveWait
  <2>1. ~(Requested.select = {1}) /\ Requested.inFlight
    BY <1>2, <1>5
  <2>2. QED
    BY <2>1 DEF Slave, SlaveRead, SlaveWrite
<1>8. CASE SlaveWait
  <2>1. slave' = Requested /\ axi' = axi /\ rv_in' = rv_in /\ rv_out' = rv_out
    BY <1>6, <1>8 DEF SlaveWait
  <2>2. SlaveRight'
    BY <1>1, <1>2, <1>5, <2>1, Sole DEF SlaveRight
  <2>3. HostType'
    BY <1>1, <2>1
  <2>4. AtSlave'
    BY <1>1, <1>2, <1>5, <2>1 DEF AtSlave, Only
  <2>5. QED
    BY <1>3, <2>1, <2>2, <2>3, <2>4, SlaveStays
<1>9. CASE SlaveReadResponse
  <2>1. /\ CanPop(rv_out) /\ rv_out' = Popped(rv_out) /\ rv_in' = rv_in
        /\ axi' = [axi EXCEPT !["r"] = Pushed(@, Front(rv_out))]
        /\ slave' = [Requested EXCEPT !.reads = << >>, !.update = TRUE, !.inFlight = FALSE]
    BY <1>6, <1>9 DEF SlaveReadResponse
  <2>2. rv_out = In(written[Reg]) /\ rv_in = NoMsgs /\ control.access = << >>
    BY <1>3, <2>1, Rests, Moves DEF ReadAhead, Carries
  <2>3. rv_out' = NoMsgs /\ Front(rv_out) = written[Reg]
    BY <2>1, <2>2, Moves
  <2>4. /\ axi'["r"] = Out(written[Reg])
        /\ \A c \in {"aw", "w", "b", "ar"} : axi'[c] = NoMsgs
        /\ axi' = [c \in Axi |-> axi'[c]]
    BY <1>1, <1>2, <2>1, <2>3, Moves DEF Axi
  <2>5. /\ slave'.reads = << >> /\ slave'.writes = << >> /\ slave'.inFlight = FALSE
        /\ slave'.update = TRUE
        /\ slave' = [reads |-> slave'.reads, writes |-> slave'.writes, select |-> slave'.select,
                     update |-> slave'.update, inFlight |-> slave'.inFlight, next |-> slave'.next]
    BY <1>5, <2>1
  <2>6. SlaveRight'
    BY <2>5 DEF SlaveRight
  <2>7. HostType'
    BY <1>1, <2>4
  <2>8. AtReply'
    <3>1. Only({"r"})'
      BY <2>4 DEF Only, Axi
    <3>2. QED
      BY <1>1, <1>2, <2>4, <2>5, <3>1 DEF AtReply, Carries
  <2>9. HostPlace' /\ ControlPlace'
    <3>1. Empty'
      BY <1>1, <2>1, <2>2, <2>3 DEF Empty
    <3>2. Apart'
      BY Exclusive, PTL
    <3>3. QED
      BY <2>8, <3>1, <3>2 DEF HostPlace, ControlPlace, Apart
  <2>10. Unwritten' = Unwritten
    <3>1. ~AtWrite /\ ~AtData /\ ~AtWrite' /\ ~AtData'
      BY <1>1, <1>2 DEF AtWrite, AtData
    <3>2. QED
      BY <1>1, <2>1, <3>1 DEF Unwritten
  <2>11. ControlType' /\ RegsRight' /\ Settings' /\ UnitsRight' /\ Due' = Due
    BY <2>10, SlaveKeeps
  <2>12. Timely'
    <3>0. Limits'
      BY Limits, PTL
    <3>1. Limit' = 1
      BY <2>8, <3>0
    <3>2. Limit = 1
      <4>1. /\ rv_in \notin {Out(Read), Both(Read, Write)} /\ rv_in # In(Read)
            /\ control.access # <<Answer>> /\ rv_out # Out(written[Reg])
        BY <2>2, Moves, Differ, Sole
      <4>2. QED
        BY <4>1, Limits
    <3>3. QED
      BY <1>1, <2>11, <3>1, <3>2 DEF Timely, Inv
  <2>13. QED
    BY <2>6, <2>7, <2>9, <2>11, <2>12 DEF Inv
<1>10. QED
  BY <1>7, <1>8, <1>9

(* Every step of the slave keeps the invariant. *)
LEMMA SlaveStep ==
    ASSUME Inv, Slave
    PROVE  Inv'
<1>1. HostPlace
  BY DEF Inv
<1>2. CASE AtSlave
  BY <1>2, SlaveAnswers
<1>3. CASE AtWrite \/ AtData
  <2>1. slave.reads = << >> /\ ~slave.inFlight
    BY <1>3 DEF AtWrite, AtData
  <2>2. QED
    BY <1>3, <2>1, SlaveTakes, SlaveWrites
<1>4. CASE AtRead
  <2>1. slave.writes = << >> /\ ~slave.inFlight
    BY <1>4 DEF AtRead
  <2>2. QED
    BY <1>4, <2>1, SlaveTakes, SlaveReads
<1>5. CASE AtResponse \/ AtReadBack \/ AtReply \/ AtRest
  <2>1. slave.reads = << >> /\ slave.writes = << >> /\ ~slave.inFlight
    BY <1>5 DEF AtResponse, AtReadBack, AtReply, AtRest
  <2>2. QED
    BY <2>1, SlaveTakes
<1>6. QED
  BY <1>1, <1>2, <1>3, <1>4, <1>5 DEF HostPlace

-----------------------------------------------------------------------------
(* Control *)

(* What stays, and what Control may have in hand. *)
LEMMA ControlShape ==
    ASSUME Inv, ControlRun
    PROVE  /\ turn = "control" /\ turn' = "unit"
           /\ UNCHANGED <<host, written, axi, slave, IRQs, unit, cfg, mem_id, interrupt, hold>>
           /\ HostType /\ ControlType /\ ControlPlace
           /\ HostType' /\ HostPlace' /\ SlaveRight'
           /\ AtWrite' = AtWrite /\ AtData' = AtData /\ AtResponse' = AtResponse
           /\ AtReadBack' = AtReadBack /\ AtRead' = AtRead /\ AtSlave' = AtSlave
           /\ AtReply' = AtReply /\ AtRest' = AtRest
           /\ Reg' = Reg /\ Write' = Write /\ Read' = Read /\ Answer' = Answer
           /\ sys_config = NoMsgs \/ (Settling /\ Reg = 2)
           /\ flip_mem = NoMsgs \/ (Settling /\ Reg = 6)
<1>1. /\ turn = "control" /\ turn' = "unit"
      /\ UNCHANGED <<host, written, axi, slave, IRQs, unit, cfg, mem_id, interrupt, hold>>
  BY DEF ControlRun, unitVars
<1>2. turn' \in Turns
  BY <1>1 DEF Turns
<1>3. HostType /\ ControlType /\ ControlPlace
  BY DEF Inv
<1>4. /\ sys_config = NoMsgs \/ (Settling /\ Reg = 2)
      /\ flip_mem = NoMsgs \/ (Settling /\ Reg = 6)
  BY <1>1 DEF Inv, Settings, Fresh
<1>5. QED
  BY <1>1, <1>2, <1>3, <1>4, PlacesKept

(* Where an access is decides the limit only behind the slave. *)
LEMMA ControlLimit ==
    ASSUME Inv, ControlRun, ~AtSlave \/ Limit' >= Limit
    PROVE  Limit \in Nat /\ Limit' \in Nat /\ Limit' >= Limit
<1>1. /\ turn = "control" /\ turn' = "unit"
      /\ UNCHANGED <<host, written, axi, slave>>
      /\ AtWrite' = AtWrite /\ AtData' = AtData /\ AtResponse' = AtResponse
      /\ AtReadBack' = AtReadBack /\ AtRead' = AtRead /\ AtSlave' = AtSlave
      /\ AtReply' = AtReply /\ AtRest' = AtRest
      /\ Reg' = Reg /\ Write' = Write /\ Read' = Read /\ Answer' = Answer
  BY ControlShape
<1>2. Limits'
  BY Limits, PTL
<1>3. Limit \in Nat /\ Limit' \in Nat
  BY <1>2, Limits
<1>4. CASE AtWrite
  BY <1>1, <1>2, <1>3, <1>4, Limits
<1>5. CASE AtData
  BY <1>1, <1>2, <1>3, <1>5, Limits
<1>6. CASE AtResponse
  BY <1>1, <1>2, <1>3, <1>6, Limits
<1>7. CASE AtReadBack
  BY <1>1, <1>2, <1>3, <1>7, Limits
<1>8. CASE AtRead
  BY <1>1, <1>2, <1>3, <1>8, Limits
<1>9. CASE AtReply \/ AtRest
  BY <1>1, <1>2, <1>3, <1>9, Limits
<1>10. QED
  BY <1>3, <1>4, <1>5, <1>6, <1>7, <1>8, <1>9 DEF Inv, HostPlace

(* A step with no command and no write leaves registers, settings and units *)
(* as they are: a setting on its way is now in the hands of its unit.       *)
LEMMA ControlKeeps ==
    ASSUME Inv, ControlRun, Unwritten' = Unwritten, ~Commanding, ~Commanding',
           UNCHANGED <<config_regs, start, sys_config, flip_mem>>
    PROVE  RegsRight' /\ Settings' /\ UnitsRight' /\ Due' = Due
<1>1. /\ turn = "control" /\ turn' = "unit"
      /\ UNCHANGED <<host, written, axi, slave, IRQs, unit, cfg, mem_id, interrupt, hold>>
      /\ UNCHANGED <<config_regs, start, sys_config, flip_mem>>
      /\ Reg' = Reg /\ Write' = Write
  BY ControlShape
<1>2. RegsRight'
  BY <1>1 DEF RegsRight, Inv
<1>3. Settings'
  <2>1. Fresh(sys_config, 2)' /\ Fresh(flip_mem, 6)'
    BY <1>1, SettingIs DEF Settings, Fresh, Inv
  <2>2. Follows(cfg, sys_config, 2)' /\ Follows(mem_id, flip_mem, 6)'
    BY <1>1, SettingIs DEF Settings, Follows, Inv
  <2>3. QED
    BY <2>1, <2>2 DEF Settings
<1>4. \A u \in Units : Off(u)' = Off(u)
  BY <1>1 DEF Off
<1>5. UnitsRight'
  <2>1. \A u \in Units : On(u) => On(u)'
    BY <1>1 DEF On, Starting, Working, Raising
  <2>2. QED
    BY <1>1, <1>4, <2>1 DEF UnitsRight, Inv
<1>6. Due' = Due
  BY <1>4 DEF Due
<1>7. QED
  BY <1>2, <1>3, <1>5, <1>6

(* Nothing to do. *)
LEMMA ControlIdleStep ==
    ASSUME Inv, ControlRun, ControlIdle
    PROVE  Inv'
<1>1. /\ turn = "control" /\ turn' = "unit"
      /\ UNCHANGED <<host, written, axi, slave, IRQs, unit, cfg, mem_id, interrupt, hold>>
      /\ HostType /\ ControlType /\ ControlPlace
      /\ HostType' /\ HostPlace' /\ SlaveRight'
      /\ AtWrite' = AtWrite /\ AtData' = AtData /\ AtResponse' = AtResponse
      /\ AtReadBack' = AtReadBack /\ AtRead' = AtRead /\ AtSlave' = AtSlave
      /\ AtReply' = AtReply /\ AtRest' = AtRest
      /\ Reg' = Reg /\ Write' = Write /\ Read' = Read /\ Answer' = Answer
      /\ sys_config = NoMsgs \/ (Settling /\ Reg = 2)
      /\ flip_mem = NoMsgs \/ (Settling /\ Reg = 6)
  BY ControlShape
<1>2. /\ control.at = "poll" /\ control' = [at |-> "reply", access |-> << >>]
      /\ UNCHANGED <<rv_in, rv_out, config_regs, start, sys_config, flip_mem>>
  BY DEF ControlIdle, commandVars
<1>3. control.access = << >>
  BY <1>1, <1>2 DEF ControlType
<1>4. ControlType'
  BY <1>2 DEF ControlType
<1>5. ControlPlace'
  BY <1>1, <1>2, <1>3 DEF ControlPlace, Empty, WriteAhead, ReadAhead
<1>6. Unwritten' = Unwritten /\ ~Commanding /\ ~Commanding'
  BY <1>1, <1>2 DEF Unwritten, Commanding
<1>7. RegsRight' /\ Settings' /\ UnitsRight' /\ Due' = Due
  BY <1>2, <1>6, ControlKeeps
<1>8. Timely'
  <2>0. Limits'
    BY Limits, PTL
  <2>1. ~AtSlave \/ Limit' >= Limit
    <3>1. ASSUME AtSlave PROVE Limit' >= Limit
      <4>1. control.access # <<Answer>> /\ control'.access # <<Answer>>
        BY <1>2, <1>3, Sole
      <4>2. QED
        BY <1>1, <1>2, <2>0, <3>1, <4>1, Limits
    <3>2. QED
      BY <3>1
  <2>2. Limit \in Nat /\ Limit' \in Nat /\ Limit' >= Limit
    BY <2>1, ControlLimit
  <2>3. QED
    BY <1>1, <1>7, <2>2 DEF Timely, Inv
<1>9. QED
  BY <1>1, <1>4, <1>5, <1>7, <1>8 DEF Inv

(* An access with another data word. *)
LEMMA Datum ==
    ASSUME NEW w, NEW r, NEW d, NEW e
    PROVE  [[rw |-> w, reg |-> r, data |-> d] EXCEPT !.data = e] = [rw |-> w, reg |-> r, data |-> e]
  OBVIOUS

(* A write reaches its register. *)
LEMMA ControlStores ==
    ASSUME Inv, ControlRun, ControlAccess, host.at # "idle",
           \/ rv_in = In(Write) /\ (AtResponse \/ AtReadBack \/ AtRead)
           \/ rv_in = Both(Read, Write) /\ AtSlave
    PROVE  Inv'
<1>1. /\ turn = "control" /\ turn' = "unit"
      /\ UNCHANGED <<host, written, axi, slave, IRQs, unit, cfg, mem_id, interrupt, hold>>
      /\ HostType /\ ControlType /\ ControlPlace
      /\ HostType' /\ HostPlace' /\ SlaveRight'
      /\ AtWrite' = AtWrite /\ AtData' = AtData /\ AtResponse' = AtResponse
      /\ AtReadBack' = AtReadBack /\ AtRead' = AtRead /\ AtSlave' = AtSlave
      /\ AtReply' = AtReply /\ AtRest' = AtRest
      /\ Reg' = Reg /\ Write' = Write /\ Read' = Read /\ Answer' = Answer
      /\ sys_config = NoMsgs \/ (Settling /\ Reg = 2)
      /\ flip_mem = NoMsgs \/ (Settling /\ Reg = 6)
  BY ControlShape
<1>2. /\ control.at = "poll" /\ control.access = << >>
      /\ rv_in' = Popped(rv_in)
      /\ UNCHANGED <<rv_out, start, sys_config, flip_mem>>
  BY <1>1 DEF ControlAccess, ControlType, commandVars
<1>3. Front(rv_in) = Write /\ rv_in' = IF AtSlave THEN Out(Read) ELSE NoMsgs
  BY <1>2, Moves, Differ, Exclusive DEF Apart
<1>4. Write = [rw |-> TRUE, reg |-> Reg, data |-> written[Reg]] /\ Reg \in Regs
  BY <1>1 DEF HostType, Write, Regs
<1>5. config_regs = [y \in Regs |-> config_regs[y]]
  BY DEF Inv, RegsRight
<1>6. config_regs' = [config_regs EXCEPT ![Reg] = written[Reg]]
  BY <1>3, <1>4 DEF ControlAccess, Stored
<1>7. config_regs'[Reg] = written[Reg]
  BY <1>4, <1>5, <1>6
<1>8. control' = [at |-> "act", access |-> <<Write>>]
  <2>1. [Write EXCEPT !.data = written[Reg]] = Write
    BY <1>4, Datum
  <2>2. Write.reg = Reg
    BY <1>4
  <2>3. QED
    BY <1>3, <1>7, <2>1, <2>2 DEF ControlAccess
<1>9. ControlType'
  BY <1>8, Sole DEF ControlType
<1>10. ControlPlace'
  <2>1. rv_out = NoMsgs
    BY <1>1, Moves, Differ DEF ControlPlace, WriteAhead, ReadAhead
  <2>2. AtResponse \/ AtReadBack \/ AtRead => WriteAhead'
    BY <1>1, <1>2, <1>3, <1>8, <2>1, Exclusive DEF WriteAhead, Apart
  <2>3. AtSlave => ReadAhead'
    BY <1>1, <1>2, <1>3, <1>8, <2>1 DEF ReadAhead, Carries
  <2>4. ~AtWrite /\ ~AtData /\ ~AtReply /\ ~AtRest
    BY Exclusive DEF Apart
  <2>5. QED
    BY <1>1, <2>2, <2>3, <2>4 DEF ControlPlace
<1>11. Unwritten /\ ~Commanding /\ Commanding'
  BY <1>1, <1>2, <1>8 DEF Unwritten, Commanding
<1>12. RegsRight'
  <2>1. \A y \in Regs : \/ config_regs'[y] = written[y]
                        \/ y = 2 /\ Reg # 2 /\ config_regs'[2] = 0 /\ written[2] = ResetWord
    BY <1>5, <1>6 DEF RegsRight, Inv
  <2>2. config_regs' = [y \in Regs |-> config_regs'[y]]
    BY <1>5, <1>6
  <2>3. QED
    BY <1>1, <2>1, <2>2 DEF RegsRight
<1>13. Settings'
  <2>1. sys_config = NoMsgs /\ flip_mem = NoMsgs
    BY <1>1, <1>2 DEF Settling
  <2>2. QED
    BY <1>1, <1>2, <1>11, <2>1, SettingIs DEF Settings, Fresh, Follows, Inv
<1>14. UnitsRight'
  <2>1. \A u \in Units : Off(u)
    BY <1>11 DEF UnitsRight, On, Inv
  <2>2. \A u \in Units : Off(u)'
    BY <1>1, <1>2, <2>1 DEF Off
  <2>3. QED
    BY <1>1, <1>2, <2>2 DEF UnitsRight, Inv
<1>15. Timely'
  <2>0. Limits'
    BY Limits, PTL
  <2>1. Due
    BY <1>11 DEF Due
  <2>2. ~AtSlave \/ Limit' >= Limit
    <3>1. ASSUME AtSlave PROVE Limit' >= Limit
      <4>1. rv_in = Both(Read, Write) /\ rv_in' = Out(Read)
        BY <1>3, <3>1, Exclusive DEF Apart
      <4>2. QED
        BY <1>1, <2>0, <3>1, <4>1, Limits
    <3>2. QED
      BY <3>1
  <2>3. Limit \in Nat /\ Limit' \in Nat /\ Limit' >= Limit
    BY <2>2, ControlLimit
  <2>4. QED
    BY <1>1, <2>1, <2>3 DEF Timely, Inv
<1>16. QED
  BY <1>1, <1>9, <1>10, <1>12, <1>13, <1>14, <1>15 DEF Inv

(* A read finds what was written. *)
LEMMA ControlLooks ==
    ASSUME Inv, ControlRun, ControlAccess, AtSlave, rv_in = In(Read), rv_out = NoMsgs
    PROVE  Inv'
<1>1. /\ turn = "control" /\ turn' = "unit"
      /\ UNCHANGED <<host, written, axi, slave, IRQs, unit, cfg, mem_id, interrupt, hold>>
      /\ HostType /\ ControlType /\ ControlPlace
      /\ HostType' /\ HostPlace' /\ SlaveRight'
      /\ AtWrite' = AtWrite /\ AtData' = AtData /\ AtResponse' = AtResponse
      /\ AtReadBack' = AtReadBack /\ AtRead' = AtRead /\ AtSlave' = AtSlave
      /\ AtReply' = AtReply /\ AtRest' = AtRest
      /\ Reg' = Reg /\ Write' = Write /\ Read' = Read /\ Answer' = Answer
      /\ sys_config = NoMsgs \/ (Settling /\ Reg = 2)
      /\ flip_mem = NoMsgs \/ (Settling /\ Reg = 6)
  BY ControlShape
<1>2. /\ control.at = "poll" /\ control.access = << >>
      /\ rv_in' = NoMsgs /\ Front(rv_in) = Read
      /\ UNCHANGED <<rv_out, start, sys_config, flip_mem>>
  BY <1>1, Moves DEF ControlAccess, ControlType, commandVars
<1>3. ~AtWrite /\ ~AtData /\ ~AtResponse /\ ~AtReadBack /\ ~AtRead /\ ~AtReply /\ ~AtRest
  BY Exclusive DEF Apart
<1>4. host.at = "r" /\ Reg \in Regs /\ Read # Write /\ Answer # Write
  BY <1>1, ReadsDiffer DEF AtSlave, HostType, Regs
<1>5. ~Unwritten /\ ~Unwritten'
  BY <1>1, <1>2, <1>3, <1>4, Moves, Differ DEF Unwritten
<1>6. config_regs' = config_regs
  BY <1>2 DEF ControlAccess, Stored, Read
<1>7. config_regs[Reg] = written[Reg]
  BY <1>4, <1>5 DEF RegsRight, Inv
<1>8. control' = [at |-> "act", access |-> <<Answer>>]
  <2>1. [Read EXCEPT !.data = written[Reg]] = Answer
    BY Datum DEF Read, Answer
  <2>2. Read.reg = Reg
    BY DEF Read
  <2>3. QED
    BY <1>2, <1>6, <1>7, <2>1, <2>2 DEF ControlAccess
<1>9. ControlType'
  BY <1>8, Sole DEF ControlType
<1>10. ControlPlace'
  BY <1>1, <1>2, <1>3, <1>8 DEF ControlPlace, ReadAhead
<1>11. ~Commanding /\ ~Commanding'
  BY <1>1, <1>2, <1>4, <1>8, Sole DEF Commanding
<1>12. RegsRight' /\ Settings' /\ UnitsRight' /\ Due' = Due
  <2>1. Unwritten' = Unwritten
    BY <1>5 DEF Unwritten
  <2>2. QED
    BY <1>2, <1>6, <1>11, <2>1, ControlKeeps
<1>13. Timely'
  <2>0. Limits'
    BY Limits, PTL
  <2>1. Limit = 4
    <3>1. rv_in \notin {Out(Read), Both(Read, Write)}
      BY Differ
    <3>2. QED
      BY <3>1, Limits
  <2>2. Limit' = 4
    <3>1. rv_in' \notin {Out(Read), Both(Read, Write)} /\ rv_in' # In(Read)
      BY <1>2, Moves, Differ
    <3>2. QED
      BY <1>1, <1>8, <2>0, <3>1
  <2>3. QED
    BY <1>1, <1>12, <2>1, <2>2 DEF Timely, Inv
<1>14. QED
  BY <1>1, <1>9, <1>10, <1>12, <1>13 DEF Inv

(* The access popped is the write, or the read with nothing before it. *)
LEMMA ControlAccessStep ==
    ASSUME Inv, ControlRun, ControlAccess
    PROVE  Inv'
<1>1. ControlPlace /\ HostPlace /\ CanPop(rv_in)
  BY DEF Inv, ControlAccess
<1>2. CASE AtWrite \/ AtData \/ AtReply \/ AtRest
  BY <1>1, <1>2, Rests DEF ControlPlace, Empty
<1>3. CASE AtResponse \/ AtReadBack \/ AtRead
  <2>1. rv_in = In(Write)
    BY <1>1, <1>3, Rests, Moves DEF ControlPlace, WriteAhead, Carries
  <2>2. host.at # "idle"
    BY <1>3 DEF AtResponse, AtReadBack, AtRead
  <2>3. QED
    BY <1>3, <2>1, <2>2, ControlStores
<1>4. CASE AtSlave
  <2>1. rv_out = NoMsgs /\ (rv_in = Both(Read, Write) \/ rv_in = In(Read))
    BY <1>1, <1>4, Rests, Moves DEF ControlPlace, ReadAhead, Carries
  <2>2. host.at # "idle"
    BY <1>4 DEF AtSlave
  <2>3. QED
    BY <1>4, <2>1, <2>2, ControlStores, ControlLooks
<1>5. QED
  BY <1>1, <1>2, <1>3, <1>4 DEF HostPlace

(* The command of a write: what it pushes has the values just written. *)
LEMMA ControlCommands ==
    ASSUME Inv, ControlRun, ControlCommand, control.access = <<Write>>, rv_out = NoMsgs,
           \/ rv_in = NoMsgs /\ (AtResponse \/ AtReadBack \/ AtRead)
           \/ Carries(rv_in, Read) /\ AtSlave
    PROVE  Inv'
<1>1. /\ turn = "control" /\ turn' = "unit"
      /\ UNCHANGED <<host, written, axi, slave, IRQs, unit, cfg, mem_id, interrupt, hold>>
      /\ HostType /\ ControlType /\ ControlPlace
      /\ HostType' /\ HostPlace' /\ SlaveRight'
      /\ AtWrite' = AtWrite /\ AtData' = AtData /\ AtResponse' = AtResponse
      /\ AtReadBack' = AtReadBack /\ AtRead' = AtRead /\ AtSlave' = AtSlave
      /\ AtReply' = AtReply /\ AtRest' = AtRest
      /\ Reg' = Reg /\ Write' = Write /\ Read' = Read /\ Answer' = Answer
      /\ sys_config = NoMsgs \/ (Settling /\ Reg = 2)
      /\ flip_mem = NoMsgs \/ (Settling /\ Reg = 6)
  BY ControlShape
<1>2. /\ control.at = "act" /\ control' = [at |-> "reply", access |-> <<Write>>]
      /\ UNCHANGED <<rv_in, rv_out, config_regs>>
      /\ sys_config = NoMsgs /\ flip_mem = NoMsgs
  <2>1. control = [at |-> control.at, access |-> control.access]
    BY <1>1 DEF ControlType
  <2>2. control' = [at |-> "reply", access |-> control.access]
    BY <2>1 DEF ControlCommand
  <2>3. QED
    BY <1>1, <2>2 DEF ControlCommand, Settling
<1>3. ~AtWrite /\ ~AtData /\ ~AtReply /\ ~AtRest
  BY Exclusive DEF Apart
<1>4. host.at \in {"b", "ar", "r"} /\ host.at # "idle"
  BY DEF AtResponse, AtReadBack, AtRead, AtSlave
<1>5. /\ Write = [rw |-> TRUE, reg |-> Reg, data |-> written[Reg]] /\ Reg \in Regs
      /\ Reg = 1 => written[1] \in Units
      /\ Read # Write
  BY <1>1, <1>4, ReadsDiffer DEF HostType, Write, Regs
<1>6. ~Unwritten /\ ~Unwritten' /\ Commanding /\ ~Commanding' /\ Settling'
  <2>1. rv_in \notin {Out(Write), In(Write), Both(Read, Write)}
    BY <1>5, Moves, Differ DEF Carries
  <2>2. QED
    BY <1>1, <1>2, <1>3, <1>4, <2>1 DEF Unwritten, Commanding, Settling
<1>7. /\ \A y \in Regs \ {2} : config_regs[y] = written[y]
      /\ Reg = 2 => config_regs[2] = written[2]
      /\ \A u \in Units : Job(u, config_regs) = Job(u, written)
  BY <1>6, Registers DEF Inv
<1>8. \A x : Writes(x) = (Reg = x)
  <2>1. Head(control.access) = Write
    BY Sole
  <2>2. QED
    BY <1>5, <2>1 DEF Writes
<1>9. ControlType'
  BY <1>2, Sole DEF ControlType
<1>10. ControlPlace'
  BY <1>1, <1>2, <1>3, Exclusive DEF ControlPlace, WriteAhead, ReadAhead, Apart
<1>11. RegsRight'
  BY <1>1, <1>2, <1>6 DEF RegsRight, Inv
<1>12. Settings'
  <2>1. sys_config' = IF Reg = 2 THEN Out(Setting(2)) ELSE NoMsgs
    BY <1>2, <1>7, <1>8, Moves DEF ControlCommand, Setting
  <2>2. flip_mem' = IF Reg = 6 THEN Out(Setting(6)) ELSE NoMsgs
    <3>1. config_regs[6] = written[6]
      BY <1>7 DEF Regs
    <3>2. Setting(6) = (config_regs[6] > 0)
      BY <3>1 DEF Setting
    <3>3. flip_mem' = IF Reg = 6 THEN Pushed(flip_mem, config_regs[6] > 0) ELSE flip_mem
      BY <1>8 DEF ControlCommand
    <3>4. QED
      BY <1>2, <3>2, <3>3, Moves
  <2>3. Reg # 2 => cfg = Setting(2)
    BY DEF Settings, Follows, Inv
  <2>4. Reg # 6 => mem_id = Setting(6)
    BY DEF Settings, Follows, Inv
  <2>5. Fresh(sys_config, 2)' /\ Fresh(flip_mem, 6)'
    BY <1>1, <1>4, <1>6, <2>1, <2>2, SettingIs DEF Fresh
  <2>6. Follows(cfg, sys_config, 2)' /\ Follows(mem_id, flip_mem, 6)'
    BY <1>1, <2>1, <2>2, <2>3, <2>4, Moves, SettingIs DEF Follows
  <2>7. QED
    BY <2>5, <2>6 DEF Settings
<1>13. \A u \in Units : Off(u)
  BY <1>6 DEF UnitsRight, On, Inv
<1>14. UnitsRight'
  <2>1. start = [u \in Units |-> start[u]]
    BY DEF UnitsRight, Inv
  <2>2. CASE Reg # 1
    <3>1. start' = start
      BY <1>8, <2>2 DEF ControlCommand
    <3>2. \A u \in Units : Off(u)'
      BY <1>1, <1>13, <3>1 DEF Off
    <3>3. QED
      BY <1>1, <3>1, <3>2 DEF UnitsRight, Inv
  <2>3. CASE Reg = 1
    <3> DEFINE v == written[1]
               job == Job(v, written)
    <3>1. v \in Units /\ start' = [start EXCEPT ![v] = Pushed(@, job)]
      <4>1. config_regs[1] = v
        BY <1>7 DEF Regs
      <4>2. QED
        BY <1>5, <1>7, <1>8, <2>3, <4>1 DEF ControlCommand
    <3>2. job' = job /\ v' = v
      BY <1>1 DEF Job, IndexType
    <3> HIDE DEF job
    <3>3. start'[v] = Out(job) /\ \A u \in Units : u # v => start'[u] = NoMsgs
      <4>1. \A u \in Units : start[u] = NoMsgs
        BY <1>13 DEF Off
      <4>2. QED
        BY <2>1, <3>1, <4>1, Moves
    <3>4. \A u \in Units : u # v => Off(u)'
      BY <1>1, <1>13, <3>3 DEF Off
    <3>5. Starting(v)'
      <4>1. unit[v].busy = FALSE /\ IRQs[v] = NoMsgs
        BY <1>13, <3>1 DEF Off
      <4>2. Job(v, written)' = job
        BY <3>2 DEF job
      <4>3. QED
        BY <1>1, <3>2, <3>3, <4>1, <4>2 DEF Starting, Carries
    <3>6. On(v)'
      BY <1>1, <1>4, <1>6, <2>3, <3>5 DEF On
    <3>7. start' = [u \in Units |-> start'[u]]
      BY <2>1, <3>1
    <3>8. QED
      BY <1>1, <3>4, <3>6, <3>7 DEF UnitsRight, Inv
  <2>4. QED
    BY <2>2, <2>3
<1>15. Timely'
  <2>0. Limits'
    BY Limits, PTL
  <2>1. Due
    BY <1>6 DEF Due
  <2>2. ~AtSlave \/ Limit' >= Limit
    <3>1. ASSUME AtSlave PROVE Limit' >= Limit
      <4>1. Carries(rv_in, Read)
        BY <3>1, Exclusive DEF Apart
      <4>2. CASE rv_in = Out(Read)
        BY <1>1, <1>2, <2>0, <3>1, <4>2, Limits
      <4>3. CASE rv_in = In(Read)
        <5>1. rv_in \notin {Out(Read), Both(Read, Write)}
          BY <4>3, Differ
        <5>2. QED
          BY <1>1, <1>2, <2>0, <3>1, <4>3, <5>1, Limits
      <4>4. QED
        BY <4>1, <4>2, <4>3 DEF Carries
    <3>2. QED
      BY <3>1
  <2>3. Limit \in Nat /\ Limit' \in Nat /\ Limit' >= Limit
    BY <2>2, ControlLimit
  <2>4. QED
    BY <1>1, <2>1, <2>3 DEF Timely, Inv
<1>16. QED
  BY <1>1, <1>9, <1>10, <1>11, <1>12, <1>14, <1>15 DEF Inv

(* A read has no command. *)
LEMMA ControlPasses ==
    ASSUME Inv, ControlRun, ControlCommand, AtSlave, control.access = <<Answer>>,
           rv_in = NoMsgs, rv_out = NoMsgs
    PROVE  Inv'
<1>1. /\ turn = "control" /\ turn' = "unit"
      /\ UNCHANGED <<host, written, axi, slave, IRQs, unit, cfg, mem_id, interrupt, hold>>
      /\ HostType /\ ControlType /\ ControlPlace
      /\ HostType' /\ HostPlace' /\ SlaveRight'
      /\ AtWrite' = AtWrite /\ AtData' = AtData /\ AtResponse' = AtResponse
      /\ AtReadBack' = AtReadBack /\ AtRead' = AtRead /\ AtSlave' = AtSlave
      /\ AtReply' = AtReply /\ AtRest' = AtRest
      /\ Reg' = Reg /\ Write' = Write /\ Read' = Read /\ Answer' = Answer
      /\ sys_config = NoMsgs \/ (Settling /\ Reg = 2)
      /\ flip_mem = NoMsgs \/ (Settling /\ Reg = 6)
  BY ControlShape
<1>2. /\ control.at = "act" /\ control' = [at |-> "reply", access |-> <<Answer>>]
      /\ UNCHANGED <<rv_in, rv_out, config_regs>>
  <2>1. control = [at |-> control.at, access |-> control.access]
    BY <1>1 DEF ControlType
  <2>2. control' = [at |-> "reply", access |-> control.access]
    BY <2>1 DEF ControlCommand
  <2>3. QED
    BY <2>2 DEF ControlCommand
<1>3. ~AtWrite /\ ~AtData /\ ~AtResponse /\ ~AtReadBack /\ ~AtRead /\ ~AtReply /\ ~AtRest
  BY Exclusive DEF Apart
<1>4. Answer # Write
  BY <1>1, ReadsDiffer DEF AtSlave
<1>5. UNCHANGED <<start, sys_config, flip_mem>>
  <2>1. Head(control.access).rw = FALSE
    BY Sole DEF Answer
  <2>2. \A x : ~Writes(x)
    BY <2>1 DEF Writes
  <2>3. QED
    BY <2>2 DEF ControlCommand
<1>6. ControlType'
  BY <1>2, Sole DEF ControlType
<1>7. ControlPlace'
  BY <1>1, <1>2, <1>3 DEF ControlPlace, ReadAhead
<1>8. ~Commanding /\ ~Commanding' /\ Unwritten' = Unwritten
  BY <1>1, <1>2, <1>4, Sole DEF Commanding, Unwritten
<1>9. RegsRight' /\ Settings' /\ UnitsRight' /\ Due' = Due
  BY <1>2, <1>5, <1>8, ControlKeeps
<1>10. Timely'
  <2>0. Limits'
    BY Limits, PTL
  <2>1. rv_in \notin {Out(Read), Both(Read, Write)} /\ rv_in # In(Read)
    BY Moves, Differ
  <2>2. Limit = 3
    BY <1>1, <1>2, <2>1, Limits
  <2>3. Limit' = 3
    BY <1>1, <1>2, <2>0, <2>1
  <2>4. QED
    BY <1>1, <1>9, <2>2, <2>3 DEF Timely, Inv
<1>11. QED
  BY <1>1, <1>6, <1>7, <1>9, <1>10 DEF Inv

(* The access in hand is the write, or the read with its answer. *)
LEMMA ControlCommandStep ==
    ASSUME Inv, ControlRun, ControlCommand
    PROVE  Inv'
<1>1. ControlPlace /\ HostPlace /\ control.access # << >>
  BY DEF Inv, ControlCommand, ControlType
<1>2. CASE AtWrite \/ AtData \/ AtReply \/ AtRest
  BY <1>1, <1>2 DEF ControlPlace, Empty
<1>3. CASE AtResponse \/ AtReadBack \/ AtRead
  <2>1. rv_out = NoMsgs /\ rv_in = NoMsgs /\ control.access = <<Write>>
    BY <1>1, <1>3 DEF ControlPlace, WriteAhead
  <2>2. QED
    BY <1>3, <2>1, ControlCommands
<1>4. CASE AtSlave
  <2>1. \/ rv_out = NoMsgs /\ Carries(rv_in, Read) /\ control.access = <<Write>>
        \/ rv_out = NoMsgs /\ rv_in = NoMsgs /\ control.access = <<Answer>>
    BY <1>1, <1>4 DEF ControlPlace, ReadAhead
  <2>2. QED
    BY <1>4, <2>1, ControlCommands, ControlPasses
<1>5. QED
  BY <1>1, <1>2, <1>3, <1>4 DEF HostPlace

(* The answer leaves, or the iteration ends. *)
LEMMA ControlReplyStep ==
    ASSUME Inv, ControlRun, ControlReply
    PROVE  Inv'
<1>1. /\ turn = "control" /\ turn' = "unit"
      /\ UNCHANGED <<host, written, axi, slave, IRQs, unit, cfg, mem_id, interrupt, hold>>
      /\ HostType /\ ControlType /\ ControlPlace
      /\ HostType' /\ HostPlace' /\ SlaveRight'
      /\ AtWrite' = AtWrite /\ AtData' = AtData /\ AtResponse' = AtResponse
      /\ AtReadBack' = AtReadBack /\ AtRead' = AtRead /\ AtSlave' = AtSlave
      /\ AtReply' = AtReply /\ AtRest' = AtRest
      /\ Reg' = Reg /\ Write' = Write /\ Read' = Read /\ Answer' = Answer
      /\ sys_config = NoMsgs \/ (Settling /\ Reg = 2)
      /\ flip_mem = NoMsgs \/ (Settling /\ Reg = 6)
  BY ControlShape
<1>2. /\ control.at = "reply" /\ control' = [at |-> "poll", access |-> << >>]
      /\ UNCHANGED <<rv_in, config_regs, start, sys_config, flip_mem>>
  BY DEF ControlReply, commandVars
<1>3. ControlType'
  BY <1>2 DEF ControlType
<1>4. ~Commanding /\ ~Commanding' /\ Unwritten' = Unwritten
  BY <1>1, <1>2 DEF Commanding, Unwritten
<1>5. RegsRight' /\ Settings' /\ UnitsRight' /\ Due' = Due
  BY <1>2, <1>4, ControlKeeps
<1>6. \/ AtSlave /\ control.access = <<Answer>>
      \/ control.access = << >>
      \/ control.access = <<Write>> /\ host.at # "idle"
  <2>1. AtResponse \/ AtReadBack \/ AtRead \/ AtSlave => host.at # "idle"
    BY DEF AtResponse, AtReadBack, AtRead, AtSlave
  <2>2. QED
    BY <1>1, <2>1 DEF ControlPlace, Empty, WriteAhead, ReadAhead, HostPlace, Inv
<1>7. CASE AtSlave /\ control.access = <<Answer>>
  <2>1. ~AtWrite /\ ~AtData /\ ~AtResponse /\ ~AtReadBack /\ ~AtRead /\ ~AtReply /\ ~AtRest
    BY <1>7, Exclusive DEF Apart
  <2>2. Answer # Write
    BY <1>1, <1>7, ReadsDiffer DEF AtSlave
  <2>3. rv_in = NoMsgs /\ rv_out = NoMsgs
    BY <1>1, <1>7, <2>2, Sole DEF ControlPlace, ReadAhead
  <2>4. rv_out' = Out(written[Reg])
    <3>1. Head(control.access) = Answer /\ control.access # << >>
      BY <1>7, Sole
    <3>2. rv_out' = Pushed(rv_out, Answer.data)
      BY <3>1 DEF ControlReply, Answer
    <3>3. QED
      BY <2>3, <3>2, Moves DEF Answer
  <2>5. ControlPlace'
    BY <1>1, <1>2, <2>1, <2>3, <2>4 DEF ControlPlace, ReadAhead, Carries
  <2>6. Timely'
    <3>0. Limits'
      BY Limits, PTL
    <3>1. rv_in \notin {Out(Read), Both(Read, Write)} /\ rv_in # In(Read)
      BY <2>3, Moves, Differ
    <3>2. control'.access # <<Answer>>
      BY <1>2, Sole
    <3>3. Limit = 2
      BY <1>1, <1>2, <1>7, <3>1, Limits
    <3>4. Limit' = 2
      BY <1>1, <1>2, <1>7, <2>4, <3>0, <3>1, <3>2
    <3>5. QED
      BY <1>1, <1>5, <3>3, <3>4 DEF Timely, Inv
  <2>7. QED
    BY <1>1, <1>3, <1>5, <2>5, <2>6 DEF Inv
<1>8. CASE control.access = << >> \/ (control.access = <<Write>> /\ host.at # "idle")
  <2>1. control.access = << >> \/ Head(control.access).rw
    <3>1. host.at # "idle" => Write.rw
      BY <1>1 DEF HostType, Write
    <3>2. QED
      BY <1>8, <3>1, Sole
  <2>2. rv_out' = rv_out
    BY <2>1 DEF ControlReply
  <2>3. control.access # <<Answer>> /\ control'.access # <<Answer>>
    <3>1. host.at # "idle" => Answer # Write
      BY <1>1, ReadsDiffer
    <3>2. QED
      BY <1>2, <1>8, <3>1, Sole
  <2>4. ControlPlace'
    BY <1>1, <1>2, <2>2, <2>3 DEF ControlPlace, Empty, WriteAhead, ReadAhead, Carries
  <2>5. Timely'
    <3>0. Limits'
      BY Limits, PTL
    <3>1. ~AtSlave \/ Limit' >= Limit
      <4>1. ASSUME AtSlave PROVE Limit' >= Limit
        BY <1>1, <1>2, <2>2, <2>3, <3>0, <4>1, Limits
      <4>2. QED
        BY <4>1
    <3>2. Limit \in Nat /\ Limit' \in Nat /\ Limit' >= Limit
      BY <3>1, ControlLimit
    <3>3. QED
      BY <1>1, <1>5, <3>2 DEF Timely, Inv
  <2>6. QED
    BY <1>1, <1>3, <1>5, <2>4, <2>5 DEF Inv
<1>9. QED
  BY <1>6, <1>7, <1>8

(* Every step of Control keeps the invariant. *)
LEMMA ControlStep ==
    ASSUME Inv, ControlRun
    PROVE  Inv'
BY ControlIdleStep, ControlAccessStep, ControlCommandStep, ControlReplyStep DEF ControlRun

-----------------------------------------------------------------------------
(* The invariant holds. *)

(* It holds at first. *)
LEMMA InitInv == Init => Inv
<1> SUFFICES ASSUME Init PROVE Inv
  OBVIOUS
<1>1. /\ turn = "edge" /\ host = [at |-> "idle", access |-> NoAccess]
      /\ written = [x \in Regs |-> IF x = 2 THEN ResetWord ELSE 0] /\ config_regs = [x \in Regs |-> 0]
      /\ axi = [c \in Axi |-> NoMsgs]
      /\ slave = [reads |-> << >>, writes |-> << >>, select |-> {}, update |-> TRUE,
                  inFlight |-> FALSE, next |-> {0, 1}]
      /\ rv_in = NoMsgs /\ rv_out = NoMsgs
      /\ control = [at |-> "poll", access |-> << >>]
      /\ start = [u \in Units |-> NoMsgs] /\ IRQs = [u \in Units |-> NoMsgs]
      /\ sys_config = NoMsgs /\ flip_mem = NoMsgs
      /\ unit = [u \in Units |-> [busy |-> FALSE, job |-> NoJob]]
      /\ cfg = SysConfig(ResetWord) /\ mem_id = FALSE /\ interrupt = FALSE /\ hold = 0
  BY DEF Init, Axi
<1>2. HostType
  <2>1. 0 < Entries /\ 2 \in Regs
    BY EntriesAssumption DEF Regs
  <2>2. written[2] = ResetWord /\ written \in [Regs -> Nat]
    BY <1>1, <2>1 DEF ResetWord
  <2>3. IsWord(ResetWord)
    BY <2>1 DEF IsWord, ResetWord, Slice
  <2>4. QED
    BY <1>1, <2>2, <2>3 DEF HostType, Turns
<1>3. AtRest
  <2>1. Only({})
    BY <1>1 DEF Only
  <2>2. QED
    BY <1>1, <2>1 DEF AtRest
<1>4. ~AtWrite /\ ~AtData /\ ~AtResponse /\ ~AtReadBack /\ ~AtRead /\ ~AtSlave
  BY <1>3, Exclusive DEF Apart
<1>5. HostPlace
  BY <1>3 DEF HostPlace
<1>6. SlaveRight
  BY <1>1 DEF SlaveRight
<1>7. ControlType /\ ControlPlace
  <2>1. Empty
    BY <1>1 DEF Empty
  <2>2. QED
    BY <1>1, <1>4, <2>1 DEF ControlType, ControlPlace
<1>8. RegsRight
  BY <1>1 DEF RegsRight, Reg, NoAccess
<1>9. Settings
  <2>1. cfg = Setting(2) /\ mem_id = Setting(6)
    <3>1. written[2] = ResetWord /\ written[6] = 0
      BY <1>1 DEF Regs
    <3>2. (written[6] > 0) = FALSE
      BY <3>1
    <3>3. Setting(2) = SysConfig(written[2]) /\ Setting(6) = (written[6] > 0)
      BY DEF Setting
    <3>4. cfg = SysConfig(ResetWord) /\ mem_id = FALSE
      BY <1>1
    <3>5. cfg = Setting(2)
      BY <3>1, <3>3, <3>4
    <3>6. mem_id = Setting(6)
      BY <3>2, <3>3, <3>4, Zenon
    <3>7. QED
      BY <3>5, <3>6
  <2>2. QED
    BY <1>1, <2>1 DEF Settings, Fresh, Follows
<1>10. UnitsRight /\ \A u \in Units : Off(u)
  <2>1. \A u \in Units : Off(u)
    BY <1>1 DEF Off
  <2>2. QED
    BY <1>1, <2>1 DEF UnitsRight
<1>11. Timely
  <2>1. hold \in 0 .. 11 /\ ~(hold >= 2)
    BY <1>1
  <2>2. QED
    BY <1>1, <2>1 DEF Timely
<1>12. QED
  BY <1>2, <1>5, <1>6, <1>7, <1>8, <1>9, <1>10, <1>11 DEF Inv

(* Every step keeps it. *)
LEMMA NextInv == Inv /\ [Next]_vars => Inv'
<1> SUFFICES ASSUME Inv, [Next]_vars PROVE Inv'
  OBVIOUS
<1>1. CASE Edge
  BY <1>1, EdgeStep
<1>2. CASE Host
  BY <1>2, HostStep
<1>3. CASE Slave
  BY <1>3, SlaveStep
<1>4. CASE ControlRun
  BY <1>4, ControlStep
<1>5. CASE UnitsRun({})
  BY <1>5, UnitsStep
<1>6. CASE Finish
  BY <1>6, UnitsStep DEF Finish
<1>7. CASE InterruptRun
  BY <1>7, InterruptStep
<1>8. CASE UNCHANGED vars
  <2>1. UNCHANGED <<turn, host, written, axi, slave, rv_in, rv_out, control, config_regs, start,
                    sys_config, flip_mem, IRQs, unit, cfg, mem_id, interrupt, hold>>
    BY <1>8 DEF vars
  <2>2. /\ HostType' /\ HostPlace' /\ SlaveRight' /\ ControlType' /\ ControlPlace' /\ RegsRight'
        /\ AtWrite' = AtWrite /\ AtData' = AtData /\ AtResponse' = AtResponse
        /\ AtReadBack' = AtReadBack /\ AtRead' = AtRead /\ AtSlave' = AtSlave
        /\ AtReply' = AtReply /\ AtRest' = AtRest
        /\ Unwritten' = Unwritten /\ Commanding' = Commanding
        /\ Reg' = Reg /\ Write' = Write /\ Read' = Read /\ Answer' = Answer
    <3>1. turn' \in Turns
      BY <2>1 DEF Inv, HostType
    <3>2. QED
      BY <2>1, <3>1, AccessKept
  <2>3. Settings'
    BY <2>1, <2>2, SettingIs DEF Settings, Settling, Fresh, Follows, Inv
  <2>4. \A u \in Units : Off(u)' = Off(u) /\ On(u)' = On(u)
    BY <2>1, <2>2 DEF Off, On, Starting, Working, Raising, Carries, Job, IndexType
  <2>5. UnitsRight' /\ Due' = Due
    BY <2>1, <2>2, <2>4 DEF UnitsRight, Due, Inv
  <2>6. Limit' = Limit
    BY <2>1, <2>2 DEF Limit
  <2>7. Timely'
    BY <2>1, <2>2, <2>5, <2>6 DEF Timely, Inv
  <2>8. QED
    BY <2>2, <2>3, <2>5, <2>7 DEF Inv
<1>9. QED
  BY <1>1, <1>2, <1>3, <1>4, <1>5, <1>6, <1>7, <1>8 DEF Next

(* The access in hand has one place, what is under way for it matches that   *)
(* place, and an old interrupt level does not outlast the way of a start.    *)
THEOREM AccessesInStep == Spec => []Inv
BY InitInv, NextInv, PTL DEF Spec

(* When the host goes on, no unit is busy and no start or interrupt is under *)
(* way (Master::Run waits for the level of its own command): the level of    *)
(* the command before has fallen by the time the host looks, whatever the    *)
(* registers, units and values.                                              *)
THEOREM InterruptsOwn == Spec => []OwnInterrupt
<1>1. Inv => OwnInterrupt
  <2> SUFFICES ASSUME Inv, host.at = "idle", NEW u \in Units
               PROVE  ~unit[u].busy /\ start[u] = NoMsgs /\ IRQs[u] = NoMsgs
    BY DEF OwnInterrupt
  <2>1. Off(u)
    BY DEF Inv, UnitsRight, On
  <2>2. QED
    BY <2>1 DEF Off
<1>2. QED
  BY <1>1, AccessesInStep, PTL

(* The register the host reads back holds what it wrote, although the slave  *)
(* answers a write before ControlRun has stored it.                          *)
THEOREM ReadsBack == Spec => []ReadBack
<1>1. Inv => ReadBack
  BY DEF Inv, HostType, ReadBack
<1>2. QED
  BY <1>1, AccessesInStep, PTL

(* A unit works with the registers the host wrote last, the array's          *)
(* configuration and the side of the memory included, which reach their      *)
(* readers through channels of their own: they have arrived before the host, *)
(* reading each register back, can write the start register.                 *)
THEOREM StartsAsConfigured == Spec => []StartedAsConfigured
<1>1. Inv => StartedAsConfigured
  <2> SUFFICES ASSUME Inv, NEW u \in Units, unit[u].busy
               PROVE  /\ u # 1 => Layout(unit[u].job.len, cfg) = written[2]
                      /\ u # 4 => unit[u].job.base = written[u + 2]
                      /\ mem_id = (written[6] > 0)
    BY DEF StartedAsConfigured
  <2>1. Working(u) /\ On(u)
    BY DEF Inv, UnitsRight, On, Off, Starting, Raising
  <2>2. cfg = Setting(2) /\ mem_id = Setting(6)
    <3>1. Reg = 1 /\ ~Unwritten /\ ~Commanding
      BY <2>1 DEF On
    <3>2. sys_config = NoMsgs /\ flip_mem = NoMsgs
      BY <3>1 DEF Inv, Settings, Fresh
    <3>3. QED
      BY <3>1, <3>2 DEF Inv, Settings, Follows
  <2>3. IsWord(written[2])
    BY DEF Inv, HostType
  <2>4. unit[u].job = Job(u, written)
    BY <2>1 DEF Working
  <2>5. u # 1 => Job(u, written).len = Slice(written[2], 1, 256)
    BY <2>3, FitsIndex DEF Job, Units
  <2>6. Layout(Slice(written[2], 1, 256), SysConfig(written[2])) = written[2]
    BY <2>3, FieldsAddUp
  <2>7. u # 4 => Job(u, written).base = written[u + 2]
    BY DEF Job
  <2>8. QED
    BY <2>2, <2>4, <2>5, <2>6, <2>7 DEF Setting
<1>2. QED
  BY <1>1, AccessesInStep, PTL
=============================================================================
