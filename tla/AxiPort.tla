------------------------------ MODULE AxiPort ------------------------------
(***************************************************************************)
(* The data port of the accelerator: several AXI masters behind AxiArbiter *)
(* and one AXI slave outside.  Five threads: run_ar and run_aw choose the  *)
(* next request in turn, run_w passes on the data of the chosen write,     *)
(* run_r and run_b send the answers back to whoever asked, which they know *)
(* only from the order of the requests.                                    *)
(*                                                                         *)
(* A master has one burst in hand at a time, as WeightAxi and the threads  *)
(* of InputAxi do, and goes on for ever: bursts are numbered modulo two,   *)
(* which tells an answer from the one before.  The read and the write side *)
(* share no thread, channel or register, so a behaviour follows one of     *)
(* them (traffic), and their product is not explored.                      *)
(***************************************************************************)
EXTENDS Integers, Sequences, Connections, Arbiter

CONSTANTS
    Writers,    \* the masters that write (in SysTop only InputAxi does)
    MaxLen      \* bound: beats of a burst

Masters == 0 .. Size-1

ASSUME WritersAssumption == Writers \subseteq Masters
ASSUME MaxLenAssumption == MaxLen \in Nat \ {0}

VARIABLES
    traffic,
    (* masters: the burst in hand and how far it is *)
    rd, wr,
    (* channels between the masters and the arbiter *)
    ar_m, r_m, aw_m, w_m, b_m,
    (* channels between the arbiter and the slave *)
    ar_s, r_s, aw_s, w_s, b_s,
    (* channels between the threads of the arbiter *)
    read_in_flight, write_in_flight, active_write_master, w_last,
    (* run_ar, run_r *)
    ar, r,
    (* run_aw, run_w, run_b *)
    aw, w, b,
    (* the slave outside: beats to return; addresses, data, responses to give *)
    rd_resp, wr_addr, wr_data, wr_resp

masterVars == <<rd, wr>>
readVars == <<ar_m, r_m, ar_s, r_s, read_in_flight, ar, r, rd_resp>>
writeVars == <<aw_m, w_m, b_m, aw_s, w_s, b_s, write_in_flight, active_write_master,
               w_last, aw, w, b, wr_addr, wr_data, wr_resp>>
vars == <<traffic, masterVars, readVars, writeVars>>

Burst == [master : Masters, seq : 0 .. 1, len : 1 .. MaxLen]
Beat(burst, k) == [burst |-> burst, k |-> k, last |-> k = burst.len]
Beats(burst) == [k \in 1 .. burst.len |-> Beat(burst, k)]

(* A requesting thread: what it does next, the requests it has taken and    *)
(* not yet passed on (valid_mask with AR_reg or AW_reg), the arbiter's      *)
(* state, the master chosen, and how often others went before a request.    *)
Requester == [at |-> "poll", valid |-> {}, reg |-> [i \in Masters |-> {}],
              next |-> Masters, chosen |-> 0, passed |-> [i \in Masters |-> 0]]
(* An answering thread: its queue, whether a burst is in progress and       *)
(* whose, and the answer in hand.                                           *)
Responder == [queue |-> << >>, busy |-> FALSE, owner |-> 0, hand |-> << >>]

NoBurst(i) == [at |-> "idle", k |-> 0, burst |-> [master |-> i, seq |-> 0, len |-> 1]]

Init ==
    /\ traffic \in {"read", "write"}
    /\ rd = [i \in Masters |-> NoBurst(i)]
    /\ wr = [i \in Writers |-> NoBurst(i)]
    /\ ar_m = [i \in Masters |-> << >>] /\ r_m = ar_m
    /\ aw_m = ar_m /\ w_m = ar_m /\ b_m = ar_m
    /\ ar_s = << >> /\ r_s = << >> /\ aw_s = << >> /\ w_s = << >> /\ b_s = << >>
    /\ read_in_flight = << >> /\ write_in_flight = << >>
    /\ active_write_master = << >> /\ w_last = << >>
    /\ ar = Requester /\ aw = Requester
    /\ r = Responder /\ b = Responder
    /\ w = [at |-> "idle", master |-> 0, reg |-> << >>]
    /\ rd_resp = << >> /\ wr_addr = << >> /\ wr_data = << >> /\ wr_resp = << >>

-----------------------------------------------------------------------------
(* Faulty variant: a burst is over after its first beat. *)
OverEarly(beat) == TRUE

(* How run_r, and how run_w and run_aw, tell the end of a burst. *)
ReadOver(beat) == beat.last
WriteOver(beat) == beat.last

(* run_ar and run_aw: one iteration up to the first Push.  Every master     *)
(* whose last request has been passed on is polled, then pick chooses among *)
(* the requests held.                                                       *)

Chosen(t, c) ==
    [t EXCEPT !.at = "addr", !.chosen = c, !.next = NextMask(c),
              !.passed = [i \in Masters |->
                            IF i = c THEN 0 ELSE IF i \in t.valid THEN @[i] + 1 ELSE @[i]]]

(* The thread after taking the requests of the masters in S. *)
Took(t, S, req) ==
    [t EXCEPT !.valid = @ \cup S, !.reg = [i \in Masters |-> IF i \in S THEN Head(req[i]) ELSE @[i]]]

RequestPoll(t, tt, req, reqq) ==
    /\ t.at = "poll"
    /\ \E S \in SUBSET (Masters \ t.valid) :
         /\ \A i \in Masters \ t.valid : (i \in S) \in PopNB(req[i])
         /\ reqq = [i \in Masters |-> After(i \in S, req[i])]
         /\ \E c \in Pick(t.valid \cup S, t.next) : tt = Chosen(Took(t, S, req), c)

Passed(t) == [t EXCEPT !.at = "poll", !.valid = @ \ {t.chosen}]

ArPoll ==
    /\ RequestPoll(ar, ar', ar_m, ar_m')
    /\ UNCHANGED <<traffic, masterVars, r_m, ar_s, r_s, read_in_flight, r, rd_resp, writeVars>>

ArPush ==
    /\ ar.at = "addr"
    /\ HasRoom(ar_s)
    /\ ar_s' = Append(ar_s, ar.reg[ar.chosen])
    /\ ar' = [Passed(ar) EXCEPT !.at = "flight"]
    /\ UNCHANGED <<traffic, masterVars, ar_m, r_m, r_s, read_in_flight, r, rd_resp, writeVars>>

ArInFlight ==
    /\ ar.at = "flight"
    /\ HasRoom(read_in_flight)
    /\ read_in_flight' = Append(read_in_flight, ar.chosen)
    /\ ar' = [ar EXCEPT !.at = "poll"]
    /\ UNCHANGED <<traffic, masterVars, ar_m, r_m, ar_s, r_s, r, rd_resp, writeVars>>

run_ar == ArPoll \/ ArPush \/ ArInFlight

-----------------------------------------------------------------------------
(* run_r and run_b: one iteration up to the Push.  A master's number moves  *)
(* from the channel into the queue if that has room, then either the next   *)
(* burst is begun or an answer for the one in progress is taken.            *)

QueueLen == 1   \* maxOutstandingRequests in AxiSpec.h

(* Faulty variants: the owner is not looked up; the number stays in the queue. *)
BegunStale(t) == [t EXCEPT !.queue = Tail(@), !.busy = TRUE]
BegunTwice(t) == [t EXCEPT !.busy = TRUE, !.owner = Head(t.queue)]

Begun(t) == [t EXCEPT !.queue = Tail(@), !.busy = TRUE, !.owner = Head(t.queue)]

ResponsePoll(t, tt, flight, flightt, answer, answerr) ==
    /\ t.hand = << >>
    /\ \E q \in IF Len(t.queue) < QueueLen THEN PopNB(flight) ELSE {FALSE},
          a \in IF t.busy THEN PopNB(answer) ELSE {FALSE} :
         LET queued == [t EXCEPT !.queue = IF q THEN Append(@, Head(flight)) ELSE @]
         IN /\ flightt = After(q, flight)
            /\ answerr = After(a, answer)
            /\ tt = IF t.busy THEN [queued EXCEPT !.hand = IF a THEN <<Head(answer)>> ELSE @]
                    ELSE IF queued.queue # << >> THEN Begun(queued)
                    ELSE queued
    /\ tt # t

RPoll ==
    /\ ResponsePoll(r, r', read_in_flight, read_in_flight', r_s, r_s')
    /\ UNCHANGED <<traffic, masterVars, ar_m, r_m, ar_s, ar, rd_resp, writeVars>>

RPush ==
    /\ r.hand # << >>
    /\ HasRoom(r_m[r.owner])
    /\ r_m' = [r_m EXCEPT ![r.owner] = Append(@, Head(r.hand))]
    /\ r' = [r EXCEPT !.hand = << >>, !.busy = ~ReadOver(Head(r.hand))]
    /\ UNCHANGED <<traffic, masterVars, ar_m, ar_s, r_s, read_in_flight, ar, rd_resp, writeVars>>

run_r == RPoll \/ RPush

-----------------------------------------------------------------------------
(* run_aw *)

AwPoll ==
    /\ RequestPoll(aw, aw', aw_m, aw_m')
    /\ UNCHANGED <<traffic, masterVars, readVars, w_m, b_m, aw_s, w_s, b_s, write_in_flight,
                   active_write_master, w_last, w, b, wr_addr, wr_data, wr_resp>>

AwPush ==
    /\ aw.at = "addr"
    /\ HasRoom(aw_s)
    /\ aw_s' = Append(aw_s, aw.reg[aw.chosen])
    /\ aw' = [aw EXCEPT !.at = "active"]
    /\ UNCHANGED <<traffic, masterVars, readVars, aw_m, w_m, b_m, w_s, b_s, write_in_flight,
                   active_write_master, w_last, w, b, wr_addr, wr_data, wr_resp>>

AwActive ==
    /\ aw.at = "active"
    /\ HasRoom(active_write_master)
    /\ active_write_master' = Append(active_write_master, aw.chosen)
    /\ aw' = [aw EXCEPT !.at = "flight"]
    /\ UNCHANGED <<traffic, masterVars, readVars, aw_m, w_m, b_m, aw_s, w_s, b_s,
                   write_in_flight, w_last, w, b, wr_addr, wr_data, wr_resp>>

AwInFlight ==
    /\ aw.at = "flight"
    /\ HasRoom(write_in_flight)
    /\ write_in_flight' = Append(write_in_flight, aw.chosen)
    /\ aw' = [aw EXCEPT !.at = "wait"]
    /\ UNCHANGED <<traffic, masterVars, readVars, aw_m, w_m, b_m, aw_s, w_s, b_s,
                   active_write_master, w_last, w, b, wr_addr, wr_data, wr_resp>>

(* Waits for the last word of the burst before the next request. *)
AwLast ==
    /\ aw.at = "wait"
    /\ HasMsg(w_last)
    /\ w_last' = Tail(w_last)
    /\ aw' = IF Head(w_last) THEN Passed(aw) ELSE aw
    /\ UNCHANGED <<traffic, masterVars, readVars, aw_m, w_m, b_m, aw_s, w_s, b_s,
                   write_in_flight, active_write_master, w, b, wr_addr, wr_data, wr_resp>>

run_aw == AwPoll \/ AwPush \/ AwActive \/ AwInFlight \/ AwLast

-----------------------------------------------------------------------------
(* run_w *)

WActive ==
    /\ w.at = "idle"
    /\ HasMsg(active_write_master)
    /\ active_write_master' = Tail(active_write_master)
    /\ w' = [w EXCEPT !.at = "pop", !.master = Head(active_write_master)]
    /\ UNCHANGED <<traffic, masterVars, readVars, aw_m, w_m, b_m, aw_s, w_s, b_s,
                   write_in_flight, w_last, aw, b, wr_addr, wr_data, wr_resp>>

WPop ==
    /\ w.at = "pop"
    /\ HasMsg(w_m[w.master])
    /\ w_m' = [w_m EXCEPT ![w.master] = Tail(@)]
    /\ w' = [w EXCEPT !.at = "push", !.reg = <<Head(w_m[w.master])>>]
    /\ UNCHANGED <<traffic, masterVars, readVars, aw_m, b_m, aw_s, w_s, b_s, write_in_flight,
                   active_write_master, w_last, aw, b, wr_addr, wr_data, wr_resp>>

WPush ==
    /\ w.at = "push"
    /\ HasRoom(w_s)
    /\ w_s' = w_s \o w.reg
    /\ w' = [w EXCEPT !.at = "last"]
    /\ UNCHANGED <<traffic, masterVars, readVars, aw_m, w_m, b_m, aw_s, b_s, write_in_flight,
                   active_write_master, w_last, aw, b, wr_addr, wr_data, wr_resp>>

WLast ==
    /\ w.at = "last"
    /\ HasRoom(w_last)
    /\ w_last' = Append(w_last, WriteOver(Head(w.reg)))
    /\ w' = [w EXCEPT !.at = IF WriteOver(Head(w.reg)) THEN "idle" ELSE "pop", !.reg = << >>]
    /\ UNCHANGED <<traffic, masterVars, readVars, aw_m, w_m, b_m, aw_s, w_s, b_s,
                   write_in_flight, active_write_master, aw, b, wr_addr, wr_data, wr_resp>>

run_w == WActive \/ WPop \/ WPush \/ WLast

-----------------------------------------------------------------------------
(* run_b *)

BPoll ==
    /\ ResponsePoll(b, b', write_in_flight, write_in_flight', b_s, b_s')
    /\ UNCHANGED <<traffic, masterVars, readVars, aw_m, w_m, b_m, aw_s, w_s,
                   active_write_master, w_last, aw, w, wr_addr, wr_data, wr_resp>>

BPush ==
    /\ b.hand # << >>
    /\ HasRoom(b_m[b.owner])
    /\ b_m' = [b_m EXCEPT ![b.owner] = Append(@, Head(b.hand))]
    /\ b' = [b EXCEPT !.hand = << >>, !.busy = FALSE]
    /\ UNCHANGED <<traffic, masterVars, readVars, aw_m, w_m, aw_s, w_s, b_s, write_in_flight,
                   active_write_master, w_last, aw, w, wr_addr, wr_data, wr_resp>>

run_b == BPoll \/ BPush

-----------------------------------------------------------------------------
(* The masters: WeightAxi and MasterRead of InputAxi read, MasterWrite of   *)
(* InputAxi writes.  A write's data follow its address, and its response is *)
(* awaited before the next burst.                                           *)

NextBurst(burst, n) == [burst EXCEPT !.seq = 1 - @, !.len = n]

ReadRequest(i) ==
    /\ traffic = "read"
    /\ rd[i].at = "idle"
    /\ HasRoom(ar_m[i])
    /\ \E n \in 1 .. MaxLen :
         rd' = [rd EXCEPT ![i] = [at |-> "data", k |-> 0, burst |-> NextBurst(@.burst, n)]]
    /\ ar_m' = [ar_m EXCEPT ![i] = Append(@, rd'[i].burst)]
    /\ UNCHANGED <<traffic, wr, r_m, ar_s, r_s, read_in_flight, ar, r, rd_resp, writeVars>>

(* The masters count the beats and do not look at last. *)
ReadData(i) ==
    /\ rd[i].at = "data"
    /\ HasMsg(r_m[i])
    /\ r_m' = [r_m EXCEPT ![i] = Tail(@)]
    /\ rd' = [rd EXCEPT ![i] =
                IF @.k + 1 = @.burst.len THEN [@ EXCEPT !.at = "idle", !.k = 0]
                ELSE [@ EXCEPT !.k = rd[i].k + 1]]
    /\ UNCHANGED <<traffic, wr, ar_m, ar_s, r_s, read_in_flight, ar, r, rd_resp, writeVars>>

WriteRequest(i) ==
    /\ traffic = "write"
    /\ wr[i].at = "idle"
    /\ HasRoom(aw_m[i])
    /\ \E n \in 1 .. MaxLen :
         wr' = [wr EXCEPT ![i] = [at |-> "data", k |-> 0, burst |-> NextBurst(@.burst, n)]]
    /\ aw_m' = [aw_m EXCEPT ![i] = Append(@, wr'[i].burst)]
    /\ UNCHANGED <<traffic, rd, readVars, w_m, b_m, aw_s, w_s, b_s, write_in_flight,
                   active_write_master, w_last, aw, w, b, wr_addr, wr_data, wr_resp>>

WriteData(i) ==
    /\ wr[i].at = "data"
    /\ HasRoom(w_m[i])
    /\ w_m' = [w_m EXCEPT ![i] = Append(@, Beat(wr[i].burst, wr[i].k + 1))]
    /\ wr' = [wr EXCEPT ![i].k = @ + 1,
                        ![i].at = IF wr[i].k + 1 = wr[i].burst.len THEN "resp" ELSE @]
    /\ UNCHANGED <<traffic, rd, readVars, aw_m, b_m, aw_s, w_s, b_s, write_in_flight,
                   active_write_master, w_last, aw, w, b, wr_addr, wr_data, wr_resp>>

WriteResponse(i) ==
    /\ wr[i].at = "resp"
    /\ HasMsg(b_m[i])
    /\ b_m' = [b_m EXCEPT ![i] = Tail(@)]
    /\ wr' = [wr EXCEPT ![i].at = "idle"]
    /\ UNCHANGED <<traffic, rd, readVars, aw_m, w_m, aw_s, w_s, b_s, write_in_flight,
                   active_write_master, w_last, aw, w, b, wr_addr, wr_data, wr_resp>>

-----------------------------------------------------------------------------
(* The slave answers in the order of the requests, as AxiArbiter requires:  *)
(* run_rd and run_wr of the test bench's Slave.                             *)

SlaveTakeRead ==
    /\ HasMsg(ar_s)
    /\ ar_s' = Tail(ar_s)
    /\ rd_resp' = rd_resp \o Beats(Head(ar_s))
    /\ UNCHANGED <<traffic, masterVars, ar_m, r_m, r_s, read_in_flight, ar, r, writeVars>>

SlaveGiveBeat ==
    /\ rd_resp # << >>
    /\ HasRoom(r_s)
    /\ r_s' = Append(r_s, Head(rd_resp))
    /\ rd_resp' = Tail(rd_resp)
    /\ UNCHANGED <<traffic, masterVars, ar_m, r_m, ar_s, read_in_flight, ar, r, writeVars>>

SlaveTakeAddr ==
    /\ HasMsg(aw_s)
    /\ aw_s' = Tail(aw_s)
    /\ wr_addr' = Append(wr_addr, Head(aw_s))
    /\ UNCHANGED <<traffic, masterVars, readVars, aw_m, w_m, b_m, w_s, b_s, write_in_flight,
                   active_write_master, w_last, aw, w, b, wr_data, wr_resp>>

SlaveTakeData ==
    /\ HasMsg(w_s)
    /\ w_s' = Tail(w_s)
    /\ wr_data' = Append(wr_data, Head(w_s))
    /\ UNCHANGED <<traffic, masterVars, readVars, aw_m, w_m, b_m, aw_s, b_s, write_in_flight,
                   active_write_master, w_last, aw, w, b, wr_addr, wr_resp>>

(* A word is stored under the oldest address. *)
SlaveStore ==
    /\ wr_addr # << >> /\ wr_data # << >>
    /\ wr_data' = Tail(wr_data)
    /\ IF Head(wr_data).last
       THEN /\ wr_addr' = Tail(wr_addr)
            /\ wr_resp' = Append(wr_resp, Head(wr_addr))
       ELSE UNCHANGED <<wr_addr, wr_resp>>
    /\ UNCHANGED <<traffic, masterVars, readVars, aw_m, w_m, b_m, aw_s, w_s, b_s,
                   write_in_flight, active_write_master, w_last, aw, w, b>>

SlaveGiveResponse ==
    /\ wr_resp # << >>
    /\ HasRoom(b_s)
    /\ b_s' = Append(b_s, Head(wr_resp))
    /\ wr_resp' = Tail(wr_resp)
    /\ UNCHANGED <<traffic, masterVars, readVars, aw_m, w_m, b_m, aw_s, w_s, write_in_flight,
                   active_write_master, w_last, aw, w, b, wr_addr, wr_data>>

-----------------------------------------------------------------------------
Slave ==
    \/ SlaveTakeRead \/ SlaveGiveBeat
    \/ SlaveTakeAddr \/ SlaveTakeData \/ SlaveStore \/ SlaveGiveResponse

Next ==
    \/ run_ar \/ run_r
    \/ run_aw \/ run_w \/ run_b
    \/ \E i \in Masters : ReadRequest(i) \/ ReadData(i)
    \/ \E i \in Writers : WriteRequest(i) \/ WriteData(i) \/ WriteResponse(i)
    \/ Slave

Spec == Init /\ [][Next]_vars

(* Every thread is resumed at every clock edge, those of the masters and of *)
(* the slave included; no master is obliged to ask.                         *)
Fairness ==
    /\ WF_vars(run_ar) /\ WF_vars(run_r)
    /\ WF_vars(run_aw) /\ WF_vars(run_w) /\ WF_vars(run_b)
    /\ \A i \in Masters : WF_vars(ReadData(i))
    /\ \A i \in Writers : WF_vars(WriteData(i)) /\ WF_vars(WriteResponse(i))
    /\ WF_vars(SlaveTakeRead) /\ WF_vars(SlaveGiveBeat)
    /\ WF_vars(SlaveTakeAddr) /\ WF_vars(SlaveTakeData)
    /\ WF_vars(SlaveStore) /\ WF_vars(SlaveGiveResponse)

FairSpec == Spec /\ Fairness

-----------------------------------------------------------------------------
(* Properties *)

(* The beats on their way to a master are the next ones of the burst it     *)
(* asked for, in order and none missing: AxiArbiter and the order of        *)
(* read_in_flight never give a master the data of another.                  *)
ReadsRouted ==
    \A i \in Masters : \A k \in 1 .. Len(r_m[i]) :
        rd[i].at = "data" /\ r_m[i][k] = Beat(rd[i].burst, rd[i].k + k)

(* The slave stores a word under the address it belongs to: run_aw lets no  *)
(* request pass before run_w is done with the one before.                   *)
WritesPaired ==
    wr_addr # << >> /\ wr_data # << >> => Head(wr_data).burst = Head(wr_addr)

(* A master that waits for the response to a write gets its own.            *)
ResponsesRouted ==
    \A i \in Masters : \A k \in 1 .. Len(b_m[i]) :
        i \in Writers /\ wr[i].at = "resp" /\ b_m[i][k] = wr[i].burst

(* Round robin: while a request is held, at most Size - 1 others go first,  *)
(* whatever the rate at which the other masters ask.                        *)
InTurn == \A i \in Masters : ar.passed[i] < Size /\ aw.passed[i] < Size

(* No master starves: whoever asks gets all its data or its response,       *)
(* however often the others ask.                                            *)
Served ==
    /\ \A i \in Masters : []<>(rd[i].at = "idle")
    /\ \A i \in Writers : []<>(wr[i].at = "idle")
=============================================================================
