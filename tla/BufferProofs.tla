---------------------------- MODULE BufferProofs ----------------------------
(***************************************************************************)
(* What the memory, the array and the outside hold, for every size and a   *)
(* host that lets the memory come to rest (as in MemoryProofs), in a build *)
(* without random stalls.                                                  *)
(*                                                                         *)
(* The invariant Values says it in the middle of the work too.  A bank     *)
(* will hold a value (WillHold) when it has it or a request on its way     *)
(* puts it there, and no later one puts anything else.  The input side     *)
(* will hold what a load is through with, the output side what a           *)
(* computation is; answers on their way, vectors in the array and outputs  *)
(* of its columns are runs of the values they are to be.  An interrupt     *)
(* then means that the unit is through, for a computation because the      *)
(* columns keep their order (Wavefront): when the last is complete, all    *)
(* are.  With random stalls they need not be.                              *)
(***************************************************************************)
EXTENDS MemoryProofs

-----------------------------------------------------------------------------
(* What a bank will hold *)

(* A store to address a, one that puts v there. *)
Touches(req, a) == req.type = "store" /\ \E p \in DOMAIN req.addr : req.addr[p] = a
Puts(req, a, v) == req.type = "store" /\ \E p \in DOMAIN req.addr : req.addr[p] = a /\ req.data[p] = v

(* When the requests q are done, the bank holds v at a: the bank has it     *)
(* already or a request puts it there, and no later one puts anything else. *)
WillHold(q, bank, a, v) ==
    \E k \in 0 .. Len(q) :
        /\ IF k = 0 THEN bank[a] = v ELSE Puts(q[k], a, v)
        /\ \A m \in k+1 .. Len(q) : Touches(q[m], a) => Puts(q[m], a, v)

(* What a spread store leaves at an address. *)
LEMMA StoredIs ==
    ASSUME NEW bank, NEW req, Spread(req.addr), NEW a \in Addr, req.type = "store"
    PROVE  /\ \A v : Puts(req, a, v) => Stored(bank, req)[a] = v
           /\ ~Touches(req, a) => Stored(bank, req)[a] = bank[a]
<1>1. Granted(req.addr) = DOMAIN req.addr
  BY GrantedAll
<1> DEFINE P(p) == p \in DOMAIN req.addr /\ req.addr[p] = a
<1>2. Stored(bank, req)[a] = IF \E p \in DOMAIN req.addr : req.addr[p] = a
                             THEN req.data[CHOOSE p \in DOMAIN req.addr : req.addr[p] = a]
                             ELSE bank[a]
  BY <1>1 DEF Stored
<1>3. ASSUME NEW v, Puts(req, a, v) PROVE Stored(bank, req)[a] = v
  <2>1. PICK p \in DOMAIN req.addr : req.addr[p] = a /\ req.data[p] = v
    BY <1>3 DEF Puts
  <2>2. \A q \in DOMAIN req.addr : req.addr[q] = a => q = p
    BY <2>1 DEF Spread
  <2>3. (CHOOSE q \in DOMAIN req.addr : req.addr[q] = a) = p
    BY <2>1, <2>2
  <2>4. QED
    BY <1>2, <2>1, <2>3
<1>4. ASSUME ~Touches(req, a) PROVE Stored(bank, req)[a] = bank[a]
  BY <1>2, <1>4 DEF Touches
<1>5. QED
  BY <1>3, <1>4

(* Nothing on its way. *)
LEMMA HoldsNow ==
    ASSUME NEW bank, NEW a, NEW v
    PROVE  WillHold(<< >>, bank, a, v) <=> bank[a] = v
<1>1. Len(<< >>) = 0
  BY QueueOf
<1> DEFINE e == << >>
<1>2. Len(e) = 0
  BY <1>1
<1> HIDE DEF e
<1>3. WillHold(e, bank, a, v) <=> bank[a] = v
  BY <1>2 DEF WillHold
<1>4. QED
  BY <1>3 DEF e

(* One more request. *)
LEMMA HoldsAsk ==
    ASSUME NEW q, IsQueue(q), NEW bank, NEW a, NEW v, NEW req,
           Puts(req, a, v) \/ (~Touches(req, a) /\ WillHold(q, bank, a, v))
    PROVE  WillHold(q \o <<req>>, bank, a, v)
<1> DEFINE u == q \o <<req>>
<1>1. Len(q) \in Nat /\ Len(u) = Len(q) + 1 /\ (\A k \in 1 .. Len(q) : u[k] = q[k]) /\ u[Len(q) + 1] = req
  BY QueueIs, QueueAppend
<1> HIDE DEF u
<1>2. CASE Puts(req, a, v)
  <2>1. Len(u) \in 0 .. Len(u) /\ Len(u) # 0 /\ Puts(u[Len(u)], a, v)
    BY <1>1, <1>2
  <2>2. \A m \in Len(u)+1 .. Len(u) : FALSE
    BY <1>1
  <2>3. QED
    BY <2>1, <2>2 DEF WillHold, u
<1>3. CASE ~Touches(req, a) /\ WillHold(q, bank, a, v)
  <2>1. PICK k \in 0 .. Len(q) :
             /\ IF k = 0 THEN bank[a] = v ELSE Puts(q[k], a, v)
             /\ \A m \in k+1 .. Len(q) : Touches(q[m], a) => Puts(q[m], a, v)
    BY <1>3 DEF WillHold
  <2>2. k \in 0 .. Len(u) /\ IF k = 0 THEN bank[a] = v ELSE Puts(u[k], a, v)
    BY <1>1, <2>1
  <2>3. ASSUME NEW m \in k+1 .. Len(u), Touches(u[m], a) PROVE Puts(u[m], a, v)
    <3>1. m # Len(q) + 1
      BY <1>1, <1>3, <2>3
    <3>2. m \in k+1 .. Len(q) /\ m \in 1 .. Len(q)
      BY <1>1, <2>1, <2>3, <3>1
    <3>3. QED
      BY <1>1, <2>1, <2>3, <3>2
  <2>4. QED
    BY <2>2, <2>3 DEF WillHold, u
<1>4. QED
  BY <1>2, <1>3

(* The oldest request is done. *)
LEMMA HoldsTake ==
    ASSUME NEW q, IsQueue(q), q # << >>, NEW bank, NEW next, NEW a \in Addr, NEW v,
           WillHold(q, bank, a, v), Spread(Head(q).addr),
           Head(q).type = "load" => next = bank,
           Head(q).type = "store" => next = Stored(bank, Head(q)),
           Head(q).type \in {"load", "store"}
    PROVE  WillHold(Tail(q), next, a, v)
<1> DEFINE h == Head(q)
           u == Tail(q)
<1>1. /\ Len(q) \in Nat /\ Len(q) >= 1 /\ h = q[1] /\ Len(u) = Len(q) - 1
      /\ \A k \in 1 .. Len(q) - 1 : u[k] = q[k+1]
  BY QueueIs, QueueTail
<1>2. /\ h.type = "load" => next = bank
      /\ h.type = "store" => next = Stored(bank, h)
      /\ h.type \in {"load", "store"} /\ Spread(h.addr)
  OBVIOUS
<1> HIDE DEF h, u
<1>3. PICK k \in 0 .. Len(q) :
           /\ IF k = 0 THEN bank[a] = v ELSE Puts(q[k], a, v)
           /\ \A m \in k+1 .. Len(q) : Touches(q[m], a) => Puts(q[m], a, v)
  BY DEF WillHold
<1>4. ASSUME NEW c \in Nat, NEW m \in c+1 .. Len(u), k <= c + 1 PROVE Touches(u[m], a) => Puts(u[m], a, v)
  <2>1. m + 1 \in k+1 .. Len(q) /\ u[m] = q[m+1]
    BY <1>1, <1>3, <1>4
  <2>2. QED
    BY <1>3, <2>1
<1>5. CASE k <= 1
  <2>1. next[a] = v
    <3>1. CASE k = 1
      <4>1. Puts(h, a, v)
        BY <1>1, <1>3, <3>1
      <4>2. h.type = "store"
        BY <4>1 DEF Puts
      <4>3. QED
        BY <1>2, <4>1, <4>2, StoredIs
    <3>2. CASE k = 0
      <4>1. bank[a] = v /\ (Touches(h, a) => Puts(h, a, v))
        <5>1. 1 \in k+1 .. Len(q)
          BY <1>1, <3>2
        <5>2. QED
          BY <1>1, <1>3, <3>2, <5>1
      <4>2. CASE h.type = "load"
        BY <1>2, <4>1, <4>2
      <4>3. CASE h.type = "store"
        BY <1>2, <4>1, <4>3, StoredIs
      <4>4. QED
        BY <1>2, <4>2, <4>3
    <3>3. QED
      BY <1>3, <1>5, <3>1, <3>2
  <2>2. 0 \in 0 .. Len(u) /\ \A m \in 0+1 .. Len(u) : Touches(u[m], a) => Puts(u[m], a, v)
    BY <1>1, <1>3, <1>4, <1>5
  <2>3. QED
    BY <2>1, <2>2 DEF WillHold, u
<1>6. CASE k > 1
  <2>1. k-1 \in 0 .. Len(u) /\ k-1 # 0 /\ u[k-1] = q[k]
    BY <1>1, <1>3, <1>6
  <2>2. Puts(u[k-1], a, v)
    BY <1>3, <1>6, <2>1
  <2>3. \A m \in (k-1)+1 .. Len(u) : Touches(u[m], a) => Puts(u[m], a, v)
    BY <1>3, <1>4, <1>6, SMTT(60)
  <2>4. QED
    BY <2>1, <2>2, <2>3 DEF WillHold, u
<1>7. QED
  BY <1>3, <1>5, <1>6

(* When only loads are on their way the bank holds it already. *)
LEMMA HoldsLoads ==
    ASSUME NEW q, AllOf(q, "load"), NEW bank, NEW a, NEW v, WillHold(q, bank, a, v)
    PROVE  bank[a] = v
<1>1. PICK k \in 0 .. Len(q) : IF k = 0 THEN bank[a] = v ELSE Puts(q[k], a, v)
  BY DEF WillHold
<1>2. ASSUME k # 0 PROVE FALSE
  <2>1. q[k].type = "store" /\ k \in 1 .. Len(q)
    BY <1>1, <1>2 DEF Puts
  <2>2. QED
    BY <2>1 DEF AllOf
<1>3. QED
  BY <1>1, <1>2

(* A load more on its way. *)
LEMMA HoldsLoad ==
    ASSUME NEW q, IsQueue(q), NEW bank, NEW a, NEW v, WillHold(q, bank, a, v),
           NEW req, req.type = "load"
    PROVE  WillHold(q \o <<req>>, bank, a, v)
<1>1. ~Touches(req, a)
  BY DEF Touches
<1>2. QED
  BY <1>1, HoldsAsk

-----------------------------------------------------------------------------
(* What the sides, the queues, the array and the outside hold *)

Formed(req) == IsRequest(req) /\ Spread(req.addr) /\ req.type \in {"load", "store"}
AllFormed(q) == \A k \in 1 .. Len(q) : Formed(q[k])

(* What WriteReqRun holds is on its way too. *)
Stores == Req(1) \o wreg
Requests == AllFormed(Req(0)) /\ AllFormed(Stores)

(* The words of a transfer a master is done with. *)
Through(v, m) == IF v.at = "idle" THEN 0
                 ELSE IF v.at = "addr" THEN v.burst * Burst
                 ELSE IF v.at = "data" THEN v.burst * Burst + v.i
                 ELSE Words(m)
Working(u) == u \in waiting /\ irq[u] = << >>

(* An address the unit that works is through with, or has nothing to do with. *)
Reached(u, v, a) == Working(u) => a < W * Through(v, len[u]) \/ a >= N * len[u]

(* The answers to the loads F from a bank that holds buf. *)
Reads(F, buf) == [n \in Nat |-> Loaded(buf, F[n])]
Column(buf, j) == [n \in Nat |-> buf[N*n + j]]
IsBuffer(buf) == buf = [a \in Addr |-> buf[a]]

InputRight ==
    /\ IsBuffer(input)
    /\ "load" \in waiting => \A a \in Addr : a < N * len["load"] => input[a] = In(loads, a)
    /\ \A a \in Addr : Reached("load", rd, a) => WillHold(Req(0), Banks(0), a, input[a])
SavedRight ==
    /\ IsBuffer(saved) /\ IsBuffer(ext)
    /\ "store" \in waiting => \A a \in Addr : a < N * len["store"] => saved[a] = output[a]
    /\ \A a \in Addr : Reached("store", wr, a) => ext[a] = saved[a]
    /\ wr.at = "data" => Runs(Rsp(1), Reads(WordLoads(wr.burst), output), wr.i)

(* The outputs of a column that WriteReqRun has taken, or that are none of a run. *)
Kept(j, n) == Working("com") => n < Ctr(j) \/ n >= M
OutputRight ==
    /\ IsBuffer(output)
    /\ "com" \in waiting => \A a \in Addr : a < N * M => output[a] = Computed(input)[a]
    /\ \A j \in Port, n \in 0 .. Entries-1 :
          Kept(j, n) => WillHold(Stores, Banks(1), N*n + j, output[N*n + j])

BeatsRight == "com" \in waiting => Runs(Rsp(0), Reads(BeatLoads, input), Answers)
ArrayRight ==
    /\ \A i \in Port : Runs(fed[i], Column(input, i), Retired)
    /\ \A j \in Port : Runs(act_out[j], Column(output, j), Ctr(j))

(* Without stalls a column is never ahead of the one on its left. *)
Wavefront ==
    /\ out[N-1] = 0
    /\ \A j, k \in Port : j < k => out[k] <= out[j] /\ Ctr(k) <= Ctr(j)
    /\ \A j \in Port : Ctr(j) + Len(act_out[j]) = Retired + out[j]

Values == /\ Requests /\ InputRight /\ SavedRight /\ OutputRight
          /\ BeatsRight /\ ArrayRight /\ Wavefront

-----------------------------------------------------------------------------
(* Requests in a queue *)

(* One more request. *)
LEMMA FormedAsk ==
    ASSUME NEW q, IsQueue(q), AllFormed(q), NEW req, Formed(req)
    PROVE  AllFormed(q \o <<req>>)
<1> DEFINE u == q \o <<req>>
<1>1. Len(q) \in Nat /\ Len(u) = Len(q) + 1 /\ (\A k \in 1 .. Len(q) : u[k] = q[k]) /\ u[Len(q) + 1] = req
  BY QueueIs, QueueAppend
<1> HIDE DEF u
<1>2. ASSUME NEW k \in 1 .. Len(u) PROVE Formed(u[k])
  <2>1. k = Len(q) + 1 \/ k \in 1 .. Len(q)
    BY <1>1
  <2>2. QED
    BY <1>1, <2>1 DEF AllFormed
<1>3. QED
  BY <1>2 DEF AllFormed, u

(* The oldest request, and those after it. *)
LEMMA FormedTake ==
    ASSUME NEW q, IsQueue(q), AllFormed(q), q # << >>
    PROVE  Formed(Head(q)) /\ AllFormed(Tail(q))
<1> DEFINE h == Head(q)
           u == Tail(q)
<1>1. /\ Len(q) \in Nat /\ Len(q) >= 1 /\ h = q[1] /\ Len(u) = Len(q) - 1
      /\ \A k \in 1 .. Len(q) - 1 : u[k] = q[k+1]
  BY QueueIs, QueueTail
<1> HIDE DEF h, u
<1>2. 1 \in 1 .. Len(q)
  BY <1>1
<1>3. Formed(h)
  BY <1>1, <1>2 DEF AllFormed
<1>4. ASSUME NEW k \in 1 .. Len(u) PROVE Formed(u[k])
  <2>1. k + 1 \in 1 .. Len(q) /\ u[k] = q[k+1]
    BY <1>1
  <2>2. QED
    BY <2>1 DEF AllFormed
<1>5. QED
  BY <1>3, <1>4 DEF AllFormed, h, u

(* WriteReqRun holds at most one store. *)
LEMMA StoresIs ==
    ASSUME MemShape, ComShape
    PROVE  /\ IsQueue(Req(1)) /\ IsQueue(wreg) /\ IsQueue(Stores)
           /\ ws # "push" => wreg = << >> /\ Stores = Req(1)
           /\ Req(1) # << >> => /\ Stores # << >> /\ Head(Stores) = Head(Req(1))
                                /\ Tail(Stores) = Tail(Req(1)) \o wreg
<1> DEFINE q == Req(1)
           w == wreg
<1>1. IsQueue(q)
  BY Parts DEF Ids
<1>2. IsQueue(w)
  BY QueueOf DEF ComShape
<1>3. ws # "push" => w = << >>
  BY DEF ComShape
<1>4. Stores = q \o w
  BY DEF Stores
<1> HIDE DEF q, w
<1>5. IsQueue(q \o w) /\ q \o << >> = q
  BY <1>1, <1>2, QueueCat, QueueIs
<1>6. q # << >> => q \o w # << >> /\ Head(q \o w) = Head(q) /\ Tail(q \o w) = Tail(q) \o w
  BY <1>1, <1>2, QueueFront
<1>7. IsQueue(Stores) /\ (w = << >> => Stores = q)
  BY <1>4, <1>5
<1>8. q # << >> => Stores # << >> /\ Head(Stores) = Head(q) /\ Tail(Stores) = Tail(q) \o w
  BY <1>4, <1>6
<1>9. QED
  BY <1>1, <1>2, <1>3, <1>7, <1>8 DEF q, w

-----------------------------------------------------------------------------
(* What a step leaves alone *)

(* The input side and what it is to hold. *)
LEMMA InputSame ==
    ASSUME InputRight, UNCHANGED <<input, loads, Req(0), Banks(0)>>,
           "load" \in waiting' => "load" \in waiting /\ len'["load"] = len["load"],
           \A a \in Addr : Reached("load", rd, a)' => Reached("load", rd, a)
    PROVE  InputRight'
<1>1. UNCHANGED input /\ UNCHANGED loads
  OBVIOUS
<1>2. ASSUME NEW a \in Addr, Reached("load", rd, a)' PROVE WillHold(Req(0), Banks(0), a, input[a])'
  <2>1. WillHold(Req(0), Banks(0), a, input[a])
    BY <1>2 DEF InputRight
  <2>2. WillHold(Req(0)', Banks(0)', a, input'[a])
    BY <2>1
  <2>3. QED
    BY <2>2 DEF WillHold, Puts, Touches
<1>3. QED
  BY <1>1, <1>2 DEF InputRight, IsBuffer, In

(* The outside, and the words on their way to it. *)
LEMMA SavedSame ==
    ASSUME SavedRight, UNCHANGED <<saved, ext, wr, Rsp(1)>>,
           "store" \in waiting' => "store" \in waiting /\ output' = output /\ len'["store"] = len["store"],
           wr.at = "data" => output' = output,
           \A a \in Addr : Reached("store", wr, a)' => Reached("store", wr, a)
    PROVE  SavedRight'
<1>1. UNCHANGED saved /\ UNCHANGED ext /\ UNCHANGED wr
  OBVIOUS
<1>2. ASSUME wr'.at = "data" PROVE Runs(Rsp(1), Reads(WordLoads(wr.burst), output), wr.i)'
  <2>1. Runs(Rsp(1), Reads(WordLoads(wr.burst), output), wr.i)
    BY <1>1, <1>2 DEF SavedRight
  <2>2. Runs(Rsp(1)', Reads(WordLoads(wr'.burst), output'), wr'.i)
    BY <1>1, <1>2, <2>1
  <2>3. QED
    BY <2>2 DEF Runs, Reads, WordLoads, WordAddr, ByteAddr, Loaded, Load, Granted
<1>3. QED
  BY <1>1, <1>2 DEF SavedRight, IsBuffer

(* The output side, when WriteReqRun takes no output. *)
LEMMA OutputKept ==
    ASSUME OutputRight, UNCHANGED <<output, Stores, Banks(1)>>,
           "com" \in waiting' => "com" \in waiting /\ input' = input /\ M' = M,
           \A j \in Port, n \in 0 .. Entries-1 : Kept(j, n)' => Kept(j, n)
    PROVE  OutputRight'
<1>1. UNCHANGED output
  OBVIOUS
<1>2. ASSUME NEW j \in Port, NEW n \in 0 .. Entries-1, Kept(j, n)'
      PROVE  WillHold(Stores, Banks(1), N*n + j, output[N*n + j])'
  <2>1. WillHold(Stores, Banks(1), N*n + j, output[N*n + j])
    BY <1>2 DEF OutputRight
  <2>2. WillHold(Stores', Banks(1)', N*n + j, output'[N*n + j])
    BY <2>1
  <2>3. QED
    BY <2>2 DEF WillHold, Puts, Touches
<1>3. QED
  BY <1>1, <1>2 DEF OutputRight, IsBuffer, Computed

(* The output side, when WriteReqRun does not move. *)
LEMMA OutputSame ==
    ASSUME OutputRight, UNCHANGED <<output, input, waiting, irq["com"], M, ws, ctr, Stores, Banks(1)>>
    PROVE  OutputRight'
<1>1. ASSUME NEW j \in Port, NEW n \in 0 .. Entries-1 PROVE Kept(j, n)' <=> Kept(j, n)
  BY DEF Kept, Working, Ctr
<1>2. QED
  BY <1>1, OutputKept

(* The beats of the same length. *)
LEMMA BeatLoadsSame ==
    ASSUME M' = M
    PROVE  BeatLoads' = BeatLoads
BY DEF BeatLoads, Beat, InBeat, Load

(* The answers to the beats. *)
LEMMA BeatValuesSame ==
    ASSUME BeatsRight, UNCHANGED <<input, Rsp(0)>>, "com" \in waiting' => "com" \in waiting,
           "com" \in waiting => Answers' = Answers /\ M' = M
    PROVE  BeatsRight'
<1>1. UNCHANGED input
  OBVIOUS
<1>2. ASSUME "com" \in waiting' PROVE Runs(Rsp(0), Reads(BeatLoads, input), Answers)'
  <2>0. M' = M
    BY <1>2
  <2>1. Runs(Rsp(0), Reads(BeatLoads, input), Answers)
    BY <1>1, <1>2 DEF BeatsRight
  <2>2. Runs(Rsp(0)', Reads(BeatLoads, input'), Answers')
    BY <1>1, <1>2, <2>1
  <2>3. BeatLoads' = BeatLoads
    BY <2>0, BeatLoadsSame
  <2>4. QED
    BY <2>2, <2>3 DEF Runs, Reads
<1>3. QED
  BY <1>2 DEF BeatsRight

(* The array. *)
LEMMA ArrayValuesSame ==
    ASSUME ArrayRight, Wavefront, UNCHANGED <<input, output, fed, out, act_out, ws, ctr>>
    PROVE  ArrayRight' /\ Wavefront'
<1>1. /\ UNCHANGED input /\ UNCHANGED output /\ UNCHANGED fed /\ UNCHANGED out /\ UNCHANGED act_out
      /\ UNCHANGED ws /\ UNCHANGED ctr
  OBVIOUS
<1>2. QED
  BY <1>1, SMTT(60) DEF ArrayRight, Wavefront, Retired, Ctr, Runs, Column

(* The requests. *)
LEMMA RequestsSame ==
    ASSUME Requests, UNCHANGED <<Req(0), Stores>>
    PROVE  Requests'
<1>1. AllFormed(Req(0)') /\ AllFormed(Stores')
  BY DEF Requests
<1>2. QED
  BY <1>1 DEF Requests, AllFormed, Formed, IsRequest, Spread

-----------------------------------------------------------------------------
(* Values in a queue; the sides at rest *)

(* One more value. *)
LEMMA RunsAsk ==
    ASSUME NEW q, IsQueue(q), NEW F, NEW i \in Int, Runs(q, F, i), NEW e, e = F[i + Len(q)]
    PROVE  Runs(q \o <<e>>, F, i)
<1> DEFINE u == q \o <<e>>
<1>1. Len(q) \in Nat /\ Len(u) = Len(q) + 1 /\ (\A k \in 1 .. Len(q) : u[k] = q[k]) /\ u[Len(q) + 1] = e
  BY QueueIs, QueueAppend
<1> HIDE DEF u
<1>2. ASSUME NEW k \in 1 .. Len(u) PROVE u[k] = F[i + k - 1]
  <2>1. CASE k = Len(q) + 1
    <3>1. i + k - 1 = i + Len(q)
      BY <1>1, <2>1
    <3>2. QED
      BY <1>1, <2>1, <3>1
  <2>2. CASE k # Len(q) + 1
    <3>1. k \in 1 .. Len(q)
      BY <1>1, <2>2
    <3>2. QED
      BY <1>1, <3>1 DEF Runs
  <2>3. QED
    BY <2>1, <2>2
<1>3. QED
  BY <1>2 DEF Runs, u

(* The oldest value, and those after it. *)
LEMMA RunsTake ==
    ASSUME NEW q, IsQueue(q), q # << >>, NEW F, NEW i \in Int, Runs(q, F, i)
    PROVE  Head(q) = F[i] /\ Runs(Tail(q), F, i + 1)
<1> DEFINE h == Head(q)
           u == Tail(q)
<1>1. /\ Len(q) \in Nat /\ Len(q) >= 1 /\ h = q[1] /\ Len(u) = Len(q) - 1
      /\ \A k \in 1 .. Len(q) - 1 : u[k] = q[k+1]
  BY QueueIs, QueueTail
<1> HIDE DEF h, u
<1>2. h = F[i]
  <2>1. 1 \in 1 .. Len(q) /\ i + 1 - 1 = i
    BY <1>1
  <2>2. q[1] = F[i + 1 - 1]
    BY <2>1 DEF Runs
  <2>3. QED
    BY <1>1, <2>1, <2>2
<1>3. ASSUME NEW k \in 1 .. Len(u) PROVE u[k] = F[i + 1 + k - 1]
  <2>1. k + 1 \in 1 .. Len(q) /\ u[k] = q[k+1] /\ i + 1 + k - 1 = i + (k + 1) - 1
    BY <1>1
  <2>2. q[k+1] = F[i + (k + 1) - 1]
    BY <2>1 DEF Runs
  <2>3. QED
    BY <2>1, <2>2
<1>4. QED
  BY <1>2, <1>3 DEF Runs, h, u

(* The words of a transfer are its vectors. *)
LEMMA TransferIsAll ==
    ASSUME NEW m \in Nat
    PROVE  W \in Nat /\ W >= 1 /\ Words(m) \in Nat /\ W * Words(m) = N * m /\ N * m \in Nat
<1>1. N \in Nat /\ N >= 1 /\ W \in Nat /\ W >= 1 /\ N % W = 0
  BY NAssumption, WAssumption
<1>2. Words(m) \in Nat
  BY WordsPositive
<1> DEFINE q == N \div W
           y == q * m
           a == N * m
           x == a \div W
           r == a % W
<1>3. q \in Nat /\ N = W * q
  BY <1>1
<1>4. y \in Nat /\ a = W * y /\ a \in Nat
  <2>1. y \in Nat
    BY <1>1, <1>3
  <2>2. (W * q) * m = W * (q * m)
    BY <1>1, <1>3
  <2>3. W * y \in Nat
    BY <1>1, <2>1
  <2>4. QED
    BY <1>3, <2>1, <2>2, <2>3
<1>5. x = Words(m)
  BY DEF Words
<1> HIDE DEF q, y, a
<1>6. r \in Int /\ 0 <= r /\ r < W /\ x \in Int /\ a = W * x + r
  BY <1>1, <1>4
<1> HIDE DEF x, r
<1>7. ASSUME x >= y + 1 PROVE FALSE
  <2>1. W * x >= W * (y + 1) /\ W * (y + 1) = W * y + W
    BY <1>1, <1>4, <1>6, <1>7
  <2>2. W * x \in Int /\ W * y \in Int
    BY <1>1, <1>4, <1>6
  <2>3. QED
    BY <1>1, <1>4, <1>6, <2>1, <2>2
<1>8. ASSUME y >= x + 1 PROVE FALSE
  <2>1. W * y >= W * (x + 1) /\ W * (x + 1) = W * x + W
    BY <1>1, <1>4, <1>6, <1>8
  <2>2. W * x \in Int /\ W * y \in Int
    BY <1>1, <1>4, <1>6
  <2>3. QED
    BY <1>1, <1>4, <1>6, <2>1, <2>2
<1>9. x = y
  BY <1>4, <1>6, <1>7, <1>8
<1>10. W * Words(m) = N * m
  BY <1>4, <1>5, <1>9 DEF a
<1>11. N * m \in Nat
  BY <1>4 DEF a
<1>12. QED
  BY <1>1, <1>2, <1>10, <1>11

(* What lies within a transfer lies in the memory. *)
LEMMA InMemory ==
    /\ \A a \in Addr : a \in Nat
    /\ \A m \in 0 .. Entries, a \in Nat : a < N * m => a \in Addr
<1>1. N \in Nat /\ N >= 1 /\ Entries \in Nat /\ N * Entries \in Nat
  BY NAssumption, EntriesAssumption
<1> DEFINE c == N * Entries
<1>2. Addr = 0 .. c - 1 /\ c \in Nat
  BY <1>1 DEF Addr
<1> HIDE DEF c
<1>3. ASSUME NEW m \in 0 .. Entries, NEW a \in Nat, a < N * m PROVE a \in Addr
  <2>1. N * m <= N * Entries /\ N * m \in Nat
    BY <1>1
  <2> DEFINE d == N * m
  <2>2. d <= c /\ d \in Nat /\ a < d
    BY <1>3, <2>1 DEF c
  <2> HIDE DEF d
  <2>3. QED
    BY <1>2, <2>2
<1>4. QED
  BY <1>2, <1>3

(* With only loads on their way a loaded side is what it is to be. *)
LEMMA InputIs ==
    ASSUME MemShape, InputRight, "load" \notin waiting, AllOf(Req(0), "load")
    PROVE  Banks(0) = input
<1>1. \A a \in Addr : Reached("load", rd, a)
  BY DEF Reached, Working
<1>2. ASSUME NEW a \in Addr PROVE Banks(0)[a] = input[a]
  <2>1. WillHold(Req(0), Banks(0), a, input[a])
    BY <1>1 DEF InputRight
  <2>2. QED
    BY <2>1, HoldsLoads
<1>3. Banks(0) = [a \in Addr |-> Banks(0)[a]]
  <2>1. Core(0) \in Ids
    BY Cores DEF MemShape, Ids
  <2>2. QED
    BY <2>1 DEF MemShape, Banks
<1>4. input = [a \in Addr |-> input[a]]
  BY DEF InputRight, IsBuffer
<1> DEFINE b == Banks(0)
<1>5. b = [a \in Addr |-> b[a]] /\ \A a \in Addr : b[a] = input[a]
  BY <1>2, <1>3
<1> HIDE DEF b
<1>6. b = input
  BY <1>4, <1>5
<1>7. QED
  BY <1>6 DEF b

(* Every address is that of a column and a vector. *)
LEMMA RowsAll ==
    ASSUME NEW a \in Addr
    PROVE  a % N \in Port /\ a \div N \in 0 .. Entries-1 /\ a = N * (a \div N) + (a % N)
<1>1. N \in Nat /\ N >= 1 /\ Entries \in Nat /\ Entries >= 1 /\ a \in Nat /\ a <= N*Entries - 1 /\ N * Entries \in Nat
  BY NAssumption, EntriesAssumption DEF Addr
<1> DEFINE x == a \div N
           r == a % N
<1>2. x \in Int /\ r \in Int /\ a = N * x + r /\ 0 <= r /\ r < N
  BY <1>1
<1> HIDE DEF x, r
<1>3. x >= 0
  <2>1. ASSUME x <= -1 PROVE FALSE
    <3>1. N * x <= N * (-1) /\ N * x \in Int /\ N * (-1) = -N
      BY <1>1, <1>2, <2>1
    <3>2. QED
      BY <1>1, <1>2, <3>1
  <2>2. QED
    BY <1>2, <2>1
<1>4. x <= Entries - 1
  <2>1. ASSUME x >= Entries PROVE FALSE
    <3>1. N * x >= N * Entries /\ N * x \in Int
      BY <1>1, <1>2, <2>1
    <3>2. QED
      BY <1>1, <1>2, <3>1
  <2>2. QED
    BY <1>1, <1>2, <2>1
<1>5. QED
  BY <1>1, <1>2, <1>3, <1>4 DEF Port, x, r

(* The address of a vector and a column. *)
LEMMA RowIn ==
    ASSUME NEW j \in Port, NEW n \in 0 .. Entries-1
    PROVE  N*n + j \in Addr /\ (N*n + j) % N = j /\ (N*n + j) \div N = n
<1>1. N \in Nat /\ N >= 1 /\ Entries \in Nat /\ Entries >= 1 /\ j \in Nat /\ j < N /\ n \in Nat /\ n <= Entries - 1
  BY NAssumption, EntriesAssumption DEF Port
<1>2. N * n \in Nat /\ N * n <= N * (Entries - 1) /\ N * (Entries - 1) = N * Entries - N /\ N * Entries \in Nat
  BY <1>1
<1>3. N*n + j \in Addr
  BY <1>1, <1>2 DEF Addr
<1>4. QED
  BY <1>1, <1>3, ModOf

(* So is the output side when no computation works. *)
LEMMA OutputIs ==
    ASSUME MemShape, OutputRight, "com" \notin waiting, wreg = << >>, AllOf(Req(1), "load")
    PROVE  Banks(1) = output
<1>1. \A j \in Port, n \in 0 .. Entries-1 : Kept(j, n)
  BY DEF Kept, Working
<1>2. Stores = Req(1)
  <2> DEFINE q == Req(1)
  <2>1. IsQueue(q)
    BY Parts DEF Ids
  <2> HIDE DEF q
  <2>2. q \o << >> = q
    BY <2>1, QueueIs
  <2>3. QED
    BY <2>2 DEF Stores, q
<1>3. ASSUME NEW a \in Addr PROVE Banks(1)[a] = output[a]
  <2> DEFINE j == a % N
             n == a \div N
  <2>1. j \in Port /\ n \in 0 .. Entries-1 /\ a = N * n + j
    BY RowsAll
  <2> HIDE DEF j, n
  <2>3. WillHold(Stores, Banks(1), N*n + j, output[N*n + j])
    BY <1>1, <2>1 DEF OutputRight
  <2>4. WillHold(Req(1), Banks(1), a, output[a])
    BY <1>2, <2>1, <2>3
  <2>5. QED
    BY <2>4, HoldsLoads
<1>4. Banks(1) = [a \in Addr |-> Banks(1)[a]]
  <2>1. Core(1) \in Ids
    BY Cores DEF MemShape, Ids
  <2>2. QED
    BY <2>1 DEF MemShape, Banks
<1>5. output = [a \in Addr |-> output[a]]
  BY DEF OutputRight, IsBuffer
<1> DEFINE b == Banks(1)
<1>6. b = [a \in Addr |-> b[a]] /\ \A a \in Addr : b[a] = output[a]
  BY <1>3, <1>4
<1> HIDE DEF b
<1>7. b = output
  BY <1>5, <1>6
<1>8. QED
  BY <1>7 DEF b

-----------------------------------------------------------------------------
(* Steps of the memory *)

(* The request a core takes, and what it leaves. *)
LEMMA TakesFormed ==
    ASSUME MemShape, ComShape, Requests, NEW s \in Ids, CoreTakes(s), UNCHANGED wreg
    PROVE  /\ IsQueue(Req(s)) /\ Formed(Head(Req(s))) /\ Requests'
           /\ s = 1 => Stores' = Tail(Stores) /\ Stores # << >> /\ Head(Stores) = Head(Req(1))
           /\ s = 0 => Stores' = Stores
<1>1. IsQueue(Req(s)) /\ Req(s) # << >> /\ Req(s)' = Tail(Req(s))
  BY Parts DEF CoreTakes
<1>2. AllFormed(Req(0)) /\ AllFormed(Stores)
  BY DEF Requests
<1>3. CASE s = 0
  <2>1. UNCHANGED Req(1)
    BY <1>3 DEF CoreTakes
  <2>2. Stores' = Stores
    BY <2>1 DEF Stores
  <2> DEFINE q == Req(0)
  <2>3. IsQueue(q) /\ q # << >> /\ Req(0)' = Tail(q) /\ AllFormed(q)
    BY <1>1, <1>2, <1>3
  <2> HIDE DEF q
  <2>4. Formed(Head(q)) /\ AllFormed(Tail(q))
    BY <2>3, FormedTake
  <2>5. AllFormed(Req(0)') /\ AllFormed(Stores')
    BY <1>2, <2>2, <2>3, <2>4
  <2>6. Requests'
    BY <2>5 DEF Requests, AllFormed, Formed, IsRequest, Spread
  <2>7. QED
    BY <1>1, <1>3, <2>2, <2>4, <2>6 DEF q
<1>4. CASE s = 1
  <2>1. UNCHANGED Req(0)
    BY <1>4 DEF CoreTakes
  <2>2. /\ IsQueue(Stores) /\ Stores # << >> /\ Head(Stores) = Head(Req(1))
        /\ Tail(Stores) = Tail(Req(1)) \o wreg
    BY <1>1, <1>4, StoresIs
  <2>3. Stores' = Tail(Stores)
    BY <1>1, <1>4, <2>2 DEF Stores
  <2> DEFINE q == Stores
  <2>4. IsQueue(q) /\ q # << >> /\ AllFormed(q)
    BY <1>2, <2>2
  <2> HIDE DEF q
  <2>5. Formed(Head(q)) /\ AllFormed(Tail(q))
    BY <2>4, FormedTake
  <2>6. AllFormed(Req(0)') /\ AllFormed(Stores')
    BY <1>2, <2>1, <2>3, <2>5 DEF q
  <2>7. Requests'
    BY <2>6 DEF Requests, AllFormed, Formed, IsRequest, Spread
  <2>8. QED
    BY <1>1, <1>4, <2>2, <2>3, <2>5, <2>7 DEF q
<1>5. QED
  BY <1>3, <1>4 DEF Ids

(* A core that takes a request keeps what the bank will hold. *)
LEMMA TakesHolds ==
    ASSUME NEW s \in Ids, CoreTakes(s), NEW q, IsQueue(q), q # << >>, Head(q) = Head(Req(s)),
           Formed(Head(q)), NEW a \in Addr, NEW v, WillHold(q, Banks(s), a, v)
    PROVE  WillHold(Tail(q), Banks(s)', a, v)
<1> DEFINE h == Head(q)
           b == Banks(s)
           c == Banks(s)'
<1>1. /\ h.type = "load" => c = b
      /\ h.type # "load" => c = Stored(b, h)
  BY DEF CoreTakes
<1>2. Spread(h.addr) /\ h.type \in {"load", "store"}
  BY DEF Formed
<1>3. WillHold(q, b, a, v)
  OBVIOUS
<1> HIDE DEF b, c
<1>4. /\ Head(q).type = "load" => c = b
      /\ Head(q).type = "store" => c = Stored(b, Head(q))
  BY <1>1
<1>5. WillHold(Tail(q), c, a, v)
  BY <1>2, <1>3, <1>4, HoldsTake
<1>6. QED
  BY <1>5 DEF c

(* A core takes a request: the input side still becomes what it is to be. *)
LEMMA TakesKeepsInput ==
    ASSUME MemShape, ComShape, Requests, InputRight, NEW s \in Ids, CoreTakes(s), UNCHANGED clientVars
    PROVE  InputRight'
<1>0. UNCHANGED <<input, waiting, loads, len, irq, rd, wreg>>
  BY DEF clientVars, hostVars, axiVars, setupVars
<1>1. \A a \in Addr : Reached("load", rd, a)' <=> Reached("load", rd, a)
  BY <1>0 DEF Reached, Working, Through
<1>2. CASE s = 1
  <2>1. UNCHANGED <<Req(0), Banks(0)>>
    BY <1>2 DEF CoreTakes
  <2>2. QED
    BY <1>0, <1>1, <2>1, InputSame
<1>3. CASE s = 0
  <2>1. IsQueue(Req(0)) /\ Req(0) # << >> /\ Req(0)' = Tail(Req(0)) /\ Formed(Head(Req(0)))
    BY <1>0, <1>3, TakesFormed DEF CoreTakes
  <2>2. ASSUME NEW a \in Addr, Reached("load", rd, a)' PROVE WillHold(Req(0), Banks(0), a, input[a])'
    <3> DEFINE q == Req(0)
               v == input[a]
    <3>1. WillHold(q, Banks(0), a, v)
      BY <1>1, <2>2 DEF InputRight
    <3>2. IsQueue(q) /\ q # << >> /\ Head(q) = Head(Req(0)) /\ Formed(Head(q)) /\ CoreTakes(0) /\ 0 \in Ids
      BY <1>3, <2>1
    <3> HIDE DEF q, v
    <3>3. WillHold(Tail(q), Banks(0)', a, v)
      BY <3>1, <3>2, TakesHolds
    <3>4. WillHold(Req(0)', Banks(0)', a, input'[a])
      BY <1>0, <2>1, <3>3 DEF q, v
    <3>5. QED
      BY <3>4 DEF WillHold, Puts, Touches
  <2>3. QED
    BY <1>0, <2>2 DEF InputRight, IsBuffer, In
<1>4. QED
  BY <1>2, <1>3 DEF Ids

(* So does the output side. *)
LEMMA TakesKeepsOutput ==
    ASSUME MemShape, ComShape, Requests, OutputRight, NEW s \in Ids, CoreTakes(s), UNCHANGED clientVars
    PROVE  OutputRight'
<1>0. UNCHANGED <<input, output, waiting, irq, M, ws, ctr, wreg>>
  BY DEF clientVars, hostVars, axiVars, setupVars, M
<1>1. \A j \in Port, n \in 0 .. Entries-1 : Kept(j, n)' <=> Kept(j, n)
  BY <1>0 DEF Kept, Working, Ctr
<1>2. CASE s = 0
  <2>1. UNCHANGED <<Stores, Banks(1)>>
    <3>1. Stores' = Stores
      BY <1>0, <1>2, TakesFormed
    <3>2. QED
      BY <1>2, <3>1 DEF CoreTakes
  <2>2. QED
    BY <1>0, <2>1, OutputSame
<1>3. CASE s = 1
  <2>1. /\ IsQueue(Stores) /\ Stores # << >> /\ Stores' = Tail(Stores)
        /\ Head(Stores) = Head(Req(1)) /\ Formed(Head(Stores))
    BY <1>0, <1>3, TakesFormed, StoresIs
  <2>2. ASSUME NEW j \in Port, NEW n \in 0 .. Entries-1, Kept(j, n)'
        PROVE  WillHold(Stores, Banks(1), N*n + j, output[N*n + j])'
    <3> DEFINE q == Stores
               a == N*n + j
               v == output[a]
    <3>1. WillHold(q, Banks(1), a, v)
      BY <1>1, <2>2 DEF OutputRight
    <3>2. IsQueue(q) /\ q # << >> /\ Head(q) = Head(Req(1)) /\ Formed(Head(q)) /\ CoreTakes(1) /\ 1 \in Ids
      BY <1>3, <2>1
    <3>3. a \in Addr
      BY RowIn
    <3> HIDE DEF q, a, v
    <3>4. WillHold(Tail(q), Banks(1)', a, v)
      BY <3>1, <3>2, <3>3, TakesHolds
    <3>5. WillHold(Stores', Banks(1)', a, output'[a])
      BY <1>0, <2>1, <3>4 DEF q, v
    <3>6. QED
      BY <3>5 DEF WillHold, Puts, Touches, a
  <2>3. QED
    BY <1>0, <2>2 DEF OutputRight, IsBuffer, Computed
<1>4. QED
  BY <1>2, <1>3 DEF Ids

(* The answer of a core whose bank holds buf. *)
LEMMA TakesReads ==
    ASSUME MemShape, NEW s \in Ids, CoreTakes(s), NEW F, IsLoads(F), NEW i \in Nat,
           Served(Req(s), Rsp(s), F, i), NEW buf, Banks(s) = buf, Runs(Rsp(s), Reads(F, buf), i)
    PROVE  Runs(Rsp(s)', Reads(F, buf), i)
<1> DEFINE q == Req(s)
           r == Rsp(s)
           h == Head(q)
           e == Loaded(buf, h)
           G == Reads(F, buf)
<1>1. IsQueue(q) /\ IsQueue(r) /\ q # << >> /\ Len(r) \in Nat
  BY Parts, QueueIs DEF CoreTakes
<1>2. h = F[i + Len(r)]
  <2>1. PICK d : DOMAIN d = DOMAIN h.addr
    OBVIOUS
  <2>2. DOMAIN d = DOMAIN Head(q).addr /\ Served(q, r, F, i)
    BY <2>1
  <2> HIDE DEF q, r
  <2>3. QED
    BY <1>1, <2>2, ServedTake
<1>3. h.type = "load"
  BY <1>1, <1>2 DEF IsLoads
<1>4. Rsp(s)' = r \o <<e>>
  BY <1>3 DEF CoreTakes
<1>5. i + Len(r) \in Nat
  BY <1>1
<1>6. e = G[i + Len(r)]
  BY <1>2, <1>5 DEF Reads
<1>7. Runs(r, G, i)
  OBVIOUS
<1> HIDE DEF q, r, h, e, G
<1>8. Runs(r \o <<e>>, G, i)
  BY <1>1, <1>6, <1>7, RunsAsk
<1>9. QED
  BY <1>4, <1>8 DEF G

(* While MasterWrite works the output side is what it is to be. *)
LEMMA SavingOutput ==
    ASSUME Shape, OutputRight, wr.at = "data"
    PROVE  Banks(1) = output
<1>1. "com" \notin waiting /\ AllOf(Req(1), "load") /\ MemShape /\ ComShape /\ Tokens
  BY NotRunning DEF Shape
<1>2. ~Running
  BY <1>1, WorkIsWaited
<1>3. wreg = << >>
  BY <1>1, <1>2 DEF ComShape, Running
<1>4. QED
  BY <1>1, <1>3, OutputIs

(* The words a core answers are those of the output side. *)
LEMMA TakesKeepsSaved ==
    ASSUME Shape, OutputRight, SavedRight, NEW s \in Ids, CoreTakes(s), UNCHANGED clientVars
    PROVE  SavedRight'
<1>0. UNCHANGED <<saved, ext, output, waiting, len, wr, irq>> /\ MemShape
  BY DEF clientVars, hostVars, axiVars, setupVars, Shape
<1>1. \A a \in Addr : Reached("store", wr, a)' <=> Reached("store", wr, a)
  BY <1>0 DEF Reached, Working, Through
<1>2. CASE s = 0 \/ wr.at # "data"
  <2>1. CASE s = 0
    <3>1. UNCHANGED Rsp(1)
      BY <2>1 DEF CoreTakes
    <3>2. QED
      BY <1>0, <1>1, <3>1, SavedSame
  <2>2. CASE wr.at # "data"
    BY <1>0, <1>1, <2>2 DEF SavedRight, IsBuffer
  <2>3. QED
    BY <1>2, <2>1, <2>2
<1>3. CASE s = 1 /\ wr.at = "data"
  <2> DEFINE F == WordLoads(wr.burst)
  <2>1. Banks(1) = output
    BY <1>3, SavingOutput
  <2>2. IsLoads(F) /\ wr.i \in Nat /\ Served(Req(1), Rsp(1), F, wr.i)
    BY <1>3, NotRunning
  <2>3. Runs(Rsp(1), Reads(F, output), wr.i)
    BY <1>3 DEF SavedRight
  <2>4. CoreTakes(1) /\ 1 \in Ids
    BY <1>3
  <2> HIDE DEF F
  <2>5. Runs(Rsp(1)', Reads(F, output), wr.i)
    BY <1>0, <2>1, <2>2, <2>3, <2>4, TakesReads
  <2>6. Runs(Rsp(1)', Reads(WordLoads(wr'.burst), output'), wr'.i)
    BY <1>0, <2>5 DEF F
  <2>7. Runs(Rsp(1), Reads(WordLoads(wr.burst), output), wr.i)'
    BY <2>6 DEF Runs, Reads, WordLoads, WordAddr, ByteAddr, Loaded, Load, Granted
  <2>8. QED
    BY <1>0, <1>1, <2>7 DEF SavedRight, IsBuffer
<1>4. QED
  BY <1>2, <1>3 DEF Ids

(* The beats it answers are those of the input side. *)
LEMMA TakesKeepsBeatValues ==
    ASSUME Shape, InputRight, BeatsRight, NEW s \in Ids, CoreTakes(s), UNCHANGED clientVars
    PROVE  BeatsRight'
<1>0. /\ UNCHANGED <<input, waiting, comState>> /\ UNCHANGED <<rq, start_wr, ws, M>>
      /\ MemShape /\ ComShape /\ ComBeats /\ SideUse
  BY DEF clientVars, hostVars, axiVars, setupVars, Shape, comState, M
<1>1. Taken' = Taken
  BY <1>0, TakesKeepsBeats
<1>2. "com" \in waiting => Answers' = Answers
  BY <1>0, <1>1 DEF Taken
<1>3. CASE s = 1
  <2>1. UNCHANGED Rsp(0)
    BY <1>3 DEF CoreTakes
  <2>2. QED
    BY <1>0, <1>2, <2>1, BeatValuesSame
<1>4. CASE s = 0 /\ "com" \in waiting
  <2>1. /\ Answers \in Nat /\ Served(Req(0), Rsp(0), BeatLoads, Answers) /\ AllOf(Req(0), "load")
        /\ waiting = {"com"}
    BY <1>4, Computing
  <2>2. Banks(0) = input
    BY <1>0, <2>1, InputIs
  <2>3. Runs(Rsp(0), Reads(BeatLoads, input), Answers) /\ CoreTakes(0) /\ 0 \in Ids
    BY <1>4 DEF BeatsRight
  <2>4. Runs(Rsp(0)', Reads(BeatLoads, input), Answers)
    BY <1>0, <2>1, <2>2, <2>3, BeatSpread, TakesReads
  <2>5. Runs(Rsp(0)', Reads(BeatLoads, input'), Answers')
    BY <1>0, <1>2, <1>4, <2>4
  <2>8. BeatLoads' = BeatLoads
    BY <1>0, BeatLoadsSame
  <2>6. Runs(Rsp(0), Reads(BeatLoads, input), Answers)'
    BY <2>5, <2>8 DEF Runs, Reads
  <2>7. QED
    BY <2>6 DEF BeatsRight
<1>5. CASE "com" \notin waiting
  BY <1>0, <1>5 DEF BeatsRight
<1>6. QED
  BY <1>3, <1>4, <1>5 DEF Ids

(* A step of the memory. *)
LEMMA MemoryKeepsValues ==
    ASSUME Shape, FlipShape, Values, MemoryStep
    PROVE  Values'
<1>0. /\ MemShape /\ Exclusive /\ FlipAlone /\ ComShape
      /\ Requests /\ InputRight /\ SavedRight /\ OutputRight /\ BeatsRight /\ ArrayRight /\ Wavefront
  BY DEF Shape, Values
<1>1. /\ UNCHANGED clientVars
      /\ UNCHANGED memoryView \/ \E s \in Ids : CoreTakes(s)
  BY <1>0, MemoryMoves
<1>2. /\ UNCHANGED <<input, output, saved, ext, waiting, loads, len, irq, rd, wr, fed, out, act_out, ws, ctr>>
      /\ UNCHANGED <<rq, start_wr, ws, wreg>>
  BY <1>1 DEF clientVars, hostVars, axiVars, setupVars
<1>6. UNCHANGED M
  BY <1>2 DEF M
<1>3. ArrayRight' /\ Wavefront'
  BY <1>0, <1>2, ArrayValuesSame
<1>4. CASE UNCHANGED memoryView
  <2>1. UNCHANGED <<Req(0), Req(1), Rsp(0), Rsp(1), Banks(0), Banks(1)>>
    BY <1>4 DEF memoryView
  <2>2. UNCHANGED Stores
    BY <1>2, <2>1 DEF Stores
  <2>3. \A a \in Addr : /\ Reached("load", rd, a)' <=> Reached("load", rd, a)
                        /\ Reached("store", wr, a)' <=> Reached("store", wr, a)
    BY <1>2 DEF Reached, Working, Through
  <2>4. Answers' = Answers
    BY <1>2, <1>6, <2>1, AnswersSame
  <2>5. Requests' /\ InputRight' /\ SavedRight'
    BY <1>0, <1>2, <2>1, <2>2, <2>3, RequestsSame, InputSame, SavedSame
  <2>6. OutputRight' /\ BeatsRight'
    BY <1>0, <1>2, <1>6, <2>1, <2>2, <2>4, OutputSame, BeatValuesSame
  <2>7. QED
    BY <1>3, <2>5, <2>6 DEF Values
<1>5. CASE \E s \in Ids : CoreTakes(s)
  <2>1. PICK s \in Ids : CoreTakes(s)
    BY <1>5
  <2>2. Requests'
    BY <1>0, <1>2, <2>1, TakesFormed
  <2>3. InputRight' /\ OutputRight'
    BY <1>0, <1>1, <2>1, TakesKeepsInput, TakesKeepsOutput
  <2>4. SavedRight' /\ BeatsRight'
    BY <1>0, <1>1, <2>1, TakesKeepsSaved, TakesKeepsBeatValues
  <2>5. QED
    BY <1>3, <2>2, <2>3, <2>4 DEF Values
<1>7. QED
  BY <1>1, <1>4, <1>5

-----------------------------------------------------------------------------
(* The words a master is through with *)

(* A step that leaves the memory alone. *)
LEMMA ViewSame ==
    ASSUME Shape, UNCHANGED <<memoryVars, id>>
    PROVE  /\ UNCHANGED <<Req(0), Req(1), Rsp(0), Rsp(1), Banks(0), Banks(1)>>
           /\ UNCHANGED wreg => UNCHANGED Stores
<1>1. MemShape /\ Exclusive
  BY DEF Shape
<1>2. UNCHANGED <<pipes, id>>
  BY DEF pipes, memoryVars, flipVars, splitVars, mergeVars, coreVars
<1>3. UNCHANGED memoryView
  BY <1>1, <1>2, PipesSame
<1>4. QED
  BY <1>3 DEF memoryView, Stores

(* The transfers are where they were. *)
LEMMA ReachedSame ==
    ASSUME UNCHANGED <<waiting, irq, len>>
    PROVE  \A a \in Addr : /\ UNCHANGED rd => (Reached("load", rd, a)' <=> Reached("load", rd, a))
                           /\ UNCHANGED wr => (Reached("store", wr, a)' <=> Reached("store", wr, a))
BY DEF Reached, Working, Through

(* All of a transfer is reached at its end. *)
LEMMA ReachedAll ==
    ASSUME Tokens, NEW u \in Units, NEW v, Through(v, len[u]) = Words(len[u]), NEW a \in Addr
    PROVE  Reached(u, v, a)
<1>1. len[u] \in Nat /\ a \in Nat
  BY LengthIs, InMemory
<1> DEFINE m == len[u]
<1>2. W * Words(m) = N * m /\ N * m \in Nat
  BY <1>1, TransferIsAll
<1> DEFINE c == N * m
<1>3. W * Through(v, m) = c /\ c \in Nat
  BY <1>2
<1> HIDE DEF c
<1>4. a < W * Through(v, m) \/ a >= c
  BY <1>1, <1>3
<1>5. QED
  BY <1>4 DEF Reached, c

(* A trigger taken or an interrupt raised moves no word. *)
LEMMA StartsAndEnds ==
    ASSUME Tokens, NEW u \in Units, NEW v, NEW w, TakeStart(u, v, w) \/ RaiseIRQ(u, v, w),
           Busy(u) <=> v.at # "idle", UNCHANGED <<waiting, len>>
    PROVE  /\ \A x \in Units : x # u => irq'[x] = irq[x]
           /\ \A a \in Addr :
                (Working(u)' => a < W * Through(w, len[u]) \/ a >= N * len[u]) => Reached(u, v, a)
<1>1. irq = [x \in Units |-> irq[x]] /\ Token(u)
  BY DEF Tokens
<1>2. CASE TakeStart(u, v, w)
  <2>1. start[u] # << >> /\ w = [Idle EXCEPT !.at = "addr", !.left = Words(Head(start[u]))]
    BY <1>2 DEF TakeStart, HasMsg
  <2>2. Head(start[u]) = len[u] /\ len[u] \in Nat /\ len[u] >= 1
    BY <2>1, TriggerIs
  <2>3. w.at = "addr" /\ w.burst = 0
    BY <2>1, <2>2, BurstStarts
  <2>4. Through(w, len[u]) = 0
    BY <2>3, BurstAssumption DEF Through
  <2>5. Through(v, len[u]) = 0
    BY <1>2 DEF TakeStart, Through
  <2>6. UNCHANGED irq
    BY <1>2 DEF TakeStart
  <2>7. QED
    BY <2>4, <2>5, <2>6 DEF Reached, Working
<1>3. CASE RaiseIRQ(u, v, w)
  <2>1. Through(v, len[u]) = Words(len[u])
    BY <1>3 DEF RaiseIRQ, Through
  <2>2. irq' = [irq EXCEPT ![u] = Append(@, 1)]
    BY <1>3 DEF RaiseIRQ
  <2>3. QED
    BY <1>1, <2>1, <2>2, ReachedAll
<1>4. QED
  BY <1>2, <1>3

(* The address of a burst moves no word. *)
LEMMA ThroughBurst ==
    ASSUME NEW m \in Nat, NEW u, Burster(u, m), u.at = "addr"
    PROVE  Through(NextBurst(u), m) = Through(u, m)
<1> DEFINE v == NextBurst(u)
<1>1. v.at = "data" /\ v.i = 0 /\ v.burst = u.burst
  BY BurstGoesOut
<1>2. u.burst * Burst \in Nat
  <2>1. u.burst \in Nat /\ Burst \in Nat
    BY BurstAssumption DEF Burster, Stage
  <2>2. QED
    BY <2>1
<1> HIDE DEF v
<1>3. Through(v, m) = u.burst * Burst + 0
  BY <1>1 DEF Through
<1>4. Through(u, m) = u.burst * Burst
  BY DEF Through
<1>5. QED
  BY <1>2, <1>3, <1>4 DEF v

(* A word moves one. *)
LEMMA ThroughWord ==
    ASSUME NEW m \in Nat, NEW u, Burster(u, m), u.at = "data"
    PROVE  /\ Through(u, m) \in Nat /\ Through(u, m) < Words(m) /\ Through(NextWord(u), m) = Through(u, m) + 1
           /\ u.burst \in Nat /\ u.i \in Nat /\ Through(u, m) = u.burst * Burst + u.i
<1> DEFINE v == NextWord(u)
           x == u.burst * Burst
<1>0. Burst \in Nat /\ Burst >= 1 /\ Words(m) \in Nat
  BY BurstAssumption, WordsPositive
<1>1. /\ u \in Stage /\ u.i <= u.len /\ u.len < Burst
      /\ x + u.len + 1 + u.left = Words(m)
      /\ u.left > 0 => u.len = Burst - 1
  BY DEF Burster
<1>2. u.left \in Nat /\ u.burst \in Nat /\ u.i \in Nat /\ u.len \in Nat
  BY <1>1 DEF Stage
<1>3. x \in Nat /\ (u.burst + 1) * Burst = x + Burst
  BY <1>0, <1>2
<1>4. Through(u, m) = x + u.i
  BY DEF Through
<1>5. /\ u.i < u.len => v.at = "data" /\ v.i = u.i + 1 /\ v.burst = u.burst
      /\ ~(u.i < u.len) => v.at = (IF u.left > 0 THEN "addr" ELSE "irq") /\ u.i = u.len
                           /\ v.burst = u.burst + 1
  BY WordGoesOut
<1>6. x = u.burst * Burst
  OBVIOUS
<1> HIDE DEF v, x
<1>7. Through(v, m) = x + u.i + 1
  <2>1. CASE u.i < u.len
    <3>1. Through(v, m) = v.burst * Burst + v.i
      BY <1>5, <2>1 DEF Through
    <3>2. Through(v, m) = x + (u.i + 1)
      BY <1>5, <1>6, <2>1, <3>1
    <3>3. QED
      BY <1>2, <1>3, <3>2
  <2>2. CASE ~(u.i < u.len) /\ u.left > 0
    <3>1. v.at = "addr" /\ u.i = u.len /\ v.burst = u.burst + 1 /\ u.len = Burst - 1
      BY <1>1, <1>5, <2>2
    <3>2. Through(v, m) = v.burst * Burst
      BY <3>1 DEF Through
    <3>3. Through(v, m) = x + Burst
      BY <1>3, <3>1, <3>2
    <3>4. QED
      BY <1>0, <1>2, <1>3, <3>1, <3>3
  <2>3. CASE ~(u.i < u.len) /\ ~(u.left > 0)
    <3>1. v.at = "irq" /\ u.i = u.len /\ u.left = 0
      BY <1>2, <1>5, <2>3
    <3>2. Through(v, m) = Words(m)
      BY <3>1 DEF Through
    <3>3. QED
      BY <1>0, <1>1, <1>2, <1>3, <3>1, <3>2
  <2>4. QED
    BY <2>1, <2>2, <2>3
<1>8. x + u.i < Words(m)
  BY <1>0, <1>1, <1>2, <1>3
<1>9. QED
  BY <1>2, <1>3, <1>4, <1>6, <1>7, <1>8 DEF v

(* The addresses of a word follow those of the words before. *)
LEMMA WordBytes ==
    ASSUME NEW m \in 0 .. Entries, NEW burst \in Nat, NEW i \in Nat, NEW p \in Nat,
           p = burst * Burst + i, p < Words(m)
    PROVE  /\ W * p \in Nat /\ W * (p + 1) = W * p + W
           /\ \A j \in 0 .. W-1 : ByteAddr(burst, i, j) = W * p + j /\ ByteAddr(burst, i, j) \in Addr
           /\ \A a \in Nat : a >= W * p /\ a < W * (p + 1) =>
                 \E j \in 0 .. W-1 : ByteAddr(burst, i, j) = a
<1>0. /\ W \in Nat /\ W >= 1 /\ Words(m) \in Nat /\ W * Words(m) = N * m /\ Burst \in Nat
      /\ N \in Nat /\ m \in Nat /\ N * m \in Nat
  BY TransferIsAll, BurstAssumption, NAssumption, EntriesAssumption
<1>1. W * p \in Nat /\ W * (p + 1) = W * p + W
  BY <1>0
<1>2. W * i + burst * W * Burst = W * p
  <2>1. burst * Burst \in Nat
    BY <1>0
  <2>2. W * (burst * Burst + i) = W * (burst * Burst) + W * i
    BY <1>0, <2>1
  <2>3. burst * W * Burst = W * (burst * Burst)
    BY <1>0
  <2>4. W * (burst * Burst) \in Nat /\ W * i \in Nat
    BY <1>0, <2>1
  <2> DEFINE y == W * (burst * Burst)
             z == burst * W * Burst
             c == W * i
             d == W * p
  <2>5. y \in Nat /\ c \in Nat /\ z = y /\ d = y + c
    BY <2>2, <2>3, <2>4
  <2> HIDE DEF y, z, c, d
  <2>6. c + z = d
    BY <2>5
  <2>7. QED
    BY <2>6 DEF c, z, d
<1> DEFINE b == W * p
<1>3. b \in Nat /\ b + W <= N * m /\ N * m \in Nat
  <2>1. W * (p + 1) <= W * Words(m)
    BY <1>0
  <2>2. QED
    BY <1>0, <1>1, <2>1
<1>4. \A j \in Nat : ByteAddr(burst, i, j) = j + b
  BY <1>2, ByteAddrNat
<1> HIDE DEF b
<1>5. ASSUME NEW j \in 0 .. W-1 PROVE ByteAddr(burst, i, j) = b + j /\ ByteAddr(burst, i, j) \in Addr
  <2>1. ByteAddr(burst, i, j) = j + b /\ j \in Nat /\ j <= W-1
    BY <1>0, <1>4
  <2> DEFINE c == N * m
             a == ByteAddr(burst, i, j)
  <2>2. c \in Nat /\ b + W <= c
    BY <1>3
  <2> HIDE DEF c, a
  <2>3. a = b + j /\ a \in Nat /\ a < c
    BY <1>0, <1>3, <2>1, <2>2 DEF a
  <2>4. a \in Addr
    BY <2>3, InMemory DEF c
  <2>5. QED
    BY <2>3, <2>4 DEF a
<1>6. ASSUME NEW a \in Nat, a >= b, a < b + W PROVE \E j \in 0 .. W-1 : ByteAddr(burst, i, j) = a
  <2>1. a - b \in 0 .. W-1 /\ a - b \in Nat
    BY <1>0, <1>3, <1>6
  <2>2. ByteAddr(burst, i, a - b) = (a - b) + b
    BY <1>4, <2>1
  <2>3. ByteAddr(burst, i, a - b) = a
    BY <1>3, <2>2
  <2>4. QED
    BY <2>1, <2>3
<1>7. QED
  BY <1>1, <1>5, <1>6 DEF b

-----------------------------------------------------------------------------
(* Steps of InputAxi *)

(* The computation is not touched by the masters' registers. *)
LEMMA ComValuesSame ==
    ASSUME Values,
           UNCHANGED <<input, output, waiting, irq["com"], M, rq, start_wr, ws, ctr, wreg, fed, out, act_out,
                       Req(0), Rsp(0), Req(1), Banks(1)>>
    PROVE  Requests' /\ OutputRight' /\ BeatsRight' /\ ArrayRight' /\ Wavefront'
<1>0. Requests /\ OutputRight /\ BeatsRight /\ ArrayRight /\ Wavefront
  BY DEF Values
<1>1. UNCHANGED Stores
  BY DEF Stores
<1>2. Answers' = Answers
  BY AnswersSame
<1>3. Requests' /\ OutputRight' /\ BeatsRight'
  BY <1>0, <1>1, <1>2, RequestsSame, OutputSame, BeatValuesSame
<1>4. ArrayRight' /\ Wavefront'
  BY <1>0, ArrayValuesSame
<1>5. QED
  BY <1>3, <1>4

(* MasterRead takes a trigger, goes out with an address, or is done. *)
LEMMA MasterReadKeepsValues ==
    ASSUME Shape, Values, MasterReadTrig \/ MasterReadAddr
    PROVE  Values'
<1>0. /\ UNCHANGED <<memoryVars, id, waiting, input, output, saved, loads, wr, ext,
                     rq, start_wr, ws, ctr, wreg, fed, out, act_out>>
      /\ Tokens /\ Burster(rd, len["load"]) /\ InputRight /\ SavedRight /\ UNCHANGED <<len, M>>
  BY DEF Shape, MasterShape, Values, MasterReadTrig, MasterReadAddr, setupVars, hostVars, M
<1>1. UNCHANGED <<Req(0), Req(1), Rsp(0), Rsp(1), Banks(0), Banks(1)>>
  BY <1>0, ViewSame
<1>2. "load" \in Units /\ "store" \in Units /\ "com" \in Units /\ (Busy("load") <=> rd.at # "idle")
  BY DEF Busy, Units
<1>3. /\ irq'["store"] = irq["store"] /\ irq'["com"] = irq["com"]
      /\ \A a \in Addr : Reached("load", rd, a)' => Reached("load", rd, a)
  <2>1. CASE MasterReadTrig
    <3>1. TakeStart("load", rd, rd') \/ RaiseIRQ("load", rd, rd')
      BY <2>1 DEF MasterReadTrig
    <3>2. PICK w : w = rd'
      OBVIOUS
    <3>3. TakeStart("load", rd, w) \/ RaiseIRQ("load", rd, w)
      BY <3>1, <3>2 DEF TakeStart, RaiseIRQ
    <3>4. /\ \A x \in Units : x # "load" => irq'[x] = irq[x]
          /\ \A a \in Addr :
               (Working("load")' => a < W * Through(w, len["load"]) \/ a >= N * len["load"])
               => Reached("load", rd, a)
      BY <1>0, <1>2, <3>3, StartsAndEnds
    <3>5. \A a \in Addr : Reached("load", rd, a)' =>
             (Working("load")' => a < W * Through(rd', len["load"]) \/ a >= N * len["load"])
      BY <1>0 DEF Reached, Through
    <3>6. QED
      BY <1>2, <3>2, <3>4, <3>5
  <2>2. CASE MasterReadAddr
    <3>1. rd.at = "addr" /\ rd' = NextBurst(rd) /\ UNCHANGED irq
      BY <2>2 DEF MasterReadAddr
    <3>2. Through(NextBurst(rd), len["load"]) = Through(rd, len["load"])
      BY <1>0, <1>2, <3>1, LengthIs, ThroughBurst
    <3>3. Through(rd, len["load"])' = Through(rd, len["load"])
      BY <1>0, <3>1, <3>2 DEF Through
    <3>4. QED
      BY <1>0, <3>1, <3>3 DEF Reached, Working
  <2>3. QED
    BY <2>1, <2>2
<1>4. \A a \in Addr : Reached("store", wr, a)' <=> Reached("store", wr, a)
  BY <1>0, <1>3 DEF Reached, Working, Through
<1>5. InputRight' /\ SavedRight'
  BY <1>0, <1>1, <1>3, <1>4, InputSame, SavedSame
<1>6. QED
  BY <1>0, <1>1, <1>3, <1>5, ComValuesSame DEF Values

(* So does MasterWrite. *)
LEMMA MasterWriteKeepsValues ==
    ASSUME Shape, Values, MasterWriteTrig \/ MasterWriteAddr
    PROVE  Values'
<1>0. /\ UNCHANGED <<memoryVars, id, waiting, input, output, saved, loads, rd, ext,
                     rq, start_wr, ws, ctr, wreg, fed, out, act_out>>
      /\ Tokens /\ Burster(wr, len["store"]) /\ InputRight /\ SavedRight /\ UNCHANGED <<len, M>>
  BY DEF Shape, MasterShape, Values, MasterWriteTrig, MasterWriteAddr, setupVars, hostVars, M
<1>1. UNCHANGED <<Req(0), Req(1), Rsp(0), Rsp(1), Banks(0), Banks(1)>>
  BY <1>0, ViewSame
<1>2. "load" \in Units /\ "store" \in Units /\ "com" \in Units /\ (Busy("store") <=> wr.at # "idle")
  BY DEF Busy, Units
<1>3. /\ irq'["load"] = irq["load"] /\ irq'["com"] = irq["com"]
      /\ wr.at # "data"
      /\ \A a \in Addr : Reached("store", wr, a)' => Reached("store", wr, a)
  <2>1. CASE MasterWriteTrig
    <3>1. TakeStart("store", wr, wr') \/ RaiseIRQ("store", wr, wr')
      BY <2>1 DEF MasterWriteTrig
    <3>2. PICK w : w = wr'
      OBVIOUS
    <3>3. TakeStart("store", wr, w) \/ RaiseIRQ("store", wr, w)
      BY <3>1, <3>2 DEF TakeStart, RaiseIRQ
    <3>4. /\ \A x \in Units : x # "store" => irq'[x] = irq[x]
          /\ \A a \in Addr :
               (Working("store")' => a < W * Through(w, len["store"]) \/ a >= N * len["store"])
               => Reached("store", wr, a)
      BY <1>0, <1>2, <3>3, StartsAndEnds
    <3>5. \A a \in Addr : Reached("store", wr, a)' =>
             (Working("store")' => a < W * Through(wr', len["store"]) \/ a >= N * len["store"])
      BY <1>0 DEF Reached, Through
    <3>6. wr.at # "data"
      BY <3>1 DEF TakeStart, RaiseIRQ
    <3>7. QED
      BY <1>2, <3>2, <3>4, <3>5, <3>6
  <2>2. CASE MasterWriteAddr
    <3>1. wr.at = "addr" /\ wr' = NextBurst(wr) /\ UNCHANGED irq
      BY <2>2 DEF MasterWriteAddr
    <3>2. Through(NextBurst(wr), len["store"]) = Through(wr, len["store"])
      BY <1>0, <1>2, <3>1, LengthIs, ThroughBurst
    <3>3. Through(wr, len["store"])' = Through(wr, len["store"])
      BY <1>0, <3>1, <3>2 DEF Through
    <3>4. QED
      BY <1>0, <3>1, <3>3 DEF Reached, Working
  <2>3. QED
    BY <2>1, <2>2
<1>4. \A a \in Addr : Reached("load", rd, a)' <=> Reached("load", rd, a)
  BY <1>0, <1>3 DEF Reached, Working, Through
<1>5. InputRight'
  BY <1>0, <1>1, <1>4, InputSame
<1>6. SavedRight'
  <2>1. Rsp(1)' = << >>
    BY <1>1, <1>3 DEF Shape, StorePath
  <2>2. Runs(Rsp(1), Reads(WordLoads(wr.burst), output), wr.i)'
    BY <2>1, QueueOf DEF Runs
  <2>3. QED
    BY <1>0, <1>3, <2>2 DEF SavedRight, IsBuffer
<1>7. QED
  BY <1>0, <1>1, <1>3, <1>5, <1>6, ComValuesSame DEF Values

(* MasterWriteReq takes up a burst. *)
LEMMA WriteReqTrigKeepsValues ==
    ASSUME Shape, Values, MasterWriteReqTrig
    PROVE  Values'
<1>0. /\ UNCHANGED <<memoryVars, id, waiting, irq, input, output, saved, loads, rd, wr, ext,
                     rq, start_wr, ws, ctr, wreg, fed, out, act_out, len, M>>
      /\ InputRight /\ SavedRight
  BY DEF Values, MasterWriteReqTrig, setupVars, hostVars, M
<1>1. UNCHANGED <<Req(0), Req(1), Rsp(0), Rsp(1), Banks(0), Banks(1)>>
  BY <1>0, ViewSame
<1>2. InputRight' /\ SavedRight'
  BY <1>0, <1>1, ReachedSame, InputSame, SavedSame
<1>3. QED
  BY <1>0, <1>1, <1>2, ComValuesSame DEF Values

(* A word's addresses are in the memory, each in a bank of its own. *)
LEMMA WordFormed ==
    ASSUME NEW m \in 0 .. Entries, NEW burst \in Nat, NEW i \in Nat, burst * Burst + i < Words(m)
    PROVE  /\ Formed(Load(WordAddr(burst, i)))
           /\ \A data : DOMAIN data = 0 .. W-1 => Formed(Store(WordAddr(burst, i), data))
<1> DEFINE addr == WordAddr(burst, i)
           p == burst * Burst + i
<1>1. p \in Nat
  BY BurstAssumption
<1>2. \A j \in 0 .. W-1 : ByteAddr(burst, i, j) \in Addr
  BY <1>1, WordBytes
<1>3. /\ DOMAIN addr = 0 .. W-1 /\ DOMAIN addr \subseteq Port
      /\ \A j \in DOMAIN addr : addr[j] \in Addr
  BY <1>2, WAssumption, NAssumption DEF WordAddr, Port
<1>4. Spread(addr)
  <2>1. IsLoads(WordLoads(burst)) /\ WordLoads(burst)[i] = Load(addr)
    BY WordSpread DEF WordLoads
  <2>2. Load(addr).addr = addr
    BY DEF Load
  <2>3. QED
    BY <2>1, <2>2 DEF IsLoads
<1> HIDE DEF addr
<1>5. Formed(Load(addr))
  BY <1>3, <1>4 DEF Formed, IsRequest, Load
<1>6. ASSUME NEW data, DOMAIN data = 0 .. W-1 PROVE Formed(Store(addr, data))
  BY <1>3, <1>4, <1>6 DEF Formed, IsRequest, Store
<1>7. QED
  BY <1>5, <1>6 DEF addr

(* MasterRead stores a word of the matrix. *)
LEMMA ReadDataKeepsValues ==
    ASSUME Shape, Values, MasterReadData
    PROVE  Values'
<1>0. /\ Tokens /\ SideUse /\ MemShape /\ PortTypes /\ Exclusive /\ FlipAlone /\ Burster(rd, len["load"])
      /\ UNCHANGED <<req_inter, split_id, split_reg, flipVars, mergeVars, coreVars, id, waiting,
                     start, irq, wr, ext, rq, start_wr, ws, ctr, wreg, fed, out, act_out,
                     input, output, saved, loads, len, M>>
      /\ rd.at = "data" /\ rd' = NextWord(rd) /\ HasRoom(mem_req[0])
      /\ Requests /\ InputRight /\ SavedRight /\ BeatsRight
  BY DEF Shape, Values, MasterShape, MasterReadData, setupVars, hostVars, M
<1> DEFINE b == rd.burst
           i == rd.i
           addr == WordAddr(b, i)
           data == [j \in 0 .. W-1 |-> In(loads, ByteAddr(b, i, j))]
           req == Store(addr, data)
           p == b * Burst + i
           m == len["load"]
<1>1. req.type = "store" /\ mem_req' = [mem_req EXCEPT ![0] = Append(@, req)]
  BY DEF MasterReadData, Store, WordAddr
<1>5. "load" \in waiting /\ "com" \notin waiting /\ irq["load"] = << >> /\ m \in 1 .. Entries /\ m \in Nat
  <2>1. "load" \in waiting /\ "com" \notin waiting
    BY <1>0, WorkIsWaited
  <2>2. "load" \in Units /\ Busy("load")
    BY <1>0 DEF Busy, Units
  <2>3. Token("load")
    BY <1>0, <2>2 DEF Tokens
  <2>4. QED
    BY <2>1, <2>2, <2>3 DEF Token
<1>2. /\ b \in Nat /\ i \in Nat /\ p < Words(m) /\ Through(rd, m) = p /\ p \in Nat
      /\ Through(rd', m) = p + 1
  BY <1>0, <1>5, ThroughWord
<1>3. Formed(req) /\ m \in 0 .. Entries
  <2> HIDE DEF m
  <2>1. m \in 0 .. Entries
    BY <1>5, EntriesAssumption
  <2>2. QED
    BY <1>2, <2>1, WordFormed
<1>4. /\ W * (p + 1) = W * p + W
      /\ \A j \in 0 .. W-1 : ByteAddr(b, i, j) = W * p + j /\ ByteAddr(b, i, j) \in Addr
      /\ \A a \in Nat : a >= W * p /\ a < W * (p + 1) => \E j \in 0 .. W-1 : ByteAddr(b, i, j) = a
  <2> HIDE DEF b, i, m
  <2>1. b \in Nat /\ i \in Nat /\ p \in Nat /\ p = b * Burst + i /\ p < Words(m)
    BY <1>2
  <2> HIDE DEF p
  <2>2. QED
    BY <1>3, <2>1, WordBytes
<1>6. \A a \in Addr : /\ a < N * m => input[a] = In(loads, a)
                      /\ a < W * p \/ a >= N * m => WillHold(Req(0), Banks(0), a, input[a])
  BY <1>0, <1>2, <1>5 DEF InputRight, Reached
<1>7. \A a \in Addr : Reached("load", rd, a)' => a < W * (p + 1) \/ a >= N * m
  <2>1. Working("load")' /\ len'["load"] = m
    BY <1>0, <1>5 DEF Working
  <2>2. Through(rd, len["load"])' = Through(rd', m)
    BY <2>1 DEF Through
  <2>3. QED
    BY <1>2, <2>1, <2>2 DEF Reached
<1>21. W * (p + 1) <= N * m /\ N * m \in Nat /\ W * p \in Nat
  <2>1. W * Words(m) = N * m /\ N * m \in Nat /\ Words(m) \in Nat /\ W \in Nat
    BY <1>5, TransferIsAll
  <2>2. W * (p + 1) <= W * Words(m) /\ W * p \in Nat
    BY <1>2, <2>1
  <2>3. QED
    BY <2>1, <2>2
<1>8. ASSUME NEW a \in Addr
      PROVE  /\ Touches(req, a) => Puts(req, a, input[a]) /\ a < N * m
             /\ a >= W * p /\ a < W * (p + 1) => Touches(req, a)
  <2>1. DOMAIN addr = 0 .. W-1 /\ \A j \in 0 .. W-1 : addr[j] = ByteAddr(b, i, j) /\ data[j] = In(loads, ByteAddr(b, i, j))
    BY DEF WordAddr
  <2>2. req.addr = addr /\ req.data = data /\ req.type = "store"
    BY DEF Store
  <2>3. a \in Nat /\ W \in Nat
    BY InMemory, WAssumption, NAssumption
  <2>7. a < N * m => input[a] = In(loads, a)
    BY <1>6
  <2> HIDE DEF req, addr, data, p, b, i, m
  <2>4. Touches(req, a) => Puts(req, a, input[a]) /\ a < N * m
    <3>1. ASSUME NEW j \in 0 .. W-1, ByteAddr(b, i, j) = a PROVE a < N * m
      <4>1. a = W * p + j /\ j < W
        BY <1>4, <2>3, <3>1
      <4>2. QED
        BY <1>4, <1>21, <2>3, <4>1
    <3>2. QED
      BY <2>1, <2>2, <2>7, <3>1 DEF Touches, Puts
  <2>5. a >= W * p /\ a < W * (p + 1) => Touches(req, a)
    BY <1>4, <2>1, <2>2, <2>3 DEF Touches
  <2>6. QED
    BY <2>4, <2>5
<1> HIDE DEF req, p, m
<1>9. /\ mem_req[1] = << >>
      /\ Asks(0, req)
  <2>1. AllOf(Req(0), "store")
    BY <1>0, <1>5 DEF SideUse
  <2>2. mem_req[1] = << >>
    BY <1>0, <2>1, OtherPort
  <2>3. 0 \in Ids /\ 0 \in {2*0, 2*0+1} /\ waiting # {}
    BY <1>5 DEF Ids
  <2>4. \A d \in {2*0, 2*0+1} : d # 0 => mem_req[d] = << >>
    BY <2>2
  <2>5. QED
    BY <1>0, <1>1, <2>2, <2>3, <2>4, AskKeeps
<1>10. Req(0)' = Req(0) \o <<req>> /\ UNCHANGED <<Rsp(0), Banks(0), Req(1), Rsp(1), Banks(1)>>
  BY <1>9 DEF Asks
<1> DEFINE q == Req(0)
<1>11. IsQueue(q)
  BY <1>0, Parts DEF Ids
<1>12. ASSUME NEW a \in Addr, a < W * (p + 1) \/ a >= N * m
       PROVE  WillHold(Req(0), Banks(0), a, input[a])'
  <2> DEFINE v == input[a]
             bank == Banks(0)
  <2>1. Puts(req, a, v) \/ (~Touches(req, a) /\ WillHold(q, bank, a, v))
    <3>1. a \in Nat
      BY InMemory
    <3>2. a < W * p \/ a >= W * p
      BY <1>21, <3>1
    <3>4. ASSUME a >= N * m PROVE ~(a < N * m)
      BY <1>21, <3>1, <3>4
    <3>3. QED
      BY <1>6, <1>8, <1>12, <3>2, <3>4
  <2> HIDE DEF q, v, bank
  <2>2. WillHold(q \o <<req>>, bank, a, v)
    BY <1>11, <2>1, HoldsAsk
  <2>3. WillHold(Req(0)', Banks(0)', a, input'[a])
    BY <1>0, <1>10, <2>2 DEF q, v, bank
  <2>4. QED
    BY <2>3 DEF WillHold, Puts, Touches
<1>13. InputRight'
  BY <1>0, <1>7, <1>12 DEF InputRight, IsBuffer, In
<1>14. \A a \in Addr : Reached("store", wr, a)' <=> Reached("store", wr, a)
  BY <1>0, ReachedSame
<1>15. SavedRight'
  BY <1>0, <1>10, <1>14, SavedSame
<1>16. Requests'
  <2>1. AllFormed(q) /\ AllFormed(Stores)
    BY <1>0 DEF Requests
  <2> HIDE DEF q
  <2>2. AllFormed(q \o <<req>>)
    BY <1>3, <1>11, <2>1, FormedAsk DEF req
  <2>3. Stores' = Stores
    BY <1>0, <1>10 DEF Stores
  <2>4. AllFormed(Req(0)') /\ AllFormed(Stores')
    BY <1>10, <2>1, <2>2, <2>3 DEF q
  <2>5. QED
    BY <2>4 DEF Requests, AllFormed, Formed, IsRequest, Spread
<1>17. OutputRight'
  <2>1. UNCHANGED Stores /\ OutputRight
    BY <1>0, <1>10 DEF Stores, Values
  <2>2. QED
    BY <1>0, <1>10, <2>1, OutputSame
<1>18. BeatsRight'
  BY <1>0, <1>5 DEF BeatsRight
<1>19. ArrayRight' /\ Wavefront'
  BY <1>0, ArrayValuesSame DEF Values
<1>20. QED
  BY <1>13, <1>15, <1>16, <1>17, <1>18, <1>19 DEF Values

(* MasterWriteReq asks for a word. *)
LEMMA ReqPushKeepsValues ==
    ASSUME Shape, Values, MasterWriteReqPush
    PROVE  Values'
<1>0. /\ StorePath /\ MemShape /\ PortTypes /\ Exclusive /\ FlipAlone /\ ComShape /\ Tokens
      /\ Burster(wr, len["store"])
      /\ UNCHANGED <<req_inter, split_id, split_reg, flipVars, mergeVars, coreVars, id, waiting,
                     start, irq, rd, wr, ext, rq, start_wr, ws, ctr, wreg, fed, out, act_out,
                     input, output, saved, loads, len, M>>
      /\ wq.at = "data" /\ HasRoom(mem_req[3])
      /\ Requests /\ InputRight /\ SavedRight /\ BeatsRight /\ OutputRight
  BY DEF Shape, Values, MasterShape, MasterWriteReqPush, setupVars, hostVars, M
<1>1. wr.at = "data"
  BY <1>0 DEF StorePath
<1>2. /\ "store" \in waiting /\ "com" \notin waiting /\ AllOf(Req(1), "load") /\ mem_req[2] = << >>
      /\ wr.i \in Nat /\ wr.burst \in Nat /\ wq \in Stage /\ StoreStage
      /\ Len(Req(1)) \in Nat /\ Len(Rsp(1)) \in Nat /\ IsQueue(Req(1))
  BY <1>1, NotRunning
<1>3. wq.burst = wr.burst /\ wq.len = wr.len /\ wq.i <= wq.len
  BY <1>0, <1>2 DEF StoreStage
<1>4. wq.i \in Nat /\ wq.len \in Nat
  BY <1>2 DEF Stage
<1> DEFINE req == Load(WordAddr(wq.burst, wq.i))
<1>5. Formed(req)
  <2> DEFINE x == wr.burst * Burst
  <2>1. x \in Nat
    BY <1>2, BurstAssumption
  <2> DEFINE m == len["store"]
  <2>2. x + wr.len + 1 + wr.left = Words(m) /\ wr.left \in Nat
    BY <1>0, <1>1 DEF Burster, Stage
  <2>8. m \in Nat /\ m \in 0 .. Entries
    <3>1. "store" \in Units
      BY DEF Units
    <3>2. QED
      BY <1>0, <1>2, <3>1, LengthIs, EntriesAssumption
  <2> HIDE DEF m
  <2>3. Words(m) \in Nat
    BY <2>8, WordsPositive
  <2>4. x = wq.burst * Burst /\ wq.burst \in Nat
    BY <1>2, <1>3
  <2> HIDE DEF x
  <2>5. x + wq.i < Words(m)
    BY <1>3, <1>4, <2>1, <2>2, <2>3
  <2>6. wq.burst * Burst + wq.i < Words(m)
    BY <2>4, <2>5
  <2>7. QED
    BY <1>4, <2>4, <2>6, <2>8, WordFormed
<1>6. req.type = "load" /\ mem_req' = [mem_req EXCEPT ![3] = Append(@, req)]
  BY DEF MasterWriteReqPush, Load, WordAddr
<1> HIDE DEF req
<1>7. Asks(1, req)
  <2>1. 1 \in Ids /\ 3 \in {2*1, 2*1+1} /\ waiting # {}
    BY <1>2 DEF Ids
  <2>2. \A d \in {2*1, 2*1+1} : d # 3 => mem_req[d] = << >>
    BY <1>2
  <2>3. req.type = (IF 3 \in {0, 2} THEN "store" ELSE "load")
    BY <1>6
  <2>4. QED
    BY <1>0, <1>6, <2>1, <2>2, <2>3, AskKeeps
<1>8. Req(1)' = Req(1) \o <<req>> /\ UNCHANGED <<Rsp(1), Banks(1), Req(0), Rsp(0), Banks(0)>>
  BY <1>7 DEF Asks
<1>9. wreg = << >>
  <2>1. ~Running
    BY <1>0, <1>2, WorkIsWaited
  <2>2. QED
    BY <1>0, <2>1 DEF ComShape, Running
<1> DEFINE q == Req(1)
<1>10. IsQueue(q) /\ Stores = q /\ Stores' = q \o <<req>>
  <2>1. Stores = q \o << >> /\ Stores' = Req(1)' \o << >>
    BY <1>0, <1>9 DEF Stores
  <2>2. IsQueue(q) /\ Req(1)' = q \o <<req>>
    BY <1>2, <1>8
  <2> HIDE DEF q
  <2>3. q \o << >> = q /\ IsQueue(q \o <<req>>)
    BY <2>2, QueueIs, QueueAppend
  <2> DEFINE r == q \o <<req>>
  <2>4. IsQueue(r)
    BY <2>3
  <2> HIDE DEF r
  <2>5. r \o << >> = r
    BY <2>4, QueueIs
  <2>6. QED
    BY <2>1, <2>2, <2>3, <2>5 DEF r
<1>11. Requests'
  <2>1. AllFormed(Req(0)) /\ AllFormed(q)
    BY <1>0, <1>10 DEF Requests
  <2> HIDE DEF q
  <2>2. AllFormed(q \o <<req>>)
    BY <1>5, <1>10, <2>1, FormedAsk
  <2>3. AllFormed(Req(0)') /\ AllFormed(Stores')
    BY <1>8, <1>10, <2>1, <2>2
  <2>4. QED
    BY <2>3 DEF Requests, AllFormed, Formed, IsRequest, Spread
<1>12. ASSUME NEW j \in Port, NEW n \in 0 .. Entries-1, Kept(j, n)'
       PROVE  WillHold(Stores, Banks(1), N*n + j, output[N*n + j])'
  <2> DEFINE a == N*n + j
             v == output[a]
             m == Banks(1)
  <2>1. Kept(j, n)' <=> Kept(j, n)
    BY <1>0 DEF Kept, Working, Ctr
  <2>2. WillHold(q, m, a, v)
    BY <1>0, <1>10, <1>12, <2>1 DEF OutputRight
  <2> HIDE DEF q, a, v, m
  <2>3. WillHold(q \o <<req>>, m, a, v)
    BY <1>6, <1>10, <2>2, HoldsLoad
  <2>4. WillHold(Stores', Banks(1)', a, output'[a])
    BY <1>0, <1>8, <1>10, <2>3 DEF v, m
  <2>5. QED
    BY <2>4 DEF WillHold, Puts, Touches, a
<1>13. OutputRight'
  BY <1>0, <1>2, <1>12 DEF OutputRight, IsBuffer
<1>14. InputRight' /\ SavedRight'
  BY <1>0, <1>8, ReachedSame, InputSame, SavedSame
<1>15. BeatsRight'
  BY <1>0, <1>2 DEF BeatsRight
<1>16. ArrayRight' /\ Wavefront'
  BY <1>0, ArrayValuesSame DEF Values
<1>17. QED
  BY <1>11, <1>13, <1>14, <1>15, <1>16 DEF Values

(* A word that comes back goes to where the outside wants it. *)
LEMMA WriteDataKeepsValues ==
    ASSUME Shape, Values, MasterWriteData
    PROVE  Values'
<1>0. /\ MemShape /\ PortTypes /\ Exclusive /\ FlipAlone /\ Tokens /\ Burster(wr, len["store"])
      /\ UNCHANGED <<rsp_inter, merge_id, merge_reg, flipVars, splitVars, coreVars, id, waiting,
                     start, irq, rd, rq, start_wr, ws, ctr, wreg, fed, out, act_out,
                     input, output, saved, loads, len, M>>
      /\ wr.at = "data" /\ HasMsg(mem_rsp[1])
      /\ mem_rsp' = [mem_rsp EXCEPT ![1] = Tail(@)] /\ wr' = NextWord(wr)
      /\ InputRight /\ SavedRight /\ BeatsRight
  BY DEF Shape, Values, MasterShape, MasterWriteData, setupVars, hostVars, M
<1>1. /\ "store" \in waiting /\ "com" \notin waiting /\ wr.i \in Nat /\ wr.burst \in Nat
      /\ IsQueue(Rsp(1)) /\ IsLoads(WordLoads(wr.burst)) /\ wr.i <= wr.len /\ wr.len \in Nat
  BY <1>0, NotRunning
<1> DEFINE b == wr.burst
           i == wr.i
           addr == WordAddr(b, i)
           p == b * Burst + i
           m == len["store"]
           F == Reads(WordLoads(b), output)
           r == Rsp(1)
           rsp == Head(mem_rsp[1])
<1>2. Gets(1)
  <2>1. 1 \in Ids /\ waiting # {}
    BY <1>1 DEF Ids
  <2>2. QED
    BY <1>0, <2>1, GetKeeps
<1>3. /\ r # << >> /\ Head(r) = rsp /\ Rsp(1)' = Tail(r) /\ IsQueue(r)
      /\ UNCHANGED <<Req(1), Banks(1), Req(0), Rsp(0), Banks(0)>>
  BY <1>1, <1>2 DEF Gets
<1>4. Runs(r, F, i) /\ i \in Int
  BY <1>0, <1>1 DEF SavedRight
<1>5. rsp = F[i] /\ Runs(Tail(r), F, i + 1)
  <2> HIDE DEF r, F, i, rsp
  <2>1. QED
    BY <1>3, <1>4, RunsTake
<1>6. rsp = [j \in 0 .. W-1 |-> output[ByteAddr(b, i, j)]]
  <2>1. F[i] = Loaded(output, Load(addr))
    BY <1>1 DEF Reads, WordLoads
  <2>2. Spread(addr)
    <3>1. WordLoads(b)[i] = Load(addr) /\ Load(addr).addr = addr
      BY <1>1 DEF WordLoads, Load
    <3>2. QED
      BY <1>1, <3>1 DEF IsLoads
  <2>3. Granted(addr) = DOMAIN addr
    BY <2>2, GrantedAll
  <2>4. DOMAIN addr = 0 .. W-1 /\ \A j \in 0 .. W-1 : addr[j] = ByteAddr(b, i, j)
    BY DEF WordAddr
  <2>5. Loaded(output, Load(addr)) = [j \in Granted(addr) |-> output[addr[j]]]
    BY DEF Loaded, Load
  <2> HIDE DEF addr, F
  <2>6. QED
    BY <1>5, <2>1, <2>3, <2>4, <2>5
<1>18. m \in Nat /\ m \in 0 .. Entries
  <2>1. "store" \in Units
    BY DEF Units
  <2>2. QED
    BY <1>0, <1>1, <2>1, LengthIs, EntriesAssumption
<1>7. /\ p < Words(m) /\ Through(wr, m) = p /\ p \in Nat /\ Through(wr', m) = p + 1
  BY <1>0, <1>18, ThroughWord
<1>19. W * (p + 1) <= N * m /\ N * m \in Nat /\ W * p \in Nat
  <2>1. W * Words(m) = N * m /\ N * m \in Nat /\ Words(m) \in Nat /\ W \in Nat
    BY <1>18, TransferIsAll
  <2>2. W * (p + 1) <= W * Words(m) /\ W * p \in Nat
    BY <1>7, <2>1
  <2>3. QED
    BY <2>1, <2>2
<1>8. /\ W * (p + 1) = W * p + W
      /\ \A j \in 0 .. W-1 : ByteAddr(b, i, j) = W * p + j
      /\ \A a \in Nat : a >= W * p /\ a < W * (p + 1) => \E j \in 0 .. W-1 : ByteAddr(b, i, j) = a
  <2> HIDE DEF b, i, m
  <2>1. b \in Nat /\ i \in Nat /\ p \in Nat /\ p = b * Burst + i /\ p < Words(m)
    BY <1>1, <1>7 DEF b, i
  <2> HIDE DEF p
  <2>2. QED
    BY <1>18, <2>1, WordBytes
<1>9. /\ ext' = [a \in Addr |-> ext'[a]]
      /\ \A a \in Addr : ext'[a] = IF \E j \in 0 .. W-1 : ByteAddr(b, i, j) = a THEN output[a] ELSE ext[a]
  <2> DEFINE bytes == {j \in 0 .. W-1 : j \in DOMAIN rsp}
  <2>1. ext' = [a \in Addr |-> IF \E j \in bytes : ByteAddr(b, i, j) = a
                               THEN rsp[CHOOSE j \in bytes : ByteAddr(b, i, j) = a]
                               ELSE ext[a]]
    BY DEF MasterWriteData
  <2>2. bytes = 0 .. W-1
    BY <1>6
  <2> HIDE DEF bytes, rsp
  <2>3. ASSUME NEW a \in Addr, \E j \in bytes : ByteAddr(b, i, j) = a
        PROVE  rsp[CHOOSE j \in bytes : ByteAddr(b, i, j) = a] = output[a]
    <3> DEFINE c == CHOOSE j \in bytes : ByteAddr(b, i, j) = a
    <3>1. c \in bytes /\ ByteAddr(b, i, c) = a
      BY <2>3
    <3> HIDE DEF c
    <3>2. rsp[c] = output[a]
      BY <1>6, <2>2, <3>1
    <3>3. QED
      BY <3>2 DEF c
  <2>4. QED
    BY <2>1, <2>2, <2>3
<1>10. Working("store") /\ Working("store")'
  <2>1. "store" \in Units /\ Busy("store")
    BY <1>0 DEF Busy, Units
  <2>2. QED
    BY <1>0, <1>1, <2>1 DEF Tokens, Token, Working
<1>11. \A a \in Addr : /\ Reached("store", wr, a) <=> a < W * p \/ a >= N * m
                       /\ Reached("store", wr, a)' <=> a < W * (p + 1) \/ a >= N * m
  <2>1. Through(wr, len["store"])' = Through(wr', m)
    BY <1>0 DEF Through
  <2>2. QED
    BY <1>0, <1>7, <1>10, <2>1 DEF Reached
<1>12. \A a \in Addr : a < N * m => saved[a] = output[a]
  BY <1>0, <1>1 DEF SavedRight
<1>13. ASSUME NEW a \in Addr, Reached("store", wr, a)' PROVE ext'[a] = saved'[a]
  <2>1. a \in Nat /\ W \in Nat
    BY InMemory, WAssumption, NAssumption
  <2> HIDE DEF p, b, i, m
  <2>2. ASSUME NEW j \in 0 .. W-1, ByteAddr(b, i, j) = a PROVE a < N * m
    <3>1. a = W * p + j /\ j < W
      BY <1>8, <2>1, <2>2
    <3>2. QED
      BY <1>8, <1>19, <2>1, <3>1
  <2>3. CASE \E j \in 0 .. W-1 : ByteAddr(b, i, j) = a
    BY <1>0, <1>9, <1>12, <2>2, <2>3
  <2>4. CASE ~ \E j \in 0 .. W-1 : ByteAddr(b, i, j) = a
    <3>1. a < W * p \/ a >= N * m
      <4>1. a < W * (p + 1) \/ a >= N * m
        BY <1>11, <1>13
      <4>2. ~(a >= W * p /\ a < W * (p + 1))
        BY <1>8, <2>1, <2>4
      <4>3. QED
        BY <1>19, <2>1, <4>1, <4>2
    <3>2. ext[a] = saved[a]
      BY <1>0, <1>11, <3>1 DEF SavedRight
    <3>3. QED
      BY <1>0, <1>9, <2>4, <3>2
  <2>5. QED
    BY <2>3, <2>4
<1>14. ASSUME wr'.at = "data" PROVE Runs(Rsp(1), Reads(WordLoads(wr.burst), output), wr.i)'
  <2>1. wr'.i = wr.i + 1 /\ wr'.burst = wr.burst
    BY <1>0, <1>14, <1>18, WordGoesOut
  <2>2. Runs(Rsp(1)', Reads(WordLoads(wr'.burst), output'), wr'.i)
    BY <1>0, <1>3, <1>5, <2>1
  <2>3. QED
    BY <2>2 DEF Runs, Reads, WordLoads, WordAddr, ByteAddr, Loaded, Load, Granted
<1>15. SavedRight'
  <2>1. IsBuffer(saved)' /\ IsBuffer(ext)'
    BY <1>0, <1>9 DEF SavedRight, IsBuffer
  <2>2. \A a \in Addr : a < N * len["store"]' => saved'[a] = output'[a]
    BY <1>0, <1>12
  <2>3. QED
    BY <1>13, <1>14, <2>1, <2>2 DEF SavedRight
<1>16. InputRight'
  BY <1>0, <1>3, ReachedSame, InputSame
<1>17. QED
  BY <1>0, <1>3, <1>15, <1>16, ComValuesSame DEF Values

-----------------------------------------------------------------------------
(* Steps of InputSetup *)

(* ReadReqRun takes a trigger and passes it on. *)
LEMMA ReadReqStartKeepsValues ==
    ASSUME Shape, Values, ReadReqStart
    PROVE  Values'
<1>0. /\ UNCHANGED <<memoryVars, id, waiting, irq, input, output, saved, loads, rd, wr, ext,
                     len, M, ws, ctr, wreg, fed, out, act_out>>
      /\ Tokens /\ ComShape /\ Requests /\ InputRight /\ SavedRight /\ OutputRight
      /\ BeatsRight /\ ArrayRight /\ Wavefront
  BY DEF Shape, Values, ReadReqStart, axiVars, hostVars, M
<1>1. UNCHANGED <<Req(0), Req(1), Rsp(0), Rsp(1), Banks(0), Banks(1)>> /\ UNCHANGED Stores
  BY <1>0, ViewSame
<1>2. Issued' = Issued
  <2>1. CASE /\ rq.at = "idle" /\ HasMsg(start["com"]) /\ UNCHANGED start_wr
             /\ rq' = [NoRun EXCEPT !.at = "trig", !.len = Head(start["com"])]
    <3>1. "com" \in Units /\ start["com"] # << >> /\ (Busy("com") <=> rq.at # "idle" \/ Running)
      BY <2>1 DEF Busy, Units, HasMsg
    <3>2. ~Running
      BY <1>0, <3>1 DEF Tokens, Token
    <3>3. rq'.at = "trig" /\ ~Running'
      BY <1>0, <2>1, <3>2 DEF NoRun, Running
    <3>4. QED
      BY <2>1, <3>2, <3>3 DEF Issued
  <2>2. CASE rq.at = "trig" /\ start_wr' = Append(start_wr, rq.len) /\ rq' = [rq EXCEPT !.at = "beat"]
    <3>1. ~Running /\ rq.i = 0
      BY <1>0, <2>2 DEF ComShape
    <3>2. rq'.at = "beat" /\ rq'.i = 0
      BY <1>0, <2>2, <3>1 DEF ComShape
    <3>3. QED
      BY <2>2, <3>1, <3>2 DEF Issued
  <2>3. QED
    BY <2>1, <2>2 DEF ReadReqStart
<1>3. Answers' = Answers
  BY <1>1, <1>2 DEF Answers
<1>4. Requests' /\ InputRight' /\ SavedRight'
  BY <1>0, <1>1, RequestsSame, ReachedSame, InputSame, SavedSame
<1>5. OutputRight' /\ BeatsRight'
  BY <1>0, <1>1, <1>3, OutputSame, BeatValuesSame
<1>6. ArrayRight' /\ Wavefront'
  BY <1>0, ArrayValuesSame
<1>7. QED
  BY <1>4, <1>5, <1>6 DEF Values

(* A beat's addresses are in the memory, each in a bank of its own. *)
LEMMA BeatFormed ==
    ASSUME NEW b \in Nat, NEW m \in 0 .. Entries
    PROVE  /\ Formed(Load(Beat(b, m))) /\ Spread(Beat(b, m))
           /\ DOMAIN Beat(b, m) = {j \in Port : InBeat(b, j, m)}
           /\ \A j \in Port : InBeat(b, j, m) => b - j \in 0 .. m-1 /\ Beat(b, m)[j] = N*(b-j) + j
<1> DEFINE addr == Beat(b, m)
<1>1. /\ DOMAIN addr = {j \in Port : InBeat(b, j, m)}
      /\ \A j \in Port : InBeat(b, j, m) => addr[j] = N*(b-j) + j
  BY DEF Beat
<1>2. Spread(addr)
  BY BeatIsSpread
<1>3. ASSUME NEW j \in Port, InBeat(b, j, m) PROVE b - j \in 0 .. m-1 /\ N*(b-j) + j \in Addr
  <2>1. b - j \in 0 .. m-1
    BY <1>3, SizesPositive, EntriesAssumption DEF Port, InBeat
  <2>2. b - j \in 0 .. Entries-1
    BY <2>1, EntriesAssumption
  <2>3. QED
    BY <2>1, <2>2, RowIn
<1> HIDE DEF addr
<1>4. Formed(Load(addr))
  <2>1. DOMAIN addr \subseteq Port /\ \A j \in DOMAIN addr : addr[j] \in Addr
    BY <1>1, <1>3
  <2>2. QED
    BY <1>2, <2>1 DEF Formed, IsRequest, Load
<1>5. QED
  BY <1>1, <1>2, <1>3, <1>4 DEF addr

(* ReadReqRun asks for a beat. *)
LEMMA BeatKeepsValues ==
    ASSUME Shape, Values, ReadReqBeat
    PROVE  Values'
<1>0. /\ Tokens /\ ComShape /\ MemShape /\ PortTypes /\ Exclusive /\ FlipAlone
      /\ UNCHANGED <<req_inter, split_id, split_reg, flipVars, mergeVars, coreVars, id, waiting,
                     start, irq, rd, wr, ext, start_wr, ws, ctr, wreg, fed, out, act_out,
                     input, output, saved, loads, len, M>>
      /\ rq.at = "beat" /\ HasRoom(mem_req[1])
      /\ mem_req' = [mem_req EXCEPT ![1] = Append(@, Load(Beat(rq.i, M)))]
      /\ rq' = IF LastBeat(rq.i, M) THEN NoRun ELSE [rq EXCEPT !.i = @ + 1]
      /\ Requests /\ InputRight /\ SavedRight /\ OutputRight /\ BeatsRight /\ ArrayRight /\ Wavefront
  BY DEF Shape, Values, ComShape, ReadReqBeat, axiVars, hostVars, M
<1>1. "com" \in waiting /\ "load" \notin waiting /\ M \in Nat /\ M \in 0 .. Entries
  <2>1. "com" \in waiting /\ "load" \notin waiting
    BY <1>0, WorkIsWaited
  <2>2. "com" \in Units
    BY DEF Units
  <2>3. QED
    BY <1>0, <2>1, <2>2, LengthIs, EntriesAssumption DEF M
<1>2. /\ waiting = {"com"} /\ mem_req[0] = << >>
      /\ IsQueue(Req(0)) /\ Len(Req(0)) \in Nat /\ Len(Rsp(0)) \in Nat
  BY <1>1, Computing
<1>3. /\ rq.i \in Nat /\ rq.i <= N + M - 2 /\ Running /\ Issued = rq.i /\ Running'
      /\ rq \in [at : {"idle", "trig", "beat"}, i : Nat, len : Nat]
  BY <1>0 DEF ComShape, Issued, Running
<1> DEFINE req == Load(Beat(rq.i, M))
           q == Req(0)
<1>4. Formed(req) /\ req.type = "load" /\ mem_req' = [mem_req EXCEPT ![1] = Append(@, req)]
  BY <1>0, <1>1, <1>3, BeatFormed DEF Load
<1> HIDE DEF req
<1>5. Asks(0, req)
  <2>1. 0 \in Ids /\ 1 \in {2*0, 2*0+1} /\ waiting # {}
    BY <1>2 DEF Ids
  <2>2. \A d \in {2*0, 2*0+1} : d # 1 => mem_req[d] = << >>
    BY <1>2
  <2>3. req.type = (IF 1 \in {0, 2} THEN "store" ELSE "load")
    BY <1>4
  <2>4. QED
    BY <1>0, <1>4, <2>1, <2>2, <2>3, AskKeeps
<1>6. Req(0)' = q \o <<req>> /\ UNCHANGED <<Rsp(0), Banks(0), Req(1), Rsp(1), Banks(1)>>
  BY <1>5 DEF Asks
<1>7. IsQueue(q)
  BY <1>2
<1>8. Len(q \o <<req>>) = Len(q) + 1
  <2> HIDE DEF q
  <2>1. QED
    BY <1>7, QueueAppend
<1>9. Issued' = rq.i + 1
  <2>1. CASE LastBeat(rq.i, M)
    BY <1>0, <1>1, <1>3, <2>1, SizesPositive DEF LastBeat, Issued, NoRun
  <2>2. CASE ~LastBeat(rq.i, M)
    <3>1. rq'.at = "beat" /\ rq'.i = rq.i + 1
      BY <1>0, <1>3, <2>2
    <3>2. QED
      BY <3>1 DEF Issued
  <2>3. QED
    BY <2>1, <2>2
<1>10. Answers' = Answers
  <2>1. Answers' = Issued' - Len(Req(0)') - Len(Rsp(0)')
    BY DEF Answers
  <2>2. Answers' = (rq.i + 1) - (Len(q) + 1) - Len(Rsp(0))
    BY <1>6, <1>8, <1>9, <2>1
  <2>3. QED
    BY <1>2, <1>3, <2>2 DEF Answers
<1>11. ASSUME NEW a \in Addr, Reached("load", rd, a)' PROVE WillHold(Req(0), Banks(0), a, input[a])'
  <2> DEFINE v == input[a]
             m == Banks(0)
  <2>1. Reached("load", rd, a)' <=> Reached("load", rd, a)
    BY <1>0, ReachedSame
  <2>2. WillHold(q, m, a, v)
    BY <1>0, <1>11, <2>1 DEF InputRight
  <2> HIDE DEF q, v, m
  <2>3. WillHold(q \o <<req>>, m, a, v)
    BY <1>4, <1>7, <2>2, HoldsLoad
  <2>4. WillHold(Req(0)', Banks(0)', a, input'[a])
    BY <1>0, <1>6, <2>3 DEF v, m
  <2>5. QED
    BY <2>4 DEF WillHold, Puts, Touches
<1>12. InputRight'
  BY <1>0, <1>1, <1>11 DEF InputRight, IsBuffer
<1>13. Stores' = Stores
  BY <1>0, <1>6 DEF Stores
<1>14. Requests'
  <2>1. AllFormed(q) /\ AllFormed(Stores)
    BY <1>0 DEF Requests
  <2> HIDE DEF q
  <2>2. AllFormed(q \o <<req>>)
    BY <1>4, <1>7, <2>1, FormedAsk
  <2>3. AllFormed(Req(0)') /\ AllFormed(Stores')
    BY <1>6, <1>13, <2>1, <2>2
  <2>4. QED
    BY <2>3 DEF Requests, AllFormed, Formed, IsRequest, Spread
<1>15. SavedRight' /\ OutputRight'
  BY <1>0, <1>6, <1>13, ReachedSame, SavedSame, OutputSame
<1>16. BeatsRight' /\ ArrayRight' /\ Wavefront'
  BY <1>0, <1>6, <1>10, BeatValuesSame, ArrayValuesSame
<1>17. QED
  BY <1>12, <1>14, <1>15, <1>16 DEF Values

(* The rows of a beat enter the array. *)
LEMMA RspRunKeepsValues ==
    ASSUME Shape, Values, ReadRspRun
    PROVE  Values'
<1>0. /\ Tokens /\ SideUse /\ ComShape /\ ComCount /\ ArrayShape
      /\ MemShape /\ PortTypes /\ Exclusive /\ FlipAlone
      /\ UNCHANGED <<rsp_inter, merge_id, merge_reg, flipVars, splitVars, coreVars, id, waiting,
                     start, irq, rd, wr, ext, rq, start_wr, ws, ctr, wreg, out, act_out,
                     input, output, saved, loads, len, M>>
      /\ HasMsg(mem_rsp[0])
      /\ mem_rsp' = [mem_rsp EXCEPT ![0] = Tail(@)]
      /\ Requests /\ InputRight /\ SavedRight /\ OutputRight /\ BeatsRight /\ ArrayRight /\ Wavefront
  BY DEF Shape, Values, ReadRspRun, axiVars, hostVars, PopNB, M
<1> DEFINE r == Rsp(0)
           n == Answers
           rsp == Head(mem_rsp[0])
           F == Reads(BeatLoads, input)
<1>1. fed' = [i \in Port |-> IF i \in DOMAIN rsp THEN Append(fed[i], rsp[i]) ELSE fed[i]]
  BY DEF ReadRspRun
<1>2. r # << >>
  BY <1>0, EmptySide DEF Ids, HasMsg
<1>3. "com" \in waiting
  BY <1>0, <1>2 DEF SideUse
<1>4. /\ waiting = {"com"} /\ Taken = Answers
      /\ IsQueue(Req(0)) /\ IsQueue(r) /\ Len(Req(0)) \in Nat /\ Len(r) \in Nat
      /\ n \in Nat /\ n = Issued - Len(Req(0)) - Len(r)
  BY <1>3, Computing
<1>5. Gets(0)
  <2>1. 0 \in Ids /\ waiting # {}
    BY <1>4 DEF Ids
  <2>2. QED
    BY <1>0, <2>1, GetKeeps
<1>6. /\ Head(r) = rsp /\ Rsp(0)' = Tail(r)
      /\ UNCHANGED <<Req(0), Banks(0), Req(1), Rsp(1), Banks(1)>>
  BY <1>5 DEF Gets
<1>7. Runs(r, F, n)
  BY <1>0, <1>3 DEF BeatsRight
<1>8. rsp = F[n] /\ Runs(Tail(r), F, n + 1) /\ Len(Tail(r)) = Len(r) - 1
  <2> HIDE DEF r, F, n, rsp
  <2>1. n \in Int
    BY <1>4
  <2>2. Head(r) = F[n] /\ Runs(Tail(r), F, n + 1)
    BY <1>2, <1>4, <1>7, <2>1, RunsTake
  <2>3. Len(Tail(r)) = Len(r) - 1
    BY <1>2, <1>4, QueueTail
  <2>4. QED
    BY <1>6, <2>2, <2>3
<1>21. M \in Nat /\ M \in 0 .. Entries
  <2>1. "com" \in Units
    BY DEF Units
  <2>2. QED
    BY <1>0, <1>3, <2>1, LengthIs, EntriesAssumption DEF M
<1>9. /\ DOMAIN rsp = {j \in Port : InBeat(n, j, M)}
      /\ \A j \in Port : InBeat(n, j, M) => n - j \in 0 .. M-1 /\ rsp[j] = input[N*(n-j) + j]
  <2> HIDE DEF n
  <2>1. /\ Spread(Beat(n, M)) /\ DOMAIN Beat(n, M) = {j \in Port : InBeat(n, j, M)}
        /\ \A j \in Port : InBeat(n, j, M) => n - j \in 0 .. M-1 /\ Beat(n, M)[j] = N*(n-j) + j
    BY <1>4, <1>21, BeatFormed
  <2>2. Granted(Beat(n, M)) = DOMAIN Beat(n, M)
    BY <2>1, GrantedAll
  <2>3. F[n] = Loaded(input, Load(Beat(n, M)))
    BY <1>4 DEF Reads, BeatLoads
  <2>4. Loaded(input, Load(Beat(n, M))) = [j \in Granted(Beat(n, M)) |-> input[Beat(n, M)[j]]]
    BY DEF Loaded, Load
  <2> HIDE DEF F, rsp
  <2>5. QED
    BY <1>8, <2>1, <2>2, <2>3, <2>4
<1>10. Issued' = Issued /\ Issued \in Nat
  BY <1>0, IssuedNat DEF Issued, Running
<1>11. Answers' = n + 1
  <2>1. Answers' = Issued' - Len(Req(0)') - Len(Rsp(0)')
    BY DEF Answers
  <2>2. Answers' = Issued - Len(Req(0)) - (Len(r) - 1)
    BY <1>6, <1>8, <1>10, <2>1
  <2> HIDE DEF n
  <2>3. QED
    BY <1>4, <1>10, <2>2
<1>12. BeatsRight'
  <2>1. Runs(Rsp(0)', Reads(BeatLoads, input'), Answers')
    BY <1>0, <1>6, <1>8, <1>11
  <2>4. BeatLoads' = BeatLoads
    BY <1>0, BeatLoadsSame
  <2>2. Runs(Rsp(0), Reads(BeatLoads, input), Answers)'
    BY <2>1, <2>4 DEF Runs, Reads
  <2>3. QED
    BY <2>2 DEF BeatsRight
<1>13. Retired' = Retired /\ Retired \in Int
  <2>1. Ctr(N-1) \in Nat /\ Len(act_out[N-1]) \in Nat /\ out[N-1] \in Nat
    BY <1>0, SizesPositive, ChannelMoves DEF Ctr, ComShape, ArrayShape
  <2>2. Retired \in Int
    BY <2>1 DEF Retired
  <2>3. QED
    BY <1>0, <2>2 DEF Retired, Ctr
<1>14. ASSUME NEW i \in Port PROVE Runs(fed'[i], Column(input, i), Retired)
  <2> DEFINE f == fed[i]
             G == Column(input, i)
             e == rsp[i]
             x == Retired
  <2>1. IsQueue(f) /\ Runs(f, G, x)
    BY <1>0 DEF ArrayShape, ArrayRight
  <2>2. CASE InBeat(n, i, M)
    <3>1. fed'[i] = Append(f, e)
      BY <1>1, <1>9, <2>2
    <3>2. e = input[N*(n-i) + i] /\ n - i \in 0 .. M-1
      BY <1>9, <2>2
    <3>3. x + Len(f) = n - i
      <4>1. x + Len(f) = Share(n, i)
        BY <1>0, <1>4 DEF ComCount
      <4>2. Share(n, i) = n - i
        <5> HIDE DEF n
        <5>1. n \in Nat /\ i \in Nat
          BY <1>4 DEF Port
        <5>2. n - i <= M - 1 /\ n - i >= 0 /\ M \in Nat
          BY <1>21, <3>2, SizesPositive
        <5>3. QED
          BY <5>1, <5>2, SizesPositive DEF Share
      <4>3. QED
        BY <4>1, <4>2
    <3>4. e = G[x + Len(f)]
      <4>1. n - i \in Nat
        BY <1>21, <3>2, SizesPositive
      <4> HIDE DEF n, x, f, e, rsp
      <4>2. G[n - i] = input[N*(n-i) + i]
        BY <4>1 DEF Column
      <4>3. QED
        BY <3>2, <3>3, <4>2
    <3> HIDE DEF f, G, e, x
    <3>5. Append(f, e) = f \o <<e>>
      BY <2>1, QueueAppend
    <3>6. x \in Int
      BY <1>13 DEF x
    <3>7. Runs(f \o <<e>>, G, x)
      BY <2>1, <3>4, <3>6, RunsAsk
    <3>8. QED
      BY <3>1, <3>5, <3>7 DEF G, x
  <2>3. CASE ~InBeat(n, i, M)
    <3>1. fed'[i] = f
      BY <1>1, <1>9, <2>3
    <3>2. QED
      BY <2>1, <3>1
  <2>4. QED
    BY <2>2, <2>3
<1>15. ArrayRight'
  <2>1. \A i \in Port : Runs(fed'[i], Column(input', i), Retired')
    BY <1>0, <1>13, <1>14
  <2>2. \A j \in Port : Runs(act_out'[j], Column(output', j), Ctr(j)')
    BY <1>0 DEF ArrayRight, Ctr
  <2>3. QED
    BY <2>1, <2>2 DEF ArrayRight, Runs, Column
<1>16. Wavefront'
  BY <1>0, <1>13 DEF Wavefront, Ctr
<1>17. Stores' = Stores
  BY <1>0, <1>6 DEF Stores
<1>18. Requests' /\ InputRight'
  BY <1>0, <1>6, <1>17, ReachedSame, RequestsSame, InputSame
<1>19. SavedRight' /\ OutputRight'
  BY <1>0, <1>6, <1>17, ReachedSame, SavedSame, OutputSame
<1>20. QED
  BY <1>12, <1>15, <1>16, <1>18, <1>19 DEF Values

-----------------------------------------------------------------------------
(* Steps of the array *)

(* What the array and WriteReqRun have of a run: no more than the run, and  *)
(* nothing when none is under way.                                          *)
LEMMA ArrayIn ==
    ASSUME Shape, Wavefront
    PROVE  /\ \A j \in Port : /\ Ctr(j) \in Nat /\ Len(act_out[j]) \in Nat /\ out[j] \in Nat
                              /\ IsQueue(act_out[j]) /\ IsQueue(fed[j]) /\ Len(fed[j]) \in Nat
           /\ Retired \in Nat /\ Retired = Ctr(N-1) + Len(act_out[N-1])
           /\ \A i, j \in Port : out[j] <= Len(fed[i])
           /\ \A i \in Port : Retired + Len(fed[i]) <= M
           /\ \A j \in Port : Ctr(j) + Len(act_out[j]) = Retired + out[j] /\ Retired + out[j] <= M
           /\ "com" \notin waiting =>
                Retired = 0 /\ \A j \in Port : Len(fed[j]) = 0 /\ Ctr(j) = 0 /\ Len(act_out[j]) = 0 /\ out[j] = 0
<1>0. ComShape /\ ArrayShape /\ ComCount /\ N-1 \in Port /\ M \in Nat
  BY SizesPositive DEF Shape, ComShape
<1>1. ASSUME NEW j \in Port
      PROVE  /\ Ctr(j) \in Nat /\ Len(act_out[j]) \in Nat /\ out[j] \in Nat
             /\ IsQueue(act_out[j]) /\ IsQueue(fed[j]) /\ Len(fed[j]) \in Nat
  <2> DEFINE f == fed[j]
             c == act_out[j]
  <2>1. Ctr(j) \in Nat /\ out[j] \in Nat
    BY <1>0 DEF Ctr, ComShape, ArrayShape
  <2>2. Channel(c) /\ IsQueue(f)
    BY <1>0 DEF ArrayShape
  <2> HIDE DEF f, c
  <2>3. IsQueue(c) /\ Len(c) \in Nat /\ Len(f) \in Nat
    BY <2>2, ChannelMoves, QueueIs
  <2>4. QED
    BY <2>1, <2>2, <2>3 DEF f, c
<1>2. Retired \in Nat /\ Retired = Ctr(N-1) + Len(act_out[N-1])
  <2>1. Ctr(N-1) \in Nat /\ Len(act_out[N-1]) \in Nat /\ out[N-1] = 0
    BY <1>0, <1>1 DEF Wavefront
  <2>2. QED
    BY <2>1 DEF Retired
<1>3. Taken \in Nat /\ ("com" \notin waiting => Taken = 0)
  <2>1. CASE "com" \in waiting
    BY <2>1, Computing
  <2>2. CASE "com" \notin waiting
    BY <2>2 DEF Taken
  <2>3. QED
    BY <2>1, <2>2
<1>4. \A i \in Port : Retired + Len(fed[i]) = Share(Taken, i)
  BY <1>0 DEF ComCount
<1>5. \A i \in Port : Share(Taken, i) <= M /\ (Taken = 0 => Share(Taken, i) = 0)
  BY <1>0, <1>3, ShareGrows
<1>6. \A i \in Port : Retired + Len(fed[i]) <= M
  BY <1>4, <1>5
<1>7. \A i, j \in Port : out[j] <= Len(fed[i])
  BY <1>0 DEF ArrayShape
<1>8. ASSUME NEW j \in Port PROVE Ctr(j) + Len(act_out[j]) = Retired + out[j] /\ Retired + out[j] <= M
  <2>1. Ctr(j) + Len(act_out[j]) = Retired + out[j]
    BY DEF Wavefront
  <2>2. out[j] <= Len(fed[j]) /\ Retired + Len(fed[j]) <= M /\ out[j] \in Nat /\ Len(fed[j]) \in Nat
    BY <1>1, <1>6, <1>7
  <2>3. Retired + out[j] <= M
    BY <1>0, <1>2, <2>2
  <2>4. QED
    BY <2>1, <2>3
<1>9. ASSUME "com" \notin waiting
      PROVE  Retired = 0 /\ \A j \in Port : Len(fed[j]) = 0 /\ Ctr(j) = 0 /\ Len(act_out[j]) = 0 /\ out[j] = 0
  <2>1. \A j \in Port : Retired + Len(fed[j]) = 0
    BY <1>3, <1>4, <1>5, <1>9
  <2>2. Retired = 0 /\ \A j \in Port : Len(fed[j]) = 0
    BY <1>0, <1>1, <1>2, <2>1
  <2>3. \A j \in Port : out[j] = 0
    BY <1>1, <1>7, <2>2
  <2>4. ASSUME NEW j \in Port PROVE Ctr(j) = 0 /\ Len(act_out[j]) = 0
    <3> DEFINE c == Ctr(j)
               a == Len(act_out[j])
    <3>1. c \in Nat /\ a \in Nat /\ c + a = Retired + out[j] /\ Retired = 0 /\ out[j] = 0
      BY <1>1, <1>8, <2>2, <2>3
    <3> HIDE DEF c, a
    <3>2. c = 0 /\ a = 0
      BY <3>1
    <3>3. QED
      BY <3>2 DEF c, a
  <2>5. QED
    BY <2>2, <2>3, <2>4
<1>10. QED
  BY <1>1, <1>2, <1>6, <1>7, <1>8, <1>9

(* A column makes the output of its next vector. *)
LEMMA OutputMade ==
    ASSUME Shape, Values, NEW j \in Port, ArrayOut(j)
    PROVE  /\ "com" \in waiting
           /\ Out(j, [i \in Port |-> fed[i][out[j] + 1]]) = Column(output, j)[Ctr(j) + Len(act_out[j])]
<1>0. /\ InputRight /\ OutputRight /\ ArrayRight /\ Wavefront
      /\ \A i \in Port : out[j] < Len(fed[i])
  BY DEF Values, ArrayOut
<1> DEFINE o == out[j]
           x == Retired + o
<1>1. /\ o \in Nat /\ Retired \in Nat /\ Ctr(j) + Len(act_out[j]) = x
      /\ \A i \in Port : Len(fed[i]) \in Nat /\ Retired + Len(fed[i]) <= M
      /\ "com" \notin waiting => \A i \in Port : Len(fed[i]) = 0
  BY <1>0, ArrayIn
<1>2. "com" \in waiting
  BY <1>0, <1>1
<1>11. M \in Nat /\ M <= Entries
  <2>1. Tokens /\ "com" \in Units
    BY DEF Shape, Units
  <2>2. QED
    BY <1>2, <2>1, LengthIs DEF M
<1>3. \A a \in Addr : a < N * M => output[a] = Computed(input)[a]
  BY <1>0, <1>2 DEF OutputRight
<1>4. x \in 0 .. M-1 /\ x \in Nat
  <2>1. o < Len(fed[j]) /\ Retired + Len(fed[j]) <= M /\ Len(fed[j]) \in Nat /\ M \in Nat
    BY <1>0, <1>1, <1>11
  <2> HIDE DEF o
  <2>2. QED
    BY <1>1, <2>1
<1>5. \A i \in Port : fed[i][o + 1] = input[N*x + i]
  <2> SUFFICES ASSUME NEW i \in Port PROVE fed[i][o + 1] = input[N*x + i]
    OBVIOUS
  <2> DEFINE f == fed[i]
             G == Column(input, i)
  <2>1. Runs(f, G, Retired) /\ o < Len(f) /\ Len(f) \in Nat
    BY <1>0, <1>1 DEF ArrayRight
  <2>2. G[x] = input[N*x + i]
    BY <1>4 DEF Column
  <2> HIDE DEF f, G, x, o
  <2>3. o + 1 \in 1 .. Len(f) /\ Retired + (o + 1) - 1 = Retired + o
    BY <1>1, <2>1
  <2>4. f[o + 1] = G[Retired + (o + 1) - 1]
    BY <2>1, <2>3 DEF Runs
  <2>5. QED
    BY <2>2, <2>3, <2>4 DEF f, x
<1>6. N*x + j \in Addr /\ (N*x + j) % N = j /\ (N*x + j) \div N = x /\ N*x + j < N * M
  <2> HIDE DEF x
  <2>1. x \in 0 .. Entries-1
    BY <1>4, <1>11, EntriesAssumption
  <2>2. N \in Nat /\ j \in Nat /\ j < N
    BY NAssumption DEF Port
  <2>3. N * x <= N * (M - 1) /\ N * (M - 1) = N * M - N /\ N * M \in Nat /\ N * x \in Nat
    BY <1>4, <1>11, <2>2
  <2>4. N*x + j < N * M
    BY <2>2, <2>3
  <2>5. QED
    BY <2>1, <2>4, RowIn
<1>7. output[N*x + j] = Out(j, [i \in Port |-> input[N*x + i]])
  <2> DEFINE a == N*x + j
  <2>1. a \in Addr /\ a % N = j /\ a \div N = x /\ a < N * M
    BY <1>6
  <2> HIDE DEF a, x
  <2>2. output[a] = Out(a % N, [i \in Port |-> input[N * (a \div N) + i]])
    BY <1>3, <2>1 DEF Computed
  <2>3. output[a] = Out(j, [i \in Port |-> input[N * x + i]])
    BY <2>1, <2>2
  <2>4. QED
    BY <2>3 DEF a, x
<1>8. Column(output, j)[x] = output[N*x + j]
  BY <1>4 DEF Column
<1> HIDE DEF x, o
<1>9. Out(j, [i \in Port |-> fed[i][o + 1]]) = Column(output, j)[x]
  BY <1>5, <1>7, <1>8
<1>10. QED
  BY <1>1, <1>2, <1>9 DEF o

(* Without stalls the last column is the last to be done with a vector. *)
LEMMA WaveMoves ==
    ASSUME Wavefront, ~RandStall, NEW j \in Port, ArrayOut(j), ArrayShape
    PROVE  LET made == [out EXCEPT ![j] = @ + 1]
               d == IF j = N-1 THEN 1 ELSE 0
           IN /\ (\A k \in Port : made[k] > 0) <=> d = 1
              /\ \A k \in Port : /\ made[k] \in Nat /\ out[k] \in Nat
                                 /\ made[k] = IF k = j THEN out[k] + 1 ELSE out[k]
              /\ \A k, l \in Port : k < l => made[l] <= made[k]
<1> DEFINE made == [out EXCEPT ![j] = @ + 1]
<1>0. /\ N \in Nat /\ N >= 1 /\ N-1 \in Port /\ \A k \in Port : k \in Nat /\ k <= N-1
  BY SizesPositive DEF Port
<1>1. \A k \in Port : /\ made[k] \in Nat /\ out[k] \in Nat
                      /\ made[k] = IF k = j THEN out[k] + 1 ELSE out[k]
  BY DEF ArrayShape
<1>2. /\ out[N-1] = 0 /\ \A k, l \in Port : k < l => out[l] <= out[k]
  BY DEF Wavefront
<1>3. \A k \in Port : k + 1 = j => out[j] < out[k]
  BY DEF ArrayOut, InWavefront
<1> HIDE DEF made
<1>4. ASSUME NEW k \in Port, k < j PROVE out[j] < out[k]
  <2>1. j-1 \in Port /\ (j-1) + 1 = j
    BY <1>0, <1>4 DEF Port
  <2>2. out[j] < out[j-1]
    BY <1>3, <2>1
  <2>3. CASE k = j-1
    BY <2>2, <2>3
  <2>4. CASE k # j-1
    <3>1. k < j-1
      BY <1>0, <1>4, <2>4
    <3>2. out[j-1] <= out[k]
      BY <1>2, <2>1, <3>1
    <3>3. QED
      BY <1>1, <2>1, <2>2, <3>2
  <2>5. QED
    BY <2>3, <2>4
<1>5. ASSUME NEW k \in Port, NEW l \in Port, k < l PROVE made[l] <= made[k]
  <2>1. out[l] <= out[k] /\ (l = j => out[l] < out[k]) /\ out[l] \in Nat /\ out[k] \in Nat
    BY <1>1, <1>2, <1>4, <1>5
  <2>2. k = j => l # j
    BY <1>0, <1>5
  <2>3. QED
    BY <1>1, <2>1, <2>2
<1>6. j = N-1 => \A k \in Port : made[k] > 0
  <2> SUFFICES ASSUME j = N-1, NEW k \in Port PROVE made[k] > 0
    OBVIOUS
  <2>1. CASE k = j
    BY <1>1, <2>1
  <2>2. CASE k # j
    <3>1. k < j
      BY <1>0, <2>2
    <3>2. QED
      BY <1>1, <1>4, <3>1
  <2>3. QED
    BY <2>1, <2>2
<1>7. j # N-1 => ~(made[N-1] > 0)
  BY <1>0, <1>1, <1>2
<1>8. QED
  BY <1>0, <1>1, <1>5, <1>6, <1>7 DEF made

(* The outputs and the inputs stay in order when a column makes one. *)
LEMMA ArrayOutKeepsValues ==
    ASSUME Shape, Values, ~RandStall, NEW j \in Port, ArrayOut(j)
    PROVE  Values'
<1>0. /\ ArrayShape /\ ComShape
      /\ UNCHANGED <<memoryVars, id, waiting, irq, input, output, saved, loads, rd, wr, ext,
                     len, M, rq, start_wr, ws, ctr, wreg>>
      /\ Requests /\ InputRight /\ SavedRight /\ OutputRight /\ BeatsRight /\ ArrayRight /\ Wavefront
  BY DEF Shape, Values, ArrayOut, axiVars, hostVars, M
<1> DEFINE e == Out(j, [i \in Port |-> fed[i][out[j] + 1]])
           made == [out EXCEPT ![j] = @ + 1]
           d == IF j = N-1 THEN 1 ELSE 0
<1>1. /\ act_out' = [act_out EXCEPT ![j] = Append(@, e)]
      /\ IF \A k \in Port : made[k] > 0
         THEN out' = [k \in Port |-> made[k] - 1] /\ fed' = [i \in Port |-> Tail(fed[i])]
         ELSE out' = made /\ UNCHANGED fed
      /\ \A i \in Port : out[j] < Len(fed[i])
  BY DEF ArrayOut
<1>2. e = Column(output, j)[Ctr(j) + Len(act_out[j])]
  BY OutputMade
<1>3. /\ (\A k \in Port : made[k] > 0) <=> d = 1
      /\ \A k \in Port : /\ made[k] \in Nat /\ out[k] \in Nat
                         /\ made[k] = IF k = j THEN out[k] + 1 ELSE out[k]
      /\ \A k, l \in Port : k < l => made[l] <= made[k]
  BY <1>0, WaveMoves
<1>4. /\ \A k \in Port : /\ Ctr(k) \in Nat /\ Len(act_out[k]) \in Nat
                         /\ IsQueue(act_out[k]) /\ IsQueue(fed[k]) /\ Len(fed[k]) \in Nat
                         /\ Ctr(k) + Len(act_out[k]) = Retired + out[k]
      /\ Retired \in Nat /\ Retired = Ctr(N-1) + Len(act_out[N-1]) /\ N-1 \in Port
  BY <1>0, ArrayIn, SizesPositive
<1>5. \A k \in Port : Ctr(k)' = Ctr(k)
  BY <1>0 DEF Ctr
<1>6. d \in {0, 1} /\ (d = 1 <=> j = N-1)
  OBVIOUS
<1> HIDE DEF e, d
<1>7. \A k \in Port : out'[k] = made[k] - d
  <2>1. CASE d = 1
    <3>1. out' = [k \in Port |-> made[k] - 1]
      BY <1>1, <1>3, <2>1
    <3>2. QED
      BY <2>1, <3>1
  <2>2. CASE d = 0
    <3>1. out' = made
      BY <1>1, <1>3, <2>2
    <3> HIDE DEF made
    <3>2. QED
      BY <1>3, <2>2, <3>1
  <2>3. QED
    BY <1>6, <2>1, <2>2
<1> HIDE DEF made
<1>8. ASSUME NEW k \in Port
      PROVE  /\ Len(act_out'[k]) = IF k = j THEN Len(act_out[k]) + 1 ELSE Len(act_out[k])
             /\ Runs(act_out'[k], Column(output, k), Ctr(k))
  <2> DEFINE c == act_out[k]
             G == Column(output, k)
             x == Ctr(k)
  <2>1. IsQueue(c) /\ Runs(c, G, x) /\ x \in Int
    BY <1>0, <1>4 DEF ArrayRight
  <2>2. CASE k = j
    <3>1. act_out'[k] = Append(c, e) /\ e = G[x + Len(c)]
      BY <1>0, <1>1, <1>2, <2>2 DEF ArrayShape
    <3> HIDE DEF c, G, x
    <3>2. /\ Append(c, e) = c \o <<e>> /\ Len(c \o <<e>>) = Len(c) + 1
      BY <2>1, QueueAppend
    <3>3. Runs(c \o <<e>>, G, x)
      BY <2>1, <3>1, RunsAsk
    <3>4. QED
      BY <2>2, <3>1, <3>2, <3>3 DEF c, G, x
  <2>3. CASE k # j
    <3>1. act_out'[k] = c
      BY <1>0, <1>1, <2>3 DEF ArrayShape
    <3>2. QED
      BY <2>1, <2>3, <3>1
  <2>4. QED
    BY <2>2, <2>3
<1>9. out'[N-1] = 0
  <2>1. out[N-1] = 0 /\ (made[N-1] = IF N-1 = j THEN out[N-1] + 1 ELSE out[N-1])
        /\ out'[N-1] = made[N-1] - d
    BY <1>0, <1>3, <1>4, <1>7 DEF Wavefront
  <2>2. QED
    BY <1>6, <2>1
<1>10. Retired' = Retired + d
  <2> DEFINE c == Ctr(N-1)
             a == Len(act_out[N-1])
  <2>1. c \in Nat /\ a \in Nat /\ Retired = c + a
    BY <1>4
  <2>2. Retired' = Ctr(N-1)' + Len(act_out'[N-1]) - out'[N-1]
    BY DEF Retired
  <2>3. Len(act_out'[N-1]) = a + d
    <3>1. Len(act_out'[N-1]) = IF N-1 = j THEN a + 1 ELSE a
      BY <1>4, <1>8
    <3> HIDE DEF a
    <3>2. QED
      BY <1>6, <2>1, <3>1
  <2>4. Retired' = c + (a + d) - 0
    BY <1>4, <1>5, <1>9, <2>2, <2>3
  <2> HIDE DEF c, a
  <2>5. QED
    BY <1>6, <2>1, <2>4
<1>11. ASSUME NEW i \in Port PROVE Runs(fed'[i], Column(input, i), Retired')
  <2> DEFINE f == fed[i]
             G == Column(input, i)
             x == Retired
  <2>1. IsQueue(f) /\ Runs(f, G, x) /\ x \in Int /\ out[j] < Len(f) /\ out[j] \in Nat
    BY <1>0, <1>1, <1>3, <1>4 DEF ArrayRight
  <2>2. CASE d = 1
    <3>1. fed'[i] = Tail(f) /\ Retired' = x + 1
      BY <1>1, <1>3, <1>10, <2>2
    <3> HIDE DEF f, G, x
    <3>2. f # << >>
      BY <2>1, QueueIs
    <3>3. Runs(Tail(f), G, x + 1)
      BY <2>1, <3>2, RunsTake
    <3>4. QED
      BY <3>1, <3>3 DEF G
  <2>3. CASE d = 0
    <3>1. fed'[i] = f /\ Retired' = x
      BY <1>1, <1>3, <1>4, <1>10, <2>3
    <3>2. QED
      BY <2>1, <3>1
  <2>4. QED
    BY <1>6, <2>2, <2>3
<1>12. ArrayRight'
  <2>1. \A i \in Port : Runs(fed'[i], Column(input', i), Retired')
    BY <1>0, <1>11
  <2>2. \A k \in Port : Runs(act_out'[k], Column(output', k), Ctr(k)')
    BY <1>0, <1>5, <1>8
  <2>3. QED
    BY <2>1, <2>2 DEF ArrayRight, Runs, Column
<1>13. Wavefront'
  <2>1. ASSUME NEW k \in Port, NEW l \in Port, k < l PROVE out'[l] <= out'[k] /\ Ctr(l)' <= Ctr(k)'
    <3>1. made[l] <= made[k] /\ made[l] \in Nat /\ made[k] \in Nat
      BY <1>3, <2>1
    <3>2. out'[l] = made[l] - d /\ out'[k] = made[k] - d
      BY <1>7
    <3>3. Ctr(l) <= Ctr(k)
      BY <1>0, <2>1 DEF Wavefront
    <3>4. QED
      BY <1>5, <1>6, <3>1, <3>2, <3>3
  <2>2. ASSUME NEW k \in Port PROVE Ctr(k)' + Len(act_out'[k]) = Retired' + out'[k]
    <3> DEFINE c == Ctr(k)
               a == Len(act_out[k])
               o == out[k]
    <3>1. c \in Nat /\ a \in Nat /\ o \in Nat /\ c + a = Retired + o /\ Retired \in Nat
      BY <1>3, <1>4
    <3>2. /\ Ctr(k)' = c
          /\ Len(act_out'[k]) = IF k = j THEN a + 1 ELSE a
          /\ made[k] = IF k = j THEN o + 1 ELSE o
          /\ out'[k] = made[k] - d
      BY <1>3, <1>5, <1>7, <1>8
    <3> HIDE DEF c, a, o
    <3>3. CASE k = j
      <4>1. Ctr(k)' + Len(act_out'[k]) = c + (a + 1) /\ Retired' + out'[k] = (Retired + d) + ((o + 1) - d)
        BY <1>10, <3>2, <3>3
      <4>2. QED
        BY <1>6, <3>1, <4>1
    <3>4. CASE k # j
      <4>1. Ctr(k)' + Len(act_out'[k]) = c + a /\ Retired' + out'[k] = (Retired + d) + (o - d)
        BY <1>10, <3>2, <3>4
      <4>2. QED
        BY <1>6, <3>1, <4>1
    <3>5. QED
      BY <3>3, <3>4
  <2>3. QED
    BY <1>9, <2>1, <2>2 DEF Wavefront
<1>14. UNCHANGED <<Req(0), Req(1), Rsp(0), Rsp(1), Banks(0), Banks(1)>> /\ UNCHANGED Stores
  BY <1>0, ViewSame
<1>15. Answers' = Answers
  BY <1>0, <1>14, AnswersSame
<1>16. Requests' /\ InputRight' /\ SavedRight'
  BY <1>0, <1>14, RequestsSame, ReachedSame, InputSame, SavedSame
<1>17. OutputRight' /\ BeatsRight'
  BY <1>0, <1>14, <1>15, OutputSame, BeatValuesSame
<1>18. QED
  BY <1>12, <1>13, <1>16, <1>17 DEF Values

-----------------------------------------------------------------------------
(* Steps of WriteReqRun *)

(* The array, when no column has moved. *)
LEMMA ArrayKept ==
    ASSUME ArrayRight, Wavefront, UNCHANGED <<input, output, fed, out, act_out>>,
           \A j \in Port : Ctr(j)' = Ctr(j)
    PROVE  ArrayRight' /\ Wavefront'
<1>0. UNCHANGED input /\ UNCHANGED output /\ UNCHANGED fed /\ UNCHANGED out /\ UNCHANGED act_out
  OBVIOUS
<1>1. Retired' = Retired
  BY <1>0, SizesPositive DEF Retired
<1>2. /\ \A i \in Port : Runs(fed'[i], Column(input', i), Retired')
      /\ \A j \in Port : Runs(act_out'[j], Column(output', j), Ctr(j)')
  BY <1>0, <1>1 DEF ArrayRight
<1>3. ArrayRight'
  BY <1>2 DEF ArrayRight, Runs, Column
<1>4. Wavefront'
  BY <1>0, <1>1 DEF Wavefront
<1>5. QED
  BY <1>3, <1>4

(* WriteReqRun starts from the first vector. *)
LEMMA WriteStartKeepsValues ==
    ASSUME Shape, Values, WriteReqStart
    PROVE  Values'
<1>0. /\ UNCHANGED <<memoryVars, id, waiting, irq, input, output, saved, loads, rd, wr, ext,
                     len, M, rq, wreg, fed, out, act_out>>
      /\ ws = "idle" /\ start_wr # << >> /\ ws' = "poll" /\ ctr' = [j \in Port |-> 0]
      /\ Requests /\ InputRight /\ SavedRight /\ OutputRight /\ BeatsRight /\ ArrayRight /\ Wavefront
  BY DEF Values, WriteReqStart, axiVars, hostVars, HasMsg, M
<1>1. UNCHANGED <<Req(0), Req(1), Rsp(0), Rsp(1), Banks(0), Banks(1)>> /\ UNCHANGED Stores
  BY <1>0, ViewSame
<1>2. \A j \in Port : Ctr(j)' = Ctr(j)
  BY <1>0 DEF Ctr
<1>3. \A j \in Port, n \in 0 .. Entries-1 : Kept(j, n)' <=> Kept(j, n)
  BY <1>0, <1>2 DEF Kept, Working
<1>4. Answers' = Answers
  BY <1>0, <1>1, ComIssued DEF Running
<1>5. Requests' /\ InputRight' /\ SavedRight'
  BY <1>0, <1>1, RequestsSame, ReachedSame, InputSame, SavedSame
<1>6. OutputRight' /\ BeatsRight'
  BY <1>0, <1>1, <1>3, <1>4, OutputKept, BeatValuesSame
<1>7. ArrayRight' /\ Wavefront'
  BY <1>0, <1>2, ArrayKept
<1>8. QED
  BY <1>5, <1>6, <1>7 DEF Values

(* The store WriteReqRun holds joins the requests. *)
LEMMA WritePushKeepsValues ==
    ASSUME Shape, Values, WriteReqPush
    PROVE  Values'
<1>0. /\ Tokens /\ ComShape /\ MemShape /\ PortTypes /\ Exclusive /\ FlipAlone
      /\ UNCHANGED <<req_inter, split_id, split_reg, flipVars, mergeVars, coreVars, id, waiting,
                     start, irq, rd, wr, ext, len, M, rq, start_wr, ctr, fed, out, act_out,
                     input, output, saved, loads>>
      /\ ws = "push" /\ HasRoom(mem_req[2]) /\ wreg' = << >>
      /\ mem_req' = [mem_req EXCEPT ![2] = Append(@, Head(wreg))]
      /\ ws' \in {"poll", "irq", "abort"}
      /\ Requests /\ InputRight /\ SavedRight /\ OutputRight /\ BeatsRight /\ ArrayRight /\ Wavefront
  BY DEF Shape, Values, WriteReqPush, axiVars, hostVars, M
<1>1. PICK req : wreg = <<req>> /\ req.type = "store"
  BY <1>0 DEF ComShape
<1>2. mem_req' = [mem_req EXCEPT ![2] = Append(@, req)]
  <2>1. Head(wreg) = req
    BY <1>1, QueueOf
  <2>2. QED
    BY <1>0, <2>1
<1>3. Running /\ Running' /\ ws' \in {"poll", "irq", "abort"}
  BY <1>0 DEF Running
<1>4. "com" \in waiting
  BY <1>0, <1>3, WorkIsWaited
<1>5. waiting = {"com"} /\ mem_req[3] = << >>
  BY <1>4, Computing
<1>6. Asks(1, req)
  <2>1. 1 \in Ids /\ 2 \in {2*1, 2*1+1} /\ waiting # {}
    BY <1>5 DEF Ids
  <2>2. \A d \in {2*1, 2*1+1} : d # 2 => mem_req[d] = << >>
    BY <1>5
  <2>3. req.type = (IF 2 \in {0, 2} THEN "store" ELSE "load")
    BY <1>1
  <2>4. QED
    BY <1>0, <1>2, <2>1, <2>2, <2>3, AskKeeps
<1>7. Req(1)' = Req(1) \o <<req>> /\ UNCHANGED <<Rsp(1), Banks(1), Req(0), Rsp(0), Banks(0)>>
  BY <1>6 DEF Asks
<1>8. Stores' = Stores
  <2> DEFINE q == Req(1)
             u == q \o <<req>>
  <2>1. IsQueue(q)
    BY <1>0, StoresIs
  <2>2. Stores' = Req(1)' \o << >> /\ Stores = u /\ Req(1)' = u
    BY <1>0, <1>1, <1>7 DEF Stores
  <2> HIDE DEF q
  <2>3. IsQueue(u)
    BY <2>1, QueueAppend
  <2> HIDE DEF u
  <2>4. u \o << >> = u
    BY <2>3, QueueIs
  <2>5. QED
    BY <2>2, <2>4
<1>9. \A j \in Port : Ctr(j)' = Ctr(j)
  BY <1>0, <1>3 DEF Ctr
<1>10. \A j \in Port, n \in 0 .. Entries-1 : Kept(j, n)' <=> Kept(j, n)
  BY <1>0, <1>9 DEF Kept, Working
<1>11. Answers' = Answers
  BY <1>0, <1>3, <1>7, ComIssued
<1>12. Requests' /\ InputRight' /\ SavedRight'
  BY <1>0, <1>7, <1>8, RequestsSame, ReachedSame, InputSame, SavedSame
<1>13. OutputRight' /\ BeatsRight'
  BY <1>0, <1>7, <1>8, <1>10, <1>11, OutputKept, BeatValuesSame
<1>14. ArrayRight' /\ Wavefront'
  BY <1>0, <1>9, ArrayKept
<1>15. QED
  BY <1>12, <1>13, <1>14 DEF Values

(* The interrupt: every column has stored all of its outputs. *)
LEMMA WriteIRQKeepsValues ==
    ASSUME Shape, Values, WriteReqIRQ
    PROVE  Values'
<1>0. /\ UNCHANGED <<memoryVars, id, waiting, input, output, saved, loads, rd, wr, ext,
                     len, M, rq, start_wr, ctr, wreg, fed, out, act_out>>
      /\ ws = "irq" /\ ws' = "idle" /\ irq' = [irq EXCEPT !["com"] = Append(@, 1)]
      /\ Tokens /\ ComShape /\ ArrayShape
      /\ Requests /\ InputRight /\ SavedRight /\ OutputRight /\ BeatsRight /\ ArrayRight /\ Wavefront
  BY DEF Shape, Values, WriteReqIRQ, axiVars, hostVars, M
<1>1. UNCHANGED <<Req(0), Req(1), Rsp(0), Rsp(1), Banks(0), Banks(1)>> /\ UNCHANGED Stores
  BY <1>0, ViewSame
<1>2. /\ waiting = {"com"} /\ rq.at = "idle" /\ start_wr = << >>
      /\ Req(0) = << >> /\ Rsp(0) = << >>
      /\ \A i \in Port : Retired - M + Len(fed[i]) = 0
  BY <1>0, ComOver
<1>3. /\ \A j \in Port : /\ Ctr(j) \in Nat /\ Len(act_out[j]) \in Nat /\ out[j] \in Nat
                         /\ IsQueue(act_out[j]) /\ IsQueue(fed[j]) /\ Len(fed[j]) \in Nat
                         /\ Ctr(j) + Len(act_out[j]) = Retired + out[j]
                         /\ out[j] <= Len(fed[j])
      /\ Retired \in Nat /\ Retired = Ctr(N-1) + Len(act_out[N-1]) /\ N-1 \in Port /\ M \in Nat
  BY <1>0, ArrayIn, SizesPositive DEF ComShape
<1>4. Ctr(N-1) = M
  BY <1>0 DEF Ctr, ComShape
<1>5. Retired = M
  <2>1. Retired - M + Len(fed[N-1]) = 0
    BY <1>2, <1>3
  <2> DEFINE f == Len(fed[N-1])
             a == Len(act_out[N-1])
             x == Retired
  <2>2. x - M + f = 0 /\ f \in Nat /\ a \in Nat /\ x = M + a
    BY <1>3, <1>4, <2>1
  <2> HIDE DEF f, a, x
  <2>3. x = M
    BY <1>3, <2>2
  <2>4. QED
    BY <2>3 DEF x
<1>6. ASSUME NEW j \in Port PROVE Ctr(j) = M /\ act_out[j] = << >> /\ fed[j] = << >> /\ out[j] = 0
  <2> DEFINE f == fed[j]
             c == act_out[j]
             x == Ctr(j)
             o == out[j]
  <2>1. /\ IsQueue(f) /\ IsQueue(c) /\ Len(f) \in Nat /\ Len(c) \in Nat /\ x \in Nat /\ o \in Nat
        /\ x + Len(c) = M + o /\ o <= Len(f) /\ M - M + Len(f) = 0
    BY <1>2, <1>3, <1>5
  <2>2. M <= x
    <3>1. CASE j = N-1
      BY <1>3, <1>4, <3>1
    <3>2. CASE j # N-1
      <4>1. j < N-1
        BY <3>2, SizesPositive DEF Port
      <4>2. QED
        BY <1>0, <1>3, <1>4, <4>1 DEF Wavefront
    <3>3. QED
      BY <3>1, <3>2
  <2> HIDE DEF f, c, x, o
  <2>3. Len(f) = 0 /\ o = 0 /\ x = M /\ Len(c) = 0
    BY <1>3, <2>1, <2>2
  <2>4. f = << >> /\ c = << >>
    BY <2>1, <2>3, QueueIs
  <2>5. QED
    BY <2>3, <2>4 DEF f, c, x, o
<1>7. "com" \in Units /\ irq["com"] = << >> /\ irq'["com"] # << >>
      /\ irq'["load"] = irq["load"] /\ irq'["store"] = irq["store"]
  <2>1. "com" \in Units /\ Busy("com")
    BY <1>0 DEF Busy, Units, Running
  <2>2. irq["com"] = << >> /\ irq = [u \in Units |-> irq[u]]
    BY <1>0, <2>1 DEF Tokens, Token
  <2>3. QED
    BY <1>0, <2>1, <2>2, OneToken
<1>8. \A j \in Port, n \in 0 .. Entries-1 : Kept(j, n)
  <2>1. ASSUME NEW j \in Port, NEW n \in 0 .. Entries-1 PROVE n < M \/ n >= M
    BY <1>3, EntriesAssumption
  <2>2. QED
    BY <1>6, <2>1 DEF Kept
<1>10. BeatsRight'
  <2>1. Rsp(0)' = << >>
    BY <1>1, <1>2
  <2>2. Runs(Rsp(0), Reads(BeatLoads, input), Answers)'
    BY <2>1, QueueOf DEF Runs
  <2>3. QED
    BY <2>2 DEF BeatsRight
<1>11. /\ \A a \in Addr : Reached("load", rd, a)' => Reached("load", rd, a)
       /\ \A a \in Addr : Reached("store", wr, a)' => Reached("store", wr, a)
  BY <1>0, <1>7 DEF Reached, Working, Through
<1>12. Requests' /\ InputRight' /\ SavedRight'
  <2>1. UNCHANGED <<input, loads, Req(0), Banks(0), saved, ext, wr, Rsp(1), output, Stores, waiting, len>>
    BY <1>0, <1>1
  <2>2. InputRight'
    BY <1>0, <1>11, <2>1, InputSame
  <2>3. SavedRight'
    BY <1>0, <1>11, <2>1, SavedSame
  <2>4. QED
    BY <1>0, <2>1, <2>2, <2>3, RequestsSame
<1>13. OutputRight'
  BY <1>0, <1>1, <1>8, OutputKept
<1>14. ArrayRight'
  <2>1. \A i \in Port : fed'[i] = << >> /\ act_out'[i] = << >>
    BY <1>0, <1>6
  <2>2. QED
    BY <2>1, QueueOf DEF ArrayRight, Runs
<1>15. Wavefront'
  <2>1. \A j \in Port : Ctr(j)' = 0 /\ out'[j] = 0 /\ Len(act_out'[j]) = 0
    BY <1>0, <1>6, QueueOf DEF Ctr
  <2>2. Retired' = 0
    BY <1>3, <2>1 DEF Retired
  <2>3. QED
    BY <1>3, <2>1, <2>2 DEF Wavefront
<1>16. QED
  BY <1>10, <1>12, <1>13, <1>14, <1>15 DEF Values

(* The store WriteReqRun makes of the columns it polls. *)
Polled(S) == Store([j \in S |-> j + ctr[j]*N], [j \in S |-> Head(act_out[j])])

(* It addresses the next vector of each of the columns, which holds its     *)
(* output.                                                                  *)
LEMMA PolledIs ==
    ASSUME Shape, Values, ws = "poll", NEW S \in SUBSET Port, \A j \in S : act_out[j] # << >>
    PROVE  /\ Formed(Polled(S)) /\ Polled(S).type = "store"
           /\ \A j \in S : /\ ctr[j] \in 0 .. M-1
                           /\ Puts(Polled(S), N*ctr[j] + j, output[N*ctr[j] + j])
           /\ \A j \in Port, n \in 0 .. Entries-1 :
                 ~(j \in S /\ n = ctr[j]) => ~Touches(Polled(S), N*n + j)
<1> DEFINE req == Polled(S)
<1>0. ComShape /\ ArrayRight /\ Wavefront /\ N \in Nat /\ M \in Nat /\ M <= Entries
  <2>1. Running /\ Tokens
    BY DEF Running, Shape
  <2>2. "com" \in waiting /\ "com" \in Units
    BY <2>1, WorkIsWaited DEF Units
  <2>3. M \in Nat /\ M <= Entries
    BY <2>1, <2>2, LengthIs DEF M
  <2>4. QED
    BY <2>3, SizesPositive DEF Shape, Values
<1>1. /\ req.type = "store" /\ DOMAIN req.addr = S /\ DOMAIN req.data = S
      /\ \A j \in S : req.addr[j] = j + ctr[j]*N /\ req.data[j] = Head(act_out[j])
  BY DEF Polled, Store
<1> HIDE DEF req
<1>2. ASSUME NEW j \in S
      PROVE  /\ j \in Port /\ ctr[j] \in 0 .. M-1 /\ Head(act_out[j]) = output[N*ctr[j] + j]
             /\ req.addr[j] = N*ctr[j] + j
  <2> DEFINE c == act_out[j]
             x == ctr[j]
             G == Column(output, j)
             l == Len(c)
             t == Retired + out[j]
  <2>1. j \in Port /\ c # << >>
    OBVIOUS
  <2>2. Ctr(j) = x
    BY DEF Ctr
  <2>3. x \in Nat /\ IsQueue(c) /\ l \in Nat /\ x + l = t /\ t <= M
    BY <1>0, <2>1, <2>2, ArrayIn
  <2>4. Runs(c, G, x)
    BY <1>0, <2>1, <2>2 DEF ArrayRight
  <2>5. l >= 1
    BY <2>1, <2>3, QueueIs
  <2>6. x \in 0 .. M-1
    <3> HIDE DEF x, l, t
    <3>1. t \in Nat
      BY <2>3
    <3>2. QED
      BY <1>0, <2>3, <2>5, <3>1
  <2>7. Head(c) = G[x]
    <3> HIDE DEF c, G, x
    <3>1. x \in Int
      BY <2>6
    <3>2. QED
      BY <2>1, <2>3, <2>4, <3>1, RunsTake
  <2>8. G[x] = output[N*x + j]
    BY <2>3 DEF Column
  <2>9. req.addr[j] = j + x*N
    BY <1>1
  <2>10. j + x*N = N*x + j
    <3>1. j \in Nat
      BY <2>1 DEF Port
    <3> HIDE DEF x
    <3>2. x * N \in Nat /\ x * N = N * x
      BY <1>0, <2>3
    <3>3. QED
      BY <3>1, <3>2
  <2>11. QED
    BY <2>1, <2>6, <2>7, <2>8, <2>9, <2>10
<1>3. ASSUME NEW j \in S
      PROVE  /\ ctr[j] \in 0 .. Entries-1
             /\ req.addr[j] \in Addr /\ Bank(req.addr[j]) = j
  <2>1. ctr[j] \in 0 .. Entries-1
    BY <1>0, <1>2, EntriesAssumption
  <2>2. QED
    BY <1>2, <2>1, RowIn DEF Bank
<1>4. Formed(req)
  <2>1. IsRequest(req)
    BY <1>1, <1>3 DEF IsRequest
  <2>2. \A j \in S : req.addr[j] \in Nat
    BY <1>3 DEF Addr
  <2>3. Spread(req.addr)
    BY <1>1, <1>3, <2>2 DEF Spread
  <2>4. QED
    BY <1>1, <2>1, <2>3 DEF Formed
<1>5. ASSUME NEW j \in S PROVE Puts(req, N*ctr[j] + j, output[N*ctr[j] + j])
  BY <1>1, <1>2 DEF Puts
<1>6. ASSUME NEW j \in Port, NEW n \in 0 .. Entries-1, Touches(req, N*n + j)
      PROVE  j \in S /\ n = ctr[j]
  <2>1. PICK k \in S : req.addr[k] = N*n + j
    BY <1>1, <1>6 DEF Touches
  <2>2. (N*n + j) % N = j /\ (N*n + j) \div N = n
    BY RowIn
  <2>3. (N*ctr[k] + k) % N = k /\ (N*ctr[k] + k) \div N = ctr[k] /\ N*ctr[k] + k = N*n + j
    BY <1>2, <1>3, <2>1, RowIn
  <2>4. QED
    BY <2>2, <2>3
<1>7. QED
  BY <1>1, <1>2, <1>4, <1>5, <1>6 DEF req

(* WriteReqRun takes what the columns have: the outputs stay in order, and  *)
(* none is left between the bank and the columns.                           *)
LEMMA WritePollKeepsValues ==
    ASSUME Shape, Values, ~RandStall, WriteReqPoll
    PROVE  Values'
<1>0. /\ UNCHANGED <<memoryVars, id, waiting, irq, input, output, saved, loads, rd, wr, ext,
                     len, M, rq, start_wr, fed, out>>
      /\ ws = "poll" /\ ws' = "push"
      /\ MemShape /\ ArrayShape /\ ComShape
      /\ Requests /\ InputRight /\ SavedRight /\ OutputRight /\ BeatsRight /\ ArrayRight /\ Wavefront
  BY DEF Shape, Values, WriteReqPoll, axiVars, hostVars, M
<1>1. PICK S \in SUBSET Port :
         /\ \A j \in Port : (j \in S) \in PopNB(act_out[j])
         /\ wreg' = <<Polled(S)>>
         /\ act_out' = [j \in Port |-> After(j \in S, act_out[j])]
         /\ ctr' = [j \in Port |-> IF j \in S THEN ctr[j] + 1 ELSE ctr[j]]
  BY DEF WriteReqPoll, Polled
<1>2. \A j \in Port : j \in S <=> act_out[j] # << >>
  BY <1>1 DEF PopNB, HasMsg
<1> DEFINE req == Polled(S)
<1>3. /\ Formed(req) /\ req.type = "store"
      /\ \A j \in S : ctr[j] \in 0 .. M-1 /\ Puts(req, N*ctr[j] + j, output[N*ctr[j] + j])
      /\ \A j \in Port, n \in 0 .. Entries-1 : ~(j \in S /\ n = ctr[j]) => ~Touches(req, N*n + j)
  <2>1. \A j \in S : act_out[j] # << >>
    BY <1>2
  <2>2. QED
    BY <1>0, <2>1, PolledIs
<1> HIDE DEF req
<1>4. UNCHANGED <<Req(0), Req(1), Rsp(0), Rsp(1), Banks(0), Banks(1)>>
  BY <1>0, ViewSame
<1>5. IsQueue(Stores) /\ Stores' = Stores \o <<req>>
  <2>1. Stores = Req(1) /\ IsQueue(Stores)
    BY <1>0, StoresIs
  <2>2. Stores' = Req(1)' \o wreg'
    BY DEF Stores
  <2>3. QED
    BY <1>1, <1>4, <2>1, <2>2 DEF req
<1>6. \A j \in Port : Ctr(j) = ctr[j] /\ Ctr(j)' = ctr'[j]
  BY <1>0 DEF Ctr
<1>7. /\ \A j \in Port : /\ ctr[j] \in Nat /\ Len(act_out[j]) \in Nat /\ out[j] \in Nat
                         /\ IsQueue(act_out[j])
                         /\ ctr[j] + Len(act_out[j]) = Retired + out[j]
      /\ Retired \in Nat /\ Retired = ctr[N-1] + Len(act_out[N-1]) /\ N-1 \in Port /\ out[N-1] = 0
      /\ \A a, b \in Port : a < b => out[b] <= out[a] /\ ctr[b] <= ctr[a]
  BY <1>0, <1>6, ArrayIn, SizesPositive DEF Wavefront
<1>8. ASSUME NEW j \in Port
      PROVE  /\ ctr'[j] = IF j \in S THEN ctr[j] + 1 ELSE ctr[j]
             /\ Len(act_out'[j]) = IF j \in S THEN Len(act_out[j]) - 1 ELSE Len(act_out[j])
             /\ j \in S => Len(act_out[j]) >= 1
             /\ j \notin S => Len(act_out[j]) = 0
             /\ Runs(act_out'[j], Column(output, j), ctr'[j])
  <2> DEFINE c == act_out[j]
             x == ctr[j]
             G == Column(output, j)
  <2>1. IsQueue(c) /\ x \in Int /\ Runs(c, G, x)
    BY <1>0, <1>6, <1>7 DEF ArrayRight
  <2>2. ctr'[j] = (IF j \in S THEN x + 1 ELSE x) /\ act_out'[j] = IF j \in S THEN Tail(c) ELSE c
    BY <1>1 DEF After
  <2>3. j \in S <=> c # << >>
    BY <1>2
  <2> HIDE DEF c, x, G
  <2>4. CASE j \in S
    <3>1. c # << >> /\ act_out'[j] = Tail(c) /\ ctr'[j] = x + 1
      BY <2>2, <2>3, <2>4
    <3>2. Len(c) >= 1 /\ Len(Tail(c)) = Len(c) - 1 /\ Runs(Tail(c), G, x + 1)
      BY <2>1, <3>1, QueueTail, RunsTake
    <3>3. QED
      BY <2>4, <3>1, <3>2 DEF c, x, G
  <2>5. CASE j \notin S
    <3>1. c = << >> /\ act_out'[j] = c /\ ctr'[j] = x
      BY <2>2, <2>3, <2>5
    <3>2. Len(c) = 0
      BY <3>1, QueueOf
    <3>3. QED
      BY <2>1, <2>5, <3>1, <3>2 DEF c, x, G
  <2>6. QED
    BY <2>4, <2>5
<1>9. ASSUME NEW j \in Port PROVE ctr'[j] + Len(act_out'[j]) = ctr[j] + Len(act_out[j])
  <2> DEFINE x == ctr[j]
             l == Len(act_out[j])
             y == ctr'[j]
             m == Len(act_out'[j])
  <2>1. /\ x \in Nat /\ l \in Nat
        /\ y = (IF j \in S THEN x + 1 ELSE x) /\ m = IF j \in S THEN l - 1 ELSE l
    BY <1>7, <1>8
  <2> HIDE DEF x, l, y, m
  <2>2. y + m = x + l
    <3>1. CASE j \in S
      BY <2>1, <3>1
    <3>2. CASE j \notin S
      BY <2>1, <3>2
    <3>3. QED
      BY <3>1, <3>2
  <2>3. QED
    BY <2>2 DEF x, l, y, m
<1>10. Retired' = Retired
  <2> DEFINE a == ctr'[N-1] + Len(act_out'[N-1])
             b == ctr[N-1] + Len(act_out[N-1])
  <2>1. a = b /\ Retired = b /\ b \in Nat
    BY <1>7, <1>9
  <2>2. Retired' = Ctr(N-1)' + Len(act_out'[N-1]) - out'[N-1]
    BY DEF Retired
  <2>3. Retired' = a - 0
    BY <1>0, <1>6, <1>7, <2>2
  <2> HIDE DEF a, b
  <2>4. QED
    BY <2>1, <2>3
<1>11. ArrayRight'
  <2>1. \A i \in Port : Runs(fed'[i], Column(input', i), Retired')
    BY <1>0, <1>10 DEF ArrayRight
  <2>2. \A j \in Port : Runs(act_out'[j], Column(output', j), Ctr(j)')
    BY <1>0, <1>6, <1>8
  <2>3. QED
    BY <2>1, <2>2 DEF ArrayRight, Runs, Column
<1>12. Wavefront'
  <2>1. ASSUME NEW a \in Port, NEW b \in Port, a < b PROVE out'[b] <= out'[a] /\ Ctr(b)' <= Ctr(a)'
    <3> DEFINE x == ctr[a]
               y == ctr[b]
               k == Len(act_out[a])
               l == Len(act_out[b])
               o == out[a]
               p == out[b]
    <3>1. /\ x \in Nat /\ y \in Nat /\ k \in Nat /\ l \in Nat /\ o \in Nat /\ p \in Nat /\ Retired \in Nat
          /\ x + k = Retired + o /\ y + l = Retired + p /\ p <= o /\ y <= x
      BY <1>7, <2>1
    <3>2. /\ Ctr(a)' = (IF a \in S THEN x + 1 ELSE x) /\ Ctr(b)' = (IF b \in S THEN y + 1 ELSE y)
          /\ (b \in S => l >= 1) /\ (a \notin S => k = 0)
      BY <1>6, <1>8
    <3>3. out'[a] = o /\ out'[b] = p
      BY <1>0
    <3> HIDE DEF x, y, k, l, o, p
    <3>4. CASE b \in S /\ a \notin S
      BY <3>1, <3>2, <3>3, <3>4
    <3>5. CASE ~(b \in S /\ a \notin S)
      BY <3>1, <3>2, <3>3, <3>5
    <3>6. QED
      BY <3>4, <3>5
  <2>2. \A j \in Port : Ctr(j)' + Len(act_out'[j]) = Retired' + out'[j]
    BY <1>0, <1>6, <1>7, <1>9, <1>10
  <2>3. QED
    BY <1>0, <1>7, <2>1, <2>2 DEF Wavefront
<1>13. Running /\ Running'
  BY <1>0 DEF Running
<1>14. "com" \in waiting
  BY <1>0, <1>13, WorkIsWaited DEF Shape
<1>15. \A j \in Port, n \in 0 .. Entries-1 :
         (Kept(j, n) <=> n < ctr[j] \/ n >= M) /\ (Kept(j, n)' <=> n < ctr'[j] \/ n >= M)
  <2>1. irq["com"] = << >>
    BY <1>13 DEF Shape, Tokens, Token, Busy, Units
  <2>2. QED
    BY <1>0, <1>6, <1>14, <2>1 DEF Kept, Working
<1>16. ASSUME NEW j \in Port, NEW n \in 0 .. Entries-1, Kept(j, n)'
       PROVE  WillHold(Stores, Banks(1), N*n + j, output[N*n + j])'
  <2> DEFINE q == Stores
             b == Banks(1)
             a == N*n + j
             v == output[a]
  <2>1. Puts(req, a, v) \/ (~Touches(req, a) /\ WillHold(q, b, a, v))
    <3>1. CASE j \in S /\ n = ctr[j]
      BY <1>3, <3>1
    <3>2. CASE ~(j \in S /\ n = ctr[j])
      <4>1. n < ctr[j] \/ n >= M
        <5>1. (n < ctr'[j] \/ n >= M) /\ ctr[j] \in Nat /\ n \in Nat
          BY <1>7, <1>15, <1>16, EntriesAssumption
        <5>2. ctr'[j] = IF j \in S THEN ctr[j] + 1 ELSE ctr[j]
          BY <1>8
        <5>3. QED
          BY <3>2, <5>1, <5>2
      <4>2. WillHold(q, b, a, v)
        BY <1>0, <1>15, <4>1 DEF OutputRight
      <4>3. QED
        BY <1>3, <3>2, <4>2
    <3>3. QED
      BY <3>1, <3>2
  <2>2. IsQueue(q) /\ Stores' = q \o <<req>> /\ Banks(1)' = b /\ output'[N*n + j] = v
    BY <1>0, <1>4, <1>5
  <2> HIDE DEF q, b, a, v
  <2>3. WillHold(q \o <<req>>, b, a, v)
    BY <2>1, <2>2, HoldsAsk
  <2>4. WillHold(Stores', Banks(1)', N*n + j, output'[N*n + j])
    BY <2>2, <2>3 DEF a
  <2>5. QED
    BY <2>4 DEF WillHold, Puts, Touches
<1>17. OutputRight'
  BY <1>0, <1>16 DEF OutputRight, IsBuffer, Computed
<1>18. Requests'
  <2> DEFINE q == Stores
  <2>1. IsQueue(q) /\ AllFormed(q) /\ Formed(req) /\ Stores' = q \o <<req>> /\ Req(0)' = Req(0)
        /\ AllFormed(Req(0))
    BY <1>0, <1>3, <1>4, <1>5 DEF Requests
  <2> HIDE DEF q
  <2>2. AllFormed(q \o <<req>>)
    BY <2>1, FormedAsk
  <2>3. AllFormed(Req(0)') /\ AllFormed(Stores')
    BY <2>1, <2>2
  <2>4. QED
    BY <2>3 DEF Requests, AllFormed, Formed, IsRequest, Spread
<1>19. Answers' = Answers
  BY <1>0, <1>4, <1>13, ComIssued
<1>20. InputRight' /\ SavedRight' /\ BeatsRight'
  BY <1>0, <1>4, <1>19, ReachedSame, InputSame, SavedSame, BeatValuesSame
<1>21. QED
  BY <1>11, <1>12, <1>17, <1>18, <1>20 DEF Values

-----------------------------------------------------------------------------
(* Steps of the host *)

(* The array, when nothing of it moves. *)
LEMMA WaveSame ==
    ASSUME Wavefront, UNCHANGED <<fed, out, act_out, ws, ctr>>
    PROVE  Wavefront'
<1>1. UNCHANGED out /\ UNCHANGED act_out /\ UNCHANGED ws /\ UNCHANGED ctr
  OBVIOUS
<1>2. QED
  BY <1>1 DEF Wavefront, Retired, Ctr

(* Without a computation there is nothing in it. *)
LEMMA NothingInside ==
    ASSUME Shape, Wavefront, "com" \notin waiting, UNCHANGED <<fed, act_out>>
    PROVE  ArrayRight'
<1>1. ASSUME NEW j \in Port PROVE fed[j] = << >> /\ act_out[j] = << >>
  <2> DEFINE f == fed[j]
             c == act_out[j]
  <2>1. IsQueue(f) /\ IsQueue(c) /\ Len(f) = 0 /\ Len(c) = 0
    BY ArrayIn
  <2> HIDE DEF f, c
  <2>2. f = << >> /\ c = << >>
    BY <2>1, QueueIs
  <2>3. QED
    BY <2>2 DEF f, c
<1>2. fed' = fed /\ act_out' = act_out
  OBVIOUS
<1>3. QED
  BY <1>1, <1>2, QueueOf DEF ArrayRight, Runs

(* A vector beyond the length of a run lies beyond its addresses. *)
LEMMA RowBeyond ==
    ASSUME NEW m \in Nat, NEW n \in Nat, n >= m, NEW j \in Port
    PROVE  N*m \in Nat /\ N*n + j \in Nat /\ ~ N*n + j < N*m
<1>1. N \in Nat /\ j \in Nat
  BY SizesPositive DEF Port
<1>2. N*n >= N*m /\ N*n \in Nat /\ N*m \in Nat
  BY <1>1
<1>3. QED
  BY <1>1, <1>2

(* At its start a unit is through with what it has nothing to do with. *)
LEMMA NothingThrough ==
    ASSUME NEW m \in Nat, NEW a \in Addr, a < W * 0 \/ a >= N * m
    PROVE  ~ a < N * m
<1>1. a \in Nat /\ W \in Nat /\ N \in Nat /\ N * m \in Nat
  BY InMemory, WAssumption, SizesPositive
<1> DEFINE c == N * m
<1>2. c \in Nat /\ (a < W * 0 \/ a >= c)
  BY <1>1
<1> HIDE DEF c
<1>3. W * 0 = 0
  BY <1>1
<1>4. ~ a < c
  BY <1>1, <1>2, <1>3
<1>5. QED
  BY <1>4 DEF c

(* A command says what the sides and the outside are to hold: of what it    *)
(* asks for nothing is done yet, what it does not ask for stays, and the    *)
(* other unit's work is not touched.                                        *)
LEMMA StartKeepsValues ==
    ASSUME Shape, Values, ~Prompt, NEW u \in Units, NEW m \in Lengths, StartCommand(u, m)
    PROVE  Values'
<1>0. /\ UNCHANGED <<memoryVars, id, irq, rd, wr, ext, rq, start_wr, ws, ctr, wreg, fed, out, act_out>>
      /\ waiting \subseteq Overlaps(u) /\ waiting' = waiting \cup {u} /\ (waiting = {} => Quiet)
      /\ len' = [len EXCEPT ![u] = m]
      /\ loads' = (IF u = "load" THEN loads + 1 ELSE loads)
      /\ input' = (IF u = "load" THEN Overlaid(input, [a \in Addr |-> In(loads', a)], m) ELSE input)
      /\ output' = (IF u = "com" THEN Overlaid(output, Computed(input), m) ELSE output)
      /\ saved' = (IF u = "store" THEN Overlaid(saved, output, m) ELSE saved)
      /\ Tokens /\ MemShape
      /\ Requests /\ InputRight /\ SavedRight /\ OutputRight /\ BeatsRight /\ ArrayRight /\ Wavefront
  BY DEF Shape, Values, StartCommand, axiVars, setupVars, Ready
<1>1. UNCHANGED <<Req(0), Req(1), Rsp(0), Rsp(1), Banks(0), Banks(1)>> /\ UNCHANGED Stores
  BY <1>0, ViewSame
<1>2. /\ u \notin waiting /\ "com" \notin waiting
      /\ u = "com" => waiting = {}
      /\ \A v \in Units : v # u => (v \in waiting' <=> v \in waiting)
  BY <1>0 DEF Overlaps, Units
<1>3. start[u] = << >> /\ irq[u] = << >> /\ ~Busy(u)
  BY <1>0, <1>2 DEF Tokens, Token
<1>4. "load" \in Units /\ "store" \in Units /\ "com" \in Units
  BY DEF Units
<1>5. len'[u] = m /\ m \in Nat /\ \A v \in Units : v # u => len'[v] = len[v]
  <2>1. len = [v \in Units |-> len[v]]
    BY <1>0 DEF Tokens
  <2>2. m \in Nat
    BY LengthsAssumption, EntriesAssumption
  <2>3. QED
    BY <1>0, <2>1, <2>2
<1>6. /\ u # "load" => \A a \in Addr : Reached("load", rd, a)' => Reached("load", rd, a)
      /\ u # "store" => \A a \in Addr : Reached("store", wr, a)' => Reached("store", wr, a)
  BY <1>0, <1>2, <1>4, <1>5 DEF Reached, Working, Through
<1>7. InputRight'
  <2>1. CASE u = "load"
    <3>1. rd'.at = "idle" /\ "load" \in waiting' /\ irq'["load"] = << >> /\ len'["load"] = m
      BY <1>0, <1>3, <1>5, <2>1 DEF Busy
    <3>2. input' = [a \in Addr |-> IF a < N * m THEN In(loads', a) ELSE input[a]]
      BY <1>0, <2>1 DEF Overlaid
    <3>3. IsBuffer(input)' /\ \A a \in Addr : a < N * m => input'[a] = In(loads', a)
      BY <3>2 DEF IsBuffer
    <3>4. ASSUME NEW a \in Addr, Reached("load", rd, a)'
          PROVE  WillHold(Req(0), Banks(0), a, input[a])'
      <4>1. Through(rd', len'["load"]) = 0
        BY <3>1 DEF Through
      <4>2. a < W * 0 \/ a >= N * m
        BY <3>1, <3>4, <4>1 DEF Reached, Working, Through
      <4>3. input'[a] = input[a]
        BY <1>5, <3>2, <4>2, NothingThrough
      <4>4. Reached("load", rd, a)
        BY <1>2, <2>1 DEF Reached, Working
      <4>5. WillHold(Req(0), Banks(0), a, input[a])
        BY <1>0, <4>4 DEF InputRight
      <4>6. WillHold(Req(0)', Banks(0)', a, input'[a])
        BY <1>1, <4>3, <4>5
      <4>7. QED
        BY <4>6 DEF WillHold, Puts, Touches
    <3>5. QED
      BY <3>1, <3>3, <3>4 DEF InputRight, In
  <2>2. CASE u # "load"
    <3>1. /\ input' = input /\ loads' = loads
          /\ "load" \in waiting' => "load" \in waiting /\ len'["load"] = len["load"]
      BY <1>0, <1>2, <1>4, <1>5, <2>2
    <3>2. QED
      BY <1>0, <1>1, <1>6, <2>2, <3>1, InputSame
  <2>3. QED
    BY <2>1, <2>2
<1>8. SavedRight'
  <2>1. CASE u = "store"
    <3>1. /\ wr'.at = "idle" /\ "store" \in waiting' /\ irq'["store"] = << >> /\ len'["store"] = m
      BY <1>0, <1>3, <1>5, <2>1 DEF Busy
    <3>2. saved' = [a \in Addr |-> IF a < N * m THEN output[a] ELSE saved[a]] /\ output' = output /\ ext' = ext
      BY <1>0, <2>1 DEF Overlaid
    <3>3. IsBuffer(saved)' /\ IsBuffer(ext)' /\ \A a \in Addr : a < N * m => saved'[a] = output'[a]
      BY <1>0, <3>2 DEF IsBuffer, SavedRight
    <3>4. ASSUME NEW a \in Addr, Reached("store", wr, a)' PROVE ext'[a] = saved'[a]
      <4>1. Through(wr', len'["store"]) = 0
        BY <3>1 DEF Through
      <4>2. a < W * 0 \/ a >= N * m
        BY <3>1, <3>4, <4>1 DEF Reached, Working, Through
      <4>3. saved'[a] = saved[a]
        BY <1>5, <3>2, <4>2, NothingThrough
      <4>4. Reached("store", wr, a)
        BY <1>2, <2>1 DEF Reached, Working
      <4>5. QED
        BY <1>0, <3>2, <4>3, <4>4 DEF SavedRight
    <3>5. QED
      BY <3>1, <3>3, <3>4 DEF SavedRight
  <2>2. CASE u # "store"
    <3>1. /\ saved' = saved
          /\ "store" \in waiting' => "store" \in waiting /\ u # "com" /\ len'["store"] = len["store"]
      BY <1>0, <1>2, <1>4, <1>5, <2>2
    <3>2. wr.at = "data" => u # "com"
      BY <1>0, <1>2, WorkIsWaited
    <3>3. u # "com" => output' = output
      BY <1>0
    <3>4. QED
      BY <1>0, <1>1, <1>6, <2>2, <3>1, <3>2, <3>3, SavedSame
  <2>3. QED
    BY <2>1, <2>2
<1>9. OutputRight'
  <2>1. CASE u = "com"
    <3>1. ws' = "idle" /\ "com" \in waiting' /\ irq'["com"] = << >> /\ M' = m
      BY <1>0, <1>3, <1>5, <2>1 DEF Busy, Running, M
    <3>2. /\ output' = [a \in Addr |-> IF a < N * m THEN Computed(input)[a] ELSE output[a]]
          /\ input' = input
      BY <1>0, <2>1 DEF Overlaid
    <3>3. Computed(input)' = Computed(input)
      BY <3>2 DEF Computed
    <3>4. IsBuffer(output)' /\ \A a \in Addr : a < N * m => output'[a] = Computed(input)[a]
      BY <3>2 DEF IsBuffer
    <3>5. ASSUME NEW j \in Port, NEW n \in 0 .. Entries-1, Kept(j, n)'
          PROVE  WillHold(Stores, Banks(1), N*n + j, output[N*n + j])'
      <4>1. n \in Nat /\ N*n + j \in Addr
        BY EntriesAssumption, RowIn
      <4>2. n < Ctr(j)' \/ n >= m
        BY <3>1, <3>5 DEF Kept, Working
      <4>3. Ctr(j)' = 0
        BY <3>1 DEF Ctr
      <4>4. ~ N*n + j < N*m
        BY <1>5, <4>1, <4>2, <4>3, RowBeyond
      <4>5. output'[N*n + j] = output[N*n + j]
        BY <3>2, <4>1, <4>4
      <4>6. Kept(j, n)
        BY <1>2 DEF Kept, Working
      <4>7. WillHold(Stores, Banks(1), N*n + j, output[N*n + j])
        BY <1>0, <4>6 DEF OutputRight
      <4>8. WillHold(Stores', Banks(1)', N*n + j, output'[N*n + j])
        BY <1>1, <4>5, <4>7
      <4>9. QED
        BY <4>8 DEF WillHold, Puts, Touches
    <3>6. QED
      BY <3>1, <3>3, <3>4, <3>5 DEF OutputRight
  <2>2. CASE u # "com"
    <3>1. output' = output /\ ~("com" \in waiting')
      BY <1>0, <1>2, <1>4, <2>2
    <3>2. \A j \in Port, n \in 0 .. Entries-1 : Kept(j, n)
      BY <1>2 DEF Kept, Working
    <3>3. QED
      BY <1>0, <1>1, <2>2, <3>1, <3>2, OutputKept
  <2>3. QED
    BY <2>1, <2>2
<1>10. BeatsRight'
  <2>1. ASSUME "com" \in waiting' PROVE Runs(Rsp(0), Reads(BeatLoads, input), Answers)'
    <3>1. waiting = {}
      BY <1>2, <1>4, <2>1
    <3>2. Rsp(0)' = << >>
      BY <1>0, <1>1, <3>1, QuietEmpty DEF Ids
    <3>3. QED
      BY <3>2, QueueOf DEF Runs
  <2>2. QED
    BY <2>1 DEF BeatsRight
<1>11. Requests'
  BY <1>0, <1>1, RequestsSame
<1>12. ArrayRight' /\ Wavefront'
  BY <1>0, <1>2, NothingInside, WaveSame
<1>13. QED
  BY <1>7, <1>8, <1>9, <1>10, <1>11, <1>12 DEF Values

(* An interrupt is taken: the work it tells of was over already. *)
LEMMA InterruptKeepsValues ==
    ASSUME Shape, Values, NEW u \in Units, Interrupt(u)
    PROVE  Values'
<1>0. /\ UNCHANGED <<memoryVars, id, input, output, saved, loads, rd, wr, ext,
                     rq, start_wr, ws, ctr, wreg, fed, out, act_out>>
      /\ irq[u] # << >> /\ irq' = [irq EXCEPT ![u] = Tail(@)] /\ waiting' = waiting \ {u}
      /\ len' = [len EXCEPT ![u] = 0]
      /\ Tokens
      /\ Requests /\ InputRight /\ SavedRight /\ OutputRight /\ BeatsRight /\ ArrayRight /\ Wavefront
  BY DEF Shape, Values, Interrupt, axiVars, setupVars, HasMsg
<1>1. UNCHANGED <<Req(0), Req(1), Rsp(0), Rsp(1), Banks(0), Banks(1)>> /\ UNCHANGED Stores
  BY <1>0, ViewSame
<1>2. ASSUME NEW v \in Units
      PROVE  /\ Working(v) => Working(v)' /\ len'[v] = len[v]
             /\ v \in waiting' => v \in waiting /\ len'[v] = len[v]
  <2>1. irq = [w \in Units |-> irq[w]] /\ len = [w \in Units |-> len[w]]
    BY <1>0 DEF Tokens
  <2>2. CASE v = u
    BY <1>0, <2>2 DEF Working
  <2>3. CASE v # u
    BY <1>0, <2>1, <2>3 DEF Working
  <2>4. QED
    BY <2>2, <2>3
<1>3. "load" \in Units /\ "store" \in Units /\ "com" \in Units
  BY DEF Units
<1>4. /\ \A a \in Addr : Reached("load", rd, a)' => Reached("load", rd, a)
      /\ \A a \in Addr : Reached("store", wr, a)' => Reached("store", wr, a)
      /\ \A j \in Port, n \in 0 .. Entries-1 : Kept(j, n)' => Kept(j, n)
  <2>1. /\ Working("load") => Working("load")' /\ len'["load"] = len["load"]
        /\ Working("store") => Working("store")' /\ len'["store"] = len["store"]
        /\ Working("com") => Working("com")' /\ M' = M
    BY <1>2, <1>3 DEF M
  <2>2. UNCHANGED rd /\ UNCHANGED wr /\ \A j \in Port : Ctr(j)' = Ctr(j)
    BY <1>0 DEF Ctr
  <2>3. QED
    BY <2>1, <2>2 DEF Reached, Through, Kept
<1>5. /\ "load" \in waiting' => "load" \in waiting /\ len'["load"] = len["load"]
      /\ "store" \in waiting' => "store" \in waiting /\ len'["store"] = len["store"]
      /\ "com" \in waiting' => "com" \in waiting /\ M' = M
  BY <1>2, <1>3 DEF M
<1>6. Requests' /\ InputRight' /\ SavedRight' /\ OutputRight'
  <2>1. UNCHANGED <<input, loads, Req(0), Banks(0), Banks(1), saved, ext, wr, Rsp(1), output, Stores>>
    BY <1>0, <1>1
  <2>2. InputRight'
    BY <1>0, <1>4, <1>5, <2>1, InputSame
  <2>3. SavedRight'
    BY <1>0, <1>4, <1>5, <2>1, SavedSame
  <2>4. OutputRight'
    BY <1>0, <1>4, <1>5, <2>1, OutputKept
  <2>5. QED
    BY <1>0, <2>1, <2>2, <2>3, <2>4, RequestsSame
<1>7. BeatsRight'
  <2>1. CASE "com" \in waiting'
    <3>1. "com" \in waiting /\ M' = M
      BY <1>5, <2>1
    <3>2. Answers' = Answers
      BY <1>0, <1>1, <3>1 DEF Answers, Issued, Running
    <3>3. QED
      BY <1>0, <1>1, <3>1, <3>2, BeatValuesSame
  <2>2. CASE "com" \notin waiting'
    BY <2>2 DEF BeatsRight
  <2>3. QED
    BY <2>1, <2>2
<1>8. ArrayRight' /\ Wavefront'
  BY <1>0, ArrayValuesSame
<1>9. QED
  BY <1>6, <1>7, <1>8 DEF Values

(* Nothing changes. *)
LEMMA IdleKeepsValues ==
    ASSUME Shape, Values, UNCHANGED vars
    PROVE  Values'
<1>0. /\ UNCHANGED <<memoryVars, id, waiting, irq, input, output, saved, loads, rd, wr, ext,
                     len, M, rq, start_wr, ws, ctr, wreg, fed, out, act_out>>
      /\ Requests /\ InputRight /\ SavedRight /\ OutputRight /\ BeatsRight /\ ArrayRight /\ Wavefront
  BY DEF Values, vars, clientVars, axiVars, setupVars, hostVars, M
<1>1. UNCHANGED <<Req(0), Req(1), Rsp(0), Rsp(1), Banks(0), Banks(1)>> /\ UNCHANGED Stores
  BY <1>0, ViewSame
<1>2. Answers' = Answers
  BY <1>0, <1>1, AnswersSame
<1>3. Requests' /\ InputRight' /\ SavedRight'
  BY <1>0, <1>1, RequestsSame, ReachedSame, InputSame, SavedSame
<1>4. OutputRight' /\ BeatsRight'
  BY <1>0, <1>1, <1>2, OutputSame, BeatValuesSame
<1>5. ArrayRight' /\ Wavefront'
  BY <1>0, ArrayValuesSame
<1>6. QED
  BY <1>3, <1>4, <1>5 DEF Values

(* What the invariant says at rest. *)
LEMMA SidesHold ==
    ASSUME Shape, Values, waiting = {}, Quiet
    PROVE  /\ Banks(0) = input /\ Banks(1) = output /\ ext = saved
           /\ wreg = << >> /\ rd.at = "idle" /\ wr.at = "idle"
           /\ \A s \in Ids : Req(s) = << >> /\ Rsp(s) = << >>
<1>0. MemShape /\ Tokens /\ ComShape /\ InputRight /\ OutputRight /\ SavedRight
  BY DEF Shape, Values
<1>1. \A s \in Ids : Req(s) = << >> /\ Rsp(s) = << >>
  BY <1>0, QuietEmpty
<1>2. AllOf(Req(0), "load") /\ AllOf(Req(1), "load")
  BY <1>1, AllOfOne DEF Ids
<1>3. rd.at = "idle" /\ wr.at = "idle" /\ ~Running
  BY <1>0, WorkIsWaited
<1>4. wreg = << >>
  BY <1>0, <1>3 DEF ComShape, Running
<1>5. Banks(0) = input
  BY <1>0, <1>2, InputIs
<1>6. Banks(1) = output
  BY <1>0, <1>2, <1>4, OutputIs
<1>7. ext = saved
  <2>1. \A a \in Addr : Reached("store", wr, a)
    BY DEF Reached, Working
  <2>2. \A a \in Addr : ext[a] = saved[a]
    BY <1>0, <2>1 DEF SavedRight
  <2>3. ext = [a \in Addr |-> ext[a]] /\ saved = [a \in Addr |-> saved[a]]
    BY <1>0 DEF SavedRight, IsBuffer
  <2>4. QED
    BY <2>2, <2>3
<1>8. QED
  BY <1>1, <1>3, <1>4, <1>5, <1>6, <1>7

(* The other way round: at rest it says no more than that. *)
LEMMA HoldsAtRest ==
    ASSUME waiting = {}, IsBuffer(input), IsBuffer(output), IsBuffer(saved), ext = saved,
           Req(0) = << >>, Stores = << >>, Banks(0) = input, Banks(1) = output, wr.at = "idle"
    PROVE  Requests /\ InputRight /\ SavedRight /\ OutputRight /\ BeatsRight
<1>1. \A a \in Addr : WillHold(Req(0), Banks(0), a, input[a])
  BY HoldsNow
<1>2. \A a \in Addr : WillHold(Stores, Banks(1), a, output[a])
  BY HoldsNow
<1>3. InputRight
  BY <1>1 DEF InputRight
<1>4. SavedRight
  BY DEF SavedRight
<1>5. OutputRight
  <2>1. ASSUME NEW j \in Port, NEW n \in 0 .. Entries-1 PROVE WillHold(Stores, Banks(1), N*n + j, output[N*n + j])
    BY <1>2, RowIn
  <2>2. QED
    BY <2>1 DEF OutputRight
<1>6. Requests
  BY QueueOf DEF Requests, AllFormed
<1>7. BeatsRight
  BY DEF BeatsRight
<1>8. QED
  BY <1>3, <1>4, <1>5, <1>6, <1>7

(* A flip exchanges the sides, and what they are to hold. *)
LEMMA FlipKeepsValues ==
    ASSUME Shape, Shape', Values, ~Prompt, NEW v \in Ids, FlipCommand(v)
    PROVE  Values'
<1>0. /\ UNCHANGED <<mem_req, req_inter, split_reg, mem_rsp, merge_reg, rsp_inter, core_rsp, mem,
                     waiting, irq, saved, loads, rd, wr, ext,
                     rq, start_wr, ws, ctr, wreg, fed, out, act_out>>
      /\ waiting = {} /\ Quiet /\ id' = v /\ id \in Ids /\ MemShape'
      /\ input' = (IF v = id THEN input ELSE output)
      /\ output' = (IF v = id THEN output ELSE input)
      /\ InputRight /\ OutputRight /\ SavedRight /\ Wavefront
  BY DEF Shape, Values, FlipCommand, axiVars, setupVars, Ready, splitVars, mergeVars, coreVars, MemShape
<1>1. /\ Banks(0) = input /\ Banks(1) = output /\ ext = saved /\ wreg = << >>
      /\ rd.at = "idle" /\ wr.at = "idle"
  BY <1>0, SidesHold
<1>2. Banks(0)' = input' /\ Banks(1)' = output'
  <2>1. mem[id] = input /\ mem[1-id] = output
    BY <1>1 DEF Banks, Core
  <2>2. Banks(0)' = mem[v] /\ Banks(1)' = mem[1-v]
    BY <1>0 DEF Banks, Core
  <2>3. CASE v = id
    BY <1>0, <2>1, <2>2, <2>3
  <2>4. CASE v # id
    <3>1. v = 1 - id /\ 1 - v = id
      BY <1>0, <2>4 DEF Ids
    <3>2. QED
      BY <1>0, <2>1, <2>2, <2>4, <3>1
  <2>5. QED
    BY <2>3, <2>4
<1>3. IsBuffer(input)' /\ IsBuffer(output)' /\ IsBuffer(saved)' /\ ext' = saved'
  <2>1. IsBuffer(input) /\ IsBuffer(output) /\ IsBuffer(saved)
    BY <1>0 DEF InputRight, OutputRight, SavedRight
  <2>2. QED
    BY <1>0, <1>1, <2>1 DEF IsBuffer
<1>4. Req(0)' = << >> /\ Req(1)' = << >>
  <2>1. ASSUME NEW s \in Ids PROVE Req(s)' = << >>
    <3>1. Core(s)' \in Ids /\ 2*s \in 0 .. 3 /\ 2*s+1 \in 0 .. 3
      BY <1>0 DEF Core, Ids
    <3>2. /\ req_inter'[Core(s)'] = << >> /\ split_reg'[Core(s)'] = << >>
          /\ mem_req'[2*s] = << >> /\ mem_req'[2*s+1] = << >>
      BY <1>0, <3>1 DEF Quiet
    <3>3. << >> \o << >> = << >>
      BY QueueOf, QueueIs
    <3>4. QED
      BY <3>2, <3>3 DEF Req
  <2>2. QED
    BY <2>1 DEF Ids
<1>5. Req(0)' = << >> /\ Stores' = << >>
  <2>1. << >> \o << >> = << >>
    BY QueueOf, QueueIs
  <2>2. QED
    BY <1>0, <1>1, <1>4, <2>1 DEF Stores
<1>6. (Requests /\ InputRight /\ SavedRight /\ OutputRight /\ BeatsRight)'
  <2>1. waiting' = {} /\ wr'.at = "idle"
    BY <1>0, <1>1
  <2>2. (/\ waiting = {} /\ IsBuffer(input) /\ IsBuffer(output) /\ IsBuffer(saved) /\ ext = saved
         /\ Req(0) = << >> /\ Stores = << >> /\ Banks(0) = input /\ Banks(1) = output
         /\ wr.at = "idle")'
    BY <1>2, <1>3, <1>5, <2>1
  <2>3. QED
    BY <2>2, HoldsAtRest, PTL
<1>7. ArrayRight' /\ Wavefront'
  BY <1>0, NothingInside, WaveSame
<1>8. QED
  BY <1>6, <1>7 DEF Values

-----------------------------------------------------------------------------
(* The start, and all steps *)

(* The counters, and the copies of mem_id. *)
Counts ==
    /\ wm \in Nat /\ \A j \in Port : ctr[j] \in 0 .. wm
    /\ steps \in 0 .. Steps /\ loads \in 0 .. steps
Copies == split_id \in Ids /\ merge_id \in Ids

ValuesInv == BufferInv /\ Values /\ Counts /\ Copies

(* Nothing has been asked for, and everything is empty. *)
LEMMA InitValues ==
    ASSUME Init
    PROVE  Values /\ Counts /\ Copies
<1>0. /\ Shape /\ MemShape
      /\ waiting = {} /\ irq = [u \in Units |-> << >>] /\ id = 0 /\ wreg = << >> /\ ws = "idle"
      /\ wr.at = "idle"
      /\ mem = [b \in Ids |-> [a \in Addr |-> Empty]]
      /\ input = [a \in Addr |-> Empty] /\ output = [a \in Addr |-> Empty]
      /\ saved = [a \in Addr |-> Empty] /\ ext = [a \in Addr |-> Empty]
      /\ fed = [i \in Port |-> << >>] /\ out = [j \in Port |-> 0] /\ act_out = [j \in Port |-> << >>]
      /\ ctr = [j \in Port |-> 0] /\ wm = 0 /\ steps = 0 /\ loads = 0 /\ Quiet
  BY InitShape DEF Init, MemoryInit, Shape, Idle, Quiet
<1>1. IsBuffer(input) /\ IsBuffer(output) /\ IsBuffer(saved) /\ ext = saved
  BY <1>0 DEF IsBuffer
<1>2. Banks(0) = input /\ Banks(1) = output
  BY <1>0 DEF Banks, Core, Ids
<1>3. Req(0) = << >> /\ Stores = << >>
  <2>1. Req(0) = << >> /\ Req(1) = << >>
    BY <1>0, QuietEmpty DEF Ids
  <2>2. << >> \o << >> = << >>
    BY QueueOf, QueueIs
  <2>3. QED
    BY <1>0, <2>1, <2>2 DEF Stores
<1>4. Requests /\ InputRight /\ SavedRight /\ OutputRight /\ BeatsRight
  BY <1>0, <1>1, <1>2, <1>3, HoldsAtRest
<1>5. ArrayRight
  BY <1>0, QueueOf DEF ArrayRight, Runs
<1>6. Wavefront
  <2>1. \A j \in Port : Ctr(j) = 0 /\ out[j] = 0 /\ Len(act_out[j]) = 0
    BY <1>0, QueueOf DEF Ctr
  <2>2. N-1 \in Port /\ Retired = 0
    BY <2>1, SizesPositive DEF Retired
  <2>3. QED
    BY <2>1, <2>2 DEF Wavefront
<1>7. Counts
  BY <1>0, SizesPositive, StepsAssumption DEF Counts
<1>8. Copies
  BY DEF Init, MemoryInit, Copies, Ids
<1>9. QED
  BY <1>4, <1>5, <1>6, <1>7, <1>8 DEF Values

(* Every step keeps them. *)
LEMMA NextValues ==
    ASSUME BufferInv, Shape', Values, ~Prompt, ~RandStall, [Next]_vars
    PROVE  Values'
<1>0. Shape /\ FlipShape
  BY DEF BufferInv, FlipInv
<1>1. CASE MemoryStep
  BY <1>0, <1>1, MemoryKeepsValues
<1>2. CASE MasterRead
  BY <1>0, <1>2, MasterReadKeepsValues, ReadDataKeepsValues DEF MasterRead
<1>3. CASE MasterWriteReq
  BY <1>0, <1>3, WriteReqTrigKeepsValues, ReqPushKeepsValues DEF MasterWriteReq
<1>4. CASE MasterWrite
  BY <1>0, <1>4, MasterWriteKeepsValues, WriteDataKeepsValues DEF MasterWrite
<1>5. CASE ReadReqRun
  BY <1>0, <1>5, ReadReqStartKeepsValues, BeatKeepsValues DEF ReadReqRun
<1>6. CASE ReadRspRun
  BY <1>0, <1>6, RspRunKeepsValues
<1>7. CASE WriteReqRun
  BY <1>0, <1>7, WriteStartKeepsValues, WritePollKeepsValues, WritePushKeepsValues,
     WriteIRQKeepsValues DEF WriteReqRun
<1>8. CASE \E j \in Port : ArrayOut(j)
  BY <1>0, <1>8, ArrayOutKeepsValues
<1>9. CASE \E u \in Units : (\E m \in Lengths : StartCommand(u, m)) \/ Interrupt(u)
  BY <1>0, <1>9, StartKeepsValues, InterruptKeepsValues
<1>10. CASE \E v \in Ids : FlipCommand(v)
  BY <1>0, <1>10, FlipKeepsValues
<1>11. CASE Stop \/ UNCHANGED vars
  BY <1>0, <1>11, IdleKeepsValues DEF Stop
<1>12. QED
  BY <1>1, <1>2, <1>3, <1>4, <1>5, <1>6, <1>7, <1>8, <1>9, <1>10, <1>11 DEF Next

(* Only WriteReqRun counts vectors, and only the host commands. *)
LEMMA NextCounts ==
    ASSUME BufferInv, Values, Counts, ~RandStall, [Next]_vars
    PROVE  Counts'
<1>0. Shape /\ ComShape /\ Steps \in Nat /\ M \in Nat /\ steps \in 0 .. Steps /\ loads \in 0 .. steps
      /\ wm \in Nat /\ \A j \in Port : ctr[j] \in 0 .. wm
  BY StepsAssumption DEF BufferInv, Counts, Shape, ComShape
<1>1. CASE WriteReqStart
  <2>1. start_wr # << >> /\ wm' = Head(start_wr) /\ ctr' = [j \in Port |-> 0] /\ steps' = steps /\ loads' = loads
    BY <1>1 DEF WriteReqStart, hostVars, HasMsg
  <2>2. start_wr = <<M>> /\ Head(<<M>>) = M
    BY <1>0, <2>1 DEF ComShape
  <2>3. QED
    BY <1>0, <2>1, <2>2 DEF Counts
<1>2. CASE WriteReqPoll
  <2>1. PICK S \in SUBSET Port :
           /\ \A j \in Port : (j \in S) \in PopNB(act_out[j])
           /\ ctr' = [j \in Port |-> IF j \in S THEN ctr[j] + 1 ELSE ctr[j]]
    BY <1>2 DEF WriteReqPoll
  <2>2. ws = "poll" /\ wm' = wm /\ steps' = steps /\ loads' = loads /\ \A j \in S : act_out[j] # << >>
    BY <1>2, <2>1 DEF WriteReqPoll, hostVars, PopNB, HasMsg
  <2>3. wm = M /\ \A j \in S : ctr[j] \in 0 .. M-1
    BY <1>0, <2>2, PolledIs DEF ComShape
  <2>4. ASSUME NEW j \in Port PROVE ctr'[j] \in 0 .. wm
    <3>1. CASE j \in S
      <4>1. ctr'[j] = ctr[j] + 1 /\ ctr[j] \in 0 .. M-1
        BY <2>1, <2>3, <3>1
      <4>2. QED
        BY <1>0, <2>3, <4>1
    <3>2. CASE j \notin S
      BY <1>0, <2>1, <3>2
    <3>3. QED
      BY <3>1, <3>2
  <2>5. QED
    BY <1>0, <2>2, <2>4 DEF Counts
<1>3. CASE \E u \in Units, m \in Lengths : StartCommand(u, m)
  <2>1. PICK u \in Units, m \in Lengths : StartCommand(u, m)
    BY <1>3
  <2>2. /\ UNCHANGED <<ctr, wm>> /\ steps < Steps /\ steps' = steps + 1
        /\ loads' = IF u = "load" THEN loads + 1 ELSE loads
    BY <2>1 DEF StartCommand, Ready, setupVars
  <2>3. QED
    BY <1>0, <2>2 DEF Counts
<1>4. CASE \E v \in Ids : FlipCommand(v)
  <2>1. UNCHANGED <<ctr, wm>> /\ steps < Steps /\ steps' = steps + 1 /\ UNCHANGED loads
    BY <1>4 DEF FlipCommand, Ready, setupVars
  <2>2. QED
    BY <1>0, <2>1 DEF Counts
<1>5. CASE UNCHANGED <<ctr, wm, steps, loads>>
  BY <1>0, <1>5 DEF Counts
<1>6. CASE MemoryStep \/ MasterRead \/ MasterWriteReq \/ MasterWrite
  <2>1. UNCHANGED <<ctr, wm, steps, loads>>
    BY <1>6 DEF MemoryStep, clientVars, setupVars, hostVars, MasterRead, MasterReadTrig, MasterReadAddr,
         MasterReadData, MasterWriteReq, MasterWriteReqTrig, MasterWriteReqPush, MasterWrite,
         MasterWriteTrig, MasterWriteAddr, MasterWriteData
  <2>2. QED
    BY <1>5, <2>1
<1>7. CASE ReadReqRun \/ ReadRspRun \/ WriteReqPush \/ WriteReqIRQ
  <2>1. UNCHANGED <<ctr, wm, steps, loads>>
    BY <1>7 DEF ReadReqRun, ReadReqStart, ReadReqBeat, ReadRspRun, WriteReqPush, WriteReqIRQ, hostVars
  <2>2. QED
    BY <1>5, <2>1
<1>8. CASE (\E j \in Port : ArrayOut(j)) \/ (\E u \in Units : Interrupt(u)) \/ Stop \/ UNCHANGED vars
  <2>1. UNCHANGED <<ctr, wm, steps, loads>>
    BY <1>8 DEF ArrayOut, Interrupt, Stop, vars, clientVars, setupVars, hostVars
  <2>2. QED
    BY <1>5, <2>1
<1>9. QED
  BY <1>1, <1>2, <1>3, <1>4, <1>6, <1>7, <1>8 DEF Next, WriteReqRun

(* A copy of mem_id is brought up to date with a side. *)
LEMMA UpdateIn ==
    ASSUME NEW k \in Ids, FlipShape, NEW a \in Ids, NEW b, Update(k, a, b)
    PROVE  b \in Ids
<1> DEFINE f == flip_inter[k]
<1>1. f \in Seq(Ids) /\ (b = a \/ (f # << >> /\ b = Head(f)))
  BY DEF FlipShape, Update, Got, PopNB, HasMsg
<1> HIDE DEF f
<1>2. QED
  BY <1>1

(* Only SplitReqRun and MergeRspRun change them. *)
LEMMA NextCopies ==
    ASSUME FlipShape, Copies, [Next]_vars
    PROVE  Copies'
<1>0. split_id \in Ids /\ merge_id \in Ids /\ 0 \in Ids /\ 1 \in Ids
  BY DEF Copies, Ids
<1>1. CASE UNCHANGED <<split_id, merge_id>>
  BY <1>0, <1>1 DEF Copies
<1>2. CASE SplitReqRun
  <2>1. UNCHANGED merge_id
    BY <1>2 DEF SplitReqRun, SplitPoll, SplitPush, mergeVars
  <2>2. Update(0, split_id, split_id') \/ UNCHANGED split_id
    BY <1>2 DEF SplitReqRun, SplitPoll, SplitPush
  <2>3. QED
    BY <1>0, <2>1, <2>2, UpdateIn DEF Copies
<1>3. CASE MergeRspRun
  <2>1. UNCHANGED split_id
    BY <1>3 DEF MergeRspRun, MergePoll, MergePush, splitVars
  <2>2. Update(1, merge_id, merge_id') \/ UNCHANGED merge_id
    BY <1>3 DEF MergeRspRun, MergePoll, MergePush
  <2>3. QED
    BY <1>0, <2>1, <2>2, UpdateIn DEF Copies
<1>4. CASE FlipRun \/ \E b \in Ids : MemoryRun(b)
  <2>1. UNCHANGED <<split_id, merge_id>>
    BY <1>4 DEF FlipRun, FlipPop, FlipPush, MemoryRun, CorePop, CorePush, splitVars, mergeVars
  <2>2. QED
    BY <1>1, <2>1
<1>5. CASE MasterRead \/ MasterWriteReq \/ MasterWrite
  <2>1. UNCHANGED <<split_id, merge_id>>
    BY <1>5 DEF memoryVars, splitVars, mergeVars, MasterRead, MasterReadTrig, MasterReadAddr,
         MasterReadData, MasterWriteReq, MasterWriteReqTrig, MasterWriteReqPush, MasterWrite,
         MasterWriteTrig, MasterWriteAddr, MasterWriteData
  <2>2. QED
    BY <1>1, <2>1
<1>6. CASE ReadReqRun \/ ReadRspRun \/ WriteReqRun
  <2>1. UNCHANGED <<split_id, merge_id>>
    BY <1>6 DEF memoryVars, splitVars, mergeVars, ReadReqRun, ReadReqStart, ReadReqBeat, ReadRspRun,
         WriteReqRun, WriteReqStart, WriteReqPoll, WriteReqPush, WriteReqIRQ
  <2>2. QED
    BY <1>1, <2>1
<1>7. CASE \/ \E j \in Port : ArrayOut(j)
           \/ \E u \in Units : (\E m \in Lengths : StartCommand(u, m)) \/ Interrupt(u)
           \/ \E v \in Ids : FlipCommand(v)
           \/ Stop \/ UNCHANGED vars
  <2>1. UNCHANGED <<split_id, merge_id>>
    BY <1>7 DEF memoryVars, splitVars, mergeVars, ArrayOut, StartCommand, Interrupt, FlipCommand,
         Stop, vars
  <2>2. QED
    BY <1>1, <2>1
<1>8. QED
  BY <1>2, <1>3, <1>4, <1>5, <1>6, <1>7 DEF Next, MemoryStep, MemoryNext

(* The values are right in every reachable state. *)
LEMMA ValuesHold == Spec => [](~Prompt /\ ~RandStall => ValuesInv)
<1>1. Init => (~Prompt /\ ~RandStall => ValuesInv)
  BY InitFlip, InitShape, InitValues DEF ValuesInv, BufferInv
<1>2. (~Prompt /\ ~RandStall => ValuesInv) /\ [Next]_vars => (~Prompt /\ ~RandStall => ValuesInv)'
  <2> SUFFICES ASSUME ~Prompt, ~RandStall, ValuesInv, [Next]_vars
               PROVE  ValuesInv'
    OBVIOUS
  <2>1. BufferInv /\ Values /\ Counts /\ Copies /\ FlipShape
    BY DEF ValuesInv, BufferInv, FlipInv
  <2>2. BufferInv' /\ Shape'
    BY <2>1, NextFlip, NextShape DEF BufferInv
  <2>3. Values' /\ Counts' /\ Copies'
    BY <2>1, <2>2, NextValues, NextCounts, NextCopies
  <2>4. QED
    BY <2>2, <2>3 DEF ValuesInv
<1>3. QED
  BY <1>1, <1>2, PTL DEF Spec

(* BuffersRight. *)
THEOREM SidesRight == Spec => [](~Prompt /\ ~RandStall => BuffersRight)
<1>1. ValuesInv => BuffersRight
  <2> SUFFICES ASSUME ValuesInv, waiting = {}, Quiet
               PROVE  mem[id] = input /\ mem[1-id] = output /\ ext = saved
    BY DEF BuffersRight
  <2>1. Banks(0) = input /\ Banks(1) = output /\ ext = saved
    BY SidesHold DEF ValuesInv, BufferInv
  <2>2. QED
    BY <2>1 DEF Banks, Core
<1>2. QED
  BY <1>1, ValuesHold, PTL

-----------------------------------------------------------------------------
(* The requests *)

(* The parts of a queue of requests. *)
LEMMA FormedParts ==
    ASSUME NEW q, IsQueue(q), NEW r, IsQueue(r), AllFormed(q \o r)
    PROVE  AllFormed(q) /\ AllFormed(r)
<1> DEFINE u == q \o r
<1>1. /\ Len(q) \in Nat /\ Len(r) \in Nat /\ Len(u) = Len(q) + Len(r)
      /\ \A k \in 1 .. Len(q) : u[k] = q[k]
      /\ \A k \in 1 .. Len(r) : u[Len(q) + k] = r[k]
      /\ AllFormed(u)
  BY QueueIs, QueueCat
<1> HIDE DEF u
<1>2. ASSUME NEW k \in 1 .. Len(q) PROVE Formed(q[k])
  <2>1. k \in 1 .. Len(u)
    BY <1>1
  <2>2. Formed(u[k])
    BY <1>1, <2>1 DEF AllFormed
  <2>3. QED
    BY <1>1, <2>2
<1>3. ASSUME NEW k \in 1 .. Len(r) PROVE Formed(r[k])
  <2>1. Len(q) + k \in 1 .. Len(u)
    BY <1>1
  <2>2. Formed(u[Len(q) + k])
    BY <1>1, <2>1 DEF AllFormed
  <2>3. QED
    BY <1>1, <2>2
<1>4. QED
  BY <1>2, <1>3 DEF AllFormed

(* Every request on its way is one the memory can serve. *)
LEMMA RequestsFormed ==
    ASSUME MemShape, ComShape, Requests, NEW s \in Ids
    PROVE  AllFormed(req_inter[Core(s)]) /\ AllFormed(mem_req[2*s]) /\ AllFormed(mem_req[2*s+1])
<1> DEFINE a == req_inter[Core(s)]
           b == split_reg[Core(s)]
           c == mem_req[2*s]
           d == mem_req[2*s+1]
           q == Req(1)
           w == wreg
<1>1. /\ IsQueue(a) /\ IsQueue(b) /\ IsQueue(c) /\ IsQueue(d) /\ IsQueue(c \o d) /\ IsQueue(b \o (c \o d))
      /\ Req(s) = a \o (b \o (c \o d))
  BY Parts DEF Req
<1>2. IsQueue(q) /\ IsQueue(w) /\ AllFormed(q \o w)
  BY StoresIs DEF Requests, Stores
<1>3. AllFormed(Req(0))
  BY DEF Requests
<1> HIDE DEF a, b, c, d, q, w
<1>4. AllFormed(q)
  BY <1>2, FormedParts
<1>5. AllFormed(Req(s))
  BY <1>3, <1>4 DEF q, Ids
<1>6. AllFormed(a) /\ AllFormed(b \o (c \o d))
  BY <1>1, <1>5, FormedParts
<1>7. AllFormed(c \o d)
  BY <1>1, <1>6, FormedParts
<1>8. AllFormed(c) /\ AllFormed(d)
  BY <1>1, <1>7, FormedParts
<1>9. QED
  BY <1>6, <1>8 DEF a, c, d

(* A channel of flips holds no more than the last one. *)
LEMMA FlipsFew ==
    ASSUME FlipInv, NEW k \in Ids
    PROVE  Len(flip_inter[k]) <= Cap
<1>1. Cap \in Nat /\ Cap >= 1
  BY CapAssumption
<1>2. Len(<< >>) = 0 /\ Len(<<id>>) = 1
  OBVIOUS
<1>3. flip_inter[k] = << >> \/ flip_inter[k] = <<id>>
  BY DEF FlipInv, FlipOnItsWay
<1>4. QED
  BY <1>1, <1>2, <1>3

(* TypeOK. *)
THEOREM RequestsInRange == Spec => [](~Prompt /\ ~RandStall => TypeOK)
<1>1. ValuesInv => TypeOK
  <2> SUFFICES ASSUME ValuesInv PROVE TypeOK
    OBVIOUS
  <2>1. /\ Shape /\ FlipInv /\ MemShape /\ PortTypes /\ ComShape /\ ArrayShape /\ Tokens /\ id \in Ids
        /\ Requests /\ Counts /\ Copies
    BY DEF ValuesInv, BufferInv, Shape, Values, MemShape
  <2>2. ASSUME NEW s \in Ids
        PROVE  AllFormed(req_inter[Core(s)]) /\ AllFormed(mem_req[2*s]) /\ AllFormed(mem_req[2*s+1])
    BY <2>1, RequestsFormed
  <2>3. ASSUME NEW p \in 0 .. 3 PROVE Len(mem_req[p]) <= Cap /\ AllFormed(mem_req[p])
    <3>1. \E s \in Ids : p = 2*s \/ p = 2*s+1
      <4>1. p \in {2*0, 2*0+1, 2*1, 2*1+1}
        OBVIOUS
      <4>2. QED
        BY <4>1 DEF Ids
    <3>2. QED
      BY <2>1, <2>2, <3>1 DEF MemShape, Channel
  <2>4. ASSUME NEW b \in Ids PROVE AllFormed(req_inter[b])
    BY <2>1, <2>2, Cores
  <2>5. ASSUME NEW b \in Ids
        PROVE  /\ Len(req_inter[b]) <= Cap /\ Len(rsp_inter[b]) <= Cap /\ Len(mem_rsp[b]) <= Cap
               /\ Len(flip_inter[b]) <= Cap
    BY <2>1, FlipsFew DEF MemShape, Channel
  <2>6. waiting \subseteq Units
    BY <2>1 DEF Tokens, Units
  <2>7. ASSUME NEW j \in Port PROVE out[j] \in 0 .. Depth /\ Len(fed[j]) <= Depth
    <3> DEFINE l == Len(fed[j])
               o == out[j]
    <3>1. o \in Nat /\ o <= l /\ l <= Depth /\ IsQueue(fed[j])
      BY <2>1 DEF ArrayShape
    <3>2. l \in Nat
      BY <3>1, QueueIs
    <3> HIDE DEF l, o
    <3>3. o \in 0 .. Depth /\ l <= Depth
      BY <3>1, <3>2, DepthAssumption
    <3>4. QED
      BY <3>3 DEF l, o
  <2>8. steps \in 0 .. Steps /\ loads \in 0 .. Steps /\ \A j \in Port : ctr[j] \in 0 .. wm
    BY <2>1, StepsAssumption DEF Counts
  <2>9. split_id \in Ids /\ merge_id \in Ids
    BY <2>1 DEF Copies
  <2>10. ASSUME NEW q, AllFormed(q) PROVE \A k \in 1 .. Len(q) : IsRequest(q[k])
    BY <2>10 DEF AllFormed, Formed
  <2>11. ASSUME NEW p \in 0 .. 3 PROVE \A k \in 1 .. Len(mem_req[p]) : mem_req[p][k].type = PortType(p)
    <3>1. p \in {0, 1, 2, 3}
      OBVIOUS
    <3>2. QED
      BY <2>1, <3>1 DEF PortTypes, AllOf, PortType
  <2>12. QED
    BY <2>1, <2>3, <2>4, <2>5, <2>6, <2>7, <2>8, <2>9, <2>10, <2>11 DEF TypeOK
<1>2. QED
  BY <1>1, ValuesHold, PTL
=============================================================================
