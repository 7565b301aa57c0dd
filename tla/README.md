# A TLA+ model of the systolic-array accelerator

The repository is an accelerator for 8-bit matrix multiplication, written in
SystemC for high-level synthesis: a weight-stationary array of N x N processing
elements, a double-buffered memory around it, AXI masters that load and store
matrices, and a control block a host programs over an AXI slave. This directory
holds its formal model: TLA+ modules translated from `src/cmod/Systolic`, TLC
runs on small instances, and TLAPS proofs for every size.

The whole design is a set of `SC_THREAD`s, about N*N + N + 16 of them, that
share no variables and talk only through latency-insensitive channels
(`Connections`), with blocking `Push`/`Pop` and non-blocking `PopNB`/`PushNB`.
What is hard about it is therefore interleaving, ordering between channels, and
blocking, not data.

## The system

| Component | State | Operations | Talks to |
|---|---|---|---|
| `SysPE` (N*N) | weight, activation, sum and three valid flags | `PERun`: three `PopNB`, multiply-accumulate, up to three blocking `Push` | left, right, upper and lower neighbours |
| `SysBias` (N) | bias, configuration | `SysBiasRun`: configuration, else a sum (quantise, push), else a bias | last row, `SysConfigRun`, `InputSetup` |
| `SysArray` | none beyond channels | `SysConfigRun` (fan-out), `ActOutRun` (drain), `AccumInRun` (offer zeros) | its PEs and biases |
| `InputSetup` | run length, counters per column | `ReadReqRun` (skewed reads), `ReadRspRun` (feed rows), `WriteReqRun` (store outputs, interrupt) | memory, array, `Control` |
| `Memory` | two copies of `mem_id` | `FlipRun`, `SplitReqRun`, `MergeRspRun` | two `MemoryCore`s, `InputSetup`, `InputAxi`, `Control` |
| `MemoryCore` | N banks | `MemoryRun`: one request, `ArbitratedScratchpad::load_store` | `Memory` |
| `InputAxi` | burst counters | `MasterRead`, `MasterWriteReq`, `MasterWrite` | AXI, `Memory`, `Control` |
| `WeightAxi` | column counter | `WeightAxiRun`: one read burst into the columns, interrupt | AXI, array, `Control` |
| `Control` | 8 registers | `ControlRun` (register writes become commands), `InterruptRun` (ten-cycle level) | host, everyone |
| `AxiArbiter` | requests held, round-robin mask, FIFO of masters in flight | `run_ar`, `run_aw` (choose), `run_w` (data), `run_r`, `run_b` (answers) | `WeightAxi`, `InputAxi`, the slave outside |
| `AxiSlaveToReadyValid` | requests held, access in progress | `run`: AXI reads and writes to register accesses | host, `Control` |

The host (in the repository, the `Master` of `SysTop/testbench.cpp`) writes the
registers, starts a weight load (1), an input load (2), a store (3) or a
computation (4), waits for the interrupt, and may flip the memory so that the
results of one computation are the input of the next.

What must be right, and where it is hard:

- **The array.** Every output is the sum of its own vector's products with the
  weights of this load, under this run's bias and configuration, whatever the
  delays (interleaving). Nothing is lost or left over between runs. The end of a
  run is recognised from the last column alone (ordering). Three blocking pushes
  per PE must not close a circle (deadlock).
- **The memory.** Requests and responses cross a switch whose two halves learn of
  a flip separately (stale state); interrupts and flips travel past the stores
  they should follow (ordering); the switch, the array and `InputSetup` wait on
  each other (deadlock); bank conflicts drop requests silently (resource bound).
- **The arithmetic.** 8-bit inputs, a 24-bit sum, a 32-bit scaled sum (numeric
  edges).
- **Control.** An interrupt without a cause, up for ten cycles, seen late or twice
  or not at all (timing); a length, an address, a configuration and a flip that
  belong to one command and travel through four channels (ordering).
- **The AXI port.** Two masters, one port: answers carry no name and find their
  way back by counting; nobody may starve.

`PROJECT.json` lists the hazards one by one with their source lines and the
properties that cover them.

## The modules

| Module | Models | Used by |
|---|---|---|
| `Connections` | a channel as a bounded FIFO; `PopNB` with or without random stalls | the interleaving models |
| `ClockedChannel` | a channel as two port registers, cycle by cycle | `Control` |
| `MatMul` | abstract specification: a run delivers exact results in any order, then one timely interrupt | `SysArray` (`Promise == INSTANCE MatMul WITH ...`) |
| `SysArray` | `SysPE`, `SysBias`, `SysArray`, and the channel ends of `WeightAxi`, `Control`, `InputSetup` | `MCSysArray`, proofs |
| `ClockedArray` | the same threads cycle by cycle, data left out | `ClockedConfig`, proofs |
| `ClockedConfig` | `ClockedArray` with `SysConfigRun` and a configuration that is still on its way | `MCClockedConfig`, proofs |
| `Memory` | `Memory` and `MemoryCore` | `DoubleBuffer` |
| `DoubleBuffer` | `Memory` with `InputAxi`, `InputSetup`, the host; the array by its promise | `MCDoubleBuffer`, proofs |
| `Datapath` | the arithmetic of one output, at its widths | `MCDatapath`, proofs |
| `Arbiter` | MatchLib's round-robin `Arbiter` | `AxiPort`, `Control` |
| `AxiPort` | `AxiArbiter`, the masters' sides of `WeightAxi` and `InputAxi`, the slave outside | `MCAxiPort`, proofs |
| `Control` | `ControlRun`, `InterruptRun`, `AxiSlaveToReadyValid`, the host, the units as busy or idle; cycle by cycle | `MCControl`, proofs |
| `SysArrayProofs`, `ResultProofs`, `MemoryProofs`, `BufferProofs`, `AxiPortProofs`, `ControlProofs`, `ClockedProofs`, `DatapathProofs` | theorems | |

### How state and actions correspond to the code

Channels are sequences named after the code's channels. A thread's loop
iteration is one action up to its first blocking `Push`; each blocking `Push` is
an action of its own with the guard `HasRoom`, and a program counter (`pc`,
`bpc`, `cfg_to`, `split_reg`, `ar.at`, ...) says which one is next. An iteration
that finds nothing to do changes nothing and is not a step. A `PopNB` that finds
nothing leaves its register unspecified in the code; the register is not read
until a pop succeeds, so the model leaves it alone.

`RandStall` is the build option `RAND_STALL`: an `In` port may then miss a
message that is there. Without it `PopNB` succeeds exactly when the channel holds
a message. `Cap` is the room of a channel: 1 or 2 in the simulations.

In `SysArray` the data are where they come from: a weight is <<column, load,
row>> (row N is the bias), an activation <<run, row, index>>, a sum the *set* of
its products, an output a sum with its bias and configuration. Two different
histories of an output are thus two different values, which no choice of numbers
would guarantee. `recv`, `fired` are history variables used by the invariants.
`Datapath` then deals with the values.

In `DoubleBuffer` the array is what `KeepsPromise` says of it: it takes vectors
row by row (`fed`, at most `Depth` of them), gives outputs column by column, and
forgets a vector all columns are done with. A response enters the array in one action, where the code pushes its
rows one by one. The AXI slave is outside the repository's design; it answers in
order and is folded into the masters. Every command has its own length M
(`Lengths`), which its unit keeps until the interrupt: `Overlaid` says that beyond it
a side of the memory, or the outside, stays what it was.

In `Control` the host writes whole configuration words. `Slice` is `get_slc`;
M - 1 goes with the start command, the other fields to the array, and
`StartedAsConfigured` puts them together again by the layout in the comment of
`Control.h`. What the units get is seen from outside: `UnitsRun` takes a flip or a
configuration where the code has one more hop, `FlipRun` in `Memory` and
`SysConfigRun` in `SysArray` and `ClockedConfig`.

In `AxiPort` a master has one burst in hand and goes on for ever; bursts are
numbered modulo two, which tells an answer from the one before. `passed` counts
the grants to others while a request is held. The read and the write side of
`AxiArbiter` share no thread, channel or register, so a behaviour follows one of
them (`traffic`).

`ClockedArray` and `Control` have a clock. `ClockedArray` does one cycle in one
step: the edge moves a message wherever the `Out` port is full and the `In` port
empty, then every thread goes from `wait()` to `wait()`, as far as its blocked
`Push` lets it. The clients' pace (a new word, a new beat, room in the memory) is
chosen anew in each cycle. `ClockedConfig` adds `SysConfigRun` to the cycle and a
configuration that may come in any cycle between the last run and the next. In `Control` the edge and each thread's part of the
cycle are steps taken in turn. A step that would have to wait in a `Push` does not
exist there; that TLC finds no deadlock shows that `ControlRun`, the slave and the
host never wait so, under the protocol of the host.

### Assumptions, each of them named in the model

- `InWavefront` (`SysArray`, `DoubleBuffer`): without random stalls, column j
  emits a vector's output after column j-1 has. This is the skew that `ReadReqRun`
  builds by feeding row j one cycle after row j-1, with one cycle per hop. An
  interleaving model has no clock, so there it is a guard of the outputs;
  `ColumnsInOrder` of `ClockedArray` shows that the clocked threads establish it,
  with any gaps in the streams and any waits of the memory. With `RandStall` the
  guard is off, and `array_assert` shows what then happens.
- `Settled` in `StartRun` (`SysArray`): the words of a load have come to rest when
  the computation starts, and so has the configuration. The code has no handshake for
  either. For the weights `WeightsAhead` shows that even a computation that begins in
  the cycle after the last word finds every weight in place when it is used; for the
  configuration `ConfigAhead` shows that no output is made with the old one.
- `Lead` (`ClockedConfig`): the first beat comes at least one cycle later than the
  last word and the configuration have. A start has to pass `ControlRun`,
  `InputSetup` and the memory, and a beat is the answer to a read, so there are many more in the code. One is
  enough and is needed: with `Lead = 0` a configuration that arrives in the last cycle
  of the load holds the last weight word up for a cycle, since `SysBias` polls it first,
  and TLC finds `WeightsAhead` violated. Without a configuration (`Reconfig = FALSE`)
  none is needed.
- `Quiet` with `Prompt = FALSE` in `Ready` (`DoubleBuffer`): the host learns of the
  end of a command by interrupt and answers over AXI, which takes longer than the
  last stores need. With `Prompt = TRUE` TLC finds the flip that overtakes the
  last stores; `buffer_early_irq` shows the cause.
- The host gives a unit one command at a time and waits for its interrupt; in
  `DoubleBuffer` a load and a store may overlap, since they use different sides.
- `WordsAssumption` of `Control`: the words the host writes to register 2 set no bit
  outside the documented fields, and their M - 1 is below `Entries`. For N = 32
  every 8-bit length is; for N = 8 and 16 a longer one is cut to `IndexType` without
  notice.
- `Granted` (`Memory`): of two ports that meet in a bank the lower one wins, where
  the scratchpad takes turns. No request of the modelled clients has two words in one
  bank (`ResponseWhole`, and `Spread` in the proofs), so no one's turn matters. That every
  request is of the type its port is for, which `SplitReqRun` asserts, is part of
  `TypeOK`.
- A failed `NVHLS_ASSERT` or `assert` stops the program (phase or place `abort`).

### Fairness

`SysArray` assumes none: `NeverStuck` says that some thread can go on, its runs look
for deadlocks besides, and end only where the host has no work left (`Stop`).
`DoubleBuffer` has `WF_vars(Next)`: something goes on while anything can; its
behaviours are finite, the host has `Steps` commands.
`AxiPort` has weak fairness of each thread, since a `SC_THREAD` is resumed at every
clock edge, but no master is obliged to ask, and nothing is assumed of the choice
between threads. `ClockedConfig` has one weak fairness per client (the
configuration, the next word, the next beat, room in the memory); `Served` of `AxiPort` and `Answered` of
`DoubleBuffer` are why they may be expected. `Control` has `WF_vars(Next)` for the clock and
`SF_vars(Finish)` for the units, justified by `Answered` and by `Finishes` of
`ClockedArray`; the host may take his time.

## The runs

| Run | Instance | Shows |
|---|---|---|
| `array_lockstep` | N = M = 2, two loads and runs, `Cap` 1, no stalls, 815 k states | `WholeRun`, `NeverStuck`, and `KeepsPromise`: the array implements `MatMul` |
| `array_stalls` | N = M = 2, one load and run, `Cap` 2, stalls, 699 k states | `TypeOK`, `ResultCorrect`, `WeightStationary` with any skew; no deadlock |
| `array_assert` | as `array_stalls`, `Cap` 1 | **violation** of `AssertHolds` |
| `array_clock` | N = M = 3, words as wide as the array, one configuration per load, 631 states | `ColumnsInOrder`, `WeightsAhead`, `ConfigAhead`, `EndsWhole`, `Finishes` |
| `buffer_commands` | two banks of three entries, four commands of length 1 or 3, fair, 681 k states | `TypeOK`, `BuffersRight`, `CopiesAgree`, `SidesFixed`, `ResponseWhole`, `Answered` |
| `buffer_backpressure` | eight vectors, an array of depth two, no stalls, 219 k states | `NotJammed` |
| `buffer_jam` | the same with stalls | **violation** of `NotJammed` |
| `buffer_early_irq` | two banks of two entries, three commands | **violation** of `DoneAtInterrupt` |
| `datapath_widths` | 256 rows, extreme values, 52 k states | `SumExact`, `OutputExact` |
| `datapath_reference` | 8 rows, the test's configuration | **violation** of `ReferenceAgrees` |
| `axi_port` | two masters, bursts of one and two beats, `Cap` 1, fair, 132 k states | `ReadsRouted`, `WritesPaired`, `ResponsesRouted`, `InTurn`, `Served` |
| `control_clock` | four entries, two configuration words, registers 1, 2, 4 and 6, fair, 476 k states | `OwnInterrupt`, `ReadBack`, `StartedAsConfigured`, `Answered` |

Bounds. In the array N = 2 has a first and a last row and column, a neighbour in
every direction, and every wait between PEs; N = 3 is out of TLC's reach (the
proofs are for all N). M = 2 lets the second vector catch up with the first in
every channel. Two loads show what is left over from the first. With random stalls
one run is explored: outputs of columns other than the last may then be counted
into the next run, which is part of what `array_assert` shows.

`ClockedArray` has few states because a cycle is one step and the data are left
out; N = 3 has an inner PE with all its neighbours, M = 3 keeps every PE of a row
busy at once. `Group = N` is the fastest word rate, one row per beat, and so the
hardest for `WeightsAhead`; the safety properties were also checked with N = 4.

In the memory, four commands contain load, compute, flip, compute, or load, compute,
store beside the next load, and every other order, each with a length of its own: a
short load over a long one, a long run over a short load. Five commands with lengths
are beyond five minutes of TLC; the theorems hold for any number of them. A transfer of
length 3 is a full burst and a short one, one of length 1 is one short burst; words
narrower than the memory are in `buffer_early_irq`. Eight entries are
the fewest that let the circle of `NotJammed` close with stalls; the array's
`Depth` is small in the same proportion (in the code, an array of 32 rows has room
for about a hundred vectors, and a run may have 256). Without stalls the sizes do not
matter (`NeverJammed`).

Two masters are what `SysTop` has. Bursts of one and of two beats have a beat that
is last and one that is not; since a master waits for its answer, an answer can
only be confused with that of the burst before, for which numbers modulo two
suffice. One of the two configuration words has something in every field, with the
largest M - 1 that `IndexType` holds, the other nothing but the multiplier that
`SysBias` is reset to. The host of
`control_clock` writes a word, an address, a flip and the four starts in any
order, any number of times; the other two base addresses are handled by the same
lines.

The margin of the ten-cycle interrupt was found by varying `Hold`: from 2 to 12
cycles no property of `control_clock` fails; with one cycle the host can miss the
level, and from 14 on it can take the level of the last command for that of the next
one, because giving a command and reading back the register takes the host about
as long. A faster host port than `AxiSlaveToReadyValid` would need a shorter level.

### What the violations mean

- `array_assert`: `WriteReqRun` takes the run to be over when the last column is,
  and asserts that column 0 is too (`InputSetup.h:198-201`). In a build with
  `RAND_STALL`, offered to check latency insensitivity, it need not be. The design
  is not latency insensitive here; without stalls the skew saves it
  (`CompletionCorrect`, `ColumnsInOrder`).
- `buffer_jam`: `SplitReqRun` serves both sides in one iteration and blocks on
  whichever core is not ready. With stalls `WriteReqRun` issues stores of partial
  wavefronts, more of them than loads, the array fills up, and the circle of waits
  closes.
- `buffer_early_irq`: "fire interrupt upon completion" is true of the requests,
  not of the memory.
- `datapath_reference`: the reference result in `SysTop/testbench.cpp` is 24 bits
  wide where the hardware is 32.

Each property of a passing run has a faulty variant of the code (`...Late`,
`...Short`, `...Crossed` and so on, next to the definition it replaces) with
which TLC finds the property violated.

## The proofs

TLAPS checks them with `tlapm <module>.tla`; nothing is assumed beyond the named
`ASSUME`s on constants (sizes, numbers of runs and capacities are positive
naturals; the sets of values in `Datapath` are within their widths and N is at
most 256).

`SysArrayProofs`
: `TypeCorrect`: `Spec => []TypeOK`, with and without stalls. `TypeOK` is
  inductive; the proof has a step per action, and under it one per conjunct the
  action can disturb.
  `StationaryWeights`: `WeightStationary` holds always, with and without stalls.
  `WeightStationary` says what the rows hold at the end; `LoadInv` says it of every
  moment of the load. `Nth(i, j, g, k)` is the k-th word that row i of column j
  gets: the old words of the rows above, then the new ones. A row holds the last
  word it has received, hands on the one before, and its channel holds the ones
  after; and no word is lost between a row and the next (`WordsConserved`). At the
  start nothing is on its way, so all rows have received the same number of
  words, namely the N + 1 that `WeightAxi` has pushed, and `Nth` says which is the last.
  That equal neighbours make all rows equal would be an induction over the rows;
  `NoDescent` replaces it by the cardinality of an interval.

`ResultProofs`
: `RunIsWhole`: without stalls `WholeRun` holds always. It is a conservation law:
  `fired[i][j]` counts the products of PE (i, j) in this run, and the difference
  between two neighbours is exactly what waits between them, in a channel, a
  register or the hand of a blocked `Push` (`ActConserved`, `SumConserved`). With
  `InOrder` (no PE is ahead of one to its left or above) and `Drained` (nothing
  is left between runs) it is inductive together with `TypeOK`. `CompletionCorrect`
  follows: `AssertHolds` alone is not inductive, because that the last column is
  complete says something about column 0 only through the order of the counters.

  `ResultsRight`: without stalls `ResultCorrect` holds always. `ActStream`,
  `SumStream` and `OutStream` are what should flow through a place in run g;
  `DataInv` says that each channel carries its stream, starting from the position
  that the counters of `WholeRun` give, so `WholeRun` supplies the positions,
  `LoadInv` the weights, and `DataInv` only the values.

  `FirstResultsRight`: with random stalls too, `ResultCorrect` holds in the first
  run. `WholeRun` is the conjunction of `Flow` (conservation, no PE ahead of one to
  its left or above, an empty array before a run) and `Even` (the columns in order
  at their outputs, and so a complete end). A step keeps `Flow` whatever the stalls
  do, unless it starts the next load in an array that is not empty (`NextFlow`);
  `Even` is what stalls break. `DataInv` needs `Flow` alone. Of a later run it may
  be false: an output of a column other than the last may be left over from the run
  before.

  `ArrayKeepsPromise`: the array implements `MatMul`. Storing the outputs of some
  columns is a `Deliver` of those cells; the interrupt comes when all counters are
  M, hence when every cell is right; everything else is a stutter.

  `NoDeadlock`: `NeverStuck` holds in every run without stalls and in the first one with
  them: until the interrupt some thread can go on, for every size and for channels of
  any capacity, 1 included. The invariants are `Flow`, `LoadInv` and `TurnInv`
  (a PE never holds both operands, a run whose last column is complete has ended, the
  words of a load go round). Suppose that in a run every thread waits. Among the products
  and outputs still to be made there is one that a wavefront would make first (the least
  `Made(i, j) + i + j`). Its operands have been made, by conservation. If its PE lacks an
  operand, the neighbour that made it cannot hand it on because a channel is full, of
  words that a PE on the same diagonal or one before has not taken (`FarAhead`,
  `SumsMissing`); a row that lacks activations is behind in the feeding order of
  `ReadRspRun`, which waits for a row whose channel is full (`FeedBlocked`). Either way
  something is missing that comes earlier still. In a load the lowest word of a
  column has room below it, and where no word is left the next one of `WeightAxi` has.
  `NeverStuck` writes out what each thread waits for, since `ENABLED` is beyond the
  prover; TLC's own check for deadlocks on the same instance agrees with it.

`MemoryProofs`
: `SidesStayFixed`, `LoadsComeBack`, `WordsComeWhole`: if the host lets the memory come
  to rest before its next command, `SidesFixed`, `CopiesAgree` and `ResponseWhole` hold
  always, with and without stalls and for every size of the memory, the words, the
  bursts, the array and the channels. None is inductive. `FlipOnItsWay` says that the
  last flip is in the first channel, or is being handed out by `FlipRun`, or has
  reached exactly the copies before `flip_to`, in their channel or in their variable.
  With it a side of the memory is one queue of requests, `Req(s)`, and one of answers,
  `Rsp(s)`, whichever channels and registers they are spread over, and a step of the
  memory does one of two things to a side (`MemoryMoves`): it leaves both queues alone,
  or its core takes the oldest request and puts an answer at the end (`CoreTakes`).
  `Shape` then says which requests may be there: who is at work (`Tokens`: a unit has
  its trigger, works, or has its interrupt, and never two of them), how a master counts
  its bursts (`Burster`), that the loads of `MasterWriteReq` and the answers
  `MasterWrite` waits for are the words of the burst from its counter on, in order
  (`StorePath`), that those of `ReadReqRun` are the beats it has issued and
  `ReadRspRun` has not yet taken (`ComBeats`), and that what the array holds is what
  those beats have brought less what has been stored (`ComCount`). The last two say
  that nothing of a computation is on its way once it is over, without which the next
  unit would not start from an empty side. An answer is whole because the addresses of
  a word fall into different banks (`WordSpread`, from W <= N), so that the crossbar
  drops none.
  `NeverJammed`: under the same hypothesis and without stalls `NotJammed` holds always,
  whatever the depth of the array and the room of the channels. In the circle everybody
  waits for the next, and the proof looks at the step that would close it. A step that
  makes somebody wait opens the circle somewhere else: a thread that takes something
  into its register makes room in the channel before it, one that pushes from it has
  an empty register. At two places that takes the absence of stalls: `SplitReqRun` takes
  a store in every iteration in which one is there, also when it takes a load
  (`SplitOpens`), and `WriteReqRun` takes the outputs of all columns that have one
  (`WriteOpens`). At two others it takes `Shape`: a response for the computation comes
  from the core that waits in the circle and not from the other one (`MergeOpens`), and
  it has rows of the array, which all have room once a vector leaves (`ArrayOpens`).
  The finding of `buffer_jam` therefore needs stalls, at any size: with them the first
  two steps fail, and TLC shows the circle closed.

`BufferProofs`
: `SidesRight`, `RequestsInRange`: without stalls, and under the hypothesis of
  `MemoryProofs`, `BuffersRight` and `TypeOK` of `DoubleBuffer` hold always.
  `BuffersRight` speaks of a quiet memory, so nearly every step of a transfer or a
  computation keeps it for no reason at all, and the last one breaks it unless the
  work before was right. `Values` says what that means at every moment. A bank will
  hold a value at an address (`WillHold`) when the bank has it, or a request on its
  way puts it there, and no later request puts anything else; so a store keeps what
  will be held while it moves from channel to channel and into the bank. A unit that
  works has `Reached` an address when it is through with it, or when the address lies
  beyond the length of its command and keeps what it held before. The input
  side will hold every word `MasterReadData` is done with (`InputRight`), the output
  side every output `WriteReqRun` has polled (`OutputRight`), the outside every word
  `MasterWriteData` has sent (`SavedRight`); the answers to the loads are the values
  of their beats, in order (`BeatsRight`), and what the array has taken and not yet
  put out is the columns of the input, by the counters (`ArrayRight`). When a unit is
  through and nothing is on its way, these are `BuffersRight`. For a computation that
  needs `Wavefront`: no column is ahead of one on its left, so when the last is
  complete, on which `WriteReqRun` ends the run, all are. A random stall lets one
  column be polled without its neighbour; the end of the run then says nothing of the
  columns between the first and the last, and `BuffersRight` is not claimed there.
  `TypeOK` needs the same: the address of a store is in the memory because no counter
  passes M, and that the requests on their way have such addresses (`Requests`) is
  part of the invariant.

`AxiPortProofs`
: `RoundRobin`: `InTurn` for any number of masters, with and without stalls. The
  mask is always 0 .. k-1, which puts every held request at a distance from its
  turn; the invariant `Turns` is that the grants that have passed a request and
  its distance add up to less than the number of masters. A grant to another
  adds one to the first and takes at least one from the second.
  `ReadsReturn`, `DataKeepAddress`, `ResponsesReturn`: `ReadsRouted`,
  `WritesPaired` and `ResponsesRouted` for any number of masters, any lengths of
  burst and any capacities. Answers carry no name, so the invariant names their
  owners. The masters whose reads are under way, in the order in which `run_ar` let
  them pass, are one sequence (the FIFO of masters, then what is on its way to it);
  the beats between the slave and `run_r` are the concatenation of their bursts,
  less the beats the first of them has had. The write side has the same for
  addresses, for words and for responses. A master is in the sequence at most once
  because it waits for its answer, which is why numbers modulo two tell an answer
  from the one before. The properties speak of the front of a channel only; that
  it is right after a pop is what the sequences are needed for.

`ControlProofs`
: `InterruptsOwn`, `ReadsBack`, `StartsAsConfigured`: `OwnInterrupt`, `ReadBack` and
  `StartedAsConfigured` for every size of the memory and all lengths, base addresses
  and sets of registers the host writes. The host has one access in hand, so the invariant
  says where it is (`HostPlace`: the address, the data word, the response, the gap
  before it is read back, the read, its data) and, for each place, what every
  channel holds (`Only`, `ControlPlace`). The slave responds to a write before
  `ControlRun` has seen it: the read may be right behind the write in `rv_in`
  (`ReadAhead`), and the register is right when it is read because that channel keeps
  their order (`RegsRight`). A setting is pushed with its command and taken in the
  next cycle, while `ControlRun` still replies to the write (`Settings`), so it has
  arrived before the answer to the read has.
  The interrupt is a level without a cause. That the host takes it for the right
  command is a matter of cycles, and `Timely` counts them: `hold` is what
  `InterruptRun` still waits for the command before, `Limit` how much of that is
  harmless at the place where the start is now. A cycle takes one from `hold` and
  at most one from `Limit`. The start is written at a limit of 11, exactly the
  wait, and its answer is with the host at a limit of 1, when the level
  is down. The margin of the code is three cycles: with `Hold` set to 13 TLC still
  finds `OwnInterrupt` true, with 14 false.

`ClockedProofs`
: `LeftToRight`, `WeightsComeFirst`, `RunEndsWhole`: `ColumnsInOrder`, `WeightsAhead`
  and `EndsWhole` for every N, M and width of a weight word. `Inv` counts. No word,
  activation, sum or output is lost between two ports (`WordsKept`, `ActsKept`,
  `SumsKept`, `OutputsKept`), so what a place has seen is what the place before has
  sent less what is in the port between. `LeftFirst`: at no place, whether a
  product begun, a sum finished, through its port or taken below, an output made,
  through its port or counted, is a column ahead of one on its left. For the
  products this holds because an activation passes the left column first; for each
  further place the number after the cycle is a monotone function of the numbers of
  the places around it before (`Passed`, `Polled`), so order at all places is kept
  at each. `UpperFirst` says the same of rows. `WordsFirst`: nothing is fed before
  the load is complete and its last words are in the first row; a PE passes on a word
  in the cycle it takes it, so no product finds a word in its way. `ColumnsInOrder`
  alone is not inductive: the outputs stay in order only because the sums behind
  them are, down to the activations. The end: the last column is complete, so by
  `LeftFirst` all are, by `UpperFirst` all rows are, and by conservation nothing is
  in any port (`EmptyAtEnd`), from where the next load starts as from `Init`.
  `ConfiguredBefore` carries this over to `ClockedConfig` when the configuration is
  written long before the run (`Reconfig` false).

`DatapathProofs`
: `AccumulatorExact` and `OutputCorrect`: after k rows the sum is at most 16384 k
  either way, 2^22 after 256 rows; a bias adds at most 2^22; a multiplier of 255
  stays within 32 bits. `OrderKept`: the quantisation is monotone.

Only model-checked: the liveness properties (`Answered`, `Served`, `Finishes`), which
are beyond the prover; `ConfigAhead`, a configuration that is still on its way when the
run starts; and the absence of deadlock in the modules other than
`SysArray` (for `DoubleBuffer` the one circle the code can close is `NotJammed`, which
is proved). The violations are TLC's.

## Not modelled, and the plan

Not modelled:

- The rest of MatchLib. It is vendored in full and is most of the repository's
  lines: generated array classes (`nvhls_array.h`), number types, routers,
  crossbars, caches and serialisers that the accelerator does not instantiate. What
  it does instantiate (channels, `Arbiter`, the FIFO, `ArbitratedScratchpad`, the
  AXI slave) is modelled; this is why the mapped share of all lines is small while
  nearly all of `src/cmod/Systolic` is mapped.
- The handshake under `Connections` below the level of its two port registers,
  marshalling, tracing, back-annotation.
- A single model of all of `SysTop`: the compositions are memory with its clients,
  masters with the arbiter, host with `Control` and the units, and they are tied
  together by the properties one assumes and another shows. Their product is out of
  TLC's reach.
- Transfers longer than the memory, and hosts that do not wait for the interrupt:
  both are outside the protocol of `Control.h`.
- The test bench of `SysPE` and the generation of data in the others, HLS scripts,
  waveforms, printing.

Planned next: what becomes of `TypeOK` and `BuffersRight` of `DoubleBuffer` when
columns stall apart.
