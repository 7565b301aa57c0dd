--------------------------- MODULE ClockedChannel ---------------------------
(***************************************************************************)
(* A channel of Connections cycle by cycle: the register of its Out port,  *)
(* the register of its In port, and the transfer between them just before  *)
(* every clock edge.  Threads run at the edge, each on its own port, so    *)
(* their order within a cycle does not matter: a message pushed in one     *)
(* cycle can be popped in the next, and one message can pass per cycle.    *)
(***************************************************************************)
EXTENDS Sequences

NoMsgs == [out |-> << >>, in |-> << >>]

(* The edge: Post has put rdy (the In port is empty) and val (the Out port  *)
(* is full) on the wires, and Pre moves the message if both are up.         *)
Transfer(ch) ==
    IF ch.in = << >> THEN [out |-> << >>, in |-> ch.out] ELSE ch

CanPush(ch) == ch.out = << >>       \* a Push completes in this cycle
Pushed(ch, m) == [ch EXCEPT !.out = <<m>>]
CanPop(ch) == ch.in # << >>         \* a Pop completes, a PopNB succeeds
Front(ch) == Head(ch.in)
Popped(ch) == [ch EXCEPT !.in = << >>]
=============================================================================
