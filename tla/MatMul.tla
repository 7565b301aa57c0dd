------------------------------- MODULE MatMul -------------------------------
(***************************************************************************)
(* What the accelerator promises its host.  A run multiplies M vectors of  *)
(* N activations by an N x N weight matrix; the results appear in the      *)
(* result memory, any number at a time and in any order, each one final    *)
(* and right; the interrupt comes when, and only when, all of them are     *)
(* there.                                                                  *)
(***************************************************************************)
EXTENDS Integers

CONSTANTS
    N,      \* columns of the matrix
    M,      \* vectors per run
    Gens    \* bound on the runs

VARIABLES
    phase,      \* loading the matrix, running, interrupt raised, or failed
    gen,        \* the current matrix
    result      \* word m of column j

vars == <<phase, gen, result>>

Cells == (0 .. M-1) \X (0 .. N-1)

(* A result is where it comes from: the configuration, the bias word and   *)
(* the set of products.  A word is <<column, load, row>>, row N being the  *)
(* bias; an activation is <<run, row, index>>.                             *)
Unwritten == [cfg |-> 0, bias |-> <<0, 0, N>>, sum |-> {}]

(* Word m of column j of run g: the sum over the rows of activation times  *)
(* weight, plus the column's bias, under the run's configuration.          *)
Expected(g, j, m) ==
    [cfg  |-> g,
     bias |-> <<j, g, N>>,
     sum  |-> {<< <<g, i, m>>, <<j, g, i>> >> : i \in 0 .. N-1}]

Init ==
    /\ phase = "load"
    /\ gen = 1
    /\ result = [m \in 0 .. M-1 |-> [j \in 0 .. N-1 |-> Unwritten]]

Start ==
    /\ phase = "load"
    /\ phase' = "run"
    /\ UNCHANGED <<gen, result>>

(* Results appear in the cells C; the last ones may raise the interrupt. *)
Deliver(C) ==
    /\ phase = "run"
    /\ result' = [m \in 0 .. M-1 |-> [j \in 0 .. N-1 |->
                    IF <<m, j>> \in C THEN Expected(gen, j, m) ELSE result[m][j]]]
    /\ \/ phase' = "run"
       \/ /\ \A m \in 0 .. M-1, j \in 0 .. N-1 : result'[m][j] = Expected(gen, j, m)
          /\ phase' = "irq"
    /\ UNCHANGED gen

NextLoad ==
    /\ phase = "irq"
    /\ gen < Gens
    /\ phase' = "load"
    /\ gen' = gen + 1
    /\ UNCHANGED result

Next == Start \/ (\E C \in SUBSET Cells : Deliver(C)) \/ NextLoad

Spec == Init /\ [][Next]_vars
=============================================================================
