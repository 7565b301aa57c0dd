---------------------------- MODULE ClockedConfig ----------------------------
(***************************************************************************)
(* ClockedArray with SysConfigRun: the host may write a new configuration  *)
(* before, during or after the load of the weights, and the word goes from *)
(* SysArray to every SysBias, which polls it before sums and weights.      *)
(*                                                                         *)
(* Nothing in the accelerator holds a run back for a configuration that is *)
(* still on its way.  The host starts after the load and has written the   *)
(* configuration before; what the model takes from the code is that the    *)
(* way to the first beat is longer by Lead cycles.                         *)
(***************************************************************************)
EXTENDS ClockedArray

CONSTANTS
    Reconfig,   \* TRUE: the host may write one configuration with each load
    Lead        \* cycles at least from the last word and the configuration in
                \* SysArray to the first beat: ControlRun starts one command of
                \* the host at a time, and a read takes longer than a write

ASSUME ReconfigAssumption == Reconfig \in BOOLEAN
ASSUME LeadAssumption == Lead \in Nat \ {0}

VARIABLE
    config      \* SysConfigRun: word still to come, next column to push, Out
                \* ports; In ports of SysBias, and whether it has its word;
                \* cycles to wait before the run starts

configVars == <<vars, config>>

Due == IF Reconfig THEN BOOLEAN ELSE {FALSE}
Wait(due) == IF due THEN Lead ELSE 0

ConfigInit ==
    /\ Init
    /\ \E due \in Due :
         config = [due |-> due, wait |-> Wait(due), col |-> N,
                   out |-> [j \in Idx |-> FALSE], in |-> [j \in Idx |-> FALSE],
                   got |-> [j \in Idx |-> ~due]]

-----------------------------------------------------------------------------
ConfigArrives(j) == Arrives(config.in[j], config.out[j])
ConfigAtEdge == [j \in Idx |-> Stays(config.out[j], config.in[j])]

(* SysBias polls, and its configuration is there. *)
Configured(j) == bias[j].at = "poll" /\ ConfigArrives(j)

(* Faulty variant: the word does not reach the last column. *)
ColumnsButLast == 0 .. N-2

(* The columns that get the word. *)
Columns == Idx

(* SysConfigRun: the word goes to all columns in ascending order; go is     *)
(* whether the word of the host has come.                                   *)
SysConfigRun(go) ==
    LET new == config.col = N
        next == IF new THEN 0 ELSE config.col
        pushes == ~new \/ (config.due /\ go)
    IN [due |-> config.due /\ ~pushes,
        wait |-> IF Loaded /\ ~config.due /\ config.wait > 0 THEN config.wait - 1 ELSE config.wait,
        col |-> IF pushes THEN StopsAt(Columns, next, ConfigAtEdge) ELSE N,
        out |-> IF pushes THEN PushedTo(Columns, next, ConfigAtEdge) ELSE ConfigAtEdge,
        in |-> [j \in Idx |-> ConfigArrives(j) /\ ~Configured(j)],
        got |-> [j \in Idx |-> config.got[j] \/ Configured(j)]]

(* The first beat of a run may come. *)
Startable == ~config.due /\ config.wait = 0

-----------------------------------------------------------------------------
ConfigCycle(newConfig, newWord, newBeat, room) ==
    /\ Cycle({j \in Idx : Configured(j)}, newWord, newBeat /\ Startable, room)
    /\ config' = SysConfigRun(newConfig)

ConfigNextLoad ==
    /\ NextLoad
    /\ \E due \in Due :
         config' = [config EXCEPT !.due = due, !.wait = Wait(due), !.got = [j \in Idx |-> ~due]]

ConfigNext ==
    \/ \E newConfig, newWord, newBeat, room \in BOOLEAN :
         ConfigCycle(newConfig, newWord, newBeat, room)
    \/ ConfigNextLoad

ConfigSpec == ConfigInit /\ [][ConfigNext]_configVars

(* The clock does not stop, and each client gets its turn some day: the     *)
(* configuration and the next word (Served of AxiPort), the next beat, room *)
(* in the memory (Answered of DoubleBuffer).                                *)
FairSpec ==
    /\ ConfigSpec
    /\ WF_configVars(\E newWord, newBeat, room \in BOOLEAN : ConfigCycle(TRUE, newWord, newBeat, room))
    /\ WF_configVars(\E newConfig, newBeat, room \in BOOLEAN : ConfigCycle(newConfig, TRUE, newBeat, room))
    /\ WF_configVars(\E newConfig, newWord, room \in BOOLEAN : ConfigCycle(newConfig, newWord, TRUE, room))
    /\ WF_configVars(\E newConfig, newWord, newBeat \in BOOLEAN : ConfigCycle(newConfig, newWord, newBeat, TRUE))

-----------------------------------------------------------------------------
(* No output of a run is made with the old configuration: when a SysBias    *)
(* has taken its first sum, the word has come, through SysConfigRun, the    *)
(* ports of all columns and the polls of SysBias, whatever weight words and *)
(* waits it met there.                                                      *)
ConfigAhead == \A j \in Idx : bias[j].at = "push" \/ bias[j].made > 0 => config.got[j]
=============================================================================
