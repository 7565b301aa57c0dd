---------------------------- MODULE Connections ----------------------------
(***************************************************************************)
(* The latency-insensitive channels that join every thread of the          *)
(* accelerator.  A channel is a bounded first-in first-out sequence:       *)
(* capacity 2 in the cycle-accurate simulation (one entry in the Out port, *)
(* one in the In port), 1 or 2 in the fast simulation (tlm_fifo), and      *)
(* whatever a back-annotation file says otherwise.                         *)
(***************************************************************************)
EXTENDS Naturals, Sequences

CONSTANTS
    Cap,        \* entries of a channel
    RandStall   \* TRUE in a build with RAND_STALL: an In port may stall

ASSUME CapAssumption == Cap \in Nat \ {0}
ASSUME RandStallAssumption == RandStall \in BOOLEAN

(* Faulty variants: a port that overruns its buffer; one that may stall     *)
(* whatever the build.                                                      *)
HasRoomLate(ch) == Len(ch) <= Cap
PopNBLazy(ch) == {ok \in BOOLEAN : ok => ch # << >>}

HasRoom(ch) == Len(ch) < Cap     \* a blocking Push may complete
HasMsg(ch) == ch # << >>         \* a blocking Pop may complete

(* What PopNB may return: success exactly when the channel holds a message, *)
(* unless ports stall at random, and then a message may also be missed.     *)
PopNB(ch) ==
    {ok \in BOOLEAN : (ok => HasMsg(ch)) /\ (HasMsg(ch) => ok \/ RandStall)}

(* The channel, and the register PopNB writes, after a pop that succeeded   *)
(* or failed.                                                               *)
After(popped, ch) == IF popped THEN Tail(ch) ELSE ch
Got(popped, ch, reg) == IF popped THEN Head(ch) ELSE reg
=============================================================================
