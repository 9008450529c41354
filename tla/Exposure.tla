----------------------------- MODULE Exposure -----------------------------
(***************************************************************************)
(* Policies, with what each cell's cover was last sold on remembered: the  *)
(* exposure limit reads the minimum stake when cover is sold, and          *)
(* set_pool_params may move it at any time, up or down, without a look at  *)
(* the cover there is (instructions/pool.rs, instructions/policy.rs).      *)
(***************************************************************************)
EXTENDS Policies

VARIABLE soldOn   \* history: the minimum stake of a cell's last sale, or 0

exposureVars == <<vars, soldOn>>

ExposureInit == Init /\ soldOn = [c \in CellIds |-> 0]

ExposureNext ==
  /\ Next
  /\ soldOn' = [c \in CellIds |-> IF cellReserved'[c] > cellReserved[c] THEN pool.minStake ELSE soldOn[c]]

ExposureSpec == ExposureInit /\ [][ExposureNext]_exposureVars

(* The collusion floor under another minimum stake.                        *)
FloorOn(stake) == stake * ((MinSensors + 1) \div 2)

(* Taking a cell over costs at least twice what the cell can be made to    *)
(* pay, under the minimum stake its cover was last sold on, whatever the   *)
(* stake, the capital and the share of it a cell may expose become later;  *)
(* so it does under the stake of now, unless that was lowered since the    *)
(* cell's last sale (SC-014).                                              *)
CollusionNeverPays ==
  \A c \in CellIds :
    /\ 2 * cellReserved[c] <= FloorOn(soldOn[c])
    /\ pool.minStake >= soldOn[c] => 2 * cellReserved[c] <= CollusionFloor
=============================================================================
