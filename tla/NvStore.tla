-------------------------------- MODULE NvStore --------------------------------
(***************************************************************************)
(* What the NV memory of the pair of controllers promises to the stack     *)
(* (src/CIPsafety/SAPL/SAPLnvHigh.c): what is found at a start is the      *)
(* default data or the data of one store, complete, and never data older   *)
(* than what a start could have found before.                              *)
(***************************************************************************)
EXTENDS Naturals

VARIABLES
  content,   \* what a start would find: the number of a store, 0 for defaults
  base,      \* the newest store a start could have found so far
  last       \* number of the last store

storeVars == <<content, base, last>>

StoreInit == content = 0 /\ base = 0 /\ last = 0

Request ==
  /\ last' = last + 1
  /\ UNCHANGED <<content, base>>

Show(v) ==
  /\ v \in base .. last
  /\ content' = v
  /\ base' = v
  /\ UNCHANGED last

FallBack ==
  /\ content' = 0
  /\ UNCHANGED <<base, last>>

StoreNext == Request \/ FallBack \/ \E v \in base .. last : Show(v)

StoreSpec == StoreInit /\ [][StoreNext]_storeVars

=============================================================================
