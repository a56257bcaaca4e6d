------------------------------ MODULE ConfigMap ------------------------------
(***************************************************************************)
(* What the configuration store promises: a map from keys to values that   *)
(* can be written at any time and read only when it is readable, which     *)
(* sorting makes it and adding a key undoes.  A call that fails changes    *)
(* nothing.  A value is the sequence of the items appended under its key.  *)
(*                                                                         *)
(* One operator per call, and one for a write or a sort that is refused.   *)
(* Which call a step is, the state does not tell: whoever uses the map     *)
(* says so (ConfigStore in EachCall, the loaders and the parser in their   *)
(* actions).                                                               *)
(***************************************************************************)
EXTENDS Naturals, Sequences

CONSTANTS Keys, Items

VARIABLES
  map,        \* for each key, <<>> or <<its value>>
  readable,
  reply       \* what the last call returned

mapVars == <<map, readable, reply>>

Absent == <<>>
Present(k) == map[k] # Absent

Reply(ok, value) == [ok |-> ok, value |-> value]

MapInit ==
  /\ map = [k \in Keys |-> Absent]
  /\ readable = FALSE
  /\ reply = Reply(TRUE, Absent)

Fail == reply' = Reply(FALSE, Absent) /\ UNCHANGED <<map, readable>>

Write(k, value) ==
  /\ map' = [map EXCEPT ![k] = <<value>>]
  /\ readable' = (readable /\ Present(k))
  /\ reply' = Reply(TRUE, Absent)

Put(k, item) == Write(k, <<item>>)

Extend(k, item) == Write(k, IF Present(k) THEN Append(map[k][1], item) ELSE <<item>>)

MakeReadable ==
  /\ readable' = TRUE
  /\ reply' = Reply(TRUE, Absent)
  /\ UNCHANGED map

Get(k) ==
  /\ reply' = IF readable /\ Present(k) THEN Reply(TRUE, map[k]) ELSE Reply(FALSE, Absent)
  /\ UNCHANGED <<map, readable>>
=============================================================================
