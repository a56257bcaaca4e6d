------------------------------ MODULE ErrorLog ------------------------------
(***************************************************************************)
(* What the error collector promises its callers, without its lock, its    *)
(* array or its counter: a log to which each append adds one record at a   *)
(* single instant between its call and its return, or adds nothing and     *)
(* says so.                                                                *)
(***************************************************************************)
EXTENDS Naturals, Sequences

CONSTANTS
  Workers,    \* threads that append
  Appends     \* calls one worker makes

VARIABLES
  log,        \* the records of the appends that took effect, in order
  issued,     \* calls each worker has made
  call        \* where each worker's current call stands

logVars == <<log, issued, call>>

Record(w) == <<w, issued[w]>>

LogInit ==
  /\ log = <<>>
  /\ issued = [w \in Workers |-> 0]
  /\ call = [w \in Workers |-> "none"]

Invoke(w) ==
  /\ call[w] = "none"
  /\ issued[w] < Appends
  /\ issued' = [issued EXCEPT ![w] = @ + 1]
  /\ call' = [call EXCEPT ![w] = "pending"]
  /\ UNCHANGED log

TakeEffect(w) ==
  /\ call[w] = "pending"
  /\ log' = Append(log, Record(w))
  /\ call' = [call EXCEPT ![w] = "accepted"]
  /\ UNCHANGED issued

Refuse(w) ==
  /\ call[w] = "pending"
  /\ call' = [call EXCEPT ![w] = "refused"]
  /\ UNCHANGED <<log, issued>>

Respond(w) ==
  /\ call[w] \in {"accepted", "refused"}
  /\ call' = [call EXCEPT ![w] = "none"]
  /\ UNCHANGED <<log, issued>>

LogNext == \E w \in Workers : Invoke(w) \/ TakeEffect(w) \/ Refuse(w) \/ Respond(w)

LogSpec == LogInit /\ [][LogNext]_logVars
=============================================================================
