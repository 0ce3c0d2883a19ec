------------------------------- MODULE Future -------------------------------
(***************************************************************************)
(* What an Async promises the goroutines that share it (async.go): the     *)
(* execution has one outcome, decided once; it is "cancelled" only if      *)
(* somebody asked for that; and whoever asks is told this outcome, whole,  *)
(* or that it is not known yet.                                            *)
(***************************************************************************)
CONSTANTS
  Askers,     \* who may ask
  Outcomes,   \* records [st, vals]
  Pending     \* no outcome yet

VARIABLES
  outcome,    \* of the execution
  stop,       \* Cancel has been called
  answer      \* answer[a]: what a was told last, Pending while it waits

vars == <<outcome, stop, answer>>

Told(st, vals) == [st |-> st, vals |-> vals]
TooEarly == Told("false", <<>>)
HasEnded == Told("true", <<>>)

Init ==
  /\ outcome = Pending
  /\ stop = FALSE
  /\ answer = [a \in Askers |-> Pending]

Decide ==
  /\ outcome = Pending
  /\ outcome' \in {o \in Outcomes : o.st = "cancelled" => stop}
  /\ UNCHANGED <<stop, answer>>

Cancel ==
  /\ stop' = TRUE
  /\ UNCHANGED <<outcome, answer>>

Ask(a) ==
  /\ answer' = [answer EXCEPT ![a] = Pending]
  /\ UNCHANGED <<outcome, stop>>

Tell(a) ==
  /\ answer[a] = Pending
  /\ \E t \in IF outcome = Pending THEN {TooEarly} ELSE {outcome, HasEnded} :
       answer' = [answer EXCEPT ![a] = t]
  /\ UNCHANGED <<outcome, stop>>

Next == Decide \/ Cancel \/ \E a \in Askers : Ask(a) \/ Tell(a)

Spec == Init /\ [][Next]_vars
===========================================================================
