---------------------------- MODULE HandleTable ----------------------------
(***************************************************************************)
(* What an index manager promises its callers, without saying how: a table *)
(* on which concurrent clients add, get and del, each operation taking     *)
(* effect in one instant between its call and its return (linearizable).   *)
(*                                                                         *)
(* A client owns the key that add returned until it calls del with it.     *)
(***************************************************************************)
EXTENDS IndexTable, FiniteSets

CONSTANTS Clients, Payloads, Keys, NoCall, Waiting, MaxOutstanding

VARIABLES
  bound,     \* the map from keys to payloads
  issued,    \* keys returned by add on which del was not called yet
  call,      \* call[c]: the operation client c is executing, or NoCall
  answer     \* answer[c]: what that operation will return, or Waiting

hvars == <<bound, issued, call, answer>>

(* The calls a client may make: get and del with a key in circulation. *)
Calls == [op : {"add"}, arg : Payloads] \cup [op : {"get", "del"}, arg : issued]

Init ==
  /\ bound = EmptyMap
  /\ issued = {}
  /\ call = [c \in Clients |-> NoCall]
  /\ answer = [c \in Clients |-> Waiting]

(* Keys in circulation or about to be: add is not called beyond the bound. *)
Outstanding(keys, calls) ==
  Cardinality(keys)
    + Cardinality({c \in Clients : calls[c] # NoCall /\ calls[c].op # "get"})

(* A client calls an operation; del takes its key out of circulation. *)
Invoke(c, r) ==
  /\ call[c] = NoCall
  /\ r.op = "add" => Outstanding(issued, call) < MaxOutstanding
  /\ call' = [call EXCEPT ![c] = r]
  /\ issued' = IF r.op = "del" THEN issued \ {r.arg} ELSE issued
  /\ UNCHANGED <<bound, answer>>

(* What the operation of c may answer now: add any key that is not bound,  *)
(* get the function and the data stored with it, del nothing.              *)
Answers(c) ==
  CASE call[c].op = "add" -> Keys \ DOMAIN bound
    [] call[c].op = "get" -> {<<Lookup(bound, call[c].arg), Lookup(bound, call[c].arg)>>}
    [] call[c].op = "del" -> {Nil}

(* The instant at which the operation of c takes effect. *)
TakeEffect(c) ==
  /\ call[c] # NoCall
  /\ answer[c] = Waiting
  /\ \E a \in Answers(c) :
       /\ answer' = [answer EXCEPT ![c] = a]
       /\ bound' = CASE call[c].op = "add" -> Assign(bound, a, call[c].arg)
                     [] call[c].op = "get" -> bound
                     [] call[c].op = "del" -> Delete(bound, call[c].arg)
  /\ UNCHANGED <<issued, call>>

Return(c) ==
  /\ call[c] # NoCall
  /\ answer[c] # Waiting
  /\ issued' = IF call[c].op = "add" THEN issued \cup {answer[c]} ELSE issued
  /\ call' = [call EXCEPT ![c] = NoCall]
  /\ answer' = [answer EXCEPT ![c] = Waiting]
  /\ UNCHANGED bound

Next ==
  \E c \in Clients :
    \/ \E r \in Calls : Invoke(c, r)
    \/ TakeEffect(c)
    \/ Return(c)

Spec == Init /\ [][Next]_hvars
===========================================================================
