-------------------------- MODULE HostFuncManager --------------------------
(***************************************************************************)
(* hostFunctionManager (hostfunc.go): the table that gives a Go function   *)
(* and its data the integer key under which the C library calls it back.   *)
(*                                                                         *)
(* add, get and del are called by any number of goroutines: those that use *)
(* the API, and those on which the C library calls host functions.  Each   *)
(* statement that touches the table is an action of its own, so that the   *)
(* mutex, and not the granularity of the model, is what makes an operation *)
(* atomic.  funcs and data are two Go maps written one after the other.    *)
(*                                                                         *)
(* The callers are the rest of the package: they call get and del with a   *)
(* key that add returned, and del once for each key.  HostFunctions models *)
(* the callers themselves.                                                 *)
(***************************************************************************)
EXTENDS IndexTable, FiniteSets

CONSTANTS
  Goroutines,
  Payloads,        \* what is registered: a Go function with its data
  NoCall, Waiting,
  MaxOutstanding   \* bound: keys that are issued, being added or being deleted

AllCalls == [op : {"add"}, arg : Payloads] \cup [op : {"get", "del"}, arg : Nat]

ASSUME ConstantsAssumption ==
  /\ Nil \notin Goroutines \cup Payloads \cup Nat
  /\ NoCall \notin AllCalls
  /\ MaxOutstanding \in Nat

(* Waiting is not what an operation returns. *)
ASSUME WaitingAssumption ==
  Waiting \notin Nat \cup {Nil} \cup ((Payloads \cup {Nil}) \X (Payloads \cup {Nil}))

VARIABLES
  mu,       \* the mutex: the goroutine that holds it, or Nil
  idx,      \* the next key that was never used
  gc,       \* the recycled keys, a stack
  funcs,    \* key -> function
  data,     \* key -> hostdata
  pc,       \* pc[g]: the statement goroutine g executes next
  call,     \* call[g]: the call it is in
  realidx,  \* realidx[g]: the local variable of add
  got,      \* got[g]: the two values get returns
  issued    \* keys that add returned and on which del was not called yet

table == <<idx, gc, funcs, data>>
vars == <<mu, table, pc, call, realidx, got, issued>>

Calls == [op : {"add"}, arg : Payloads] \cup [op : {"get", "del"}, arg : issued]

Init ==
  /\ mu = Nil
  /\ idx = 0 /\ gc = <<>> /\ funcs = EmptyMap /\ data = EmptyMap
  /\ pc = [g \in Goroutines |-> "idle"]
  /\ call = [g \in Goroutines |-> NoCall]
  /\ realidx = [g \in Goroutines |-> Nil]
  /\ got = [g \in Goroutines |-> <<Nil, Nil>>]
  /\ issued = {}

Outstanding ==
  Cardinality(issued)
    + Cardinality({g \in Goroutines : call[g] # NoCall /\ call[g].op # "get"})

(* A goroutine calls add, get or del and is about to lock the mutex. *)
Invoke(g, r) ==
  /\ pc[g] = "idle"
  /\ r.op = "add" => Outstanding < MaxOutstanding
  /\ pc' = [pc EXCEPT ![g] = "lock"]
  /\ call' = [call EXCEPT ![g] = r]
  /\ issued' = IF r.op = "del" THEN issued \ {r.arg} ELSE issued
  /\ UNCHANGED <<mu, table, realidx, got>>

FirstStatement == [add |-> "reserve", get |-> "readfunc", del |-> "delfunc"]

\* Mistake: no mutual exclusion.
Lock_NoWait(g) ==
  /\ pc[g] = "lock"
  /\ mu' = g
  /\ pc' = [pc EXCEPT ![g] = FirstStatement[call[g].op]]
  /\ UNCHANGED <<table, call, realidx, got, issued>>

Lock(g) ==
  /\ pc[g] = "lock"
  /\ mu = Nil
  /\ mu' = g
  /\ pc' = [pc EXCEPT ![g] = FirstStatement[call[g].op]]
  /\ UNCHANGED <<table, call, realidx, got, issued>>

(* g executes the statement at and goes on to next. *)
Goto(g, at, next) ==
  /\ pc[g] = at
  /\ pc' = [pc EXCEPT ![g] = next]
  /\ UNCHANGED <<mu, call, issued>>

\* Mistakes: the entry that add takes stays in gc; idx is not increased; add
\* never looks at gc.
Reserve_NoPop(g) ==
  /\ Goto(g, "reserve", "setfunc")
  /\ realidx' = [realidx EXCEPT ![g] = IF Len(gc) > 0 THEN Last(gc) ELSE idx]
  /\ idx' = IF Len(gc) > 0 THEN idx ELSE idx + 1
  /\ UNCHANGED <<gc, funcs, data, got>>

Reserve_NoIncrement(g) ==
  /\ Goto(g, "reserve", "setfunc")
  /\ realidx' = [realidx EXCEPT ![g] = IF Len(gc) > 0 THEN Last(gc) ELSE idx]
  /\ gc' = IF Len(gc) > 0 THEN Front(gc) ELSE gc
  /\ UNCHANGED <<idx, funcs, data, got>>

Reserve_IgnoreGc(g) ==
  /\ Goto(g, "reserve", "setfunc")
  /\ realidx' = [realidx EXCEPT ![g] = idx]
  /\ idx' = idx + 1
  /\ UNCHANGED <<gc, funcs, data, got>>

(* add: pop a recycled key, or take the next one. *)
Reserve(g) ==
  /\ Goto(g, "reserve", "setfunc")
  /\ \/ /\ Len(gc) > 0
        /\ realidx' = [realidx EXCEPT ![g] = Last(gc)]
        /\ gc' = Front(gc)
        /\ idx' = idx
     \/ /\ Len(gc) = 0
        /\ realidx' = [realidx EXCEPT ![g] = idx]
        /\ idx' = idx + 1
        /\ gc' = gc
  /\ UNCHANGED <<funcs, data, got>>

SetFunc(g) ==
  /\ Goto(g, "setfunc", "setdata")
  /\ funcs' = Assign(funcs, realidx[g], call[g].arg)
  /\ UNCHANGED <<idx, gc, data, realidx, got>>

SetData(g) ==
  /\ Goto(g, "setdata", "unlock")
  /\ data' = Assign(data, realidx[g], call[g].arg)
  /\ UNCHANGED <<idx, gc, funcs, realidx, got>>

(* get: return self.funcs[i], self.data[i] *)
ReadFunc(g) ==
  /\ Goto(g, "readfunc", "readdata")
  /\ got' = [got EXCEPT ![g] = <<Lookup(funcs, call[g].arg), Nil>>]
  /\ UNCHANGED <<table, realidx>>

ReadData(g) ==
  /\ Goto(g, "readdata", "unlock")
  /\ got' = [got EXCEPT ![g] = <<@[1], Lookup(data, call[g].arg)>>]
  /\ UNCHANGED <<table, realidx>>

(* del: clear both maps, then recycle the key. *)
DelFunc(g) ==
  /\ Goto(g, "delfunc", "deldata")
  /\ funcs' = Delete(funcs, call[g].arg)
  /\ UNCHANGED <<idx, gc, data, realidx, got>>

\* Mistake: only funcs is cleared.
DelData_Forgotten(g) ==
  /\ Goto(g, "deldata", "recycle")
  /\ UNCHANGED <<table, realidx, got>>

DelData(g) ==
  /\ Goto(g, "deldata", "recycle")
  /\ data' = Delete(data, call[g].arg)
  /\ UNCHANGED <<idx, gc, funcs, realidx, got>>

\* Mistake: the wrong local variable.
Recycle_WrongKey(g) ==
  /\ Goto(g, "recycle", "unlock")
  /\ gc' = Append(gc, realidx[g])
  /\ UNCHANGED <<idx, funcs, data, realidx, got>>

Recycle(g) ==
  /\ Goto(g, "recycle", "unlock")
  /\ gc' = Append(gc, call[g].arg)
  /\ UNCHANGED <<idx, funcs, data, realidx, got>>

\* Mistake: del has no deferred Unlock.
Unlock_NotByDel(g) ==
  /\ pc[g] = "unlock"
  /\ mu' = IF call[g].op = "del" THEN mu ELSE Nil
  /\ pc' = [pc EXCEPT ![g] = "idle"]
  /\ call' = [call EXCEPT ![g] = NoCall]
  /\ realidx' = [realidx EXCEPT ![g] = Nil]
  /\ got' = [got EXCEPT ![g] = <<Nil, Nil>>]
  /\ issued' = IF call[g].op = "add" THEN issued \cup {realidx[g]} ELSE issued
  /\ UNCHANGED table

(* The deferred Unlock, with which the call returns. *)
Unlock(g) ==
  /\ pc[g] = "unlock"
  /\ mu' = Nil
  /\ pc' = [pc EXCEPT ![g] = "idle"]
  /\ call' = [call EXCEPT ![g] = NoCall]
  /\ realidx' = [realidx EXCEPT ![g] = Nil]
  /\ got' = [got EXCEPT ![g] = <<Nil, Nil>>]
  /\ issued' = IF call[g].op = "add" THEN issued \cup {realidx[g]} ELSE issued
  /\ UNCHANGED table

(* What g does with the mutex held. *)
Statement(g) ==
  \/ Reserve(g) \/ SetFunc(g) \/ SetData(g)
  \/ ReadFunc(g) \/ ReadData(g)
  \/ DelFunc(g) \/ DelData(g) \/ Recycle(g)
  \/ Unlock(g)

Next ==
  \E g \in Goroutines :
    \/ \E r \in Calls : Invoke(g, r)
    \/ Lock(g)
    \/ Statement(g)

(* A running goroutine is scheduled again, and the starvation mode of      *)
(* sync.Mutex hands the lock to every waiter in the end.  Nobody has to    *)
(* call.                                                                   *)
Fairness == \A g \in Goroutines : WF_vars(Statement(g)) /\ SF_vars(Lock(g))

Spec == Init /\ [][Next]_vars /\ Fairness

---------------------------------------------------------------------------

Statements == {"reserve", "setfunc", "setdata", "readfunc", "readdata",
               "delfunc", "deldata", "recycle", "unlock"}

(* The type invariant. *)
TypeOK ==
  /\ mu \in Goroutines \cup {Nil}
  /\ idx \in Nat
  /\ gc \in Seq(Nat)
  /\ DOMAIN funcs \subseteq Nat /\ \A k \in DOMAIN funcs : funcs[k] \in Payloads
  /\ DOMAIN data \subseteq Nat /\ \A k \in DOMAIN data : data[k] \in Payloads
  /\ pc \in [Goroutines -> Statements \cup {"idle", "lock"}]
  /\ call \in [Goroutines -> AllCalls \cup {NoCall}]
  /\ realidx \in [Goroutines -> Nat \cup {Nil}]
  /\ got \in [Goroutines -> (Payloads \cup {Nil}) \X (Payloads \cup {Nil})]
  /\ issued \subseteq Nat

(* Whenever the mutex is free the free list and the maps fit together:     *)
(* both maps have the same keys, no recycled key is listed twice or is in  *)
(* use, and no key is lost.  This is what add relies on when it pops gc.   *)
TableConsistent ==
  mu = Nil =>
    /\ DOMAIN funcs = DOMAIN data
    /\ RecycledAreFree(gc, DOMAIN funcs)
    /\ KeysAccounted(0, idx, gc, DOMAIN funcs)

(* add never returns a key that another caller still owns: not one that is *)
(* issued, not one that another add is about to return, not one whose del  *)
(* has not recycled it yet.                                                *)
KeysExclusive ==
  \A g \in Goroutines :
    (pc[g] \in {"setfunc", "setdata"} \/ (pc[g] = "unlock" /\ call[g].op = "add")) =>
      /\ realidx[g] \notin issued
      /\ \A h \in Goroutines \ {g} :
           call[h] # NoCall /\ call[h].op = "del" => call[h].arg # realidx[g]

(* get never returns the function of one registration with the data of     *)
(* another, nor half of a pair that add or del is working on.              *)
NoTornPair ==
  \A g \in Goroutines :
    pc[g] = "unlock" /\ call[g].op = "get" => got[g][1] = got[g][2]

(* A key that is issued stays bound, to one and the same registration in   *)
(* both maps, whatever the other goroutines are in the middle of.          *)
IssuedBound ==
  \A k \in issued : k \in DOMAIN funcs /\ k \in DOMAIN data /\ funcs[k] = data[k]

(* Every call returns: no operation leaves the mutex locked.  A host       *)
(* function may therefore use the API itself.                              *)
CallsReturn == \A g \in Goroutines : pc[g] # "idle" ~> pc[g] = "idle"

(* A call takes effect when it writes or deletes its function, or has read *)
(* its entries.                                                            *)
TookEffect(g) == pc[g] \in {"setdata", "deldata", "recycle", "unlock"}

Result(g) ==
  CASE call[g].op = "add" -> realidx[g]
    [] call[g].op = "get" -> got[g]
    [] call[g].op = "del" -> Nil

Handles == INSTANCE HandleTable WITH
  Clients <- Goroutines,
  Keys    <- 0 .. MaxOutstanding - 1,
  bound   <- funcs,
  answer  <- [g \in Goroutines |-> IF TookEffect(g) THEN Result(g) ELSE Waiting]

(* The manager is the linearizable table that HandleTable promises, and it *)
(* reuses keys well enough to need no more of them than registrations were *)
(* ever outstanding at once.                                               *)
Linearizable == Handles!Spec
===========================================================================
