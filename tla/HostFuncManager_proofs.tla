----------------------- MODULE HostFuncManager_proofs -----------------------
(***************************************************************************)
(* Proofs about HostFuncManager: for any set of goroutines, any payloads   *)
(* and any bound on outstanding keys.                                      *)
(***************************************************************************)
EXTENDS HostFuncManager, SequenceTheorems, FiniteSetTheorems, TLAPS

(* What popping and pushing do to the stack of recycled keys. *)
LEMMA PopLemma ==
  ASSUME NEW S, NEW s \in Seq(S), Len(s) > 0
  PROVE  /\ Last(s) \in S /\ Last(s) = s[Len(s)]
         /\ Front(s) \in Seq(S)
         /\ Len(Front(s)) = Len(s) - 1
         /\ \A i \in 1 .. Len(s) - 1 : Front(s)[i] = s[i]
<1>1. s[Len(s)] \in S
  BY ElementOfSeq, LenProperties
<1>2. /\ Front(s) \in Seq(S)
      /\ Len(Front(s)) = Len(s) - 1
      /\ \A i \in 1 .. Len(s) - 1 : Front(s)[i] = s[i]
  <2> DEFINE n == Len(s) - 1
  <2>1. n \in Nat /\ Len(s) \in Nat
    BY LenProperties
  <2>2. \A i \in 1 .. n : s[i] \in S
    BY <2>1, ElementOfSeq
  <2>3. /\ SubSeq(s, 1, n) \in Seq(S)
        /\ Len(SubSeq(s, 1, n)) = IF 1 <= n THEN n - 1 + 1 ELSE 0
        /\ \A i \in 1 .. n - 1 + 1 : SubSeq(s, 1, n)[i] = s[1 + i - 1]
    <3> HIDE DEF n
    <3> QED BY <2>1, <2>2, SubSeqProperties
  <2>4. n - 1 + 1 = n /\ \A i \in 1 .. n : 1 + i - 1 = i
    BY <2>1
  <2> QED BY <2>1, <2>3, <2>4 DEF Front
<1> QED BY <1>1, <1>2 DEF Last

LEMMA PushLemma ==
  ASSUME NEW S, NEW s \in Seq(S), NEW e \in S
  PROVE  /\ Append(s, e) \in Seq(S)
         /\ Len(Append(s, e)) = Len(s) + 1
         /\ Append(s, e)[Len(s) + 1] = e
         /\ \A i \in 1 .. Len(s) : Append(s, e)[i] = s[i]
BY AppendProperties

---------------------------------------------------------------------------

(* The mutex: whoever is past Lock and not yet past Unlock holds it. *)
Inside(g) == pc[g] \notin {"idle", "lock"}

MutexHeld == \A g \in Goroutines : Inside(g) <=> mu = g

(* A goroutine executes the statements of the call it is in. *)
PcMatchesCall ==
  \A g \in Goroutines :
    /\ pc[g] = "idle" <=> call[g] = NoCall
    /\ pc[g] \in {"reserve", "setfunc", "setdata"} => call[g].op = "add"
    /\ pc[g] \in {"readfunc", "readdata"} => call[g].op = "get"
    /\ pc[g] \in {"delfunc", "deldata", "recycle"} => call[g].op = "del"

(* g holds a key outside issued: an add that has taken it and has not yet  *)
(* returned it, or a del that has not recycled it yet.                     *)
Adding(g) ==
  pc[g] \in {"setfunc", "setdata"} \/ (pc[g] = "unlock" /\ call[g].op = "add")

Deleting(g) ==
  pc[g] \in {"lock", "delfunc", "deldata", "recycle"} /\ call[g].op = "del"

Holds(g, k) ==
  \/ Adding(g) /\ realidx[g] = k
  \/ Deleting(g) /\ call[g].arg = k

(* Every key below idx has exactly one place: issued, one goroutine that   *)
(* holds it, or one entry of gc.                                           *)
KeysOwned ==
  /\ \A k \in issued : k < idx /\ \A g \in Goroutines : ~Holds(g, k)
  /\ \A g \in Goroutines, k \in Nat : Holds(g, k) => k < idx
  /\ \A g, h \in Goroutines, k \in Nat : Holds(g, k) /\ Holds(h, k) => g = h

RecycledUnowned ==
  /\ \A i \in 1 .. Len(gc) :
       /\ gc[i] \in Nat /\ gc[i] < idx /\ gc[i] \notin issued
       /\ \A g \in Goroutines, k \in Nat : gc[i] = k => ~Holds(g, k)
  /\ \A i, j \in 1 .. Len(gc) : gc[i] = gc[j] => i = j

NothingLost ==
  \A k \in Nat : k < idx =>
    \/ k \in issued
    \/ \E i \in 1 .. Len(gc) : gc[i] = k
    \/ \E g \in Goroutines : Holds(g, k)

Ownership == KeysOwned /\ RecycledUnowned /\ NothingLost

(* The keys of the two maps are those with an owner, except for the holder *)
(* that has not stored yet or has already deleted.                         *)
FuncStored(g, k) == Holds(g, k) /\ pc[g] \notin {"setfunc", "deldata", "recycle"}
DataStored(g, k) == Holds(g, k) /\ pc[g] \notin {"setfunc", "setdata", "recycle"}

FuncsMatch ==
  \A k \in Nat : k \in DOMAIN funcs <=>
    k \in issued \/ \E g \in Goroutines : FuncStored(g, k)

DataMatch ==
  \A k \in Nat : k \in DOMAIN data <=>
    k \in issued \/ \E g \in Goroutines : DataStored(g, k)

PairsMatch ==
  /\ \A k \in DOMAIN funcs \cap DOMAIN data : funcs[k] = data[k]
  /\ \A g \in Goroutines :
       /\ pc[g] = "setdata" => funcs[realidx[g]] = call[g].arg
       /\ pc[g] = "readdata" => got[g][1] = Lookup(funcs, call[g].arg)
       /\ pc[g] = "unlock" /\ call[g].op = "get" => got[g][1] = got[g][2]

TypeInv == TypeOK /\ PcMatchesCall /\ \A g \in Goroutines : Adding(g) => realidx[g] \in Nat

IInv ==
  /\ TypeInv /\ MutexHeld
  /\ Ownership /\ FuncsMatch /\ DataMatch /\ PairsMatch

---------------------------------------------------------------------------

LEMMA TypeInit == Init => TypeInv
BY EmptySeq DEF Init, TypeInv, TypeOK, PcMatchesCall, Adding, EmptyMap, Statements

LEMMA TypeStep == TypeInv /\ [Next]_vars => TypeInv'
<1> SUFFICES ASSUME TypeInv, [Next]_vars PROVE TypeInv'
  OBVIOUS
<1> USE ConstantsAssumption DEF TypeInv, TypeOK, PcMatchesCall, Adding, table, Statements
<1>0. Calls \subseteq AllCalls
  BY DEF Calls, AllCalls
<1>1. CASE UNCHANGED vars
  BY <1>1 DEF vars
<1>2. ASSUME NEW g \in Goroutines, NEW r \in Calls, Invoke(g, r) PROVE TypeInv'
  BY <1>2, <1>0 DEF Invoke
<1>3. ASSUME NEW g \in Goroutines, Lock(g) PROVE TypeInv'
  <2>1. call[g] \in AllCalls
    BY <1>3 DEF Lock
  <2>2. \/ call[g].op = "add" /\ FirstStatement[call[g].op] = "reserve"
        \/ call[g].op = "get" /\ FirstStatement[call[g].op] = "readfunc"
        \/ call[g].op = "del" /\ FirstStatement[call[g].op] = "delfunc"
    BY <2>1 DEF AllCalls, FirstStatement
  <2> QED BY <1>3, <2>2 DEF Lock
<1>4. ASSUME NEW g \in Goroutines, Reserve(g) PROVE TypeInv'
  <2>1. CASE Len(gc) > 0
    <3>1. Last(gc) \in Nat /\ Front(gc) \in Seq(Nat)
      BY <2>1, PopLemma
    <3>2. PICK l \in Nat, f \in Seq(Nat) :
             /\ realidx' = [realidx EXCEPT ![g] = l]
             /\ gc' = f /\ idx' = idx
      BY <1>4, <2>1, <3>1 DEF Reserve
    <3>3. /\ pc[g] = "reserve" /\ pc' = [pc EXCEPT ![g] = "setfunc"]
          /\ UNCHANGED <<mu, call, issued, funcs, data, got>>
      BY <1>4 DEF Reserve, Goto
    <3>4. TypeOK'
      BY <3>2, <3>3
    <3> QED BY <3>2, <3>3, <3>4
  <2>2. CASE Len(gc) = 0
    BY <1>4, <2>2 DEF Reserve, Goto
  <2> QED BY <1>4, <2>1, <2>2 DEF Reserve
<1>5. ASSUME NEW g \in Goroutines, SetFunc(g) PROVE TypeInv'
  BY <1>5 DEF SetFunc, Goto, Assign, AllCalls
<1>6. ASSUME NEW g \in Goroutines, SetData(g) PROVE TypeInv'
  BY <1>6 DEF SetData, Goto, Assign, AllCalls
<1>7. ASSUME NEW g \in Goroutines, ReadFunc(g) PROVE TypeInv'
  <2>1. Lookup(funcs, call[g].arg) \in Payloads \cup {Nil}
    BY DEF Lookup
  <2>2. got' \in [Goroutines -> (Payloads \cup {Nil}) \X (Payloads \cup {Nil})]
    BY <1>7, <2>1 DEF ReadFunc
  <2> QED BY <1>7, <2>2 DEF ReadFunc, Goto
<1>8. ASSUME NEW g \in Goroutines, ReadData(g) PROVE TypeInv'
  <2>1. Lookup(data, call[g].arg) \in Payloads \cup {Nil}
    BY DEF Lookup
  <2>2. got' \in [Goroutines -> (Payloads \cup {Nil}) \X (Payloads \cup {Nil})]
    BY <1>8, <2>1 DEF ReadData
  <2> QED BY <1>8, <2>2 DEF ReadData, Goto
<1>9. ASSUME NEW g \in Goroutines, DelFunc(g) PROVE TypeInv'
  BY <1>9 DEF DelFunc, Goto, Delete
<1>10. ASSUME NEW g \in Goroutines, DelData(g) PROVE TypeInv'
  BY <1>10 DEF DelData, Goto, Delete
<1>11. ASSUME NEW g \in Goroutines, Recycle(g) PROVE TypeInv'
  <2>1. call[g].arg \in Nat
    BY <1>11 DEF Recycle, Goto, AllCalls
  <2> QED BY <1>11, <2>1, PushLemma DEF Recycle, Goto
<1>12. ASSUME NEW g \in Goroutines, Unlock(g) PROVE TypeInv'
  BY <1>12 DEF Unlock
<1> QED BY <1>1, <1>2, <1>3, <1>4, <1>5, <1>6, <1>7, <1>8, <1>9, <1>10, <1>11, <1>12
       DEF Next, Statement

(* TypeOK holds in every reachable state. *)
THEOREM TypeCorrect == Spec => []TypeOK
<1>1. Init => TypeInv
  BY TypeInit
<1>2. TypeInv /\ [Next]_vars => TypeInv'
  BY TypeStep
<1>3. TypeInv => TypeOK
  BY DEF TypeInv
<1> QED BY <1>1, <1>2, <1>3, PTL DEF Spec

---------------------------------------------------------------------------

LEMMA InvInit == Init => IInv
<1> SUFFICES ASSUME Init PROVE IInv
  OBVIOUS
<1>1. TypeInv
  BY TypeInit
<1>2. \A g \in Goroutines : \A k : ~Holds(g, k)
  BY ConstantsAssumption DEF Init, Holds, Adding, Deleting
<1>3. MutexHeld
  BY ConstantsAssumption DEF Init, MutexHeld, Inside
<1>4. DOMAIN funcs = {} /\ DOMAIN data = {} /\ Len(gc) = 0 /\ issued = {} /\ idx = 0
  BY DEF Init, EmptyMap
<1>5. KeysOwned /\ RecycledUnowned /\ NothingLost /\ FuncsMatch /\ DataMatch
  BY <1>2, <1>4 DEF KeysOwned, RecycledUnowned, NothingLost, FuncsMatch, DataMatch, FuncStored, DataStored
<1>6. PairsMatch
  BY <1>4 DEF Init, PairsMatch
<1> QED BY <1>1, <1>3, <1>5, <1>6 DEF IInv, Ownership

(* A step of g leaves what every other goroutine holds as it was. *)
LEMMA OthersHold ==
  ASSUME NEW g \in Goroutines, NEW h \in Goroutines \ {g}, NEW k,
         pc'[h] = pc[h], call'[h] = call[h], realidx'[h] = realidx[h]
  PROVE  /\ Holds(h, k)' <=> Holds(h, k)
         /\ FuncStored(h, k)' <=> FuncStored(h, k)
         /\ DataStored(h, k)' <=> DataStored(h, k)
<1>1. Holds(h, k)' <=> Holds(h, k)
  BY DEF Holds, Adding, Deleting
<1> QED BY <1>1 DEF FuncStored, DataStored

(* A step that moves no key keeps the ownership of all of them. *)
LEMMA SameOwners ==
  ASSUME Ownership, issued \subseteq Nat, UNCHANGED <<idx, gc, issued>>,
         \A g \in Goroutines, k \in Nat : Holds(g, k)' <=> Holds(g, k)
  PROVE  Ownership'
<1>1. KeysOwned'
  BY DEF Ownership, KeysOwned
<1>2. RecycledUnowned'
  BY DEF Ownership, RecycledUnowned
<1>3. NothingLost'
  BY DEF Ownership, NothingLost
<1> QED BY <1>1, <1>2, <1>3 DEF Ownership

(* The same for the two maps. *)
LEMMA SameMaps ==
  ASSUME FuncsMatch, DataMatch, UNCHANGED <<funcs, data, issued>>,
         \A g \in Goroutines, k \in Nat :
           /\ FuncStored(g, k)' <=> FuncStored(g, k)
           /\ DataStored(g, k)' <=> DataStored(g, k)
  PROVE  FuncsMatch' /\ DataMatch'
BY DEF FuncsMatch, DataMatch

LEMMA InvokeInv ==
  ASSUME IInv, TypeInv', NEW g \in Goroutines, NEW r \in Calls, Invoke(g, r)
  PROVE  IInv'
<1> USE DEF TypeInv, TypeOK
<1>1. /\ pc[g] = "idle" /\ pc'[g] = "lock" /\ call'[g] = r
      /\ \A h \in Goroutines \ {g} : pc'[h] = pc[h] /\ call'[h] = call[h]
      /\ issued' = IF r.op = "del" THEN issued \ {r.arg} ELSE issued
      /\ UNCHANGED <<mu, idx, gc, funcs, data, realidx, got>>
  BY DEF IInv, Invoke, table
<1>2. r \in AllCalls /\ (r.op # "add" => r.arg \in issued)
  BY DEF IInv, Calls, AllCalls
<1>3. \A k : ~Holds(g, k) /\ ~FuncStored(g, k) /\ ~DataStored(g, k)
  BY <1>1 DEF Holds, Adding, Deleting, FuncStored, DataStored
<1>4. \A h \in Goroutines \ {g}, k \in Nat :
        /\ Holds(h, k)' <=> Holds(h, k)
        /\ FuncStored(h, k)' <=> FuncStored(h, k)
        /\ DataStored(h, k)' <=> DataStored(h, k)
  BY <1>1, OthersHold
<1>5. \A k : /\ Holds(g, k)' <=> r.op = "del" /\ r.arg = k
             /\ FuncStored(g, k)' <=> Holds(g, k)'
             /\ DataStored(g, k)' <=> Holds(g, k)'
  BY <1>1 DEF Holds, Adding, Deleting, FuncStored, DataStored
<1>6. MutexHeld'
  BY <1>1 DEF IInv, MutexHeld, Inside
<1>7. PairsMatch'
  BY <1>1 DEF IInv, PairsMatch
<1>8. CASE r.op = "del"
  <2>1. /\ r.arg \in issued /\ r.arg \in Nat /\ r.arg < idx
        /\ \A h \in Goroutines : ~Holds(h, r.arg)
        /\ issued' = issued \ {r.arg}
        /\ \A k : Holds(g, k)' <=> k = r.arg
    BY <1>1, <1>2, <1>5, <1>8 DEF IInv, Ownership, KeysOwned
  <2>2. KeysOwned'
    <3>1. \A k \in issued' : k < idx' /\ \A h \in Goroutines : ~Holds(h, k)'
      BY <1>1, <1>4, <2>1 DEF IInv, Ownership, KeysOwned
    <3>2. \A h \in Goroutines, k \in Nat : Holds(h, k)' => k < idx'
      BY <1>1, <1>4, <2>1 DEF IInv, Ownership, KeysOwned
    <3>3. \A h, i \in Goroutines, k \in Nat : Holds(h, k)' /\ Holds(i, k)' => h = i
      <4>1. \A h, i \in Goroutines, k \in Nat : Holds(h, k) /\ Holds(i, k) => h = i
        BY DEF IInv, Ownership, KeysOwned
      <4>2. \A h \in Goroutines \ {g} : ~Holds(h, r.arg)'
        BY <1>4, <2>1
      <4> SUFFICES ASSUME NEW h \in Goroutines, NEW i \in Goroutines, NEW k \in Nat,
                          Holds(h, k)', Holds(i, k)', h # i
                   PROVE  FALSE
        OBVIOUS
      <4>3. k # r.arg
        BY <4>2
      <4>4. h # g /\ i # g
        BY <2>1, <4>3
      <4> HIDE DEF TypeInv, TypeOK
      <4> QED BY <1>4, <4>1, <4>4
    <3> QED BY <3>1, <3>2, <3>3 DEF KeysOwned
  <2>3. RecycledUnowned'
    <3>1. RecycledUnowned /\ UNCHANGED <<gc, idx>> /\ issued' \subseteq issued
      BY <1>1, <2>1 DEF IInv, Ownership
    <3>2. \A i \in 1 .. Len(gc) : gc[i] # r.arg
      BY <2>1, <3>1 DEF RecycledUnowned
    <3>3. \A i \in 1 .. Len(gc) : \A h \in Goroutines, k \in Nat : gc[i] = k => ~Holds(h, k)'
      <4> SUFFICES ASSUME NEW i \in 1 .. Len(gc), NEW h \in Goroutines, NEW k \in Nat, gc[i] = k
                   PROVE  ~Holds(h, k)'
        OBVIOUS
      <4>1. CASE h = g
        BY <2>1, <3>2, <4>1
      <4>2. CASE h # g
        BY <1>4, <3>1, <4>2 DEF RecycledUnowned
      <4> QED BY <4>1, <4>2
    <3> QED BY <3>1, <3>3 DEF RecycledUnowned
  <2>4. NothingLost'
    <3> SUFFICES ASSUME NEW k \in Nat, k < idx', k \notin issued',
                        ~ \E i \in 1 .. Len(gc') : gc'[i] = k
                 PROVE  \E h \in Goroutines : Holds(h, k)'
      BY DEF NothingLost
    <3>1. CASE k = r.arg
      BY <2>1, <3>1
    <3>2. CASE k # r.arg
      <4>1. PICK h \in Goroutines : Holds(h, k)
        BY <1>1, <2>1, <3>2 DEF IInv, Ownership, NothingLost
      <4> QED BY <1>3, <1>4, <4>1
    <3> QED BY <3>1, <3>2
  <2>5. FuncsMatch'
    <3> SUFFICES ASSUME NEW k \in Nat
                 PROVE  k \in DOMAIN funcs <=>
                          k \in issued' \/ \E h \in Goroutines : FuncStored(h, k)'
      BY <1>1 DEF FuncsMatch
    <3>1. k \in DOMAIN funcs <=> k \in issued \/ \E h \in Goroutines : FuncStored(h, k)
      BY DEF IInv, FuncsMatch
    <3>2. CASE k = r.arg
      BY <1>5, <2>1, <3>1, <3>2
    <3>3. CASE k # r.arg
      <4>1. ~FuncStored(g, k) /\ ~FuncStored(g, k)'
        BY <1>3, <1>5, <2>1, <3>3
      <4>2. k \in issued' <=> k \in issued
        BY <2>1, <3>3
      <4>3. \A h \in Goroutines : FuncStored(h, k)' <=> FuncStored(h, k)
        BY <1>4, <4>1
      <4> QED BY <3>1, <4>2, <4>3
    <3> QED BY <3>2, <3>3
  <2>6. DataMatch'
    <3> SUFFICES ASSUME NEW k \in Nat
                 PROVE  k \in DOMAIN data <=>
                          k \in issued' \/ \E h \in Goroutines : DataStored(h, k)'
      BY <1>1 DEF DataMatch
    <3>1. k \in DOMAIN data <=> k \in issued \/ \E h \in Goroutines : DataStored(h, k)
      BY DEF IInv, DataMatch
    <3>2. CASE k = r.arg
      BY <1>5, <2>1, <3>1, <3>2
    <3>3. CASE k # r.arg
      <4>1. ~DataStored(g, k) /\ ~DataStored(g, k)'
        BY <1>3, <1>5, <2>1, <3>3
      <4>2. k \in issued' <=> k \in issued
        BY <2>1, <3>3
      <4>3. \A h \in Goroutines : DataStored(h, k)' <=> DataStored(h, k)
        BY <1>4, <4>1
      <4> QED BY <3>1, <4>2, <4>3
    <3> QED BY <3>2, <3>3
  <2> QED BY <1>6, <1>7, <2>2, <2>3, <2>4, <2>5, <2>6 DEF IInv, Ownership
<1>9. CASE r.op # "del"
  <2>1. issued' = issued
    BY <1>1, <1>9
  <2>2. Ownership'
    BY <1>1, <1>3, <1>4, <1>5, <1>9, <2>1, SameOwners DEF IInv
  <2>3. FuncsMatch' /\ DataMatch'
    BY <1>1, <1>3, <1>4, <1>5, <1>9, <2>1, SameMaps DEF IInv
  <2> QED BY <1>6, <1>7, <2>2, <2>3 DEF IInv
<1> QED BY <1>8, <1>9

LEMMA LockInv ==
  ASSUME IInv, TypeInv', NEW g \in Goroutines, Lock(g)
  PROVE  IInv'
<1> USE DEF TypeInv, TypeOK
<1>1. /\ pc[g] = "lock" /\ mu = Nil /\ mu' = g
      /\ pc'[g] = FirstStatement[call[g].op]
      /\ \A h \in Goroutines \ {g} : pc'[h] = pc[h]
      /\ UNCHANGED <<idx, gc, funcs, data, call, realidx, got, issued>>
  BY DEF IInv, Lock, table
<1>2. \/ call[g].op = "add" /\ pc'[g] = "reserve"
      \/ call[g].op = "get" /\ pc'[g] = "readfunc"
      \/ call[g].op = "del" /\ pc'[g] = "delfunc"
  BY <1>1, ConstantsAssumption DEF IInv, PcMatchesCall, AllCalls, FirstStatement
<1>3. \A k \in Nat : /\ Holds(g, k)' <=> Holds(g, k)
                     /\ FuncStored(g, k)' <=> FuncStored(g, k)
                     /\ DataStored(g, k)' <=> DataStored(g, k)
  BY <1>1, <1>2 DEF Holds, Adding, Deleting, FuncStored, DataStored
<1>4. \A h \in Goroutines \ {g}, k \in Nat :
        /\ Holds(h, k)' <=> Holds(h, k)
        /\ FuncStored(h, k)' <=> FuncStored(h, k)
        /\ DataStored(h, k)' <=> DataStored(h, k)
  BY <1>1, OthersHold
<1>5. MutexHeld'
  BY <1>1, <1>2, ConstantsAssumption DEF IInv, MutexHeld, Inside
<1>6. Ownership'
  BY <1>1, <1>3, <1>4, SameOwners DEF IInv
<1>7. FuncsMatch' /\ DataMatch'
  BY <1>1, <1>3, <1>4, SameMaps DEF IInv
<1>8. PairsMatch'
  BY <1>1, <1>2 DEF IInv, PairsMatch
<1> QED BY <1>5, <1>6, <1>7, <1>8 DEF IInv

(* What every statement under the mutex has in common. *)
LEMMA GotoFacts ==
  ASSUME IInv, NEW g \in Goroutines, NEW at \in Statements, NEW nxt \in Statements,
         Goto(g, at, nxt), \A h \in Goroutines \ {g} : realidx'[h] = realidx[h]
  PROVE  /\ pc[g] = at /\ pc'[g] = nxt
         /\ UNCHANGED <<mu, call, issued>>
         /\ MutexHeld'
         /\ \A h \in Goroutines \ {g} :
              /\ pc[h] \in {"idle", "lock"} /\ pc'[h] = pc[h]
              /\ \A k \in Nat :
                   /\ Holds(h, k)' <=> Holds(h, k)
                   /\ FuncStored(h, k)' <=> FuncStored(h, k)
                   /\ DataStored(h, k)' <=> DataStored(h, k)
                   /\ FuncStored(h, k) <=> Holds(h, k)
                   /\ DataStored(h, k) <=> Holds(h, k)
<1>1. /\ pc[g] = at /\ pc'[g] = nxt
      /\ \A h \in Goroutines \ {g} : pc'[h] = pc[h]
      /\ UNCHANGED <<mu, call, issued>>
  BY DEF IInv, TypeInv, TypeOK, Goto
<1>2. \A h \in Goroutines \ {g} : pc[h] \in {"idle", "lock"}
  BY <1>1 DEF IInv, MutexHeld, Inside, Statements
<1>3. MutexHeld'
  BY <1>1, <1>2 DEF IInv, MutexHeld, Inside, Statements
<1>4. \A h \in Goroutines \ {g}, k \in Nat :
        /\ Holds(h, k)' <=> Holds(h, k)
        /\ FuncStored(h, k)' <=> FuncStored(h, k)
        /\ DataStored(h, k)' <=> DataStored(h, k)
  BY <1>1, OthersHold
<1>5. \A h \in Goroutines \ {g}, k \in Nat :
        (FuncStored(h, k) <=> Holds(h, k)) /\ (DataStored(h, k) <=> Holds(h, k))
  BY <1>2 DEF FuncStored, DataStored
<1> QED BY <1>1, <1>2, <1>3, <1>4, <1>5

LEMMA ReadFuncInv ==
  ASSUME IInv, TypeInv', NEW g \in Goroutines, ReadFunc(g)
  PROVE  IInv'
<1>1. /\ Goto(g, "readfunc", "readdata")
      /\ got'[g][1] = Lookup(funcs, call[g].arg)
      /\ UNCHANGED <<idx, gc, funcs, data, realidx>>
  BY DEF IInv, TypeInv, TypeOK, ReadFunc, table
<1>2. \A k \in Nat : /\ ~Holds(g, k) /\ ~Holds(g, k)'
                     /\ ~FuncStored(g, k) /\ ~FuncStored(g, k)'
                     /\ ~DataStored(g, k) /\ ~DataStored(g, k)'
  BY <1>1, GotoFacts DEF Holds, Adding, Deleting, FuncStored, DataStored, Statements
<1>3. Ownership' /\ FuncsMatch' /\ DataMatch'
  <2>1. \A h \in Goroutines, k \in Nat :
          /\ Holds(h, k)' <=> Holds(h, k)
          /\ FuncStored(h, k)' <=> FuncStored(h, k)
          /\ DataStored(h, k)' <=> DataStored(h, k)
    BY <1>1, <1>2, GotoFacts DEF Statements
  <2>2. issued \subseteq Nat /\ issued' = issued
    BY <1>1, GotoFacts DEF IInv, TypeInv, TypeOK, Statements
  <2> QED BY <1>1, <2>1, <2>2, SameOwners, SameMaps DEF IInv
<1>4. PairsMatch'
  BY <1>1, GotoFacts DEF IInv, PairsMatch, Statements
<1> QED BY <1>1, <1>3, <1>4, GotoFacts DEF IInv, Statements

LEMMA ReadDataInv ==
  ASSUME IInv, TypeInv', NEW g \in Goroutines, ReadData(g)
  PROVE  IInv'
<1>1. /\ Goto(g, "readdata", "unlock")
      /\ got'[g][1] = got[g][1]
      /\ got'[g][2] = Lookup(data, call[g].arg)
      /\ UNCHANGED <<idx, gc, funcs, data, realidx>>
  BY DEF IInv, TypeInv, TypeOK, ReadData, table
<1>2. /\ pc[g] = "readdata" /\ call[g].op = "get" /\ call[g].arg \in Nat
      /\ pc'[g] = "unlock" /\ call'[g] = call[g]
  BY <1>1, GotoFacts, ConstantsAssumption
     DEF IInv, TypeInv, TypeOK, PcMatchesCall, AllCalls, Statements
<1>3. \A k \in Nat : /\ ~Holds(g, k) /\ ~Holds(g, k)'
                     /\ ~FuncStored(g, k) /\ ~FuncStored(g, k)'
                     /\ ~DataStored(g, k) /\ ~DataStored(g, k)'
  BY <1>2 DEF Holds, Adding, Deleting, FuncStored, DataStored
<1>4. Ownership' /\ FuncsMatch' /\ DataMatch'
  <2>1. \A h \in Goroutines, k \in Nat :
          /\ Holds(h, k)' <=> Holds(h, k)
          /\ FuncStored(h, k)' <=> FuncStored(h, k)
          /\ DataStored(h, k)' <=> DataStored(h, k)
    BY <1>1, <1>3, GotoFacts DEF Statements
  <2>2. issued \subseteq Nat /\ issued' = issued
    BY <1>1, GotoFacts DEF IInv, TypeInv, TypeOK, Statements
  <2> QED BY <1>1, <2>1, <2>2, SameOwners, SameMaps DEF IInv
<1>5. PairsMatch'
  <2>1. \A h \in Goroutines : FuncStored(h, call[g].arg) <=> DataStored(h, call[g].arg)
    BY <1>1, <1>2, <1>3, GotoFacts DEF Statements
  <2>2. call[g].arg \in DOMAIN funcs <=> call[g].arg \in DOMAIN data
    BY <1>2, <2>1 DEF IInv, FuncsMatch, DataMatch
  <2>3. Lookup(funcs, call[g].arg) = Lookup(data, call[g].arg)
    BY <2>2 DEF IInv, PairsMatch, Lookup
  <2>4. got'[g][1] = got'[g][2]
    BY <1>1, <1>2, <2>3 DEF IInv, PairsMatch
  <2> QED BY <1>1, <1>2, <2>4, GotoFacts DEF IInv, PairsMatch, Statements
<1> QED BY <1>1, <1>4, <1>5, GotoFacts DEF IInv, Statements

(* An add that has reserved its key is the only owner of it. *)
LEMMA SetFuncInv ==
  ASSUME IInv, TypeInv', NEW g \in Goroutines, SetFunc(g)
  PROVE  IInv'
<1> DEFINE r == realidx[g]
<1>1. /\ Goto(g, "setfunc", "setdata")
      /\ UNCHANGED <<idx, gc, data, realidx, got>>
      /\ DOMAIN funcs' = DOMAIN funcs \cup {r}
      /\ funcs'[r] = call[g].arg
      /\ \A k \in DOMAIN funcs \ {r} : funcs'[k] = funcs[k]
  BY DEF SetFunc, Assign
<1>2. /\ pc[g] = "setfunc" /\ pc'[g] = "setdata" /\ r \in Nat
      /\ UNCHANGED <<call, issued>>
  BY <1>1, GotoFacts DEF IInv, TypeInv, Adding, Statements
<1>3. \A k \in Nat : /\ Holds(g, k) <=> k = r
                     /\ Holds(g, k)' <=> k = r
                     /\ FuncStored(g, k)' <=> k = r
                     /\ ~FuncStored(g, k)
                     /\ ~DataStored(g, k) /\ ~DataStored(g, k)'
  BY <1>1, <1>2 DEF Holds, Adding, Deleting, FuncStored, DataStored
<1> HIDE DEF r
<1>4. /\ r \notin issued
      /\ \A h \in Goroutines \ {g} : ~Holds(h, r)
  BY <1>2, <1>3 DEF IInv, Ownership, KeysOwned
<1>5. Ownership'
  <2>1. \A h \in Goroutines, k \in Nat : Holds(h, k)' <=> Holds(h, k)
    BY <1>1, <1>3, GotoFacts DEF Statements
  <2> QED BY <1>1, <1>2, <2>1, SameOwners DEF IInv, TypeInv, TypeOK
<1>6. FuncsMatch'
  <2> SUFFICES ASSUME NEW k \in Nat
               PROVE  k \in DOMAIN funcs' <=>
                        k \in issued \/ \E h \in Goroutines : FuncStored(h, k)'
    BY <1>2 DEF FuncsMatch
  <2>1. CASE k = r
    BY <1>1, <1>3, <2>1
  <2>2. CASE k # r
    <3>1. \A h \in Goroutines : FuncStored(h, k)' <=> FuncStored(h, k)
      BY <1>1, <1>3, <2>2, GotoFacts DEF Statements
    <3> QED BY <1>1, <2>2, <3>1 DEF IInv, FuncsMatch
  <2> QED BY <2>1, <2>2
<1>7. DataMatch'
  <2>1. \A h \in Goroutines, k \in Nat : DataStored(h, k)' <=> DataStored(h, k)
    BY <1>1, <1>3, GotoFacts DEF Statements
  <2> QED BY <1>1, <1>2, <2>1 DEF IInv, DataMatch
<1>8. PairsMatch'
  <2>1. r \notin DOMAIN data
    BY <1>2, <1>3, <1>4 DEF IInv, DataMatch, DataStored
  <2>2. \A k \in DOMAIN funcs' \cap DOMAIN data' : funcs'[k] = data'[k]
    BY <1>1, <2>1 DEF IInv, PairsMatch
  <2>3. \A h \in Goroutines \ {g} : pc'[h] \in {"idle", "lock"}
    BY <1>1, GotoFacts DEF Statements
  <2>4. funcs'[realidx'[g]] = call'[g].arg
    BY <1>1, <1>2 DEF r
  <2> QED BY <1>2, <2>2, <2>3, <2>4 DEF PairsMatch
<1> QED BY <1>1, <1>5, <1>6, <1>7, <1>8, GotoFacts DEF IInv, Statements

LEMMA SetDataInv ==
  ASSUME IInv, TypeInv', NEW g \in Goroutines, SetData(g)
  PROVE  IInv'
<1> DEFINE r == realidx[g]
<1>1. /\ Goto(g, "setdata", "unlock")
      /\ UNCHANGED <<idx, gc, funcs, realidx, got>>
      /\ DOMAIN data' = DOMAIN data \cup {r}
      /\ data'[r] = call[g].arg
      /\ \A k \in DOMAIN data \ {r} : data'[k] = data[k]
  BY DEF SetData, Assign
<1>2. /\ pc[g] = "setdata" /\ pc'[g] = "unlock" /\ r \in Nat
      /\ call[g].op = "add"
      /\ UNCHANGED <<call, issued>>
  BY <1>1, GotoFacts DEF IInv, TypeInv, PcMatchesCall, Adding, Statements
<1>3. \A k \in Nat : /\ Holds(g, k) <=> k = r
                     /\ Holds(g, k)' <=> k = r
                     /\ FuncStored(g, k) <=> k = r
                     /\ FuncStored(g, k)' <=> k = r
                     /\ DataStored(g, k)' <=> k = r
                     /\ ~DataStored(g, k)
  BY <1>1, <1>2 DEF Holds, Adding, Deleting, FuncStored, DataStored
<1>4. funcs[r] = call[g].arg
  BY <1>2 DEF IInv, PairsMatch
<1> HIDE DEF r
<1>5. Ownership'
  <2>1. \A h \in Goroutines, k \in Nat : Holds(h, k)' <=> Holds(h, k)
    BY <1>1, <1>3, GotoFacts DEF Statements
  <2> QED BY <1>1, <1>2, <2>1, SameOwners DEF IInv, TypeInv, TypeOK
<1>6. FuncsMatch'
  <2>1. \A h \in Goroutines, k \in Nat : FuncStored(h, k)' <=> FuncStored(h, k)
    BY <1>1, <1>3, GotoFacts DEF Statements
  <2> QED BY <1>1, <1>2, <2>1 DEF IInv, FuncsMatch
<1>7. DataMatch'
  <2> SUFFICES ASSUME NEW k \in Nat
               PROVE  k \in DOMAIN data' <=>
                        k \in issued \/ \E h \in Goroutines : DataStored(h, k)'
    BY <1>2 DEF DataMatch
  <2>1. CASE k = r
    BY <1>1, <1>3, <2>1
  <2>2. CASE k # r
    <3>1. \A h \in Goroutines : DataStored(h, k)' <=> DataStored(h, k)
      BY <1>1, <1>3, <2>2, GotoFacts DEF Statements
    <3> QED BY <1>1, <2>2, <3>1 DEF IInv, DataMatch
  <2> QED BY <2>1, <2>2
<1>8. PairsMatch'
  <2>1. \A k \in DOMAIN funcs' \cap DOMAIN data' : funcs'[k] = data'[k]
    BY <1>1, <1>4 DEF IInv, PairsMatch
  <2>2. \A h \in Goroutines \ {g} : pc'[h] \in {"idle", "lock"}
    BY <1>1, GotoFacts DEF Statements
  <2> QED BY <1>2, <2>1, <2>2 DEF PairsMatch
<1> QED BY <1>1, <1>5, <1>6, <1>7, <1>8, GotoFacts DEF IInv, Statements

(* A del is the only owner of its key until it has recycled it. *)
LEMMA DelFuncInv ==
  ASSUME IInv, TypeInv', NEW g \in Goroutines, DelFunc(g)
  PROVE  IInv'
<1> DEFINE d == call[g].arg
<1>1. /\ Goto(g, "delfunc", "deldata")
      /\ UNCHANGED <<idx, gc, data, realidx, got>>
      /\ DOMAIN funcs' = DOMAIN funcs \ {d}
      /\ \A k \in DOMAIN funcs \ {d} : funcs'[k] = funcs[k]
  BY DEF DelFunc, Delete
<1>2. /\ pc[g] = "delfunc" /\ pc'[g] = "deldata" /\ call[g].op = "del" /\ d \in Nat
      /\ UNCHANGED <<call, issued>>
  BY <1>1, GotoFacts, ConstantsAssumption
     DEF IInv, TypeInv, TypeOK, PcMatchesCall, AllCalls, Statements
<1>3. \A k \in Nat : /\ Holds(g, k) <=> k = d
                     /\ Holds(g, k)' <=> k = d
                     /\ FuncStored(g, k) <=> k = d
                     /\ ~FuncStored(g, k)'
                     /\ DataStored(g, k) <=> k = d
                     /\ DataStored(g, k)' <=> k = d
  BY <1>1, <1>2 DEF Holds, Adding, Deleting, FuncStored, DataStored
<1> HIDE DEF d
<1>4. /\ d \notin issued
      /\ \A h \in Goroutines \ {g} : ~Holds(h, d)
  BY <1>2, <1>3 DEF IInv, Ownership, KeysOwned
<1>5. Ownership' /\ DataMatch'
  <2>1. \A h \in Goroutines, k \in Nat :
          /\ Holds(h, k)' <=> Holds(h, k)
          /\ DataStored(h, k)' <=> DataStored(h, k)
    BY <1>1, <1>3, GotoFacts DEF Statements
  <2> QED BY <1>1, <1>2, <2>1, SameOwners DEF IInv, TypeInv, TypeOK, DataMatch
<1>6. FuncsMatch'
  <2> SUFFICES ASSUME NEW k \in Nat
               PROVE  k \in DOMAIN funcs' <=>
                        k \in issued \/ \E h \in Goroutines : FuncStored(h, k)'
    BY <1>2 DEF FuncsMatch
  <2>1. CASE k = d
    <3>1. \A h \in Goroutines : ~FuncStored(h, k)'
      BY <1>1, <1>3, <1>4, <2>1, GotoFacts DEF Statements
    <3> QED BY <1>1, <1>4, <2>1, <3>1
  <2>2. CASE k # d
    <3>1. \A h \in Goroutines : FuncStored(h, k)' <=> FuncStored(h, k)
      BY <1>1, <1>3, <2>2, GotoFacts DEF Statements
    <3> QED BY <1>1, <2>2, <3>1 DEF IInv, FuncsMatch
  <2> QED BY <2>1, <2>2
<1>7. PairsMatch'
  <2>1. \A k \in DOMAIN funcs' \cap DOMAIN data' : funcs'[k] = data'[k]
    BY <1>1 DEF IInv, PairsMatch
  <2>2. \A h \in Goroutines \ {g} : pc'[h] \in {"idle", "lock"}
    BY <1>1, GotoFacts DEF Statements
  <2> QED BY <1>2, <2>1, <2>2 DEF PairsMatch
<1> QED BY <1>1, <1>5, <1>6, <1>7, GotoFacts DEF IInv, Statements

LEMMA DelDataInv ==
  ASSUME IInv, TypeInv', NEW g \in Goroutines, DelData(g)
  PROVE  IInv'
<1> DEFINE d == call[g].arg
<1>1. /\ Goto(g, "deldata", "recycle")
      /\ UNCHANGED <<idx, gc, funcs, realidx, got>>
      /\ DOMAIN data' = DOMAIN data \ {d}
      /\ \A k \in DOMAIN data \ {d} : data'[k] = data[k]
  BY DEF DelData, Delete
<1>2. /\ pc[g] = "deldata" /\ pc'[g] = "recycle" /\ call[g].op = "del" /\ d \in Nat
      /\ UNCHANGED <<call, issued>>
  BY <1>1, GotoFacts, ConstantsAssumption
     DEF IInv, TypeInv, TypeOK, PcMatchesCall, AllCalls, Statements
<1>3. \A k \in Nat : /\ Holds(g, k) <=> k = d
                     /\ Holds(g, k)' <=> k = d
                     /\ ~FuncStored(g, k) /\ ~FuncStored(g, k)'
                     /\ DataStored(g, k) <=> k = d
                     /\ ~DataStored(g, k)'
  BY <1>1, <1>2 DEF Holds, Adding, Deleting, FuncStored, DataStored
<1> HIDE DEF d
<1>4. /\ d \notin issued
      /\ \A h \in Goroutines \ {g} : ~Holds(h, d)
  BY <1>2, <1>3 DEF IInv, Ownership, KeysOwned
<1>5. Ownership' /\ FuncsMatch'
  <2>1. \A h \in Goroutines, k \in Nat :
          /\ Holds(h, k)' <=> Holds(h, k)
          /\ FuncStored(h, k)' <=> FuncStored(h, k)
    BY <1>1, <1>3, GotoFacts DEF Statements
  <2> QED BY <1>1, <1>2, <2>1, SameOwners DEF IInv, TypeInv, TypeOK, FuncsMatch
<1>6. DataMatch'
  <2> SUFFICES ASSUME NEW k \in Nat
               PROVE  k \in DOMAIN data' <=>
                        k \in issued \/ \E h \in Goroutines : DataStored(h, k)'
    BY <1>2 DEF DataMatch
  <2>1. CASE k = d
    <3>1. \A h \in Goroutines : ~DataStored(h, k)'
      BY <1>1, <1>3, <1>4, <2>1, GotoFacts DEF Statements
    <3> QED BY <1>1, <1>4, <2>1, <3>1
  <2>2. CASE k # d
    <3>1. \A h \in Goroutines : DataStored(h, k)' <=> DataStored(h, k)
      BY <1>1, <1>3, <2>2, GotoFacts DEF Statements
    <3> QED BY <1>1, <2>2, <3>1 DEF IInv, DataMatch
  <2> QED BY <2>1, <2>2
<1>7. PairsMatch'
  <2>1. \A k \in DOMAIN funcs' \cap DOMAIN data' : funcs'[k] = data'[k]
    BY <1>1 DEF IInv, PairsMatch
  <2>2. \A h \in Goroutines \ {g} : pc'[h] \in {"idle", "lock"}
    BY <1>1, GotoFacts DEF Statements
  <2> QED BY <1>2, <2>1, <2>2 DEF PairsMatch
<1> QED BY <1>1, <1>5, <1>6, <1>7, GotoFacts DEF IInv, Statements

(* Recycle moves the key of a del to gc. *)
LEMMA RecycleInv ==
  ASSUME IInv, TypeInv', NEW g \in Goroutines, Recycle(g)
  PROVE  IInv'
<1> DEFINE d == call[g].arg
           n == Len(gc)
<1>1. /\ Goto(g, "recycle", "unlock")
      /\ UNCHANGED <<idx, funcs, data, realidx, got>>
      /\ gc' = Append(gc, d)
  BY DEF Recycle
<1>2. /\ pc[g] = "recycle" /\ pc'[g] = "unlock" /\ call[g].op = "del" /\ d \in Nat
      /\ UNCHANGED <<call, issued>>
  BY <1>1, GotoFacts, ConstantsAssumption
     DEF IInv, TypeInv, TypeOK, PcMatchesCall, AllCalls, Statements
<1>3. \A k \in Nat : /\ Holds(g, k) <=> k = d
                     /\ ~Holds(g, k)'
                     /\ ~FuncStored(g, k) /\ ~FuncStored(g, k)'
                     /\ ~DataStored(g, k) /\ ~DataStored(g, k)'
  BY <1>1, <1>2 DEF Holds, Adding, Deleting, FuncStored, DataStored
<1>4. /\ n \in Nat /\ Len(gc') = n + 1
      /\ gc'[n + 1] = d
      /\ \A i \in 1 .. n : gc'[i] = gc[i]
      /\ \A i : i \in 1 .. n + 1 <=> i \in 1 .. n \/ i = n + 1
  <2>1. n \in Nat
    BY LenProperties DEF IInv, TypeInv, TypeOK
  <2> HIDE DEF d
  <2> QED BY <1>1, <1>2, <2>1, PushLemma DEF IInv, TypeInv, TypeOK
<1> HIDE DEF d, n
<1>5. /\ d < idx /\ d \notin issued
      /\ \A h \in Goroutines \ {g} : ~Holds(h, d)
      /\ \A i \in 1 .. n : gc[i] # d
  BY <1>2, <1>3 DEF IInv, Ownership, KeysOwned, RecycledUnowned, n
<1>6. \A h \in Goroutines, k \in Nat : Holds(h, k)' <=> Holds(h, k) /\ k # d
  BY <1>1, <1>3, <1>5, GotoFacts DEF Statements
<1>7. KeysOwned'
  BY <1>1, <1>2, <1>6 DEF IInv, TypeInv, TypeOK, Ownership, KeysOwned
<1>8. RecycledUnowned'
  <2>1. \A i \in 1 .. n + 1 :
          /\ gc'[i] \in Nat /\ gc'[i] < idx' /\ gc'[i] \notin issued'
          /\ \A h \in Goroutines, k \in Nat : gc'[i] = k => ~Holds(h, k)'
    <3> SUFFICES ASSUME NEW i \in 1 .. n + 1
                 PROVE  /\ gc'[i] \in Nat /\ gc'[i] < idx' /\ gc'[i] \notin issued'
                        /\ \A h \in Goroutines, k \in Nat : gc'[i] = k => ~Holds(h, k)'
      OBVIOUS
    <3>1. CASE i = n + 1
      BY <1>1, <1>2, <1>4, <1>5, <1>6, <3>1
    <3>2. CASE i \in 1 .. n
      BY <1>1, <1>2, <1>4, <1>6, <3>2 DEF IInv, Ownership, RecycledUnowned, n
    <3> QED BY <1>4, <3>1, <3>2
  <2>2. \A i, j \in 1 .. n + 1 : gc'[i] = gc'[j] => i = j
    BY <1>4, <1>5 DEF IInv, Ownership, RecycledUnowned, n
  <2> QED BY <1>4, <2>1, <2>2 DEF RecycledUnowned
<1>9. NothingLost'
  <2> SUFFICES ASSUME NEW k \in Nat, k < idx, k \notin issued,
                      ~ \E h \in Goroutines : Holds(h, k)'
               PROVE  \E i \in 1 .. n + 1 : gc'[i] = k
    BY <1>1, <1>2, <1>4 DEF NothingLost
  <2>1. CASE k = d
    BY <1>4, <2>1
  <2>2. CASE k # d
    <3>1. ~ \E h \in Goroutines : Holds(h, k)
      BY <1>6, <2>2
    <3>2. PICK i \in 1 .. n : gc[i] = k
      BY <3>1 DEF IInv, Ownership, NothingLost, n
    <3> QED BY <1>4, <3>2
  <2> QED BY <2>1, <2>2
<1>10. FuncsMatch' /\ DataMatch'
  <2>1. \A h \in Goroutines, k \in Nat :
          /\ FuncStored(h, k)' <=> FuncStored(h, k)
          /\ DataStored(h, k)' <=> DataStored(h, k)
    BY <1>1, <1>3, GotoFacts DEF Statements
  <2> QED BY <1>1, <1>2, <2>1, SameMaps DEF IInv
<1>11. PairsMatch'
  <2>1. \A h \in Goroutines \ {g} : pc'[h] \in {"idle", "lock"}
    BY <1>1, GotoFacts DEF Statements
  <2> QED BY <1>1, <1>2, <2>1 DEF IInv, PairsMatch
<1> QED BY <1>1, <1>7, <1>8, <1>9, <1>10, <1>11, GotoFacts DEF IInv, Ownership, Statements

(* Reserve moves a key from gc, or a new one, to the add.  The key is      *)
(* nobody else's before the step.                                          *)
LEMMA ReserveInv ==
  ASSUME IInv, TypeInv', NEW g \in Goroutines, Reserve(g)
  PROVE  IInv'
<1> DEFINE r == realidx'[g]
           n == Len(gc)
           m == Len(gc')
<1>1. /\ Goto(g, "reserve", "setfunc")
      /\ \A h \in Goroutines \ {g} : realidx'[h] = realidx[h]
      /\ UNCHANGED <<funcs, data, got>>
  BY DEF IInv, TypeInv, TypeOK, Reserve
<1>2. /\ pc[g] = "reserve" /\ pc'[g] = "setfunc" /\ r \in Nat
      /\ UNCHANGED <<call, issued>>
  BY <1>1, GotoFacts DEF TypeInv, Adding, Statements
<1>3. \A k \in Nat : /\ ~Holds(g, k)
                     /\ Holds(g, k)' <=> k = r
                     /\ ~FuncStored(g, k) /\ ~FuncStored(g, k)'
                     /\ ~DataStored(g, k) /\ ~DataStored(g, k)'
  BY <1>1, <1>2 DEF Holds, Adding, Deleting, FuncStored, DataStored
<1>4. /\ n \in Nat /\ m \in Nat /\ m <= n
      /\ idx \in Nat /\ idx' \in Nat /\ idx <= idx' /\ r < idx'
      /\ \A i \in 1 .. m : gc'[i] = gc[i] /\ gc[i] # r
      /\ r \notin issued /\ \A h \in Goroutines \ {g} : ~Holds(h, r)
      /\ \A k \in Nat : k < idx' /\ k # r => k < idx
      /\ \A i \in 1 .. n : gc[i] # r => i \in 1 .. m
  <2>0. n \in Nat /\ idx \in Nat /\ gc \in Seq(Nat)
    BY LenProperties DEF IInv, TypeInv, TypeOK
  <2>1. CASE n > 0
    <3>1. /\ r = gc[n] /\ gc' = Front(gc) /\ idx' = idx
      BY <2>0, <2>1 DEF Reserve, IInv, TypeInv, TypeOK, Last
    <3>2. /\ m = n - 1
          /\ \A i \in 1 .. m : gc'[i] = gc[i]
      BY <2>0, <2>1, <3>1, PopLemma
    <3> HIDE DEF r, n, m
    <3>3. /\ n \in 1 .. n /\ 1 .. m \subseteq 1 .. n
          /\ \A i \in 1 .. m : i # n
          /\ \A i \in 1 .. n : i # n => i \in 1 .. m
      BY <2>0, <2>1, <3>2
    <3>4. /\ r < idx /\ r \notin issued
          /\ \A h \in Goroutines : ~Holds(h, r)
          /\ \A i \in 1 .. m : gc[i] # r
      BY <1>2, <3>1, <3>3 DEF IInv, Ownership, RecycledUnowned, n
    <3>5. m \in Nat /\ m <= n
      BY <2>0, <2>1, <3>2
    <3>6. \A k \in Nat : k < idx' /\ k # r => k < idx
      BY <3>1
    <3>7. \A i \in 1 .. n : gc[i] # r => i \in 1 .. m
      BY <3>1, <3>3
    <3>8. idx' \in Nat /\ idx <= idx' /\ r < idx'
      BY <2>0, <3>1, <3>4
    <3> QED BY <2>0, <3>2, <3>4, <3>5, <3>6, <3>7, <3>8
  <2>2. CASE n = 0
    <3>1. r = idx /\ gc' = gc /\ idx' = idx + 1
      BY <2>0, <2>2 DEF Reserve, IInv, TypeInv, TypeOK
    <3>2. r \notin issued /\ \A h \in Goroutines : ~Holds(h, r)
      BY <2>0, <3>1 DEF IInv, Ownership, KeysOwned
    <3> QED BY <2>0, <2>2, <3>1, <3>2
  <2> QED BY <2>0, <2>1, <2>2
<1> HIDE DEF r, n, m
<1>5. \A h \in Goroutines, k \in Nat :
        Holds(h, k)' <=> Holds(h, k) \/ (h = g /\ k = r)
  BY <1>1, <1>3, GotoFacts DEF Statements
<1>6. issued \subseteq Nat
  BY DEF IInv, TypeInv, TypeOK
<1>7. KeysOwned'
  <2>1. \A k \in issued : k < idx' /\ \A h \in Goroutines : ~Holds(h, k)'
    BY <1>4, <1>5, <1>6 DEF IInv, Ownership, KeysOwned
  <2>2. \A h \in Goroutines, k \in Nat : Holds(h, k)' => k < idx'
    BY <1>4, <1>5 DEF IInv, Ownership, KeysOwned
  <2>3. \A h, i \in Goroutines, k \in Nat : Holds(h, k)' /\ Holds(i, k)' => h = i
    BY <1>3, <1>4, <1>5 DEF IInv, Ownership, KeysOwned
  <2> QED BY <1>2, <2>1, <2>2, <2>3 DEF KeysOwned
<1>8. RecycledUnowned'
  <2>1. \A i \in 1 .. m : i \in 1 .. n
    BY <1>4
  <2>2. \A i \in 1 .. m :
          /\ gc'[i] \in Nat /\ gc'[i] < idx' /\ gc'[i] \notin issued'
          /\ \A h \in Goroutines, k \in Nat : gc'[i] = k => ~Holds(h, k)'
    BY <1>2, <1>4, <1>5, <2>1 DEF IInv, Ownership, RecycledUnowned, n
  <2>3. \A i, j \in 1 .. m : gc'[i] = gc'[j] => i = j
    BY <1>4, <2>1 DEF IInv, Ownership, RecycledUnowned, n
  <2> QED BY <2>2, <2>3 DEF RecycledUnowned, m
<1>9. NothingLost'
  <2> SUFFICES ASSUME NEW k \in Nat, k < idx', k \notin issued,
                      ~ \E h \in Goroutines : Holds(h, k)'
               PROVE  \E i \in 1 .. m : gc'[i] = k
    BY <1>2 DEF NothingLost, m
  <2>1. k # r /\ k < idx /\ ~ \E h \in Goroutines : Holds(h, k)
    BY <1>4, <1>5
  <2>2. PICK i \in 1 .. n : gc[i] = k
    BY <2>1 DEF IInv, Ownership, NothingLost, n
  <2> QED BY <1>4, <2>1, <2>2
<1>10. FuncsMatch' /\ DataMatch'
  <2>1. \A h \in Goroutines, k \in Nat :
          /\ FuncStored(h, k)' <=> FuncStored(h, k)
          /\ DataStored(h, k)' <=> DataStored(h, k)
    BY <1>1, <1>3, GotoFacts DEF Statements
  <2> QED BY <1>1, <1>2, <2>1, SameMaps DEF IInv
<1>11. PairsMatch'
  <2>1. \A h \in Goroutines \ {g} : pc'[h] \in {"idle", "lock"}
    BY <1>1, GotoFacts DEF Statements
  <2> QED BY <1>1, <1>2, <2>1 DEF IInv, PairsMatch
<1> QED BY <1>1, <1>7, <1>8, <1>9, <1>10, <1>11, GotoFacts DEF IInv, Ownership, Statements

(* Unlock gives the key of an add to its caller. *)
LEMMA UnlockInv ==
  ASSUME IInv, TypeInv', NEW g \in Goroutines, Unlock(g)
  PROVE  IInv'
<1> DEFINE r == realidx[g]
<1>1. /\ pc[g] = "unlock" /\ pc'[g] = "idle" /\ mu' = Nil /\ mu = g
      /\ \A h \in Goroutines \ {g} :
           /\ pc'[h] = pc[h] /\ call'[h] = call[h]
           /\ realidx'[h] = realidx[h] /\ got'[h] = got[h]
      /\ issued' = IF call[g].op = "add" THEN issued \cup {r} ELSE issued
      /\ UNCHANGED <<idx, gc, funcs, data>>
  BY DEF IInv, TypeInv, TypeOK, Unlock, table, MutexHeld, Inside
<1>2. \A h \in Goroutines \ {g} : pc[h] \in {"idle", "lock"}
  BY <1>1 DEF IInv, MutexHeld, Inside
<1>3. \A h \in Goroutines \ {g}, k \in Nat :
        /\ Holds(h, k)' <=> Holds(h, k)
        /\ FuncStored(h, k)' <=> FuncStored(h, k)
        /\ DataStored(h, k)' <=> DataStored(h, k)
  BY <1>1, OthersHold
<1>4. \A k \in Nat : /\ Holds(g, k) <=> call[g].op = "add" /\ k = r
                     /\ FuncStored(g, k) <=> Holds(g, k)
                     /\ DataStored(g, k) <=> Holds(g, k)
                     /\ ~Holds(g, k)' /\ ~FuncStored(g, k)' /\ ~DataStored(g, k)'
  BY <1>1 DEF Holds, Adding, Deleting, FuncStored, DataStored
<1>5. MutexHeld'
  BY <1>1, <1>2, ConstantsAssumption DEF MutexHeld, Inside
<1>6. PairsMatch'
  <2>1. \A h \in Goroutines : pc'[h] \in {"idle", "lock"}
    BY <1>1, <1>2
  <2> QED BY <1>1, <2>1 DEF IInv, PairsMatch
<1>7. issued \subseteq Nat
  BY DEF IInv, TypeInv, TypeOK
<1>8. CASE call[g].op = "add"
  <2>1. /\ r \in Nat /\ r < idx /\ issued' = issued \cup {r}
        /\ \A h \in Goroutines \ {g} : ~Holds(h, r)
        /\ \A i \in 1 .. Len(gc) : gc[i] # r
    BY <1>1, <1>4, <1>8
       DEF IInv, TypeInv, Adding, Ownership, KeysOwned, RecycledUnowned
  <2> HIDE DEF r
  <2>2. \A h \in Goroutines, k \in Nat : Holds(h, k)' <=> Holds(h, k) /\ k # r
    BY <1>3, <1>4, <1>8, <2>1
  <2>3. KeysOwned'
    <3>1. \A k \in issued' : k < idx' /\ \A h \in Goroutines : ~Holds(h, k)'
      BY <1>1, <1>7, <2>1, <2>2 DEF IInv, Ownership, KeysOwned
    <3>2. \A h \in Goroutines, k \in Nat : Holds(h, k)' => k < idx'
      BY <1>1, <2>2 DEF IInv, Ownership, KeysOwned
    <3>3. \A h, i \in Goroutines, k \in Nat : Holds(h, k)' /\ Holds(i, k)' => h = i
      BY <2>2 DEF IInv, Ownership, KeysOwned
    <3> QED BY <3>1, <3>2, <3>3 DEF KeysOwned
  <2>4. RecycledUnowned'
    BY <1>1, <2>1, <2>2 DEF IInv, Ownership, RecycledUnowned
  <2>5. NothingLost'
    BY <1>1, <2>1, <2>2 DEF IInv, Ownership, NothingLost
  <2>6. FuncsMatch'
    <3> SUFFICES ASSUME NEW k \in Nat
                 PROVE  k \in DOMAIN funcs <=>
                          k \in issued' \/ \E h \in Goroutines : FuncStored(h, k)'
      BY <1>1 DEF FuncsMatch
    <3>1. CASE k = r
      BY <1>4, <1>8, <2>1, <3>1 DEF IInv, FuncsMatch
    <3>2. CASE k # r
      <4>1. \A h \in Goroutines : FuncStored(h, k)' <=> FuncStored(h, k)
        BY <1>3, <1>4, <3>2
      <4> QED BY <2>1, <3>2, <4>1 DEF IInv, FuncsMatch
    <3> QED BY <3>1, <3>2
  <2>7. DataMatch'
    <3> SUFFICES ASSUME NEW k \in Nat
                 PROVE  k \in DOMAIN data <=>
                          k \in issued' \/ \E h \in Goroutines : DataStored(h, k)'
      BY <1>1 DEF DataMatch
    <3>1. CASE k = r
      BY <1>4, <1>8, <2>1, <3>1 DEF IInv, DataMatch
    <3>2. CASE k # r
      <4>1. \A h \in Goroutines : DataStored(h, k)' <=> DataStored(h, k)
        BY <1>3, <1>4, <3>2
      <4> QED BY <2>1, <3>2, <4>1 DEF IInv, DataMatch
    <3> QED BY <3>1, <3>2
  <2> QED BY <1>5, <1>6, <2>3, <2>4, <2>5, <2>6, <2>7 DEF IInv, Ownership
<1>9. CASE call[g].op # "add"
  <2>1. \A h \in Goroutines, k \in Nat :
          /\ Holds(h, k)' <=> Holds(h, k)
          /\ FuncStored(h, k)' <=> FuncStored(h, k)
          /\ DataStored(h, k)' <=> DataStored(h, k)
    BY <1>3, <1>4, <1>9
  <2>2. Ownership' /\ FuncsMatch' /\ DataMatch'
    BY <1>1, <1>7, <1>9, <2>1, SameOwners, SameMaps DEF IInv
  <2> QED BY <1>5, <1>6, <2>2 DEF IInv
<1> QED BY <1>8, <1>9

LEMMA InvStep == IInv /\ [Next]_vars => IInv'
<1> SUFFICES ASSUME IInv, [Next]_vars PROVE IInv'
  OBVIOUS
<1>1. TypeInv'
  BY TypeStep DEF IInv
<1>2. CASE UNCHANGED vars
  <2>1. \A g \in Goroutines, k \in Nat :
          /\ Holds(g, k)' <=> Holds(g, k)
          /\ FuncStored(g, k)' <=> FuncStored(g, k)
          /\ DataStored(g, k)' <=> DataStored(g, k)
    BY <1>2 DEF vars, Holds, Adding, Deleting, FuncStored, DataStored
  <2>2. Ownership' /\ FuncsMatch' /\ DataMatch'
    BY <1>2, <2>1, SameOwners, SameMaps DEF vars, table, IInv, TypeInv, TypeOK
  <2>3. MutexHeld' /\ PairsMatch'
    BY <1>2 DEF vars, table, IInv, MutexHeld, Inside, PairsMatch
  <2> QED BY <1>1, <2>2, <2>3 DEF IInv
<1>3. CASE Next
  <2>1. PICK g \in Goroutines : (\E r \in Calls : Invoke(g, r)) \/ Lock(g) \/ Statement(g)
    BY <1>3 DEF Next
  <2> QED
    BY <1>1, <2>1, InvokeInv, LockInv, ReserveInv, SetFuncInv, SetDataInv, ReadFuncInv,
       ReadDataInv, DelFuncInv, DelDataInv, RecycleInv, UnlockInv DEF Statement
<1> QED BY <1>2, <1>3

LEMMA Invariance == Spec => []IInv
BY InvInit, InvStep, PTL DEF Spec

(* Whenever the mutex is free, the free list and the two maps fit together *)
(* (hostfunc.go:23-52), for any number of goroutines.                      *)
THEOREM TableIsConsistent == Spec => []TableConsistent
<1>1. IInv => TableConsistent
  <2> SUFFICES ASSUME IInv, mu = Nil
               PROVE  /\ DOMAIN funcs = DOMAIN data
                      /\ RecycledAreFree(gc, DOMAIN funcs)
                      /\ KeysAccounted(0, idx, gc, DOMAIN funcs)
    BY DEF TableConsistent
  <2>1. \A g \in Goroutines : pc[g] \in {"idle", "lock"}
    BY ConstantsAssumption DEF IInv, MutexHeld, Inside
  <2>2. \A g \in Goroutines, k \in Nat :
          (FuncStored(g, k) <=> Holds(g, k)) /\ (DataStored(g, k) <=> Holds(g, k))
    BY <2>1 DEF FuncStored, DataStored
  <2>3. DOMAIN funcs \subseteq Nat /\ DOMAIN data \subseteq Nat /\ idx \in Nat
        /\ issued \subseteq Nat /\ DOMAIN gc = 1 .. Len(gc)
    BY LenProperties DEF IInv, TypeInv, TypeOK
  <2>4. \A k \in Nat : /\ k \in DOMAIN funcs <=>
                            k \in issued \/ \E g \in Goroutines : Holds(g, k)
                       /\ k \in DOMAIN data <=> k \in DOMAIN funcs
    BY <2>2 DEF IInv, FuncsMatch, DataMatch
  <2>5. DOMAIN funcs = DOMAIN data
    BY <2>3, <2>4
  <2>6. RecycledAreFree(gc, DOMAIN funcs)
    BY <2>4 DEF IInv, Ownership, RecycledUnowned, RecycledAreFree
  <2>7. KeysAccounted(0, idx, gc, DOMAIN funcs)
    <3>1. \A k \in Nat : k < idx <=> k \in DOMAIN funcs \/ k \in ToSet(gc)
      BY <2>3, <2>4 DEF IInv, Ownership, KeysOwned, RecycledUnowned, NothingLost, ToSet
    <3>2. ToSet(gc) \subseteq Nat
      BY <2>3 DEF IInv, Ownership, RecycledUnowned, ToSet
    <3> QED BY <2>3, <3>1, <3>2 DEF KeysAccounted
  <2> QED BY <2>5, <2>6, <2>7
<1> QED BY <1>1, Invariance, PTL

(* add hands out a key nobody else has. *)
THEOREM KeysAreExclusive == Spec => []KeysExclusive
<1>1. IInv => KeysExclusive
  <2> SUFFICES ASSUME IInv, NEW g \in Goroutines, Adding(g)
               PROVE  /\ realidx[g] \notin issued
                      /\ \A h \in Goroutines \ {g} :
                           call[h] # NoCall /\ call[h].op = "del" => call[h].arg # realidx[g]
    BY DEF KeysExclusive, Adding
  <2>1. realidx[g] \in Nat /\ Holds(g, realidx[g])
    BY DEF IInv, TypeInv, Holds
  <2>2. realidx[g] \notin issued
    BY <2>1 DEF IInv, Ownership, KeysOwned
  <2>3. ASSUME NEW h \in Goroutines \ {g}, call[h] # NoCall, call[h].op = "del",
               call[h].arg = realidx[g]
        PROVE  FALSE
    <3>1. pc[h] \in {"idle", "lock"}
      BY DEF IInv, MutexHeld, Inside, Adding
    <3>2. Holds(h, realidx[g])
      BY <2>3, <3>1 DEF IInv, TypeInv, PcMatchesCall, Holds, Deleting
    <3> QED BY <2>1, <3>2 DEF IInv, Ownership, KeysOwned
  <2> QED BY <2>2, <2>3
<1> QED BY <1>1, Invariance, PTL

(* get returns the function and the data of one registration. *)
THEOREM PairsAreNotTorn == Spec => []NoTornPair
<1>1. IInv => NoTornPair
  BY DEF IInv, PairsMatch, NoTornPair
<1> QED BY <1>1, Invariance, PTL

(* An issued key stays bound to one registration, in both maps. *)
THEOREM IssuedStayBound == Spec => []IssuedBound
<1>1. IInv => IssuedBound
  BY DEF IInv, TypeInv, TypeOK, FuncsMatch, DataMatch, PairsMatch, IssuedBound
<1> QED BY <1>1, Invariance, PTL

---------------------------------------------------------------------------
(* The manager implements HandleTable.  What IInv lacks for that is how    *)
(* many keys there are: an add that finds gc empty takes the key idx, and  *)
(* every key below idx is then issued or held by one of the other calls.   *)

NonGet == {g \in Goroutines : call[g] # NoCall /\ call[g].op # "get"}

KeysBounded ==
  /\ IsFiniteSet(issued) /\ IsFiniteSet(NonGet)
  /\ Cardinality(issued) + Cardinality(NonGet) <= MaxOutstanding
  /\ idx <= MaxOutstanding

LEMMA KeysBoundedInit == Init => KeysBounded
<1> SUFFICES ASSUME Init PROVE KeysBounded
  OBVIOUS
<1>1. issued = {} /\ NonGet = {} /\ idx = 0
  BY DEF Init, NonGet
<1> QED BY <1>1, FS_EmptySet, ConstantsAssumption DEF KeysBounded

(* The pigeonhole: as many keys as idx + 1 would be too many for those     *)
(* who can hold them.                                                      *)
LEMMA RoomForAnother ==
  ASSUME IInv, KeysBounded, NEW g \in Goroutines, pc[g] = "reserve", Len(gc) = 0
  PROVE  idx + 1 <= MaxOutstanding
<1> DEFINE S == (0 .. idx) \ issued
<1> SUFFICES ASSUME idx + 1 > MaxOutstanding PROVE FALSE
  BY ConstantsAssumption DEF IInv, TypeInv, TypeOK
<1>1. idx \in Nat /\ issued \subseteq 0 .. idx /\ idx \notin issued
  BY DEF IInv, TypeInv, TypeOK, Ownership, KeysOwned
<1>2. /\ IsFiniteSet(S)
      /\ Cardinality(S) = (idx + 1) - Cardinality(issued)
  <2>1. IsFiniteSet(0 .. idx) /\ Cardinality(0 .. idx) = idx + 1
    BY <1>1, FS_Interval
  <2>2. (0 .. idx) \cap issued = issued
    BY <1>1
  <2>3. Cardinality((0 .. idx) \ issued)
          = Cardinality(0 .. idx) - Cardinality((0 .. idx) \cap issued)
    BY <2>1, FS_Difference
  <2>4. IsFiniteSet((0 .. idx) \ issued)
    BY <2>1, FS_Difference
  <2> QED BY <2>1, <2>2, <2>3, <2>4
<1>3. Cardinality(issued) \in Nat /\ Cardinality(NonGet) \in Nat
  BY FS_CardinalityType DEF KeysBounded
<1>4. Cardinality(NonGet) < Cardinality(S)
  BY <1>1, <1>2, <1>3, ConstantsAssumption DEF KeysBounded
<1>5. g \in NonGet
  BY DEF IInv, TypeInv, PcMatchesCall, NonGet
<1>6. \A h \in Goroutines, k \in Nat : Holds(h, k) => h \in NonGet /\ h # g
  BY DEF IInv, TypeInv, PcMatchesCall, NonGet, Holds, Adding, Deleting
<1>7. \A k \in S : k # idx => \E h \in NonGet \ {g} : Holds(h, k)
  <2> SUFFICES ASSUME NEW k \in S, k # idx PROVE \E h \in NonGet \ {g} : Holds(h, k)
    OBVIOUS
  <2>1. k \in Nat /\ k < idx /\ k \notin issued
    BY <1>1
  <2>2. PICK h \in Goroutines : Holds(h, k)
    BY <2>1 DEF IInv, Ownership, NothingLost
  <2> QED BY <1>6, <2>1, <2>2
<1> DEFINE f == [k \in S |-> IF k = idx THEN g ELSE CHOOSE h \in NonGet \ {g} : Holds(h, k)]
<1>8. \A k \in S : /\ f[k] \in NonGet
                   /\ k = idx => f[k] = g
                   /\ k # idx => f[k] # g /\ Holds(f[k], k)
  BY <1>5, <1>7
<1>9. f \in [S -> NonGet]
  BY <1>8
<1> HIDE DEF f, S
<1>10. PICK x \in S, y \in S : x # y /\ f[x] = f[y]
  BY <1>2, <1>4, <1>9, FS_PigeonHole DEF KeysBounded
<1>11. Holds(f[x], x) /\ Holds(f[x], y)
  BY <1>8, <1>10
<1>12. \A h \in Goroutines : \A k, l : Holds(h, k) /\ Holds(h, l) => k = l
  BY DEF Holds, Adding, Deleting
<1> QED BY <1>8, <1>10, <1>11, <1>12 DEF NonGet

(* The other steps take no new key. *)
LEMMA KeysBoundedStep == IInv /\ KeysBounded /\ [Next]_vars => KeysBounded'
<1> SUFFICES ASSUME IInv, KeysBounded, [Next]_vars PROVE KeysBounded'
  OBVIOUS
<1> USE DEF TypeInv, TypeOK
<1>0. /\ idx \in Nat /\ MaxOutstanding \in Nat
      /\ Cardinality(issued) \in Nat /\ Cardinality(NonGet) \in Nat
  BY FS_CardinalityType, ConstantsAssumption DEF IInv, KeysBounded
<1>1. ASSUME issued' = issued, call' = call, idx' = idx \/ idx' <= MaxOutstanding
      PROVE  KeysBounded'
  BY <1>1 DEF KeysBounded, NonGet
<1>2. CASE UNCHANGED vars
  BY <1>1, <1>2 DEF vars, table
<1>3. ASSUME NEW g \in Goroutines, NEW r \in Calls, Invoke(g, r)
      PROVE  KeysBounded'
  <2>1. /\ call[g] = NoCall /\ g \notin NonGet
        /\ call' = [call EXCEPT ![g] = r] /\ idx' = idx
        /\ issued' = IF r.op = "del" THEN issued \ {r.arg} ELSE issued
    BY <1>3 DEF IInv, PcMatchesCall, Invoke, table, NonGet
  <2>2. r # NoCall /\ (r.op # "add" => r.arg \in issued)
    BY ConstantsAssumption DEF IInv, Calls, AllCalls
  <2>3. \A h \in Goroutines : call'[h] = IF h = g THEN r ELSE call[h]
    BY <2>1 DEF IInv
  <2>4. NonGet' = IF r.op = "get" THEN NonGet ELSE NonGet \cup {g}
    BY <2>1, <2>2, <2>3 DEF NonGet
  <2>5. /\ IsFiniteSet(NonGet \cup {g})
        /\ Cardinality(NonGet \cup {g}) = Cardinality(NonGet) + 1
    BY <2>1, FS_AddElement DEF KeysBounded
  <2>6. CASE r.op = "add"
    <3>1. Cardinality(issued) + Cardinality(NonGet) < MaxOutstanding
      BY <1>3, <2>6 DEF Invoke, Outstanding, NonGet
    <3> QED BY <1>0, <2>1, <2>4, <2>5, <2>6, <3>1 DEF KeysBounded
  <2>7. CASE r.op = "get"
    BY <2>1, <2>4, <2>7 DEF KeysBounded
  <2>8. CASE r.op = "del"
    <3>1. /\ IsFiniteSet(issued \ {r.arg})
          /\ Cardinality(issued \ {r.arg}) = Cardinality(issued) - 1
      BY <2>2, <2>8, FS_RemoveElement DEF KeysBounded
    <3> QED BY <1>0, <2>1, <2>4, <2>5, <2>8, <3>1 DEF KeysBounded
  <2> QED BY <2>6, <2>7, <2>8 DEF Calls
<1>4. ASSUME NEW g \in Goroutines, Lock(g) PROVE KeysBounded'
  BY <1>1, <1>4 DEF Lock, table
<1>5. ASSUME NEW g \in Goroutines, Reserve(g) PROVE KeysBounded'
  <2>1. pc[g] = "reserve" /\ issued' = issued /\ call' = call
    BY <1>5 DEF Reserve, Goto
  <2>2. idx' = idx \/ (Len(gc) = 0 /\ idx' = idx + 1)
    BY <1>5 DEF Reserve
  <2> QED BY <1>1, <2>1, <2>2, RoomForAnother
<1>6. ASSUME NEW g \in Goroutines,
             \/ SetFunc(g) \/ SetData(g) \/ ReadFunc(g) \/ ReadData(g)
             \/ DelFunc(g) \/ DelData(g) \/ Recycle(g)
      PROVE  KeysBounded'
  <2>1. issued' = issued /\ call' = call
    BY <1>6 DEF SetFunc, SetData, ReadFunc, ReadData, DelFunc, DelData, Recycle, Goto
  <2>2. idx' = idx
    BY <1>6 DEF SetFunc, SetData, ReadFunc, ReadData, DelFunc, DelData, Recycle, table
  <2> QED BY <1>1, <2>1, <2>2
<1>7. ASSUME NEW g \in Goroutines, Unlock(g) PROVE KeysBounded'
  <2>1. /\ call[g] # NoCall /\ idx' = idx /\ call' = [call EXCEPT ![g] = NoCall]
        /\ issued' = IF call[g].op = "add" THEN issued \cup {realidx[g]} ELSE issued
    BY <1>7 DEF IInv, PcMatchesCall, Unlock, table
  <2>2. \A h \in Goroutines : call'[h] = IF h = g THEN NoCall ELSE call[h]
    BY <2>1 DEF IInv
  <2>3. NonGet' = NonGet \ {g}
    BY <2>1, <2>2 DEF NonGet
  <2>4. /\ IsFiniteSet(NonGet \ {g})
        /\ Cardinality(NonGet \ {g}) = IF g \in NonGet THEN Cardinality(NonGet) - 1
                                       ELSE Cardinality(NonGet)
    BY FS_RemoveElement DEF KeysBounded
  <2>5. /\ IsFiniteSet(issued \cup {realidx[g]})
        /\ Cardinality(issued \cup {realidx[g]}) <= Cardinality(issued) + 1
    <3>1. PICK k : k = realidx[g]
      OBVIOUS
    <3>2. /\ IsFiniteSet(issued \cup {k})
          /\ Cardinality(issued \cup {k}) = IF k \in issued THEN Cardinality(issued)
                                             ELSE Cardinality(issued) + 1
      BY FS_AddElement DEF KeysBounded
    <3> QED BY <1>0, <3>1, <3>2
  <2>6. Cardinality(issued \cup {realidx[g]}) \in Nat
    BY <2>5, FS_CardinalityType
  <2>7. call[g].op = "add" => g \in NonGet
    BY <2>1 DEF NonGet
  <2> QED BY <1>0, <2>1, <2>3, <2>4, <2>5, <2>6, <2>7 DEF KeysBounded
<1> QED BY <1>2, <1>3, <1>4, <1>5, <1>6, <1>7 DEF Next, Statement

---------------------------------------------------------------------------

(* HandleTable counts in the same way. *)
LEMMA SameCardinality == \A S : Handles!Cardinality(S) = Cardinality(S)
BY DEF Handles!Cardinality, Cardinality

LEMMA HandlesInit == Init => Handles!Init
BY DEF Init, Handles!Init, EmptyMap, Handles!EmptyMap, TookEffect

Answer == [g \in Goroutines |-> IF TookEffect(g) THEN Result(g) ELSE Waiting]

(* What g does to its own answer is all that changes of the answers. *)
LEMMA AnswersAfter ==
  ASSUME NEW g \in Goroutines, NEW a,
         \A h \in Goroutines \ {g} :
           pc'[h] = pc[h] /\ call'[h] = call[h] /\ realidx'[h] = realidx[h] /\ got'[h] = got[h],
         (IF TookEffect(g) THEN Result(g) ELSE Waiting)' = a
  PROVE  Answer' = [Answer EXCEPT ![g] = a]
<1>1. ASSUME NEW h \in Goroutines \ {g}
      PROVE  (IF TookEffect(h) THEN Result(h) ELSE Waiting)'
               = IF TookEffect(h) THEN Result(h) ELSE Waiting
  <2>1. pc'[h] = pc[h] /\ call'[h] = call[h] /\ realidx'[h] = realidx[h] /\ got'[h] = got[h]
    OBVIOUS
  <2>2. TookEffect(h)' = TookEffect(h)
    BY <2>1 DEF TookEffect
  <2>3. Result(h)' = Result(h)
    BY <2>1 DEF Result
  <2> QED BY <2>2, <2>3
<1>2. \A h \in Goroutines :
        (IF TookEffect(h) THEN Result(h) ELSE Waiting)'
          = IF h = g THEN a ELSE IF TookEffect(h) THEN Result(h) ELSE Waiting
  BY <1>1
<1> QED BY <1>2 DEF Answer

(* A step in which no operation takes effect and none begins or ends.      *)
LEMMA Stutter ==
  ASSUME NEW g \in Goroutines,
         \A h \in Goroutines \ {g} :
           pc'[h] = pc[h] /\ call'[h] = call[h] /\ realidx'[h] = realidx[h] /\ got'[h] = got[h],
         TookEffect(g)' <=> TookEffect(g), TookEffect(g) => Result(g)' = Result(g),
         funcs' = funcs, issued' = issued, call' = call
  PROVE  UNCHANGED Handles!hvars
<1>1. PICK a : a = IF TookEffect(g) THEN Result(g) ELSE Waiting
  OBVIOUS
<1>2. (IF TookEffect(g) THEN Result(g) ELSE Waiting)' = a
  BY <1>1
<1>3. Answer' = [Answer EXCEPT ![g] = a]
  BY <1>2, AnswersAfter
<1>4. Answer' = Answer
  BY <1>1, <1>3 DEF Answer
<1> QED BY <1>4 DEF Handles!hvars, Answer

(* What a statement does to the locals of the others: nothing. *)
LEMMA LocalsOfOthers ==
  ASSUME TypeInv, NEW g \in Goroutines, Lock(g) \/ Statement(g) \/ \E r \in Calls : Invoke(g, r)
  PROVE  \A h \in Goroutines \ {g} :
           pc'[h] = pc[h] /\ call'[h] = call[h] /\ realidx'[h] = realidx[h] /\ got'[h] = got[h]
<1> USE DEF TypeInv, TypeOK
<1>1. CASE \E r \in Calls : Invoke(g, r)
  BY <1>1 DEF Invoke
<1>2. CASE Lock(g)
  BY <1>2 DEF Lock
<1>3. CASE Reserve(g) \/ SetFunc(g) \/ SetData(g)
  BY <1>3 DEF Reserve, SetFunc, SetData, Goto
<1>4. CASE ReadFunc(g) \/ ReadData(g)
  BY <1>4 DEF ReadFunc, ReadData, Goto
<1>5. CASE DelFunc(g) \/ DelData(g) \/ Recycle(g)
  BY <1>5 DEF DelFunc, DelData, Recycle, Goto
<1>6. CASE Unlock(g)
  BY <1>6 DEF Unlock
<1> QED BY <1>1, <1>2, <1>3, <1>4, <1>5, <1>6 DEF Statement

(* The steps that take effect: an add stores its function under a key that *)
(* is free and below the bound ...                                         *)
LEMMA AddTakesEffect ==
  ASSUME IInv, KeysBounded, NEW g \in Goroutines, SetFunc(g)
  PROVE  Handles!TakeEffect(g)
<1> USE DEF TypeInv, TypeOK
<1>1. /\ pc[g] = "setfunc" /\ pc'[g] = "setdata"
      /\ UNCHANGED <<issued, call, realidx>>
      /\ funcs' = Assign(funcs, realidx[g], call[g].arg)
  BY DEF IInv, SetFunc, Goto
<1>2. call[g] # NoCall /\ call[g].op = "add" /\ realidx[g] \in Nat
  BY <1>1 DEF IInv, PcMatchesCall, Adding
<1>3. Holds(g, realidx[g])
  BY <1>1, <1>2 DEF Holds, Adding
<1>4. realidx[g] \in 0 .. MaxOutstanding - 1
  BY <1>2, <1>3, ConstantsAssumption DEF IInv, Ownership, KeysOwned, KeysBounded
<1>5. realidx[g] \notin DOMAIN funcs
  <2>1. realidx[g] \notin issued
    BY <1>2, <1>3 DEF IInv, Ownership, KeysOwned
  <2>2. \A h \in Goroutines : ~FuncStored(h, realidx[g])
    BY <1>1, <1>2, <1>3 DEF IInv, Ownership, KeysOwned, FuncStored
  <2> QED BY <1>2, <2>1, <2>2 DEF IInv, FuncsMatch
<1>6. Answer[g] = Waiting
  BY <1>1 DEF Answer, TookEffect
<1>7. Answer' = [Answer EXCEPT ![g] = realidx[g]]
  <2>1. TookEffect(g)' /\ Result(g)' = realidx[g]
    BY <1>1, <1>2 DEF TookEffect, Result
  <2>2. Statement(g) /\ TypeInv
    BY DEF Statement, IInv
  <2> QED BY <2>1, <2>2, AnswersAfter, LocalsOfOthers
<1> QED
  BY <1>1, <1>2, <1>4, <1>5, <1>6, <1>7
     DEF Handles!TakeEffect, Handles!Answers, Handles!Assign, Assign, Answer

(* ... a get has read the function and the data of one registration ...    *)
LEMMA GetTakesEffect ==
  ASSUME IInv, NEW g \in Goroutines, ReadData(g), IInv'
  PROVE  Handles!TakeEffect(g)
<1> USE DEF TypeInv, TypeOK
<1>1. /\ pc[g] = "readdata" /\ pc'[g] = "unlock"
      /\ UNCHANGED <<issued, call, funcs>>
      /\ got' = [got EXCEPT ![g] = <<got[g][1], Lookup(data, call[g].arg)>>]
  BY DEF IInv, ReadData, Goto, table
<1>2. call[g] # NoCall /\ call[g].op = "get"
  BY <1>1 DEF IInv, PcMatchesCall
<1>3. got'[g] = <<got[g][1], Lookup(data, call[g].arg)>>
  BY <1>1 DEF IInv
<1>4. got'[g] = <<Lookup(funcs, call[g].arg), Lookup(funcs, call[g].arg)>>
  <2>1. got'[g][1] = got'[g][2]
    BY <1>1, <1>2 DEF IInv, PairsMatch
  <2>2. got[g][1] = Lookup(funcs, call[g].arg)
    BY <1>1 DEF IInv, PairsMatch
  <2> QED BY <1>3, <2>1, <2>2
<1>5. Answer[g] = Waiting
  BY <1>1 DEF Answer, TookEffect
<1>6. Answer' = [Answer EXCEPT ![g] = got'[g]]
  <2>1. TookEffect(g)' /\ Result(g)' = got'[g]
    BY <1>1, <1>2 DEF TookEffect, Result
  <2>2. Statement(g) /\ TypeInv
    BY DEF Statement, IInv
  <2> QED BY <2>1, <2>2, AnswersAfter, LocalsOfOthers
<1> QED
  BY <1>1, <1>2, <1>4, <1>5, <1>6
     DEF Handles!TakeEffect, Handles!Answers, Handles!Lookup, Lookup, Answer

(* ... and a del removes the function.                                     *)
LEMMA DelTakesEffect ==
  ASSUME IInv, NEW g \in Goroutines, DelFunc(g)
  PROVE  Handles!TakeEffect(g)
<1> USE DEF TypeInv, TypeOK
<1>1. /\ pc[g] = "delfunc" /\ pc'[g] = "deldata"
      /\ UNCHANGED <<issued, call>>
      /\ funcs' = Delete(funcs, call[g].arg)
  BY DEF IInv, DelFunc, Goto
<1>2. call[g] # NoCall /\ call[g].op = "del"
  BY <1>1 DEF IInv, PcMatchesCall
<1>3. Answer[g] = Waiting
  BY <1>1 DEF Answer, TookEffect
<1>4. Answer' = [Answer EXCEPT ![g] = Nil]
  <2>1. TookEffect(g)' /\ Result(g)' = Nil
    BY <1>1, <1>2 DEF TookEffect, Result
  <2>2. Statement(g) /\ TypeInv
    BY DEF Statement, IInv
  <2> QED BY <2>1, <2>2, AnswersAfter, LocalsOfOthers
<1> QED
  BY <1>1, <1>2, <1>3, <1>4
     DEF Handles!TakeEffect, Handles!Answers, Handles!Delete, Delete, Answer

(* The unlock returns what the operation has answered.                     *)
LEMMA UnlockReturns ==
  ASSUME IInv, NEW g \in Goroutines, Unlock(g)
  PROVE  Handles!Return(g)
<1> USE DEF TypeInv, TypeOK
<1>1. /\ pc[g] = "unlock" /\ pc'[g] = "idle"
      /\ call' = [call EXCEPT ![g] = NoCall] /\ funcs' = funcs
      /\ issued' = IF call[g].op = "add" THEN issued \cup {realidx[g]} ELSE issued
  BY DEF IInv, Unlock, table
<1>2. call[g] # NoCall /\ call[g] \in AllCalls
  BY <1>1 DEF IInv, PcMatchesCall
<1>3. Answer[g] = Result(g)
  BY <1>1 DEF Answer, TookEffect
<1>4. Result(g) # Waiting /\ (call[g].op = "add" => Result(g) = realidx[g])
  <2>1. CASE call[g].op = "add"
    <3>1. realidx[g] \in Nat
      BY <1>1, <2>1 DEF IInv, Adding
    <3> QED BY <2>1, <3>1, WaitingAssumption DEF Result
  <2>2. CASE call[g].op = "get"
    <3>1. got[g] \in (Payloads \cup {Nil}) \X (Payloads \cup {Nil})
      BY DEF IInv
    <3>2. Result(g) = got[g]
      BY <2>2 DEF Result
    <3>3. got[g] # Waiting
      BY <3>1, WaitingAssumption
    <3> QED BY <2>2, <3>2, <3>3
  <2>3. CASE call[g].op = "del"
    BY <2>3, WaitingAssumption DEF Result
  <2> QED BY <1>2, <2>1, <2>2, <2>3 DEF AllCalls
<1>5. Answer' = [Answer EXCEPT ![g] = Waiting]
  <2>1. ~TookEffect(g)'
    BY <1>1 DEF TookEffect
  <2>2. Statement(g) /\ TypeInv
    BY DEF Statement, IInv
  <2> QED BY <2>1, <2>2, AnswersAfter, LocalsOfOthers
<1> QED BY <1>1, <1>2, <1>3, <1>4, <1>5 DEF Handles!Return, Answer

LEMMA InvokeInvokes ==
  ASSUME IInv, NEW g \in Goroutines, NEW r \in Calls, Invoke(g, r)
  PROVE  Handles!Invoke(g, r)
<1> USE DEF TypeInv, TypeOK
<1>1. /\ pc[g] = "idle" /\ pc'[g] = "lock" /\ call[g] = NoCall /\ funcs' = funcs
      /\ call' = [call EXCEPT ![g] = r]
      /\ issued' = IF r.op = "del" THEN issued \ {r.arg} ELSE issued
      /\ r.op = "add" => Outstanding < MaxOutstanding
  BY DEF IInv, PcMatchesCall, Invoke, table
<1>2. Answer[g] = Waiting
  BY <1>1 DEF Answer, TookEffect
<1>3. Answer' = [Answer EXCEPT ![g] = Waiting]
  <2>1. ~TookEffect(g)'
    BY <1>1 DEF TookEffect
  <2>2. TypeInv
    BY DEF IInv
  <2> QED BY <2>1, <2>2, AnswersAfter, LocalsOfOthers
<1>4. Answer' = Answer
  BY <1>2, <1>3 DEF Answer
<1>5. r.op = "add" => Handles!Outstanding(issued, call) < MaxOutstanding
  BY <1>1, SameCardinality DEF Handles!Outstanding, Outstanding
<1> QED BY <1>1, <1>4, <1>5 DEF Handles!Invoke, Answer

LEMMA HandlesStep ==
  IInv /\ IInv' /\ KeysBounded /\ [Next]_vars => [Handles!Next]_(Handles!hvars)
<1> SUFFICES ASSUME IInv, IInv', KeysBounded, [Next]_vars
             PROVE  [Handles!Next]_(Handles!hvars)
  OBVIOUS
<1>1. CASE UNCHANGED vars
  <2>1. Answer' = Answer
    BY <1>1 DEF vars, Answer, TookEffect, Result
  <2> QED BY <1>1, <2>1 DEF vars, table, Handles!hvars, Answer
<1>2. ASSUME NEW g \in Goroutines, NEW r \in Calls, Invoke(g, r)
      PROVE  Handles!Next
  <2>1. r \in Handles!Calls
    BY DEF Calls, Handles!Calls
  <2> QED BY <1>2, <2>1, InvokeInvokes DEF Handles!Next
<1>3. ASSUME NEW g \in Goroutines, SetFunc(g) \/ ReadData(g) \/ DelFunc(g)
      PROVE  Handles!Next
  BY <1>3, AddTakesEffect, GetTakesEffect, DelTakesEffect DEF Handles!Next
<1>4. ASSUME NEW g \in Goroutines, Unlock(g)
      PROVE  Handles!Next
  BY <1>4, UnlockReturns DEF Handles!Next
<1>5. ASSUME NEW g \in Goroutines,
             Lock(g) \/ Reserve(g) \/ ReadFunc(g) \/ SetData(g) \/ DelData(g) \/ Recycle(g)
      PROVE  UNCHANGED Handles!hvars
  <2> USE DEF IInv, TypeInv, TypeOK
  <2>1. \A h \in Goroutines \ {g} :
          pc'[h] = pc[h] /\ call'[h] = call[h] /\ realidx'[h] = realidx[h] /\ got'[h] = got[h]
    <3>1. TypeInv /\ (Lock(g) \/ Statement(g))
      BY <1>5 DEF Statement
    <3> QED BY <3>1, LocalsOfOthers
  <2>2. funcs' = funcs /\ issued' = issued /\ call' = call
    BY <1>5 DEF Lock, Reserve, ReadFunc, SetData, DelData, Recycle, Goto, table
  <2>3. CASE Lock(g)
    <3>1. pc[g] = "lock" /\ call[g] \in AllCalls /\ pc'[g] = FirstStatement[call[g].op]
      BY <2>3, ConstantsAssumption DEF Lock, PcMatchesCall
    <3>2. pc'[g] \in {"reserve", "readfunc", "delfunc"}
      BY <3>1 DEF AllCalls, FirstStatement
    <3>3. ~TookEffect(g) /\ ~TookEffect(g)'
      BY <3>1, <3>2 DEF TookEffect
    <3> QED BY <2>1, <2>2, <3>3, Stutter
  <2>4. CASE Reserve(g) \/ ReadFunc(g)
    <3>1. ~TookEffect(g) /\ ~TookEffect(g)'
      BY <2>4 DEF Reserve, ReadFunc, Goto, TookEffect
    <3> QED BY <2>1, <2>2, <3>1, Stutter
  <2>5. CASE SetData(g) \/ DelData(g) \/ Recycle(g)
    <3>1. TookEffect(g) /\ TookEffect(g)'
      BY <2>5 DEF SetData, DelData, Recycle, Goto, TookEffect
    <3>2. realidx' = realidx /\ got' = got
      BY <2>5 DEF SetData, DelData, Recycle
    <3>3. Result(g)' = Result(g)
      BY <2>2, <3>2 DEF Result
    <3> QED BY <2>1, <2>2, <3>1, <3>3, Stutter
  <2> QED BY <1>5, <2>3, <2>4, <2>5
<1> QED BY <1>1, <1>2, <1>3, <1>4, <1>5 DEF Next, Statement

(* add, get and del, statement by statement under the mutex, are the       *)
(* instantaneous operations of HandleTable (hostfunc.go:23-52), and no     *)
(* more keys are made than were outstanding at once.                       *)
THEOREM IsLinearizable == Spec => Linearizable
<1>1. Spec => []KeysBounded
  BY Invariance, KeysBoundedInit, KeysBoundedStep, PTL DEF Spec
<1> QED
  BY <1>1, Invariance, HandlesInit, HandlesStep, PTL DEF Spec, Linearizable, Handles!Spec
=============================================================================
