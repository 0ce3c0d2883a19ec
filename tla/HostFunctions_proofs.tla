------------------------ MODULE HostFunctions_proofs ------------------------
(***************************************************************************)
(* Proofs about HostFunctions, for any goroutines, functions, variables,   *)
(* modules and instances, and a program that passes AddFunction only       *)
(* Functions that it owns.                                                 *)
(*                                                                         *)
(* The argument is a ledger: the places where keys are held have, at every *)
(* step, no key in common, and hold together the keys of the table.  With  *)
(* that, a key that one place deletes is not the key of an instance that   *)
(* another can still call.                                                 *)
(***************************************************************************)
EXTENDS HostFunctions, SequenceTheorems, FiniteSetTheorems, TLAPS

(* Facts about the operators of IndexTable, element by element.  They are  *)
(* stated alike for the table of functions and for that of objects.        *)

(* What popping and pushing do to the stack of recycled keys. *)
LEMMA PopLemma ==
  ASSUME NEW S, NEW s \in Seq(S), Len(s) > 0
  PROVE  /\ Last(s) \in S /\ Last(s) = s[Len(s)]
         /\ Front(s) \in Seq(S)
         /\ Len(Front(s)) = Len(s) - 1
         /\ \A i \in 1 .. Len(s) - 1 : Front(s)[i] = s[i]
<1>1. s[Len(s)] \in S
  BY ElementOfSeq, LenProperties
<1>2. /\ Front(s) \in Seq(S)
      /\ Len(Front(s)) = Len(s) - 1
      /\ \A i \in 1 .. Len(s) - 1 : Front(s)[i] = s[i]
  <2> DEFINE n == Len(s) - 1
  <2>1. n \in Nat /\ Len(s) \in Nat
    BY LenProperties
  <2>2. \A i \in 1 .. n : s[i] \in S
    BY <2>1, ElementOfSeq
  <2>3. /\ SubSeq(s, 1, n) \in Seq(S)
        /\ Len(SubSeq(s, 1, n)) = IF 1 <= n THEN n - 1 + 1 ELSE 0
        /\ \A i \in 1 .. n - 1 + 1 : SubSeq(s, 1, n)[i] = s[1 + i - 1]
    <3> HIDE DEF n
    <3> QED BY <2>1, <2>2, SubSeqProperties
  <2>4. n - 1 + 1 = n /\ \A i \in 1 .. n : 1 + i - 1 = i
    BY <2>1
  <2> QED BY <2>1, <2>3, <2>4 DEF Front
<1> QED BY <1>1, <1>2 DEF Last

LEMMA PushLemma ==
  ASSUME NEW S, NEW s \in Seq(S), NEW e \in S
  PROVE  /\ Append(s, e) \in Seq(S)
         /\ Len(Append(s, e)) = Len(s) + 1
         /\ Append(s, e)[Len(s) + 1] = e
         /\ \A i \in 1 .. Len(s) : Append(s, e)[i] = s[i]
BY AppendProperties

---------------------------------------------------------------------------

(* A table that stores members of V. *)
IsTable(V, t) ==
  /\ t.idx \in Nat
  /\ t.gc \in Seq(Nat)
  /\ DOMAIN t.data \subseteq Nat
  /\ \A k \in DOMAIN t.data : t.data[k] \in V

(* A well-formed table, element by element. *)
LEMMA TableFacts ==
  ASSUME NEW V, NEW first \in Nat, NEW t, IsTable(V, t), WellFormed(first, t)
  PROVE  /\ Len(t.gc) \in Nat
         /\ DOMAIN t.gc = 1 .. Len(t.gc)
         /\ \A i, j \in 1 .. Len(t.gc) : t.gc[i] = t.gc[j] => i = j
         /\ \A i \in 1 .. Len(t.gc) : t.gc[i] \in Nat /\ t.gc[i] \notin DOMAIN t.data
         /\ \A x : x \in first .. t.idx - 1 <=>
                  x \in DOMAIN t.data \/ \E i \in 1 .. Len(t.gc) : t.gc[i] = x
<1>1. /\ Len(t.gc) \in Nat
      /\ DOMAIN t.gc = 1 .. Len(t.gc)
      /\ \A i \in 1 .. Len(t.gc) : t.gc[i] \in Nat
  BY ElementOfSeq, LenProperties DEF IsTable
<1>2. /\ \A i, j \in 1 .. Len(t.gc) : t.gc[i] = t.gc[j] => i = j
      /\ \A i \in 1 .. Len(t.gc) : t.gc[i] \notin DOMAIN t.data
  BY DEF WellFormed, RecycledAreFree
<1>3. DOMAIN t.data \cup {t.gc[i] : i \in 1 .. Len(t.gc)} = first .. t.idx - 1
  BY <1>1 DEF WellFormed, KeysAccounted, ToSet
<1> QED BY <1>1, <1>2, <1>3

(* add on a well-formed table returns a key that is in nobody's hands and  *)
(* leaves the table well-formed, every other binding included.             *)
LEMMA AddLemma ==
  ASSUME NEW V, NEW first \in Nat, NEW t, NEW v \in V,
         IsTable(V, t), WellFormed(first, t), first <= t.idx
  PROVE  /\ NextKey(t) \in Nat \ DOMAIN t.data
         /\ first <= NextKey(t)
         /\ IsTable(V, Add(t, v))
         /\ WellFormed(first, Add(t, v))
         /\ first <= Add(t, v).idx
         /\ DOMAIN Add(t, v).data = DOMAIN t.data \cup {NextKey(t)}
         /\ Add(t, v).data[NextKey(t)] = v
         /\ \A k \in DOMAIN t.data : Add(t, v).data[k] = t.data[k]
<1> DEFINE k == NextKey(t)
           u == Add(t, v)
           n == Len(t.gc)
<1>0. /\ n \in Nat /\ (t.gc # <<>> <=> n > 0)
      /\ DOMAIN t.gc = 1 .. n
  BY EmptySeq, LenProperties DEF IsTable
<1>1. /\ \A i, j \in 1 .. n : t.gc[i] = t.gc[j] => i = j
      /\ \A i \in 1 .. n : t.gc[i] \in Nat /\ t.gc[i] \notin DOMAIN t.data
      /\ \A x : x \in first .. t.idx - 1 <=>
               x \in DOMAIN t.data \/ \E i \in 1 .. n : t.gc[i] = x
  BY TableFacts
<1>2. /\ u.data = Assign(t.data, k, v)
      /\ DOMAIN u.data = DOMAIN t.data \cup {k}
      /\ u.data[k] = v
      /\ \A x \in DOMAIN t.data \ {k} : u.data[x] = t.data[x]
  BY DEF Add, Assign
<1>3. CASE t.gc # <<>>
  <2>1. /\ k = t.gc[n] /\ u.idx = t.idx /\ u.gc = Front(t.gc)
        /\ n > 0
    BY <1>0, <1>3 DEF NextKey, Last, Add
  <2>2. /\ u.gc \in Seq(Nat) /\ Len(u.gc) = n - 1
        /\ \A i \in 1 .. n - 1 : u.gc[i] = t.gc[i]
    BY <1>0, <2>1, PopLemma DEF IsTable
  <2>3. k \in Nat \ DOMAIN t.data /\ k \in first .. t.idx - 1
    BY <1>0, <1>1, <2>1
  <2>4. RecycledAreFree(u.gc, DOMAIN u.data)
    <3>1. \A i, j \in 1 .. n - 1 : u.gc[i] = u.gc[j] => i = j
      <4> HIDE DEF n, u, k
      <4> QED BY <1>0, <1>1, <2>2
    <3>2. \A i \in 1 .. n - 1 : u.gc[i] \notin DOMAIN t.data
      <4> HIDE DEF n, u, k
      <4> QED BY <1>0, <1>1, <2>2
    <3>3. \A i \in 1 .. n - 1 : u.gc[i] # k
      <4> HIDE DEF n, u, k
      <4> QED BY <1>0, <1>1, <2>1, <2>2
    <3> HIDE DEF n, u, k
    <3> QED BY <1>2, <2>2, <3>1, <3>2, <3>3 DEF RecycledAreFree
  <2>5. DOMAIN u.gc = 1 .. n - 1
    BY <2>2, LenProperties
  <2>6. KeysAccounted(first, u.idx, u.gc, DOMAIN u.data)
    <3>1. \A x : x \in DOMAIN u.data \cup ToSet(u.gc) <=>
                 x \in DOMAIN t.data \/ x = k \/ \E i \in 1 .. n - 1 : t.gc[i] = x
      BY <1>2, <2>2, <2>5 DEF ToSet
    <3>2. \A x : (\E i \in 1 .. n : t.gc[i] = x) <=>
                 x = k \/ \E i \in 1 .. n - 1 : t.gc[i] = x
      BY <1>0, <2>1
    <3> QED BY <1>1, <2>1, <3>1, <3>2 DEF KeysAccounted
  <2> QED BY <1>2, <2>1, <2>2, <2>3, <2>4, <2>6 DEF WellFormed, IsTable
<1>4. CASE t.gc = <<>>
  <2>1. k = t.idx /\ u.idx = t.idx + 1 /\ u.gc = t.gc /\ n = 0
    BY <1>0, <1>4 DEF NextKey, Add
  <2>2. k \in Nat \ DOMAIN t.data
    BY <1>1, <2>1 DEF IsTable
  <2>3. RecycledAreFree(u.gc, DOMAIN u.data)
    BY <2>1 DEF RecycledAreFree
  <2>4. KeysAccounted(first, u.idx, u.gc, DOMAIN u.data)
    <3>1. ToSet(u.gc) = {}
      BY <1>0, <2>1 DEF ToSet
    <3>2. DOMAIN t.data = first .. t.idx - 1
      <4>1. \A x : x \in first .. t.idx - 1 <=> x \in DOMAIN t.data
        <5> HIDE DEF n, k, u
        <5>1. 1 .. n = {}
          BY <2>1
        <5> QED BY <1>1, <5>1
      <4> QED BY <4>1
    <3>3. first .. t.idx = (first .. t.idx - 1) \cup {t.idx}
      BY DEF IsTable
    <3> QED BY <1>2, <2>1, <3>1, <3>2, <3>3 DEF KeysAccounted, IsTable
  <2> QED BY <1>2, <2>1, <2>2, <2>3, <2>4 DEF WellFormed, IsTable
<1> QED BY <1>3, <1>4

(* del of a key that is in use leaves the table well-formed and every      *)
(* other binding as it was.                                                *)
LEMMA DelLemma ==
  ASSUME NEW V, NEW first \in Nat, NEW t, NEW k \in DOMAIN t.data,
         IsTable(V, t), WellFormed(first, t)
  PROVE  /\ IsTable(V, Del(t, k))
         /\ WellFormed(first, Del(t, k))
         /\ Del(t, k).idx = t.idx
         /\ DOMAIN Del(t, k).data = DOMAIN t.data \ {k}
         /\ \A x \in DOMAIN t.data \ {k} : Del(t, k).data[x] = t.data[x]
<1> DEFINE u == Del(t, k)
           n == Len(t.gc)
<1>0. /\ n \in Nat /\ k \in Nat
      /\ DOMAIN t.gc = 1 .. n
  BY TableFacts DEF IsTable
<1>1. /\ \A i, j \in 1 .. n : t.gc[i] = t.gc[j] => i = j
      /\ \A i \in 1 .. n : t.gc[i] \in Nat /\ t.gc[i] \notin DOMAIN t.data
      /\ \A x : x \in first .. t.idx - 1 <=>
               x \in DOMAIN t.data \/ \E i \in 1 .. n : t.gc[i] = x
  BY TableFacts
<1>2. /\ u.idx = t.idx
      /\ u.gc = Append(t.gc, k)
      /\ DOMAIN u.data = DOMAIN t.data \ {k}
      /\ \A x \in DOMAIN t.data \ {k} : u.data[x] = t.data[x]
  BY DEF Del, Delete
<1>3. /\ u.gc \in Seq(Nat) /\ Len(u.gc) = n + 1
      /\ u.gc[n + 1] = k
      /\ \A i \in 1 .. n : u.gc[i] = t.gc[i]
  BY <1>0, <1>2, PushLemma DEF IsTable
<1>4. DOMAIN u.gc = 1 .. n + 1
  BY <1>3, LenProperties
<1> HIDE DEF u, n
<1>5. RecycledAreFree(u.gc, DOMAIN u.data)
  <2>1. \A i \in 1 .. n + 1 : i \in 1 .. n \/ i = n + 1
    BY <1>0
  <2>2. \A i, j \in 1 .. n + 1 : u.gc[i] = u.gc[j] => i = j
    BY <1>1, <1>3, <2>1
  <2>3. \A i \in 1 .. n + 1 : u.gc[i] \notin DOMAIN u.data
    BY <1>1, <1>2, <1>3, <2>1
  <2> QED BY <1>3, <2>2, <2>3 DEF RecycledAreFree
<1>6. KeysAccounted(first, u.idx, u.gc, DOMAIN u.data)
  <2>1. \A x : (\E i \in 1 .. n + 1 : u.gc[i] = x) <=>
               x = k \/ \E i \in 1 .. n : t.gc[i] = x
    <3>1. \A i : i \in 1 .. n + 1 <=> i \in 1 .. n \/ i = n + 1
      BY <1>0
    <3> QED BY <1>3, <3>1
  <2>2. \A x : x \in DOMAIN u.data \cup ToSet(u.gc) <=> x \in first .. t.idx - 1
    <3>1. \A x : x \in ToSet(u.gc) <=> \E i \in 1 .. n + 1 : u.gc[i] = x
      BY <1>4 DEF ToSet
    <3>2. \A x : x \in DOMAIN u.data \cup ToSet(u.gc) <=>
                 x \in DOMAIN t.data \/ \E i \in 1 .. n : t.gc[i] = x
      BY <1>2, <2>1, <3>1
    <3> QED BY <1>1, <3>2
  <2> QED BY <1>2, <2>2 DEF KeysAccounted
<1> QED BY <1>2, <1>3, <1>5, <1>6 DEF u, WellFormed, IsTable

---------------------------------------------------------------------------

Careful == AddsNotOwned = {}

Registered == DOMAIN tab.data

(* Where keys are held: in a Function that owns its instance, by a         *)
(* NewFunction under way, in a Go module.                                  *)
Places == ({"handle"} \X Handles) \cup ({"new"} \X Goroutines) \cup ({"module"} \X Modules)

HandleKeys(x) == IF x.own THEN {x.index} ELSE {}
OpKeys(o) == IF o.pc = "create" THEN {o.key} ELSE {}
ModuleKeys(r) == ToSet(r.hostfuncs)

held ==
  [p \in Places |->
     IF p[1] = "handle" THEN HandleKeys(fh[p[2]])
     ELSE IF p[1] = "new" THEN OpKeys(op[p[2]])
     ELSE ModuleKeys(gm[p[2]])]

(* The ledger: what each place of H holds, and the keys R there are. *)
Balanced(H, R) ==
  /\ \A p \in Places : H[p] \subseteq R
  /\ \A k \in R : \E p \in Places : k \in H[p]
  /\ \A p, q \in Places : p # q => H[p] \cap H[q] = {}

KeysDistinct ==
  \A m \in Modules : \A i, j \in 1 .. Len(gm[m].hostfuncs) :
    gm[m].hostfuncs[i] = gm[m].hostfuncs[j] => i = j

TableInv == IsTable(Fns, tab) /\ WellFormed(0, tab) /\ Balanced(held, Registered) /\ KeysDistinct

(* An API call under way has its variable for itself, in the state in      *)
(* which the call found it.                                                *)
OpInv ==
  /\ \A g \in Goroutines :
       /\ op[g].pc = "idle" => op[g].h = Nil /\ op[g].m = Nil
       /\ op[g].pc = "create" =>
            op[g].h \in Handles /\ fh[op[g].h].inner = Nil /\ op[g].m = Nil /\
            op[g].fn \in Fns /\ tab.data[op[g].key] = op[g].fn
       /\ op[g].pc = "release_function" =>
            op[g].h \in Handles /\ fh[op[g].h].own /\ op[g].m = Nil /\
            cfunc[fh[op[g].h].inner].in = "deleted"
       /\ op[g].pc = "release_module" =>
            op[g].m \in Modules /\ gm[op[g].m].own /\ op[g].h = Nil
  /\ \A f, g \in Goroutines : f # g =>
       /\ op[f].h = op[g].h => op[f].h = Nil
       /\ op[f].m = op[g].m => op[f].m = Nil

ReleasingH(h) == \E g \in Goroutines : op[g].pc = "release_function" /\ op[g].h = h
ReleasingM(m) == \E g \in Goroutines : op[g].pc = "release_module" /\ op[g].m = m

(* What a Function owns is an instance outside any module, with its key.   *)
HandleInv ==
  \A h \in Handles : fh[h].own =>
    /\ fh[h].inner \in CFuncs
    /\ ~ReleasingH(h) => /\ cfunc[fh[h].inner].in = "loose"
                         /\ cfunc[fh[h].inner].key = fh[h].index

ModuleInv ==
  \A m \in Modules :
    /\ gm[m].inner = "none" => ~gm[m].own /\ gm[m].hostfuncs = <<>>
    /\ gm[m].own => gm[m].inner = "live"

(* An instance that can be called, or is. *)
Alive(f) == cfunc[f].in = "loose" \/ (cfunc[f].in \in Modules /\ ~ReleasingM(cfunc[f].in))

(* The key of an instance is held where the instance is, and stands for    *)
(* the function that the instance was created with.                        *)
InstanceInv ==
  \A f \in CFuncs :
    /\ cfunc[f].in = "loose" => \E h \in Handles : fh[h].own /\ fh[h].inner = f
    /\ cfunc[f].in \in Modules => gm[cfunc[f].in].inner \in {"live", "returned"}
    /\ cfunc[f].in \in Modules /\ ~ReleasingM(cfunc[f].in)
         => cfunc[f].key \in ModuleKeys(gm[cfunc[f].in])
    /\ Alive(f) => cfunc[f].fn \in Fns /\ tab.data[cfunc[f].key] = cfunc[f].fn

(* An instance is not deleted while it is called, in whichever of the      *)
(* frames of a goroutine.                                                  *)
Frames == [pc : {"called", "running"}, f : CFuncs, fn : Fns \cup {Nil}]

FrameOK(x) == Alive(x.f) /\ (x.pc = "running" => x.fn = cfunc[x.f].fn)

FrameInv == \A g \in Goroutines : \A i \in 1 .. Len(frame[g]) : FrameOK(frame[g][i])

IInv ==
  TypeOK /\ TableInv /\ OpInv /\ HandleInv /\ ModuleInv /\ InstanceInv /\ FrameInv

---------------------------------------------------------------------------
(* The ledger. *)

LEMMA LedgerAdd ==
  ASSUME NEW H \in [Places -> SUBSET Nat], NEW R, Balanced(H, R),
         NEW p \in Places, NEW k \in Nat \ R
  PROVE  Balanced([H EXCEPT ![p] = @ \cup {k}], R \cup {k})
<1> DEFINE G == [H EXCEPT ![p] = @ \cup {k}]
<1>1. \A q \in Places : G[q] = IF q = p THEN H[q] \cup {k} ELSE H[q]
  OBVIOUS
<1>2. \A q \in Places : k \notin H[q]
  BY DEF Balanced
<1>3. \A q \in Places : G[q] \subseteq R \cup {k}
  BY <1>1 DEF Balanced
<1>4. \A x \in R \cup {k} : \E q \in Places : x \in G[q]
  BY <1>1 DEF Balanced
<1>5. \A q, r \in Places : q # r => G[q] \cap G[r] = {}
  BY <1>1, <1>2 DEF Balanced
<1> QED BY <1>3, <1>4, <1>5 DEF Balanced

LEMMA LedgerDel ==
  ASSUME NEW H \in [Places -> SUBSET Nat], NEW R, Balanced(H, R),
         NEW p \in Places, NEW k \in H[p]
  PROVE  Balanced([H EXCEPT ![p] = @ \ {k}], R \ {k})
<1> DEFINE G == [H EXCEPT ![p] = @ \ {k}]
<1>1. \A q \in Places : G[q] = IF q = p THEN H[q] \ {k} ELSE H[q]
  OBVIOUS
<1>2. \A q \in Places : q # p => k \notin H[q]
  BY DEF Balanced
<1>3. \A q \in Places : G[q] \subseteq R \ {k}
  BY <1>1, <1>2 DEF Balanced
<1>4. \A x \in R \ {k} : \E q \in Places : x \in G[q]
  BY <1>1 DEF Balanced
<1>5. \A q, r \in Places : q # r => G[q] \cap G[r] = {}
  BY <1>1 DEF Balanced
<1> QED BY <1>3, <1>4, <1>5 DEF Balanced

LEMMA LedgerMove ==
  ASSUME NEW H \in [Places -> SUBSET Nat], NEW R, Balanced(H, R),
         NEW p \in Places, NEW q \in Places, p # q, NEW k \in H[p]
  PROVE  Balanced([H EXCEPT ![p] = @ \ {k}, ![q] = @ \cup {k}], R)
<1>0. k \in Nat /\ k \in R
  BY DEF Balanced
<1> DEFINE G == [H EXCEPT ![p] = @ \ {k}]
<1>1. G \in [Places -> SUBSET Nat] /\ Balanced(G, R \ {k})
  BY LedgerDel
<1>2. Balanced([G EXCEPT ![q] = @ \cup {k}], (R \ {k}) \cup {k})
  <2> HIDE DEF G
  <2> QED BY <1>0, <1>1, LedgerAdd
<1>3. (R \ {k}) \cup {k} = R
  BY <1>0
<1> QED BY <1>2, <1>3

LEMMA PlaceFacts ==
  /\ \A h \in Handles : <<"handle", h>> \in Places
  /\ \A g \in Goroutines : <<"new", g>> \in Places
  /\ \A m \in Modules : <<"module", m>> \in Places
  /\ \A p \in Places : \/ \E h \in Handles : p = <<"handle", h>>
                       \/ \E g \in Goroutines : p = <<"new", g>>
                       \/ \E m \in Modules : p = <<"module", m>>
BY DEF Places

LEMMA HeldMap == held = [p \in Places |-> held[p]]
BY DEF held

LEMMA HeldMapNext == held' = [p \in Places |-> held'[p]]
BY DEF held

LEMMA HeldFacts ==
  /\ \A h \in Handles : held[<<"handle", h>>] = HandleKeys(fh[h])
  /\ \A g \in Goroutines : held[<<"new", g>>] = OpKeys(op[g])
  /\ \A m \in Modules : held[<<"module", m>>] = ModuleKeys(gm[m])
BY PlaceFacts DEF held

LEMMA HeldFactsNext ==
  /\ \A h \in Handles : held'[<<"handle", h>>] = HandleKeys(fh'[h])
  /\ \A g \in Goroutines : held'[<<"new", g>>] = OpKeys(op'[g])
  /\ \A m \in Modules : held'[<<"module", m>>] = ModuleKeys(gm'[m])
BY PlaceFacts DEF held

LEMMA HeldType == TableInv => held \in [Places -> SUBSET Nat]
<1> SUFFICES ASSUME TableInv PROVE held \in [Places -> SUBSET Nat]
  OBVIOUS
<1>1. \A p \in Places : held[p] \in SUBSET Nat
  BY DEF TableInv, Balanced, Registered, IsTable
<1>2. held = [p \in Places |-> held[p]]
  BY HeldMap
<1> QED BY <1>1, <1>2

(* The ledger, read off. *)
LEMMA HeldApart ==
  ASSUME TableInv
  PROVE  /\ \A g \in Handles, h \in Handles : g # h /\ fh[g].own /\ fh[h].own
              => fh[g].index # fh[h].index
         /\ \A h \in Handles, m \in Modules : fh[h].own => fh[h].index \notin ModuleKeys(gm[m])
         /\ \A m \in Modules, n \in Modules : m # n => ModuleKeys(gm[m]) \cap ModuleKeys(gm[n]) = {}
         /\ \A h \in Handles, g \in Goroutines : fh[h].own /\ op[g].pc = "create"
              => fh[h].index # op[g].key
         /\ \A m \in Modules, g \in Goroutines : op[g].pc = "create"
              => op[g].key \notin ModuleKeys(gm[m])
         /\ \A f \in Goroutines, g \in Goroutines : f # g /\ op[f].pc = "create" /\ op[g].pc = "create"
              => op[f].key # op[g].key
<1>1. \A p, q \in Places : p # q => held[p] \cap held[q] = {}
  BY DEF TableInv, Balanced
<1>2. ASSUME NEW g \in Handles, NEW h \in Handles, g # h, fh[g].own, fh[h].own
      PROVE  fh[g].index # fh[h].index
  <2>1. <<"handle", g>> # <<"handle", h>>
    BY <1>2
  <2> QED BY <1>1, <1>2, <2>1, PlaceFacts, HeldFacts DEF HandleKeys
<1>3. ASSUME NEW h \in Handles, NEW m \in Modules, fh[h].own
      PROVE  fh[h].index \notin ModuleKeys(gm[m])
  <2>1. <<"handle", h>> # <<"module", m>>
    OBVIOUS
  <2>2. held[<<"module", m>>] = ModuleKeys(gm[m]) /\ held[<<"handle", h>>] = {fh[h].index}
    BY <1>3, HeldFacts DEF HandleKeys
  <2> QED BY <1>1, <2>1, <2>2, PlaceFacts
<1>4. ASSUME NEW m \in Modules, NEW n \in Modules, m # n
      PROVE  ModuleKeys(gm[m]) \cap ModuleKeys(gm[n]) = {}
  <2>1. <<"module", m>> # <<"module", n>>
    BY <1>4
  <2> QED BY <1>1, <2>1, PlaceFacts, HeldFacts
<1>5. ASSUME NEW h \in Handles, NEW g \in Goroutines, fh[h].own, op[g].pc = "create"
      PROVE  fh[h].index # op[g].key
  <2>1. <<"handle", h>> # <<"new", g>>
    OBVIOUS
  <2> QED BY <1>1, <1>5, <2>1, PlaceFacts, HeldFacts DEF HandleKeys, OpKeys
<1>6. ASSUME NEW m \in Modules, NEW g \in Goroutines, op[g].pc = "create"
      PROVE  op[g].key \notin ModuleKeys(gm[m])
  <2>1. <<"module", m>> # <<"new", g>>
    OBVIOUS
  <2>2. held[<<"module", m>>] = ModuleKeys(gm[m]) /\ held[<<"new", g>>] = {op[g].key}
    BY <1>6, HeldFacts DEF OpKeys
  <2> QED BY <1>1, <2>1, <2>2, PlaceFacts
<1>7. ASSUME NEW f \in Goroutines, NEW g \in Goroutines, f # g,
             op[f].pc = "create", op[g].pc = "create"
      PROVE  op[f].key # op[g].key
  <2>1. <<"new", f>> # <<"new", g>>
    BY <1>7
  <2> QED BY <1>1, <1>7, <2>1, PlaceFacts, HeldFacts DEF OpKeys
<1> QED BY <1>2, <1>3, <1>4, <1>5, <1>6, <1>7

(* Keys that are held are registered. *)
LEMMA HeldRegistered ==
  ASSUME TableInv
  PROVE  /\ \A h \in Handles : fh[h].own => fh[h].index \in Registered
         /\ \A g \in Goroutines : op[g].pc = "create" => op[g].key \in Registered
         /\ \A m \in Modules : ModuleKeys(gm[m]) \subseteq Registered
         /\ Registered \subseteq Nat
<1>1. \A p \in Places : held[p] \subseteq Registered
  BY DEF TableInv, Balanced
<1> QED BY <1>1, PlaceFacts, HeldFacts DEF HandleKeys, OpKeys, TableInv, IsTable, Registered

(* A step that moves no key. *)
LEMMA TableSame ==
  ASSUME TableInv, tab' = tab,
         \A h \in Handles : HandleKeys(fh'[h]) = HandleKeys(fh[h]),
         \A g \in Goroutines : OpKeys(op'[g]) = OpKeys(op[g]),
         \A m \in Modules : gm'[m].hostfuncs = gm[m].hostfuncs
  PROVE  TableInv'
<1>1. held' = held
  <2>1. \A p \in Places : held'[p] = held[p]
    <3>1. \A m \in Modules : ModuleKeys(gm'[m]) = ModuleKeys(gm[m])
      BY DEF ModuleKeys
    <3>2. \A h \in Handles : held'[<<"handle", h>>] = held[<<"handle", h>>]
      BY HeldFacts, HeldFactsNext
    <3>3. \A g \in Goroutines : held'[<<"new", g>>] = held[<<"new", g>>]
      BY HeldFacts, HeldFactsNext
    <3>4. \A m \in Modules : held'[<<"module", m>>] = held[<<"module", m>>]
      BY <3>1, HeldFacts, HeldFactsNext
    <3> QED BY <3>2, <3>3, <3>4, PlaceFacts
  <2> QED BY <2>1, HeldMap, HeldMapNext
<1>2. KeysDistinct'
  BY DEF TableInv, KeysDistinct
<1> QED BY <1>1, <1>2 DEF TableInv, Registered

LEMMA TableAdd ==
  ASSUME TableInv, NEW v \in Fns, tab' = Add(tab, v), NEW p \in Places, KeysDistinct',
         \A q \in Places : held'[q] = IF q = p THEN held[q] \cup {NextKey(tab)} ELSE held[q]
  PROVE  /\ TableInv'
         /\ NextKey(tab) \in Nat \ Registered
         /\ tab'.data[NextKey(tab)] = v
         /\ \A k \in Registered : tab'.data[k] = tab.data[k]
<1>1. IsTable(Fns, tab) /\ WellFormed(0, tab) /\ 0 <= tab.idx /\ 0 \in Nat
  BY DEF TableInv, IsTable
<1>2. PICK k : k = NextKey(tab)
  OBVIOUS
<1>3. /\ k \in Nat \ DOMAIN tab.data
      /\ IsTable(Fns, tab') /\ WellFormed(0, tab')
  BY <1>1, <1>2, AddLemma
<1>4. /\ DOMAIN tab'.data = DOMAIN tab.data \cup {k}
      /\ tab'.data[k] = v
      /\ \A x \in DOMAIN tab.data : tab'.data[x] = tab.data[x]
  BY <1>2, <1>3 DEF Add, Assign
<1>5. held' = [held EXCEPT ![p] = @ \cup {k}]
  BY <1>2, HeldType, HeldMapNext
<1>6. Balanced(held', Registered \cup {k})
  BY <1>3, <1>5, HeldType, LedgerAdd DEF TableInv, Registered
<1>7. Balanced(held, Registered)'
  BY <1>4, <1>6 DEF Registered, Balanced
<1> QED BY <1>2, <1>3, <1>4, <1>7 DEF TableInv, Registered

LEMMA TableDel ==
  ASSUME TableInv, NEW p \in Places, NEW k \in held[p], tab' = Del(tab, k), KeysDistinct',
         \A q \in Places : held'[q] = IF q = p THEN held[q] \ {k} ELSE held[q]
  PROVE  /\ TableInv'
         /\ \A x \in Registered \ {k} : tab'.data[x] = tab.data[x]
<1>1. IsTable(Fns, tab) /\ WellFormed(0, tab) /\ 0 \in Nat /\ k \in DOMAIN tab.data
  BY DEF TableInv, Balanced, Registered
<1>2. IsTable(Fns, tab') /\ WellFormed(0, tab')
  BY <1>1, DelLemma
<1>3. /\ DOMAIN tab'.data = DOMAIN tab.data \ {k}
      /\ \A x \in DOMAIN tab.data \ {k} : tab'.data[x] = tab.data[x]
  BY DEF Del, Delete
<1>4. held' = [held EXCEPT ![p] = @ \ {k}]
  BY HeldType, HeldMapNext
<1>5. Balanced(held', Registered \ {k})
  BY <1>4, HeldType, LedgerDel DEF TableInv
<1>6. Balanced(held, Registered)'
  BY <1>3, <1>5 DEF Registered, Balanced
<1> QED BY <1>2, <1>3, <1>6 DEF TableInv, Registered

LEMMA TableMove ==
  ASSUME TableInv, NEW p \in Places, NEW q \in Places, p # q, NEW k \in held[p], tab' = tab,
         KeysDistinct',
         \A r \in Places : held'[r] = IF r = p THEN held[r] \ {k}
                                      ELSE IF r = q THEN held[r] \cup {k} ELSE held[r]
  PROVE  TableInv'
<1>1. held' = [held EXCEPT ![p] = @ \ {k}, ![q] = @ \cup {k}]
  BY HeldType, HeldMapNext
<1>2. Balanced(held', Registered)
  BY <1>1, HeldType, LedgerMove DEF TableInv
<1> QED BY <1>2 DEF TableInv, Registered, Balanced

(* Lists of keys. *)
LEMMA AppendKeys ==
  ASSUME NEW s \in Seq(Nat), NEW k \in Nat
  PROVE  /\ Append(s, k) \in Seq(Nat)
         /\ ToSet(Append(s, k)) = ToSet(s) \cup {k}
         /\ (\A i, j \in 1 .. Len(s) : s[i] = s[j] => i = j) /\ k \notin ToSet(s)
              => \A i, j \in 1 .. Len(Append(s, k)) : Append(s, k)[i] = Append(s, k)[j] => i = j
<1> DEFINE t == Append(s, k)
           n == Len(s)
<1>1. /\ n \in Nat /\ t \in Seq(Nat) /\ Len(t) = n + 1 /\ t[n + 1] = k
      /\ \A i \in 1 .. n : t[i] = s[i]
      /\ DOMAIN s = 1 .. n
  BY PushLemma, LenProperties
<1>2. DOMAIN t = 1 .. n + 1
  BY <1>1, LenProperties
<1>3. \A i : i \in 1 .. n + 1 <=> i \in 1 .. n \/ i = n + 1
  BY <1>1
<1> HIDE DEF t, n
<1>4. ToSet(t) = ToSet(s) \cup {k}
  BY <1>1, <1>2, <1>3 DEF ToSet
<1>5. ASSUME \A i, j \in 1 .. n : s[i] = s[j] => i = j, k \notin ToSet(s)
      PROVE  \A i, j \in 1 .. Len(t) : t[i] = t[j] => i = j
  <2>1. \A i \in 1 .. n : s[i] # k
    BY <1>1, <1>5 DEF ToSet
  <2> QED BY <1>1, <1>3, <1>5, <2>1
<1> QED BY <1>1, <1>4, <1>5 DEF t, n

LEMMA TailKeys ==
  ASSUME NEW s \in Seq(Nat), s # <<>>, \A i, j \in 1 .. Len(s) : s[i] = s[j] => i = j
  PROVE  /\ Tail(s) \in Seq(Nat) /\ Head(s) \in ToSet(s)
         /\ ToSet(Tail(s)) = ToSet(s) \ {Head(s)}
         /\ \A i, j \in 1 .. Len(Tail(s)) : Tail(s)[i] = Tail(s)[j] => i = j
<1> DEFINE t == Tail(s)
           n == Len(s)
<1>1. /\ n \in Nat /\ n > 0 /\ Head(s) = s[1] /\ DOMAIN s = 1 .. n
      /\ t \in Seq(Nat) /\ Len(t) = n - 1
      /\ \A i \in 1 .. n - 1 : t[i] = s[i + 1]
  BY EmptySeq, LenProperties, HeadTailProperties
<1>2. DOMAIN t = 1 .. n - 1
  BY <1>1, LenProperties
<1> HIDE DEF t, n
<1>3. \A i, j \in 1 .. n - 1 : t[i] = t[j] => i = j
  BY <1>1 DEF n
<1>4. \A x : (\E i \in 1 .. n - 1 : t[i] = x) <=> (\E i \in 1 .. n : s[i] = x) /\ x # s[1]
  <2> SUFFICES ASSUME NEW x
               PROVE  (\E i \in 1 .. n - 1 : t[i] = x) <=> (\E i \in 1 .. n : s[i] = x) /\ x # s[1]
    OBVIOUS
  <2>1. ASSUME NEW i \in 1 .. n - 1, t[i] = x
        PROVE  (\E j \in 1 .. n : s[j] = x) /\ x # s[1]
    <3>1. i + 1 \in 1 .. n /\ 1 \in 1 .. n /\ i + 1 # 1 /\ s[i + 1] = x
      BY <1>1, <2>1
    <3> QED BY <3>1 DEF n
  <2>2. ASSUME NEW i \in 1 .. n, s[i] = x, x # s[1]
        PROVE  \E j \in 1 .. n - 1 : t[j] = x
    <3>1. i - 1 \in 1 .. n - 1 /\ (i - 1) + 1 = i
      BY <1>1, <2>2
    <3>2. t[i - 1] = x
      BY <1>1, <2>2, <3>1
    <3> QED BY <3>1, <3>2
  <2> QED BY <2>1, <2>2
<1>5. ToSet(t) = ToSet(s) \ {Head(s)}
  <2>1. \A x : x \in ToSet(t) <=> \E i \in 1 .. n - 1 : t[i] = x
    BY <1>2 DEF ToSet
  <2>2. \A x : x \in ToSet(s) <=> \E i \in 1 .. n : s[i] = x
    BY <1>1 DEF ToSet
  <2> QED BY <1>1, <1>4, <2>1, <2>2
<1>6. Head(s) \in ToSet(s)
  <2>1. 1 \in DOMAIN s
    BY <1>1
  <2> QED BY <1>1, <2>1 DEF ToSet
<1> QED BY <1>1, <1>3, <1>5, <1>6 DEF t

---------------------------------------------------------------------------

(* The types in the form the lemmas about tables use. *)
LEMMA TypeParts ==
  TypeOK <=>
    /\ IsTable(Fns, tab)
    /\ cfunc \in [CFuncs -> [in : {"none", "loose", "deleted"} \cup Modules,
                             key : Nat, fn : Fns \cup {Nil}]]
    /\ fh \in [Handles -> [inner : CFuncs \cup {Nil}, index : Nat \cup {Nil}, own : BOOLEAN]]
    /\ gm \in [Modules -> [inner : {"none", "live", "returned", "deleted"}, own : BOOLEAN,
                           hostfuncs : Seq(Nat)]]
    /\ op \in [Goroutines -> [pc : {"idle", "create", "release_function", "release_module"},
                              h : Handles \cup {Nil}, m : Modules \cup {Nil},
                              key : Nat, fn : Fns \cup {Nil}]]
    /\ frame \in [Goroutines -> Seq(Frames)]
BY DEF TypeOK, IsTable, Frames

LEMMA InvInit == Init => IInv
<1> SUFFICES ASSUME Init PROVE IInv
  OBVIOUS
<1>1. /\ tab.idx = 0 /\ tab.gc = <<>> /\ DOMAIN tab.data = {}
      /\ <<>> \in Seq(Nat) /\ Len(<<>>) = 0 /\ ToSet(<<>>) = {}
  BY EmptySeq DEF Init, NewTable, EmptyMap, ToSet
<1>2. IsTable(Fns, tab) /\ WellFormed(0, tab)
  BY <1>1 DEF IsTable, WellFormed, RecycledAreFree, KeysAccounted
<1>3. TypeOK
  <2>1. /\ Instance("none", 0, Nil) \in
             [in : {"none", "loose", "deleted"} \cup Modules, key : Nat, fn : Fns \cup {Nil}]
        /\ Cleared(Nil) \in [inner : CFuncs \cup {Nil}, index : Nat \cup {Nil}, own : BOOLEAN]
        /\ NoOp \in [pc : {"idle", "create", "release_function", "release_module"},
                     h : Handles \cup {Nil}, m : Modules \cup {Nil},
                     key : Nat, fn : Fns \cup {Nil}]
        /\ <<>> \in Seq(Frames)
    BY EmptySeq DEF Instance, Cleared, NoOp
  <2>2. gm \in [Modules -> [inner : {"none", "live", "returned", "deleted"}, own : BOOLEAN,
                           hostfuncs : Seq(Nat)]]
    BY <1>1 DEF Init
  <2>3. cfunc = [f \in CFuncs |-> Instance("none", 0, Nil)]
        /\ fh = [h \in Handles |-> Cleared(Nil)] /\ op = [g \in Goroutines |-> NoOp]
        /\ frame = [g \in Goroutines |-> <<>>]
    BY DEF Init
  <2> QED BY <1>2, <2>1, <2>2, <2>3, TypeParts
<1>4. \A p \in Places : held[p] = {}
  <2>1. \A h \in Handles : held[<<"handle", h>>] = {}
    BY HeldFacts DEF Init, Cleared, HandleKeys
  <2>2. \A g \in Goroutines : held[<<"new", g>>] = {}
    BY HeldFacts DEF Init, NoOp, OpKeys
  <2>3. \A m \in Modules : held[<<"module", m>>] = {}
    BY <1>1, HeldFacts DEF Init, ModuleKeys
  <2> QED BY <2>1, <2>2, <2>3, PlaceFacts
<1>5. TableInv
  <2>1. Balanced(held, Registered)
    BY <1>1, <1>4 DEF Balanced, Registered
  <2>2. KeysDistinct
    BY <1>1 DEF Init, KeysDistinct
  <2> QED BY <1>2, <2>1, <2>2 DEF TableInv
<1>6. OpInv
  BY DEF Init, OpInv, NoOp
<1>7. HandleInv /\ ModuleInv
  BY DEF Init, HandleInv, ModuleInv, Cleared
<1>8. InstanceInv
  BY ConstantsAssumption DEF Init, InstanceInv, Alive, Instance
<1>9. FrameInv
  BY <1>1 DEF Init, FrameInv
<1> QED BY <1>3, <1>5, <1>6, <1>7, <1>8, <1>9 DEF IInv

(* An instance that can be called has its key where it is. *)
LEMMA AliveFacts ==
  ASSUME IInv, NEW f \in CFuncs, Alive(f)
  PROVE  /\ cfunc[f].key \in Registered
         /\ tab.data[cfunc[f].key] = cfunc[f].fn /\ cfunc[f].fn \in Fns
         /\ \/ /\ cfunc[f].in = "loose"
               /\ \E h \in Handles : /\ fh[h].own /\ ~ReleasingH(h)
                                     /\ fh[h].inner = f /\ fh[h].index = cfunc[f].key
            \/ /\ cfunc[f].in \in Modules /\ ~ReleasingM(cfunc[f].in)
               /\ cfunc[f].key \in ModuleKeys(gm[cfunc[f].in])
<1> USE DEF IInv
<1>1. tab.data[cfunc[f].key] = cfunc[f].fn /\ cfunc[f].fn \in Fns
  BY DEF InstanceInv
<1>2. CASE cfunc[f].in = "loose"
  <2>1. PICK h \in Handles : fh[h].own /\ fh[h].inner = f
    BY <1>2 DEF InstanceInv
  <2>2. ~ReleasingH(h)
    BY <1>2, <2>1 DEF ReleasingH, OpInv
  <2>3. fh[h].index = cfunc[f].key
    BY <2>1, <2>2 DEF HandleInv
  <2> QED BY <1>1, <1>2, <2>1, <2>2, <2>3, HeldRegistered
<1>3. CASE cfunc[f].in \in Modules /\ ~ReleasingM(cfunc[f].in)
  <2>1. cfunc[f].key \in ModuleKeys(gm[cfunc[f].in])
    BY <1>3 DEF InstanceInv
  <2> QED BY <1>1, <1>3, <2>1, HeldRegistered
<1> QED BY <1>2, <1>3 DEF Alive

---------------------------------------------------------------------------
(* Calls from the C library: they change their frame only. *)

LEMMA FrameOnly ==
  ASSUME IInv, NEW g \in Goroutines, NEW s \in Seq(Frames), UNCHANGED <<tab, cfunc, fh, gm, op>>,
         frame' = [frame EXCEPT ![g] = s],
         \A i \in 1 .. Len(s) : FrameOK(s[i])
  PROVE  IInv'
<1>1. TypeOK'
  BY DEF IInv, TypeOK, Frames
<1>2. TableInv' /\ OpInv' /\ HandleInv' /\ ModuleInv' /\ InstanceInv'
  <2>1. TableInv'
    BY TableSame DEF IInv
  <2> QED BY <2>1 DEF IInv, OpInv, HandleInv, ModuleInv, InstanceInv, Alive, ReleasingH, ReleasingM
<1>3. FrameInv'
  <2>1. \A k \in Goroutines : frame'[k] = IF k = g THEN s ELSE frame[k]
    BY DEF IInv, TypeOK
  <2> QED BY <2>1 DEF IInv, FrameInv, FrameOK, Alive, ReleasingM
<1> QED BY <1>1, <1>2, <1>3 DEF IInv

(* The frames of a goroutine, and those below its innermost one. *)
LEMMA FrameFacts ==
  ASSUME IInv, NEW g \in Goroutines
  PROVE  /\ frame[g] \in Seq(Frames) /\ Len(frame[g]) \in Nat
         /\ DOMAIN frame[g] = 1 .. Len(frame[g])
         /\ \A i \in 1 .. Len(frame[g]) : frame[g][i] \in Frames /\ FrameOK(frame[g][i])
         /\ frame[g] # <<>> =>
              /\ Last(frame[g]) \in Frames /\ FrameOK(Last(frame[g]))
              /\ Front(frame[g]) \in Seq(Frames)
              /\ Len(Front(frame[g])) = Len(frame[g]) - 1
              /\ \A i \in 1 .. Len(Front(frame[g])) : FrameOK(Front(frame[g])[i])
<1>1. frame[g] \in Seq(Frames)
  BY DEF IInv, TypeOK, Frames
<1>2. /\ Len(frame[g]) \in Nat /\ DOMAIN frame[g] = 1 .. Len(frame[g])
      /\ \A i \in 1 .. Len(frame[g]) : frame[g][i] \in Frames /\ FrameOK(frame[g][i])
  BY <1>1, ElementOfSeq, LenProperties DEF IInv, FrameInv
<1>3. ASSUME frame[g] # <<>>
      PROVE  /\ Last(frame[g]) \in Frames /\ FrameOK(Last(frame[g]))
             /\ Front(frame[g]) \in Seq(Frames)
             /\ Len(Front(frame[g])) = Len(frame[g]) - 1
             /\ \A i \in 1 .. Len(Front(frame[g])) : FrameOK(Front(frame[g])[i])
  <2>1. Len(frame[g]) > 0
    BY <1>1, <1>3, EmptySeq, LenProperties
  <2>2. /\ Last(frame[g]) \in Frames /\ Last(frame[g]) = frame[g][Len(frame[g])]
        /\ Front(frame[g]) \in Seq(Frames)
        /\ Len(Front(frame[g])) = Len(frame[g]) - 1
        /\ \A i \in 1 .. Len(frame[g]) - 1 : Front(frame[g])[i] = frame[g][i]
    BY <1>1, <2>1, PopLemma
  <2>3. Len(frame[g]) \in 1 .. Len(frame[g])
        /\ \A i \in 1 .. Len(frame[g]) - 1 : i \in 1 .. Len(frame[g])
    BY <1>2, <2>1
  <2> QED BY <1>2, <2>2, <2>3
<1> QED BY <1>1, <1>2, <1>3

(* A frame is put on top of others. *)
LEMMA PushFrame ==
  ASSUME NEW s \in Seq(Frames), \A i \in 1 .. Len(s) : FrameOK(s[i]),
         NEW x \in Frames, FrameOK(x)
  PROVE  /\ Append(s, x) \in Seq(Frames)
         /\ \A i \in 1 .. Len(Append(s, x)) : FrameOK(Append(s, x)[i])
<1>1. /\ Append(s, x) \in Seq(Frames) /\ Len(Append(s, x)) = Len(s) + 1
      /\ Append(s, x)[Len(s) + 1] = x
      /\ \A i \in 1 .. Len(s) : Append(s, x)[i] = s[i]
  BY PushLemma
<1>2. \A i \in 1 .. Len(s) + 1 : i \in 1 .. Len(s) \/ i = Len(s) + 1
  BY LenProperties
<1> QED BY <1>1, <1>2

LEMMA HostFuncInvokeInv ==
  ASSUME IInv, NEW g \in Goroutines, NEW f \in CFuncs, HostFuncInvoke(g, f)
  PROVE  IInv'
<1>1. PICK x : x = Frame("called", f, Nil)
  OBVIOUS
<1>2. Alive(f)
  BY DEF HostFuncInvoke, Callable, Alive, ReleasingM
<1>3. x \in Frames /\ FrameOK(x)
  BY <1>1, <1>2 DEF Frame, Frames, FrameOK
<1>4. frame' = [frame EXCEPT ![g] = Append(frame[g], x)]
  BY <1>1 DEF HostFuncInvoke
<1>5. /\ Append(frame[g], x) \in Seq(Frames)
      /\ \A i \in 1 .. Len(Append(frame[g], x)) : FrameOK(Append(frame[g], x)[i])
  BY <1>3, FrameFacts, PushFrame
<1> QED BY <1>4, <1>5, FrameOnly DEF HostFuncInvoke

LEMMA HostFuncGetInv ==
  ASSUME IInv, NEW g \in Goroutines, HostFuncGet(g)
  PROVE  IInv'
<1>1. PICK f, fn : f = Last(frame[g]).f /\ fn = Get(tab, cfunc[f].key)
  OBVIOUS
<1>2. PICK x : x = Frame("running", f, fn)
  OBVIOUS
<1>3. f \in CFuncs /\ Alive(f)
  BY <1>1, FrameFacts DEF HostFuncGet, In, Frames, FrameOK
<1>4. fn = cfunc[f].fn /\ fn \in Fns
  BY <1>1, <1>3, AliveFacts DEF Get, Lookup, Registered
<1>5. x \in Frames /\ FrameOK(x)
  BY <1>2, <1>3, <1>4 DEF Frame, Frames, FrameOK
<1>6. frame' = [frame EXCEPT ![g] = Append(Front(frame[g]), x)]
  BY <1>1, <1>2 DEF HostFuncGet, KeyCalled
<1>7. /\ Append(Front(frame[g]), x) \in Seq(Frames)
      /\ \A i \in 1 .. Len(Append(Front(frame[g]), x)) : FrameOK(Append(Front(frame[g]), x)[i])
  BY <1>5, FrameFacts, PushFrame DEF HostFuncGet, In
<1> QED BY <1>6, <1>7, FrameOnly DEF HostFuncGet

LEMMA HostFuncReturnInv ==
  ASSUME IInv, NEW g \in Goroutines, HostFuncReturn(g)
  PROVE  IInv'
<1>1. frame' = [frame EXCEPT ![g] = Front(frame[g])]
  BY DEF HostFuncReturn
<1>2. /\ Front(frame[g]) \in Seq(Frames)
      /\ \A i \in 1 .. Len(Front(frame[g])) : FrameOK(Front(frame[g])[i])
  BY FrameFacts DEF HostFuncReturn, In
<1> QED BY <1>1, <1>2, FrameOnly DEF HostFuncReturn

---------------------------------------------------------------------------
(* Steps that change a Go module, or a Function that owns nothing, only. *)

LEMMA ModuleOnly ==
  ASSUME IInv, NEW m \in Modules, NEW r, UNCHANGED <<tab, cfunc, fh, op, frame>>,
         gm' = [gm EXCEPT ![m] = r],
         r \in [inner : {"live", "returned"}, own : BOOLEAN, hostfuncs : Seq(Nat)],
         r.hostfuncs = gm[m].hostfuncs, gm[m].own => r.own, r.own => r.inner = "live"
  PROVE  IInv'
<1>0. \A n \in Modules : gm'[n] = IF n = m THEN r ELSE gm[n]
  BY DEF IInv, TypeOK
<1>1. TypeOK'
  BY DEF IInv, TypeOK
<1>2. TableInv'
  BY <1>0, TableSame DEF IInv
<1>3. OpInv'
  BY <1>0 DEF IInv, OpInv
<1>4. HandleInv' /\ FrameInv'
  BY FrameFacts DEF IInv, HandleInv, FrameInv, FrameOK, Frames, Alive, ReleasingH, ReleasingM
<1>5. ModuleInv'
  BY <1>0 DEF IInv, ModuleInv
<1>6. InstanceInv'
  <2>1. \A n \in Modules : ModuleKeys(gm'[n]) = ModuleKeys(gm[n])
    BY <1>0 DEF ModuleKeys
  <2> QED BY <1>0, <2>1 DEF IInv, InstanceInv, Alive, ReleasingM
<1> QED BY <1>1, <1>2, <1>3, <1>4, <1>5, <1>6 DEF IInv

LEMMA NewModuleInv ==
  ASSUME IInv, NEW g \in Goroutines, NEW m \in Modules, NewModule(g, m)
  PROVE  IInv'
<1>1. PICK r : r = [inner |-> "live", own |-> TRUE, hostfuncs |-> <<>>]
  OBVIOUS
<1>2. gm[m].hostfuncs = <<>>
  BY DEF IInv, ModuleInv, NewModule
<1>3. <<>> \in Seq(Nat)
  OBVIOUS
<1> QED BY <1>1, <1>2, <1>3, ModuleOnly DEF NewModule

LEMMA BorrowModuleInv ==
  ASSUME IInv, NEW g \in Goroutines, NEW m \in Modules, BorrowModule(g, m)
  PROVE  IInv'
<1>1. PICK r : r = [gm[m] EXCEPT !.inner = "live"]
  OBVIOUS
<1>2. gm[m] \in [inner : {"none", "live", "returned", "deleted"}, own : BOOLEAN,
                 hostfuncs : Seq(Nat)]
  BY DEF IInv, TypeOK
<1>3. gm' = [gm EXCEPT ![m] = r]
  BY <1>1 DEF BorrowModule, IInv, TypeOK
<1> QED BY <1>1, <1>2, <1>3, ModuleOnly DEF BorrowModule

LEMMA HandleOnly ==
  ASSUME IInv, NEW h \in Handles, NEW x, UNCHANGED <<tab, cfunc, gm, op, frame>>,
         FreeH(h), fh' = [fh EXCEPT ![h] = x],
         x \in [inner : CFuncs \cup {Nil}, index : Nat \cup {Nil}, own : {FALSE}],
         ~fh[h].own
  PROVE  IInv'
<1>0. \A k \in Handles : fh'[k] = IF k = h THEN x ELSE fh[k]
  BY DEF IInv, TypeOK
<1>1. TypeOK'
  BY DEF IInv, TypeOK
<1>2. TableInv'
  BY <1>0, TableSame DEF IInv, HandleKeys
<1>3. OpInv'
  <2>1. \A g \in Goroutines : op[g].h # h
    BY DEF FreeH
  <2> QED BY <1>0, <2>1 DEF IInv, OpInv
<1>4. HandleInv'
  <2>1. \A k \in Handles : ReleasingH(k)' = ReleasingH(k)
    BY DEF ReleasingH
  <2>2. ~x.own
    OBVIOUS
  <2> QED BY <1>0, <2>1, <2>2 DEF IInv, HandleInv
<1>5. ModuleInv' /\ FrameInv'
  BY FrameFacts DEF IInv, ModuleInv, FrameInv, FrameOK, Frames, Alive, ReleasingM
<1>6. InstanceInv'
  BY <1>0 DEF IInv, InstanceInv, Alive, ReleasingM
<1> QED BY <1>1, <1>2, <1>3, <1>4, <1>5, <1>6 DEF IInv

LEMMA OwnersHaveInstances ==
  ASSUME IInv, NEW h \in Handles, fh[h].own
  PROVE  fh[h].inner \in CFuncs /\ fh[h].inner # Nil
BY ConstantsAssumption DEF IInv, HandleInv

LEMMA FindFunctionInv ==
  ASSUME IInv, NEW g \in Goroutines, NEW m \in Modules, NEW h \in Handles, NEW f \in CFuncs,
         FindFunction(g, m, h, f)
  PROVE  IInv'
<1>1. ~fh[h].own
  BY OwnersHaveInstances DEF FindFunction
<1>2. PICK x : x = [inner |-> f, index |-> 0, own |-> FALSE]
  OBVIOUS
<1> QED BY <1>1, <1>2, HandleOnly DEF FindFunction

---------------------------------------------------------------------------
(* Releasing a module. *)

(* Its first step: no key moves, and nothing in it is called any more. *)
LEMMA ReleaseModuleInv ==
  ASSUME IInv, NEW g \in Goroutines, NEW m \in Modules, ReleaseModule(g, m)
  PROVE  IInv'
<1>1. CASE ~gm[m].own
  <2>1. PICK r : r = Returned(m)
    OBVIOUS
  <2>2. gm[m] \in [inner : {"none", "live", "returned", "deleted"}, own : BOOLEAN,
                   hostfuncs : Seq(Nat)]
    BY DEF IInv, TypeOK
  <2>3. UNCHANGED <<tab, cfunc, fh, op, frame>> /\ gm' = [gm EXCEPT ![m] = r]
    BY <1>1, <2>1 DEF ReleaseModule, GivesBack
  <2> QED BY <1>1, <2>1, <2>2, <2>3, ModuleOnly DEF Returned
<1>2. CASE gm[m].own
  <2>0. PICK o : o = [NoOp EXCEPT !.pc = "release_module", !.m = m]
    OBVIOUS
  <2>1. /\ UNCHANGED <<tab, cfunc, fh, gm, frame>> /\ op' = [op EXCEPT ![g] = o]
        /\ op[g].pc = "idle" /\ FreeM(m) /\ NoCallInto(InModule(m))
    BY <1>2, <2>0 DEF ReleaseModule, GivesBack, Ready
  <2>2. /\ o \in [pc : {"release_module"}, h : {Nil}, m : {m}, key : Nat, fn : {Nil}]
        /\ o.pc = "release_module" /\ o.h = Nil /\ o.m = m
    BY <2>0 DEF NoOp
  <2>3. \A k \in Goroutines : op'[k] = IF k = g THEN o ELSE op[k]
    BY <2>1 DEF IInv, TypeOK
  <2>4. TypeOK'
    BY <2>1, <2>2 DEF IInv, TypeOK
  <2>5. TableInv'
    BY <2>1, <2>2, <2>3, TableSame DEF IInv, OpKeys
  <2>6. OpInv'
    BY <1>2, <2>1, <2>2, <2>3 DEF IInv, OpInv, FreeM
  <2>7. \A h \in Handles : ReleasingH(h)' = ReleasingH(h)
    BY <2>1, <2>2, <2>3 DEF ReleasingH
  <2>8. \A n \in Modules : ReleasingM(n)' = (ReleasingM(n) \/ n = m)
    BY <2>1, <2>2, <2>3 DEF ReleasingM
  <2>9. HandleInv' /\ ModuleInv'
    BY <2>1, <2>7 DEF IInv, HandleInv, ModuleInv
  <2>10. InstanceInv'
    BY <2>1, <2>8 DEF IInv, InstanceInv, Alive
  <2>11. FrameInv'
    BY <2>1, <2>8, FrameFacts DEF IInv, FrameInv, FrameOK, Frames, Alive, NoCallInto, InModule
  <2> QED BY <2>4, <2>5, <2>6, <2>9, <2>10, <2>11 DEF IInv
<1> QED BY <1>1, <1>2

(* What is in a module is deleted with it. *)
LEMMA DeleteInv ==
  ASSUME IInv, NEW m \in Modules, cfunc' = WithoutModule(m), gm' = [gm EXCEPT ![m] = Deleted(m)],
         UNCHANGED <<tab, fh, frame>>,
         \/ UNCHANGED op /\ ~ReleasingM(m) /\ NoCallInto(InModule(m)) /\ gm[m].inner = "returned"
         \/ \E g \in Goroutines : /\ op[g].pc = "release_module" /\ op[g].m = m
                                  /\ op' = [op EXCEPT ![g] = NoOp]
  PROVE  IInv'
<1>1. \A f \in CFuncs : cfunc'[f] = IF cfunc[f].in = m THEN Instance("deleted", 0, Nil) ELSE cfunc[f]
  BY DEF WithoutModule, InModule
<1>2. /\ \A n \in Modules \ {m} : gm'[n] = gm[n]
      /\ gm'[m].inner = "deleted" /\ ~gm'[m].own /\ gm'[m].hostfuncs = gm[m].hostfuncs
  BY DEF IInv, TypeOK, Deleted
<1>3. /\ op' \in [Goroutines -> [pc : {"idle", "create", "release_function", "release_module"},
                              h : Handles \cup {Nil}, m : Modules \cup {Nil},
                              key : Nat, fn : Fns \cup {Nil}]]
      /\ \A k \in Goroutines :
           \/ op'[k] = op[k] /\ (op[k].pc = "release_module" => op[k].m # m)
           \/ op'[k] = NoOp /\ op[k].pc = "release_module" /\ op[k].m = m
  <2>1. CASE UNCHANGED op /\ ~ReleasingM(m)
    BY <2>1 DEF IInv, TypeOK, ReleasingM
  <2>2. ASSUME NEW g \in Goroutines, op[g].pc = "release_module", op[g].m = m,
               op' = [op EXCEPT ![g] = NoOp]
        PROVE <1>3!:
    <3>1. \A k \in Goroutines \ {g} : op[k].m # m
      BY <2>2, ConstantsAssumption DEF IInv, OpInv
    <3> QED BY <2>2, <3>1 DEF IInv, TypeOK, NoOp
  <2> QED BY <2>1, <2>2
<1>4. NoOp.pc = "idle" /\ NoOp.h = Nil /\ NoOp.m = Nil
  BY DEF NoOp
<1>5. /\ \A h \in Handles : ReleasingH(h)' = ReleasingH(h)
      /\ \A n \in Modules \ {m} : ReleasingM(n)' = ReleasingM(n)
      /\ ~ReleasingM(m)'
  BY <1>3, <1>4 DEF ReleasingH, ReleasingM
<1>6. m \notin {"none", "loose", "deleted"}
  BY ConstantsAssumption
<1>7. TypeOK'
  <2>1. cfunc' \in [CFuncs -> [in : {"none", "loose", "deleted"} \cup Modules,
                               key : Nat, fn : Fns \cup {Nil}]]
    BY DEF IInv, TypeOK, WithoutModule, Instance
  <2>2. gm' \in [Modules -> [inner : {"none", "live", "returned", "deleted"}, own : BOOLEAN,
                             hostfuncs : Seq(Nat)]]
    <3>1. gm[m] \in [inner : {"none", "live", "returned", "deleted"}, own : BOOLEAN,
                     hostfuncs : Seq(Nat)]
      BY DEF IInv, TypeOK
    <3>2. Deleted(m) \in [inner : {"none", "live", "returned", "deleted"}, own : BOOLEAN,
                          hostfuncs : Seq(Nat)]
      BY <3>1 DEF Deleted
    <3> QED BY <3>2 DEF IInv, TypeOK
  <2> QED BY <1>3, <2>1, <2>2 DEF IInv, TypeOK
<1>8. TableInv'
  <2>1. \A k \in Goroutines : OpKeys(op'[k]) = OpKeys(op[k])
    BY <1>3, <1>4 DEF OpKeys
  <2>2. \A n \in Modules : gm'[n].hostfuncs = gm[n].hostfuncs
    BY <1>2
  <2> QED BY <2>1, <2>2, TableSame DEF IInv
<1>9. OpInv'
  <2>1. \A k \in Goroutines : op'[k].pc = "release_module" => gm'[op[k].m].own /\ op'[k] = op[k]
    BY <1>2, <1>3, <1>4 DEF IInv, OpInv
  <2>2. \A f \in CFuncs : cfunc[f].in = "deleted" => cfunc'[f].in = "deleted"
    BY <1>1, <1>6 DEF Instance
  <2>3. \A h \in Handles : fh[h].own => fh[h].inner \in CFuncs
    BY DEF IInv, HandleInv
  <2> QED BY <1>3, <1>4, <2>1, <2>2, <2>3 DEF IInv, OpInv
<1>10. HandleInv'
  BY <1>1, <1>5, <1>6 DEF IInv, HandleInv
<1>11. ModuleInv'
  BY <1>2 DEF IInv, ModuleInv
<1>12. \A f \in CFuncs : cfunc'[f].in # m
  BY <1>1, <1>6 DEF Instance
<1>13. InstanceInv'
  <2>1. \A n \in Modules \ {m} : ModuleKeys(gm'[n]) = ModuleKeys(gm[n])
    BY <1>2 DEF ModuleKeys
  <2> QED BY <1>1, <1>2, <1>5, <1>12, <2>1, ConstantsAssumption DEF IInv, InstanceInv, Alive, Instance
<1>14. FrameInv'
  <2>1. \A g \in Goroutines : \A i \in 1 .. Len(frame[g]) : cfunc[frame[g][i].f].in # m
    <3>1. CASE NoCallInto(InModule(m))
      BY <3>1, FrameFacts DEF Frames, NoCallInto, InModule
    <3>2. CASE ReleasingM(m)
      <4>1. \A f : Alive(f) => cfunc[f].in # m
        BY <1>6, <3>2 DEF Alive
      <4> QED BY <4>1, FrameFacts DEF FrameOK
    <3> QED BY <3>1, <3>2 DEF ReleasingM
  <2> QED BY <1>1, <1>5, <2>1, FrameFacts DEF IInv, FrameInv, FrameOK, Frames, Alive
<1> QED BY <1>7, <1>8, <1>9, <1>10, <1>11, <1>13, <1>14 DEF IInv

LEMMA ReleaseModuleDeleteInv ==
  ASSUME IInv, NEW g \in Goroutines, ReleaseModuleDelete(g)
  PROVE  IInv'
<1>1. PICK m : m = op[g].m
  OBVIOUS
<1>2. m \in Modules /\ gm[m].own
  BY <1>1 DEF IInv, OpInv, ReleaseModuleDelete
<1> QED BY <1>1, <1>2, DeleteInv DEF ReleaseModuleDelete

LEMMA VMDeletesModuleInv ==
  ASSUME IInv, NEW g \in Goroutines, NEW m \in Modules, VMDeletesModule(g, m)
  PROVE  IInv'
<1>1. ~ReleasingM(m)
  BY DEF IInv, OpInv, ModuleInv, ReleasingM, VMDeletesModule
<1> QED BY <1>1, DeleteInv DEF VMDeletesModule

(* What a change of the keys of a module leaves alone. *)
LEMMA SetKeys ==
  ASSUME IInv, NEW m \in Modules, NEW s \in Seq(Nat), gm' = [gm EXCEPT ![m].hostfuncs = s]
  PROVE  /\ gm' \in [Modules -> [inner : {"none", "live", "returned", "deleted"}, own : BOOLEAN,
                                 hostfuncs : Seq(Nat)]]
         /\ \A n \in Modules : /\ gm'[n].inner = gm[n].inner
                               /\ gm'[n].own = gm[n].own
                               /\ gm'[n].hostfuncs = IF n = m THEN s ELSE gm[n].hostfuncs
<1>1. gm \in [Modules -> [inner : {"none", "live", "returned", "deleted"}, own : BOOLEAN,
                          hostfuncs : Seq(Nat)]]
  BY DEF IInv, TypeOK
<1> QED BY <1>1

(* A key of the module is given back: nothing that can still be called has *)
(* this key.                                                               *)
LEMMA ReleaseModuleKeyInv ==
  ASSUME IInv, NEW g \in Goroutines, ReleaseModuleKey(g)
  PROVE  IInv'
<1>0. PICK m : m = op[g].m
  OBVIOUS
<1>1. PICK s : s = gm[m].hostfuncs
  OBVIOUS
<1>2. PICK k : k = Head(s)
  OBVIOUS
<1>3. /\ m \in Modules /\ gm[m].own /\ op[g].pc = "release_module" /\ s # <<>>
      /\ tab' = Del(tab, k) /\ gm' = [gm EXCEPT ![m].hostfuncs = Tail(s)]
      /\ UNCHANGED <<cfunc, fh, op, frame>>
  BY <1>0, <1>1, <1>2 DEF ReleaseModuleKey, IInv, TypeOK, OpInv
<1>4. s \in Seq(Nat) /\ \A i, j \in 1 .. Len(s) : s[i] = s[j] => i = j
  BY <1>1, <1>3 DEF IInv, TypeOK, TableInv, KeysDistinct
<1>5. /\ Tail(s) \in Seq(Nat) /\ k \in ToSet(s) /\ ToSet(Tail(s)) = ToSet(s) \ {k}
      /\ \A i, j \in 1 .. Len(Tail(s)) : Tail(s)[i] = Tail(s)[j] => i = j
  BY <1>2, <1>3, <1>4, TailKeys
<1>6. \A n \in Modules : /\ gm'[n].inner = gm[n].inner
                        /\ gm'[n].own = gm[n].own
                        /\ gm'[n].hostfuncs = IF n = m THEN Tail(s) ELSE gm[n].hostfuncs
  BY <1>3, <1>5, SetKeys
<1>7. TableInv' /\ \A x \in Registered \ {k} : tab'.data[x] = tab.data[x]
  <2>1. KeysDistinct'
    BY <1>5, <1>6 DEF IInv, TableInv, KeysDistinct
  <2>2. \A q \in Places :
          held'[q] = IF q = <<"module", m>> THEN held[q] \ {k} ELSE held[q]
    <3>1. \A h \in Handles : held'[<<"handle", h>>] = held[<<"handle", h>>]
      BY <1>3, HeldFacts, HeldFactsNext
    <3>2. \A f \in Goroutines : held'[<<"new", f>>] = held[<<"new", f>>]
      BY <1>3, HeldFacts, HeldFactsNext
    <3>3. \A n \in Modules \ {m} : held'[<<"module", n>>] = held[<<"module", n>>]
      BY <1>6, HeldFacts, HeldFactsNext DEF ModuleKeys
    <3>4. held'[<<"module", m>>] = held[<<"module", m>>] \ {k}
      BY <1>1, <1>3, <1>5, <1>6, HeldFacts, HeldFactsNext DEF ModuleKeys
    <3> QED BY <3>1, <3>2, <3>3, <3>4, PlaceFacts
  <2>3. <<"module", m>> \in Places /\ k \in held[<<"module", m>>]
    BY <1>1, <1>3, <1>5, PlaceFacts, HeldFacts DEF ModuleKeys
  <2> QED BY <1>3, <2>1, <2>2, <2>3, TableDel DEF IInv
<1>8. k \in ModuleKeys(gm[m]) /\ TableInv
  BY <1>1, <1>5 DEF ModuleKeys, IInv
<1>9. TypeOK'
  <2>1. IsTable(Fns, tab')
    BY <1>7 DEF TableInv
  <2>2. gm' \in [Modules -> [inner : {"none", "live", "returned", "deleted"}, own : BOOLEAN,
                             hostfuncs : Seq(Nat)]]
    BY <1>3, <1>5, SetKeys
  <2> QED BY <1>3, <2>1, <2>2 DEF IInv, TypeOK, IsTable
<1>10. OpInv'
  <2>1. \A f \in Goroutines : op[f].pc = "create" => tab'.data[op[f].key] = tab.data[op[f].key]
    BY <1>3, <1>7, <1>8, HeldApart, HeldRegistered
  <2>2. \A n \in Modules : gm'[n].own = gm[n].own
    BY <1>6
  <2> QED BY <1>3, <2>1, <2>2 DEF IInv, OpInv
<1>11. (\A h \in Handles : ReleasingH(h)' = ReleasingH(h))
       /\ (\A n \in Modules : ReleasingM(n)' = ReleasingM(n)) /\ ReleasingM(m)
  BY <1>0, <1>3 DEF ReleasingH, ReleasingM
<1>12. HandleInv'
  BY <1>3, <1>11 DEF IInv, HandleInv
<1>13. ModuleInv'
  BY <1>3, <1>6 DEF IInv, ModuleInv
<1>14. ASSUME NEW f \in CFuncs, Alive(f)
       PROVE  cfunc[f].in # m /\ tab'.data[cfunc[f].key] = tab.data[cfunc[f].key]
  <2>1. cfunc[f].in # m
    BY <1>3, <1>11, <1>14, ConstantsAssumption DEF Alive
  <2>2. cfunc[f].key # k
    <3>1. CASE \E h \in Handles : fh[h].own /\ fh[h].index = cfunc[f].key
      BY <1>3, <1>8, <3>1, HeldApart
    <3>2. CASE cfunc[f].in \in Modules /\ cfunc[f].key \in ModuleKeys(gm[cfunc[f].in])
      <4>1. ModuleKeys(gm[cfunc[f].in]) \cap ModuleKeys(gm[m]) = {}
        BY <1>3, <1>8, <2>1, <3>2, HeldApart
      <4> QED BY <1>8, <3>2, <4>1
    <3> QED BY <1>14, <3>1, <3>2, AliveFacts
  <2> QED BY <1>7, <1>14, <2>1, <2>2, AliveFacts
<1>15. InstanceInv'
  <2>1. \A n \in Modules \ {m} : ModuleKeys(gm'[n]) = ModuleKeys(gm[n])
    BY <1>6 DEF ModuleKeys
  <2>2. \A f \in CFuncs : Alive(f)' = Alive(f)
    BY <1>3, <1>11 DEF Alive
  <2> QED BY <1>3, <1>6, <1>11, <1>14, <2>1, <2>2 DEF IInv, InstanceInv
<1>16. FrameInv'
  BY <1>3, <1>11, FrameFacts DEF IInv, FrameInv, FrameOK, Frames, Alive
<1> QED BY <1>7, <1>9, <1>10, <1>12, <1>13, <1>15, <1>16 DEF IInv

---------------------------------------------------------------------------
(* Moving a function into a module: its key moves with it. *)

LEMMA AddFunctionInv ==
  ASSUME Careful, IInv, NEW g \in Goroutines, NEW m \in Modules, NEW h \in Handles,
         AddFunction(g, m, h)
  PROVE  IInv'
<1>1. PICK f, k, s : f = fh[h].inner /\ k = fh[h].index /\ s = gm[m].hostfuncs
  OBVIOUS
<1>2. /\ fh[h].own /\ FreeH(h) /\ FreeM(m) /\ gm[m].inner = "live"
      /\ f \in CFuncs /\ f # Nil
  BY <1>1, OwnersHaveInstances DEF AddFunction, Careful, MayAdd
<1>3. ~ReleasingH(h) /\ ~ReleasingM(m) /\ cfunc[f].in = "loose" /\ cfunc[f].key = k
  BY <1>1, <1>2 DEF FreeH, FreeM, ReleasingH, ReleasingM, IInv, HandleInv
<1>4. /\ cfunc' = [cfunc EXCEPT ![f].in = m]
      /\ gm' = [gm EXCEPT ![m].hostfuncs = Append(s, k)]
      /\ fh' = [fh EXCEPT ![h] = Cleared(k)]
      /\ UNCHANGED <<tab, op, frame>>
  BY <1>1, <1>2 DEF AddFunction, Taken, Consume
<1>5. /\ k \in Nat /\ k \in Registered /\ k \notin ToSet(s) /\ s \in Seq(Nat)
      /\ \A i, j \in 1 .. Len(s) : s[i] = s[j] => i = j
  BY <1>1, <1>2, HeldRegistered, HeldApart DEF IInv, TableInv, KeysDistinct, ModuleKeys, TypeOK
<1>6. /\ Append(s, k) \in Seq(Nat) /\ ToSet(Append(s, k)) = ToSet(s) \cup {k}
      /\ \A i, j \in 1 .. Len(Append(s, k)) : Append(s, k)[i] = Append(s, k)[j] => i = j
  BY <1>5, AppendKeys
<1>g. \A n \in Modules :
        /\ gm'[n].inner = gm[n].inner
        /\ gm'[n].own = gm[n].own
        /\ gm'[n].hostfuncs = IF n = m THEN Append(s, k) ELSE gm[n].hostfuncs
  BY <1>4, <1>6, SetKeys
<1>7. /\ \A x \in Handles \ {h} : fh'[x] = fh[x]
      /\ fh'[h].inner = Nil /\ ~fh'[h].own
      /\ \A x \in CFuncs \ {f} : cfunc'[x] = cfunc[x]
      /\ cfunc'[f].in = m /\ cfunc'[f].key = k /\ cfunc'[f].fn = cfunc[f].fn
  BY <1>2, <1>3, <1>4 DEF IInv, TypeOK, Cleared
<1>8. TableInv'
  <2>1. KeysDistinct'
    BY <1>6, <1>g DEF IInv, TableInv, KeysDistinct
  <2>2. \A r \in Places :
          held'[r] = IF r = <<"handle", h>> THEN held[r] \ {k}
                     ELSE IF r = <<"module", m>> THEN held[r] \cup {k} ELSE held[r]
    <3>1. \A x \in Handles \ {h} : held'[<<"handle", x>>] = held[<<"handle", x>>]
      <4>1. \A x \in Handles \ {h} : HandleKeys(fh'[x]) = HandleKeys(fh[x])
        BY <1>7 DEF HandleKeys
      <4> QED BY <4>1, HeldFacts, HeldFactsNext
    <3>2. \A x \in Goroutines : held'[<<"new", x>>] = held[<<"new", x>>]
      BY <1>4, HeldFacts, HeldFactsNext
    <3>3. \A n \in Modules \ {m} : held'[<<"module", n>>] = held[<<"module", n>>]
      BY <1>g, HeldFacts, HeldFactsNext DEF ModuleKeys
    <3>4. held'[<<"module", m>>] = held[<<"module", m>>] \cup {k}
      BY <1>1, <1>6, <1>g, HeldFacts, HeldFactsNext DEF ModuleKeys
    <3>5. held'[<<"handle", h>>] = {} /\ held[<<"handle", h>>] = {k}
      BY <1>1, <1>2, <1>7, HeldFacts, HeldFactsNext DEF HandleKeys
    <3> QED BY <3>1, <3>2, <3>3, <3>4, <3>5, PlaceFacts
  <2>3. /\ <<"handle", h>> \in Places /\ <<"module", m>> \in Places
        /\ <<"handle", h>> # <<"module", m>> /\ k \in held[<<"handle", h>>]
    BY <1>1, <1>2, PlaceFacts, HeldFacts DEF HandleKeys
  <2> QED BY <1>4, <2>1, <2>2, <2>3, TableMove DEF IInv
<1>9. TypeOK'
  <2>1. gm' \in [Modules -> [inner : {"none", "live", "returned", "deleted"}, own : BOOLEAN,
                             hostfuncs : Seq(Nat)]]
    BY <1>4, <1>6, SetKeys
  <2>2. cfunc' \in [CFuncs -> [in : {"none", "loose", "deleted"} \cup Modules,
                               key : Nat, fn : Fns \cup {Nil}]]
    <3>1. cfunc \in [CFuncs -> [in : {"none", "loose", "deleted"} \cup Modules,
                                key : Nat, fn : Fns \cup {Nil}]]
      BY DEF IInv, TypeOK
    <3> QED BY <1>4, <3>1
  <2>3. fh' \in [Handles -> [inner : CFuncs \cup {Nil}, index : Nat \cup {Nil}, own : BOOLEAN]]
    BY <1>4, <1>5 DEF IInv, TypeOK, Cleared
  <2> QED BY <1>4, <2>1, <2>2, <2>3 DEF IInv, TypeOK
<1>10. (\A x \in Handles : ReleasingH(x)' = ReleasingH(x))
       /\ (\A n \in Modules : ReleasingM(n)' = ReleasingM(n))
  BY <1>4 DEF ReleasingH, ReleasingM
<1>11. OpInv'
  <2>1. \A x \in Goroutines : op[x].h # h
    BY <1>2 DEF FreeH
  <2>2. \A n \in Modules : gm'[n].own = gm[n].own
    BY <1>g
  <2>3. \A x \in CFuncs : cfunc[x].in = "deleted" => cfunc'[x].in = "deleted"
    BY <1>3, <1>7
  <2>4. \A x \in Handles : fh[x].own => fh[x].inner \in CFuncs
    BY DEF IInv, HandleInv
  <2> QED BY <1>4, <1>7, <2>1, <2>2, <2>3, <2>4 DEF IInv, OpInv
<1>12. HandleInv'
  <2> SUFFICES ASSUME NEW x \in Handles, fh'[x].own
               PROVE  /\ fh'[x].inner \in CFuncs
                      /\ ~ReleasingH(x)' => /\ cfunc'[fh'[x].inner].in = "loose"
                                            /\ cfunc'[fh'[x].inner].key = fh'[x].index
    BY DEF HandleInv
  <2>1. x # h /\ fh'[x] = fh[x] /\ fh[x].own
    BY <1>7
  <2>2. fh[x].index # k
    BY <1>1, <1>2, <2>1, HeldApart DEF IInv
  <2>3. ~ReleasingH(x) => fh[x].inner # f
    BY <1>3, <2>1, <2>2 DEF IInv, HandleInv
  <2> QED BY <1>7, <1>10, <2>1, <2>3 DEF IInv, HandleInv
<1>13. ModuleInv'
  BY <1>2, <1>g DEF IInv, ModuleInv
<1>14. \A x \in CFuncs : Alive(x)' = Alive(x)
  BY <1>3, <1>7, <1>10 DEF Alive
<1>15. InstanceInv'
  <2>1. ASSUME NEW x \in CFuncs, x # f PROVE
           cfunc[x].in = "loose" => \E y \in Handles : fh'[y].own /\ fh'[y].inner = x
    BY <1>1, <1>7, <2>1 DEF IInv, InstanceInv
  <2>2. \A n \in Modules : ModuleKeys(gm[n]) \subseteq ModuleKeys(gm'[n])
    BY <1>1, <1>6, <1>g DEF ModuleKeys
  <2>3. k \in ModuleKeys(gm'[m])
    BY <1>6, <1>g DEF ModuleKeys
  <2>4. Alive(f) /\ m \notin {"none", "loose", "deleted"}
    BY <1>3, ConstantsAssumption DEF Alive
  <2>5. \A n \in Modules : gm'[n].inner = gm[n].inner
    BY <1>g
  <2>6. ASSUME NEW x \in CFuncs
        PROVE  /\ cfunc'[x].in = "loose" => \E y \in Handles : fh'[y].own /\ fh'[y].inner = x
               /\ cfunc'[x].in \in Modules => gm'[cfunc'[x].in].inner \in {"live", "returned"}
               /\ (/\ cfunc'[x].in \in Modules
                   /\ ~(\E y \in Goroutines : op[y].pc = "release_module" /\ op[y].m = cfunc'[x].in))
                    => cfunc'[x].key \in ModuleKeys(gm'[cfunc'[x].in])
               /\ Alive(x) => cfunc'[x].fn \in Fns /\ tab'.data[cfunc'[x].key] = cfunc'[x].fn
    <3>1. CASE x = f
      <4>1. cfunc[f].fn \in Fns /\ tab.data[k] = cfunc[f].fn
        BY <1>2, <1>3, <2>4 DEF IInv, InstanceInv
      <4>2. /\ cfunc'[x].in = m /\ cfunc'[x].key = k /\ cfunc'[x].fn = cfunc[f].fn
            /\ m # "loose" /\ tab' = tab /\ gm'[m].inner = "live"
        BY <1>2, <1>4, <1>7, <2>4, <2>5, <3>1
      <4> QED BY <2>3, <4>1, <4>2
    <3>2. CASE x # f
      <4>1. cfunc'[x] = cfunc[x]
        BY <1>7, <3>2
      <4>2. /\ cfunc[x].in \in Modules => gm[cfunc[x].in].inner \in {"live", "returned"}
            /\ cfunc[x].in \in Modules /\ ~ReleasingM(cfunc[x].in)
                 => cfunc[x].key \in ModuleKeys(gm[cfunc[x].in])
            /\ Alive(x) => cfunc[x].fn \in Fns /\ tab.data[cfunc[x].key] = cfunc[x].fn
        BY DEF IInv, InstanceInv
      <4>3. tab' = tab
        BY <1>4
      <4>4. ReleasingM(cfunc[x].in)
              <=> \E y \in Goroutines : op[y].pc = "release_module" /\ op[y].m = cfunc[x].in
        BY DEF ReleasingM
      <4>5. cfunc[x].in = "loose" => \E y \in Handles : fh'[y].own /\ fh'[y].inner = x
        BY <2>1, <3>2
      <4>6. cfunc[x].in \in Modules =>
              /\ gm'[cfunc[x].in].inner = gm[cfunc[x].in].inner
              /\ ModuleKeys(gm[cfunc[x].in]) \subseteq ModuleKeys(gm'[cfunc[x].in])
        BY <2>2, <2>5
      <4> QED BY <4>1, <4>2, <4>3, <4>4, <4>5, <4>6
    <3> QED BY <3>1, <3>2
  <2> QED BY <1>14, <2>6, <1>4 DEF InstanceInv, ReleasingM
<1>16. FrameInv'
  <2>1. \A x \in CFuncs : cfunc'[x].fn = cfunc[x].fn
    BY <1>7
  <2> QED BY <1>4, <1>14, <2>1, FrameFacts DEF IInv, FrameInv, FrameOK, Frames
<1> QED BY <1>8, <1>9, <1>11, <1>12, <1>13, <1>15, <1>16 DEF IInv

---------------------------------------------------------------------------
(* Creating and releasing a function. *)

(* What a change of a call leaves alone. *)
LEMMA SetOp ==
  ASSUME IInv, NEW g \in Goroutines, NEW o, op' = [op EXCEPT ![g] = o],
         o \in [pc : {"idle", "create", "release_function", "release_module"},
                h : Handles \cup {Nil}, m : Modules \cup {Nil}, key : Nat, fn : Fns \cup {Nil}],
         op[g].pc # "release_module", o.pc # "release_module"
  PROVE  /\ op' \in [Goroutines -> [pc : {"idle", "create", "release_function", "release_module"},
                                    h : Handles \cup {Nil}, m : Modules \cup {Nil},
                                    key : Nat, fn : Fns \cup {Nil}]]
         /\ \A k \in Goroutines : op'[k] = IF k = g THEN o ELSE op[k]
         /\ \A m \in Modules : ReleasingM(m)' = ReleasingM(m)
<1>1. op \in [Goroutines -> [pc : {"idle", "create", "release_function", "release_module"},
                             h : Handles \cup {Nil}, m : Modules \cup {Nil},
                             key : Nat, fn : Fns \cup {Nil}]]
  BY DEF IInv, TypeOK
<1>2. \A k \in Goroutines : op'[k] = IF k = g THEN o ELSE op[k]
  BY <1>1
<1>3. \A m \in Modules : ReleasingM(m)' = ReleasingM(m)
  BY <1>2 DEF ReleasingM
<1> QED BY <1>1, <1>2, <1>3

(* A call of g begins, on h: nobody else is in a call on h. *)
LEMMA BeginOp ==
  ASSUME IInv, NEW g \in Goroutines, NEW h \in Handles, FreeH(h), op[g].pc = "idle",
         NEW o, o.h = h, o.m = Nil,
         \A k \in Goroutines : op'[k] = IF k = g THEN o ELSE op[k]
  PROVE  \A f, k \in Goroutines : f # k =>
           /\ op'[f].h = op'[k].h => op'[f].h = Nil
           /\ op'[f].m = op'[k].m => op'[f].m = Nil
BY DEF IInv, OpInv, FreeH

(* A call of g ends. *)
LEMMA EndOp ==
  ASSUME IInv, NEW g \in Goroutines, \A k \in Goroutines : op'[k] = IF k = g THEN NoOp ELSE op[k]
  PROVE  \A f, k \in Goroutines : f # k =>
           /\ op'[f].h = op'[k].h => op'[f].h = Nil
           /\ op'[f].m = op'[k].m => op'[f].m = Nil
BY DEF IInv, OpInv, NoOp

LEMMA NewFunctionInv ==
  ASSUME IInv, NEW g \in Goroutines, NEW h \in Handles, NEW fn \in Fns, NewFunction(g, h, fn)
  PROVE  IInv'
<1>1. PICK k : k = NextKey(tab)
  OBVIOUS
<1>2. PICK o : o = [NoOp EXCEPT !.pc = "create", !.h = h, !.key = k, !.fn = fn]
  OBVIOUS
<1>3. /\ op[g].pc = "idle" /\ FreeH(h) /\ fh[h].inner = Nil
      /\ tab' = Add(tab, fn) /\ op' = [op EXCEPT ![g] = o]
      /\ cfunc' = cfunc /\ fh' = fh /\ gm' = gm /\ frame' = frame
  BY <1>1, <1>2 DEF NewFunction, Ready
<1>4. k \in Nat
  <2>1. IsTable(Fns, tab) /\ WellFormed(0, tab) /\ 0 <= tab.idx /\ 0 \in Nat
    BY DEF IInv, TableInv, IsTable
  <2> QED BY <1>1, <2>1, AddLemma
<1>5. /\ o \in [pc : {"create"}, h : Handles, m : {Nil}, key : Nat, fn : Fns]
      /\ o.pc = "create" /\ o.h = h /\ o.m = Nil /\ o.key = k /\ o.fn = fn
  BY <1>2, <1>4 DEF NoOp
<1>6. /\ op' \in [Goroutines -> [pc : {"idle", "create", "release_function", "release_module"},
                                 h : Handles \cup {Nil}, m : Modules \cup {Nil},
                                 key : Nat, fn : Fns \cup {Nil}]]
      /\ \A x \in Goroutines : op'[x] = IF x = g THEN o ELSE op[x]
      /\ \A m \in Modules : ReleasingM(m)' = ReleasingM(m)
  <2>1. o \in [pc : {"idle", "create", "release_function", "release_module"},
               h : Handles \cup {Nil}, m : Modules \cup {Nil}, key : Nat, fn : Fns \cup {Nil}]
    BY <1>5
  <2> QED BY <1>3, <1>5, <2>1, SetOp
<1>7. /\ TableInv' /\ k \in Nat \ Registered /\ tab'.data[k] = fn
      /\ \A x \in Registered : tab'.data[x] = tab.data[x]
  <2>1. KeysDistinct'
    BY <1>3 DEF IInv, TableInv, KeysDistinct
  <2>2. \A q \in Places : held'[q] = IF q = <<"new", g>> THEN held[q] \cup {k} ELSE held[q]
    <3>1. \A x \in Handles : held'[<<"handle", x>>] = held[<<"handle", x>>]
      BY <1>3, HeldFacts, HeldFactsNext
    <3>2. \A m \in Modules : held'[<<"module", m>>] = held[<<"module", m>>]
      BY <1>3, HeldFacts, HeldFactsNext
    <3>3. \A x \in Goroutines \ {g} : held'[<<"new", x>>] = held[<<"new", x>>]
      <4>1. \A x \in Goroutines \ {g} : OpKeys(op'[x]) = OpKeys(op[x])
        BY <1>6
      <4> QED BY <4>1, HeldFacts, HeldFactsNext
    <3>4. held'[<<"new", g>>] = {k} /\ held[<<"new", g>>] = {}
      BY <1>3, <1>5, <1>6, HeldFacts, HeldFactsNext DEF OpKeys
    <3> QED BY <3>1, <3>2, <3>3, <3>4, PlaceFacts
  <2>3. <<"new", g>> \in Places
    BY PlaceFacts
  <2> QED BY <1>1, <1>3, <2>1, <2>2, <2>3, TableAdd DEF IInv
<1>8. TypeOK'
  <2>1. IsTable(Fns, tab')
    BY <1>7 DEF TableInv
  <2> QED BY <1>3, <1>6, <2>1 DEF IInv, TypeOK, IsTable
<1>9. OpInv'
  <2>1. \A x \in Goroutines : op[x].pc = "create" => tab'.data[op[x].key] = tab.data[op[x].key]
    BY <1>7, HeldRegistered DEF IInv
  <2>2. \A x, y \in Goroutines : x # y =>
           /\ op'[x].h = op'[y].h => op'[x].h = Nil
           /\ op'[x].m = op'[y].m => op'[x].m = Nil
    BY <1>3, <1>5, <1>6, BeginOp
  <2>3. ASSUME NEW x \in Goroutines
        PROVE  /\ op'[x].pc = "idle" => op'[x].h = Nil /\ op'[x].m = Nil
               /\ op'[x].pc = "create" =>
                    op'[x].h \in Handles /\ fh[op'[x].h].inner = Nil /\ op'[x].m = Nil /\
                    op'[x].fn \in Fns /\ tab'.data[op'[x].key] = op'[x].fn
               /\ op'[x].pc = "release_function" =>
                    op'[x].h \in Handles /\ fh[op'[x].h].own /\ op'[x].m = Nil /\
                    cfunc[fh[op'[x].h].inner].in = "deleted"
               /\ op'[x].pc = "release_module" =>
                    op'[x].m \in Modules /\ gm[op'[x].m].own /\ op'[x].h = Nil
    <3>1. CASE x = g
      BY <1>3, <1>5, <1>6, <1>7, <3>1
    <3>2. CASE x # g
      <4>1. op'[x] = op[x]
        BY <1>6, <3>2
      <4> QED BY <2>1, <4>1 DEF IInv, OpInv
    <3> QED BY <3>1, <3>2
  <2> QED BY <1>3, <2>2, <2>3 DEF OpInv
<1>10. \A x \in Handles : ReleasingH(x)' = ReleasingH(x)
  BY <1>3, <1>5, <1>6 DEF ReleasingH
<1>11. HandleInv' /\ ModuleInv'
  BY <1>3, <1>10 DEF IInv, HandleInv, ModuleInv
<1>12. \A f \in CFuncs : Alive(f)' = Alive(f)
  BY <1>3, <1>6 DEF Alive
<1>13. InstanceInv'
  <2>1. \A f \in CFuncs : Alive(f) => tab'.data[cfunc[f].key] = tab.data[cfunc[f].key]
    BY <1>7, AliveFacts
  <2> QED BY <1>3, <1>6, <1>12, <2>1 DEF IInv, InstanceInv
<1>14. FrameInv'
  BY <1>3, <1>12, FrameFacts DEF IInv, FrameInv, FrameOK, Frames
<1> QED BY <1>7, <1>8, <1>9, <1>11, <1>13, <1>14 DEF IInv

LEMMA NoOpFacts ==
  /\ NoOp \in [pc : {"idle", "create", "release_function", "release_module"},
               h : Handles \cup {Nil}, m : Modules \cup {Nil}, key : Nat, fn : Fns \cup {Nil}]
  /\ NoOp.pc = "idle" /\ NoOp.h = Nil /\ NoOp.m = Nil
  /\ OpKeys(NoOp) = {}
BY DEF NoOp, OpKeys

LEMMA NewFunctionCreateInv ==
  ASSUME IInv, NEW g \in Goroutines, NEW f \in CFuncs, NewFunctionCreate(g, f)
  PROVE  IInv'
<1>1. PICK h, k, fn : h = op[g].h /\ k = op[g].key /\ fn = op[g].fn
  OBVIOUS
<1>2. PICK c, v : /\ c = [in |-> "loose", key |-> k, fn |-> fn]
                  /\ v = [inner |-> f, index |-> k, own |-> TRUE]
  OBVIOUS
<1>3. /\ op[g].pc = "create" /\ cfunc[f].in = "none"
      /\ cfunc' = [cfunc EXCEPT ![f] = c] /\ fh' = [fh EXCEPT ![h] = v]
      /\ op' = [op EXCEPT ![g] = NoOp]
      /\ tab' = tab /\ gm' = gm /\ frame' = frame
  BY <1>1, <1>2 DEF NewFunctionCreate, Instance
<1>4. /\ h \in Handles /\ fh[h].inner = Nil /\ fn \in Fns /\ tab.data[k] = fn
      /\ k \in Nat /\ ~fh[h].own
  BY <1>1, <1>3, HeldRegistered, OwnersHaveInstances DEF IInv, OpInv
<1>5. /\ \A x \in CFuncs : cfunc'[x] = IF x = f THEN c ELSE cfunc[x]
      /\ \A x \in Handles : fh'[x] = IF x = h THEN v ELSE fh[x]
  BY <1>3 DEF IInv, TypeOK
<1>6. /\ op' \in [Goroutines -> [pc : {"idle", "create", "release_function", "release_module"},
                                 h : Handles \cup {Nil}, m : Modules \cup {Nil},
                                 key : Nat, fn : Fns \cup {Nil}]]
      /\ \A x \in Goroutines : op'[x] = IF x = g THEN NoOp ELSE op[x]
      /\ \A m \in Modules : ReleasingM(m)' = ReleasingM(m)
  BY <1>3, NoOpFacts, SetOp
<1>7. \A x \in Goroutines \ {g} : op[x].h # h
  BY <1>1, <1>4, ConstantsAssumption DEF IInv, OpInv
<1>8. TableInv'
  <2>1. KeysDistinct'
    BY <1>3 DEF IInv, TableInv, KeysDistinct
  <2>2. \A r \in Places :
          held'[r] = IF r = <<"new", g>> THEN held[r] \ {k}
                     ELSE IF r = <<"handle", h>> THEN held[r] \cup {k} ELSE held[r]
    <3>1. \A x \in Handles \ {h} : held'[<<"handle", x>>] = held[<<"handle", x>>]
      <4>1. \A x \in Handles \ {h} : HandleKeys(fh'[x]) = HandleKeys(fh[x])
        BY <1>5
      <4> QED BY <4>1, HeldFacts, HeldFactsNext
    <3>2. \A x \in Goroutines \ {g} : held'[<<"new", x>>] = held[<<"new", x>>]
      <4>1. \A x \in Goroutines \ {g} : OpKeys(op'[x]) = OpKeys(op[x])
        BY <1>6
      <4> QED BY <4>1, HeldFacts, HeldFactsNext
    <3>3. \A n \in Modules : held'[<<"module", n>>] = held[<<"module", n>>]
      BY <1>3, HeldFacts, HeldFactsNext
    <3>4. held'[<<"new", g>>] = {} /\ held[<<"new", g>>] = {k}
      BY <1>1, <1>3, <1>6, NoOpFacts, HeldFacts, HeldFactsNext DEF OpKeys
    <3>5. held'[<<"handle", h>>] = {k} /\ held[<<"handle", h>>] = {}
      <4>1. fh'[h] = v /\ v.own /\ v.index = k
        BY <1>2, <1>4, <1>5
      <4>2. HandleKeys(fh'[h]) = {k} /\ HandleKeys(fh[h]) = {}
        BY <1>4, <4>1 DEF HandleKeys
      <4> QED BY <1>4, <4>2, HeldFacts, HeldFactsNext
    <3> QED BY <3>1, <3>2, <3>3, <3>4, <3>5, PlaceFacts
  <2>3. /\ <<"handle", h>> \in Places /\ <<"new", g>> \in Places
        /\ <<"new", g>> # <<"handle", h>> /\ k \in held[<<"new", g>>]
    BY <1>1, <1>3, <1>4, PlaceFacts, HeldFacts DEF OpKeys
  <2> QED BY <1>3, <2>1, <2>2, <2>3, TableMove DEF IInv
<1>9. TypeOK'
  <2>1. cfunc' \in [CFuncs -> [in : {"none", "loose", "deleted"} \cup Modules,
                               key : Nat, fn : Fns \cup {Nil}]]
    BY <1>2, <1>3, <1>4 DEF IInv, TypeOK
  <2>2. fh' \in [Handles -> [inner : CFuncs \cup {Nil}, index : Nat \cup {Nil}, own : BOOLEAN]]
    BY <1>2, <1>3, <1>4 DEF IInv, TypeOK
  <2> QED BY <1>3, <1>6, <2>1, <2>2 DEF IInv, TypeOK
<1>10. OpInv'
  <2>1. \A x, y \in Goroutines : x # y =>
           /\ op'[x].h = op'[y].h => op'[x].h = Nil
           /\ op'[x].m = op'[y].m => op'[x].m = Nil
    BY <1>6, EndOp
  <2>2. \A x \in CFuncs : cfunc[x].in = "deleted" => cfunc'[x].in = "deleted"
    BY <1>3, <1>5
  <2>3. \A x \in Handles : fh[x].own => fh[x].inner \in CFuncs
    BY DEF IInv, HandleInv
  <2>4. ASSUME NEW x \in Goroutines, x # g
        PROVE  /\ op[x].pc = "create" => fh'[op[x].h].inner = Nil
               /\ op[x].pc = "release_function" =>
                    fh'[op[x].h].own /\ cfunc'[fh'[op[x].h].inner].in = "deleted"
    BY <1>5, <1>7, <2>2, <2>3, <2>4 DEF IInv, OpInv
  <2> QED BY <1>3, <1>6, <2>1, <2>4, NoOpFacts DEF IInv, OpInv
<1>11. \A x \in Handles : ReleasingH(x)' = ReleasingH(x)
  BY <1>3, <1>6, NoOpFacts DEF ReleasingH
<1>12. HandleInv'
  <2> SUFFICES ASSUME NEW x \in Handles, fh'[x].own
               PROVE  /\ fh'[x].inner \in CFuncs
                      /\ ~ReleasingH(x)' => /\ cfunc'[fh'[x].inner].in = "loose"
                                            /\ cfunc'[fh'[x].inner].key = fh'[x].index
    BY DEF HandleInv
  <2>1. CASE x = h
    BY <1>2, <1>4, <1>5, <2>1
  <2>2. CASE x # h
    <3>1. fh'[x] = fh[x] /\ fh[x].own
      BY <1>5, <2>2
    <3>2. ~ReleasingH(x) => fh[x].inner # f
      BY <1>3, <3>1 DEF IInv, HandleInv
    <3> QED BY <1>5, <1>11, <3>1, <3>2 DEF IInv, HandleInv
  <2> QED BY <2>1, <2>2
<1>13. ModuleInv'
  BY <1>3 DEF IInv, ModuleInv
<1>14. "none" \notin Modules /\ "loose" \notin Modules
  BY ConstantsAssumption
<1>15. /\ \A x \in CFuncs \ {f} : Alive(x)' = Alive(x)
       /\ ~Alive(f)
  BY <1>3, <1>5, <1>6, <1>14 DEF Alive
<1>16. InstanceInv'
  <2> SUFFICES ASSUME NEW x \in CFuncs
               PROVE  /\ cfunc'[x].in = "loose" => \E y \in Handles : fh'[y].own /\ fh'[y].inner = x
                      /\ cfunc'[x].in \in Modules => gm'[cfunc'[x].in].inner \in {"live", "returned"}
                      /\ cfunc'[x].in \in Modules /\ ~ReleasingM(cfunc[x].in)'
                           => cfunc'[x].key \in ModuleKeys(gm'[cfunc'[x].in])
                      /\ Alive(x)' => cfunc'[x].fn \in Fns /\ tab'.data[cfunc'[x].key] = cfunc'[x].fn
    BY DEF InstanceInv
  <2>1. CASE x = f
    BY <1>2, <1>3, <1>4, <1>5, <1>14, <2>1
  <2>2. CASE x # f
    <3>1. cfunc'[x] = cfunc[x]
      BY <1>5, <2>2
    <3>2. cfunc[x].in = "loose" => \E y \in Handles : fh'[y].own /\ fh'[y].inner = x
      BY <1>4, <1>5 DEF IInv, InstanceInv
    <3>3. cfunc[x].in \in Modules => ReleasingM(cfunc[x].in)' = ReleasingM(cfunc[x].in)
      BY <1>6, <3>1 DEF ReleasingM
    <3> QED BY <1>3, <1>15, <2>2, <3>1, <3>2, <3>3 DEF IInv, InstanceInv
  <2> QED BY <2>1, <2>2
<1>17. FrameInv'
  BY <1>3, <1>5, <1>15, FrameFacts DEF IInv, FrameInv, FrameOK, Frames
<1> QED BY <1>8, <1>9, <1>10, <1>12, <1>13, <1>16, <1>17 DEF IInv

(* The creation fails: nothing has the key yet. *)
LEMMA NewFunctionFailInv ==
  ASSUME IInv, NEW g \in Goroutines, NewFunctionFail(g)
  PROVE  IInv'
<1>1. PICK k : k = op[g].key
  OBVIOUS
<1>2. /\ op[g].pc = "create" /\ tab' = Del(tab, k) /\ op' = [op EXCEPT ![g] = NoOp]
      /\ cfunc' = cfunc /\ fh' = fh /\ gm' = gm /\ frame' = frame
  BY <1>1 DEF NewFunctionFail
<1>3. /\ op' \in [Goroutines -> [pc : {"idle", "create", "release_function", "release_module"},
                                 h : Handles \cup {Nil}, m : Modules \cup {Nil},
                                 key : Nat, fn : Fns \cup {Nil}]]
      /\ \A x \in Goroutines : op'[x] = IF x = g THEN NoOp ELSE op[x]
      /\ \A m \in Modules : ReleasingM(m)' = ReleasingM(m)
  BY <1>2, NoOpFacts, SetOp
<1>4. TableInv' /\ \A x \in Registered \ {k} : tab'.data[x] = tab.data[x]
  <2>1. KeysDistinct'
    BY <1>2 DEF IInv, TableInv, KeysDistinct
  <2>2. \A q \in Places : held'[q] = IF q = <<"new", g>> THEN held[q] \ {k} ELSE held[q]
    <3>1. \A x \in Handles : held'[<<"handle", x>>] = held[<<"handle", x>>]
      BY <1>2, HeldFacts, HeldFactsNext
    <3>2. \A m \in Modules : held'[<<"module", m>>] = held[<<"module", m>>]
      BY <1>2, HeldFacts, HeldFactsNext
    <3>3. \A x \in Goroutines \ {g} : held'[<<"new", x>>] = held[<<"new", x>>]
      <4>1. \A x \in Goroutines \ {g} : OpKeys(op'[x]) = OpKeys(op[x])
        BY <1>3
      <4> QED BY <4>1, HeldFacts, HeldFactsNext
    <3>4. held'[<<"new", g>>] = {} /\ held[<<"new", g>>] = {k}
      BY <1>1, <1>2, <1>3, NoOpFacts, HeldFacts, HeldFactsNext DEF OpKeys
    <3> QED BY <3>1, <3>2, <3>3, <3>4, PlaceFacts
  <2>3. <<"new", g>> \in Places /\ k \in held[<<"new", g>>]
    BY <1>1, <1>2, PlaceFacts, HeldFacts DEF OpKeys
  <2> QED BY <1>2, <2>1, <2>2, <2>3, TableDel DEF IInv
<1>5. TypeOK'
  <2>1. IsTable(Fns, tab')
    BY <1>4 DEF TableInv
  <2> QED BY <1>2, <1>3, <2>1 DEF IInv, TypeOK, IsTable
<1>6. OpInv'
  <2>1. \A x \in Goroutines \ {g} :
          op[x].pc = "create" => tab'.data[op[x].key] = tab.data[op[x].key]
    BY <1>1, <1>2, <1>4, HeldApart, HeldRegistered DEF IInv
  <2>2. \A x, y \in Goroutines : x # y =>
           /\ op'[x].h = op'[y].h => op'[x].h = Nil
           /\ op'[x].m = op'[y].m => op'[x].m = Nil
    BY <1>3, EndOp
  <2> QED BY <1>2, <1>3, <2>1, <2>2, NoOpFacts DEF IInv, OpInv
<1>7. \A x \in Handles : ReleasingH(x)' = ReleasingH(x)
  BY <1>2, <1>3, NoOpFacts DEF ReleasingH
<1>8. HandleInv' /\ ModuleInv'
  BY <1>2, <1>7 DEF IInv, HandleInv, ModuleInv
<1>9. \A f \in CFuncs : Alive(f)' = Alive(f)
  BY <1>2, <1>3 DEF Alive
<1>10. InstanceInv'
  <2>1. ASSUME NEW f \in CFuncs, Alive(f)
        PROVE  tab'.data[cfunc[f].key] = tab.data[cfunc[f].key]
    <3>1. cfunc[f].key # k
      BY <1>1, <1>2, <2>1, AliveFacts, HeldApart DEF IInv
    <3> QED BY <1>4, <2>1, <3>1, AliveFacts
  <2> QED BY <1>2, <1>3, <1>9, <2>1 DEF IInv, InstanceInv
<1>11. FrameInv'
  BY <1>2, <1>9, FrameFacts DEF IInv, FrameInv, FrameOK, Frames
<1> QED BY <1>4, <1>5, <1>6, <1>8, <1>10, <1>11 DEF IInv

(* The first step of a release: the instance is deleted, the key stays. *)
LEMMA ReleaseFunctionInv ==
  ASSUME IInv, NEW g \in Goroutines, NEW h \in Handles, ReleaseFunction(g, h)
  PROVE  IInv'
<1>1. PICK f : f = fh[h].inner
  OBVIOUS
<1>2. CASE ~Deletes(h)
  <2>1. ~fh[h].own
    BY <1>2, OwnersHaveInstances DEF Deletes
  <2>2. PICK x : x = Cleared(fh[h].index)
    OBVIOUS
  <2>3. x \in [inner : CFuncs \cup {Nil}, index : Nat \cup {Nil}, own : {FALSE}]
    BY <2>2 DEF IInv, TypeOK, Cleared
  <2>4. fh' = [fh EXCEPT ![h] = x] /\ UNCHANGED <<tab, cfunc, gm, op, frame>> /\ FreeH(h)
    BY <1>2, <2>2 DEF ReleaseFunction
  <2> QED BY <2>1, <2>3, <2>4, HandleOnly
<1>3. CASE Deletes(h)
  <2>1. PICK c, o : /\ c = [in |-> "deleted", key |-> 0, fn |-> Nil]
                    /\ o = [NoOp EXCEPT !.pc = "release_function", !.h = h]
    OBVIOUS
  <2>2. /\ op[g].pc = "idle" /\ FreeH(h) /\ fh[h].own /\ NoCallInto({f})
        /\ cfunc' = [cfunc EXCEPT ![f] = c] /\ op' = [op EXCEPT ![g] = o]
        /\ tab' = tab /\ fh' = fh /\ gm' = gm /\ frame' = frame
    BY <1>1, <1>3, <2>1 DEF ReleaseFunction, Deletes, Ready, Instance
  <2>3. f \in CFuncs /\ ~ReleasingH(h) /\ cfunc[f].in = "loose" /\ cfunc[f].key = fh[h].index
    BY <1>1, <2>2, OwnersHaveInstances DEF IInv, HandleInv, ReleasingH, FreeH
  <2>4. \A x \in CFuncs : cfunc'[x] = IF x = f THEN c ELSE cfunc[x]
    BY <2>2 DEF IInv, TypeOK
  <2>5. /\ o \in [pc : {"release_function"}, h : Handles, m : {Nil}, key : Nat, fn : {Nil}]
        /\ o.pc = "release_function" /\ o.h = h /\ o.m = Nil /\ OpKeys(o) = {}
    BY <2>1 DEF NoOp, OpKeys
  <2>6. /\ op' \in [Goroutines -> [pc : {"idle", "create", "release_function", "release_module"},
                                   h : Handles \cup {Nil}, m : Modules \cup {Nil},
                                   key : Nat, fn : Fns \cup {Nil}]]
        /\ \A x \in Goroutines : op'[x] = IF x = g THEN o ELSE op[x]
        /\ \A m \in Modules : ReleasingM(m)' = ReleasingM(m)
    <3>1. o \in [pc : {"idle", "create", "release_function", "release_module"},
                 h : Handles \cup {Nil}, m : Modules \cup {Nil}, key : Nat, fn : Fns \cup {Nil}]
      BY <2>5
    <3> QED BY <2>2, <2>5, <3>1, SetOp
  <2>7. TypeOK'
    <3>1. cfunc' \in [CFuncs -> [in : {"none", "loose", "deleted"} \cup Modules,
                                 key : Nat, fn : Fns \cup {Nil}]]
      BY <2>1, <2>2 DEF IInv, TypeOK
    <3> QED BY <2>2, <2>6, <3>1 DEF IInv, TypeOK
  <2>8. TableInv'
    <3>1. \A x \in Goroutines : OpKeys(op'[x]) = OpKeys(op[x])
      BY <2>2, <2>5, <2>6 DEF OpKeys
    <3> QED BY <2>2, <3>1, TableSame DEF IInv
  <2>9. OpInv'
    <3>1. \A x, y \in Goroutines : x # y =>
             /\ op'[x].h = op'[y].h => op'[x].h = Nil
             /\ op'[x].m = op'[y].m => op'[x].m = Nil
      BY <2>2, <2>5, <2>6, BeginOp
    <3>2. \A x \in CFuncs : cfunc[x].in = "deleted" => cfunc'[x].in = "deleted"
      BY <2>1, <2>4
    <3>3. \A x \in Handles : fh[x].own => fh[x].inner \in CFuncs
      BY DEF IInv, HandleInv
    <3>4. cfunc'[fh[h].inner].in = "deleted"
      BY <1>1, <2>1, <2>3, <2>4
    <3> QED BY <2>2, <2>5, <2>6, <3>1, <3>2, <3>3, <3>4 DEF IInv, OpInv
  <2>10. \A x \in Handles : ReleasingH(x)' = (ReleasingH(x) \/ x = h)
    BY <2>2, <2>5, <2>6 DEF ReleasingH
  <2>11. HandleInv'
    <3> SUFFICES ASSUME NEW x \in Handles, fh[x].own
                 PROVE  /\ fh[x].inner \in CFuncs
                        /\ ~ReleasingH(x)' => /\ cfunc'[fh[x].inner].in = "loose"
                                              /\ cfunc'[fh[x].inner].key = fh[x].index
      BY <2>2 DEF HandleInv
    <3>1. fh[x].inner \in CFuncs
      BY DEF IInv, HandleInv
    <3>2. ASSUME ~ReleasingH(x), x # h PROVE fh[x].inner # f
      <4>1. fh[x].index # fh[h].index
        BY <2>2, <3>2, HeldApart DEF IInv
      <4> QED BY <2>3, <3>2, <4>1 DEF IInv, HandleInv
    <3> QED BY <2>4, <2>10, <3>1, <3>2 DEF IInv, HandleInv
  <2>12. ModuleInv'
    BY <2>2 DEF IInv, ModuleInv
  <2>13. /\ \A x \in CFuncs \ {f} : Alive(x)' = Alive(x)
         /\ cfunc'[f].in = "deleted" /\ ~Alive(f)' /\ "deleted" \notin Modules
    BY <2>1, <2>3, <2>4, <2>6, ConstantsAssumption DEF Alive
  <2>14. InstanceInv'
    BY <2>2, <2>4, <2>6, <2>13 DEF IInv, InstanceInv
  <2>15. FrameInv'
    <3>1. \A x \in Goroutines : \A i \in 1 .. Len(frame[x]) : frame[x][i].f \in CFuncs \ {f}
      BY <2>2, FrameFacts DEF NoCallInto, Frames
    <3> QED BY <2>2, <2>4, <2>13, <3>1, FrameFacts DEF IInv, FrameInv, FrameOK, Frames
  <2> QED BY <2>7, <2>8, <2>9, <2>11, <2>12, <2>14, <2>15 DEF IInv
<1> QED BY <1>2, <1>3

(* The second: the key goes, and no other instance has it. *)
LEMMA ReleaseFunctionKeyInv ==
  ASSUME IInv, NEW g \in Goroutines, ReleaseFunctionKey(g)
  PROVE  IInv'
<1>1. PICK h, k, v : /\ h = op[g].h /\ k = fh[h].index
                     /\ v = [inner |-> Nil, index |-> k, own |-> FALSE]
  OBVIOUS
<1>2. /\ op[g].pc = "release_function" /\ tab' = Del(tab, k) /\ op' = [op EXCEPT ![g] = NoOp]
      /\ fh' = [fh EXCEPT ![h] = v]
      /\ cfunc' = cfunc /\ gm' = gm /\ frame' = frame
  BY <1>1 DEF ReleaseFunctionKey, KeyOf, Cleared, IInv, TypeOK, OpInv
<1>3. h \in Handles /\ fh[h].own /\ cfunc[fh[h].inner].in = "deleted" /\ ReleasingH(h)
  BY <1>1, <1>2 DEF IInv, OpInv, ReleasingH
<1>4. \A x \in Handles : fh'[x] = IF x = h THEN v ELSE fh[x]
  BY <1>2 DEF IInv, TypeOK
<1>5. /\ op' \in [Goroutines -> [pc : {"idle", "create", "release_function", "release_module"},
                                 h : Handles \cup {Nil}, m : Modules \cup {Nil},
                                 key : Nat, fn : Fns \cup {Nil}]]
      /\ \A x \in Goroutines : op'[x] = IF x = g THEN NoOp ELSE op[x]
      /\ \A m \in Modules : ReleasingM(m)' = ReleasingM(m)
  BY <1>2, NoOpFacts, SetOp
<1>6. TableInv' /\ \A x \in Registered \ {k} : tab'.data[x] = tab.data[x]
  <2>1. KeysDistinct'
    BY <1>2 DEF IInv, TableInv, KeysDistinct
  <2>2. \A q \in Places : held'[q] = IF q = <<"handle", h>> THEN held[q] \ {k} ELSE held[q]
    <3>1. \A x \in Handles \ {h} : held'[<<"handle", x>>] = held[<<"handle", x>>]
      <4>1. \A x \in Handles \ {h} : HandleKeys(fh'[x]) = HandleKeys(fh[x])
        BY <1>4
      <4> QED BY <4>1, HeldFacts, HeldFactsNext
    <3>2. \A m \in Modules : held'[<<"module", m>>] = held[<<"module", m>>]
      BY <1>2, HeldFacts, HeldFactsNext
    <3>3. \A x \in Goroutines : held'[<<"new", x>>] = held[<<"new", x>>]
      <4>1. \A x \in Goroutines : OpKeys(op'[x]) = OpKeys(op[x])
        BY <1>2, <1>5, NoOpFacts DEF OpKeys
      <4> QED BY <4>1, HeldFacts, HeldFactsNext
    <3>4. held'[<<"handle", h>>] = {} /\ held[<<"handle", h>>] = {k}
      <4>1. fh'[h] = v /\ ~v.own
        BY <1>1, <1>3, <1>4
      <4>2. HandleKeys(fh'[h]) = {} /\ HandleKeys(fh[h]) = {k}
        BY <1>1, <1>3, <4>1 DEF HandleKeys
      <4> QED BY <1>3, <4>2, HeldFacts, HeldFactsNext
    <3> QED BY <3>1, <3>2, <3>3, <3>4, PlaceFacts
  <2>3. <<"handle", h>> \in Places /\ k \in held[<<"handle", h>>]
    BY <1>1, <1>3, PlaceFacts, HeldFacts DEF HandleKeys
  <2> QED BY <1>2, <2>1, <2>2, <2>3, TableDel DEF IInv
<1>7. TypeOK'
  <2>1. IsTable(Fns, tab')
    BY <1>6 DEF TableInv
  <2>2. k \in Nat
    BY <1>1, <1>3, HeldRegistered DEF IInv
  <2>3. fh' \in [Handles -> [inner : CFuncs \cup {Nil}, index : Nat \cup {Nil}, own : BOOLEAN]]
    BY <1>1, <1>2, <2>2 DEF IInv, TypeOK
  <2> QED BY <1>2, <1>5, <2>1, <2>3 DEF IInv, TypeOK, IsTable
<1>8. \A x \in Goroutines \ {g} : op[x].h # h
  BY <1>1, <1>3, ConstantsAssumption DEF IInv, OpInv
<1>9. OpInv'
  <2>1. \A x \in Goroutines :
          op[x].pc = "create" => tab'.data[op[x].key] = tab.data[op[x].key]
    BY <1>1, <1>3, <1>6, HeldApart, HeldRegistered DEF IInv
  <2>2. \A x, y \in Goroutines : x # y =>
           /\ op'[x].h = op'[y].h => op'[x].h = Nil
           /\ op'[x].m = op'[y].m => op'[x].m = Nil
    BY <1>5, EndOp
  <2>3. \A x \in Goroutines \ {g} : op[x].h \in Handles => fh'[op[x].h] = fh[op[x].h]
    BY <1>4, <1>8
  <2> QED BY <1>2, <1>5, <2>1, <2>2, <2>3, NoOpFacts DEF IInv, OpInv
<1>10. \A x \in Handles \ {h} : ReleasingH(x)' = ReleasingH(x)
  BY <1>1, <1>2, <1>5, NoOpFacts DEF ReleasingH
<1>11. HandleInv'
  <2>1. \A x \in Handles : fh'[x].own => x # h /\ fh'[x] = fh[x]
    BY <1>1, <1>4
  <2> QED BY <1>2, <1>10, <2>1 DEF IInv, HandleInv
<1>12. ModuleInv'
  BY <1>2 DEF IInv, ModuleInv
<1>13. \A f \in CFuncs : Alive(f)' = Alive(f)
  BY <1>2, <1>5 DEF Alive
<1>14. InstanceInv'
  <2>1. ASSUME NEW f \in CFuncs, Alive(f)
        PROVE  tab'.data[cfunc[f].key] = tab.data[cfunc[f].key]
    <3>1. CASE \E x \in Handles : fh[x].own /\ ~ReleasingH(x) /\ fh[x].index = cfunc[f].key
      <4>1. cfunc[f].key # k
        BY <1>1, <1>3, <3>1, HeldApart DEF IInv
      <4> QED BY <1>6, <2>1, <4>1, AliveFacts
    <3>2. CASE cfunc[f].in \in Modules /\ cfunc[f].key \in ModuleKeys(gm[cfunc[f].in])
      <4>1. cfunc[f].key # k
        BY <1>1, <1>3, <3>2, HeldApart DEF IInv
      <4> QED BY <1>6, <2>1, <4>1, AliveFacts
    <3> QED BY <2>1, <3>1, <3>2, AliveFacts
  <2>2. \A f \in CFuncs : cfunc[f].in = "loose" => \E x \in Handles : fh'[x].own /\ fh'[x].inner = f
    BY <1>3, <1>4 DEF IInv, InstanceInv
  <2> QED BY <1>2, <1>5, <1>13, <2>1, <2>2 DEF IInv, InstanceInv
<1>15. FrameInv'
  BY <1>2, <1>13, FrameFacts DEF IInv, FrameInv, FrameOK, Frames
<1> QED BY <1>6, <1>7, <1>9, <1>11, <1>12, <1>14, <1>15 DEF IInv

(* The step.  AddFunction keeps the ledger only when it is given no        *)
(* consumed Function.                                                      *)
LEMMA InvStep ==
  ASSUME Careful, IInv, [Next]_vars
  PROVE  IInv'
<1>1. CASE UNCHANGED vars
  <2>1. TableInv'
    BY <1>1, TableSame DEF IInv, vars
  <2>2. TypeOK' /\ OpInv' /\ HandleInv' /\ ModuleInv'
    BY <1>1 DEF IInv, vars, TypeOK, OpInv, HandleInv, ModuleInv, ReleasingH
  <2>3. InstanceInv' /\ FrameInv'
    BY <1>1, FrameFacts DEF IInv, vars, InstanceInv, FrameInv, FrameOK, Frames, Alive, ReleasingM
  <2> QED BY <2>1, <2>2, <2>3 DEF IInv
<1>2. CASE Next
  <2>1. PICK g \in Goroutines :
          \/ \E m \in Modules :
               \/ NewModule(g, m) \/ BorrowModule(g, m)
               \/ ReleaseModule(g, m) \/ VMDeletesModule(g, m)
               \/ \E h \in Handles :
                    AddFunction(g, m, h) \/ \E f \in CFuncs : FindFunction(g, m, h, f)
          \/ \E h \in Handles : ReleaseFunction(g, h) \/ \E fn \in Fns : NewFunction(g, h, fn)
          \/ \E f \in CFuncs : HostFuncInvoke(g, f)
          \/ ApiStep(g)
          \/ HostStep(g)
    BY <1>2 DEF Next
  <2>2. ASSUME NEW m \in Modules,
               \/ NewModule(g, m) \/ BorrowModule(g, m)
               \/ ReleaseModule(g, m) \/ VMDeletesModule(g, m)
        PROVE  IInv'
    BY <2>2, NewModuleInv, BorrowModuleInv, ReleaseModuleInv, VMDeletesModuleInv
  <2>3. ASSUME NEW m \in Modules, NEW h \in Handles, AddFunction(g, m, h)
        PROVE  IInv'
    BY <2>3, AddFunctionInv
  <2>4. ASSUME NEW m \in Modules, NEW h \in Handles, NEW f \in CFuncs, FindFunction(g, m, h, f)
        PROVE  IInv'
    BY <2>4, FindFunctionInv
  <2>5. ASSUME NEW h \in Handles, ReleaseFunction(g, h)
        PROVE  IInv'
    BY <2>5, ReleaseFunctionInv
  <2>6. ASSUME NEW h \in Handles, NEW fn \in Fns, NewFunction(g, h, fn)
        PROVE  IInv'
    BY <2>6, NewFunctionInv
  <2>7. ASSUME NEW f \in CFuncs, HostFuncInvoke(g, f)
        PROVE  IInv'
    BY <2>7, HostFuncInvokeInv
  <2>8. ASSUME ApiStep(g)
        PROVE  IInv'
    BY <2>8, ReleaseModuleKeyInv, ReleaseModuleDeleteInv, ReleaseFunctionKeyInv,
       NewFunctionFailInv, NewFunctionCreateInv DEF ApiStep
  <2>9. ASSUME HostStep(g)
        PROVE  IInv'
    BY <2>9, HostFuncGetInv, HostFuncReturnInv DEF HostStep
  <2> QED BY <2>1, <2>2, <2>3, <2>4, <2>5, <2>6, <2>7, <2>8, <2>9
<1> QED BY <1>1, <1>2

LEMMA Invariance == ASSUME Careful PROVE Spec => []IInv
<1>1. IInv /\ [Next]_vars => IInv'
  BY InvStep
<1> QED BY <1>1, InvInit, PTL DEF Spec

---------------------------------------------------------------------------

(* The variables keep their types.                                         *)
THEOREM TypeCorrect == ASSUME Careful PROVE Spec => []TypeOK
<1>1. IInv => TypeOK
  BY DEF IInv
<1> QED BY <1>1, Invariance, PTL

(* hostFunctionManager never recycles a key twice or while it is in use    *)
(* and loses none, whatever goroutines register, add and release.          *)
THEOREM KeysAreRecycledOnce == ASSUME Careful PROVE Spec => []KeysRecycledOnce
<1>1. IInv => KeysRecycledOnce
  BY DEF IInv, TableInv, KeysRecycledOnce
<1> QED BY <1>1, Invariance, PTL

(* wasmedgego_HostFuncInvokeImpl finds under the key of an instance that   *)
(* can be called the Go function the instance was created with.            *)
THEOREM CallablesAlwaysResolve == ASSUME Careful PROVE Spec => []CallablesResolve
<1>1. IInv => CallablesResolve
  <2> SUFFICES ASSUME IInv, NEW f \in CFuncs, Callable(f)
               PROVE  Get(tab, cfunc[f].key) = cfunc[f].fn
    BY DEF CallablesResolve
  <2>1. Alive(f)
    BY DEF Callable, Alive, ReleasingM
  <2> QED BY <2>1, AliveFacts DEF Get, Lookup, Registered
<1> QED BY <1>1, Invariance, PTL

(* A host call runs the function its instance was created with, even when  *)
(* functions are registered and released between the entry into Go and     *)
(* the look-up of the key.                                                 *)
THEOREM CallsRunTheirFunction == ASSUME Careful PROVE Spec => []CallRunsItsFunction
<1>1. IInv => CallRunsItsFunction
  BY FrameFacts DEF FrameOK, CallRunsItsFunction
<1> QED BY <1>1, Invariance, PTL

(* An instance outside any module has one Function that will release it:   *)
(* two owners would hold the same key, which the ledger excludes.          *)
THEOREM LooseInstancesHaveOneOwner == ASSUME Careful PROVE Spec => []LooseOwnedOnce
<1>1. ASSUME IInv, NEW f \in CFuncs, cfunc[f].in = "loose"
      PROVE  Cardinality({h \in Handles : fh[h].own /\ fh[h].inner = f}) = 1
  <2>1. PICK h \in Handles : fh[h].own /\ fh[h].inner = f
    BY <1>1 DEF IInv, InstanceInv
  <2>2. ASSUME NEW x \in Handles, fh[x].own, fh[x].inner = f
        PROVE  fh[x].index = cfunc[f].key
    <3>1. ~ReleasingH(x)
      BY <1>1, <2>2 DEF IInv, OpInv, ReleasingH
    <3>2. HandleInv
      BY <1>1 DEF IInv
    <3>3. cfunc[fh[x].inner].key = fh[x].index
      BY <2>2, <3>1, <3>2 DEF HandleInv
    <3> QED BY <2>2, <3>3
  <2>3. \A x \in Handles : fh[x].own /\ fh[x].inner = f => x = h
    BY <1>1, <2>1, <2>2, HeldApart DEF IInv
  <2>4. {x \in Handles : fh[x].own /\ fh[x].inner = f} = {h}
    BY <2>1, <2>3
  <2> QED BY <2>4, FS_Singleton
<1>2. ASSUME IInv, NEW h \in Handles, fh[h].own
      PROVE  \/ cfunc[fh[h].inner].in = "loose"
             \/ \E g \in Goroutines : op[g].pc = "release_function" /\ op[g].h = h
  BY <1>2 DEF IInv, HandleInv, ReleasingH
<1>3. IInv => LooseOwnedOnce
  BY <1>1, <1>2 DEF LooseOwnedOnce
<1> QED BY <1>3, Invariance, PTL

(* Who holds a key, as the ledger has it.                                  *)
LEMMA HoldersAre ==
  ASSUME IInv, NEW k
  PROVE  \A x : x \in Holders(k) <=>
           \/ \E h \in Handles : x = <<"handle", h>> /\ k \in held[<<"handle", h>>]
           \/ \E g \in Goroutines : x = <<"new", g>> /\ k \in held[<<"new", g>>]
           \/ \E m \in Modules : \E i \in 1 .. Len(gm[m].hostfuncs) :
                x = <<"module", m, i>> /\ gm[m].own /\ gm[m].hostfuncs[i] = k
<1>1. \A m \in Modules : DOMAIN gm[m].hostfuncs = 1 .. Len(gm[m].hostfuncs)
  <2> SUFFICES ASSUME NEW m \in Modules
               PROVE  DOMAIN gm[m].hostfuncs = 1 .. Len(gm[m].hostfuncs)
    OBVIOUS
  <2>1. gm[m].hostfuncs \in Seq(Nat)
    BY DEF IInv, TypeOK
  <2> QED BY <2>1, LenProperties
<1>2. \A h \in Handles : k \in held[<<"handle", h>>] <=> fh[h].own /\ fh[h].index = k
  BY HeldFacts DEF HandleKeys
<1>3. \A g \in Goroutines : k \in held[<<"new", g>>] <=> op[g].pc = "create" /\ op[g].key = k
  BY HeldFacts DEF OpKeys
<1>4. TAKE x
<1>5. x \in {<<"handle", h>> : h \in {y \in Handles : fh[y].own /\ fh[y].index = k}}
      <=> \E h \in Handles : x = <<"handle", h>> /\ k \in held[<<"handle", h>>]
  BY <1>2
<1>6. x \in {<<"new", g>> : g \in {y \in Goroutines : op[y].pc = "create" /\ op[y].key = k}}
      <=> \E g \in Goroutines : x = <<"new", g>> /\ k \in held[<<"new", g>>]
  BY <1>3
<1>7. x \in UNION {{<<"module", m, i>> : i \in {j \in DOMAIN gm[m].hostfuncs : gm[m].hostfuncs[j] = k}}
                    : m \in {y \in Modules : gm[y].own}}
      <=> \E m \in Modules : \E i \in 1 .. Len(gm[m].hostfuncs) :
            x = <<"module", m, i>> /\ gm[m].own /\ gm[m].hostfuncs[i] = k
  BY <1>1
<1> QED BY <1>5, <1>6, <1>7 DEF Holders

(* Every registered key has exactly one holder that will delete it, except *)
(* for those added to a borrowed Module, which stay registered.            *)
THEOREM OneHolderHolds == ASSUME Careful PROVE Spec => []OneHolder
<1>1. ASSUME IInv PROVE Stranded \subseteq DOMAIN tab.data
  <2>1. \A m \in Modules : ModuleKeys(gm[m]) \subseteq DOMAIN tab.data
    BY <1>1, HeldRegistered DEF IInv, Registered
  <2> QED BY <2>1 DEF Stranded, ModuleKeys
<1>2. ASSUME IInv, NEW k \in DOMAIN tab.data \ Stranded
      PROVE  Cardinality(Holders(k)) = 1
  <2>1. PICK p \in Places : k \in held[p]
    BY <1>2 DEF IInv, TableInv, Balanced, Registered
  <2>2. \A q \in Places : k \in held[q] => q = p
    BY <1>2, <2>1 DEF IInv, TableInv, Balanced
  <2>3. \A h \in Handles : k \in held[<<"handle", h>>] => p = <<"handle", h>>
    BY <2>2, PlaceFacts
  <2>4. \A g \in Goroutines : k \in held[<<"new", g>>] => p = <<"new", g>>
    BY <2>2, PlaceFacts
  <2>5. ASSUME NEW m \in Modules, NEW i \in 1 .. Len(gm[m].hostfuncs), gm[m].hostfuncs[i] = k
        PROVE  p = <<"module", m>>
    <3>1. gm[m].hostfuncs \in Seq(Nat)
      BY <1>2 DEF IInv, TypeOK
    <3>2. k \in ModuleKeys(gm[m])
      BY <2>5, <3>1, LenProperties DEF ModuleKeys, ToSet
    <3> QED BY <2>2, <3>2, PlaceFacts, HeldFacts
  <2>6. \E x : Holders(k) = {x}
    <3>1. CASE \E h \in Handles : p = <<"handle", h>>
      <4>1. PICK h \in Handles : p = <<"handle", h>>
        BY <3>1
      <4>2. <<"handle", h>> \in Holders(k)
        BY <1>2, <2>1, <4>1, HoldersAre
      <4>3. ASSUME NEW y \in Holders(k) PROVE y = <<"handle", h>>
        <5>1. \A m \in Modules : p # <<"module", m>>
          BY <4>1
        <5>2. ~\E m \in Modules : \E i \in 1 .. Len(gm[m].hostfuncs) :
                y = <<"module", m, i>> /\ gm[m].own /\ gm[m].hostfuncs[i] = k
          BY <2>5, <5>1
        <5>3. \/ \E x \in Handles : y = <<"handle", x>> /\ k \in held[<<"handle", x>>]
              \/ \E x \in Goroutines : y = <<"new", x>> /\ k \in held[<<"new", x>>]
          BY <1>2, <5>2, HoldersAre
        <5> QED BY <2>3, <2>4, <4>1, <5>3
      <4> QED BY <4>2, <4>3
    <3>2. CASE \E g \in Goroutines : p = <<"new", g>>
      <4>1. PICK g \in Goroutines : p = <<"new", g>>
        BY <3>2
      <4>2. <<"new", g>> \in Holders(k)
        BY <1>2, <2>1, <4>1, HoldersAre
      <4>3. ASSUME NEW y \in Holders(k) PROVE y = <<"new", g>>
        <5>1. \A m \in Modules : p # <<"module", m>>
          BY <4>1
        <5>2. ~\E m \in Modules : \E i \in 1 .. Len(gm[m].hostfuncs) :
                y = <<"module", m, i>> /\ gm[m].own /\ gm[m].hostfuncs[i] = k
          BY <2>5, <5>1
        <5>3. \/ \E x \in Handles : y = <<"handle", x>> /\ k \in held[<<"handle", x>>]
              \/ \E x \in Goroutines : y = <<"new", x>> /\ k \in held[<<"new", x>>]
          BY <1>2, <5>2, HoldersAre
        <5> QED BY <2>3, <2>4, <4>1, <5>3
      <4> QED BY <4>2, <4>3
    <3>3. CASE \E m \in Modules : p = <<"module", m>>
      <4>1. PICK m \in Modules : p = <<"module", m>>
        BY <3>3
      <4>2. k \in ModuleKeys(gm[m])
        BY <2>1, <4>1, HeldFacts
      <4>3. gm[m].own
        BY <1>2, <4>2 DEF Stranded, ModuleKeys
      <4>4. gm[m].hostfuncs \in Seq(Nat)
        BY <1>2 DEF IInv, TypeOK
      <4>5. PICK i \in 1 .. Len(gm[m].hostfuncs) : gm[m].hostfuncs[i] = k
        BY <4>2, <4>4, LenProperties DEF ModuleKeys, ToSet
      <4>6. \A j \in 1 .. Len(gm[m].hostfuncs) : gm[m].hostfuncs[j] = k => j = i
        BY <1>2, <4>5 DEF IInv, TableInv, KeysDistinct
      <4>7. ASSUME NEW n \in Modules, NEW j \in 1 .. Len(gm[n].hostfuncs), gm[n].hostfuncs[j] = k
            PROVE  n = m /\ j = i
        <5>1. n = m
          BY <2>5, <4>1, <4>7
        <5> QED BY <4>6, <4>7, <5>1
      <4>8. <<"module", m, i>> \in Holders(k)
        BY <1>2, <4>3, <4>5, HoldersAre
      <4>9. ASSUME NEW y \in Holders(k) PROVE y = <<"module", m, i>>
        <5>1. (\A h \in Handles : p # <<"handle", h>>) /\ (\A g \in Goroutines : p # <<"new", g>>)
          BY <4>1
        <5>2. /\ \A h \in Handles : k \notin held[<<"handle", h>>]
              /\ \A g \in Goroutines : k \notin held[<<"new", g>>]
          BY <2>3, <2>4, <5>1
        <5>3. PICK n \in Modules : \E j \in 1 .. Len(gm[n].hostfuncs) :
                y = <<"module", n, j>> /\ gm[n].own /\ gm[n].hostfuncs[j] = k
          BY <1>2, <5>2, HoldersAre
        <5>4. PICK j \in 1 .. Len(gm[n].hostfuncs) :
                y = <<"module", n, j>> /\ gm[n].hostfuncs[j] = k
          BY <5>3
        <5>5. n = m /\ j = i
          BY <4>7, <5>4
        <5> QED BY <5>4, <5>5
      <4> QED BY <4>8, <4>9
    <3> QED BY <3>1, <3>2, <3>3, PlaceFacts
  <2>7. PICK x : Holders(k) = {x}
    BY <2>6
  <2> QED BY <2>7, FS_Singleton
<1>3. ASSUME IInv, NEW k, k \notin DOMAIN tab.data \ Stranded
      PROVE  Cardinality(Holders(k)) = 0
  <2>1. \A p \in Places : held[p] \subseteq DOMAIN tab.data
    BY <1>3 DEF IInv, TableInv, Balanced, Registered
  <2>2. ASSUME NEW m \in Modules, k \in ModuleKeys(gm[m]), gm[m].own
        PROVE  FALSE
    <3>1. k \in DOMAIN tab.data
      BY <2>1, <2>2, HeldFacts, PlaceFacts
    <3>2. PICK n \in Modules : ~gm[n].own /\ k \in ModuleKeys(gm[n])
      BY <1>3, <3>1 DEF Stranded, ModuleKeys
    <3> QED BY <1>3, <2>2, <3>2, HeldApart DEF IInv
  <2>3. \A m \in Modules : \A i \in 1 .. Len(gm[m].hostfuncs) :
          gm[m].hostfuncs[i] = k => k \in ModuleKeys(gm[m])
    <3>1. \A m \in Modules : gm[m].hostfuncs \in Seq(Nat)
      BY <1>3 DEF IInv, TypeOK
    <3> QED BY <3>1, LenProperties DEF ModuleKeys, ToSet
  <2>4. ASSUME NEW p \in Places, k \in held[p]
        PROVE  \E m \in Modules : p = <<"module", m>>
    <3>1. k \in DOMAIN tab.data
      BY <2>1, <2>4
    <3>2. PICK n \in Modules : k \in ModuleKeys(gm[n])
      BY <1>3, <3>1 DEF Stranded, ModuleKeys
    <3>3. <<"module", n>> \in Places /\ k \in held[<<"module", n>>]
      BY <3>2, PlaceFacts, HeldFacts
    <3> QED BY <1>3, <2>4, <3>3 DEF IInv, TableInv, Balanced
  <2>5. \A h \in Handles : k \notin held[<<"handle", h>>]
    BY <2>4, PlaceFacts
  <2>6. \A g \in Goroutines : k \notin held[<<"new", g>>]
    BY <2>4, PlaceFacts
  <2>7. Holders(k) = {}
    BY <1>3, <2>2, <2>3, <2>5, <2>6, HoldersAre
  <2> QED BY <2>7, FS_EmptySet
<1>4. IInv => OneHolder
  BY <1>1, <1>2, <1>3 DEF OneHolder
<1> QED BY <1>4, Invariance, PTL
=============================================================================
