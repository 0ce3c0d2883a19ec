------------------------- MODULE ExternRefs_proofs -------------------------
(***************************************************************************)
(* The invariants of ExternRefs, proved for a careful program and any      *)
(* number of objects, variables and places in wasm code.                   *)
(***************************************************************************)
EXTENDS ExternRefs, SequenceTheorems, TLAPS

(* Facts about the operators of IndexTable, element by element.  They are  *)
(* stated alike for the table of functions and for that of objects.        *)

(* What popping and pushing do to the stack of recycled keys. *)
LEMMA PopLemma ==
  ASSUME NEW S, NEW s \in Seq(S), Len(s) > 0
  PROVE  /\ Last(s) \in S /\ Last(s) = s[Len(s)]
         /\ Front(s) \in Seq(S)
         /\ Len(Front(s)) = Len(s) - 1
         /\ \A i \in 1 .. Len(s) - 1 : Front(s)[i] = s[i]
<1>1. s[Len(s)] \in S
  BY ElementOfSeq, LenProperties
<1>2. /\ Front(s) \in Seq(S)
      /\ Len(Front(s)) = Len(s) - 1
      /\ \A i \in 1 .. Len(s) - 1 : Front(s)[i] = s[i]
  <2> DEFINE n == Len(s) - 1
  <2>1. n \in Nat /\ Len(s) \in Nat
    BY LenProperties
  <2>2. \A i \in 1 .. n : s[i] \in S
    BY <2>1, ElementOfSeq
  <2>3. /\ SubSeq(s, 1, n) \in Seq(S)
        /\ Len(SubSeq(s, 1, n)) = IF 1 <= n THEN n - 1 + 1 ELSE 0
        /\ \A i \in 1 .. n - 1 + 1 : SubSeq(s, 1, n)[i] = s[1 + i - 1]
    <3> HIDE DEF n
    <3> QED BY <2>1, <2>2, SubSeqProperties
  <2>4. n - 1 + 1 = n /\ \A i \in 1 .. n : 1 + i - 1 = i
    BY <2>1
  <2> QED BY <2>1, <2>3, <2>4 DEF Front
<1> QED BY <1>1, <1>2 DEF Last

LEMMA PushLemma ==
  ASSUME NEW S, NEW s \in Seq(S), NEW e \in S
  PROVE  /\ Append(s, e) \in Seq(S)
         /\ Len(Append(s, e)) = Len(s) + 1
         /\ Append(s, e)[Len(s) + 1] = e
         /\ \A i \in 1 .. Len(s) : Append(s, e)[i] = s[i]
BY AppendProperties

---------------------------------------------------------------------------

(* A table that stores members of V. *)
IsTable(V, t) ==
  /\ t.idx \in Nat
  /\ t.gc \in Seq(Nat)
  /\ DOMAIN t.data \subseteq Nat
  /\ \A k \in DOMAIN t.data : t.data[k] \in V

(* A well-formed table, element by element. *)
LEMMA TableFacts ==
  ASSUME NEW V, NEW first \in Nat, NEW t, IsTable(V, t), WellFormed(first, t)
  PROVE  /\ Len(t.gc) \in Nat
         /\ DOMAIN t.gc = 1 .. Len(t.gc)
         /\ \A i, j \in 1 .. Len(t.gc) : t.gc[i] = t.gc[j] => i = j
         /\ \A i \in 1 .. Len(t.gc) : t.gc[i] \in Nat /\ t.gc[i] \notin DOMAIN t.data
         /\ \A x : x \in first .. t.idx - 1 <=>
                  x \in DOMAIN t.data \/ \E i \in 1 .. Len(t.gc) : t.gc[i] = x
<1>1. /\ Len(t.gc) \in Nat
      /\ DOMAIN t.gc = 1 .. Len(t.gc)
      /\ \A i \in 1 .. Len(t.gc) : t.gc[i] \in Nat
  BY ElementOfSeq, LenProperties DEF IsTable
<1>2. /\ \A i, j \in 1 .. Len(t.gc) : t.gc[i] = t.gc[j] => i = j
      /\ \A i \in 1 .. Len(t.gc) : t.gc[i] \notin DOMAIN t.data
  BY DEF WellFormed, RecycledAreFree
<1>3. DOMAIN t.data \cup {t.gc[i] : i \in 1 .. Len(t.gc)} = first .. t.idx - 1
  BY <1>1 DEF WellFormed, KeysAccounted, ToSet
<1> QED BY <1>1, <1>2, <1>3

(* add on a well-formed table returns a key that is in nobody's hands and  *)
(* leaves the table well-formed, every other binding included.             *)
LEMMA AddLemma ==
  ASSUME NEW V, NEW first \in Nat, NEW t, NEW v \in V,
         IsTable(V, t), WellFormed(first, t), first <= t.idx
  PROVE  /\ NextKey(t) \in Nat \ DOMAIN t.data
         /\ first <= NextKey(t)
         /\ IsTable(V, Add(t, v))
         /\ WellFormed(first, Add(t, v))
         /\ first <= Add(t, v).idx
         /\ DOMAIN Add(t, v).data = DOMAIN t.data \cup {NextKey(t)}
         /\ Add(t, v).data[NextKey(t)] = v
         /\ \A k \in DOMAIN t.data : Add(t, v).data[k] = t.data[k]
<1> DEFINE k == NextKey(t)
           u == Add(t, v)
           n == Len(t.gc)
<1>0. /\ n \in Nat /\ (t.gc # <<>> <=> n > 0)
      /\ DOMAIN t.gc = 1 .. n
  BY EmptySeq, LenProperties DEF IsTable
<1>1. /\ \A i, j \in 1 .. n : t.gc[i] = t.gc[j] => i = j
      /\ \A i \in 1 .. n : t.gc[i] \in Nat /\ t.gc[i] \notin DOMAIN t.data
      /\ \A x : x \in first .. t.idx - 1 <=>
               x \in DOMAIN t.data \/ \E i \in 1 .. n : t.gc[i] = x
  BY TableFacts
<1>2. /\ u.data = Assign(t.data, k, v)
      /\ DOMAIN u.data = DOMAIN t.data \cup {k}
      /\ u.data[k] = v
      /\ \A x \in DOMAIN t.data \ {k} : u.data[x] = t.data[x]
  BY DEF Add, Assign
<1>3. CASE t.gc # <<>>
  <2>1. /\ k = t.gc[n] /\ u.idx = t.idx /\ u.gc = Front(t.gc)
        /\ n > 0
    BY <1>0, <1>3 DEF NextKey, Last, Add
  <2>2. /\ u.gc \in Seq(Nat) /\ Len(u.gc) = n - 1
        /\ \A i \in 1 .. n - 1 : u.gc[i] = t.gc[i]
    BY <1>0, <2>1, PopLemma DEF IsTable
  <2>3. k \in Nat \ DOMAIN t.data /\ k \in first .. t.idx - 1
    BY <1>0, <1>1, <2>1
  <2>4. RecycledAreFree(u.gc, DOMAIN u.data)
    <3>1. \A i, j \in 1 .. n - 1 : u.gc[i] = u.gc[j] => i = j
      <4> HIDE DEF n, u, k
      <4> QED BY <1>0, <1>1, <2>2
    <3>2. \A i \in 1 .. n - 1 : u.gc[i] \notin DOMAIN t.data
      <4> HIDE DEF n, u, k
      <4> QED BY <1>0, <1>1, <2>2
    <3>3. \A i \in 1 .. n - 1 : u.gc[i] # k
      <4> HIDE DEF n, u, k
      <4> QED BY <1>0, <1>1, <2>1, <2>2
    <3> HIDE DEF n, u, k
    <3> QED BY <1>2, <2>2, <3>1, <3>2, <3>3 DEF RecycledAreFree
  <2>5. DOMAIN u.gc = 1 .. n - 1
    BY <2>2, LenProperties
  <2>6. KeysAccounted(first, u.idx, u.gc, DOMAIN u.data)
    <3>1. \A x : x \in DOMAIN u.data \cup ToSet(u.gc) <=>
                 x \in DOMAIN t.data \/ x = k \/ \E i \in 1 .. n - 1 : t.gc[i] = x
      BY <1>2, <2>2, <2>5 DEF ToSet
    <3>2. \A x : (\E i \in 1 .. n : t.gc[i] = x) <=>
                 x = k \/ \E i \in 1 .. n - 1 : t.gc[i] = x
      BY <1>0, <2>1
    <3> QED BY <1>1, <2>1, <3>1, <3>2 DEF KeysAccounted
  <2> QED BY <1>2, <2>1, <2>2, <2>3, <2>4, <2>6 DEF WellFormed, IsTable
<1>4. CASE t.gc = <<>>
  <2>1. k = t.idx /\ u.idx = t.idx + 1 /\ u.gc = t.gc /\ n = 0
    BY <1>0, <1>4 DEF NextKey, Add
  <2>2. k \in Nat \ DOMAIN t.data
    BY <1>1, <2>1 DEF IsTable
  <2>3. RecycledAreFree(u.gc, DOMAIN u.data)
    BY <2>1 DEF RecycledAreFree
  <2>4. KeysAccounted(first, u.idx, u.gc, DOMAIN u.data)
    <3>1. ToSet(u.gc) = {}
      BY <1>0, <2>1 DEF ToSet
    <3>2. DOMAIN t.data = first .. t.idx - 1
      <4>1. \A x : x \in first .. t.idx - 1 <=> x \in DOMAIN t.data
        <5> HIDE DEF n, k, u
        <5>1. 1 .. n = {}
          BY <2>1
        <5> QED BY <1>1, <5>1
      <4> QED BY <4>1
    <3>3. first .. t.idx = (first .. t.idx - 1) \cup {t.idx}
      BY DEF IsTable
    <3> QED BY <1>2, <2>1, <3>1, <3>2, <3>3 DEF KeysAccounted, IsTable
  <2> QED BY <1>2, <2>1, <2>2, <2>3, <2>4 DEF WellFormed, IsTable
<1> QED BY <1>3, <1>4

(* del of a key that is in use leaves the table well-formed and every      *)
(* other binding as it was.                                                *)
LEMMA DelLemma ==
  ASSUME NEW V, NEW first \in Nat, NEW t, NEW k \in DOMAIN t.data,
         IsTable(V, t), WellFormed(first, t)
  PROVE  /\ IsTable(V, Del(t, k))
         /\ WellFormed(first, Del(t, k))
         /\ Del(t, k).idx = t.idx
         /\ DOMAIN Del(t, k).data = DOMAIN t.data \ {k}
         /\ \A x \in DOMAIN t.data \ {k} : Del(t, k).data[x] = t.data[x]
<1> DEFINE u == Del(t, k)
           n == Len(t.gc)
<1>0. /\ n \in Nat /\ k \in Nat
      /\ DOMAIN t.gc = 1 .. n
  BY TableFacts DEF IsTable
<1>1. /\ \A i, j \in 1 .. n : t.gc[i] = t.gc[j] => i = j
      /\ \A i \in 1 .. n : t.gc[i] \in Nat /\ t.gc[i] \notin DOMAIN t.data
      /\ \A x : x \in first .. t.idx - 1 <=>
               x \in DOMAIN t.data \/ \E i \in 1 .. n : t.gc[i] = x
  BY TableFacts
<1>2. /\ u.idx = t.idx
      /\ u.gc = Append(t.gc, k)
      /\ DOMAIN u.data = DOMAIN t.data \ {k}
      /\ \A x \in DOMAIN t.data \ {k} : u.data[x] = t.data[x]
  BY DEF Del, Delete
<1>3. /\ u.gc \in Seq(Nat) /\ Len(u.gc) = n + 1
      /\ u.gc[n + 1] = k
      /\ \A i \in 1 .. n : u.gc[i] = t.gc[i]
  BY <1>0, <1>2, PushLemma DEF IsTable
<1>4. DOMAIN u.gc = 1 .. n + 1
  BY <1>3, LenProperties
<1> HIDE DEF u, n
<1>5. RecycledAreFree(u.gc, DOMAIN u.data)
  <2>1. \A i \in 1 .. n + 1 : i \in 1 .. n \/ i = n + 1
    BY <1>0
  <2>2. \A i, j \in 1 .. n + 1 : u.gc[i] = u.gc[j] => i = j
    BY <1>1, <1>3, <2>1
  <2>3. \A i \in 1 .. n + 1 : u.gc[i] \notin DOMAIN u.data
    BY <1>1, <1>2, <1>3, <2>1
  <2> QED BY <1>3, <2>2, <2>3 DEF RecycledAreFree
<1>6. KeysAccounted(first, u.idx, u.gc, DOMAIN u.data)
  <2>1. \A x : (\E i \in 1 .. n + 1 : u.gc[i] = x) <=>
               x = k \/ \E i \in 1 .. n : t.gc[i] = x
    <3>1. \A i : i \in 1 .. n + 1 <=> i \in 1 .. n \/ i = n + 1
      BY <1>0
    <3> QED BY <1>3, <3>1
  <2>2. \A x : x \in DOMAIN u.data \cup ToSet(u.gc) <=> x \in first .. t.idx - 1
    <3>1. \A x : x \in ToSet(u.gc) <=> \E i \in 1 .. n + 1 : u.gc[i] = x
      BY <1>4 DEF ToSet
    <3>2. \A x : x \in DOMAIN u.data \cup ToSet(u.gc) <=>
                 x \in DOMAIN t.data \/ \E i \in 1 .. n : t.gc[i] = x
      BY <1>2, <2>1, <3>1
    <3> QED BY <1>1, <3>2
  <2> QED BY <1>2, <2>2 DEF KeysAccounted
<1> QED BY <1>2, <1>3, <1>5, <1>6 DEF u, WellFormed, IsTable

---------------------------------------------------------------------------

(* The program takes every precaution. *)
Careful == ~UsesReleased /\ ~ReleasesEarly /\ ~ReleasesNull

MaybeObject == Objects \cup {Nil}

TypeInv ==
  /\ IsTable(Objects, tab)
  /\ var \in [Vars -> [idx : Nat, valid : BOOLEAN, obj : MaybeObject]]
  /\ cell \in [Cells -> [idx : Nat, obj : MaybeObject]]
  /\ stage \in [Objects -> {"new", "live", "released"}]
  /\ got \in [want : MaybeObject, have : MaybeObject]
  /\ panic \in [at : {"argument", "host_param"}, obj : MaybeObject] \cup {Nil}

(* Index i is that of the live object o. *)
Binds(i, o) ==
  /\ o \in Objects /\ stage[o] = "live"
  /\ i \in DOMAIN tab.data /\ tab.data[i] = o

(* A variable holds nothing, what it has released, or a live reference.    *)
VarsInv ==
  \A v \in Vars :
    \/ var[v] = ZeroRef
    \/ var[v].obj \in Objects /\ stage[var[v].obj] = "released"
    \/ var[v].valid /\ Binds(var[v].idx, var[v].obj)

(* Wasm code holds null or a live reference. *)
CellsInv == \A c \in Cells : cell[c] = NullRef \/ Binds(cell[c].idx, cell[c].obj)

(* What is in the table is live, and there once. *)
TableInv ==
  /\ \A k \in DOMAIN tab.data : stage[tab.data[k]] = "live"
  /\ \A j, k \in DOMAIN tab.data : tab.data[j] = tab.data[k] => j = k

IndexInv == WellFormed(1, tab) /\ 1 <= tab.idx

IInv == TypeInv /\ VarsInv /\ CellsInv /\ TableInv /\ IndexInv /\ GetRefReturnsIt

---------------------------------------------------------------------------

(* The index 0 is never in the table. *)
LEMMA ZeroIsFree == TypeInv /\ IndexInv => 0 \notin DOMAIN tab.data
<1> SUFFICES ASSUME TypeInv, IndexInv PROVE 0 \notin DOMAIN tab.data
  OBVIOUS
<1>1. \A x : x \in 1 .. tab.idx - 1 <=>
         x \in DOMAIN tab.data \/ \E i \in 1 .. Len(tab.gc) : tab.gc[i] = x
  BY TableFacts DEF TypeInv, IndexInv
<1>2. tab.idx \in Nat
  BY DEF TypeInv, IsTable
<1> QED BY <1>1, <1>2

(* What a reference from wasm code becomes in Go. *)
LEMMA FromWasmFacts ==
  ASSUME TypeInv, CellsInv, IndexInv, NEW c \in Cells
  PROVE  /\ FromWasm(c) \in [idx : Nat, valid : BOOLEAN, obj : MaybeObject]
         /\ \/ FromWasm(c) = ZeroRef
            \/ FromWasm(c).valid /\ Binds(FromWasm(c).idx, FromWasm(c).obj)
<1>1. cell[c] \in [idx : Nat, obj : MaybeObject]
  BY DEF TypeInv
<1>2. CASE cell[c] = NullRef
  <2>1. FromWasm(c) = ZeroRef
    <3>1. cell[c].idx = 0 /\ cell[c].obj = Nil
      BY <1>2 DEF NullRef
    <3>2. (cell[c].idx \in DOMAIN tab.data) = FALSE
      BY <3>1, ZeroIsFree
    <3> QED BY <3>1, <3>2, Zenon DEF FromWasm, ZeroRef
  <2> QED BY <2>1 DEF ZeroRef, MaybeObject
<1>3. CASE Binds(cell[c].idx, cell[c].obj)
  <2>1. FromWasm(c) = [idx |-> cell[c].idx, valid |-> TRUE, obj |-> cell[c].obj]
    BY <1>3 DEF FromWasm, Binds
  <2> QED BY <1>1, <1>3, <2>1
<1> QED BY <1>2, <1>3 DEF CellsInv

LEMMA InitIInv == Init => IInv
<1> SUFFICES ASSUME Init PROVE IInv
  OBVIOUS
<1>1. /\ tab.idx = 1 /\ tab.gc = <<>> /\ DOMAIN tab.data = {}
      /\ tab = [idx |-> 1, gc |-> <<>>, data |-> EmptyMap]
  BY DEF Init, NewTable, FirstIndex, EmptyMap
<1>2. <<>> \in Seq(Nat) /\ Len(<<>>) = 0 /\ DOMAIN <<>> = {}
  BY EmptySeq
<1>3. IsTable(Objects, tab)
  BY <1>1, <1>2 DEF IsTable
<1>4. WellFormed(1, tab)
  <2>1. ToSet(tab.gc) = {}
    BY <1>1, <1>2 DEF ToSet
  <2>2. 1 .. tab.idx - 1 = {}
    BY <1>1
  <2>3. RecycledAreFree(tab.gc, DOMAIN tab.data)
    BY <1>1, <1>2 DEF RecycledAreFree
  <2> QED BY <1>1, <2>1, <2>2, <2>3 DEF WellFormed, KeysAccounted
<1>5. TypeInv
  BY <1>3 DEF Init, TypeInv, ZeroRef, NullRef, MaybeObject
<1>6. VarsInv /\ CellsInv
  BY DEF Init, VarsInv, CellsInv
<1>7. TableInv /\ IndexInv
  BY <1>1, <1>4 DEF TableInv, IndexInv
<1> QED BY <1>5, <1>6, <1>7 DEF IInv, Init, GetRefReturnsIt

---------------------------------------------------------------------------
(* The actions. *)

LEMMA NewExternRefStep ==
  ASSUME Careful, IInv, NEW v \in Vars, NEW o \in Objects, NewExternRef(v, o)
  PROVE  IInv'
<1>0. PICK k : k = NextKey(tab)
  OBVIOUS
<1>1. /\ k \in Nat \ DOMAIN tab.data
      /\ IsTable(Objects, tab') /\ WellFormed(1, tab') /\ 1 <= tab'.idx
      /\ DOMAIN tab'.data = DOMAIN tab.data \cup {k}
      /\ tab'.data[k] = o
      /\ \A x \in DOMAIN tab.data : tab'.data[x] = tab.data[x]
  <2>1. IsTable(Objects, tab) /\ WellFormed(1, tab) /\ 1 <= tab.idx /\ 1 \in Nat
    BY DEF IInv, TypeInv, IndexInv
  <2>2. tab' = Add(tab, o)
    BY DEF NewExternRef
  <2>3. /\ NextKey(tab) \in Nat \ DOMAIN tab.data
        /\ IsTable(Objects, Add(tab, o))
        /\ WellFormed(1, Add(tab, o))
    BY <2>1, AddLemma
  <2>4. 1 <= Add(tab, o).idx
    BY <2>1, AddLemma
  <2>5. /\ DOMAIN Add(tab, o).data = DOMAIN tab.data \cup {NextKey(tab)}
        /\ Add(tab, o).data[NextKey(tab)] = o
        /\ \A x \in DOMAIN tab.data : Add(tab, o).data[x] = tab.data[x]
    BY <2>3 DEF Add, Assign
  <2> QED BY <1>0, <2>2, <2>3, <2>4, <2>5
<1>2. /\ stage[o] = "new"
      /\ stage' = [stage EXCEPT ![o] = "live"]
      /\ var' = [var EXCEPT ![v] = [idx |-> k, valid |-> TRUE, obj |-> o]]
      /\ UNCHANGED <<cell, got, panic>>
  BY <1>0 DEF NewExternRef
<1>3. TypeInv'
  BY <1>1, <1>2 DEF IInv, TypeInv, MaybeObject
<1>4. \A i, p : Binds(i, p) => Binds(i, p)'
  BY <1>1, <1>2 DEF IInv, TypeInv, Binds
<1>5. Binds(k, o)'
  <2>1. stage'[o] = "live"
    BY <1>2 DEF IInv, TypeInv
  <2> QED BY <1>1, <2>1, o \in Objects DEF Binds
<1>6. VarsInv'
  <2> SUFFICES ASSUME NEW w \in Vars
               PROVE  \/ var'[w] = ZeroRef
                      \/ var'[w].obj \in Objects /\ stage'[var'[w].obj] = "released"
                      \/ var'[w].valid /\ Binds(var[w].idx, var[w].obj)'
    BY DEF VarsInv
  <2>1. CASE w = v
    <3>1. var'[w] = [idx |-> k, valid |-> TRUE, obj |-> o]
      BY <2>1, <1>2 DEF IInv, TypeInv
    <3> QED BY <3>1, <1>5 DEF Binds
  <2>2. CASE w # v
    <3>1. var'[w] = var[w]
      BY <2>2, <1>2 DEF IInv, TypeInv
    <3>2. CASE var[w].obj \in Objects /\ stage[var[w].obj] = "released"
      BY <3>1, <3>2, <1>2 DEF IInv, TypeInv
    <3> QED BY <3>1, <3>2, <1>4 DEF IInv, VarsInv
  <2> QED BY <2>1, <2>2
<1>7. CellsInv'
  BY <1>2, <1>4 DEF IInv, CellsInv
<1>8. TableInv'
  <2>1. \A x \in DOMAIN tab.data : tab.data[x] # o /\ tab.data[x] \in Objects
    BY <1>2 DEF IInv, TypeInv, IsTable, TableInv
  <2> QED BY <2>1, <1>1, <1>2 DEF IInv, TypeInv, TableInv
<1>9. IndexInv' /\ GetRefReturnsIt'
  BY <1>1, <1>2 DEF IInv, IndexInv, GetRefReturnsIt
<1> QED BY <1>3, <1>6, <1>7, <1>8, <1>9 DEF IInv

(* A variable that may be used holds nothing or a live reference. *)
LEMMA UsableFacts ==
  ASSUME Careful, IInv, NEW v \in Vars, Usable(v)
  PROVE  var[v] = ZeroRef \/ (var[v].valid /\ Binds(var[v].idx, var[v].obj))
BY ConstantsAssumption DEF Careful, IInv, VarsInv, Usable, Live, ZeroRef, Binds

LEMMA ReleaseStep ==
  ASSUME Careful, IInv, NEW v \in Vars, Release(v)
  PROVE  IInv'
<1> DEFINE i == var[v].idx
           o == var[v].obj
<1>1. o # Nil /\ o \in Objects /\ Binds(i, o) /\ ~Shared(v)
  BY UsableFacts, ConstantsAssumption DEF Release, Careful, ZeroRef, Binds
<1>2. /\ IsTable(Objects, tab') /\ WellFormed(1, tab')
      /\ tab'.idx = tab.idx
      /\ DOMAIN tab'.data = DOMAIN tab.data \ {i}
      /\ \A x \in DOMAIN tab.data \ {i} : tab'.data[x] = tab.data[x]
  <2>1. i \in DOMAIN tab.data /\ tab' = Del(tab, i)
    BY <1>1 DEF Binds, Release
  <2>2. IsTable(Objects, tab) /\ WellFormed(1, tab) /\ 1 \in Nat
    BY DEF IInv, TypeInv, IndexInv
  <2> HIDE DEF i
  <2>3. IsTable(Objects, Del(tab, i)) /\ WellFormed(1, Del(tab, i))
    BY <2>1, <2>2, DelLemma
  <2>4. /\ Del(tab, i).idx = tab.idx
        /\ DOMAIN Del(tab, i).data = DOMAIN tab.data \ {i}
        /\ \A x \in DOMAIN tab.data \ {i} : Del(tab, i).data[x] = tab.data[x]
    BY DEF Del, Delete
  <2> QED BY <2>1, <2>3, <2>4
<1>3. /\ stage' = [p \in Objects |-> IF p = o THEN "released" ELSE stage[p]]
      /\ UNCHANGED <<var, cell, got, panic>>
  BY DEF Release
<1>4. \A j, p : p # o /\ Binds(j, p) => Binds(j, p)'
  BY <1>1, <1>2, <1>3 DEF Binds
<1>5. TypeInv'
  BY <1>2, <1>3 DEF IInv, TypeInv
<1>6. VarsInv'
  <2> SUFFICES ASSUME NEW w \in Vars
               PROVE  \/ var[w] = ZeroRef
                      \/ var[w].obj \in Objects /\ stage'[var[w].obj] = "released"
                      \/ var[w].valid /\ Binds(var[w].idx, var[w].obj)'
    BY <1>3 DEF VarsInv
  <2>1. CASE var[w].obj = o
    BY <2>1, <1>1, <1>3
  <2>2. CASE var[w].obj # o
    BY <2>2, <1>3, <1>4 DEF IInv, VarsInv
  <2> QED BY <2>1, <2>2
<1>7. CellsInv'
  <2>1. \A c \in Cells : cell[c].obj # o
    BY <1>1 DEF Shared
  <2> QED BY <2>1, <1>3, <1>4 DEF IInv, CellsInv
<1>8. TableInv'
  <2>1. \A x \in DOMAIN tab.data \ {i} : tab.data[x] # o /\ tab.data[x] \in Objects
    BY <1>1 DEF IInv, TypeInv, IsTable, TableInv, Binds
  <2> QED BY <2>1, <1>2, <1>3 DEF IInv, TableInv
<1>9. IndexInv' /\ GetRefReturnsIt'
  BY <1>2, <1>3 DEF IInv, IndexInv, GetRefReturnsIt
<1> QED BY <1>5, <1>6, <1>7, <1>8, <1>9 DEF IInv

(* The other actions leave the table alone, and put into a variable or     *)
(* into wasm code only what is there already.                              *)
LEMMA FrameLemma ==
  ASSUME IInv, UNCHANGED <<tab, stage>>, TypeInv', GetRefReturnsIt',
         \A w \in Vars : \/ var'[w] = ZeroRef
                         \/ \E u \in Vars : var'[w] = var[u]
                         \/ var'[w].valid /\ Binds(var'[w].idx, var'[w].obj),
         \A c \in Cells : \/ cell'[c] = NullRef
                          \/ Binds(cell'[c].idx, cell'[c].obj)
  PROVE  IInv'
<1>1. \A i, p : Binds(i, p) => Binds(i, p)'
  BY DEF Binds
<1>2. VarsInv'
  <2> SUFFICES ASSUME NEW w \in Vars
               PROVE  \/ var'[w] = ZeroRef
                      \/ var'[w].obj \in Objects /\ stage'[var'[w].obj] = "released"
                      \/ var'[w].valid /\ Binds(var[w].idx, var[w].obj)'
    BY DEF VarsInv
  <2>1. CASE \E u \in Vars : var'[w] = var[u]
    <3> PICK u \in Vars : var'[w] = var[u]
      BY <2>1
    <3> QED BY <1>1 DEF IInv, VarsInv
  <2> QED BY <2>1, <1>1
<1>3. CellsInv'
  BY <1>1 DEF CellsInv
<1>4. TableInv' /\ IndexInv'
  BY DEF IInv, TableInv, IndexInv
<1> QED BY <1>2, <1>3, <1>4 DEF IInv

LEMMA CopyStep ==
  ASSUME IInv, NEW v \in Vars, NEW w \in Vars, Copy(v, w)
  PROVE  IInv'
<1>1. TypeInv' /\ GetRefReturnsIt'
  BY DEF Copy, IInv, TypeInv, GetRefReturnsIt
<1>2. \A x \in Vars : \E u \in Vars : var'[x] = var[u]
  BY DEF Copy, IInv, TypeInv
<1> QED BY <1>1, <1>2, FrameLemma DEF Copy, IInv, CellsInv

LEMMA GetRefStep ==
  ASSUME Careful, IInv, NEW v \in Vars, GetRef(v)
  PROVE  IInv'
<1>1. ObjectOf(v) = var[v].obj
  <2>1. CASE var[v] = ZeroRef
    BY <2>1 DEF ZeroRef, ObjectOf
  <2>2. CASE var[v].valid /\ Binds(var[v].idx, var[v].obj)
    BY <2>2 DEF ObjectOf, Get, Lookup, Binds
  <2> QED BY <2>1, <2>2, UsableFacts DEF GetRef
<1>2. got' = [want |-> var[v].obj, have |-> var[v].obj]
  BY <1>1 DEF GetRef
<1>3. TypeInv' /\ GetRefReturnsIt'
  BY <1>2 DEF GetRef, IInv, TypeInv, GetRefReturnsIt
<1> QED BY <1>3, FrameLemma DEF GetRef, IInv, CellsInv

LEMMA ToWasmStep ==
  ASSUME Careful, IInv, NEW v \in Vars, NEW c \in Cells, ToWasm(v, c)
  PROVE  IInv'
<1>1. CASE var[v].valid
  <2>1. cell' = [cell EXCEPT ![c] = [idx |-> var[v].idx, obj |-> var[v].obj]]
    BY <1>1 DEF ToWasm
  <2>2. Binds(var[v].idx, var[v].obj)
    BY <1>1, UsableFacts DEF ToWasm, ZeroRef
  <2>3. TypeInv' /\ GetRefReturnsIt'
    BY <1>1, <2>1 DEF ToWasm, IInv, TypeInv, GetRefReturnsIt
  <2>4. \A d \in Cells : cell'[d] = NullRef \/ Binds(cell'[d].idx, cell'[d].obj)
    BY <2>1, <2>2 DEF IInv, TypeInv, CellsInv
  <2> QED BY <2>3, <2>4, FrameLemma DEF ToWasm
<1>2. CASE ~var[v].valid
  <2>1. TypeInv' /\ GetRefReturnsIt'
    BY <1>2 DEF ToWasm, IInv, TypeInv, GetRefReturnsIt
  <2> QED BY <1>2, <2>1, FrameLemma DEF ToWasm, IInv, CellsInv
<1> QED BY <1>1, <1>2

LEMMA ReceiveStep ==
  ASSUME IInv, NEW v \in Vars, NEW c \in Cells, Result(c, v) \/ HostParam(c, v)
  PROVE  IInv'
<1>1. /\ FromWasm(c) \in [idx : Nat, valid : BOOLEAN, obj : MaybeObject]
      /\ \/ FromWasm(c) = ZeroRef
         \/ FromWasm(c).valid /\ Binds(FromWasm(c).idx, FromWasm(c).obj)
  BY FromWasmFacts DEF IInv
<1>2. CASE var' = [var EXCEPT ![v] = FromWasm(c)] /\ UNCHANGED panic
  <2>1. TypeInv' /\ GetRefReturnsIt'
    BY <1>1, <1>2 DEF Result, HostParam, IInv, TypeInv, GetRefReturnsIt
  <2>2. \A w \in Vars : var'[w] = FromWasm(c) \/ var'[w] = var[w]
    BY <1>2 DEF IInv, TypeInv
  <2>3. \A w \in Vars : \/ var'[w] = ZeroRef
                        \/ \E u \in Vars : var'[w] = var[u]
                        \/ var'[w].valid /\ Binds(var'[w].idx, var'[w].obj)
    BY <1>1, <2>2
  <2> QED BY <2>1, <2>3, FrameLemma DEF Result, HostParam, IInv, CellsInv
<1>3. CASE UNCHANGED var /\ panic' = [at |-> "host_param", obj |-> cell[c].obj]
  <2>1. TypeInv' /\ GetRefReturnsIt'
    BY <1>3 DEF Result, HostParam, IInv, TypeInv, GetRefReturnsIt
  <2> QED BY <1>3, <2>1, FrameLemma DEF Result, HostParam, IInv, CellsInv
<1> QED BY <1>2, <1>3 DEF Result, HostParam

LEMMA WasmAssignStep ==
  ASSUME IInv, NEW c \in Cells, NEW r \in {cell[d] : d \in Cells} \cup {NullRef},
         WasmAssign(c, r)
  PROVE  IInv'
<1>1. r = NullRef \/ (r \in [idx : Nat, obj : MaybeObject] /\ Binds(r.idx, r.obj))
  BY DEF IInv, TypeInv, CellsInv
<1>2. TypeInv' /\ GetRefReturnsIt'
  BY <1>1 DEF WasmAssign, IInv, TypeInv, GetRefReturnsIt, NullRef, MaybeObject
<1>3. \A d \in Cells : cell'[d] = NullRef \/ Binds(cell'[d].idx, cell'[d].obj)
  BY <1>1 DEF WasmAssign, IInv, TypeInv, CellsInv
<1> QED BY <1>2, <1>3, FrameLemma DEF WasmAssign

LEMMA StepIInv == Careful /\ IInv /\ [Next]_vars => IInv'
<1> SUFFICES ASSUME Careful, IInv, [Next]_vars PROVE IInv'
  OBVIOUS
<1>1. CASE UNCHANGED vars
  BY <1>1 DEF vars, IInv, TypeInv, VarsInv, CellsInv, TableInv, IndexInv, GetRefReturnsIt, Binds
<1>2. ASSUME NEW v \in Vars, NEW o \in Objects, NewExternRef(v, o) PROVE IInv'
  BY <1>2, NewExternRefStep
<1>3. ASSUME NEW v \in Vars, Release(v) \/ GetRef(v) PROVE IInv'
  BY <1>3, ReleaseStep, GetRefStep
<1>4. ASSUME NEW v \in Vars, NEW w \in Vars, Copy(v, w) PROVE IInv'
  BY <1>4, CopyStep
<1>5. ASSUME NEW v \in Vars, NEW c \in Cells,
             ToWasm(v, c) \/ Result(c, v) \/ HostParam(c, v)
      PROVE  IInv'
  BY <1>5, ToWasmStep, ReceiveStep
<1>6. ASSUME NEW c \in Cells, NEW r \in {cell[d] : d \in Cells} \cup {NullRef},
             WasmAssign(c, r)
      PROVE  IInv'
  BY <1>6, WasmAssignStep
<1> QED BY <1>1, <1>2, <1>3, <1>4, <1>5, <1>6 DEF Next

(* The inductive invariant of a careful program. *)
LEMMA Invariance == ASSUME Careful PROVE Spec => []IInv
<1>1. IInv /\ [Next]_vars => IInv'
  BY StepIInv
<1> QED BY <1>1, InitIInv, PTL DEF Spec

---------------------------------------------------------------------------

(* The variables keep their types. *)
THEOREM TypeCorrect == ASSUME Careful PROVE Spec => []TypeOK
<1>1. IInv => TypeOK
  BY DEF IInv, TypeInv, TypeOK, IsTable, MaybeObject
<1> QED BY <1>1, Invariance, PTL

(* externRefManager never recycles an index twice or while it is in use,   *)
(* loses none, and never hands out the index 0 of ref.null.                *)
THEOREM IndicesAreRecycledOnce == ASSUME Careful PROVE Spec => []IndicesRecycledOnce
<1>1. IInv => IndicesRecycledOnce
  BY DEF IInv, IndexInv, IndicesRecycledOnce
<1> QED BY <1>1, Invariance, PTL

(* externRefManager has an object under one index at most, and every copy  *)
(* of a live reference, in Go or in wasm code, finds its object there.     *)
THEOREM CopiesAlwaysResolve == ASSUME Careful PROVE Spec => []CopiesResolve
<1>1. IInv => CopiesResolve
  <2> SUFFICES ASSUME IInv,
                      NEW r \in {var[v] : v \in Vars} \cup {cell[c] : c \in Cells},
                      Live(r.obj)
               PROVE  Get(tab, r.idx) = r.obj
    BY DEF IInv, TableInv, CopiesResolve
  <2>1. Binds(r.idx, r.obj)
    BY DEF IInv, VarsInv, CellsInv, Live, ZeroRef, NullRef
  <2> QED BY <2>1 DEF Binds, Get, Lookup
<1> QED BY <1>1, Invariance, PTL

(* GetRef returns the object that NewExternRef was called with.            *)
THEOREM GetRefIsRight == ASSUME Careful PROVE Spec => []GetRefReturnsIt
<1>1. IInv => GetRefReturnsIt
  BY DEF IInv
<1> QED BY <1>1, Invariance, PTL

(* fromWasmEdgeValue takes exactly the references that are not null for    *)
(* valid ones.                                                             *)
THEOREM ValidityMeansNotNull == ASSUME Careful PROVE Spec => []ValidUnlessNull
<1>1. IInv => ValidUnlessNull
  <2> SUFFICES ASSUME IInv, NEW c \in Cells
               PROVE  FromWasm(c).valid <=> cell[c].idx # 0
    BY DEF ValidUnlessNull
  <2>1. 0 \notin DOMAIN tab.data
    BY ZeroIsFree DEF IInv
  <2>2. CASE cell[c] = NullRef
    <3>1. cell[c].idx = 0
      BY <2>2 DEF NullRef
    <3> QED BY <2>1, <3>1 DEF FromWasm
  <2>3. CASE Binds(cell[c].idx, cell[c].obj)
    <3>1. cell[c].idx \in DOMAIN tab.data /\ cell[c].idx # 0
      BY <2>1, <2>3 DEF Binds
    <3> QED BY <3>1 DEF FromWasm
  <2> QED BY <2>2, <2>3 DEF IInv, CellsInv
<1> QED BY <1>1, Invariance, PTL
===========================================================================
