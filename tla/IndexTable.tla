---------------------------- MODULE IndexTable ----------------------------
(***************************************************************************)
(* The index table behind hostFunctionManager (hostfunc.go) and            *)
(* externRefManager (value.go).  A Go value cannot be handed to the C      *)
(* library, so the package stores it in a map and hands out its key.  Keys *)
(* are taken from the stack gc of recycled keys and, when gc is empty,     *)
(* from the counter idx.  The two managers run the same statements; they   *)
(* differ in the first key (0 and 1) and in what they store.               *)
(*                                                                         *)
(* Each operator here is one call with its mutex held.                     *)
(* HostFuncManager shows that the statements under the mutex amount to     *)
(* that, so the other modules use these operators as single steps.         *)
(***************************************************************************)
EXTENDS Naturals, SequencesExt

CONSTANT Nil    \* what a Go map yields for a key it does not hold

(* A Go map: lookup, assignment, delete. *)
Lookup(m, k) == IF k \in DOMAIN m THEN m[k] ELSE Nil
Assign(m, k, v) == [x \in DOMAIN m \cup {k} |-> IF x = k THEN v ELSE m[x]]
Delete(m, k) == [x \in DOMAIN m \ {k} |-> m[x]]

EmptyMap == [x \in {} |-> Nil]

NewTable(first) == [idx |-> first, gc |-> <<>>, data |-> EmptyMap]

(* The key that add returns next. *)
NextKey(t) == IF t.gc # <<>> THEN Last(t.gc) ELSE t.idx

(* Mistake: the key is read from gc and left in it. *)
Add_NoPop(t, v) ==
  [idx  |-> IF t.gc # <<>> THEN t.idx ELSE t.idx + 1,
   gc   |-> t.gc,
   data |-> Assign(t.data, NextKey(t), v)]

Add(t, v) ==
  [idx  |-> IF t.gc # <<>> THEN t.idx ELSE t.idx + 1,
   gc   |-> IF t.gc # <<>> THEN Front(t.gc) ELSE t.gc,
   data |-> Assign(t.data, NextKey(t), v)]

Get(t, k) == Lookup(t.data, k)

Del(t, k) ==
  [idx |-> t.idx, gc |-> Append(t.gc, k), data |-> Delete(t.data, k)]

---------------------------------------------------------------------------

(* No key is recycled twice, and no recycled key is in use. *)
RecycledAreFree(gc, live) ==
  /\ \A i, j \in 1 .. Len(gc) : gc[i] = gc[j] => i = j
  /\ \A i \in 1 .. Len(gc) : gc[i] \notin live

(* Every key ever handed out is either in use or waiting in gc: no key is  *)
(* lost, and idx is still beyond all of them.                              *)
KeysAccounted(first, idx, gc, live) == live \cup ToSet(gc) = first .. idx - 1

WellFormed(first, t) ==
  /\ RecycledAreFree(t.gc, DOMAIN t.data)
  /\ KeysAccounted(first, t.idx, t.gc, DOMAIN t.data)
===========================================================================
