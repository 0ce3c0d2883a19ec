-------------------------- MODULE Ownership_proofs --------------------------
(***************************************************************************)
(* Proofs about Ownership, for any variables, objects and programs.        *)
(*                                                                         *)
(* Most steps are put together from a few changes - something is deleted,  *)
(* created, borrowed, moved, linked - and some from two of them: a VM      *)
(* deletes its active module and makes another.  The invariant is          *)
(* therefore an operator of the values V, O, L, E and S of var, obj,       *)
(* links, exec and seen, and a lemma about a change relates values.        *)
(***************************************************************************)
EXTENDS Ownership, FiniteSetTheorems, TLAPS

Parts == {"table", "memory", "global"}

(* A VM holds modules, a module its parts; nothing else holds anything.    *)
ObjsOK(O) ==
  \A o \in Objs :
    /\ O[o].kind = "" => O[o] = NoObject
    /\ \A h \in O[o].holds : \/ O[o].kind = "vm" /\ O[h].kind = "module"
                             \/ O[o].kind = "module" /\ O[h].kind \in Parts
    /\ O[o].active # None => O[o].kind = "vm" /\ O[o].active \in O[o].holds
    /\ \A u \in O[o].uses : O[u].kind # ""

(* No variable dangles, and some types tell what the object is.            *)
VarOK(x, O) ==
  /\ x.inner # None => O[x.inner].kind # ""
  /\ x.own => /\ x.inner # None /\ O[x.inner].kind = x.kind
              /\ x.kind \notin {"importtype", "exporttype", "tag", "tagtype"}
  /\ x.inner # None /\ x.kind \in {"vm", "module"} => O[x.inner].kind = x.kind
  /\ x.kind = "async" => x.own

VarsOK(V, O) == \A v \in Vars : VarOK(V[v], O)

(* Stores find modules, but no active one. *)
LinksOK(L, O) ==
  \A s, m \in Objs : <<s, m>> \in L =>
    /\ O[s].kind # "" /\ O[m].kind = "module"
    /\ \A o \in Objs : O[o].active # m

OwnersOK(V, O) ==
  /\ \A v, w \in Vars : V[v].own /\ V[w].own /\ V[v].inner = V[w].inner => v = w
  /\ \A v \in Vars, p \in Objs : V[v].own => V[v].inner \notin O[p].holds
  /\ \A p, q, o \in Objs : o \in O[p].holds /\ o \in O[q].holds => p = q
  /\ \A o \in Objs : O[o].kind # "" =>
       (\E v \in Vars : V[v].own /\ V[v].inner = o) \/ (\E p \in Objs : o \in O[p].holds)

(* The program has not been told of the end of an execution as long as     *)
(* there is none, and until then the objects of the execution exist.       *)
ExecOK(a, x, O, S) ==
  /\ x.st = "none" => x = NoExec
  /\ x.st # "none" => O[a].kind = "async" /\ a \in x.touch
  /\ a \in S => x.st = "ended"
  /\ a \notin S => \A t \in x.touch : O[t].kind # ""
  /\ x.st = "loading" => x.runs \in x.touch /\ O[x.runs].kind = "vm"

ExecsOK(O, E, S) ==
  /\ \A a \in Objs : ExecOK(a, E[a], O, S)
  /\ \A a, b \in Objs \ S : E[a].runs = E[b].runs /\ E[a].runs # None => a = b

(* A module with its parts. *)
Whole(O, m) == {m} \cup O[m].holds

(* Nobody uses anything of D, but what is in D itself. *)
Unneeded(V, O, E, S, D) ==
  /\ \A v \in Vars : V[v].inner \notin D
  /\ \A o \in Objs \ D : O[o].uses \cap D = {}
  /\ \A b \in Objs \ S : E[b].touch \cap D = {}

(* The active module of a VM for which an execution is loading another is  *)
(* not needed any more.                                                    *)
LoadingOK(V, O, E, S) ==
  \A a, m \in Objs : E[a].st = "loading" /\ O[E[a].runs].active = m =>
    Unneeded(V, O, E, S, Whole(O, m))

VarValues == [kind : Kinds \cup {""}, inner : Objs \cup {None}, own : BOOLEAN]
ObjValues == [kind : Kinds \cup {""}, holds : SUBSET Objs, uses : SUBSET Objs,
              active : Objs \cup {None}]
ExecValues == [st : {"none", "loading", "running", "ended"},
               touch : SUBSET Objs, runs : Objs \cup {None}]

TypesOK(V, O, L, E, S) ==
  /\ V \in [Vars -> VarValues] /\ O \in [Objs -> ObjValues] /\ L \subseteq Objs \X Objs
  /\ E \in [Objs -> ExecValues] /\ S \subseteq Objs

Good(V, O, L, E, S) ==
  /\ TypesOK(V, O, L, E, S)
  /\ ObjsOK(O) /\ VarsOK(V, O) /\ LinksOK(L, O) /\ OwnersOK(V, O)
  /\ ExecsOK(O, E, S) /\ LoadingOK(V, O, E, S)

IInv == Good(var, obj, links, exec, seen)

---------------------------------------------------------------------------
(* Nothing to wait for: x is not about to be replaced by an execution. *)
Stays(O, E, x) ==
  \A a, m \in Objs : E[a].st = "loading" /\ O[E[a].runs].active = m => x \notin Whole(O, m)

LEMMA NoObjectFields ==
  /\ NoObject.kind = "" /\ NoObject.holds = {} /\ NoObject.uses = {} /\ NoObject.active = None
BY DEF NoObject, Object

(* The types, component by component. *)
Typed(V, O, L, E, S) ==
  /\ \A v \in Vars : V[v].inner \in Objs \cup {None}
  /\ \A o \in Objs : /\ O[o].holds \subseteq Objs /\ O[o].uses \subseteq Objs
                     /\ O[o].active \in Objs \cup {None}
  /\ \A a \in Objs : /\ E[a].touch \subseteq Objs
                     /\ E[a].st = "loading" => E[a].runs \in Objs
  /\ S \subseteq Objs

LEMMA GoodTypes ==
  ASSUME NEW V, NEW O, NEW L, NEW E, NEW S, Good(V, O, L, E, S)
  PROVE  Typed(V, O, L, E, S)
<1>1. /\ \A v \in Vars : V[v] \in VarValues
      /\ \A o \in Objs : O[o] \in ObjValues
      /\ \A a \in Objs : E[a] \in ExecValues
      /\ L \subseteq Objs \X Objs /\ S \subseteq Objs
  BY DEF Good, TypesOK
<1>2. \A v \in Vars : V[v].inner \in Objs \cup {None}
  BY <1>1 DEF VarValues
<1>3. \A o \in Objs : /\ O[o].holds \subseteq Objs /\ O[o].uses \subseteq Objs
                    /\ O[o].active \in Objs \cup {None}
  BY <1>1 DEF ObjValues
<1>4. \A a \in Objs : E[a].touch \subseteq Objs
  BY <1>1 DEF ExecValues
<1>5. \A a \in Objs : E[a].st = "loading" => E[a].runs \in Objs
  BY <1>4 DEF Good, ExecsOK, ExecOK
<1> QED BY <1>1, <1>2, <1>3, <1>4, <1>5 DEF Typed

(* Objects that exist keep their kind. *)
Grown(O, P) == \A x \in Objs : O[x].kind # "" => P[x].kind = O[x].kind

LEMMA GrownVar ==
  ASSUME NEW O, NEW P, Grown(O, P), NEW x, x.inner \in Objs \cup {None}, VarOK(x, O)
  PROVE  VarOK(x, P)
<1>1. x.inner # None => P[x.inner].kind = O[x.inner].kind
  BY DEF Grown, VarOK
<1> QED BY <1>1 DEF VarOK

LEMMA GrownExecs ==
  ASSUME NEW V, NEW O, NEW L, NEW E, NEW S, Typed(V, O, L, E, S), ExecsOK(O, E, S),
         NEW P, Grown(O, P)
  PROVE  ExecsOK(P, E, S)
<1> SUFFICES ASSUME NEW a \in Objs PROVE ExecOK(a, E[a], P, S)
  BY DEF ExecsOK
<1>1. ExecOK(a, E[a], O, S) /\ E[a].touch \subseteq Objs
  BY DEF ExecsOK, Typed
<1>2. a \notin S => \A t \in E[a].touch : P[t].kind # ""
  BY <1>1 DEF ExecOK, Grown
<1>3. E[a].st # "none" => P[a].kind = "async"
  BY <1>1 DEF ExecOK, Grown
<1>4. E[a].st = "loading" => P[E[a].runs].kind = "vm"
  BY <1>1 DEF ExecOK, Grown
<1> QED BY <1>1, <1>2, <1>3, <1>4 DEF ExecOK

LEMMA GrownLinks ==
  ASSUME NEW O, NEW L, LinksOK(L, O), NEW P, Grown(O, P),
         \A s, m, o \in Objs : <<s, m>> \in L => P[o].active # m
  PROVE  LinksOK(L, P)
<1> SUFFICES ASSUME NEW s \in Objs, NEW m \in Objs, <<s, m>> \in L
             PROVE  P[s].kind # "" /\ P[m].kind = "module"
  BY DEF LinksOK
<1>1. O[s].kind # "" /\ O[m].kind = "module"
  BY DEF LinksOK
<1> QED BY <1>1 DEF Grown

(* A variable that owns nothing is given another value that owns nothing. *)
LEMMA GoodBorrow ==
  ASSUME NEW V, NEW O, NEW L, NEW E, NEW S, Good(V, O, L, E, S),
         NEW v \in Vars, ~V[v].own, NEW x \in VarValues, ~x.own, x.kind # "async",
         x.inner # None => O[x.inner].kind # "" /\ Stays(O, E, x.inner),
         x.inner # None /\ x.kind \in {"vm", "module"} => O[x.inner].kind = x.kind
  PROVE  Good([V EXCEPT ![v] = x], O, L, E, S)
<1> DEFINE W == [V EXCEPT ![v] = x]
<1> USE DEF Good
<1>1. TypesOK(W, O, L, E, S)
  BY DEF TypesOK
<1>2. \A w \in Vars : W[w] = IF w = v THEN x ELSE V[w]
  BY DEF TypesOK
<1> HIDE DEF W
<1>3. VarsOK(W, O)
  BY <1>2 DEF VarsOK, VarOK
<1>4. OwnersOK(W, O)
  <2>1. \A w \in Vars : (W[w].own <=> V[w].own) /\ (V[w].own => W[w] = V[w])
    BY <1>2
  <2> QED BY <2>1 DEF OwnersOK
<1>5. LoadingOK(W, O, E, S)
  <2> SUFFICES ASSUME NEW a \in Objs, NEW m \in Objs,
                      E[a].st = "loading", O[E[a].runs].active = m
               PROVE  Unneeded(W, O, E, S, Whole(O, m))
    BY DEF LoadingOK
  <2>1. Unneeded(V, O, E, S, Whole(O, m))
    BY DEF LoadingOK
  <2>2. x.inner \notin Whole(O, m)
    <3>1. Whole(O, m) \subseteq Objs
      BY DEF Whole, TypesOK, ObjValues
    <3> QED BY <3>1, NoneAssumption DEF Stays
  <2> QED BY <1>2, <2>1, <2>2 DEF Unneeded
<1> QED BY <1>1, <1>3, <1>4, <1>5 DEF W

(* A store finds one more module. *)
LEMMA GoodLink ==
  ASSUME NEW V, NEW O, NEW L, NEW E, NEW S, Good(V, O, L, E, S),
         NEW s \in Objs, NEW m \in Objs, O[s].kind # "", O[m].kind = "module",
         \A o \in Objs : O[o].active # m
  PROVE  Good(V, O, L \cup {<<s, m>>}, E, S)
<1>1. TypesOK(V, O, L \cup {<<s, m>>}, E, S)
  <2>1. TypesOK(V, O, L, E, S)
    BY DEF Good
  <2>2. <<s, m>> \in Objs \X Objs
    OBVIOUS
  <2> QED BY <2>1, <2>2 DEF TypesOK
<1>2. LinksOK(L \cup {<<s, m>>}, O)
  <2>1. LinksOK(L, O)
    BY DEF Good
  <2> SUFFICES ASSUME NEW t \in Objs, NEW n \in Objs, <<t, n>> \in L \cup {<<s, m>>}
               PROVE  O[t].kind # "" /\ O[n].kind = "module" /\ \A o \in Objs : O[o].active # n
    BY DEF LinksOK
  <2>2. <<t, n>> \in L \/ (t = s /\ n = m)
    OBVIOUS
  <2> QED BY <2>1, <2>2 DEF LinksOK
<1> QED BY <1>1, <1>2 DEF Good

(* A module takes over what a variable owns. *)
LEMMA GoodMove ==
  ASSUME NEW V, NEW O, NEW L, NEW E, NEW S, Good(V, O, L, E, S),
         NEW v \in Vars, V[v].own, V[v].kind \in Parts,
         NEW w \in Vars, V[w].inner # None, V[w].kind = "module"
  PROVE  Good([V EXCEPT ![v] = Nothing],
              [O EXCEPT ![V[w].inner].holds = @ \cup {V[v].inner}], L, E, S)
<1>t. Typed(V, O, L, E, S)
  BY GoodTypes
<1> USE DEF Good
<1>1. PICK x \in Objs, m \in Objs : x = V[v].inner /\ m = V[w].inner
  BY DEF TypesOK, VarValues, VarsOK, VarOK
<1>2. O[x].kind \in Parts /\ O[m].kind = "module" /\ x # m
  BY <1>1 DEF VarsOK, VarOK, Parts
<1> DEFINE W == [V EXCEPT ![v] = Nothing]
           P == [O EXCEPT ![m].holds = @ \cup {x}]
<1>3. \A u \in Vars : W[u] = IF u = v THEN Nothing ELSE V[u]
  BY DEF TypesOK
<1>4. \A o \in Objs : /\ P[o].kind = O[o].kind /\ P[o].uses = O[o].uses
                      /\ P[o].active = O[o].active
                      /\ P[o].holds = IF o = m THEN O[o].holds \cup {x} ELSE O[o].holds
  <2>1. \A o \in Objs : P[o] = IF o = m THEN [O[m] EXCEPT !.holds = @ \cup {x}] ELSE O[o]
    BY DEF TypesOK
  <2>2. O[m] \in ObjValues
    BY DEF TypesOK
  <2>3. PICK z : z = [O[m] EXCEPT !.holds = @ \cup {x}]
    OBVIOUS
  <2>4. /\ z.kind = O[m].kind /\ z.uses = O[m].uses /\ z.active = O[m].active
        /\ z.holds = O[m].holds \cup {x}
    BY <2>2, <2>3 DEF ObjValues
  <2> HIDE DEF P, W
  <2> QED BY <2>1, <2>3, <2>4
<1>5. TypesOK(W, P, L, E, S)
  <2>1. Nothing \in VarValues
    BY DEF Nothing, VarValues
  <2>2. [O[m] EXCEPT !.holds = @ \cup {x}] \in ObjValues
    <3>1. O[m] \in ObjValues
      BY DEF TypesOK
    <3> QED BY <3>1 DEF ObjValues
  <2> QED BY <2>1, <2>2 DEF TypesOK
<1>6. Nothing.inner = None /\ ~Nothing.own /\ Nothing.kind = ""
  BY DEF Nothing
<1> HIDE DEF W, P
<1>7. ObjsOK(P)
  <2>1. \A o \in Objs : P[o].kind = "" => P[o] = NoObject
    <3>1. \A o \in Objs \ {m} : P[o] = O[o]
      BY DEF P, TypesOK
    <3> QED BY <1>2, <1>4, <3>1 DEF ObjsOK
  <2>2. \A o \in Objs : \A h \in P[o].holds :
          \/ P[o].kind = "vm" /\ P[h].kind = "module"
          \/ P[o].kind = "module" /\ P[h].kind \in Parts
    <3> SUFFICES ASSUME NEW o \in Objs, NEW h \in P[o].holds
                 PROVE  \/ P[o].kind = "vm" /\ P[h].kind = "module"
                        \/ P[o].kind = "module" /\ P[h].kind \in Parts
      OBVIOUS
    <3>1. h \in O[o].holds \/ (o = m /\ h = x)
      BY <1>4
    <3>2. h \in Objs
      BY <3>1, <1>t DEF Typed
    <3>3. CASE h \in O[o].holds
      <4>1. \/ O[o].kind = "vm" /\ O[h].kind = "module"
            \/ O[o].kind = "module" /\ O[h].kind \in Parts
        BY <3>3 DEF ObjsOK
      <4> QED BY <1>4, <3>2, <4>1
    <3> QED BY <1>2, <1>4, <3>1, <3>2, <3>3
  <2>3. \A o \in Objs : \A u \in P[o].uses : P[u].kind # ""
    <3> SUFFICES ASSUME NEW o \in Objs, NEW u \in P[o].uses PROVE P[u].kind # ""
      OBVIOUS
    <3>1. u \in O[o].uses /\ u \in Objs
      BY <1>4, <1>t DEF Typed
    <3> QED BY <1>4, <3>1 DEF ObjsOK
  <2>4. \A o \in Objs : P[o].active # None => P[o].kind = "vm" /\ P[o].active \in P[o].holds
    <3>1. \A o \in Objs : O[o].active # None => O[o].kind = "vm" /\ O[o].active \in O[o].holds
      BY DEF ObjsOK
    <3> QED BY <1>4, <3>1
  <2> QED BY <2>1, <2>2, <2>3, <2>4 DEF ObjsOK
<1>8. VarsOK(W, P)
  <2>1. Grown(O, P)
    BY <1>4 DEF Grown
  <2>2. \A u \in Vars : VarOK(V[u], P)
    BY <1>t, <2>1, GrownVar DEF VarsOK, Typed
  <2>3. VarOK(Nothing, P)
    BY <1>6 DEF VarOK
  <2> QED BY <1>3, <2>2, <2>3 DEF VarsOK
<1>9. LinksOK(L, P)
  <2>1. Grown(O, P)
    BY <1>4 DEF Grown
  <2>2. ASSUME NEW s \in Objs, NEW n \in Objs, NEW o \in Objs, <<s, n>> \in L
        PROVE  P[o].active # n
    <3>1. O[o].active # n
      BY <2>2 DEF LinksOK
    <3> QED BY <1>4, <3>1
  <2> QED BY <2>1, <2>2, GrownLinks
<1>10. OwnersOK(W, P)
  <2>1. \A u \in Vars : W[u].own <=> V[u].own /\ u # v
    BY <1>3, <1>6
  <2>2. \A u \in Vars : W[u].own => W[u] = V[u] /\ V[u].inner # x
    BY <1>1, <1>3, <2>1 DEF OwnersOK
  <2>3. \A p \in Objs : x \notin O[p].holds
    BY <1>1 DEF OwnersOK
  <2>4. \A p, o \in Objs : o \in P[p].holds <=> o \in O[p].holds \/ (p = m /\ o = x)
    BY <1>4
  <2>5. \A u \in Vars, p \in Objs : W[u].own => W[u].inner \notin P[p].holds
    <3> SUFFICES ASSUME NEW u \in Vars, NEW p \in Objs, W[u].own, W[u].inner \in P[p].holds
                 PROVE  FALSE
      OBVIOUS
    <3>1. W[u] = V[u] /\ V[u].inner # x
      BY <2>2
    <3>2. V[u].inner \notin O[p].holds
      BY <3>1 DEF OwnersOK
    <3> QED BY <1>4, <3>1, <3>2
  <2>6. \A p, q, o \in Objs : o \in P[p].holds /\ o \in P[q].holds => p = q
    <3>1. \A p, q, o \in Objs : o \in O[p].holds /\ o \in O[q].holds => p = q
      BY DEF OwnersOK
    <3> QED BY <2>3, <2>4, <3>1
  <2>7. \A o \in Objs : P[o].kind # "" =>
          (\E u \in Vars : W[u].own /\ W[u].inner = o) \/ (\E p \in Objs : o \in P[p].holds)
    <3> SUFFICES ASSUME NEW o \in Objs, P[o].kind # ""
                 PROVE  (\E u \in Vars : W[u].own /\ W[u].inner = o) \/ (\E p \in Objs : o \in P[p].holds)
      OBVIOUS
    <3>1. CASE o = x
      BY <2>4, <3>1
    <3>2. CASE o # x
      <4>1. (\E u \in Vars : V[u].own /\ V[u].inner = o) \/ (\E p \in Objs : o \in O[p].holds)
        BY <1>4 DEF OwnersOK
      <4> QED BY <1>1, <1>3, <2>4, <3>2, <4>1
    <3> QED BY <3>1, <3>2
  <2> QED BY <2>2, <2>5, <2>6, <2>7 DEF OwnersOK
<1>13. Grown(O, P)
  BY <1>4 DEF Grown
<1>11. ExecsOK(P, E, S)
  BY <1>t, <1>13, GrownExecs
<1>12. LoadingOK(W, P, E, S)
  <2> SUFFICES ASSUME NEW a \in Objs, NEW n \in Objs,
                      E[a].st = "loading", P[E[a].runs].active = n
               PROVE  Unneeded(W, P, E, S, Whole(P, n))
    BY DEF LoadingOK
  <2>1. E[a].runs \in Objs
    BY <1>t DEF Typed
  <2>2. Unneeded(V, O, E, S, Whole(O, n))
    BY <1>4, <2>1 DEF LoadingOK
  <2>3. n # m
    BY <1>1, <2>2 DEF Unneeded, Whole
  <2>4. Whole(P, n) = Whole(O, n) /\ Whole(O, n) \subseteq Objs
    BY <1>4, <2>3 DEF Whole, TypesOK, ObjValues
  <2> QED BY <1>3, <1>4, <1>6, <2>2, <2>4, NoneAssumption DEF Unneeded
<1> QED BY <1>1, <1>5, <1>7, <1>8, <1>9, <1>10, <1>11, <1>12 DEF W, P

(* Nothing knows an object that does not exist. *)
Unknown(x, V, O, L, E, S) ==
  /\ O[x] = NoObject
  /\ \A p \in Objs : x \notin O[p].holds /\ x \notin O[p].uses /\ O[p].active # x
  /\ \A v \in Vars : V[v].inner # x
  /\ \A s, m \in Objs : <<s, m>> \in L => s # x /\ m # x
  /\ \A a \in Objs \ S : x \notin E[a].touch
  /\ E[x] = NoExec /\ x \notin S

LEMMA FreshFacts ==
  ASSUME NEW V, NEW O, NEW L, NEW E, NEW S, Good(V, O, L, E, S),
         NEW x \in Objs, O[x].kind = ""
  PROVE  Unknown(x, V, O, L, E, S)
<1>1. O[x] = NoObject
  BY DEF Good, ObjsOK
<1>2. \A p \in Objs : x \notin O[p].holds
  BY DEF Good, ObjsOK, Parts
<1>3. \A p \in Objs : x \notin O[p].uses
  BY DEF Good, ObjsOK
<1>4. \A p \in Objs : O[p].active # x
  <2>1. \A p \in Objs : O[p].active # None => O[p].active \in O[p].holds
    BY DEF Good, ObjsOK
  <2> QED BY <1>2, <2>1, NoneAssumption
<1>5. \A v \in Vars : V[v].inner # x
  <2>1. \A v \in Vars : VarOK(V[v], O)
    BY DEF Good, VarsOK
  <2> QED BY <2>1, NoneAssumption DEF VarOK
<1>6. \A s, m \in Objs : <<s, m>> \in L => s # x /\ m # x
  BY DEF Good, LinksOK
<1>7. \A a \in Objs : ExecOK(a, E[a], O, S)
  BY DEF Good, ExecsOK
<1>8. ASSUME NEW a \in Objs, a \notin S, x \in E[a].touch
      PROVE  FALSE
  <2>1. \A t \in E[a].touch : O[t].kind # ""
    BY <1>7, <1>8 DEF ExecOK
  <2> QED BY <1>8, <2>1
<1>9. E[x] = NoExec /\ x \notin S
  BY <1>7 DEF ExecOK
<1> QED BY <1>1, <1>2, <1>3, <1>4, <1>5, <1>6, <1>8, <1>9 DEF Unknown

(* An object o is made, a module with a memory perhaps.  A variable owns   *)
(* it, or the VM p holds it, as its active module or as another one.       *)
Makes(V, O, E, o, ms, k, used, W, P, p, nxt) ==
  /\ o \in Objs /\ ms \subseteq Objs \ {o} /\ \A x \in ms \cup {o} : O[x].kind = ""
  /\ k \in Kinds \ {"", "importtype", "exporttype", "tag", "tagtype"}
  /\ ms # {} => k = "module"
  /\ used \subseteq Objs /\ \A u \in used : O[u].kind # "" /\ Stays(O, E, u)
  /\ P \in [Objs -> ObjValues] /\ W \in [Vars -> VarValues]
  /\ P[o] = Object(k, ms, used)
  /\ \A x \in ms : P[x] = Object("memory", {}, {})
  /\ \A x \in Objs \ (ms \cup {o, p}) : P[x] = O[x]

OwnedBy(v, V, W, k, o) ==
  ~V[v].own /\ W[v] = Owner(k, o) /\ \A w \in Vars \ {v} : W[w] = V[w]

HeldBy(p, O, P, E, o, nxt) ==
  /\ p \in Objs /\ O[p].kind = "vm" /\ P[p].kind = "vm" /\ P[p].uses = O[p].uses
  /\ P[p].holds = O[p].holds \cup {o} /\ P[p].active = nxt
  /\ \/ nxt = O[p].active
     \/ nxt = o /\ \A a \in Objs : E[a].st = "loading" => E[a].runs # p

LEMMA GoodNew ==
  ASSUME NEW V, NEW O, NEW L, NEW E, NEW S, Good(V, O, L, E, S),
         NEW o, NEW ms, NEW k, NEW used, NEW W, NEW P, NEW p, NEW nxt,
         Makes(V, O, E, o, ms, k, used, W, P, p, nxt),
         \/ p = None /\ \E v \in Vars : OwnedBy(v, V, W, k, o)
         \/ W = V /\ k = "module" /\ HeldBy(p, O, P, E, o, nxt)
  PROVE  Good(W, P, L, E, S)
<1> DEFINE N == ms \cup {o}
<1>t. Typed(V, O, L, E, S)
  BY GoodTypes
<1>g. /\ TypesOK(V, O, L, E, S) /\ ObjsOK(O) /\ VarsOK(V, O) /\ LinksOK(L, O)
      /\ OwnersOK(V, O) /\ ExecsOK(O, E, S) /\ LoadingOK(V, O, E, S)
  BY DEF Good
<1>0. None \notin Objs /\ None \notin Vars
  BY NoneAssumption
<1>m. /\ o \in Objs /\ ms \subseteq Objs \ {o} /\ N \subseteq Objs
      /\ \A x \in N : O[x].kind = ""
      /\ k \in Kinds \ {"", "importtype", "exporttype", "tag", "tagtype"} /\ (ms # {} => k = "module")
      /\ \A u \in used : u \in Objs /\ O[u].kind # "" /\ Stays(O, E, u)
  BY DEF Makes
<1>1. \A x \in N : Unknown(x, V, O, L, E, S)
  BY <1>m, FreshFacts
<1>n. o \in N /\ ms \subseteq N /\ N = ms \cup {o}
  OBVIOUS
<1>2. p \notin N
  BY <1>0, <1>m DEF HeldBy
<1>3. /\ P[o].kind = k /\ P[o].holds = ms /\ P[o].uses = used /\ P[o].active = None
      /\ \A x \in ms : /\ P[x].kind = "memory" /\ P[x].holds = {} /\ P[x].uses = {}
                       /\ P[x].active = None
  <2>1. P[o] = Object(k, ms, used) /\ \A x \in ms : P[x] = Object("memory", {}, {})
    BY DEF Makes
  <2> QED BY <2>1 DEF Object
<1>s. \A x \in Objs \ N : x # p => P[x] = O[x]
  BY DEF Makes
<1>p. \/ p = None /\ W # V
      \/ /\ p \in Objs /\ W = V /\ O[p].kind = "vm" /\ k = "module" /\ P[p].kind = "vm"
         /\ P[p].uses = O[p].uses /\ P[p].holds = O[p].holds \cup {o} /\ P[p].active = nxt
         /\ \/ nxt = O[p].active
            \/ nxt = o /\ \A a \in Objs : E[a].st = "loading" => E[a].runs # p
  <2>1. ASSUME NEW v \in Vars, OwnedBy(v, V, W, k, o) PROVE W # V
    BY <2>1 DEF OwnedBy, Owner
  <2> QED BY <2>1 DEF HeldBy
<1>v. /\ \A w \in Vars : W[w] = V[w] \/ (p = None /\ W[w] = Owner(k, o) /\ ~V[w].own)
      /\ p = None => \E v \in Vars : OwnedBy(v, V, W, k, o)
  BY <1>0, <1>p DEF OwnedBy
<1> HIDE DEF N
<1>4. \A x \in Objs \ N : /\ P[x].kind = O[x].kind /\ P[x].uses = O[x].uses
                          /\ P[x].holds = IF x = p THEN O[x].holds \cup {o} ELSE O[x].holds
                          /\ P[x].active = IF x = p THEN nxt ELSE O[x].active
  BY <1>0, <1>s, <1>p
<1>5. Grown(O, P)
  BY <1>4, <1>m DEF Grown
<1>6. TypesOK(W, P, L, E, S)
  BY <1>g DEF TypesOK, Makes
<1>7. ObjsOK(P)
  <2> SUFFICES ASSUME NEW x \in Objs
               PROVE  /\ P[x].kind = "" => P[x] = NoObject
                      /\ \A h \in P[x].holds : \/ P[x].kind = "vm" /\ P[h].kind = "module"
                                               \/ P[x].kind = "module" /\ P[h].kind \in Parts
                      /\ P[x].active # None => P[x].kind = "vm" /\ P[x].active \in P[x].holds
                      /\ \A u \in P[x].uses : P[u].kind # ""
    BY DEF ObjsOK
  <2>1. CASE x = o
    <3>1. \A h \in ms : P[h].kind \in Parts
      BY <1>3 DEF Parts
    <3>2. \A u \in used : P[u].kind # ""
      BY <1>5, <1>m DEF Grown
    <3> QED BY <1>3, <1>m, <2>1, <3>1, <3>2
  <2>2. CASE x \in ms
    BY <1>3, <2>2
  <2>3. CASE x \in Objs \ N
    <3>1. /\ O[x].kind = "" => O[x] = NoObject
          /\ \A h \in O[x].holds : \/ O[x].kind = "vm" /\ O[h].kind = "module"
                                   \/ O[x].kind = "module" /\ O[h].kind \in Parts
          /\ O[x].active # None => O[x].kind = "vm" /\ O[x].active \in O[x].holds
          /\ \A u \in O[x].uses : O[u].kind # ""
      BY <1>g DEF ObjsOK
    <3>2. O[x].holds \subseteq Objs /\ O[x].uses \subseteq Objs
      BY <1>t DEF Typed
    <3>3. \A h \in O[x].holds : P[h].kind = O[h].kind
      BY <3>1, <3>2, <1>5 DEF Grown, Parts
    <3>4. \A u \in O[x].uses : P[u].kind # ""
      BY <3>1, <3>2, <1>5 DEF Grown
    <3>5. CASE x # p
      <4>1. P[x] = O[x]
        BY <1>s, <2>3, <3>5
      <4> QED BY <3>1, <3>3, <3>4, <4>1
    <3>6. CASE x = p
      <4>1. P[o].kind = "module" /\ O[x].kind = "vm"
        BY <1>0, <1>3, <1>p, <3>6
      <4>2. \A h \in O[x].holds : P[h].kind = "module"
        BY <3>1, <3>3, <4>1
      <4>3. P[x].active # None => P[x].active \in P[x].holds
        <5>1. P[x].holds = O[x].holds \cup {o} /\ P[x].active \in {o, O[x].active}
          BY <1>4, <1>p, <1>0, <2>3, <3>6
        <5> QED BY <3>1, <5>1
      <4>4. P[x].kind = "vm" /\ P[x].holds = O[x].holds \cup {o} /\ P[x].uses = O[x].uses
        BY <1>4, <2>3, <3>6, <4>1
      <4> QED BY <3>4, <4>1, <4>2, <4>3, <4>4
    <3> QED BY <3>5, <3>6
  <2> QED BY <2>1, <2>2, <2>3, <1>n
<1>8. VarsOK(W, P)
  <2>1. \A v \in Vars : VarOK(V[v], P)
    BY <1>g, <1>t, <1>5, GrownVar DEF VarsOK, Typed
  <2>2. VarOK(Owner(k, o), P)
    <3>1. k \notin {"", "importtype", "exporttype", "tag", "tagtype"} /\ P[o].kind = k /\ o # None
      BY <1>0, <1>3, <1>m
    <3> QED BY <3>1 DEF VarOK, Owner
  <2> QED BY <1>v, <2>1, <2>2 DEF VarsOK
<1>9. LinksOK(L, P)
  <2>1. ASSUME NEW s \in Objs, NEW m \in Objs, NEW x \in Objs, <<s, m>> \in L
        PROVE  P[x].active # m
    <3>1. O[x].active # m /\ m # o
      BY <1>1, <1>g, <1>n, <2>1 DEF LinksOK, Unknown
    <3>2. P[x].active \in {None, o, O[x].active}
      <4>1. CASE x \in N
        BY <1>3, <1>n, <4>1
      <4>2. CASE x \notin N /\ x # p
        BY <1>s, <4>2
      <4>3. CASE x = p
        BY <1>0, <1>p, <4>3
      <4> QED BY <4>1, <4>2, <4>3
    <3> QED BY <1>0, <3>1, <3>2
  <2> QED BY <1>g, <1>5, <2>1, GrownLinks
<1>10. ExecsOK(P, E, S)
  BY <1>g, <1>t, <1>5, GrownExecs
<1>11. OwnersOK(W, P)
  <2>1. \A q, y \in Objs : y \in P[q].holds <=> \/ (y \in O[q].holds /\ y \notin N)
                                                \/ (q = o /\ y \in ms)
                                                \/ (q = p /\ y = o)
    <3> TAKE q, y \in Objs
    <3>1. y \in N => y \notin O[q].holds
      BY <1>1 DEF Unknown
    <3>2. CASE q \in N
      <4>1. O[q].holds = {}
        <5>1. O[q] = NoObject
          BY <1>1, <3>2 DEF Unknown
        <5> QED BY <5>1, NoObjectFields
      <4>2. q # p /\ (q = o \/ q \in ms)
        BY <1>2, <1>n, <3>2
      <4>3. CASE q = o
        BY <1>3, <1>0, <4>1, <4>2, <4>3
      <4>4. CASE q \in ms /\ q # o
        BY <1>3, <4>1, <4>2, <4>4
      <4> QED BY <4>2, <4>3, <4>4
    <3>3. CASE q \notin N
      <4>1. P[q].holds = IF q = p THEN O[q].holds \cup {o} ELSE O[q].holds
        BY <1>4, <3>3
      <4>2. q # o
        BY <1>n, <3>3
      <4> QED BY <3>1, <4>1, <4>2
    <3> QED BY <3>2, <3>3
  <2>2. \A w \in Vars : W[w].own => \/ V[w].own /\ W[w].inner = V[w].inner
                                    \/ W[w].inner = o /\ p = None
    BY <1>v DEF Owner
  <2>3. \A w \in Vars : V[w].own => W[w] = V[w]
    BY <1>v
  <2>4. \A w, u \in Vars : W[w].own /\ W[u].own /\ W[w].inner = W[u].inner => w = u
    <3>1. CASE W = V
      BY <1>g, <3>1 DEF OwnersOK
    <3>2. CASE p = None
      <4>1. PICK v \in Vars : OwnedBy(v, V, W, k, o)
        BY <1>v, <3>2
      <4>2. \A w \in Vars \ {v} : W[w] = V[w] /\ W[w].inner # o
        BY <1>1, <1>n, <4>1 DEF OwnedBy, Unknown
      <4>3. W[v].inner = o
        BY <4>1 DEF OwnedBy, Owner
      <4>4. \A w, u \in Vars : V[w].own /\ V[u].own /\ V[w].inner = V[u].inner => w = u
        BY <1>g DEF OwnersOK
      <4> QED BY <4>2, <4>3, <4>4
    <3> QED BY <1>p, <3>1, <3>2
  <2>5. ASSUME NEW w \in Vars, NEW q \in Objs, W[w].own PROVE W[w].inner \notin P[q].holds
    <3>1. CASE V[w].own /\ W[w].inner = V[w].inner
      <4>1. V[w].inner \notin O[q].holds /\ V[w].inner \notin N
        BY <1>1, <1>g, <3>1 DEF OwnersOK, Unknown
      <4>2. V[w].inner \in Objs
        BY <1>g, <3>1, <1>t DEF VarsOK, VarOK, Typed
      <4> QED BY <1>n, <2>1, <3>1, <4>1, <4>2
    <3>2. CASE W[w].inner = o /\ p = None
      <4>1. ~(q = o /\ o \in ms) /\ q # p
        BY <1>0, <1>m, <3>2
      <4> QED BY <1>n, <1>m, <2>1, <3>2, <4>1
    <3> QED BY <2>2, <2>5, <3>1, <3>2
  <2>6. ASSUME NEW q \in Objs, NEW r \in Objs, NEW y \in Objs, y \in P[q].holds, y \in P[r].holds
        PROVE  q = r
    <3>1. CASE y \in O[q].holds /\ y \notin N
      <4>1. y \in O[r].holds
        BY <1>n, <2>1, <2>6, <3>1
      <4> QED BY <1>g, <3>1, <4>1 DEF OwnersOK
    <3>2. CASE q = o /\ y \in ms
      BY <1>n, <1>m, <2>1, <2>6, <3>2
    <3>3. CASE q = p /\ y = o
      BY <1>n, <1>m, <2>1, <2>6, <3>3
    <3> QED BY <2>1, <2>6, <3>1, <3>2, <3>3
  <2>7. ASSUME NEW y \in Objs, P[y].kind # ""
        PROVE  (\E w \in Vars : W[w].own /\ W[w].inner = y) \/ (\E q \in Objs : y \in P[q].holds)
    <3>1. CASE y \in ms
      BY <1>m, <1>3, <3>1
    <3>2. CASE y = o
      <4>1. p = None => \E w \in Vars : W[w].own /\ W[w].inner = o
        BY <1>v DEF Owner, OwnedBy
      <4> QED BY <1>p, <2>1, <3>2, <4>1
    <3>3. CASE y \notin N
      <4>1. (\E w \in Vars : V[w].own /\ V[w].inner = y) \/ (\E q \in Objs : y \in O[q].holds)
        BY <1>g, <1>4, <2>7, <3>3 DEF OwnersOK
      <4>2. ASSUME NEW w \in Vars, V[w].own, V[w].inner = y PROVE W[w].own /\ W[w].inner = y
        BY <2>3, <4>2
      <4>3. ASSUME NEW r \in Objs, y \in O[r].holds PROVE y \in P[r].holds
        <5>1. y \in O[r].holds /\ y \notin N
          BY <3>3, <4>3
        <5> QED BY <2>1, <5>1
      <4> QED BY <4>1, <4>2, <4>3
    <3> QED BY <1>n, <3>1, <3>2, <3>3
  <2> QED BY <2>4, <2>5, <2>6, <2>7 DEF OwnersOK
<1>12. LoadingOK(W, P, E, S)
  <2> SUFFICES ASSUME NEW a \in Objs, NEW m \in Objs,
                      E[a].st = "loading", P[E[a].runs].active = m
               PROVE  Unneeded(W, P, E, S, Whole(P, m))
    BY DEF LoadingOK
  <2>1. PICK r \in Objs : r = E[a].runs
    BY <1>t DEF Typed
  <2>2. O[r].kind = "vm" /\ r \notin N
    <3>1. ExecOK(a, E[a], O, S)
      BY <1>g DEF ExecsOK
    <3> QED BY <1>m, <2>1, <3>1 DEF ExecOK
  <2>3. O[r].active = m
    <3>1. P[r].active = IF r = p THEN nxt ELSE O[r].active
      BY <1>4, <2>2
    <3>2. r = p => nxt = O[r].active
      BY <1>0, <1>p, <2>1
    <3> QED BY <2>1, <3>1, <3>2
  <2>4. Unneeded(V, O, E, S, Whole(O, m))
    BY <1>g, <2>1, <2>3 DEF LoadingOK
  <2>5. m \notin N
    BY <1>1, <2>3 DEF Unknown
  <2>6. O[m].kind = "module"
    <3>1. O[r].active # None => O[r].active \in O[r].holds
      BY <1>g DEF ObjsOK
    <3>2. m \in O[r].holds
      BY <1>0, <2>3, <3>1
    <3> QED BY <1>g, <2>2, <3>2 DEF ObjsOK
  <2>7. m # p
    BY <1>p, <1>0, <2>6
  <2>8. Whole(P, m) = Whole(O, m)
    BY <1>4, <2>5, <2>7 DEF Whole
  <2>9. Whole(O, m) \cap N = {} /\ Whole(O, m) \subseteq Objs
    BY <1>1, <1>t, <2>3, <2>5 DEF Whole, Typed, Unknown
  <2>10. \A w \in Vars : W[w].inner \notin Whole(O, m)
    <3>1. o \notin Whole(O, m)
      BY <1>n, <2>9
    <3> QED BY <1>v, <2>4, <3>1 DEF Unneeded, Owner
  <2>11. used \cap Whole(O, m) = {}
    BY <1>m, <2>1, <2>3 DEF Stays
  <2>12. \A x \in Objs \ Whole(O, m) : P[x].uses \cap Whole(O, m) = {}
    <3>1. \A x \in N : P[x].uses \cap Whole(O, m) = {}
      BY <1>3, <1>n, <2>11
    <3> QED BY <1>4, <2>4, <3>1 DEF Unneeded
  <2> QED BY <2>4, <2>8, <2>10, <2>12 DEF Unneeded
<1> QED BY <1>6, <1>7, <1>8, <1>9, <1>10, <1>11, <1>12 DEF Good

(* The objects of D are deleted, with what they hold, and the variables    *)
(* that own them are cleared, perhaps others as well.                      *)
Deletion(V, O, L, E, S, D, W, P, M, F, T) ==
  /\ D \subseteq Objs /\ \A x \in D : O[x].holds \subseteq D
  /\ \A x \in Objs \ D : O[x].uses \cap D = {}
  /\ \A a \in Objs \ S : E[a].touch \cap D = {}
  /\ P \in [Objs -> ObjValues]
  /\ \A x \in D : P[x] = NoObject
  /\ \A x \in Objs \ D :
       /\ P[x].kind = O[x].kind /\ P[x].uses = O[x].uses /\ P[x].holds = O[x].holds \ D
       /\ P[x].active = IF O[x].active \in D THEN None ELSE O[x].active
       /\ O[x].kind = "" => P[x] = O[x]
  /\ W \in [Vars -> VarValues]
  /\ \A v \in Vars : \/ W[v] = V[v] /\ V[v].inner \notin D
                     \/ W[v] = Nothing /\ (V[v].own => V[v].inner \in D)
  /\ M \subseteq L /\ \A s, m \in Objs : <<s, m>> \in M => s \notin D /\ m \notin D
  /\ F \in [Objs -> ExecValues] /\ T \subseteq S
  /\ \A a \in Objs : /\ F[a] = E[a] \/ F[a] = NoExec
                     /\ a \in D => F[a] = NoExec
                     /\ a \in S \ T => F[a] = NoExec
                     /\ a \in T => F[a] = E[a]

LEMMA GoodDelete ==
  ASSUME NEW V, NEW O, NEW L, NEW E, NEW S, Good(V, O, L, E, S),
         NEW D, NEW W, NEW P, NEW M, NEW F, NEW T,
         Deletion(V, O, L, E, S, D, W, P, M, F, T)
  PROVE  Good(W, P, M, F, T)
<1>t. Typed(V, O, L, E, S)
  BY GoodTypes
<1>g. /\ TypesOK(V, O, L, E, S) /\ ObjsOK(O) /\ VarsOK(V, O) /\ LinksOK(L, O)
      /\ OwnersOK(V, O) /\ ExecsOK(O, E, S) /\ LoadingOK(V, O, E, S)
  BY DEF Good
<1>0. None \notin Objs
  BY NoneAssumption
<1>d. /\ D \subseteq Objs /\ \A x \in D : O[x].holds \subseteq D
      /\ \A x \in Objs \ D : O[x].uses \cap D = {}
      /\ \A a \in Objs \ S : E[a].touch \cap D = {}
  BY DEF Deletion
<1>1. \A x \in D : P[x] = NoObject
  BY DEF Deletion
<1>2. \A x \in Objs \ D :
        /\ P[x].kind = O[x].kind /\ P[x].uses = O[x].uses /\ P[x].holds = O[x].holds \ D
        /\ P[x].active = IF O[x].active \in D THEN None ELSE O[x].active
        /\ O[x].kind = "" => P[x] = O[x]
  BY DEF Deletion
<1>3. \A v \in Vars : \/ W[v] = V[v] /\ V[v].inner \notin D
                      \/ W[v] = Nothing /\ (V[v].own => V[v].inner \in D)
  BY DEF Deletion
<1>4. M \subseteq L /\ \A s, m \in Objs : <<s, m>> \in M => s \notin D /\ m \notin D
  BY DEF Deletion
<1>5. /\ T \subseteq S
      /\ \A a \in Objs : /\ F[a] = E[a] \/ F[a] = NoExec
                         /\ a \in D => F[a] = NoExec
                         /\ a \in S \ T => F[a] = NoExec
                         /\ a \in T => F[a] = E[a]
  BY DEF Deletion
<1>6. TypesOK(W, P, M, F, T)
  BY <1>g DEF Deletion, TypesOK
<1>7. Nothing.inner = None /\ ~Nothing.own /\ Nothing.kind = ""
  BY DEF Nothing
<1>8. ObjsOK(P)
  <2> SUFFICES ASSUME NEW x \in Objs
               PROVE  /\ P[x].kind = "" => P[x] = NoObject
                      /\ \A h \in P[x].holds : \/ P[x].kind = "vm" /\ P[h].kind = "module"
                                               \/ P[x].kind = "module" /\ P[h].kind \in Parts
                      /\ P[x].active # None => P[x].kind = "vm" /\ P[x].active \in P[x].holds
                      /\ \A u \in P[x].uses : P[u].kind # ""
    BY DEF ObjsOK
  <2>1. CASE x \in D
    <3>1. P[x] = NoObject
      BY <1>1, <2>1
    <3> QED BY <3>1, NoObjectFields
  <2>2. CASE x \notin D
    <3>1. /\ O[x].kind = "" => O[x] = NoObject
          /\ \A h \in O[x].holds : \/ O[x].kind = "vm" /\ O[h].kind = "module"
                                   \/ O[x].kind = "module" /\ O[h].kind \in Parts
          /\ O[x].active # None => O[x].kind = "vm" /\ O[x].active \in O[x].holds
          /\ \A u \in O[x].uses : O[u].kind # ""
      BY <1>g DEF ObjsOK
    <3>2. O[x].holds \subseteq Objs /\ O[x].uses \subseteq Objs
      BY <1>t DEF Typed
    <3>3. /\ P[x].kind = O[x].kind /\ P[x].uses = O[x].uses /\ P[x].holds = O[x].holds \ D
          /\ P[x].active = IF O[x].active \in D THEN None ELSE O[x].active
          /\ O[x].kind = "" => P[x] = O[x]
      BY <1>2, <2>2
    <3>4. P[x].kind = "" => P[x] = NoObject
      BY <3>1, <3>3, NoObjectFields
    <3>5. \A h \in P[x].holds : h \in O[x].holds /\ P[h].kind = O[h].kind
      BY <1>2, <3>2, <3>3
    <3>6. \A u \in P[x].uses : P[u].kind # ""
      BY <1>d, <1>2, <2>2, <3>1, <3>2, <3>3
    <3>7. P[x].active # None => P[x].kind = "vm" /\ P[x].active \in P[x].holds
      BY <3>1, <3>3
    <3>8. \A h \in P[x].holds : \/ P[x].kind = "vm" /\ P[h].kind = "module"
                                \/ P[x].kind = "module" /\ P[h].kind \in Parts
      BY <3>1, <3>3, <3>5
    <3> QED BY <3>4, <3>6, <3>7, <3>8
  <2> QED BY <2>1, <2>2
<1>9. VarsOK(W, P)
  <2> SUFFICES ASSUME NEW v \in Vars PROVE VarOK(W[v], P)
    BY DEF VarsOK
  <2>1. CASE W[v] = V[v] /\ V[v].inner \notin D
    <3>1. VarOK(V[v], O) /\ V[v].inner \in Objs \cup {None}
      BY <1>g, <1>t DEF VarsOK, Typed
    <3>2. V[v].inner # None => P[V[v].inner].kind = O[V[v].inner].kind
      BY <1>2, <2>1, <3>1
    <3>3. VarOK(V[v], P)
      BY <3>1, <3>2 DEF VarOK
    <3> QED BY <2>1, <3>3
  <2>2. CASE W[v] = Nothing
    BY <1>7, <2>2 DEF VarOK
  <2> QED BY <1>3, <2>1, <2>2
<1>10. LinksOK(M, P)
  <2> SUFFICES ASSUME NEW s \in Objs, NEW m \in Objs, <<s, m>> \in M
               PROVE  P[s].kind # "" /\ P[m].kind = "module" /\ \A x \in Objs : P[x].active # m
    BY DEF LinksOK
  <2>1. O[s].kind # "" /\ O[m].kind = "module" /\ \A x \in Objs : O[x].active # m
    BY <1>4, <1>g DEF LinksOK
  <2>2. s \notin D /\ m \notin D
    BY <1>4
  <2>3. ASSUME NEW x \in Objs PROVE P[x].active # m
    <3>1. P[x].active \in {None, O[x].active}
      BY <1>1, <1>2, NoObjectFields
    <3> QED BY <1>0, <2>1, <3>1
  <2> QED BY <1>2, <2>1, <2>2, <2>3
<1>11. OwnersOK(W, P)
  <2>1. \A v \in Vars : W[v].own => V[v].own /\ W[v].inner = V[v].inner
    BY <1>3, <1>7
  <2>2. \A q, y \in Objs : y \in P[q].holds <=> y \in O[q].holds /\ q \notin D /\ y \notin D
    BY <1>1, <1>2, NoObjectFields
  <2>3. \A w, u \in Vars : W[w].own /\ W[u].own /\ W[w].inner = W[u].inner => w = u
    <3>1. \A w, u \in Vars : V[w].own /\ V[u].own /\ V[w].inner = V[u].inner => w = u
      BY <1>g DEF OwnersOK
    <3> QED BY <2>1, <3>1
  <2>4. ASSUME NEW w \in Vars, NEW q \in Objs, W[w].own PROVE W[w].inner \notin P[q].holds
    <3>1. V[w].own /\ W[w].inner = V[w].inner
      BY <2>1, <2>4
    <3>2. V[w].inner \notin O[q].holds
      BY <1>g, <3>1 DEF OwnersOK
    <3>3. P[q].holds \subseteq O[q].holds
      BY <1>1, <1>2, NoObjectFields
    <3> QED BY <3>1, <3>2, <3>3
  <2>5. \A q, r, y \in Objs : y \in P[q].holds /\ y \in P[r].holds => q = r
    <3>1. \A q, r, y \in Objs : y \in O[q].holds /\ y \in O[r].holds => q = r
      BY <1>g DEF OwnersOK
    <3> QED BY <2>2, <3>1
  <2>6. ASSUME NEW y \in Objs, P[y].kind # ""
        PROVE  (\E w \in Vars : W[w].own /\ W[w].inner = y) \/ (\E q \in Objs : y \in P[q].holds)
    <3>1. y \notin D
      BY <1>1, <2>6, NoObjectFields
    <3>2. O[y].kind # ""
      BY <1>2, <2>6, <3>1
    <3>3. (\E w \in Vars : V[w].own /\ V[w].inner = y) \/ (\E q \in Objs : y \in O[q].holds)
      BY <1>g, <3>2 DEF OwnersOK
    <3>4. ASSUME NEW w \in Vars, V[w].own, V[w].inner = y PROVE W[w].own /\ W[w].inner = y
      BY <1>3, <3>1, <3>4
    <3>5. ASSUME NEW q \in Objs, y \in O[q].holds PROVE y \in P[q].holds
      BY <1>d, <2>2, <3>1, <3>5
    <3> QED BY <3>3, <3>4, <3>5
  <2> QED BY <2>3, <2>4, <2>5, <2>6 DEF OwnersOK
<1>12. NoExec.st = "none" /\ NoExec.touch = {} /\ NoExec.runs = None
  BY DEF NoExec
<1>13. \A a \in Objs \ T : F[a].touch \cap D = {} /\ (F[a] # NoExec => a \notin S /\ F[a] = E[a])
  BY <1>5, <1>d, <1>12
<1>14. ExecsOK(P, F, T)
  <2>1. ASSUME NEW a \in Objs PROVE ExecOK(a, F[a], P, T)
    <3>1. CASE F[a] = NoExec
      <4>1. a \in T => FALSE
        <5>1. ExecOK(a, E[a], O, S)
          BY <1>g DEF ExecsOK
        <5> QED BY <1>5, <1>12, <3>1, <5>1 DEF ExecOK
      <4> QED BY <1>12, <3>1, <4>1 DEF ExecOK
    <3>2. CASE F[a] = E[a] /\ F[a] # NoExec
      <4>1. ExecOK(a, E[a], O, S) /\ E[a].touch \subseteq Objs
        BY <1>g, <1>t DEF ExecsOK, Typed
      <4>2. a \notin D /\ (a \in S <=> a \in T)
        BY <1>5, <3>2
      <4>3. E[a].st # "none" => P[a].kind = "async" /\ a \in E[a].touch
        BY <1>2, <4>1, <4>2 DEF ExecOK
      <4>4. a \notin T => \A t \in E[a].touch : P[t].kind # ""
        <5> SUFFICES ASSUME a \notin T, NEW t \in E[a].touch PROVE P[t].kind # ""
          OBVIOUS
        <5>1. t \notin D /\ t \in Objs /\ O[t].kind # ""
          BY <1>d, <4>1, <4>2 DEF ExecOK
        <5> QED BY <1>2, <5>1
      <4>5. E[a].st = "loading" => E[a].runs \in E[a].touch /\ P[E[a].runs].kind = "vm"
        <5> SUFFICES ASSUME E[a].st = "loading"
                     PROVE  E[a].runs \in E[a].touch /\ P[E[a].runs].kind = "vm"
          OBVIOUS
        <5>1. E[a].runs \in E[a].touch /\ O[E[a].runs].kind = "vm" /\ a \notin S
          BY <4>1 DEF ExecOK
        <5>2. E[a].runs \in Objs \ D
          BY <1>d, <4>1, <5>1
        <5> QED BY <1>2, <5>1, <5>2
      <4>6. a \in T => E[a].st = "ended"
        BY <4>1, <4>2 DEF ExecOK
      <4>7. E[a].st = "none" => E[a] = NoExec
        BY <4>1 DEF ExecOK
      <4>8. ExecOK(a, E[a], P, T)
        BY <4>3, <4>4, <4>5, <4>6, <4>7 DEF ExecOK
      <4> QED BY <3>2, <4>8
    <3> QED BY <1>5, <3>1, <3>2
  <2>2. \A a, b \in Objs \ T : F[a].runs = F[b].runs /\ F[a].runs # None => a = b
    <3>1. \A a, b \in Objs \ S : E[a].runs = E[b].runs /\ E[a].runs # None => a = b
      BY <1>g DEF ExecsOK
    <3> QED BY <1>12, <1>13, <3>1
  <2> QED BY <2>1, <2>2 DEF ExecsOK
<1>15. LoadingOK(W, P, F, T)
  <2> SUFFICES ASSUME NEW a \in Objs, NEW m \in Objs,
                      F[a].st = "loading", P[F[a].runs].active = m
               PROVE  Unneeded(W, P, F, T, Whole(P, m))
    BY DEF LoadingOK
  <2>1. F[a] = E[a]
    BY <1>5, <1>12
  <2>2. PICK r \in Objs : r = E[a].runs
    BY <1>t, <2>1 DEF Typed
  <2>3. P[r].active = m
    BY <2>1, <2>2
  <2>4. O[r].active = m /\ m \notin D
    <3>1. r \notin D
      <4>1. m # None
        BY <1>0
      <4> QED BY <1>1, <2>3, <4>1, NoObjectFields
    <3>2. P[r].active = IF O[r].active \in D THEN None ELSE O[r].active
      BY <1>2, <3>1
    <3> QED BY <1>0, <2>3, <3>2
  <2>5. Unneeded(V, O, E, S, Whole(O, m))
    BY <1>g, <2>1, <2>2, <2>4 DEF LoadingOK
  <2>6. Whole(P, m) \subseteq Whole(O, m) /\ Whole(O, m) \ Whole(P, m) \subseteq D
    BY <1>2, <2>4 DEF Whole
  <2>7. \A v \in Vars : W[v].inner \notin Whole(P, m)
    <3>1. None \notin Whole(P, m)
      BY <1>0, <1>t, <2>6 DEF Typed, Whole
    <3> QED BY <1>3, <1>7, <2>5, <2>6, <3>1 DEF Unneeded
  <2>8. ASSUME NEW x \in Objs \ Whole(P, m) PROVE P[x].uses \cap Whole(P, m) = {}
    <3>1. CASE x \in D
      BY <1>1, <3>1, NoObjectFields
    <3>2. CASE x \notin D
      <4>1. P[x].uses = O[x].uses /\ x \notin Whole(O, m)
        BY <1>2, <2>6, <3>2
      <4> QED BY <2>5, <2>6, <4>1 DEF Unneeded
    <3> QED BY <3>1, <3>2
  <2>9. \A b \in Objs \ T : F[b].touch \cap Whole(P, m) = {}
    BY <1>12, <1>13, <2>5, <2>6 DEF Unneeded
  <2> QED BY <2>7, <2>8, <2>9 DEF Unneeded
<1> QED BY <1>6, <1>8, <1>9, <1>10, <1>11, <1>14, <1>15 DEF Good

(* An execution begins, goes on or ends, as x. *)
LEMMA GoodExec ==
  ASSUME NEW V, NEW O, NEW L, NEW E, NEW S, Good(V, O, L, E, S),
         NEW a \in Objs, NEW x \in ExecValues,
         O[a].kind = "async", a \in x.touch, x.st # "none", a \in S => x.st = "ended",
         a \notin S => \A t \in x.touch : O[t].kind # "" /\ Stays(O, E, t),
         x.st = "loading" =>
           /\ x.runs \in x.touch /\ O[x.runs].kind = "vm"
           /\ \A m \in Objs : O[x.runs].active = m =>
                Unneeded(V, O, E, S, Whole(O, m)) /\ x.touch \cap Whole(O, m) = {},
         x.runs # None => \A b \in Objs \ (S \cup {a}) : E[b].runs # x.runs
  PROVE  Good(V, O, L, [E EXCEPT ![a] = x], S)
<1> DEFINE F == [E EXCEPT ![a] = x]
<1>t. Typed(V, O, L, E, S)
  BY GoodTypes
<1>g. /\ TypesOK(V, O, L, E, S) /\ ObjsOK(O) /\ VarsOK(V, O) /\ LinksOK(L, O)
      /\ OwnersOK(V, O) /\ ExecsOK(O, E, S) /\ LoadingOK(V, O, E, S)
  BY DEF Good
<1>1. TypesOK(V, O, L, F, S)
  BY <1>g DEF TypesOK
<1>2. F[a] = x /\ \A b \in Objs \ {a} : F[b] = E[b]
  BY <1>g DEF TypesOK
<1> HIDE DEF F
<1>3. ExecsOK(O, F, S)
  <2>1. ASSUME NEW b \in Objs PROVE ExecOK(b, F[b], O, S)
    <3>1. CASE b = a
      <4>1. ExecOK(a, x, O, S)
        BY DEF ExecOK
      <4> QED BY <1>2, <3>1, <4>1
    <3>2. CASE b # a
      BY <1>2, <1>g, <3>2 DEF ExecsOK
    <3> QED BY <3>1, <3>2
  <2>2. ASSUME NEW b \in Objs \ S, NEW c \in Objs \ S, F[b].runs = F[c].runs, F[b].runs # None
        PROVE  b = c
    <3>1. \A d, e \in Objs \ S : E[d].runs = E[e].runs /\ E[d].runs # None => d = e
      BY <1>g DEF ExecsOK
    <3>2. CASE b # a /\ c # a
      BY <1>2, <2>2, <3>1, <3>2
    <3>3. CASE b = a \/ c = a
      BY <1>2, <2>2, <3>3
    <3> QED BY <3>2, <3>3
  <2> QED BY <2>1, <2>2 DEF ExecsOK
<1>4. LoadingOK(V, O, F, S)
  <2> SUFFICES ASSUME NEW b \in Objs, NEW m \in Objs,
                      F[b].st = "loading", O[F[b].runs].active = m
               PROVE  Unneeded(V, O, F, S, Whole(O, m))
    BY DEF LoadingOK
  <2>1. Unneeded(V, O, E, S, Whole(O, m)) /\ (a \notin S => x.touch \cap Whole(O, m) = {})
    <3>1. CASE b = a
      BY <1>2, <3>1
    <3>2. CASE b # a
      <4>1. E[b].st = "loading" /\ O[E[b].runs].active = m
        BY <1>2, <3>2
      <4>2. Unneeded(V, O, E, S, Whole(O, m))
        BY <1>g, <4>1 DEF LoadingOK
      <4>3. a \notin S => \A t \in x.touch : t \notin Whole(O, m)
        BY <4>1 DEF Stays
      <4> QED BY <4>2, <4>3
    <3> QED BY <3>1, <3>2
  <2>2. \A c \in Objs \ S : F[c].touch \cap Whole(O, m) = {}
    BY <1>2, <2>1 DEF Unneeded
  <2> QED BY <2>1, <2>2 DEF Unneeded
<1>5. Good(V, O, L, F, S)
  BY <1>g, <1>1, <1>3, <1>4 DEF Good
<1> QED BY <1>5 DEF F

(* The program is told that execution a has ended. *)
LEMMA GoodSeen ==
  ASSUME NEW V, NEW O, NEW L, NEW E, NEW S, Good(V, O, L, E, S),
         NEW a \in Objs, E[a].st = "ended"
  PROVE  Good(V, O, L, E, S \cup {a})
<1>g. /\ TypesOK(V, O, L, E, S) /\ ObjsOK(O) /\ VarsOK(V, O) /\ LinksOK(L, O)
      /\ OwnersOK(V, O) /\ ExecsOK(O, E, S) /\ LoadingOK(V, O, E, S)
  BY DEF Good
<1>1. TypesOK(V, O, L, E, S \cup {a})
  BY <1>g DEF TypesOK
<1>2. ExecsOK(O, E, S \cup {a})
  <2>1. ASSUME NEW b \in Objs PROVE ExecOK(b, E[b], O, S \cup {a})
    <3>1. ExecOK(b, E[b], O, S)
      BY <1>g DEF ExecsOK
    <3> QED BY <3>1 DEF ExecOK
  <2>2. \A b, c \in Objs \ (S \cup {a}) : E[b].runs = E[c].runs /\ E[b].runs # None => b = c
    BY <1>g DEF ExecsOK
  <2> QED BY <2>1, <2>2 DEF ExecsOK
<1>3. LoadingOK(V, O, E, S \cup {a})
  <2> SUFFICES ASSUME NEW b \in Objs, NEW m \in Objs,
                      E[b].st = "loading", O[E[b].runs].active = m
               PROVE  Unneeded(V, O, E, S \cup {a}, Whole(O, m))
    BY DEF LoadingOK
  <2>1. Unneeded(V, O, E, S, Whole(O, m))
    BY <1>g DEF LoadingOK
  <2> QED BY <2>1 DEF Unneeded
<1> QED BY <1>g, <1>1, <1>2, <1>3 DEF Good

(* What an execution works with is not about to be replaced. *)
LEMMA TouchedStays ==
  ASSUME NEW V, NEW O, NEW L, NEW E, NEW S, Good(V, O, L, E, S),
         NEW a \in Objs \ S, NEW t \in E[a].touch
  PROVE  O[t].kind # "" /\ Stays(O, E, t)
<1>1. ExecOK(a, E[a], O, S) /\ LoadingOK(V, O, E, S)
  BY DEF Good, ExecsOK
<1>2. O[t].kind # ""
  BY <1>1 DEF ExecOK
<1>3. ASSUME NEW b \in Objs, NEW m \in Objs, E[b].st = "loading", O[E[b].runs].active = m
      PROVE  t \notin Whole(O, m)
  <2>1. Unneeded(V, O, E, S, Whole(O, m))
    BY <1>1, <1>3 DEF LoadingOK
  <2> QED BY <2>1 DEF Unneeded
<1> QED BY <1>2, <1>3 DEF Stays

---------------------------------------------------------------------------
(* What is not about to be replaced *)

(* The module that is about to be replaced is one that a VM holds. *)
LEMMA LoadingModule ==
  ASSUME NEW V, NEW O, NEW L, NEW E, NEW S, Good(V, O, L, E, S),
         NEW a \in Objs, NEW m \in Objs, E[a].st = "loading", O[E[a].runs].active = m
  PROVE  /\ E[a].runs \in Objs /\ O[E[a].runs].kind = "vm" /\ m \in O[E[a].runs].holds
         /\ O[m].kind = "module" /\ \A h \in O[m].holds : O[h].kind \in Parts
         /\ Unneeded(V, O, E, S, Whole(O, m)) /\ a \notin S
<1>1. PICK r \in Objs : r = E[a].runs
  BY GoodTypes DEF Typed
<1>2. ExecOK(a, E[a], O, S) /\ ObjsOK(O) /\ Unneeded(V, O, E, S, Whole(O, m))
  BY DEF Good, ExecsOK, LoadingOK
<1>3. O[r].kind = "vm" /\ a \notin S
  BY <1>1, <1>2 DEF ExecOK
<1>4. m \in O[r].holds
  BY <1>1, <1>2, NoneAssumption DEF ObjsOK
<1>5. O[m].kind = "module"
  BY <1>2, <1>3, <1>4 DEF ObjsOK
<1>6. \A h \in O[m].holds : O[h].kind \in Parts
  BY <1>2, <1>5 DEF ObjsOK
<1> QED BY <1>1, <1>2, <1>3, <1>4, <1>5, <1>6

LEMMA VarStays ==
  ASSUME NEW V, NEW O, NEW L, NEW E, NEW S, Good(V, O, L, E, S),
         NEW v \in Vars, V[v].inner # None
  PROVE  /\ V[v].inner \in Objs /\ O[V[v].inner].kind # "" /\ Stays(O, E, V[v].inner)
         /\ V[v].kind \in {"vm", "module"} => O[V[v].inner].kind = V[v].kind
<1>1. VarOK(V[v], O) /\ V[v].inner \in Objs
  BY GoodTypes DEF Good, VarsOK, Typed
<1>2. \A a, m \in Objs : E[a].st = "loading" /\ O[E[a].runs].active = m =>
        V[v].inner \notin Whole(O, m)
  BY DEF Good, LoadingOK, Unneeded
<1> QED BY <1>1, <1>2 DEF VarOK, Stays

LEMMA OthersStay ==
  ASSUME NEW V, NEW O, NEW L, NEW E, NEW S, Good(V, O, L, E, S),
         NEW o \in Objs, O[o].kind \notin Parts,
         \A a \in Objs : E[a].st = "loading" => O[E[a].runs].active # o
  PROVE  Stays(O, E, o)
<1> SUFFICES ASSUME NEW a \in Objs, NEW m \in Objs, E[a].st = "loading",
                    O[E[a].runs].active = m, o \in Whole(O, m)
             PROVE  FALSE
  BY DEF Stays
<1>1. \A h \in O[m].holds : O[h].kind \in Parts
  BY LoadingModule
<1> QED BY <1>1 DEF Whole

LEMMA KindStays ==
  ASSUME NEW V, NEW O, NEW L, NEW E, NEW S, Good(V, O, L, E, S),
         NEW o \in Objs, O[o].kind \notin Parts \cup {"module"}
  PROVE  Stays(O, E, o)
<1>1. ASSUME NEW a \in Objs, E[a].st = "loading", O[E[a].runs].active = o PROVE FALSE
  BY <1>1, LoadingModule
<1> QED BY <1>1, OthersStay

LEMMA LinkedStays ==
  ASSUME NEW V, NEW O, NEW L, NEW E, NEW S, Good(V, O, L, E, S),
         NEW s \in Objs, NEW m \in Objs, <<s, m>> \in L
  PROVE  O[m].kind = "module" /\ Stays(O, E, m)
<1>1. O[m].kind = "module" /\ \A o \in Objs : O[o].active # m
  BY DEF Good, LinksOK
<1>2. \A a \in Objs : E[a].st = "loading" => E[a].runs \in Objs
  BY GoodTypes DEF Typed
<1>3. O[m].kind \notin Parts
  BY <1>1 DEF Parts
<1> QED BY <1>1, <1>2, <1>3, OthersStay

LEMMA PartStays ==
  ASSUME NEW V, NEW O, NEW L, NEW E, NEW S, Good(V, O, L, E, S),
         NEW m \in Objs, O[m].kind = "module", Stays(O, E, m), NEW o \in O[m].holds
  PROVE  o \in Objs /\ O[o].kind # "" /\ Stays(O, E, o)
<1>1. o \in Objs
  BY GoodTypes DEF Typed
<1>2. O[o].kind \in Parts
  BY DEF Good, ObjsOK
<1>3. ASSUME NEW a \in Objs, NEW n \in Objs, E[a].st = "loading", O[E[a].runs].active = n,
             o \in Whole(O, n)
      PROVE  FALSE
  <2>1. O[n].kind = "module"
    BY <1>3, LoadingModule
  <2>2. o \in O[n].holds
    BY <1>2, <1>3, <2>1 DEF Whole, Parts
  <2>3. \A p, q, x \in Objs : x \in O[p].holds /\ x \in O[q].holds => p = q
    BY DEF Good, OwnersOK
  <2>4. m = n
    BY <1>1, <2>2, <2>3
  <2> QED BY <1>3, <2>4 DEF Stays, Whole
<1> QED BY <1>1, <1>2, <1>3 DEF Stays, Parts

LEMMA UsedStays ==
  ASSUME NEW V, NEW O, NEW L, NEW E, NEW S, Good(V, O, L, E, S),
         NEW vm \in Objs, O[vm].kind = "vm", NEW u \in O[vm].uses
  PROVE  u \in Objs /\ O[u].kind # "" /\ Stays(O, E, u)
<1>1. u \in Objs /\ O[u].kind # ""
  BY GoodTypes DEF Good, ObjsOK, Typed
<1>2. ASSUME NEW a \in Objs, NEW m \in Objs, E[a].st = "loading", O[E[a].runs].active = m,
             u \in Whole(O, m)
      PROVE  FALSE
  <2>1. /\ O[m].kind = "module" /\ \A h \in O[m].holds : O[h].kind \in Parts
        /\ Unneeded(V, O, E, S, Whole(O, m))
    BY <1>2, LoadingModule
  <2>2. vm \notin Whole(O, m)
    BY <2>1 DEF Whole, Parts
  <2> QED BY <1>2, <2>1, <2>2 DEF Unneeded
<1> QED BY <1>1, <1>2 DEF Stays

---------------------------------------------------------------------------
(* The invariant in the state *)

LEMMA LiveKinds ==
  ASSUME IInv
  PROVE  /\ \A o \in Objs : o \in Live <=> obj[o].kind # ""
         /\ \A o \in Fresh : o \in Objs /\ obj[o].kind = ""
         /\ Live \subseteq Objs
<1>1. \A o \in Objs : obj[o].kind = "" => obj[o] = NoObject
  BY DEF IInv, Good, ObjsOK
<1>2. \A o \in Objs : o \in Live <=> obj[o].kind # ""
  BY <1>1, NoObjectFields DEF Live
<1> QED BY <1>2 DEF Live, Fresh

(* The store of a VM exists and stays. *)
LEMMA StoreStays ==
  ASSUME IInv, NEW vm \in Objs, obj[vm].kind = "vm"
  PROVE  StoreOf(vm) \in Objs /\ obj[StoreOf(vm)].kind # "" /\ Stays(obj, exec, StoreOf(vm))
<1>1. CASE obj[vm].uses = {}
  <2>1. obj[vm].kind \notin Parts \cup {"module"}
    BY DEF Parts
  <2>2. Stays(obj, exec, vm)
    BY <2>1, KindStays DEF IInv
  <2> QED BY <1>1, <2>2 DEF StoreOf
<1>2. CASE obj[vm].uses # {}
  <2>1. PICK u : u = CHOOSE s \in obj[vm].uses : TRUE
    OBVIOUS
  <2>2. u \in obj[vm].uses
    BY <1>2, <2>1
  <2>3. u \in Objs /\ obj[u].kind # "" /\ Stays(obj, exec, u)
    BY <2>2, UsedStays DEF IInv
  <2> QED BY <1>2, <2>1, <2>3 DEF StoreOf
<1> QED BY <1>1, <1>2

(* The active module of a VM that no execution is busy with stays. *)
LEMMA ActiveStays ==
  ASSUME IInv, NEW vm \in Objs, obj[vm].kind = "vm", ~Busy(vm), NEW m \in ActiveOf(vm)
  PROVE  m \in Objs /\ obj[m].kind = "module" /\ Stays(obj, exec, m)
<1>1. m = obj[vm].active /\ m # None
  BY DEF ActiveOf
<1>2. m \in Objs
  BY <1>1, GoodTypes DEF IInv, Typed
<1>3. m \in obj[vm].holds /\ obj[m].kind = "module"
  BY <1>1 DEF IInv, Good, ObjsOK
<1>4. ASSUME NEW a \in Objs, exec[a].st = "loading", obj[exec[a].runs].active = m PROVE FALSE
  <2>1. exec[a].runs \in Objs /\ m \in obj[exec[a].runs].holds /\ a \notin seen
    BY <1>2, <1>4, LoadingModule DEF IInv
  <2>2. exec[a].runs = vm
    BY <1>2, <1>3, <2>1 DEF IInv, Good, OwnersOK
  <2> QED BY <2>1, <2>2 DEF Busy
<1>5. obj[m].kind \notin Parts
  BY <1>3 DEF Parts
<1> QED BY <1>2, <1>3, <1>4, <1>5, OthersStay DEF IInv

---------------------------------------------------------------------------
(* The steps: accessors *)

LEMMA BorrowStep ==
  ASSUME IInv, NEW v \in Unused, NEW k \in Kinds, NEW o \in Objs, Borrow(v, k, o),
         k # "async", obj[o].kind # "", Stays(obj, exec, o),
         k \in {"vm", "module"} => obj[o].kind = k
  PROVE  IInv'
<1>1. v \in Vars /\ ~var[v].own
  BY DEF Unused, Assignable
<1>2. Borrower(k, o) \in VarValues
  BY DEF Borrower, VarValues, Kinds, Types
<1>3. /\ Borrower(k, o).kind = k /\ Borrower(k, o).inner = o /\ ~Borrower(k, o).own
  BY DEF Borrower
<1>4. PICK x : x = Borrower(k, o)
  OBVIOUS
<1>5. Good([var EXCEPT ![v] = x], obj, links, exec, seen)
  BY <1>1, <1>2, <1>3, <1>4, GoodBorrow DEF IInv
<1> QED BY <1>4, <1>5 DEF IInv, Borrow

LEMMA PartStep ==
  ASSUME IInv, NEW v \in Unused, NEW w \in Vars, NEW k \in Kinds, NEW whole,
         Part(v, k, w, whole), k \notin {"vm", "module", "async"}
  PROVE  IInv'
<1>1. In(w) \in Objs /\ obj[In(w)].kind # "" /\ Stays(obj, exec, In(w))
  BY VarStays DEF IInv, Part, Has, In
<1> QED BY <1>1, BorrowStep DEF Part

LEMMA FindStep ==
  ASSUME IInv, NEW v \in Unused, NEW w \in Vars, NEW k \in Parts, Find(v, w, k)
  PROVE  IInv'
<1>1. /\ In(w) \in Objs /\ obj[In(w)].kind = "module" /\ Stays(obj, exec, In(w))
  BY VarStays DEF IInv, Find, Has, In
<1>2. PICK o \in obj[In(w)].holds : Borrow(v, k, o)
  BY DEF Find
<1>3. o \in Objs /\ obj[o].kind # "" /\ Stays(obj, exec, o)
  BY <1>1, <1>2, PartStays DEF IInv
<1> QED BY <1>2, <1>3, BorrowStep DEF Parts, Kinds

LEMMA VMFacts ==
  ASSUME IInv, NEW w \in Vars, Has(w, "vm")
  PROVE  In(w) \in Objs /\ obj[In(w)].kind = "vm" /\ Stays(obj, exec, In(w))
BY VarStays DEF IInv, Has, In

LEMMA StoreFacts ==
  ASSUME IInv, NEW s \in Vars, Has(s, "store")
  PROVE  In(s) \in Objs /\ obj[In(s)].kind # "" /\ Stays(obj, exec, In(s))
BY VarStays DEF IInv, Has, In

LEMMA AccessStep ==
  ASSUME IInv, NEW v \in Unused, NEW w \in Vars, Access(v, w)
  PROVE  IInv'
<1> USE DEF Kinds, Types
<1>1. CASE GetActiveModule(v, w)
  <2>1. PICK o \in ActiveOf(In(w)) : Borrow(v, "module", o)
    BY <1>1 DEF GetActiveModule
  <2>2. o \in Objs /\ obj[o].kind = "module" /\ Stays(obj, exec, o)
    BY <1>1, VMFacts, ActiveStays DEF GetActiveModule
  <2> QED BY <2>1, <2>2, BorrowStep
<1>2. CASE GetRegisteredModule(v, w)
  <2>1. In(w) \in Objs /\ obj[In(w)].kind = "vm"
    BY <1>2, VMFacts DEF GetRegisteredModule
  <2>2. PICK o \in LinkedTo(StoreOf(In(w))) : Borrow(v, "module", o)
    BY <1>2 DEF GetRegisteredModule
  <2>3. StoreOf(In(w)) \in Objs
    BY <2>1, StoreStays
  <2>4. o \in Objs /\ obj[o].kind = "module" /\ Stays(obj, exec, o)
    BY <2>2, <2>3, LinkedStays DEF LinkedTo, IInv
  <2> QED BY <2>2, <2>4, BorrowStep
<1>3. CASE GetStore(v, w)
  <2>1. In(w) \in Objs /\ obj[In(w)].kind = "vm" /\ Borrow(v, "store", StoreOf(In(w)))
    BY <1>3, VMFacts DEF GetStore
  <2> QED BY <2>1, StoreStays, BorrowStep
<1>4. CASE GetExecutor(v, w)
  BY <1>4, PartStep DEF GetExecutor, Part
<1>5. CASE GetStatistics(v, w)
  BY <1>5, PartStep DEF GetStatistics, Part
<1>6. CASE GetFunctionType(v, w)
  <2>1. PICK o \in ActiveOf(In(w)) : Borrow(v, "functiontype", o)
    BY <1>6 DEF GetFunctionType
  <2>2. o \in Objs /\ obj[o].kind = "module" /\ Stays(obj, exec, o)
    BY <1>6, VMFacts, ActiveStays DEF GetFunctionType
  <2> QED BY <2>1, <2>2, BorrowStep
<1>7. CASE GetFunctionTypeRegistered(v, w)
  <2>1. In(w) \in Objs /\ obj[In(w)].kind = "vm"
    BY <1>7, VMFacts DEF GetFunctionTypeRegistered
  <2>2. PICK o \in LinkedTo(StoreOf(In(w))) : Borrow(v, "functiontype", o)
    BY <1>7 DEF GetFunctionTypeRegistered
  <2>3. StoreOf(In(w)) \in Objs
    BY <2>1, StoreStays
  <2>4. o \in Objs /\ obj[o].kind = "module" /\ Stays(obj, exec, o)
    BY <2>2, <2>3, LinkedStays DEF LinkedTo, IInv
  <2> QED BY <2>2, <2>4, BorrowStep
<1>8. CASE FindModule(v, w)
  <2>1. In(w) \in Objs
    BY <1>8, StoreFacts DEF FindModule
  <2>2. PICK o \in LinkedTo(In(w)) : Borrow(v, "module", o)
    BY <1>8 DEF FindModule
  <2>3. o \in Objs /\ obj[o].kind = "module" /\ Stays(obj, exec, o)
    BY <2>1, <2>2, LinkedStays DEF LinkedTo, IInv
  <2> QED BY <2>2, <2>3, BorrowStep
<1>9. CASE FindTable(v, w) \/ FindMemory(v, w) \/ FindGlobal(v, w)
  BY <1>9, FindStep DEF FindTable, FindMemory, FindGlobal, Parts
<1>10. CASE \/ FindTag(v, w) \/ GetLoader(v, w) \/ GetValidator(v, w) \/ GetTableType(v, w)
            \/ GetMemoryType(v, w) \/ GetGlobalType(v, w) \/ GetTagType(v, w)
            \/ ListImports(v, w) \/ ListExports(v, w) \/ GetTagFunctionType(v, w)
  BY <1>10, PartStep
     DEF FindTag, GetLoader, GetValidator, GetTableType, GetMemoryType, GetGlobalType, GetTagType,
         ListImports, ListExports, GetTagFunctionType
<1>11. CASE GetImportValue(v, w) \/ GetExportValue(v, w)
  BY <1>11, PartStep DEF GetImportValue, GetExportValue
<1> QED BY <1>1, <1>2, <1>3, <1>4, <1>5, <1>6, <1>7, <1>8, <1>9, <1>10, <1>11 DEF Access

LEMMA FrameStep ==
  ASSUME IInv, NEW v \in Unused, NEW a \in Objs, FrameAccess(v, a)
  PROVE  IInv'
<1>1. ASSUME NEW ks, NEW o \in Frame(a, ks)
      PROVE  o \in Objs /\ obj[o].kind \in ks /\ obj[o].kind # "" /\ Stays(obj, exec, o)
  <2>1. o \in exec[a].touch /\ exec[a].st = "running" /\ obj[o].kind \in ks
    BY <1>1 DEF Frame
  <2>2. a \notin seen
    BY <2>1 DEF IInv, Good, ExecsOK, ExecOK
  <2>3. o \in Objs
    BY <2>1, GoodTypes DEF IInv, Typed
  <2> QED BY <2>1, <2>2, <2>3, TouchedStays DEF IInv
<1>5. ASSUME NEW m \in Frame(a, {"module"})
      PROVE  m \in Objs /\ obj[m].kind = "module" /\ Stays(obj, exec, m)
  <2>1. m \in Objs /\ obj[m].kind \in {"module"} /\ Stays(obj, exec, m)
    BY <1>1
  <2> QED BY <2>1
<1>2. CASE FrameGetExecutor(v, a)
  BY <1>1, <1>2, BorrowStep DEF FrameGetExecutor, Kinds
<1>3. CASE FrameGetModule(v, a)
  <2>1. PICK m \in Frame(a, {"module"}) : Borrow(v, "module", m)
    BY <1>3 DEF FrameGetModule
  <2>2. m \in Objs /\ obj[m].kind = "module" /\ Stays(obj, exec, m)
    BY <1>5
  <2> QED BY <2>1, <2>2, BorrowStep DEF Kinds
<1>4. CASE FrameGetMemory(v, a)
  <2>1. PICK m \in Frame(a, {"module"}) : \E o \in obj[m].holds : Borrow(v, "memory", o)
    BY <1>4 DEF FrameGetMemory
  <2>2. m \in Objs /\ obj[m].kind = "module" /\ Stays(obj, exec, m)
    BY <1>5
  <2>3. PICK o \in obj[m].holds : Borrow(v, "memory", o)
    BY <2>1
  <2>4. o \in Objs /\ obj[o].kind # "" /\ Stays(obj, exec, o)
    BY <2>2, <2>3, PartStays DEF IInv
  <2> QED BY <2>3, <2>4, BorrowStep DEF Kinds
<1> QED BY <1>2, <1>3, <1>4 DEF FrameAccess

---------------------------------------------------------------------------
(* The steps: something is deleted *)

(* What is within S, S itself and what it holds, is closed; what somebody  *)
(* else holds of it is in S.                                               *)
LEMMA WithinFacts ==
  ASSUME IInv, NEW R \in SUBSET Objs
  PROVE  /\ R \subseteq Within(R) /\ Within(R) \subseteq Objs
         /\ \A x \in Within(R) : obj[x].holds \subseteq Within(R)
         /\ \A x \in Within(R) : x \in R \/ \E z \in Within(R) : x \in obj[z].holds
<1> DEFINE closed(T) == T \cup UNION {obj[o].holds : o \in T}
<1>1. Within(R) = closed(closed(R))
  BY DEF Within
<1>2. \A x \in Objs : obj[x].holds \subseteq Objs
  BY GoodTypes DEF IInv, Typed
<1>3. \A T : /\ T \subseteq closed(T)
             /\ \A x \in T : obj[x].holds \subseteq closed(T)
             /\ \A x \in closed(T) : x \in T \/ \E z \in T : x \in obj[z].holds
  OBVIOUS
<1>4. \A T \in SUBSET Objs : closed(T) \subseteq Objs
  BY <1>2
<1>5. closed(R) \subseteq Objs
  BY <1>4
<1> HIDE DEF closed
<1>6. R \subseteq Within(R) /\ Within(R) \subseteq Objs
  BY <1>1, <1>3, <1>4, <1>5
<1>7. ASSUME NEW x \in Within(R), NEW h \in obj[x].holds PROVE h \in Within(R)
  <2>1. CASE x \in closed(R)
    <3>1. obj[x].holds \subseteq closed(closed(R))
      BY <1>3, <2>1
    <3> QED BY <1>1, <1>7, <3>1
  <2>2. CASE x \notin closed(R)
    <3>1. PICK y \in closed(R) : x \in obj[y].holds
      BY <1>1, <1>3, <1>7, <2>2
    <3>2. y \notin R
      BY <1>3, <2>2, <3>1
    <3>3. PICK z \in R : y \in obj[z].holds
      BY <1>3, <3>1, <3>2
    <3>4. y \in Objs /\ x \in Objs
      BY <1>2, <3>1, <3>3
    <3>5. obj[y].kind \in Parts \cup {"module"}
      BY <3>3 DEF IInv, Good, ObjsOK
    <3>6. obj[x].kind \in Parts
      BY <3>1, <3>4, <3>5 DEF IInv, Good, ObjsOK, Parts
    <3> QED BY <1>7, <3>4, <3>6 DEF IInv, Good, ObjsOK, Parts
  <2> QED BY <2>1, <2>2
<1>8. ASSUME NEW x \in Within(R), x \notin R PROVE \E z \in Within(R) : x \in obj[z].holds
  <2>1. x \in closed(R) \/ \E z \in closed(R) : x \in obj[z].holds
    BY <1>1, <1>3
  <2>2. x \in closed(R) => \E z \in R : x \in obj[z].holds
    BY <1>3, <1>8
  <2>3. R \subseteq closed(R) /\ closed(R) \subseteq Within(R)
    BY <1>1, <1>3
  <2> QED BY <2>1, <2>2, <2>3
<1> QED BY <1>6, <1>7, <1>8

LEMMA HeldOutside ==
  ASSUME IInv, NEW R \in SUBSET Objs, NEW x \in Objs \ Within(R),
         NEW y \in obj[x].holds, y \in Within(R)
  PROVE  y \in R
<1> SUFFICES ASSUME y \notin R PROVE FALSE
  OBVIOUS
<1>1. PICK z \in Within(R) : y \in obj[z].holds
  BY WithinFacts
<1>2. y \in Objs /\ z \in Objs
  BY WithinFacts
<1>3. z = x
  BY <1>1, <1>2 DEF IInv, Good, OwnersOK
<1> QED BY <1>1, <1>3

(* What the program knows to be unneeded is unneeded. *)
LEMMA NotNeeded ==
  ASSUME IInv, NEW v \in Vars, NEW R \in SUBSET Objs, ~Needed(v, R)
  PROVE  /\ \A w \in Vars \ {v} : In(w) \in Within(R) => var[w].own /\ In(w) \in R
         /\ \A x \in Objs \ Within(R) : obj[x].uses \cap Within(R) = {}
         /\ \A a \in Objs \ seen : exec[a].touch \cap Within(R) = {}
<1>1. ASSUME NEW w \in Vars \ {v}, In(w) \in Within(R) PROVE var[w].own /\ In(w) \in R
  <2>1. var[w].own
    BY <1>1 DEF Needed, Assignable
  <2>2. ASSUME In(w) \notin R PROVE FALSE
    <3>1. PICK z \in Within(R) : In(w) \in obj[z].holds
      BY <1>1, <2>2, WithinFacts
    <3>2. z \in Objs
      BY WithinFacts
    <3> QED BY <2>1, <3>1, <3>2 DEF IInv, Good, OwnersOK, In
  <2> QED BY <2>1, <2>2
<1>2. ASSUME NEW x \in Objs \ Within(R) PROVE obj[x].uses \cap Within(R) = {}
  <2>1. CASE x \in Live
    BY <2>1 DEF Needed
  <2>2. CASE x \notin Live
    BY <2>2, NoObjectFields DEF Live
  <2> QED BY <2>1, <2>2
<1>3. \A a \in Objs \ seen : exec[a].touch \cap Within(R) = {}
  BY DEF Needed
<1> QED BY <1>1, <1>2, <1>3

(* What becomes of an execution, and of what the program knows of it, when *)
(* variable v is released.                                                 *)
ExecAfter(v) ==
  [a \in Objs |-> IF a = In(v) /\ exec[a].st = "ended" THEN NoExec ELSE exec[a]]

LEMMA ReleaseExec ==
  ASSUME IInv, NEW v \in Vars
  PROVE  /\ ExecAfter(v) \in [Objs -> ExecValues] /\ seen \ {In(v)} \subseteq seen
         /\ \A a \in Objs : /\ ExecAfter(v)[a] = exec[a] \/ ExecAfter(v)[a] = NoExec
                            /\ a \in seen \ (seen \ {In(v)}) => ExecAfter(v)[a] = NoExec
                            /\ a \in seen \ {In(v)} => ExecAfter(v)[a] = exec[a]
                            /\ a = In(v) /\ exec[a].st \in {"none", "ended"} => ExecAfter(v)[a] = NoExec
<1>1. \A a \in Objs : ExecOK(a, exec[a], obj, seen) /\ exec[a] \in ExecValues
  BY DEF IInv, Good, ExecsOK, TypesOK
<1>2. \A a \in Objs : ExecAfter(v)[a] = IF a = In(v) /\ exec[a].st = "ended" THEN NoExec ELSE exec[a]
  BY DEF ExecAfter
<1>3. NoExec \in ExecValues
  BY DEF NoExec, ExecValues
<1>4. ExecAfter(v) \in [Objs -> ExecValues]
  BY <1>1, <1>3 DEF ExecAfter
<1>5. \A a \in Objs : /\ a \in seen => exec[a].st = "ended"
                      /\ exec[a].st = "none" => exec[a] = NoExec
  BY <1>1 DEF ExecOK
<1> QED BY <1>2, <1>4, <1>5

LEMMA ReleaseStep ==
  ASSUME IInv, NEW v \in Vars, NEW k, Release(v, k)
  PROVE  IInv'
<1> DEFINE F == ExecAfter(v)
           T == seen \ {In(v)}
           W == [var EXCEPT ![v] = Nothing]
<1>1. exec' = F /\ seen' = T /\ var' = W /\ Has(v, k)
  BY DEF Release, ExecAfter, Cleared
<1>2. W \in [Vars -> VarValues] /\ W[v] = Nothing /\ \A w \in Vars \ {v} : W[w] = var[w]
  <2>1. Nothing \in VarValues
    BY DEF Nothing, VarValues
  <2> QED BY <2>1 DEF IInv, Good, TypesOK
<1>3. /\ F \in [Objs -> ExecValues] /\ T \subseteq seen
      /\ \A a \in Objs : /\ F[a] = exec[a] \/ F[a] = NoExec
                         /\ a \in seen \ T => F[a] = NoExec
                         /\ a \in T => F[a] = exec[a]
                         /\ a = In(v) /\ exec[a].st \in {"none", "ended"} => F[a] = NoExec
  BY ReleaseExec
<1>4. In(v) # None /\ In(v) \in Objs
  BY <1>1, VarStays DEF Has, In, IInv
<1>5. obj \in [Objs -> ObjValues]
  BY DEF IInv, Good, TypesOK
<1> HIDE DEF F, T, W
<1>6. CASE var[v].own
  <2> DEFINE D == Within({In(v)})
             P == Without({In(v)})
             M == LinksWithout({In(v)})
  <2>1. obj' = P /\ links' = M /\ ~Needed(v, {In(v)})
    BY <1>6 DEF Release, Deletes
  <2>2. {In(v)} \in SUBSET Objs
    BY <1>4
  <2>3. /\ In(v) \in D /\ D \subseteq Objs
        /\ \A x \in D : obj[x].holds \subseteq D
    BY <2>2, WithinFacts
  <2>4. /\ \A w \in Vars \ {v} : In(w) \in D => var[w].own /\ In(w) = In(v)
        /\ \A x \in Objs \ D : obj[x].uses \cap D = {}
        /\ \A a \in Objs \ seen : exec[a].touch \cap D = {}
    BY <2>1, <2>2, NotNeeded
  <2>5. \A w \in Vars \ {v} : In(w) \notin D
    BY <1>6, <2>4 DEF IInv, Good, OwnersOK, In
  <2>6. \A x \in Objs \ D : obj[x].holds \cap D = {}
    <3>1. ASSUME NEW x \in Objs \ D, NEW y \in obj[x].holds, y \in D PROVE FALSE
      <4>1. y = In(v)
        BY <2>2, <3>1, HeldOutside
      <4> QED BY <1>6, <3>1, <4>1 DEF IInv, Good, OwnersOK, In
    <3> QED BY <3>1
  <2>7. NoObject \in ObjValues
    BY DEF NoObject, Object, ObjValues
  <2>8. /\ P \in [Objs -> ObjValues] /\ \A x \in D : P[x] = NoObject
        /\ \A x \in Objs \ D : P[x] = obj[x]
    BY <1>5, <2>3, <2>7 DEF Without
  <2>9. M \subseteq links /\ \A s, m \in Objs : <<s, m>> \in M => s \notin D /\ m \notin D
    BY DEF LinksWithout
  <2>10. \A a \in D : F[a] = NoExec
    <3> SUFFICES ASSUME NEW a \in D PROVE F[a] = NoExec
      OBVIOUS
    <3>1. a \in Objs /\ ExecOK(a, exec[a], obj, seen)
      BY <2>3 DEF IInv, Good, ExecsOK
    <3>2. a \notin seen => exec[a].st = "none"
      BY <2>4, <3>1 DEF ExecOK
    <3>3. CASE a = In(v)
      BY <1>3, <3>1, <3>2, <3>3 DEF ExecOK
    <3>4. CASE a # In(v)
      <4>1. PICK z \in D : a \in obj[z].holds
        BY <2>2, <3>4, WithinFacts
      <4>2. obj[a].kind # "async"
        BY <2>3, <4>1 DEF IInv, Good, ObjsOK, Parts
      <4>3. exec[a] = NoExec
        BY <3>1, <4>2 DEF ExecOK
      <4> QED BY <1>3, <3>1, <4>3
    <3> QED BY <3>3, <3>4
  <2>11. \A x \in Objs \ D :
           /\ P[x].kind = obj[x].kind /\ P[x].uses = obj[x].uses /\ P[x].holds = obj[x].holds \ D
           /\ P[x].active = IF obj[x].active \in D THEN None ELSE obj[x].active
           /\ obj[x].kind = "" => P[x] = obj[x]
    <3>1. \A x \in Objs : obj[x].active # None => obj[x].active \in obj[x].holds
      BY DEF IInv, Good, ObjsOK
    <3>2. \A x \in Objs \ D : obj[x].active \notin D
      BY <2>3, <2>6, <3>1, NoneAssumption
    <3> HIDE DEF P, D
    <3> QED BY <2>6, <2>8, <3>2
  <2>12. \A w \in Vars : \/ W[w] = var[w] /\ var[w].inner \notin D
                         \/ W[w] = Nothing /\ (var[w].own => var[w].inner \in D)
    BY <1>2, <2>3, <2>5 DEF In
  <2> HIDE DEF D, P, M
  <2>13. Deletion(var, obj, links, exec, seen, D, W, P, M, F, T)
    BY <1>2, <1>3, <2>3, <2>4, <2>8, <2>9, <2>10, <2>11, <2>12 DEF Deletion
  <2>14. Good(W, P, M, F, T)
    BY <2>13, GoodDelete DEF IInv
  <2> QED BY <1>1, <2>1, <2>14 DEF IInv
<1>7. CASE ~var[v].own
  <2>1. obj' = obj /\ links' = links
    BY <1>7 DEF Release, Deletes
  <2>2. \A x \in Objs \ {} :
          /\ obj[x].holds = obj[x].holds \ {}
          /\ obj[x].active = IF obj[x].active \in {} THEN None ELSE obj[x].active
    OBVIOUS
  <2>3. Deletion(var, obj, links, exec, seen, {}, W, obj, links, F, T)
    BY <1>2, <1>3, <1>5, <1>7, <2>2 DEF Deletion
  <2>4. Good(W, obj, links, F, T)
    BY <2>3, GoodDelete DEF IInv
  <2> QED BY <1>1, <2>1, <2>4 DEF IInv
<1> QED BY <1>6, <1>7

LEMMA ForgetStep ==
  ASSUME IInv, NEW v \in Vars, Forget(v)
  PROVE  IInv'
<1> DEFINE W == [var EXCEPT ![v] = Nothing]
<1>1. ~var[v].own
  BY DEF Forget, IInv, Good, VarsOK, VarOK
<1>2. W \in [Vars -> VarValues] /\ W[v] = Nothing /\ \A w \in Vars \ {v} : W[w] = var[w]
  <2>1. Nothing \in VarValues
    BY DEF Nothing, VarValues
  <2> QED BY <2>1 DEF IInv, Good, TypesOK
<1>3. obj \in [Objs -> ObjValues] /\ exec \in [Objs -> ExecValues]
  BY DEF IInv, Good, TypesOK
<1>4. var' = W
  BY DEF Forget
<1> HIDE DEF W
<1>5. \A x \in Objs \ {} :
        /\ obj[x].holds = obj[x].holds \ {}
        /\ obj[x].active = IF obj[x].active \in {} THEN None ELSE obj[x].active
  OBVIOUS
<1>6. Deletion(var, obj, links, exec, seen, {}, W, obj, links, exec, seen)
  BY <1>1, <1>2, <1>3, <1>5 DEF Deletion
<1>7. Good(W, obj, links, exec, seen)
  BY <1>6, GoodDelete DEF IInv
<1> QED BY <1>4, <1>7 DEF Forget, IInv

(* A VM loses some of the modules that it holds; R says which, Within(R)   *)
(* is what is deleted.                                                     *)
Stripped(vm, R) ==
  [x \in Objs |-> IF x \in Within(R) THEN NoObject
                  ELSE IF x = vm THEN [obj[vm] EXCEPT !.holds = @ \ R,
                                                      !.active = IF @ \in R THEN None ELSE @]
                  ELSE obj[x]]

LEMMA StrippedFacts ==
  ASSUME IInv, NEW vm \in Objs, obj[vm].kind = "vm", NEW R \in SUBSET obj[vm].holds
  PROVE  /\ R \subseteq Objs /\ vm \notin Within(R)
         /\ \A x \in Within(R) : obj[x].kind \in Parts \cup {"module"}
         /\ obj[vm].holds \cap Within(R) = R
         /\ Stripped(vm, R) \in [Objs -> ObjValues]
         /\ \A x \in Within(R) : Stripped(vm, R)[x] = NoObject
         /\ \A x \in Objs \ Within(R) : x # vm => Stripped(vm, R)[x] = obj[x]
         /\ Stripped(vm, R)[vm].kind = "vm" /\ Stripped(vm, R)[vm].uses = obj[vm].uses
         /\ Stripped(vm, R)[vm].holds = obj[vm].holds \ R
         /\ Stripped(vm, R)[vm].active = IF obj[vm].active \in R THEN None ELSE obj[vm].active
<1>1. R \subseteq Objs
  BY GoodTypes DEF IInv, Typed
<1>2. \A h \in R : obj[h].kind = "module"
  BY DEF IInv, Good, ObjsOK
<1>3. ASSUME NEW x \in Within(R) PROVE obj[x].kind \in Parts \cup {"module"}
  <2>1. CASE x \in R
    BY <1>2, <2>1
  <2>2. CASE x \notin R
    <3>1. PICK z \in Within(R) : x \in obj[z].holds
      BY <1>1, <2>2, WithinFacts
    <3>2. z \in Objs
      BY <1>1, WithinFacts
    <3> QED BY <3>1, <3>2 DEF IInv, Good, ObjsOK
  <2> QED BY <2>1, <2>2
<1>4. vm \notin Within(R)
  BY <1>3 DEF Parts
<1>5. obj[vm].holds \cap Within(R) = R
  BY <1>1, <1>4, WithinFacts, HeldOutside
<1>6. obj[vm] \in ObjValues /\ obj \in [Objs -> ObjValues]
  BY DEF IInv, Good, TypesOK
<1>7. PICK y : y = [obj[vm] EXCEPT !.holds = @ \ R, !.active = IF @ \in R THEN None ELSE @]
  OBVIOUS
<1>8. /\ y.kind = obj[vm].kind /\ y.uses = obj[vm].uses /\ y.holds = obj[vm].holds \ R
      /\ y.active = IF obj[vm].active \in R THEN None ELSE obj[vm].active
      /\ y \in ObjValues
  BY <1>6, <1>7 DEF ObjValues
<1>9. NoObject \in ObjValues
  BY DEF NoObject, Object, ObjValues
<1>10. Stripped(vm, R) = [x \in Objs |-> IF x \in Within(R) THEN NoObject
                                         ELSE IF x = vm THEN y ELSE obj[x]]
  BY <1>7 DEF Stripped
<1>11. Within(R) \subseteq Objs
  BY <1>1, WithinFacts
<1>12. Stripped(vm, R) \in [Objs -> ObjValues]
  BY <1>6, <1>8, <1>9, <1>10
<1>13. /\ \A x \in Within(R) : Stripped(vm, R)[x] = NoObject
       /\ \A x \in Objs \ Within(R) : x # vm => Stripped(vm, R)[x] = obj[x]
       /\ Stripped(vm, R)[vm] = y
  BY <1>4, <1>10, <1>11
<1> QED BY <1>1, <1>3, <1>4, <1>5, <1>8, <1>12, <1>13

LEMMA GoodStripped ==
  ASSUME IInv, NEW vm \in Objs, obj[vm].kind = "vm", NEW R \in SUBSET obj[vm].holds,
         NEW E, Good(var, obj, links, E, seen),
         Unneeded(var, obj, E, seen, Within(R)),
         NEW M \in SUBSET links,
         \A s, m \in Objs : <<s, m>> \in M => s \notin Within(R) /\ m \notin Within(R)
  PROVE  Good(var, Stripped(vm, R), M, E, seen)
<1> DEFINE D == Within(R)
           P == Stripped(vm, R)
<1>1. R \subseteq Objs /\ \A x \in D : obj[x].kind \in Parts \cup {"module"}
  BY StrippedFacts
<1>2. D \subseteq Objs /\ \A x \in D : obj[x].holds \subseteq D
  BY <1>1, WithinFacts
<1>3. /\ \A x \in Objs \ D : obj[x].uses \cap D = {}
      /\ \A a \in Objs \ seen : E[a].touch \cap D = {}
      /\ \A v \in Vars : var[v].inner \notin D
  BY DEF Unneeded
<1>4. P \in [Objs -> ObjValues] /\ \A x \in D : P[x] = NoObject
  BY StrippedFacts
<1>5. \A x \in Objs : obj[x].active # None => obj[x].active \in obj[x].holds
  BY DEF IInv, Good, ObjsOK
<1>6. var \in [Vars -> VarValues] /\ E \in [Objs -> ExecValues]
  BY DEF Good, TypesOK
<1>7. \A a \in D : E[a] = NoExec
  <2>1. \A a \in Objs : ExecOK(a, E[a], obj, seen)
    BY DEF Good, ExecsOK
  <2> QED BY <1>1, <1>2, <2>1 DEF ExecOK, Parts
<1>8. None \notin D
  BY <1>2, NoneAssumption
<1>9. ASSUME NEW x \in Objs \ D
      PROVE  /\ P[x].kind = obj[x].kind /\ P[x].uses = obj[x].uses /\ P[x].holds = obj[x].holds \ D
             /\ P[x].active = IF obj[x].active \in D THEN None ELSE obj[x].active
             /\ obj[x].kind = "" => P[x] = obj[x]
  <2>1. CASE x = vm
    <3>1. /\ P[vm].kind = "vm" /\ P[vm].uses = obj[vm].uses /\ P[vm].holds = obj[vm].holds \ R
          /\ P[vm].active = IF obj[vm].active \in R THEN None ELSE obj[vm].active
          /\ obj[vm].holds \cap D = R
      BY StrippedFacts
    <3>2. obj[vm].active \in R <=> obj[vm].active \in D
      BY <1>5, <1>8, <3>1, <1>1, WithinFacts
    <3>3. obj[vm].holds \ R = obj[vm].holds \ D
      BY <3>1
    <3> HIDE DEF P, D
    <3> QED BY <2>1, <3>1, <3>2, <3>3
  <2>2. CASE x # vm
    <3>1. P[x] = obj[x]
      BY <2>2, StrippedFacts
    <3>2. obj[x].holds \cap D = {}
      <4>1. ASSUME NEW y \in obj[x].holds, y \in D PROVE FALSE
        <5>1. y \in obj[vm].holds /\ y \in Objs
          BY <1>1, <1>9, <4>1, HeldOutside
        <5> QED BY <2>2, <4>1, <5>1 DEF IInv, Good, OwnersOK
      <4> QED BY <4>1
    <3>3. obj[x].active \notin D
      BY <1>5, <1>8, <3>2
    <3> HIDE DEF P, D
    <3> QED BY <3>1, <3>2, <3>3
  <2> QED BY <2>1, <2>2
<1>10. \A s, m \in Objs : <<s, m>> \in M => s \notin D /\ m \notin D
  OBVIOUS
<1> HIDE DEF P, D
<1>11. Deletion(var, obj, links, E, seen, D, var, P, M, E, seen)
  BY <1>2, <1>3, <1>4, <1>6, <1>7, <1>9, <1>10 DEF Deletion
<1>12. Good(var, P, M, E, seen)
  BY <1>11, GoodDelete
<1> QED BY <1>12 DEF P

(* Nobody but variable v uses anything of D. *)
UnneededBut(v, D) ==
  /\ \A w \in Vars \ {v} : var[w].inner \notin D
  /\ \A o \in Objs \ D : obj[o].uses \cap D = {}
  /\ \A b \in Objs \ seen : exec[b].touch \cap D = {}

LEMMA NotNeededBut ==
  ASSUME IInv, NEW v \in Vars, NEW vm \in Objs, obj[vm].kind = "vm",
         NEW R \in SUBSET obj[vm].holds, ~Needed(v, R)
  PROVE  UnneededBut(v, Within(R))
<1>1. R \in SUBSET Objs
  BY StrippedFacts
<1>2. \A w \in Vars \ {v} : In(w) \in Within(R) => var[w].own /\ In(w) \in R
  BY <1>1, NotNeeded
<1>3. \A w \in Vars : var[w].own => In(w) \notin R
  BY DEF IInv, Good, OwnersOK, In
<1>4. \A w \in Vars \ {v} : In(w) \notin Within(R)
  BY <1>2, <1>3
<1> QED BY <1>1, <1>4, NotNeeded DEF UnneededBut, In

LEMMA NotNeededHeld ==
  ASSUME IInv, NEW v \in Vars, NEW vm \in Objs, vm = In(v), obj[vm].kind = "vm",
         NEW R \in SUBSET obj[vm].holds, ~Needed(v, R)
  PROVE  Unneeded(var, obj, exec, seen, Within(R))
<1>1. vm \notin Within(R)
  BY StrippedFacts
<1>2. UnneededBut(v, Within(R))
  BY NotNeededBut
<1> QED BY <1>1, <1>2 DEF Unneeded, UnneededBut, In

LEMMA CleanupStep ==
  ASSUME IInv, NEW v \in Vars, VMCleanup(v)
  PROVE  IInv'
<1>1. PICK vm \in Objs : vm = In(v) /\ obj[vm].kind = "vm"
  BY VMFacts DEF VMCleanup
<1> DEFINE R == obj[vm].holds
<1>2. ~Needed(v, R) /\ R \in SUBSET Objs
  BY <1>1, StrippedFacts DEF VMCleanup
<1>3. /\ vm \notin Within(R) /\ Within(R) \subseteq Objs
      /\ Stripped(vm, R)[vm].holds = {}
  <2>1. R \in SUBSET obj[vm].holds /\ obj[vm].holds \ R = {}
    OBVIOUS
  <2> HIDE DEF R
  <2>2. vm \notin Within(R) /\ Stripped(vm, R)[vm].holds = obj[vm].holds \ R
    BY <1>1, <2>1, StrippedFacts
  <2> QED BY <1>2, <2>1, <2>2, WithinFacts
<1>4. Unneeded(var, obj, exec, seen, Within(R))
  BY <1>1, <1>2, NotNeededHeld
<1>5. links' \subseteq links
      /\ \A s, m \in Objs : <<s, m>> \in links' => s \notin Within(R) /\ m \notin Within(R)
  BY <1>1 DEF VMCleanup, LinksWithout
<1>6. Good(var, Stripped(vm, R), links', exec, seen)
  BY <1>1, <1>4, <1>5, GoodStripped DEF IInv
<1>7. obj' = Stripped(vm, R)
  <2>1. obj[vm].active = None \/ obj[vm].active \in R
    BY DEF IInv, Good, ObjsOK
  <2>2. [obj[vm] EXCEPT !.holds = @ \ R, !.active = IF @ \in R THEN None ELSE @]
          = [obj[vm] EXCEPT !.holds = {}, !.active = None]
    BY <2>1 DEF IInv, Good, TypesOK, ObjValues
  <2>3. Stripped(vm, R) = [x \in Objs |-> IF x \in Within(R) THEN NoObject
                             ELSE IF x = vm THEN [obj[vm] EXCEPT !.holds = {}, !.active = None]
                             ELSE obj[x]]
    BY <2>2 DEF Stripped
  <2>4. obj' = [Without(R) EXCEPT ![vm].holds = {}, ![vm].active = None]
    BY <1>1 DEF VMCleanup
  <2>5. obj' = [x \in Objs |-> IF x = vm THEN [Without(R)[vm] EXCEPT !.holds = {}, !.active = None]
                               ELSE Without(R)[x]]
    BY <2>4 DEF Without
  <2>6. \A x \in Objs : Without(R)[x] = IF x \in Within(R) THEN NoObject ELSE obj[x]
    BY DEF Without
  <2> QED BY <1>3, <2>3, <2>5, <2>6
<1>8. var' = var /\ exec' = exec /\ seen' = seen
  BY DEF VMCleanup
<1> QED BY <1>6, <1>7, <1>8 DEF IInv

---------------------------------------------------------------------------
(* The steps: something is created *)

Made(O, o, k, ms, used) ==
  [x \in Objs |-> IF x = o THEN Object(k, ms, used)
                  ELSE IF x \in ms THEN Object("memory", {}, {})
                  ELSE O[x]]

NewKinds == Kinds \ {"importtype", "exporttype", "tag", "tagtype"}

MadeOK(P, O, o, k, ms, used) ==
  /\ P \in [Objs -> ObjValues] /\ P[o] = Object(k, ms, used)
  /\ \A x \in ms : P[x] = Object("memory", {}, {})
  /\ \A x \in Objs \ (ms \cup {o}) : P[x] = O[x]

LEMMA MadeFacts ==
  ASSUME NEW O \in [Objs -> ObjValues], NEW o \in Objs, NEW k \in NewKinds,
         NEW ms, ms \subseteq Objs \ {o}, NEW used, used \subseteq Objs
  PROVE  MadeOK(Made(O, o, k, ms, used), O, o, k, ms, used)
<1>1. Object(k, ms, used) \in ObjValues /\ Object("memory", {}, {}) \in ObjValues
  BY DEF Object, ObjValues, NewKinds, Kinds
<1>2. PICK a, b : a = Object(k, ms, used) /\ b = Object("memory", {}, {})
  OBVIOUS
<1>3. PICK P : P = Made(O, o, k, ms, used)
  OBVIOUS
<1>4. P = [x \in Objs |-> IF x = o THEN a ELSE IF x \in ms THEN b ELSE O[x]]
  BY <1>2, <1>3 DEF Made
<1>5. a \in ObjValues /\ b \in ObjValues
  BY <1>1, <1>2
<1>6. /\ P \in [Objs -> ObjValues] /\ P[o] = a /\ \A x \in ms : P[x] = b
      /\ \A x \in Objs \ (ms \cup {o}) : P[x] = O[x]
  BY <1>4, <1>5
<1> QED BY <1>2, <1>3, <1>6 DEF MadeOK

(* A variable owns what is made. *)
LEMMA NewByVar ==
  ASSUME IInv, NEW v \in Unused, NEW o \in Fresh, NEW k \in NewKinds,
         NEW ms \in SUBSET (Fresh \ {o}), ms # {} => k = "module",
         NEW used \in SUBSET Objs, \A u \in used : obj[u].kind # "" /\ Stays(obj, exec, u)
  PROVE  Good([var EXCEPT ![v] = Owner(k, o)], Made(obj, o, k, ms, used), links, exec, seen)
<1> DEFINE W == [var EXCEPT ![v] = Owner(k, o)]
           P == Made(obj, o, k, ms, used)
<1>1. v \in Vars /\ ~var[v].own
  BY DEF Unused, Assignable
<1>2. o \in Objs /\ ms \subseteq Objs \ {o} /\ \A x \in ms \cup {o} : obj[x].kind = ""
  BY LiveKinds
<1>3. obj \in [Objs -> ObjValues] /\ var \in [Vars -> VarValues]
  BY DEF IInv, Good, TypesOK
<1>4. MadeOK(P, obj, o, k, ms, used)
  BY <1>2, <1>3, MadeFacts
<1>5. Owner(k, o) \in VarValues
  BY <1>2 DEF Owner, VarValues, NewKinds
<1>6. W \in [Vars -> VarValues] /\ W[v] = Owner(k, o) /\ \A w \in Vars \ {v} : W[w] = var[w]
  BY <1>1, <1>3, <1>5
<1>7. k \in Kinds \ {"", "importtype", "exporttype", "tag", "tagtype"}
  BY DEF NewKinds, Kinds, Types
<1> HIDE DEF W, P
<1>8. Makes(var, obj, exec, o, ms, k, used, W, P, None, None)
  BY <1>2, <1>4, <1>6, <1>7 DEF Makes, MadeOK
<1>9. OwnedBy(v, var, W, k, o)
  BY <1>1, <1>6 DEF OwnedBy
<1>10. Good(W, P, links, exec, seen)
  BY <1>1, <1>8, <1>9, GoodNew DEF IInv
<1> QED BY <1>10 DEF W, P

(* A VM holds the module that is made. *)
MadeBy(vm, O, o, ms, used, nxt) ==
  [Made(O, o, "module", ms, used)
     EXCEPT ![vm] = [O[vm] EXCEPT !.holds = @ \cup {o}, !.active = nxt]]

MadeByOK(P, O, vm, o, ms, nxt) ==
  /\ \A x \in Objs : P[x].active = IF x = vm THEN nxt
                                   ELSE IF x \in ms \cup {o} THEN None ELSE O[x].active
  /\ P[o].kind = "module" /\ Grown(O, P)

LEMMA NewByVM ==
  ASSUME NEW V, NEW O, NEW L, NEW E, NEW S, Good(V, O, L, E, S),
         NEW vm \in Objs, O[vm].kind = "vm",
         NEW o \in Objs, NEW ms \in SUBSET (Objs \ {o}), \A x \in ms \cup {o} : O[x].kind = "",
         NEW used \in SUBSET Objs, \A u \in used : O[u].kind # "" /\ Stays(O, E, u),
         NEW nxt,
         \/ nxt = O[vm].active
         \/ nxt = o /\ \A a \in Objs : E[a].st = "loading" => E[a].runs # vm,
         NEW P, P = MadeBy(vm, O, o, ms, used, nxt)
  PROVE  Good(V, P, L, E, S) /\ MadeByOK(P, O, vm, o, ms, nxt)
<1>1. O \in [Objs -> ObjValues] /\ V \in [Vars -> VarValues]
  BY DEF Good, TypesOK
<1>2. "module" \in NewKinds
  BY DEF NewKinds, Kinds
<1> DEFINE Q == Made(O, o, "module", ms, used)
<1>3. MadeOK(Q, O, o, "module", ms, used)
  BY <1>1, <1>2, MadeFacts
<1>4. vm \notin ms \cup {o}
  OBVIOUS
<1>5. O[vm] \in ObjValues
  BY <1>1
<1>6. nxt \in Objs \cup {None}
  BY <1>5 DEF ObjValues
<1>15. PICK y : y = [O[vm] EXCEPT !.holds = @ \cup {o}, !.active = nxt]
  OBVIOUS
<1>7. /\ y.kind = "vm" /\ y.uses = O[vm].uses /\ y.holds = O[vm].holds \cup {o} /\ y.active = nxt
      /\ y \in ObjValues
  <2>1. O[vm].holds \cup {o} \in SUBSET Objs
    BY <1>5 DEF ObjValues
  <2> QED BY <1>5, <1>6, <1>15, <2>1 DEF ObjValues
<1> HIDE DEF Q
<1>8. /\ P \in [Objs -> ObjValues] /\ P[vm] = y /\ P[o] = Object("module", ms, used)
      /\ \A x \in ms : P[x] = Object("memory", {}, {})
      /\ \A x \in Objs \ (ms \cup {o, vm}) : P[x] = O[x]
  <2>1. P = [Q EXCEPT ![vm] = y]
    BY <1>15 DEF Q, MadeBy
  <2>2. Q \in [Objs -> ObjValues]
    BY <1>3 DEF MadeOK
  <2>3. /\ P \in [Objs -> ObjValues] /\ P[vm] = y
        /\ \A x \in Objs \ {vm} : P[x] = Q[x]
    BY <1>7, <2>1, <2>2
  <2> QED BY <1>3, <1>4, <2>3 DEF MadeOK
<1>9. Makes(V, O, E, o, ms, "module", used, V, P, vm, nxt)
  BY <1>1, <1>8 DEF Makes, Kinds, Types
<1>10. HeldBy(vm, O, P, E, o, nxt)
  <2>1. /\ P[vm].kind = "vm" /\ P[vm].uses = O[vm].uses
        /\ P[vm].holds = O[vm].holds \cup {o} /\ P[vm].active = nxt
    BY <1>7, <1>8
  <2> QED BY <2>1 DEF HeldBy
<1>11. Good(V, P, L, E, S)
  BY <1>9, <1>10, GoodNew
<1>12. /\ P[o].kind = "module" /\ P[o].active = None
       /\ \A x \in ms : P[x].kind = "memory" /\ P[x].active = None
  <2>1. P[o] = Object("module", ms, used) /\ \A x \in ms : P[x] = Object("memory", {}, {})
    BY <1>8
  <2>2. Object("module", ms, used).kind = "module" /\ Object("module", ms, used).active = None
    BY DEF Object
  <2>3. Object("memory", {}, {}).kind = "memory" /\ Object("memory", {}, {}).active = None
    BY DEF Object
  <2> QED BY <2>1, <2>2, <2>3
<1>13. Grown(O, P)
  <2>1. ASSUME NEW x \in Objs, O[x].kind # "" PROVE P[x].kind = O[x].kind
    <3>1. x \notin ms \cup {o}
      BY <2>1
    <3>2. CASE x = vm
      BY <1>7, <1>8, <3>2
    <3>3. CASE x # vm
      BY <1>8, <3>1, <3>3
    <3> QED BY <3>2, <3>3
  <2> QED BY <2>1 DEF Grown
<1>14. ASSUME NEW x \in Objs
       PROVE  P[x].active = IF x = vm THEN nxt ELSE IF x \in ms \cup {o} THEN None ELSE O[x].active
  <2>1. CASE x = vm
    BY <1>7, <1>8, <2>1
  <2>2. CASE x \in ms \cup {o}
    <3>1. P[x].active = None /\ x # vm
      BY <1>4, <1>12, <2>2
    <3> QED BY <2>2, <3>1
  <2>3. CASE x \notin ms \cup {o} /\ x # vm
    BY <1>8, <2>3
  <2> QED BY <2>1, <2>2, <2>3
<1> QED BY <1>11, <1>12, <1>13, <1>14 DEF MadeByOK

LEMMA CreateStep ==
  ASSUME IInv, NEW v \in Unused, NEW o \in Fresh, NEW k \in NewKinds,
         NEW used \in SUBSET Objs, \A u \in used : obj[u].kind # "" /\ Stays(obj, exec, u),
         Create(v, o, k, used)
  PROVE  IInv'
<1>1. Good([var EXCEPT ![v] = Owner(k, o)], Made(obj, o, k, {}, used), links, exec, seen)
  BY NewByVar
<1>2. obj' = Made(obj, o, k, {}, used)
  <2>1. obj' = [obj EXCEPT ![o] = Object(k, {}, used)] /\ obj \in [Objs -> ObjValues]
    BY DEF Create, IInv, Good, TypesOK
  <2>2. PICK y : y = Object(k, {}, used)
    OBVIOUS
  <2>3. Made(obj, o, k, {}, used) = [x \in Objs |-> IF x = o THEN y ELSE obj[x]]
    BY <2>2 DEF Made
  <2> QED BY <2>1, <2>2, <2>3
<1> QED BY <1>1, <1>2 DEF Create, IInv

LEMMA NewStep ==
  ASSUME IInv, NEW v \in Unused, NEW o \in Fresh, New(v, o)
  PROVE  IInv'
<1>1. PICK k \in NewKinds : Create(v, o, k, {})
  BY DEF New, NewVM, NewStore, NewStatistics, NewExecutor, NewModule, NewTable, NewMemory, NewGlobal,
         NewConfigure, NewLoader, NewValidator, NewCompiler, NewFunctionType, NewTableType,
         NewMemoryType, NewGlobalType, PluginCreateModule, NewWasiModule, NewKinds, Kinds, Types
<1>2. {} \in SUBSET Objs /\ \A u \in {} : obj[u].kind # "" /\ Stays(obj, exec, u)
  OBVIOUS
<1> QED BY <1>1, <1>2, CreateStep

(* What an instantiated module imports from stays. *)
LEMMA ImportsStay ==
  ASSUME NEW V, NEW O, NEW L, NEW E, NEW S, Good(V, O, L, E, S),
         NEW s \in Objs, NEW m \in Objs, <<s, m>> \in L
  PROVE  O[m].kind # "" /\ Stays(O, E, m)
BY LinkedStays

LEMMA ExportsFacts ==
  ASSUME IInv, NEW o \in Fresh, NEW ms \in Exports(o)
  PROVE  /\ o \in Objs /\ ms \subseteq Fresh \ {o} /\ ms \subseteq Objs \ {o}
         /\ \A x \in ms \cup {o} : obj[x].kind = ""
BY LiveKinds DEF Exports

LEMMA InstantiatedStep ==
  ASSUME IInv, NEW v \in Unused, NEW x \in Vars, NEW s \in Vars, NEW o \in Fresh,
         NEW found, found \in {{}, {<<In(s), o>>}},
         Instantiated(v, x, s, o, found)
  PROVE  IInv'
<1>1. PICK t \in Objs : t = In(s) /\ obj[t].kind # ""
  BY StoreFacts DEF Instantiated
<1>2. PICK ms \in Exports(o) : obj' = WithModule(obj, o, ms, t)
  BY <1>1 DEF Instantiated
<1>3. o \in Objs /\ ms \subseteq Fresh \ {o} /\ ms \subseteq Objs \ {o} /\ o \in Fresh
  BY ExportsFacts
<1>4. LinkedTo(t) \subseteq Objs
      /\ \A u \in LinkedTo(t) : obj[u].kind # "" /\ Stays(obj, exec, u)
  BY ImportsStay DEF LinkedTo, IInv
<1> DEFINE W == [var EXCEPT ![v] = Owner("module", o)]
           P == Made(obj, o, "module", ms, LinkedTo(t))
<1>5. obj' = P
  BY <1>2 DEF WithModule, Made
<1>6. "module" \in NewKinds
  BY DEF NewKinds, Kinds
<1>7. Good(W, P, links, exec, seen)
  BY <1>3, <1>4, <1>6, NewByVar
<1>8. obj \in [Objs -> ObjValues] /\ obj[o].kind = ""
  BY LiveKinds DEF IInv, Good, TypesOK
<1>9. /\ P[o] = Object("module", ms, LinkedTo(t))
      /\ \A y \in ms : P[y] = Object("memory", {}, {})
      /\ \A y \in Objs \ (ms \cup {o}) : P[y] = obj[y]
  <2>1. MadeOK(P, obj, o, "module", ms, LinkedTo(t))
    BY <1>3, <1>4, <1>6, <1>8, MadeFacts
  <2> QED BY <2>1 DEF MadeOK
<1> HIDE DEF P, W
<1>10. P[o].kind = "module" /\ P[o].active = None /\ \A y \in ms : P[y].active = None
  BY <1>9 DEF Object
<1>11. P[t].kind # ""
  <2>1. \A y \in ms \cup {o} : obj[y].kind = ""
    BY ExportsFacts
  <2> QED BY <1>1, <1>9, <2>1
<1>12. \A y \in Objs : P[y].active # o
  <2>1. \A y \in Objs : obj[y].active # o
    <3>1. Unknown(o, var, obj, links, exec, seen)
      BY <1>3, <1>8, FreshFacts DEF IInv
    <3> QED BY <3>1 DEF Unknown
  <2>2. None # o
    BY <1>3, NoneAssumption
  <2> QED BY <1>9, <1>10, <2>1, <2>2
<1>13. Good(W, P, links \cup {<<t, o>>}, exec, seen)
  BY <1>3, <1>7, <1>10, <1>11, <1>12, GoodLink
<1>14. links' = links \cup found /\ (links \cup found = links \/ links \cup found = links \cup {<<t, o>>})
  BY <1>1 DEF Instantiated
<1>15. var' = W /\ exec' = exec /\ seen' = seen
  BY DEF Instantiated, W
<1> QED BY <1>5, <1>7, <1>13, <1>14, <1>15 DEF IInv

---------------------------------------------------------------------------
(* The steps: a VM makes a module *)

LEMMA RegisterWasmStep ==
  ASSUME IInv, NEW v \in Vars, NEW o \in Fresh, VMRegisterWasm(v, o)
  PROVE  IInv'
<1>1. PICK vm \in Objs : vm = In(v) /\ obj[vm].kind = "vm"
  BY VMFacts DEF VMRegisterWasm
<1>2. PICK t \in Objs : t = StoreOf(vm) /\ obj[t].kind # ""
  BY <1>1, StoreStays
<1>3. PICK ms \in Exports(o) :
        obj' = [WithModule(obj, o, ms, t) EXCEPT ![vm].holds = @ \cup {o}]
  BY <1>1, <1>2 DEF VMRegisterWasm
<1>4. /\ o \in Objs /\ ms \subseteq Objs \ {o} /\ \A x \in ms \cup {o} : obj[x].kind = ""
  BY ExportsFacts
<1>5. /\ LinkedTo(t) \subseteq Objs
      /\ \A u \in LinkedTo(t) : obj[u].kind # "" /\ Stays(obj, exec, u)
  BY ImportsStay DEF LinkedTo, IInv
<1> DEFINE P == MadeBy(vm, obj, o, ms, LinkedTo(t), obj[vm].active)
<1>6. obj' = P
  <2>1. obj[vm] \in ObjValues /\ vm \notin ms \cup {o}
    BY <1>1, <1>4 DEF IInv, Good, TypesOK
  <2>2. PICK f : f = WithModule(obj, o, ms, t)
    OBVIOUS
  <2>3. f = Made(obj, o, "module", ms, LinkedTo(t))
    BY <2>2 DEF WithModule, Made
  <2>4. f[vm] = obj[vm] /\ DOMAIN f = Objs
    BY <2>1, <2>3 DEF Made
  <2>5. [obj[vm] EXCEPT !.holds = @ \cup {o}, !.active = obj[vm].active]
          = [obj[vm] EXCEPT !.holds = @ \cup {o}]
    BY <2>1 DEF ObjValues
  <2>6. obj' = [f EXCEPT ![vm] = [obj[vm] EXCEPT !.holds = @ \cup {o}]]
    BY <1>3, <2>2, <2>4
  <2> QED BY <2>3, <2>5, <2>6 DEF MadeBy
<1>7. Good(var, obj, links, exec, seen)
  BY DEF IInv
<1>13. LinkedTo(t) \in SUBSET Objs /\ ms \in SUBSET (Objs \ {o})
       /\ P = MadeBy(vm, obj, o, ms, LinkedTo(t), obj[vm].active)
  BY <1>4, <1>5
<1> HIDE DEF P
<1>14. Good(var, P, links, exec, seen) /\ MadeByOK(P, obj, vm, o, ms, obj[vm].active)
  BY <1>1, <1>4, <1>5, <1>7, <1>13, NewByVM
<1>8. /\ Good(var, P, links, exec, seen)
      /\ \A x \in Objs : P[x].active = IF x = vm THEN obj[vm].active
                                       ELSE IF x \in ms \cup {o} THEN None ELSE obj[x].active
      /\ P[o].kind = "module" /\ Grown(obj, P)
  BY <1>14 DEF MadeByOK
<1>9. \A x \in Objs : P[x].active # o
  <2>1. Unknown(o, var, obj, links, exec, seen)
    BY <1>4, <1>7, FreshFacts
  <2>2. None # o
    BY <1>4, NoneAssumption
  <2> QED BY <1>8, <2>1, <2>2 DEF Unknown
<1>10. P[t].kind # ""
  BY <1>2, <1>8 DEF Grown
<1>11. Good(var, P, links \cup {<<t, o>>}, exec, seen)
  BY <1>4, <1>8, <1>9, <1>10, GoodLink
<1>12. links' = links \cup {<<t, o>>} /\ var' = var /\ exec' = exec /\ seen' = seen
  BY <1>1, <1>2 DEF VMRegisterWasm
<1> QED BY <1>6, <1>11, <1>12, <1>13 DEF IInv

LEMMA ReplacedIs ==
  ASSUME IInv, NEW vm \in Objs, obj[vm].kind = "vm", NEW o \in Fresh, NEW ms \in Exports(o)
  PROVE  Replaced(vm, o, ms)
           = MadeBy(vm, Stripped(vm, ActiveOf(vm)), o, ms, LinkedTo(StoreOf(vm)), o)
<1> DEFINE R == ActiveOf(vm)
           U == LinkedTo(StoreOf(vm))
<1>1. /\ o \in Objs /\ ms \subseteq Objs \ {o} /\ \A x \in ms \cup {o} : obj[x].kind = ""
  BY ExportsFacts
<1>2. vm \notin ms \cup {o}
  BY <1>1
<1>3. R \in SUBSET obj[vm].holds
  BY DEF ActiveOf, IInv, Good, ObjsOK
<1>4. vm \notin Within(R)
  BY <1>3, StrippedFacts
<1>5. obj[vm] \in ObjValues
  BY DEF IInv, Good, TypesOK
<1>6. PICK f, g : /\ f = WithModule(Without(R), o, ms, StoreOf(vm))
                  /\ g = Made(Stripped(vm, R), o, "module", ms, U)
  OBVIOUS
<1>7. PICK a, b : a = Object("module", ms, U) /\ b = Object("memory", {}, {})
  OBVIOUS
<1>8. f = [x \in Objs |-> IF x = o THEN a ELSE IF x \in ms THEN b ELSE Without(R)[x]]
  BY <1>6, <1>7 DEF WithModule
<1>9. g = [x \in Objs |-> IF x = o THEN a ELSE IF x \in ms THEN b ELSE Stripped(vm, R)[x]]
  BY <1>6, <1>7 DEF Made
<1>10. f[vm] = obj[vm]
  <2>1. Without(R)[vm] = obj[vm]
    BY <1>4 DEF Without
  <2> QED BY <1>2, <1>8, <2>1
<1>11. \A x \in Objs \ {vm} : f[x] = g[x]
  <2>1. \A x \in Objs \ {vm} : Without(R)[x] = Stripped(vm, R)[x]
    BY DEF Without, Stripped
  <2> QED BY <1>8, <1>9, <2>1
<1>12. PICK y : y = [obj[vm] EXCEPT !.active = o, !.holds = (@ \ R) \cup {o}]
  OBVIOUS
<1>13. PICK z : z = Stripped(vm, R)[vm]
  OBVIOUS
<1>14. z = [obj[vm] EXCEPT !.holds = @ \ R, !.active = IF @ \in R THEN None ELSE @]
  BY <1>4, <1>13 DEF Stripped
<1>15. [z EXCEPT !.holds = @ \cup {o}, !.active = o] = y
  BY <1>5, <1>12, <1>14 DEF ObjValues
<1>16. Replaced(vm, o, ms) = [f EXCEPT ![vm] = y]
  <2>1. Replaced(vm, o, ms) = [f EXCEPT ![vm].active = o, ![vm].holds = (@ \ R) \cup {o}]
    BY <1>6 DEF Replaced
  <2>2. [f EXCEPT ![vm].active = o, ![vm].holds = (@ \ R) \cup {o}]
          = [f EXCEPT ![vm] = [f[vm] EXCEPT !.active = o, !.holds = (@ \ R) \cup {o}]]
    BY <1>5, <1>8, <1>10 DEF ObjValues
  <2> QED BY <1>10, <1>12, <2>1, <2>2
<1>17. MadeBy(vm, Stripped(vm, R), o, ms, U, o) = [g EXCEPT ![vm] = y]
  BY <1>6, <1>13, <1>15 DEF MadeBy
<1>18. [f EXCEPT ![vm] = y] = [g EXCEPT ![vm] = y]
  BY <1>8, <1>9, <1>11
<1> QED BY <1>16, <1>17, <1>18

(* The active module of a VM is replaced. *)
ReplacedOK(P, O, vm, o) ==
  /\ P[o].kind = "module" /\ \A x \in Objs \ {vm} : P[x].active # o
  /\ \A x \in Objs : O[x].kind \notin Parts \cup {"", "module"} => P[x].kind = O[x].kind

LEMMA GoodReplaced ==
  ASSUME IInv, NEW vm \in Objs, obj[vm].kind = "vm", NEW o \in Fresh, NEW ms \in Exports(o),
         NEW E, Good(var, obj, links, E, seen),
         Unneeded(var, obj, E, seen, Within(ActiveOf(vm))),
         \A a \in Objs : E[a].st = "loading" => E[a].runs # vm
  PROVE  /\ Good(var, Replaced(vm, o, ms), LinksWithout(ActiveOf(vm)), E, seen)
         /\ ReplacedOK(Replaced(vm, o, ms), obj, vm, o)
<1> DEFINE R == ActiveOf(vm)
           D == Within(R)
           M == LinksWithout(R)
           Q == Stripped(vm, R)
           t == StoreOf(vm)
           P == Replaced(vm, o, ms)
<1>1. R \in SUBSET obj[vm].holds
  BY DEF ActiveOf, IInv, Good, ObjsOK
<1>2. /\ R \subseteq Objs /\ vm \notin D /\ \A x \in D : obj[x].kind \in Parts \cup {"module"}
      /\ \A x \in Objs \ D : x # vm => Q[x] = obj[x]
      /\ Q[vm].kind = "vm" /\ Q[vm].active = IF obj[vm].active \in R THEN None ELSE obj[vm].active
  BY <1>1, StrippedFacts
<1>3. M \subseteq links /\ \A s, m \in Objs : <<s, m>> \in M => s \notin D /\ m \notin D
  BY DEF LinksWithout
<1>4. Good(var, Q, M, E, seen)
  BY <1>1, <1>3, GoodStripped
<1>5. t \in Objs /\ t \notin D
  <2>1. obj[vm].uses \cap D = {}
    BY <1>2 DEF Unneeded
  <2>2. t = vm \/ t \in obj[vm].uses
    BY DEF StoreOf
  <2> QED BY <1>2, <2>1, <2>2, StoreStays
<1>6. ASSUME NEW u \in LinkedTo(t) PROVE u \in Objs /\ Q[u].kind # "" /\ Stays(Q, E, u)
  <2>1. u \in Objs /\ <<t, u>> \in links
    BY DEF LinkedTo
  <2>2. obj[u].kind = "module" /\ obj[vm].active # u
    BY <1>5, <2>1 DEF IInv, Good, LinksOK
  <2>3. u \notin D
    <3>1. u \notin R
      BY <2>2 DEF ActiveOf
    <3>2. ASSUME NEW z \in D, u \in obj[z].holds PROVE FALSE
      <4>1. z \in Objs /\ obj[z].kind \in Parts \cup {"module"}
        BY <1>2, WithinFacts
      <4> QED BY <2>2, <3>2, <4>1 DEF IInv, Good, ObjsOK, Parts
    <3> QED BY <1>2, <3>1, <3>2, WithinFacts
  <2>4. <<t, u>> \in M
    <3>1. <<t, u>>[1] = t /\ <<t, u>>[2] = u
      OBVIOUS
    <3> QED BY <1>5, <2>1, <2>3, <3>1 DEF LinksWithout
  <2> HIDE DEF Q, M
  <2>5. Q[u].kind # "" /\ Stays(Q, E, u)
    BY <1>4, <1>5, <2>1, <2>4, ImportsStay
  <2> QED BY <2>1, <2>5
<1>7. /\ o \in Objs /\ ms \subseteq Objs \ {o} /\ \A x \in ms \cup {o} : obj[x].kind = ""
  BY ExportsFacts
<1>8. \A x \in ms \cup {o} : Q[x].kind = ""
  BY <1>2, <1>7 DEF Parts
<1>9. P = MadeBy(vm, Q, o, ms, LinkedTo(t), o)
  BY ReplacedIs
<1>10. LinkedTo(t) \in SUBSET Objs /\ ms \in SUBSET (Objs \ {o})
  BY <1>7 DEF LinkedTo
<1> HIDE DEF P, Q, M, t, D, R
<1>11. /\ Good(var, P, M, E, seen)
       /\ \A x \in Objs : P[x].active = IF x = vm THEN o
                                        ELSE IF x \in ms \cup {o} THEN None ELSE Q[x].active
       /\ P[o].kind = "module" /\ Grown(Q, P)
  <2>1. Good(var, P, M, E, seen) /\ MadeByOK(P, Q, vm, o, ms, o)
    <3>1. Q[vm].kind = "vm" /\ o \in Objs
      BY <1>2, <1>7
    <3>2. \A u \in LinkedTo(t) : Q[u].kind # "" /\ Stays(Q, E, u)
      BY <1>6
    <3>3. PICK used : used = LinkedTo(t)
      OBVIOUS
    <3>4. used \in SUBSET Objs /\ \A u \in used : Q[u].kind # "" /\ Stays(Q, E, u)
      BY <1>10, <3>2, <3>3
    <3>5. P = MadeBy(vm, Q, o, ms, used, o)
      BY <1>9, <3>3
    <3> QED BY <1>4, <1>8, <1>10, <3>1, <3>4, <3>5, NewByVM
  <2> QED BY <2>1 DEF MadeByOK
<1>12. ASSUME NEW x \in Objs \ {vm} PROVE P[x].active # o
  <2>1. Unknown(o, var, Q, M, E, seen)
    BY <1>4, <1>7, <1>8, FreshFacts
  <2>2. None # o
    BY <1>7, NoneAssumption
  <2> QED BY <1>11, <2>1, <2>2 DEF Unknown
<1>13. ASSUME NEW x \in Objs, obj[x].kind \notin Parts \cup {"", "module"}
       PROVE  P[x].kind = obj[x].kind
  <2>1. x \notin D
    BY <1>2, <1>13
  <2>2. Q[x].kind = obj[x].kind
    BY <1>2, <2>1
  <2> QED BY <1>11, <1>13, <2>2 DEF Grown
<1>14. ReplacedOK(P, obj, vm, o)
  BY <1>11, <1>12, <1>13 DEF ReplacedOK
<1> QED BY <1>11, <1>14 DEF P, M, R

LEMMA VMInstantiateStep ==
  ASSUME IInv, NEW v \in Vars, NEW o \in Fresh, VMInstantiate(v, o)
  PROVE  IInv'
<1>1. PICK vm \in Objs : vm = In(v) /\ obj[vm].kind = "vm"
  BY VMFacts DEF VMInstantiate
<1>2. ActiveOf(vm) \in SUBSET obj[vm].holds
  BY DEF ActiveOf, IInv, Good, ObjsOK
<1>3. ~Needed(v, ActiveOf(vm)) /\ ~Busy(vm)
  BY <1>1 DEF VMInstantiate
<1>4. Unneeded(var, obj, exec, seen, Within(ActiveOf(vm)))
  BY <1>1, <1>2, <1>3, NotNeededHeld
<1>5. \A a \in Objs : exec[a].st = "loading" => exec[a].runs # vm
  <2>1. \A a \in Objs : exec[a].st = "loading" => a \notin seen
    BY DEF IInv, Good, ExecsOK, ExecOK
  <2> QED BY <1>3, <2>1 DEF Busy
<1>6. PICK ms \in Exports(o) : obj' = Replaced(vm, o, ms)
  BY <1>1 DEF VMInstantiate
<1>7. Good(var, Replaced(vm, o, ms), LinksWithout(ActiveOf(vm)), exec, seen)
  BY <1>1, <1>4, <1>5, GoodReplaced DEF IInv
<1>8. links' = LinksWithout(ActiveOf(vm)) /\ var' = var /\ exec' = exec /\ seen' = seen
  BY <1>1 DEF VMInstantiate
<1> QED BY <1>6, <1>7, <1>8 DEF IInv

(* The active module of a VM, with its parts. *)
LEMMA ActiveWhole ==
  ASSUME IInv, NEW vm \in Objs, obj[vm].kind = "vm", NEW m \in Objs, m = obj[vm].active
  PROVE  Within(ActiveOf(vm)) = Whole(obj, m)
<1>1. ActiveOf(vm) = {m}
  BY NoneAssumption DEF ActiveOf
<1>2. m \in obj[vm].holds
  BY NoneAssumption DEF IInv, Good, ObjsOK
<1>3. obj[m].kind = "module"
  BY <1>2 DEF IInv, Good, ObjsOK
<1>4. obj[m].holds \subseteq Objs
  BY GoodTypes DEF IInv, Typed
<1>5. \A h \in obj[m].holds : obj[h].kind \in Parts
  BY <1>3 DEF IInv, Good, ObjsOK
<1>6. \A h \in obj[m].holds : obj[h].holds = {}
  BY <1>4, <1>5 DEF IInv, Good, ObjsOK, Parts
<1>7. m \in Within({m}) /\ obj[m].holds \subseteq Within({m})
  BY WithinFacts
<1>8. Within({m}) \subseteq Whole(obj, m)
  BY <1>6 DEF Within, Whole
<1> QED BY <1>1, <1>7, <1>8 DEF Whole

(* The same, by the thread of an execution: whether something is needed    *)
(* was asked when the execution began.                                     *)
LEMMA ExecutionInstantiatesStep ==
  ASSUME IInv, NEW a \in Objs, NEW o \in Fresh, ExecutionInstantiates(a, o)
  PROVE  IInv'
<1>1. exec[a].st = "loading"
  BY DEF ExecutionInstantiates
<1>2. /\ ExecOK(a, exec[a], obj, seen) /\ exec[a] \in ExecValues /\ exec[a].runs \in Objs
  BY <1>1, GoodTypes DEF IInv, Good, ExecsOK, TypesOK, Typed
<1>3. PICK vm \in Objs : vm = exec[a].runs /\ obj[vm].kind = "vm"
  BY <1>1, <1>2 DEF ExecOK
<1>4. a \notin seen /\ obj[a].kind = "async" /\ a \in exec[a].touch
  BY <1>1, <1>2 DEF ExecOK
<1>5. PICK x, y : /\ x = [exec[a] EXCEPT !.st = "running"]
                  /\ y = [exec[a] EXCEPT !.st = "running", !.touch = @ \cup {o}]
  OBVIOUS
<1>6. o \in Objs /\ obj[o].kind = ""
  BY LiveKinds
<1>7. /\ x.st = "running" /\ x.touch = exec[a].touch /\ x.runs = vm /\ x \in ExecValues
      /\ y.st = "running" /\ y.touch = exec[a].touch \cup {o} /\ y.runs = vm /\ y \in ExecValues
  BY <1>2, <1>3, <1>5, <1>6 DEF ExecValues
<1>8. \A b \in Objs \ (seen \cup {a}) : exec[b].runs # vm
  <2>1. vm # None
    BY NoneAssumption
  <2> QED BY <1>3, <1>4, <2>1 DEF IInv, Good, ExecsOK
<1> DEFINE E == [exec EXCEPT ![a] = x]
<1>9. Good(var, obj, links, E, seen)
  <2>1. \A t \in x.touch : obj[t].kind # "" /\ Stays(obj, exec, t)
    BY <1>4, <1>7, TouchedStays DEF IInv
  <2> QED BY <1>4, <1>7, <1>8, <2>1, GoodExec DEF IInv
<1>10. E \in [Objs -> ExecValues] /\ E[a] = x /\ \A b \in Objs \ {a} : E[b] = exec[b]
  BY <1>7 DEF IInv, Good, TypesOK
<1>11. [E EXCEPT ![a] = y] = exec'
  <2>1. exec' = [exec EXCEPT ![a].st = "running", ![a].touch = @ \cup {o}]
    BY DEF ExecutionInstantiates
  <2>2. exec \in [Objs -> ExecValues]
    BY DEF IInv, Good, TypesOK
  <2>3. exec' = [exec EXCEPT ![a] = y]
    BY <1>2, <1>5, <2>1, <2>2 DEF ExecValues
  <2> QED BY <2>2, <2>3
<1> HIDE DEF E
<1>12. Unneeded(var, obj, E, seen, Within(ActiveOf(vm)))
  <2>1. CASE obj[vm].active = None
    <3>1. Within(ActiveOf(vm)) = {}
      BY <2>1 DEF ActiveOf, Within
    <3> QED BY <3>1 DEF Unneeded
  <2>2. CASE obj[vm].active # None
    <3>1. PICK m \in Objs : m = obj[vm].active
      BY <2>2, GoodTypes DEF IInv, Typed
    <3>2. Unneeded(var, obj, exec, seen, Whole(obj, m))
      BY <1>1, <1>3, <3>1, LoadingModule DEF IInv
    <3>3. Within(ActiveOf(vm)) = Whole(obj, m)
      BY <1>3, <3>1, ActiveWhole
    <3>4. \A b \in Objs \ seen : E[b].touch \cap Whole(obj, m) = {}
      BY <1>4, <1>7, <1>10, <3>2 DEF Unneeded
    <3> QED BY <3>2, <3>3, <3>4 DEF Unneeded
  <2> QED BY <2>1, <2>2
<1>13. \A b \in Objs : E[b].st = "loading" => E[b].runs # vm
  <2>1. ASSUME NEW b \in Objs, E[b].st = "loading" PROVE E[b].runs # vm
    <3>1. b # a /\ E[b] = exec[b]
      BY <1>7, <1>10, <2>1
    <3>2. b \notin seen
      BY <2>1, <3>1 DEF IInv, Good, ExecsOK, ExecOK
    <3> QED BY <1>8, <3>1, <3>2
  <2> QED BY <2>1
<1>14. PICK ms \in Exports(o) : obj' = Replaced(vm, o, ms)
  BY <1>3 DEF ExecutionInstantiates
<1>15. PICK P, M : P = Replaced(vm, o, ms) /\ M = LinksWithout(ActiveOf(vm))
  OBVIOUS
<1>16. /\ Good(var, P, M, E, seen) /\ P[o].kind = "module" /\ \A z \in Objs \ {vm} : P[z].active # o
       /\ P[a].kind = "async"
  <2>1. /\ Good(var, Replaced(vm, o, ms), LinksWithout(ActiveOf(vm)), E, seen)
        /\ ReplacedOK(Replaced(vm, o, ms), obj, vm, o)
    BY <1>3, <1>9, <1>12, <1>13, GoodReplaced
  <2>2. obj[a].kind \notin Parts \cup {"", "module"}
    BY <1>4 DEF Parts
  <2> QED BY <1>4, <1>15, <2>1, <2>2 DEF ReplacedOK
<1>17. \A t \in y.touch : P[t].kind # "" /\ Stays(P, E, t)
  <2>1. ASSUME NEW t \in exec[a].touch PROVE P[t].kind # "" /\ Stays(P, E, t)
    <3>1. t \in E[a].touch
      BY <1>7, <1>10
    <3> QED BY <1>4, <1>16, <3>1, TouchedStays
  <2>2. Stays(P, E, o)
    <3>1. P[o].kind \notin Parts
      BY <1>16 DEF Parts
    <3>2. \A b \in Objs : E[b].st = "loading" => P[E[b].runs].active # o
      <4>1. \A b \in Objs : E[b].st = "loading" => E[b].runs \in Objs
        BY <1>16, GoodTypes DEF Typed
      <4> QED BY <1>13, <1>16, <4>1
    <3> QED BY <1>6, <1>16, <3>1, <3>2, OthersStay
  <2> QED BY <1>7, <1>16, <2>1, <2>2
<1>18. Good(var, P, M, [E EXCEPT ![a] = y], seen)
  <2>1. \A b \in Objs \ (seen \cup {a}) : E[b].runs # vm
    BY <1>8, <1>10
  <2> QED BY <1>4, <1>7, <1>16, <1>17, <2>1, GoodExec
<1>19. links' = M /\ var' = var /\ seen' = seen
  BY <1>3, <1>15 DEF ExecutionInstantiates
<1> QED BY <1>11, <1>14, <1>15, <1>18, <1>19 DEF IInv

---------------------------------------------------------------------------
(* The steps: asynchronous executions *)

LEMMA StartStep ==
  ASSUME IInv, NEW v \in Unused, NEW a \in Fresh, NEW st \in {"loading", "running"},
         NEW touch \in SUBSET Objs, \A t \in touch : obj[t].kind # "" /\ Stays(obj, exec, t),
         NEW runs,
         \/ st = "running" /\ runs = None
         \/ /\ runs \in touch /\ obj[runs].kind = "vm" /\ ~Busy(runs)
            /\ UnneededBut(v, Within(ActiveOf(runs)))
            /\ touch \cap Within(ActiveOf(runs)) = {},
         Start(v, a, st, touch, runs)
  PROVE  IInv'
<1>1. a \in Objs /\ obj[a].kind = "" /\ runs \in Objs \cup {None}
  BY LiveKinds
<1>2. Unknown(a, var, obj, links, exec, seen)
  BY <1>1, FreshFacts DEF IInv
<1>3. PICK x : x = [st |-> st, touch |-> touch \cup {a}, runs |-> runs]
  OBVIOUS
<1>4. x.st = st /\ x.touch = touch \cup {a} /\ x.runs = runs /\ x \in ExecValues
  BY <1>1, <1>3 DEF ExecValues
<1> DEFINE W == [var EXCEPT ![v] = Owner("async", a)]
           P == Made(obj, a, "async", {}, {})
<1>5. obj \in [Objs -> ObjValues] /\ var \in [Vars -> VarValues] /\ "async" \in NewKinds
  BY DEF IInv, Good, TypesOK, NewKinds, Kinds
<1>6. Good(W, P, links, exec, seen)
  <2>1. {} \in SUBSET (Fresh \ {a}) /\ {} \in SUBSET Objs
        /\ \A u \in {} : obj[u].kind # "" /\ Stays(obj, exec, u)
    OBVIOUS
  <2> QED BY <1>5, <2>1, NewByVar
<1>7. P[a] = Object("async", {}, {}) /\ \A y \in Objs \ {a} : P[y] = obj[y]
  <2>1. MadeOK(P, obj, a, "async", {}, {})
    BY <1>1, <1>5, MadeFacts
  <2> QED BY <2>1 DEF MadeOK
<1>8. P[a].kind = "async" /\ P[a].uses = {}
  <2>1. Object("async", {}, {}).kind = "async" /\ Object("async", {}, {}).uses = {}
    BY DEF Object
  <2> QED BY <1>7, <2>1
<1>9. obj' = P /\ var' = W
  <2>1. obj' = [obj EXCEPT ![a] = Object("async", {}, {})]
    BY DEF Start
  <2>2. obj' = [y \in Objs |-> IF y = a THEN Object("async", {}, {}) ELSE obj[y]]
    BY <1>5, <2>1
  <2>3. P = [y \in Objs |-> IF y = a THEN Object("async", {}, {}) ELSE obj[y]]
    BY DEF Made
  <2> QED BY <2>2, <2>3 DEF Start
<1>10. exec' = [exec EXCEPT ![a] = x] /\ links' = links /\ seen' = seen
  BY <1>3 DEF Start
<1>11. \A w \in Vars : W[w].inner = a \/ (w # v /\ W[w].inner = var[w].inner)
  BY <1>5 DEF Owner
<1> HIDE DEF W, P
<1>12. ASSUME NEW r \in Objs, obj[r].kind = "vm", NEW m \in Objs, P[r].active = m
       PROVE  obj[r].active = m /\ Whole(P, m) = Whole(obj, m) /\ a \notin Whole(obj, m)
  <2>1. r # a
    BY <1>1, <1>12
  <2>2. obj[r].active = m
    BY <1>7, <1>12, <2>1
  <2>3. m # a /\ a \notin obj[m].holds
    BY <1>2, <2>2 DEF Unknown
  <2> QED BY <1>7, <2>2, <2>3 DEF Whole
<1>13. \A t \in x.touch : P[t].kind # "" /\ Stays(P, exec, t)
  <2>1. Stays(P, exec, a)
    <3>1. P[a].kind \notin Parts \cup {"module"}
      BY <1>8 DEF Parts
    <3> QED BY <1>1, <1>6, <3>1, KindStays
  <2>2. ASSUME NEW t \in touch PROVE P[t].kind # "" /\ Stays(P, exec, t)
    <3>1. obj[t].kind # "" /\ Stays(obj, exec, t) /\ t \in Objs /\ t # a
      BY <1>1
    <3>2. ASSUME NEW b \in Objs, NEW m \in Objs, exec[b].st = "loading", P[exec[b].runs].active = m
          PROVE  t \notin Whole(P, m)
      <4>1. ExecOK(b, exec[b], obj, seen) /\ exec[b].runs \in Objs
        BY <3>2, GoodTypes DEF IInv, Good, ExecsOK, Typed
      <4>2. obj[exec[b].runs].kind = "vm"
        BY <3>2, <4>1 DEF ExecOK
      <4>3. obj[exec[b].runs].active = m /\ Whole(P, m) = Whole(obj, m)
        BY <1>12, <3>2, <4>1, <4>2
      <4> QED BY <3>1, <3>2, <4>3 DEF Stays
    <3>3. Stays(P, exec, t)
      BY <3>2 DEF Stays
    <3> QED BY <1>7, <3>1, <3>3
  <2> QED BY <1>4, <1>8, <2>1, <2>2
<1>14. ASSUME x.st = "loading"
       PROVE  /\ x.runs \in x.touch /\ P[x.runs].kind = "vm"
              /\ \A m \in Objs : P[x.runs].active = m =>
                   Unneeded(W, P, exec, seen, Whole(P, m)) /\ x.touch \cap Whole(P, m) = {}
  <2>1. /\ runs \in touch /\ obj[runs].kind = "vm" /\ runs \in Objs /\ runs # a
        /\ UnneededBut(v, Within(ActiveOf(runs)))
        /\ touch \cap Within(ActiveOf(runs)) = {}
    BY <1>1, <1>4, <1>14
  <2>2. ASSUME NEW m \in Objs, P[runs].active = m
        PROVE  Unneeded(W, P, exec, seen, Whole(P, m)) /\ x.touch \cap Whole(P, m) = {}
    <3>1. obj[runs].active = m /\ Whole(P, m) = Whole(obj, m) /\ a \notin Whole(obj, m)
      BY <1>12, <2>1, <2>2
    <3>2. Within(ActiveOf(runs)) = Whole(obj, m)
      BY <2>1, <3>1, ActiveWhole
    <3>3. UnneededBut(v, Whole(obj, m)) /\ touch \cap Whole(obj, m) = {}
      BY <2>1, <3>2
    <3>4. \A w \in Vars : W[w].inner \notin Whole(obj, m)
      BY <1>11, <3>1, <3>3 DEF UnneededBut
    <3>5. \A y \in Objs \ Whole(obj, m) : P[y].uses \cap Whole(obj, m) = {}
      BY <1>7, <1>8, <3>3 DEF UnneededBut
    <3>6. Unneeded(W, P, exec, seen, Whole(obj, m))
      BY <3>3, <3>4, <3>5 DEF Unneeded, UnneededBut
    <3> QED BY <1>4, <3>1, <3>3, <3>6
  <2>3. P[runs].kind = "vm"
    BY <1>7, <2>1
  <2> QED BY <1>4, <2>1, <2>2, <2>3
<1>15. x.runs # None => \A b \in Objs \ (seen \cup {a}) : exec[b].runs # x.runs
  BY <1>4 DEF Busy
<1>16. a \notin seen /\ x.st # "none" /\ a \in x.touch
  BY <1>2, <1>4 DEF Unknown
<1>17. Good(W, P, links, [exec EXCEPT ![a] = x], seen)
  BY <1>1, <1>4, <1>6, <1>8, <1>13, <1>14, <1>15, <1>16, GoodExec
<1> QED BY <1>9, <1>10, <1>17 DEF IInv

LEMMA RunStep ==
  ASSUME IInv, NEW v \in Unused, NEW w \in Vars, NEW a \in Fresh, NEW from \in SUBSET Objs,
         \A t \in from : /\ obj[t].kind # "" /\ Stays(obj, exec, t)
                         /\ \E u \in Vars \ {v} : var[u].inner = t,
         AsyncRun(v, w, a, from)
  PROVE  IInv'
<1>1. PICK vm \in Objs : vm = In(w) /\ obj[vm].kind = "vm" /\ Stays(obj, exec, vm)
  BY VMFacts DEF AsyncRun
<1>2. ~Busy(vm) /\ ~Needed(v, ActiveOf(vm)) /\ Start(v, a, "loading", {vm} \cup from, vm)
  <2>1. ~Busy(vm)
    BY <1>1 DEF AsyncRun
  <2>2. ~Needed(v, ActiveOf(vm))
    BY <1>1 DEF AsyncRun
  <2>3. Start(v, a, "loading", {vm} \cup from, vm)
    BY <1>1 DEF AsyncRun
  <2> QED BY <2>1, <2>2, <2>3
<1>3. ActiveOf(vm) \in SUBSET obj[vm].holds
  BY DEF ActiveOf, IInv, Good, ObjsOK
<1>4. UnneededBut(v, Within(ActiveOf(vm)))
  BY <1>1, <1>2, <1>3, NotNeededBut DEF Unused
<1>5. vm \notin Within(ActiveOf(vm))
  BY <1>1, <1>3, StrippedFacts
<1>6. from \cap Within(ActiveOf(vm)) = {}
  <2>1. ASSUME NEW t \in from, t \in Within(ActiveOf(vm)) PROVE FALSE
    <3>1. PICK u \in Vars \ {v} : var[u].inner = t
      OBVIOUS
    <3> QED BY <1>4, <2>1, <3>1 DEF UnneededBut
  <2> QED BY <2>1
<1>7. PICK touch : touch = {vm} \cup from
  OBVIOUS
<1>8. /\ touch \in SUBSET Objs /\ vm \in touch /\ touch \cap Within(ActiveOf(vm)) = {}
      /\ \A t \in touch : obj[t].kind # "" /\ Stays(obj, exec, t)
  BY <1>1, <1>5, <1>6, <1>7
<1>9. Start(v, a, "loading", touch, vm)
  BY <1>2, <1>7
<1> QED BY <1>1, <1>2, <1>4, <1>8, <1>9, StartStep

LEMMA ExecuteStep ==
  ASSUME IInv, NEW v \in Unused, NEW a \in Fresh, NEW touch \in SUBSET Objs,
         \A t \in touch : obj[t].kind # "" /\ Stays(obj, exec, t),
         Start(v, a, "running", touch, None)
  PROVE  IInv'
BY StartStep

LEMMA NewFromStep ==
  ASSUME IInv, NEW v \in Unused, NEW o \in Fresh, NEW w \in Vars, NewFrom(v, o, w)
  PROVE  IInv'
<1>1. CASE NewVMWithStore(v, o, w)
  <2>1. In(w) \in Objs /\ obj[In(w)].kind # "" /\ Stays(obj, exec, In(w))
    BY <1>1, StoreFacts DEF NewVMWithStore
  <2> QED BY <1>1, <2>1, CreateStep DEF NewVMWithStore, NewKinds, Kinds
<1>2. CASE NewExecutorWithStatistics(v, o, w)
  <2>1. In(w) \in Objs /\ obj[In(w)].kind # "" /\ Stays(obj, exec, In(w))
    BY <1>2, VarStays DEF NewExecutorWithStatistics, IInv, Has, In
  <2> QED BY <1>2, <2>1, CreateStep DEF NewExecutorWithStatistics, NewKinds, Kinds
<1>3. CASE LoaderLoad(v, w, o)
  <2>1. {} \in SUBSET Objs /\ \A u \in {} : obj[u].kind # "" /\ Stays(obj, exec, u)
    OBVIOUS
  <2> QED BY <1>3, <2>1, CreateStep DEF LoaderLoad, NewKinds, Kinds
<1>4. CASE AsyncExecute(v, w, o)
  <2>1. PICK vm \in Objs : vm = In(w) /\ obj[vm].kind = "vm" /\ Stays(obj, exec, vm)
    BY <1>4, VMFacts DEF AsyncExecute
  <2>2. ~Busy(vm) /\ Start(v, o, "running", {vm} \cup ActiveOf(vm), None)
    BY <1>4, <2>1 DEF AsyncExecute
  <2>3. \A m \in ActiveOf(vm) : m \in Objs /\ obj[m].kind = "module" /\ Stays(obj, exec, m)
    BY <2>1, <2>2, ActiveStays
  <2>4. PICK touch : touch = {vm} \cup ActiveOf(vm)
    OBVIOUS
  <2>5. touch \in SUBSET Objs /\ \A t \in touch : obj[t].kind # "" /\ Stays(obj, exec, t)
    BY <2>1, <2>3, <2>4
  <2> QED BY <2>2, <2>4, <2>5, ExecuteStep
<1>5. CASE AsyncExecuteRegistered(v, w, o)
  <2>1. PICK vm \in Objs : vm = In(w) /\ obj[vm].kind = "vm" /\ Stays(obj, exec, vm)
    BY <1>5, VMFacts DEF AsyncExecuteRegistered
  <2>2. PICK m \in LinkedTo(StoreOf(vm)) : Start(v, o, "running", {vm, m}, None)
    BY <1>5, <2>1 DEF AsyncExecuteRegistered
  <2>3. m \in Objs /\ <<StoreOf(vm), m>> \in links /\ StoreOf(vm) \in Objs
    BY <2>1, <2>2, StoreStays DEF LinkedTo
  <2>4. obj[m].kind = "module" /\ Stays(obj, exec, m)
    BY <2>3, LinkedStays DEF IInv
  <2>5. PICK touch : touch = {vm, m}
    OBVIOUS
  <2>6. touch \in SUBSET Objs /\ \A t \in touch : obj[t].kind # "" /\ Stays(obj, exec, t)
    BY <2>1, <2>3, <2>4, <2>5
  <2> QED BY <2>2, <2>5, <2>6, ExecuteStep
<1>6. CASE AsyncRunWasm(v, w, o)
  <2>1. /\ {} \in SUBSET Objs
        /\ \A t \in {} : /\ obj[t].kind # "" /\ Stays(obj, exec, t)
                         /\ \E u \in Vars \ {v} : var[u].inner = t
    OBVIOUS
  <2>2. AsyncRun(v, w, o, {})
    BY <1>6 DEF AsyncRunWasm
  <2> QED BY <2>1, <2>2, RunStep
<1>7. ASSUME NEW s \in Vars, ExecutorInstantiate(v, w, s, o) PROVE IInv'
  BY <1>7, InstantiatedStep DEF ExecutorInstantiate
<1>8. ASSUME NEW s \in Vars, ExecutorRegister(v, w, s, o) PROVE IInv'
  BY <1>8, InstantiatedStep DEF ExecutorRegister
<1>9. ASSUME NEW s \in Vars, AsyncInvoke(v, w, s, o) PROVE IInv'
  <2>1. In(w) \in Objs /\ obj[In(w)].kind # "" /\ Stays(obj, exec, In(w))
    BY <1>9, VarStays DEF AsyncInvoke, IInv, Has, In
  <2>2. In(s) \in Objs /\ obj[In(s)].kind # "" /\ Stays(obj, exec, In(s))
    BY <1>9, VarStays DEF AsyncInvoke, IInv, Has, In
  <2>3. PICK touch : touch = {In(w), In(s)}
    OBVIOUS
  <2>4. touch \in SUBSET Objs /\ \A t \in touch : obj[t].kind # "" /\ Stays(obj, exec, t)
    BY <2>1, <2>2, <2>3
  <2>5. Start(v, o, "running", touch, None)
    BY <1>9, <2>3 DEF AsyncInvoke
  <2> QED BY <2>4, <2>5, ExecuteStep
<1>10. ASSUME NEW s \in Vars, AsyncRunWasmAST(v, w, s, o) PROVE IInv'
  <2>1. In(s) \in Objs /\ obj[In(s)].kind # "" /\ Stays(obj, exec, In(s)) /\ s # v
    BY <1>10, VarStays DEF AsyncRunWasmAST, IInv, Has, In
  <2>2. PICK from : from = {In(s)}
    OBVIOUS
  <2>3. /\ from \in SUBSET Objs
        /\ \A t \in from : /\ obj[t].kind # "" /\ Stays(obj, exec, t)
                           /\ \E u \in Vars \ {v} : var[u].inner = t
    BY <2>1, <2>2 DEF In
  <2>4. AsyncRun(v, w, o, from)
    BY <1>10, <2>2 DEF AsyncRunWasmAST
  <2> QED BY <2>3, <2>4, RunStep
<1> QED BY <1>1, <1>2, <1>3, <1>4, <1>5, <1>6, <1>7, <1>8, <1>9, <1>10 DEF NewFrom

LEMMA EndsStep ==
  ASSUME IInv, NEW a \in Objs, ExecutionEnds(a)
  PROVE  IInv'
<1>1. ExecOK(a, exec[a], obj, seen) /\ exec[a] \in ExecValues /\ exec[a].st \in {"loading", "running"}
  BY DEF ExecutionEnds, IInv, Good, ExecsOK, TypesOK
<1>2. PICK x : x = [exec[a] EXCEPT !.st = "ended"]
  OBVIOUS
<1>3. x.st = "ended" /\ x.touch = exec[a].touch /\ x.runs = exec[a].runs /\ x \in ExecValues
  BY <1>1, <1>2 DEF ExecValues
<1>4. a \notin seen /\ obj[a].kind = "async" /\ a \in x.touch
  BY <1>1, <1>3 DEF ExecOK
<1>5. \A t \in x.touch : obj[t].kind # "" /\ Stays(obj, exec, t)
  BY <1>3, <1>4, TouchedStays DEF IInv
<1>6. x.runs # None => \A b \in Objs \ (seen \cup {a}) : exec[b].runs # x.runs
  BY <1>3, <1>4 DEF IInv, Good, ExecsOK
<1>7. Good(var, obj, links, [exec EXCEPT ![a] = x], seen)
  BY <1>3, <1>4, <1>5, <1>6, GoodExec DEF IInv
<1>8. exec' = [exec EXCEPT ![a] = x]
  BY <1>2 DEF ExecutionEnds
<1> QED BY <1>7, <1>8 DEF ExecutionEnds, IInv

LEMMA WaitStep ==
  ASSUME IInv, NEW v \in Vars, WaitFor(v) \/ GetResult(v)
  PROVE  IInv'
<1>1. Has(v, "async") /\ UNCHANGED <<var, obj, links, exec>>
  BY DEF WaitFor, GetResult
<1>2. In(v) \in Objs
  BY <1>1, VarStays DEF IInv, Has, In
<1>3. seen' = seen \/ (exec[In(v)].st = "ended" /\ seen' = seen \cup {In(v)})
  BY DEF WaitFor, GetResult, WaitResult
<1>4. exec[In(v)].st = "ended" => Good(var, obj, links, exec, seen \cup {In(v)})
  BY <1>2, GoodSeen DEF IInv
<1> QED BY <1>1, <1>3, <1>4 DEF IInv

---------------------------------------------------------------------------
(* The steps: what changes hands *)

LEMMA AddStep ==
  ASSUME IInv, NEW m \in Vars, NEW v \in Vars, NEW k \in Parts, Add(m, v, k)
  PROVE  IInv'
<1>1. Good([var EXCEPT ![v] = Nothing],
           [obj EXCEPT ![var[m].inner].holds = @ \cup {var[v].inner}], links, exec, seen)
  BY GoodMove DEF IInv, Add, Has, In
<1> QED BY <1>1 DEF Add, IInv, Consumed, In

(* A module that a variable owns is not the active one of a VM. *)
LEMMA OwnedModule ==
  ASSUME IInv, NEW m \in Vars, Has(m, "module"), var[m].own
  PROVE  In(m) \in Objs /\ obj[In(m)].kind = "module" /\ \A o \in Objs : obj[o].active # In(m)
<1>1. In(m) \in Objs /\ obj[In(m)].kind = "module"
  BY VarStays DEF IInv, Has, In
<1>2. \A o \in Objs : In(m) \notin obj[o].holds
  BY DEF IInv, Good, OwnersOK, In
<1>3. \A o \in Objs : obj[o].active # None => obj[o].active \in obj[o].holds
  BY DEF IInv, Good, ObjsOK
<1> QED BY <1>1, <1>2, <1>3, NoneAssumption

LEMMA LinkStep ==
  ASSUME IInv, NEW v \in Vars, NEW m \in Vars, NEW s \in Vars,
         VMRegisterModule(v, m) \/ ExecutorRegisterImport(v, s, m)
  PROVE  IInv'
<1>1. In(m) \in Objs /\ obj[In(m)].kind = "module" /\ \A o \in Objs : obj[o].active # In(m)
  BY OwnedModule DEF VMRegisterModule, ExecutorRegisterImport
<1>2. PICK t \in Objs : obj[t].kind # "" /\ links' = links \cup {<<t, In(m)>>}
  <2>1. CASE VMRegisterModule(v, m)
    BY <2>1, VMFacts, StoreStays DEF VMRegisterModule
  <2>2. CASE ExecutorRegisterImport(v, s, m)
    BY <2>2, StoreFacts DEF ExecutorRegisterImport
  <2> QED BY <2>1, <2>2
<1>3. Good(var, obj, links \cup {<<t, In(m)>>}, exec, seen)
  BY <1>1, <1>2, GoodLink DEF IInv
<1> QED BY <1>2, <1>3 DEF VMRegisterModule, ExecutorRegisterImport, IInv

---------------------------------------------------------------------------
(* The invariant *)

LEMMA InvInit ==
  ASSUME Init
  PROVE  IInv
<1>1. /\ \A v \in Vars : var[v] = Nothing
      /\ \A o \in Objs : obj[o] = NoObject /\ exec[o] = NoExec
      /\ links = {} /\ seen = {}
  BY DEF Init
<1>2. TypesOK(var, obj, links, exec, seen)
  <2>1. Nothing \in VarValues
    BY DEF Nothing, VarValues
  <2>2. NoObject \in ObjValues
    BY DEF NoObject, Object, ObjValues
  <2>3. NoExec \in ExecValues
    BY DEF NoExec, ExecValues
  <2>4. PICK n, m, e : n = Nothing /\ m = NoObject /\ e = NoExec
    OBVIOUS
  <2>5. /\ var = [v \in Vars |-> n] /\ obj = [o \in Objs |-> m] /\ exec = [o \in Objs |-> e]
        /\ links = {} /\ seen = {}
    BY <2>4 DEF Init
  <2>6. n \in VarValues /\ m \in ObjValues /\ e \in ExecValues
    BY <2>1, <2>2, <2>3, <2>4
  <2> QED BY <2>5, <2>6 DEF TypesOK
<1>3. Nothing.inner = None /\ ~Nothing.own /\ Nothing.kind = ""
  BY DEF Nothing
<1>4. NoExec.st = "none" /\ NoExec.touch = {} /\ NoExec.runs = None
  BY DEF NoExec
<1>5. ObjsOK(obj)
  BY <1>1, NoObjectFields DEF ObjsOK
<1>6. VarsOK(var, obj)
  BY <1>1, <1>3 DEF VarsOK, VarOK
<1>7. LinksOK(links, obj)
  BY <1>1 DEF LinksOK
<1>8. OwnersOK(var, obj)
  BY <1>1, <1>3, NoObjectFields DEF OwnersOK
<1>9. ExecsOK(obj, exec, seen)
  BY <1>1, <1>4 DEF ExecsOK, ExecOK
<1>10. LoadingOK(var, obj, exec, seen)
  BY <1>1, <1>4 DEF LoadingOK
<1> QED BY <1>2, <1>5, <1>6, <1>7, <1>8, <1>9, <1>10 DEF IInv, Good

LEMMA InvStep ==
  ASSUME IInv, [Next]_vars
  PROVE  IInv'
<1>1. ASSUME NEW v \in Vars, Released(v) PROVE IInv'
  BY <1>1, ReleaseStep, ForgetStep
     DEF Released, ReleaseVM, ReleaseStore, ReleaseStatistics, ReleaseExecutor, ReleaseModule,
         ReleaseTable, ReleaseMemory, ReleaseGlobal, ReleaseAsync, ReleaseConfigure, ReleaseLoader,
         ReleaseValidator, ReleaseCompiler, ReleaseAST, ReleaseFunctionType, ReleaseTableType,
         ReleaseMemoryType, ReleaseGlobalType
<1>2. ASSUME NEW v \in Vars, VMCleanup(v) PROVE IInv'
  BY <1>2, CleanupStep
<1>3. ASSUME NEW v \in Vars, WaitFor(v) \/ GetResult(v) PROVE IInv'
  BY <1>3, WaitStep
<1>4. ASSUME NEW v \in Vars, NEW w \in Vars, Move(v, w) PROVE IInv'
  <2>1. CASE AddTable(w, v) \/ AddMemory(w, v) \/ AddGlobal(w, v)
    BY <2>1, AddStep DEF AddTable, AddMemory, AddGlobal, Parts
  <2>2. CASE VMRegisterModule(v, w) \/ \E s \in Vars : ExecutorRegisterImport(v, s, w)
    BY <2>2, LinkStep
  <2> QED BY <1>4, <2>1, <2>2 DEF Move
<1>5. ASSUME NEW v \in Unused, NEW w \in Vars, Access(v, w) PROVE IInv'
  BY <1>5, AccessStep
<1>6. ASSUME NEW v \in Unused, NEW a \in Objs, FrameAccess(v, a) PROVE IInv'
  BY <1>6, FrameStep
<1>7. ASSUME NEW v \in Unused, NEW o \in Fresh, New(v, o) PROVE IInv'
  BY <1>7, NewStep
<1>8. ASSUME NEW v \in Unused, NEW o \in Fresh, NEW w \in Vars, NewFrom(v, o, w) PROVE IInv'
  BY <1>8, NewFromStep
<1>9. ASSUME NEW v \in Vars, NEW o \in Fresh, VMRegisterWasm(v, o) PROVE IInv'
  BY <1>9, RegisterWasmStep
<1>10. ASSUME NEW v \in Vars, NEW o \in Fresh, VMInstantiate(v, o) PROVE IInv'
  BY <1>10, VMInstantiateStep
<1>11. ASSUME NEW a \in Objs, ExecutionEnds(a) PROVE IInv'
  BY <1>11, EndsStep
<1>12. ASSUME NEW a \in Objs, NEW o \in Fresh, ExecutionInstantiates(a, o) PROVE IInv'
  BY <1>12, ExecutionInstantiatesStep
<1>13. CASE UNCHANGED vars
  BY <1>13 DEF vars, IInv
<1> QED BY <1>1, <1>2, <1>3, <1>4, <1>5, <1>6, <1>7, <1>8, <1>9, <1>10, <1>11, <1>12, <1>13 DEF Next

LEMMA Invariance == Spec => []IInv
<1>1. Init => IInv
  BY InvInit
<1>2. IInv /\ [Next]_vars => IInv'
  BY InvStep
<1> QED BY <1>1, <1>2, PTL DEF Spec

---------------------------------------------------------------------------
(* The theorems *)

(* Every variable is of its type, and a wrapper that owns has an _inner:   *)
(* every value that the constructors and accessors leave in a variable.    *)
LEMMA InvTypes ==
  ASSUME IInv
  PROVE  TypeOK
<1>1. TypesOK(var, obj, links, exec, seen)
  BY DEF IInv, Good
<1>2. \A v \in Vars : var[v].own => In(v) # None
  BY DEF IInv, Good, VarsOK, VarOK, In
<1> QED BY <1>1, <1>2 DEF TypesOK, TypeOK, VarValues, ObjValues, ExecValues

(* Every C object has exactly one owner until it is deleted, and none      *)
(* afterwards, whatever constructor, executor, VM or Add* it went through. *)
THEOREM SoleOwnerHolds == Spec => []SoleOwner
<1>1. ASSUME IInv PROVE SoleOwner
  <2>1. ASSUME NEW o \in Objs PROVE Cardinality(OwnersOf(o)) = IF o \in Live THEN 1 ELSE 0
    <3>1. CASE o \in Live
      <4>1. obj[o].kind # ""
        BY <1>1, <3>1, LiveKinds
      <4>2. \A p \in Objs : o \in obj[p].holds => p \in Live
        BY <1>1, NoObjectFields DEF Live
      <4>3. \E x : OwnersOf(o) = {x}
        <5>1. CASE \E v \in Vars : var[v].own /\ var[v].inner = o
          <6>1. PICK v \in Vars : var[v].own /\ var[v].inner = o
            BY <5>1
          <6>2. \A w \in Vars : var[w].own /\ var[w].inner = o => w = v
            BY <1>1, <6>1 DEF IInv, Good, OwnersOK
          <6>3. \A p \in Objs : o \notin obj[p].holds
            BY <1>1, <6>1 DEF IInv, Good, OwnersOK
          <6>4. {w \in Vars : var[w].own /\ In(w) = o} = {v}
            BY <6>1, <6>2 DEF In
          <6>5. {p \in Live : o \in obj[p].holds} = {}
            BY <6>3 DEF Live
          <6>6. OwnersOf(o) = {v}
            BY <6>4, <6>5 DEF OwnersOf
          <6> QED BY <6>6
        <5>2. CASE ~\E v \in Vars : var[v].own /\ var[v].inner = o
          <6>1. PICK p \in Objs : o \in obj[p].holds
            BY <1>1, <4>1, <5>2 DEF IInv, Good, OwnersOK
          <6>2. \A q \in Objs : o \in obj[q].holds => q = p
            BY <1>1, <6>1 DEF IInv, Good, OwnersOK
          <6>3. {w \in Vars : var[w].own /\ In(w) = o} = {}
            BY <5>2 DEF In
          <6>4. {q \in Live : o \in obj[q].holds} = {p}
            BY <4>2, <6>1, <6>2 DEF Live
          <6>5. OwnersOf(o) = {p}
            BY <6>3, <6>4 DEF OwnersOf
          <6> QED BY <6>5
        <5> QED BY <5>1, <5>2
      <4> QED BY <3>1, <4>3, FS_Singleton
    <3>2. CASE o \notin Live
      <4>1. Unknown(o, var, obj, links, exec, seen)
        BY <1>1, <3>2, LiveKinds, FreshFacts DEF IInv
      <4>2. {w \in Vars : var[w].own /\ In(w) = o} = {}
        BY <4>1 DEF Unknown, In
      <4>3. {p \in Live : o \in obj[p].holds} = {}
        BY <4>1 DEF Unknown, Live
      <4>4. OwnersOf(o) = {}
        BY <4>2, <4>3 DEF OwnersOf
      <4> QED BY <3>2, <4>4, FS_EmptySet
    <3> QED BY <3>1, <3>2
  <2> QED BY <1>1, <2>1, InvTypes DEF SoleOwner
<1> QED BY <1>1, Invariance, PTL

(* No variable, store or C object refers to a deleted object, when the     *)
(* program releases borrowers before owners.                               *)
THEOREM NothingDanglesHolds == Spec => []NothingDangles
<1>1. ASSUME IInv PROVE NothingDangles
  <2>1. \A o \in Objs : o \in Live <=> obj[o].kind # ""
    BY <1>1, LiveKinds
  <2>2. Typed(var, obj, links, exec, seen) /\ ObjsOK(obj) /\ VarsOK(var, obj) /\ LinksOK(links, obj)
    BY <1>1, GoodTypes DEF IInv, Good
  <2>3. \A v \in Vars : In(v) # None => In(v) \in Live
    BY <2>1, <2>2 DEF VarsOK, VarOK, Typed, In
  <2>4. ASSUME NEW o \in Live PROVE obj[o].holds \cup obj[o].uses \cup ActiveOf(o) \subseteq Live
    <3>1. o \in Objs
      BY DEF Live
    <3>2. obj[o].holds \subseteq Live
      BY <2>1, <2>2, <3>1 DEF ObjsOK, Typed, Parts
    <3>3. obj[o].uses \subseteq Live
      BY <2>1, <2>2, <3>1 DEF ObjsOK, Typed
    <3>4. ActiveOf(o) \subseteq obj[o].holds
      BY <2>2, <3>1 DEF ObjsOK, ActiveOf
    <3> QED BY <3>2, <3>3, <3>4
  <2>5. ASSUME NEW l \in links PROVE l[1] \in Live /\ l[2] \in Live
    <3>1. PICK s \in Objs, m \in Objs : l = <<s, m>>
      BY <1>1 DEF IInv, Good, TypesOK
    <3>2. obj[s].kind # "" /\ obj[m].kind = "module"
      BY <2>2, <3>1 DEF LinksOK
    <3>3. s \in Live /\ m \in Live
      BY <2>1, <3>2
    <3> QED BY <3>1, <3>3
  <2> QED BY <2>3, <2>4, <2>5 DEF NothingDangles
<1> QED BY <1>1, Invariance, PTL

(* An execution never finds deleted what it works with, although the       *)
(* program deletes these objects on no other evidence than a WaitFor that  *)
(* returned true or a GetResult that returned.                             *)
THEOREM ExecutionsKeepTheirObjectsHolds == Spec => []ExecutionsKeepTheirObjects
<1>1. ASSUME IInv PROVE ExecutionsKeepTheirObjects
  <2> SUFFICES ASSUME NEW a \in Objs, exec[a].st \in {"loading", "running"},
                      NEW t \in exec[a].touch
               PROVE  t \in Live
    BY DEF ExecutionsKeepTheirObjects
  <2>1. ExecOK(a, exec[a], obj, seen) /\ t \in Objs
    BY <1>1, GoodTypes DEF IInv, Good, ExecsOK, Typed
  <2>2. obj[t].kind # ""
    BY <2>1 DEF ExecOK
  <2> QED BY <1>1, <2>1, <2>2, LiveKinds
<1> QED BY <1>1, Invariance, PTL

=============================================================================
