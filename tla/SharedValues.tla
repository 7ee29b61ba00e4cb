----------------------------- MODULE SharedValues ----------------------------
(***************************************************************************)
(* Values that pass from one interpreter to another through a shared       *)
(* object: putTable, sendChannel, writeSyncVar, job arguments and results  *)
(* store the string that to_string() makes, getTable, receiveChannel,      *)
(* readSyncVar and waitJob decode it, more than once if it stays there     *)
(* (src/shared.cc).  References to shared objects are counted: by every    *)
(* handle in an interpreter and by every encoding.                         *)
(***************************************************************************)
EXTENDS LinTree, FiniteSets

CONSTANTS Interpreters,  \* interpreter threads
          Referents,     \* shared objects that values refer to
          Rings(_),      \* the rings a thread may work in; NoRing: none
          Storable(_),   \* the values a thread may have made, given its ring
          Scopes,        \* Scopes[t]: what names mean in the interpreter of t
          MaxRefs        \* bound on reference counts

ASSUME SharedAssumption == IsFiniteSet(Interpreters) /\ MaxRefs \in Nat

VARIABLES
  currRing,  \* the basering of each interpreter
  held,      \* the value in a variable of each interpreter
  home,      \* history: the ring that value belongs to
  item,      \* the string in the shared object; << >> if there is none
  refs,      \* SharedObject::refcount
  stored     \* history: the value that item encodes, and the ring of its maker

valueVars == <<currRing, held, home, item, refs, stored>>

Nothing == [t |-> "nothing"]

Parts(v) == CASE v.t = "list" -> v.l
              [] v.t = "command" -> v.args
              [] OTHER -> <<>>

\* The values that v consists of, in the order in which they are encoded.
RECURSIVE Leaves(_)
Leaves(v) ==
  IF v.t \in {"list", "command"}
    THEN FlattenSeq([i \in DOMAIN Parts(v) |-> Leaves(Parts(v)[i])])
    ELSE <<v>>

\* How often a value, or an encoding, refers to object o.
Uses(o, v) ==
  LET l == Leaves(v)
  IN Cardinality({i \in DOMAIN l : l[i].t = "shared" /\ l[i].obj = o})
UsesIn(o, m) == Cardinality({i \in DOMAIN m : m[i] = Cell("pointer", o)})

\* One thread starts with a value, whose references new_shared() has counted.
ValuesInit ==
  /\ currRing \in [Interpreters -> UNION {Rings(t) : t \in Interpreters}]
  /\ \A t \in Interpreters : currRing[t] \in Rings(t)
  /\ \E t \in Interpreters : \E v \in Storable(currRing[t]) :
       /\ held = [[u \in Interpreters |-> Nothing] EXCEPT ![t] = v]
       /\ refs = [o \in Referents |-> Uses(o, v)]
  /\ home = currRing
  /\ item = <<>>
  /\ stored = [v |-> Nothing, ring |-> NoRing]

-----------------------------------------------------------------------------
NeedsHome(v) == \E i \in DOMAIN Leaves(v) : Leaves(v)[i].t \in NeedsRing

\* encode_shared() counts a reference for every pointer it writes, also if the
\* string is then thrown away.  NoAcquire is a bug for the properties to find.
NoAcquire(m) == refs
AcquireRefs(m) == [o \in Referents |-> refs[o] + UsesIn(o, m)]

\* to_string() and the store.  A thread that works in another ring than the
\* value it was given cannot use that value.
Store(t) ==
  /\ held[t] # Nothing
  /\ NeedsHome(held[t]) => home[t] = currRing[t]
  /\ \E e \in {Encode(NewEncoder, held[t], currRing[t])} :
       /\ e.ok
       /\ item' = OrNone(e)
       /\ refs' = AcquireRefs(e.m)
  /\ stored' = [v |-> held[t], ring |-> currRing[t]]
  /\ UNCHANGED <<currRing, held, home>>

\* from_string(); the string stays.  new_shared() counts a reference for every
\* pointer that is decoded.  A decoder that has lost its place is undefined.
Fetch(t) ==
  /\ item # <<>> /\ held[t] = Nothing
  /\ \E d \in {from_string(item, Scopes[t])} :
       /\ d.ok
       /\ held' = [held EXCEPT ![t] = d.val]
       /\ refs' = [o \in Referents |-> refs[o] + UsesIn(o, SubSeq(item, 1, d.pos - 1))]
  /\ home' = [home EXCEPT ![t] = stored.ring]
  /\ UNCHANGED <<currRing, item, stored>>

\* The variable goes out of scope: shared_destroy() for every handle in it.
Drop(t) ==
  /\ held[t] # Nothing
  /\ held' = [held EXCEPT ![t] = Nothing]
  /\ refs' = [o \in Referents |-> refs[o] - Uses(o, held[t])]
  /\ UNCHANGED <<currRing, home, item, stored>>

ValuesNext ==
  /\ \E t \in Interpreters : Store(t) \/ Fetch(t) \/ Drop(t)
  /\ \A o \in Referents : refs'[o] <= MaxRefs

ValuesSpec == ValuesInit /\ [][ValuesNext]_valueVars

-----------------------------------------------------------------------------
\* The copy of a value that the receiver should get: a name stands for what it
\* means there, and a quoted command is evaluated.
RECURSIVE Carried(_, _)
Carried(v, scope) ==
  CASE v.t = "def" -> scope[v.s]
    [] v.t = "list" -> [v EXCEPT !.l = [i \in DOMAIN v.l |-> Carried(v.l[i], scope)]]
    [] v.t = "command" ->
         Eval(v.op, [i \in DOMAIN v.args |-> Carried(v.args[i], scope)])
    [] OTHER -> v

\* Values of which some part cannot be encoded, or not be decoded in a scope.
BadRing(r) == \E i \in DOMAIN r.ord : r.ord[i].ord \in Unsupported

Terms(v) == CASE v.t = "number" -> 1
              [] v.t = "poly" -> Len(v.p)
              [] v.t = "ideal" -> Len(FlattenSeq(v.ps))

BadLeaf(v, r, scope) ==
  \/ v.t \notin Installed
  \/ v.t \in NeedsRing /\ (BadRing(r) \/ (r.ch = OtherCoef /\ Terms(v) > 0))
  \/ v.t = "ring" /\ BadRing(v.r)
  \/ v.t = "def" /\ v.s \notin DOMAIN scope

RECURSIVE Fails(_, _, _)
Fails(v, r, scope) ==
  \/ \E i \in DOMAIN Leaves(v) : BadLeaf(Leaves(v)[i], r, scope)
  \/ \E i \in DOMAIN Parts(v) : Fails(Parts(v)[i], r, scope)
  \/ v.t = "command" /\ Carried(v, scope) = Failed

\* Values whose encoding a decoder can follow: no ring is an extension, and
\* no ring is sent after something that needs the basering if it is the
\* basering itself or something that needs the basering comes after it.
Extension(r) == r.ch \in {TransExt, AlgExt}
Followable(v, r) ==
  LET l == Leaves(v)
      needs(i) == l[i].t \in NeedsRing
  IN \A j \in DOMAIN l :
       /\ needs(j) => ~Extension(r)
       /\ l[j].t = "ring" =>
            /\ ~Extension(l[j].r)
            /\ (\E i \in 1 .. j : needs(i)) =>
                 l[j].r # r /\ \A k \in j .. Len(l) : ~needs(k)

\* Values without the parts that are known to lose something: numbers of Q
\* below zero that do not fit a tagged word, and commands with four or more
\* arguments.
WholeCoef(c) == c[1] >= 0 \/ (c[2] = 1 /\ Magnitude(c[1]) <= Small)
WholePoly(p, r) == IsQ(r) => \A i \in DOMAIN p : WholeCoef(p[i].c)
WholeIdeal(ps, r) == \A i \in DOMAIN ps : WholePoly(ps[i], r)
WholeRing(r) == r # NoRing => WholeIdeal(r.q, r)

WholeLeaf(v, r) ==
  /\ v.t = "number" /\ IsQ(r) => WholeCoef(v.c)
  /\ v.t = "bigint" => WholeCoef(v.b)
  /\ v.t = "poly" => WholePoly(v.p, r)
  /\ v.t = "ideal" => WholeIdeal(v.ps, r)
  /\ v.t = "ring" => WholeRing(v.r)
  /\ v.t \in NeedsRing => WholeRing(r)

RECURSIVE Whole(_, _)
Whole(v, r) ==
  /\ \A i \in DOMAIN Leaves(v) : WholeLeaf(Leaves(v)[i], r)
  /\ \A i \in DOMAIN Parts(v) : Whole(Parts(v)[i], r)
  /\ v.t = "command" => Len(v.args) <= 3

\* What t should find.
Arriving(t) ==
  IF Fails(stored.v, stored.ring, Scopes[t]) THEN None ELSE Carried(stored.v, Scopes[t])

\* The stored string gives every interpreter the value that was stored.
Arrives ==
  \A t \in Interpreters : \E d \in {from_string(item, Scopes[t])} :
    d.ok /\ d.pos = Len(item) + 1 /\ d.val = Arriving(t)

\* A value that was stored arrives in every interpreter as it was, however
\* often it is passed on: encoder and decoder agree on every cell, in lists, in
\* quoted commands and across changes of the ring.  If a part of it cannot be
\* encoded, or a name in it has no meaning to the receiver, nothing of it does.
\* This leaves out what Followable and Whole exclude: the encoding of certain
\* rings, signs of large numbers and of fractions, and long commands.
RoundTrip ==
  item # <<>> /\ Followable(stored.v, stored.ring) /\ Whole(stored.v, stored.ring) => Arrives

\* The references that stored strings and handles make are all counted, so an
\* object that only a string refers to has a count of its own.  This is about
\* counts: nothing is deleted yet when one gets to zero.
RefsCovered ==
  \A o \in Referents :
    refs[o] >= UsesIn(o, item) +
               FoldSet(LAMBDA t, n : n + Uses(o, held[t]), 0, Interpreters)

-----------------------------------------------------------------------------
(* What the documentation says and the code does not do.                     *)

\* "When basic singular values are stored in a shared object, a copy of that
\* value is created" (doc/primitives.md): every value that a decoder can follow
\* arrives as it was.  encode_mpz() writes magnitudes without the sign.
ExactCopy == item # <<>> /\ Followable(stored.v, stored.ring) => Arrives
==============================================================================
