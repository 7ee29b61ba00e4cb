--------------------------- MODULE MCSharedValues ----------------------------
(* Values and rings for TLC. *)
EXTENDS SharedValues

CONSTANTS t1, t2, o1

\* Ring orders: 1 plain, 2 with weights, 3 not implemented.
Order(o, w) == [ord |-> o, b0 |-> 1, b1 |-> 2, w |-> w]
Ring(ch, names, ord, q) ==
  [ch |-> ch, cname |-> "", names |-> names, ord |-> ord, ext |-> NoRing, q |-> q]

Term(c, e) == [c |-> c, comp |-> 0, exps |-> e]

RationalRing == Ring(0, <<"x">>, <<Order(1, <<>>)>>, <<>>)
PrimeRing ==
  Ring(7, <<"x", "y">>, <<Order(2, <<1, 3>>), Order(1, <<>>)>>,
       <<<<Term(5, <<2, 0>>), Term(-1, <<0, 1>>)>>>>)
RealRing == [Ring(-3, <<"x">>, <<Order(1, <<>>)>>, <<>>) EXCEPT !.cname = "real"]
MatrixRing == Ring(0, <<"x">>, <<Order(3, <<>>)>>, <<>>)
FunctionField ==
  [Ring(-1, <<"x">>, <<Order(1, <<>>), Order(1, <<>>)>>, <<>>)
     EXCEPT !.ext = RationalRing]

RingSet(t) ==
  IF t = t1
    THEN {RationalRing, PrimeRing, RealRing, MatrixRing, FunctionField, NoRing}
    ELSE {PrimeRing, NoRing}

Coefs(r) ==
  CASE r = NoRing -> {}
    [] r.ch = 0 -> {<<-2, 1>>, <<9, 1>>, <<2, 3>>}
    [] r.ch = -1 -> {[num |-> <<Term(<<1, 1>>, <<1>>)>>, den |-> <<>>]}
    [] OTHER -> {3}

Exponents(r) == [i \in DOMAIN r.names |-> i]

\* Zero, and polynomials of two terms, one for each coefficient.
Polys(r) == {<<>>} \cup {<<Term(c, Exponents(r)), Term(c, Exponents(r))>> : c \in Coefs(r)}

IntValue(n) == [t |-> "int", n |-> n]
Add(args) == [t |-> "command", op |-> 1, args |-> args]

PlainValues ==
  {None, IntValue(2), [t |-> "string", s |-> "x"], [t |-> "def", s |-> "k"],
   [t |-> "bigint", b |-> <<9, 1>>], [t |-> "map"],
   [t |-> "intmat", rows |-> 1, cols |-> 2, a |-> <<4, -5>>],
   [t |-> "shared", obj |-> o1],
   Add(<<>>), Add(<<IntValue(1), [t |-> "def", s |-> "k"]>>),
   Add(<<IntValue(1), Add(<<IntValue(2), IntValue(3), IntValue(4)>>)>>),
   Add(<<IntValue(1), IntValue(2), IntValue(3), IntValue(4)>>),
   Add(<<IntValue(1), [t |-> "shared", obj |-> o1]>>)}

Constants == {v \in PlainValues : v.t \in {"none", "int", "string", "bigint", "intmat"}}

RingValues(r) ==
  IF r = NoRing THEN {}
  ELSE {[t |-> "ring", r |-> RationalRing], [t |-> "ring", r |-> PrimeRing],
        [t |-> "ring", r |-> r]}
       \cup {[t |-> "number", c |-> c] : c \in Coefs(r)}
       \cup {[t |-> "poly", p |-> p, of |-> r] : p \in Polys(r)}
       \cup {[t |-> "ideal", ps |-> <<p, <<>>>>, of |-> r] : p \in Polys(r)}

List(s) == [t |-> "list", l |-> s]

\* Single values, pairs, and lists in lists.
ValueSet(r) ==
  LET S == PlainValues \cup RingValues(r)
  IN S \cup {List(<<>>)} \cup {List(<<v, w>>) : v \in S, w \in S \ Constants}
     \cup {List(<<v, List(<<w>>), v>>) : v, w \in RingValues(r)}

\* Numbers on both sides of zero, small and large.
NumberSet(r) ==
  {[t |-> "bigint", b |-> <<n, 1>>] : n \in {-9, -2, 2, 9}}
  \cup IF r = RationalRing
         THEN {[t |-> "number", c |-> <<n, 3>>] : n \in {-2, 2}} ELSE {}

ScopeOf == t1 :> [k \in {"k"} |-> IntValue(5)] @@ t2 :> [k \in {} |-> None]
==============================================================================
