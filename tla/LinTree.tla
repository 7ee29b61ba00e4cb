------------------------------- MODULE LinTree -------------------------------
(***************************************************************************)
(* The encoding of interpreter values as strings, src/lintree.h and        *)
(* src/lintree.cc: to_string(), from_string() and the encoders and         *)
(* decoders they call.  A string is a sequence of cells, one for each call *)
(* of put(), put_int(), put_cstring() and so on; a get that finds a cell   *)
(* of another kind, or none, has lost its place, and what it then returns  *)
(* is undefined: ok is FALSE from there on.                                *)
(*                                                                         *)
(* Values are records whose field t is the type.  A number of Q is a pair  *)
(* <<numerator, denominator>>; a polynomial is a sequence of terms with    *)
(* coefficient c, component comp and exponents exps.                       *)
(***************************************************************************)
EXTENDS Integers, SequencesExt

CONSTANTS Small,       \* numbers up to this absolute value fit a tagged word
          CoefNames,   \* the names nFindCoeffByName() knows
          Weighted,    \* the ring orders with weights
          Unsupported  \* the ring orders that are not implemented

ASSUME SmallAssumption == Small \in Nat

\* The types that init() and installShared() install, and those that need a
\* ring.  The codes are Singular's tokens, above the numbers that occur.
Types == <<"none", "int", "list", "string", "command", "def", "number",
           "bigint", "intmat", "ring", "poly", "ideal", "shared">>
Installed == {Types[i] : i \in DOMAIN Types}
NeedsRing == {"number", "poly", "ideal"}
Code(type) == 300 + (CHOOSE i \in DOMAIN Types : Types[i] = type)
IsCode(n) == n - 300 \in DOMAIN Types
TypeOf(n) == Types[n - 300]

None == [t |-> "none"]

\* A NULL ring.  ch is what encode_ring writes for the coefficients: 0 for Q,
\* p for Zp, -1 and -2 for extensions, -3 for others.
NoRing == [ch |-> -4]
IsQ(r) == r.ch = 0
IsZp(r) == r.ch > 0
TransExt == -1
AlgExt == -2
OtherCoef == -3
Nvars(r) == Len(r.names)

\* The coefficients of coeffs_BIGINT.
BigintRing == [ch |-> 0]

Magnitude(n) == IF n < 0 THEN -n ELSE n

\* The values that the evaluation of a command gives; op 1 adds.
Failed == [t |-> "failed"]
Eval(op, args) ==
  IF op = 1 /\ \A i \in DOMAIN args : args[i].t = "int"
    THEN [t |-> "int", n |-> FoldLeft(LAMBDA s, a : s + a.n, 0, args)]
    ELSE Failed

\* encode_command and decode_command leave out what follows the first of four
\* or more arguments.
Sent(argc) == IF argc < 4 THEN argc ELSE 1

-----------------------------------------------------------------------------
(* Encoders.  The state e of the encoder: the memory m, last_ring, and       *)
(* whether mark_error() was called; ok is FALSE after a NULL pointer.        *)

Cell(kind, v) == [k |-> kind, v |-> v]
IntCell(n) == Cell("int", n)
Cells(kind, s) == [i \in DOMAIN s |-> Cell(kind, s[i])]

PutCells(e, cells) == [e EXCEPT !.m = @ \o cells]
MarkError(e) == [e EXCEPT !.err = TRUE]

\* mpz_export() writes the magnitude of a number and not its sign.
Mpz(n) == Cell("mpz", Magnitude(n))

\* encode_longrat_cf
LongRat(q) ==
  IF q[2] = 1
    THEN IF Magnitude(q[1]) <= Small THEN <<IntCell(-1), Cell("long", q[1])>>
                                     ELSE <<IntCell(3), Mpz(q[1])>>
    ELSE <<IntCell(1), Mpz(q[1]), Mpz(q[2])>>

RECURSIVE EncodePoly(_, _, _)

\* encode_number_cf
EncodeCoef(e, c, r) ==
  CASE r.ch = TransExt -> EncodePoly(EncodePoly(e, c.num, r.ext), c.den, r.ext)
    [] r.ch = AlgExt   -> EncodePoly(e, c, r.ext)
    [] IsZp(r)         -> PutCells(e, <<Cell("long", c)>>)
    [] IsQ(r)          -> PutCells(e, LongRat(c))
    [] OTHER           -> MarkError(e)

EncodeTerm(e, term, r) ==
  PutCells(EncodeCoef(e, term.c, r), <<IntCell(term.comp)>> \o Cells("int", term.exps))

EncodePoly(e, p, r) ==
  FoldLeft(LAMBDA a, term : EncodeTerm(a, term, r), PutCells(e, <<IntCell(Len(p))>>), p)

EncodeIdeal(e, ps, r) ==
  FoldLeft(LAMBDA a, p : EncodePoly(a, p, r), PutCells(e, <<IntCell(Len(ps))>>), ps)

EncodeOrder(e, o) ==
  PutCells(IF o.ord \in Unsupported THEN MarkError(e) ELSE e,
      <<IntCell(o.ord), IntCell(o.b0), IntCell(o.b1)>> \o
      (IF o.ord \in Weighted THEN Cells("int", o.w) ELSE <<>>))

EncodeQuotient(e, r) ==
  IF r.q = <<>> THEN PutCells(e, <<IntCell(0)>>)
  ELSE EncodeIdeal(PutCells(e, <<IntCell(Code("ideal"))>>), r.q, r)

\* encode_ring.  A ring it has just sent is not sent again, and only other
\* coefficients are sent with their name.
RECURSIVE EncodeRing(_, _)
EncodeRing(e, r) ==
  IF r = NoRing THEN PutCells(e, <<IntCell(-4)>>)
  ELSE IF r = e.ring THEN PutCells(e, <<IntCell(-5)>>)
  ELSE
    LET head == <<IntCell(r.ch), IntCell(Nvars(r))>> \o
                (IF r.ch = OtherCoef THEN <<Cell("cstring", r.cname)>> ELSE <<>>) \o
                Cells("cstring", r.names) \o <<IntCell(Len(r.ord))>>
        Ext(e1) == IF r.ch \in {TransExt, AlgExt} THEN EncodeRing(e1, r.ext) ELSE e1
    IN EncodeQuotient(Ext(FoldLeft(EncodeOrder, PutCells(e, head), r.ord)), r)

\* encode().  The first value that needs a ring is preceded by the ring.
PrefixRing(e, v) == v.t \in NeedsRing /\ e.ring = NoRing

RECURSIVE Encode(_, _, _)

EncodeData(e, v, currRing) ==
  CASE v.t = "none" -> e
    [] v.t = "int" -> PutCells(e, <<Cell("long", v.n)>>)
    [] v.t \in {"string", "def"} -> PutCells(e, <<Cell("bytes", v.s)>>)
    [] v.t = "shared" -> PutCells(e, <<Cell("pointer", v.obj)>>)
    [] v.t = "number" -> EncodeCoef(e, v.c, e.ring)
    [] v.t = "bigint" -> EncodeCoef(e, v.b, BigintRing)
    [] v.t = "intmat" -> PutCells(e, <<IntCell(v.rows), IntCell(v.cols)>> \o Cells("int", v.a))
    [] v.t = "ring" -> EncodeRing(e, v.r)
    [] v.t = "poly" -> EncodePoly(e, v.p, e.ring)
    [] v.t = "ideal" -> EncodeIdeal(e, v.ps, e.ring)
    [] v.t = "list" ->
         FoldLeft(LAMBDA a, x : Encode(a, x, currRing),
                  PutCells(e, <<IntCell(Len(v.l) - 1)>>), v.l)
    [] v.t = "command" ->
         FoldLeft(LAMBDA a, x : Encode(a, x, currRing),
                  PutCells(e, <<IntCell(v.op), IntCell(Len(v.args))>>),
                  SubSeq(v.args, 1, Sent(Len(v.args))))

\* After the ring, the type and the data.  A value that needs a ring when there
\* is none makes the encoder follow NULL.
EncodeTyped(e, v, currRing) ==
  IF v.t \in NeedsRing /\ e.ring = NoRing
    THEN [e EXCEPT !.ok = FALSE]
    ELSE EncodeData(PutCells(e, <<IntCell(Code(v.t))>>), v, currRing)

Encode(e, v, currRing) ==
  IF v.t \notin Installed THEN MarkError(e)
  ELSE EncodeTyped(IF PrefixRing(e, v)
                     THEN [EncodeRing(PutCells(e, <<IntCell(-1)>>), currRing)
                             EXCEPT !.ring = currRing]
                     ELSE e, v, currRing)

NewEncoder == [m |-> <<>>, ring |-> NoRing, err |-> FALSE, ok |-> TRUE]

\* What to_string() returns: a value that cannot be encoded is sent as NONE.
OrNone(e) == IF e.err THEN <<IntCell(Code("none"))>> ELSE e.m

-----------------------------------------------------------------------------
(* Decoders.  The state d of the decoder: the cursor pos, last_ring, the     *)
(* error flag, ok, and the value val that the last decoder returned.         *)

Lost(d) == [d EXCEPT !.ok = FALSE, !.val = None]

Got(d, v) == [d EXCEPT !.val = v]

\* n cells of one kind, as a sequence; Get is one cell.
GetN(m, d, n, kind) ==
  LET here == d.pos .. (d.pos + n - 1)
  IN IF d.ok /\ n >= 0 /\ here \subseteq DOMAIN m /\ \A i \in here : m[i].k = kind
       THEN [d EXCEPT !.pos = @ + n,
                      !.val = [i \in 1 .. n |-> m[d.pos + i - 1].v]]
       ELSE Lost(d)
Get(m, d, kind) ==
  LET g == GetN(m, d, 1, kind) IN IF g.ok THEN Got(g, g.val[1]) ELSE g

\* The next decoder goes on where d ended, unless the place is lost; Build makes
\* a value of what d has read.
Then(d, F(_)) == IF d.ok THEN F(d) ELSE d
Build(d, F(_)) == Then(d, LAMBDA x : Got(x, F(x.val)))

\* A loop that decodes n items and collects them in val.
Collect(before, d) == Build(d, LAMBDA v : Append(before.val, v))
Many(d, n, F(_)) ==
  FoldLeft(LAMBDA a, i : Then(a, LAMBDA b : Collect(b, F(b))),
           Got(d, <<>>), [i \in 1 .. n |-> i])

\* decode_longrat_cf
GetLongRat(m, d) ==
  Then(Get(m, d, "int"), LAMBDA s :
    IF s.val < 0 THEN Build(Get(m, s, "long"), LAMBDA n : <<n, 1>>)
    ELSE Then(Get(m, s, "mpz"), LAMBDA a :
           IF s.val < 2 THEN Build(Get(m, a, "mpz"), LAMBDA b : <<a.val, b>>)
                        ELSE Got(a, <<a.val, 1>>)))

\* decode_number_cf.  The rings of extensions never get this far: see GetRing.
GetCoef(m, d, r) ==
  IF r = NoRing THEN Lost(d)
  ELSE IF IsZp(r) THEN Get(m, d, "long")
  ELSE IF IsQ(r) THEN GetLongRat(m, d)
  ELSE Got(MarkError(d), None)

GetTerm(m, d, r) ==
  Then(GetCoef(m, d, r), LAMBDA c :
    Build(GetN(m, c, 1 + Nvars(r), "int"), LAMBDA x :
      [c |-> c.val, comp |-> Head(x), exps |-> Tail(x)]))

GetPoly(m, d, r) ==
  Then(Get(m, d, "int"), LAMBDA n : Many(n, n.val, LAMBDA a : GetTerm(m, a, r)))

GetIdeal(m, d, r) ==
  Then(Get(m, d, "int"), LAMBDA n : Many(n, n.val, LAMBDA a : GetPoly(m, a, r)))

WeightCount(o) == IF o[1] \in Weighted THEN o[3] - o[2] + 1 ELSE 0

GetOrder(m, d) ==
  Then(GetN(m, d, 3, "int"), LAMBDA o :
    Build(GetN(m, IF o.val[1] \in Unsupported THEN MarkError(o) ELSE o,
              WeightCount(o.val), "int"), LAMBDA w :
      [ord |-> o.val[1], b0 |-> o.val[2], b1 |-> o.val[3], w |-> w]))

\* set_last_ring().  KeepLastRing is a bug for the properties to find.
KeepLastRing(d, r) == d
SetLastRing(d, r) == [d EXCEPT !.ring = r]

\* The part of decode_ring_raw that builds a ring, from the names on.  The ring
\* becomes last_ring before its quotient ideal is read.
GetQuotient(m, d, r) ==
  Then(Get(m, SetLastRing(d, r), "int"), LAMBDA flag :
    IF flag.val = 0 THEN Got(flag, r)
    ELSE Then(GetIdeal(m, flag, r), LAMBDA q :
           LET qring == [r EXCEPT !.q = q.val]
           IN Got(SetLastRing(q, qring), qring)))

GetRingData(m, d, ch, n, cname) ==
  Then(GetN(m, d, n, "cstring"), LAMBDA names :
  Then(Get(m, names, "int"), LAMBDA count :
  Then(Many(count, count.val, LAMBDA a : GetOrder(m, a)), LAMBDA ord :
    IF n = 0 THEN Got(ord, NoRing)
    ELSE GetQuotient(m, ord, [ch |-> ch, cname |-> cname, names |-> names.val,
                              ord |-> ord.val, ext |-> NoRing, q |-> <<>>]))))

\* decode_ring_raw.  It wants a number of variables even after -4 and -5, and a
\* coefficient name for extensions too, where it finds the first variable.
GetRing(m, d) ==
  Then(Get(m, d, "int"), LAMBDA ch :
  Then(Get(m, ch, "int"), LAMBDA n :
    CASE ch.val = -5 -> Got(n, n.ring)
      [] ch.val = -4 -> Got(n, NoRing)
      [] ch.val \in -3 .. -1 ->
           Then(Get(m, n, "cstring"), LAMBDA cname :
             IF cname.val \notin CoefNames
               THEN Got(MarkError(cname), NoRing)
               ELSE GetRingData(m, cname, ch.val, n.val, cname.val))
      [] OTHER -> GetRingData(m, n, ch.val, n.val, "")))

\* decode_def: the name is evaluated in the interpreter that decodes it.
GetDef(d, name, scope) ==
  IF name \in DOMAIN scope THEN Got(d, scope[name]) ELSE Got(MarkError(d), None)

GetCommand(d, op, args) ==
  LET v == Eval(op, args)
  IN IF v = Failed THEN Got(MarkError(d), None) ELSE Got(d, v)

RECURSIVE Decode(_, _, _)

\* What decoders[type] returns.
DecodeData(m, d, type, scope) ==
  LET Items(e, n) == Many(e, n, LAMBDA a : Decode(m, a, scope))
  IN CASE type = "none" -> Got(d, None)
       [] type = "int" ->
            Build(Get(m, d, "long"), LAMBDA v : [t |-> type, n |-> v])
       [] type = "string" ->
            Build(Get(m, d, "bytes"), LAMBDA v : [t |-> type, s |-> v])
       [] type = "def" ->
            Then(Get(m, d, "bytes"), LAMBDA x : GetDef(x, x.val, scope))
       [] type = "shared" ->
            Build(Get(m, d, "pointer"), LAMBDA v : [t |-> type, obj |-> v])
       [] type = "number" ->
            Build(GetCoef(m, d, d.ring), LAMBDA v : [t |-> type, c |-> v])
       [] type = "bigint" ->
            Build(GetCoef(m, d, BigintRing), LAMBDA v : [t |-> type, b |-> v])
       [] type = "poly" ->
            Build(GetPoly(m, d, d.ring), LAMBDA v : [t |-> type, p |-> v, of |-> d.ring])
       [] type = "ideal" ->
            Build(GetIdeal(m, d, d.ring), LAMBDA v : [t |-> type, ps |-> v, of |-> d.ring])
       [] type = "ring" ->
            Build(GetRing(m, d), LAMBDA v : [t |-> type, r |-> v])
       [] type = "intmat" ->
            Then(GetN(m, d, 2, "int"), LAMBDA x :
              Build(GetN(m, x, x.val[1] * x.val[2], "int"), LAMBDA v :
                [t |-> type, rows |-> x.val[1], cols |-> x.val[2], a |-> v]))
       [] type = "list" ->
            Then(Get(m, d, "int"), LAMBDA x :
              Build(Items(x, x.val + 1), LAMBDA v : [t |-> type, l |-> v]))
       [] type = "command" ->
            Then(GetN(m, d, 2, "int"), LAMBDA x :
              Then(Items(x, Sent(x.val[2])), LAMBDA c :
                GetCommand(c, x.val[1], c.val)))

\* A ring precedes the first value that needs one.
GetType(m, d) ==
  Then(Get(m, d, "int"), LAMBDA tag :
    IF tag.val >= 0 THEN tag
    ELSE Then(GetRing(m, tag), LAMBDA r : Get(m, SetLastRing(r, r.val), "int")))

Decode(m, d, scope) ==
  Then(GetType(m, d), LAMBDA type :
    IF IsCode(type.val) THEN DecodeData(m, type, TypeOf(type.val), scope)
                        ELSE Lost(type))

\* from_string().
NewDecoder == [pos |-> 1, ring |-> NoRing, err |-> FALSE, ok |-> TRUE, val |-> None]
OrNoneOf(d) == IF d.err THEN Got(d, None) ELSE d
from_string(m, scope) == OrNoneOf(Decode(m, NewDecoder, scope))
==============================================================================
