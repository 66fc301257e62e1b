--------------------------- MODULE CompilerProofs ---------------------------
(***************************************************************************)
(* Proofs about Compiler, for every class of programs, every set of names  *)
(* and of functions and every bound: its types, that what it compiles is   *)
(* well formed, that a slot belongs to one name, that a name the analyzer  *)
(* accepts has a slot, and that a call enters the function it names.       *)
(***************************************************************************)
EXTENDS Compiler, SequenceLemmas

----------------------------------------------------------------------------
(* The invariant. *)

PlainOps ==
  {"PUSH", "SLOAD", "STORE", "ADD", "SUB", "MUL", "DIV", "GT", "LT", "EQ", "GT_EQ", "LT_EQ",
   "DIFF", "AND", "OR", "SWAP", "NOT", "TRUE", "FALSE", "NULL", "PUSH_OBJECT", "PRINT",
   "ACCESS", "LENGTH", "CONTAINS", "NONCE", "HASH", "GET_ENV", "GET_PROPERTY",
   "SET_PROPERTY", "ERR", "EMIT", "RET", "END_TRY", "HALT"}
Jumps == {"JMP", "JMP_IF", "TRY"}
Emitted == [op : PlainOps \cup Jumps \cup {"CALL", "CONST"}, a : Nat, b : 0..(Byte - 1)]

\* What a well-formed artifact asks of an instruction, in code that goes on to n.
InRange(i, n, m) ==
  /\ i.op \in Branches => i.a <= n
  /\ i.op = "CONST" => i.a < m

\* A position whose target is to be patched.
HoleAt(c, p) == p < Len(c) /\ c[p + 1].op \in Jumps

Tables == UNION {[D -> Nat] : D \in SUBSET Names}

OpenKinds == {"func", "then", "else", "while", "for_init", "for", "for_post", "try", "catch",
              "object"}
NamesOrNone == Names \cup {""}

Statements ==
  [kind : OpenKinds, p : Nat, q : Nat, r : Nat, name : NamesOrNone, slot : Nat,
   symbols : Tables, constants : SUBSET Names, inFunction : BOOLEAN,
   outer : SUBSET Names, start : SUBSET Names, post : SUBSET Names]

Contexts == {"nothing", "statement", "variable", "assignment", "field", "return", "event",
             "condition", "if", "while", "for"}
Exprs == [for : Contexts, name : NamesOrNone, slot : Nat, depth : Int]

(***************************************************************************)
(* Every position an open statement holds is in the code already, and the  *)
(* ones that will be patched are those of jumps without a target.          *)
(***************************************************************************)
Placed(c, e) ==
  /\ e.p <= Len(c) /\ e.q <= Len(c) /\ e.r <= Len(c)
  /\ e.kind \in {"func", "then", "else", "try", "catch"} => HoleAt(c, e.p)
  /\ e.kind \in {"else", "catch", "while", "for", "for_post"} => HoleAt(c, e.q)
  /\ e.kind = "object" => e.name \in Names

CodeOK ==
  /\ code \in Seq(Emitted)
  /\ pool \in Seq(Values) /\ Len(pool) <= MaxPool
  /\ \A i \in 1..Pos : InRange(code[i], Pos, Len(pool))
  /\ \A f \in DOMAIN functions : f \in Funcs /\ functions[f].addr \in 1..Pos

ScopeTyped ==
  /\ symbols \in Tables /\ nextSlot \in Nat \ {0}
  /\ constants \subseteq Names
  /\ visible \subseteq Names /\ called \subseteq Funcs
  /\ isInFunction \in BOOLEAN

ExprOK ==
  /\ expr \in Exprs
  /\ expr.for \in {"while", "for"} => expr.slot <= Pos
  /\ expr.for \in {"variable", "assignment"} => expr.name \in Names
  /\ expr.for = "for" => Inside("for_init")

OpenOK ==
  /\ open \in Seq(Statements)
  /\ \A i \in 1..Len(open) : Placed(code, open[i])

Typed ==
  /\ stage \in {"compiling", "compiled", "panicked"}
  /\ CodeOK /\ ScopeTyped /\ ExprOK /\ OpenOK

----------------------------------------------------------------------------
(* Emission. *)

LEMMA Modulo ==
  ASSUME NEW n \in Nat, NEW m \in Nat \ {0}
  PROVE  /\ n % m \in 0..(m - 1)
         /\ n < m => n % m = n
OBVIOUS

LEMMA Limits ==
  /\ Byte \in Nat \ {0} /\ MaxPool \in Nat \ {0}
  /\ 0 \in 0..(Byte - 1)
BY CompilerAssumption

\* The index at which addConst finds or puts a constant is one of the pool's.
LEMMA PoolIndexInPool ==
  ASSUME CodeOK, NEW v \in Values, AddConst(v)
  PROVE  /\ pool' \in Seq(Values)
         /\ Len(pool) <= Len(pool') /\ Len(pool') <= MaxPool
         /\ Const(v) \in Emitted
         /\ Const(v).op = "CONST" /\ Const(v).a < Len(pool')
<1>1. pool \in Seq(Values) /\ Len(pool) \in Nat /\ DOMAIN pool = 1..Len(pool)
      /\ Len(pool) <= MaxPool /\ MaxPool \in Nat \ {0}
  BY LenProperties, Limits DEF CodeOK
<1>2. CASE v \in Range(pool)
  <2>1. pool' = pool /\ WithConst(v) = pool
    BY <1>2 DEF AddConst, WithConst
  <2>2. PICK i \in 1..Len(pool) : pool[i] = v
    BY <1>1, <1>2 DEF Range
  <2> DEFINE T == {j \in 1..Len(pool) : pool[j] = v}
  <2>3. PICK j \in T : \A k \in T : j <= k
    <3>1. T \subseteq Nat /\ T # {}
      BY <2>2
    <3> QED
      BY <3>1, FirstPosition
  <2>4. j \in DOMAIN pool /\ pool[j] = v /\ \A k \in 1..(j - 1) : pool[k] # v
    BY <1>1, <2>3
  <2>5. PoolIndex(pool, v) \in 1..Len(pool)
    BY <1>1, <2>4 DEF PoolIndex
  <2>6. PoolIndex(pool, v) - 1 \in Nat /\ PoolIndex(pool, v) - 1 < MaxPool
    BY <1>1, <2>5
  <2>7. (PoolIndex(pool, v) - 1) % MaxPool = PoolIndex(pool, v) - 1
    BY <1>1, <2>6, Modulo
  <2>8. Const(v) = [op |-> "CONST", a |-> PoolIndex(pool, v) - 1, b |-> 0]
    BY <2>1, <2>7 DEF Const, Instr
  <2>9. Const(v) \in Emitted /\ Const(v).op = "CONST" /\ Const(v).a = PoolIndex(pool, v) - 1
    BY <2>6, <2>8, Limits DEF Emitted
  <2> QED
    BY <1>1, <2>1, <2>5, <2>9
<1>3. CASE v \notin Range(pool)
  <2>1. pool' = Append(pool, v) /\ WithConst(v) = Append(pool, v) /\ Len(pool) < MaxPool
    BY <1>1, <1>3 DEF AddConst, WithConst, Overflows
  <2>2. /\ pool' \in Seq(Values) /\ Len(pool') = Len(pool) + 1
        /\ \A i \in 1..Len(pool) : pool'[i] = pool[i]
        /\ pool'[Len(pool) + 1] = v /\ DOMAIN pool' = 1..(Len(pool) + 1)
    BY <1>1, <2>1, AppendedProperties, LenProperties
  <2>3. \A i \in 1..Len(pool) : pool[i] # v
    BY <1>1, <1>3 DEF Range
  <2>4. PoolIndex(pool', v) = Len(pool) + 1
    <3>1. \A i \in DOMAIN pool' : pool'[i] = v => i = Len(pool) + 1
      BY <1>1, <2>2, <2>3
    <3>2. \A k \in 1..(Len(pool) + 1 - 1) : pool'[k] # v
      BY <1>1, <2>2, <2>3
    <3> QED
      BY <1>1, <2>2, <3>1, <3>2 DEF PoolIndex
  <2>5. (PoolIndex(pool', v) - 1) % MaxPool = Len(pool)
    <3>1. PoolIndex(pool', v) - 1 = Len(pool)
      BY <1>1, <2>4
    <3>2. Len(pool) % MaxPool = Len(pool)
      BY <1>1, <2>1, Modulo
    <3> QED
      BY <3>1, <3>2
  <2>6. Const(v) = [op |-> "CONST", a |-> Len(pool), b |-> 0]
    BY <2>1, <2>5 DEF Const, Instr
  <2>7. Const(v) \in Emitted /\ Const(v).op = "CONST" /\ Const(v).a = Len(pool)
    BY <1>1, <2>6, Limits DEF Emitted
  <2> QED
    BY <1>1, <2>1, <2>2, <2>7
<1> QED
  BY <1>2, <1>3

\* The constants of the modelled constructs are values.
LEMMA ConstantsAreValues ==
  {Message, EventName, Key, Large, Tree, Items} \subseteq Values
BY CompilerAssumption
   DEF Message, EventName, Key, Large, Tree, Items, StrV, FloatV, ObjV, Value, Values, Kinds

(***************************************************************************)
(* What every step does to code and pool: it appends instructions that are *)
(* in range and gives targets in the code to jumps emitted before. Only    *)
(* the compilation of a call adds a CALL, and none is touched again.       *)
(***************************************************************************)
PoolGrows ==
  pool' \in Seq(Values) /\ Len(pool) <= Len(pool') /\ Len(pool') <= MaxPool

Extends ==
  /\ PoolGrows
  /\ code' \in Seq(Emitted) /\ Pos <= Pos'
  /\ \A i \in 1..Pos' : InRange(code'[i], Pos', Len(pool'))
  /\ \A i \in 1..Pos : code'[i].op = code[i].op

Rewrites ==
  /\ Extends
  /\ \A i \in 1..Pos' : code'[i].op = "CALL" => i <= Pos /\ code'[i] = code[i]

LEMMA InRangeGrows ==
  ASSUME NEW i \in Emitted, NEW n \in Nat, NEW m \in Nat, NEW n2 \in Nat, NEW m2 \in Nat,
         InRange(i, n, m), n <= n2, m <= m2
  PROVE  InRange(i, n2, m2)
<1>1. i.a \in Nat
  BY DEF Emitted
<1> QED
  BY <1>1 DEF InRange

\* Appending instructions that are in range.
LEMMA Emission ==
  ASSUME CodeOK, PoolGrows, NEW s \in Seq(Emitted), code' = code \o s,
         \A i \in 1..Len(s) : InRange(s[i], Pos + Len(s), Len(pool'))
  PROVE  /\ code' \in Seq(Emitted) /\ Pos' = Pos + Len(s) /\ Pos <= Pos'
         /\ \A i \in 1..Pos' : InRange(code'[i], Pos', Len(pool'))
         /\ \A i \in 1..Pos : code'[i] = code[i]
         /\ \A i \in 1..Pos' : i > Pos => code'[i] = s[i - Pos] /\ i - Pos \in 1..Len(s)
<1>1. Pos \in Nat /\ Len(s) \in Nat /\ Len(pool) \in Nat /\ Len(pool') \in Nat
  BY LenProperties DEF CodeOK, PoolGrows, Pos
<1>2. /\ code' \in Seq(Emitted) /\ Pos' = Pos + Len(s) /\ Pos <= Pos'
      /\ \A i \in 1..Pos : code'[i] = code[i]
      /\ \A i \in 1..Pos' : i > Pos => code'[i] = s[i - Pos] /\ i - Pos \in 1..Len(s)
  BY ExtendedProperties DEF CodeOK, Pos
<1>3. \A i \in 1..Pos : InRange(code'[i], Pos', Len(pool'))
  <2>1. \A i \in 1..Pos : code'[i] \in Emitted /\ InRange(code'[i], Pos, Len(pool))
    BY <1>1, <1>2, ElementOfSeq DEF CodeOK, Pos
  <2>2. \A i \in Emitted : InRange(i, Pos, Len(pool)) => InRange(i, Pos', Len(pool'))
    <3>1. Pos' \in Nat /\ Len(pool) <= Len(pool')
      BY <1>1, <1>2 DEF PoolGrows
    <3> QED
      BY <1>1, <1>2, <3>1, InRangeGrows
  <2> QED
    BY <2>1, <2>2
<1>4. \A i \in 1..Pos' : i > Pos => InRange(code'[i], Pos', Len(pool'))
  BY <1>1, <1>2
<1>5. ASSUME NEW i \in 1..Pos'
      PROVE  i \in 1..Pos \/ i > Pos
  BY <1>1, <1>2
<1> QED
  BY <1>2, <1>3, <1>4, <1>5

LEMMA EmissionRewrites ==
  ASSUME CodeOK, PoolGrows, NEW s \in Seq(Emitted), code' = code \o s,
         \A i \in 1..Len(s) : InRange(s[i], Pos + Len(s), Len(pool')) /\ s[i].op # "CALL"
  PROVE  Rewrites
<1>1. Pos \in Nat
  BY LenProperties DEF CodeOK, Pos
<1>2. \A i \in 1..Len(s) : InRange(s[i], Pos + Len(s), Len(pool'))
  OBVIOUS
<1>3. /\ code' \in Seq(Emitted) /\ Pos <= Pos'
      /\ \A i \in 1..Pos' : InRange(code'[i], Pos', Len(pool'))
      /\ \A i \in 1..Pos : code'[i] = code[i]
      /\ \A i \in 1..Pos' : i > Pos => code'[i] = s[i - Pos] /\ i - Pos \in 1..Len(s)
  BY <1>2, Emission
<1>4. Pos' \in Nat
  BY <1>3, LenProperties DEF Pos
<1>5. \A i \in 1..Pos' : i > Pos => code'[i].op # "CALL"
  BY <1>3
<1>6. \A i \in 1..Pos' : (i \in 1..Pos /\ i <= Pos) \/ i > Pos
  BY <1>1, <1>4
<1>7. \A i \in 1..Pos' : code'[i].op = "CALL" => i <= Pos /\ code'[i] = code[i]
  BY <1>3, <1>5, <1>6
<1>8. \A i \in 1..Pos : code'[i].op = code[i].op
  BY <1>3
<1> QED
  BY <1>3, <1>7, <1>8 DEF Extends, Rewrites

\* A step that emits nothing.
LEMMA NothingEmitted ==
  ASSUME CodeOK, PoolGrows, code' = code
  PROVE  Rewrites
<1>1. code' = code \o <<>> /\ <<>> \in Seq(Emitted) /\ Len(<<>>) = 0
  BY EmptySeq, ConcatEmptySeq DEF CodeOK
<1>2. \A i \in 1..Len(<<>>) : InRange(<<>>[i], Pos + Len(<<>>), Len(pool')) /\ <<>>[i].op # "CALL"
  BY <1>1
<1> QED
  BY <1>1, <1>2, EmissionRewrites

LEMMA PoolKept ==
  ASSUME CodeOK, UNCHANGED pool
  PROVE  PoolGrows
BY LenProperties DEF CodeOK, PoolGrows

LEMMA PoolAdded ==
  ASSUME CodeOK, NEW v \in {Message, EventName, Key, Large, Tree, Items}, AddConst(v)
  PROVE  /\ PoolGrows
         /\ Const(v) \in Emitted
         /\ Const(v).op = "CONST" /\ Const(v).a < Len(pool')
BY ConstantsAreValues, PoolIndexInPool DEF PoolGrows

----------------------------------------------------------------------------
(* Which instructions the actions emit. *)

\* An instruction that may be appended by a step that ends at Pos'.
Fits(i, n) == i \in Emitted /\ InRange(i, n, Len(pool')) /\ i.op # "CALL"

LEMMA PlainFits ==
  ASSUME NEW op \in PlainOps, NEW a \in Nat, NEW n
  PROVE  Fits(Instr(op, a, 0), n)
<1>1. op \notin Branches /\ op # "CONST" /\ op # "CALL"
  BY DEF PlainOps, Branches
<1>2. Instr(op, a, 0) \in Emitted /\ Instr(op, a, 0).op = op
  BY Limits DEF Instr, Emitted
<1> QED
  BY <1>1, <1>2 DEF Fits, InRange

LEMMA JumpFits ==
  ASSUME NEW op \in Jumps, NEW a \in Nat, NEW b \in 0..(Byte - 1), NEW n \in Nat, a <= n
  PROVE  Fits(Instr(op, a, b), n)
<1>1. op # "CONST" /\ op # "CALL"
  BY DEF Jumps
<1>2. Instr(op, a, b) \in Emitted /\ Instr(op, a, b).op = op /\ Instr(op, a, b).a = a
  BY DEF Instr, Emitted
<1> QED
  BY <1>1, <1>2 DEF Fits, InRange

LEMMA ConstFits ==
  ASSUME CodeOK, NEW v \in {Message, EventName, Key, Large, Tree, Items}, AddConst(v), NEW n
  PROVE  PoolGrows /\ Fits(Const(v), n) /\ Const(v).a \in Nat
<1>1. /\ PoolGrows
      /\ Const(v) \in Emitted
      /\ Const(v).op = "CONST" /\ Const(v).a < Len(pool')
  BY PoolAdded
<1>2. Const(v).op \notin Branches /\ Const(v).a \in Nat
  BY <1>1 DEF Branches, Emitted
<1> QED
  BY <1>1, <1>2 DEF Fits, InRange

\* The sequences of one to four instructions the actions emit.
LEMMA EmitsOne ==
  ASSUME CodeOK, PoolGrows, NEW x, Emit(<<x>>), Fits(x, Pos + 1)
  PROVE  Rewrites
<1>1. <<x>> \in Seq(Emitted) /\ Len(<<x>>) = 1 /\ <<x>>[1] = x
  BY ShortSequences DEF Fits
<1>2. \A i \in 1..Len(<<x>>) :
        InRange(<<x>>[i], Pos + Len(<<x>>), Len(pool')) /\ <<x>>[i].op # "CALL"
  BY <1>1 DEF Fits
<1> QED
  BY <1>1, <1>2, EmissionRewrites DEF Emit

LEMMA EmitsTwo ==
  ASSUME CodeOK, PoolGrows, NEW x, NEW y, Emit(<<x, y>>), Fits(x, Pos + 2), Fits(y, Pos + 2)
  PROVE  Rewrites
<1> DEFINE s == <<x, y>>
<1>1. s \in Seq(Emitted) /\ Len(s) = 2 /\ s[1] = x /\ s[2] = y
  BY ShortSequences DEF Fits
<1>2. \A i \in 1..Len(s) : InRange(s[i], Pos + Len(s), Len(pool')) /\ s[i].op # "CALL"
  BY <1>1 DEF Fits
<1>3. code' = code \o s
  BY DEF Emit
<1> HIDE DEF s
<1> QED
  BY <1>1, <1>2, <1>3, EmissionRewrites

LEMMA EmitsFour ==
  ASSUME CodeOK, PoolGrows, NEW x, NEW y, NEW z, NEW u, Emit(<<x, y, z, u>>),
         Fits(x, Pos + 4), Fits(y, Pos + 4), Fits(z, Pos + 4), Fits(u, Pos + 4)
  PROVE  Rewrites
<1> DEFINE s == <<x, y, z, u>>
<1>1. s \in Seq(Emitted) /\ Len(s) = 4 /\ s[1] = x /\ s[2] = y /\ s[3] = z /\ s[4] = u
  BY ShortSequences DEF Fits
<1>2. \A i \in 1..Len(s) : InRange(s[i], Pos + Len(s), Len(pool')) /\ s[i].op # "CALL"
  BY <1>1 DEF Fits
<1>3. code' = code \o s
  BY DEF Emit
<1> HIDE DEF s
<1> QED
  BY <1>1, <1>2, <1>3, EmissionRewrites

LEMMA EmitsOp ==
  ASSUME CodeOK, PoolGrows, NEW op \in PlainOps, NEW a \in Nat, Emit(<<Instr(op, a, 0)>>)
  PROVE  Rewrites
<1>1. Fits(Instr(op, a, 0), Pos + 1)
  BY PlainFits
<1> QED
  BY <1>1, EmitsOne

LEMMA EmitsConst ==
  ASSUME CodeOK, NEW v \in {Message, EventName, Key, Large, Tree, Items}, AddConst(v),
         Emit(<<Const(v)>>)
  PROVE  Rewrites
<1>1. PoolGrows /\ Fits(Const(v), Pos + 1)
  BY ConstFits
<1> QED
  BY <1>1, EmitsOne

LEMMA EmitsConstAndOp ==
  ASSUME CodeOK, NEW v \in {Message, EventName, Key, Large, Tree, Items}, AddConst(v),
         NEW op \in PlainOps, Emit(<<Const(v), Op(op)>>)
  PROVE  Rewrites
<1>1. PoolGrows /\ Fits(Const(v), Pos + 2)
  BY ConstFits
<1>2. Fits(Op(op), Pos + 2)
  BY PlainFits DEF Op
<1> QED
  BY <1>1, <1>2, EmitsTwo

\* The slot a name is read from.
LEMMA SlotIsNat ==
  ASSUME ScopeTyped, NEW x
  PROVE  /\ Lookup(symbols, x, 0) \in Nat /\ Lookup(symbols, x, 0) % Byte \in Nat
         /\ GetSlot(x) \in Nat
<1>1. symbols \in Tables /\ nextSlot \in Nat
  BY DEF ScopeTyped
<1>2. \A y \in DOMAIN symbols : symbols[y] \in Nat
  BY <1>1 DEF Tables
<1>3. Lookup(symbols, x, 0) \in Nat /\ GetSlot(x) \in Nat
  BY <1>1, <1>2 DEF Lookup, GetSlot
<1> QED
  BY <1>3, Limits, Modulo

LEMMA IncDecRewrites ==
  ASSUME CodeOK, ScopeTyped, IncDec
  PROVE  Rewrites
<1>1. PoolGrows
  BY PoolKept DEF IncDec
<1>2. PICK x \in Names, op \in {"ADD", "SUB"} :
        Emit(<<Instr("SLOAD", Lookup(symbols, x, 0) % Byte, 0), Instr("PUSH", 1, 0), Op(op),
               Instr("STORE", Lookup(symbols, x, 0) % Byte, 0)>>)
  BY DEF IncDec
<1>3. Lookup(symbols, x, 0) % Byte \in Nat
  BY SlotIsNat
<1>4. /\ "SLOAD" \in PlainOps /\ "PUSH" \in PlainOps /\ "STORE" \in PlainOps
      /\ op \in PlainOps
  BY DEF PlainOps
<1>5. /\ Fits(Instr("SLOAD", Lookup(symbols, x, 0) % Byte, 0), Pos + 4)
      /\ Fits(Instr("PUSH", 1, 0), Pos + 4) /\ Fits(Op(op), Pos + 4)
      /\ Fits(Instr("STORE", Lookup(symbols, x, 0) % Byte, 0), Pos + 4)
  BY <1>3, <1>4, PlainFits DEF Op
<1> QED
  BY <1>1, <1>2, <1>5, EmitsFour

\* expr.go:215: whichever operator, one instruction, two, or none.
LEMMA BinaryRewrites ==
  ASSUME CodeOK, Binary
  PROVE  Rewrites
<1>1. PoolGrows
  BY PoolKept DEF Binary
<1>2. PICK operator \in Operators : Emit(BinaryCode(operator))
  BY DEF Binary
<1>3. CASE operator = "+"
  <2>1. Emit(<<Op("SWAP"), Op("ADD")>>)
    BY <1>2, <1>3 DEF BinaryCode
  <2>2. Fits(Op("SWAP"), Pos + 2) /\ Fits(Op("ADD"), Pos + 2)
    BY PlainFits DEF Op, PlainOps
  <2> QED
    BY <1>1, <2>1, <2>2, EmitsTwo
<1>4. CASE operator = "%"
  <2>1. code' = code \o <<>>
    BY <1>2, <1>4 DEF BinaryCode, Emit
  <2>2. code' = code
    BY <2>1, ConcatEmptySeq DEF CodeOK
  <2> QED
    BY <1>1, <2>2, NothingEmitted
<1>5. CASE operator \notin {"+", "%"}
  <2>1. PICK op \in PlainOps : BinaryCode(operator) = <<Op(op)>>
    BY <1>5 DEF BinaryCode, Operators, PlainOps
  <2> QED
    BY <1>1, <1>2, <2>1, EmitsOp DEF Op
<1> QED
  BY <1>3, <1>4, <1>5

LEMMA PrefixRewrites ==
  ASSUME CodeOK, Prefix
  PROVE  Rewrites
<1>1. PoolGrows
  BY PoolKept DEF Prefix
<1>2. CASE Emit(<<Op("NOT")>>)
  BY <1>1, <1>2, EmitsOp DEF Op, PlainOps
<1>3. CASE Emit(<<Instr("PUSH", 0, 0), Op("SWAP"), Op("SUB")>>)
  <2> DEFINE s == <<Instr("PUSH", 0, 0), Op("SWAP"), Op("SUB")>>
  <2>1. /\ Fits(Instr("PUSH", 0, 0), Pos + 3) /\ Fits(Op("SWAP"), Pos + 3)
        /\ Fits(Op("SUB"), Pos + 3)
    BY PlainFits DEF Op, PlainOps
  <2>2. /\ s \in Seq(Emitted) /\ Len(s) = 3
        /\ s[1] = Instr("PUSH", 0, 0) /\ s[2] = Op("SWAP") /\ s[3] = Op("SUB")
    BY <2>1, ShortSequences DEF Fits
  <2>3. \A i \in 1..Len(s) : InRange(s[i], Pos + Len(s), Len(pool')) /\ s[i].op # "CALL"
    BY <2>1, <2>2 DEF Fits
  <2>4. code' = code \o s
    BY <1>3 DEF Emit
  <2> HIDE DEF s
  <2> QED
    BY <1>1, <2>2, <2>3, <2>4, EmissionRewrites
<1> QED
  BY <1>2, <1>3 DEF Prefix

LEMMA TwoFieldsRewrite ==
  ASSUME CodeOK, AddConst(Key),
         Emit(<<Op("PUSH_OBJECT"), Const(Key), Instr("PUSH", 1, 0), Op("SET_PROPERTY"),
                Const(Key), Const(Key), Op("SET_PROPERTY")>>)
  PROVE  Rewrites
<1> DEFINE k == Const(Key)
           s == <<Op("PUSH_OBJECT"), k, Instr("PUSH", 1, 0), Op("SET_PROPERTY"), k, k,
                  Op("SET_PROPERTY")>>
<1>1. code' = code \o s /\ AddConst(Key)
  BY DEF Emit
<1>2. PoolGrows /\ Fits(k, Pos + 7)
  BY <1>1, ConstFits
<1>3. /\ Fits(Op("PUSH_OBJECT"), Pos + 7) /\ Fits(Instr("PUSH", 1, 0), Pos + 7)
      /\ Fits(Op("SET_PROPERTY"), Pos + 7)
  BY PlainFits DEF Op, PlainOps
<1> HIDE DEF k
<1>4. /\ s \in Seq(Emitted) /\ Len(s) = 7
      /\ s[1] = Op("PUSH_OBJECT") /\ s[2] = k /\ s[3] = Instr("PUSH", 1, 0)
      /\ s[4] = Op("SET_PROPERTY") /\ s[5] = k /\ s[6] = k /\ s[7] = Op("SET_PROPERTY")
  BY <1>2, <1>3 DEF Fits
<1>5. \A i \in 1..Len(s) : InRange(s[i], Pos + Len(s), Len(pool')) /\ s[i].op # "CALL"
  BY <1>2, <1>3, <1>4 DEF Fits
<1> HIDE DEF s
<1> QED
  BY <1>1, <1>2, <1>4, <1>5, EmissionRewrites

LEMMA ErrorExprRewrites ==
  ASSUME CodeOK, ErrorExpr
  PROVE  Rewrites
<1>1. AddConst(Key)
  BY DEF ErrorExpr
<1>2. CASE Emit(<<Op("PUSH_OBJECT"), Const(Key), Instr("PUSH", 1, 0), Op("SET_PROPERTY"),
                  Const(Key), Const(Key), Op("SET_PROPERTY")>>)
  BY <1>1, <1>2, TwoFieldsRewrite
<1>3. CASE Emit(<<Op("PUSH_OBJECT"), Const(Key), Instr("PUSH", 1, 0), Op("SET_PROPERTY")>>)
  <2>1. PoolGrows /\ Fits(Const(Key), Pos + 4)
    BY <1>1, ConstFits
  <2>2. /\ Fits(Op("PUSH_OBJECT"), Pos + 4) /\ Fits(Instr("PUSH", 1, 0), Pos + 4)
        /\ Fits(Op("SET_PROPERTY"), Pos + 4)
    BY PlainFits DEF Op, PlainOps
  <2> QED
    BY <1>3, <2>1, <2>2, EmitsFour
<1> QED
  BY <1>2, <1>3 DEF ErrorExpr

\* What stands for a message or the name of an event.
LEMMA LabelKinds ==
  ASSUME ScopeTyped, NEW v, NEW i \in Labels(v)
  PROVE  i = Const(v) \/ \E op \in {"PUSH", "SLOAD"}, a \in Nat : i = Instr(op, a, 0)
<1>1. ASSUME NEW n \in Numbers PROVE n % Byte \in Nat
  BY CompilerAssumption, Modulo, Limits
<1>2. ASSUME NEW x \in Names PROVE Lookup(symbols, x, 0) % Byte \in Nat
  BY SlotIsNat
<1> QED
  BY <1>1, <1>2 DEF Labels

LEMMA LabelFits ==
  ASSUME CodeOK, ScopeTyped, NEW v \in {Message, EventName}, NEW i \in Labels(v), Labelled(v, i),
         NEW n
  PROVE  PoolGrows /\ Fits(i, n)
<1>1. CASE i = Const(v)
  BY <1>1, ConstFits DEF Labelled
<1>2. CASE i # Const(v)
  <2>1. PICK op \in {"PUSH", "SLOAD"}, a \in Nat : i = Instr(op, a, 0)
    BY <1>2, LabelKinds
  <2>2. UNCHANGED pool
    BY <1>2 DEF Labelled
  <2> QED
    BY <2>1, <2>2, PoolKept, PlainFits DEF PlainOps
<1> QED
  BY <1>1, <1>2

\* Every expression but a call.
Computes ==
  Number \/ LargeNumber \/ Literal \/ Symbol \/ IncDec \/ Binary \/ Prefix
    \/ PrintCall \/ Operation \/ WithConstant \/ ArrayLiteral \/ ErrorExpr

LEMMA ComputesRewrites ==
  ASSUME CodeOK, ScopeTyped, Computes
  PROVE  Rewrites
<1>1. CASE Number
  <2>1. PICK n \in Numbers : Emit(<<Instr("PUSH", n % Byte, 0)>>)
    BY <1>1 DEF Number
  <2>2. n \in Nat
    BY CompilerAssumption, Limits
  <2>3. n % Byte \in Nat
    BY <2>2, Limits, Modulo
  <2> QED
    BY <1>1, <2>1, <2>3, PoolKept, EmitsOp DEF Number, PlainOps
<1>2. CASE LargeNumber
  BY <1>2, EmitsConst DEF LargeNumber
<1>3. CASE Literal
  <2>1. PICK op \in PlainOps : Emit(<<Instr(op, 0, 0)>>)
    BY <1>3 DEF Literal, PlainOps, Op
  <2> QED
    BY <1>3, <2>1, PoolKept, EmitsOp DEF Literal
<1>4. CASE Symbol
  <2>1. PICK x \in Names : Emit(<<Instr("SLOAD", Lookup(symbols, x, 0) % Byte, 0)>>)
    BY <1>4 DEF Symbol
  <2> QED
    BY <1>4, <2>1, SlotIsNat, PoolKept, EmitsOp DEF Symbol, PlainOps
<1>5. CASE IncDec
  BY <1>5, IncDecRewrites
<1>6. CASE Binary
  BY <1>6, BinaryRewrites
<1>7. CASE Prefix
  BY <1>7, PrefixRewrites
<1>8. CASE PrintCall
  BY <1>8, PoolKept, EmitsOp DEF PrintCall, PlainOps, Op
<1>9. CASE Operation
  <2>1. PoolGrows
    BY <1>9, PoolKept DEF Operation
  <2>2. CASE UNCHANGED code
    BY <2>1, <2>2, NothingEmitted
  <2>3. CASE ~UNCHANGED code
    <3>1. PICK op \in PlainOps, a \in Nat : Emit(<<Instr(op, a, 0)>>)
      BY <1>9, <2>3 DEF Operation, PlainOps, Op
    <3> QED
      BY <2>1, <3>1, EmitsOp
  <2> QED
    BY <2>2, <2>3
<1>10. CASE WithConstant
  <2>1. CASE AddConst(Key) /\ Emit(<<Const(Key), Op("GET_PROPERTY")>>)
    BY <2>1, EmitsConstAndOp DEF PlainOps
  <2>2. CASE AddConst(Tree) /\ Emit(<<Instr("GET_ENV", Const(Tree).a, 0)>>)
    BY <2>2, ConstFits, EmitsOp DEF PlainOps
  <2> QED
    BY <1>10, <2>1, <2>2 DEF WithConstant
<1>11. CASE ArrayLiteral
  <2>1. pool \in Seq(Values) /\ Len(pool) \in Nat /\ Len(pool) < MaxPool /\ MaxPool \in Nat
    BY <1>11, LenProperties, Limits DEF CodeOK, ArrayLiteral
  <2>2. pool' \in Seq(Values) /\ Len(pool') = Len(pool) + 1
    BY <1>11, <2>1, AppendedProperties, ConstantsAreValues DEF ArrayLiteral
  <2>3. PoolGrows
    BY <2>1, <2>2 DEF PoolGrows
  <2>4. Instr("CONST", Len(pool), 0) = [op |-> "CONST", a |-> Len(pool), b |-> 0]
    BY DEF Instr
  <2>5. /\ Instr("CONST", Len(pool), 0) \in Emitted
        /\ Instr("CONST", Len(pool), 0).op = "CONST"
        /\ Instr("CONST", Len(pool), 0).a = Len(pool)
    BY <2>1, <2>4, Limits DEF Emitted
  <2>6. Fits(Instr("CONST", Len(pool), 0), Pos + 1)
    BY <2>1, <2>2, <2>5 DEF Fits, InRange, Branches
  <2> QED
    BY <1>11, <2>3, <2>6, EmitsOne DEF ArrayLiteral
<1>12. CASE ErrorExpr
  BY <1>12, ErrorExprRewrites
<1> QED
  BY <1>1, <1>2, <1>3, <1>4, <1>5, <1>6, <1>7, <1>8, <1>9, <1>10, <1>11, <1>12 DEF Computes

\* The statements without blocks.
LEMMA SimpleStmtRewrites ==
  ASSUME Typed, SimpleStmt
  PROVE  Rewrites
<1> USE DEF Typed
<1>1. CASE \/ BeginExpressionStmt \/ EndExpressionStmt \/ (\E x \in Names : BeginAssign(x))
           \/ BeginReturn \/ BeginRequire
  <2>1. code' = code /\ pool' = pool
    BY <1>1 DEF BeginExpressionStmt, EndExpressionStmt, BeginAssign, BeginReturn, BeginRequire
  <2> QED
    BY <2>1, PoolKept, NothingEmitted
<1>2. ASSUME NEW x \in Names, NEW isConst \in BOOLEAN, BeginVarDecl(x, isConst)
      PROVE  Rewrites
  <2>1. CASE code' = code /\ pool' = pool
    BY <2>1, PoolKept, NothingEmitted
  <2>2. CASE AddConst(Message) /\ Emit(<<Const(Message), Op("ERR")>>)
    BY <2>2, EmitsConstAndOp DEF PlainOps
  <2> QED
    BY <1>2, <2>1, <2>2 DEF BeginVarDecl
<1>3. CASE EndVarDecl
  <2>1. nextSlot % Byte \in Nat
    BY Limits, Modulo DEF ScopeTyped
  <2> QED
    BY <1>3, <2>1, PoolKept, EmitsOp DEF EndVarDecl, PlainOps
<1>4. ASSUME NEW x \in Names, AssignConstant(x)
      PROVE  Rewrites
  BY <1>4, EmitsConstAndOp DEF AssignConstant, PlainOps
<1>5. CASE EndAssign
  <2>1. expr.slot \in Nat
    BY DEF ExprOK, Exprs
  <2>2. expr.slot % Byte \in Nat
    BY <2>1, Limits, Modulo
  <2> QED
    BY <1>5, <2>2, PoolKept, EmitsOp DEF EndAssign, PlainOps
<1>6. CASE BeginMemberAssign
  <2>1. PoolGrows /\ Fits(Const(Key), Pos + 1) /\ Fits(Const(Key), Pos + 2)
    BY <1>6, ConstFits DEF BeginMemberAssign
  <2>2. ASSUME NEW a \in Nat, Emit(<<Instr("SLOAD", a, 0), Const(Key)>>)
        PROVE  Rewrites
    BY <2>1, <2>2, PlainFits, EmitsTwo DEF PlainOps
  <2>3. CASE Emit(<<Const(Key)>>)
    BY <2>1, <2>3, EmitsOne
  <2>4. ASSUME NEW x \in Names, Emit(<<Instr("SLOAD", Lookup(symbols, x, 0) % Byte, 0), Const(Key)>>)
        PROVE  Rewrites
    BY <2>2, <2>4, SlotIsNat
  <2> QED
    BY <1>6, <2>2, <2>3, <2>4 DEF BeginMemberAssign
<1>7. ASSUME NEW x \in Names, BeginObject(x)
      PROVE  Rewrites
  BY <1>7, PoolKept, EmitsOp DEF BeginObject, PlainOps, Op
<1>8. CASE BeginField
  BY <1>8, EmitsConst DEF BeginField
<1>9. CASE EndField \/ EndEmit
  BY <1>9, PoolKept, EmitsOp DEF EndField, EndEmit, PlainOps, Op
<1>10. CASE EndObject
  <2>1. open # <<>>
    BY <1>10 DEF EndObject, Inside
  <2>2. Inner \in Statements
    BY <2>1, FrontProperties DEF Inner, OpenOK
  <2>3. Inner.slot \in Nat
    BY <2>2 DEF Statements
  <2>4. Inner.slot % Byte \in Nat
    BY <2>3, Limits, Modulo
  <2>5. Fits(Instr("STORE", Inner.slot % Byte, 0), Pos + 2)
    BY <2>4, PlainFits DEF PlainOps
  <2> QED
    BY <1>10, <2>5, PoolKept, EmitsTwo DEF EndObject
<1>11. CASE EndReturn \/ EmptyReturn
  <2>1. PICK op \in PlainOps : Emit(<<Instr(op, 0, 0)>>)
    BY <1>11 DEF EndReturn, EmptyReturn, ReturnCode, PlainOps, Op
  <2> QED
    BY <1>11, <2>1, PoolKept, EmitsOp DEF EndReturn, EmptyReturn
<1>12. CASE BeginEmit
  <2>1. PICK i \in Labels(EventName) : Labelled(EventName, i) /\ Emit(<<i>>)
    BY <1>12 DEF BeginEmit
  <2>2. PoolGrows /\ Fits(i, Pos + 1)
    BY <2>1, LabelFits
  <2> QED
    BY <2>1, <2>2, EmitsOne
<1>13. CASE EndRequire
  <2>0. PICK i \in Labels(Message) : Labelled(Message, i) /\ Emit(RequireEnd(i))
    BY <1>13 DEF EndRequire
  <2>1. PoolGrows /\ Fits(i, Pos + 4)
    BY <2>0, LabelFits
  <2>2. Pos \in Nat /\ 0 \in 0..(Byte - 1)
    BY LenProperties, Limits DEF CodeOK, Pos
  <2>3. Pos + 2 \in Nat /\ Pos + 4 \in Nat /\ Pos + 2 <= Pos + 4
    BY <2>2
  <2>4. Fits(Instr("JMP_IF", Pos + 2, 0), Pos + 4) /\ Fits(Instr("JMP", Pos + 4, 0), Pos + 4)
    BY <2>2, <2>3, JumpFits DEF Jumps
  <2>5. Fits(Op("ERR"), Pos + 4)
    BY PlainFits DEF Op, PlainOps
  <2> QED
    BY <2>0, <2>1, <2>4, <2>5, EmitsFour DEF RequireEnd
<1> QED
  BY <1>1, <1>2, <1>3, <1>4, <1>5, <1>6, <1>7, <1>8, <1>9, <1>10, <1>11, <1>12, <1>13
     DEF SimpleStmt

\* A jump that is given its target.
LEMMA Patching ==
  ASSUME NEW c \in Seq(Emitted), NEW p \in Nat, NEW t \in Nat
  PROVE  /\ Patched(c, p, t) \in Seq(Emitted)
         /\ Len(Patched(c, p, t)) = Len(c)
         /\ \A i \in 1..Len(c) :
              /\ Patched(c, p, t)[i].op = c[i].op
              /\ i # p + 1 => Patched(c, p, t)[i] = c[i]
              /\ i = p + 1 => Patched(c, p, t)[i].a = t
<1>1. Len(c) \in Nat /\ DOMAIN c = 1..Len(c) /\ c \in [1..Len(c) -> Emitted]
  BY LenProperties
<1>2. CASE p + 1 \in 1..Len(c)
  <2> DEFINE e == [c[p + 1] EXCEPT !.a = t]
  <2>1. e \in Emitted /\ e.op = c[p + 1].op /\ e.a = t
    BY <1>1, <1>2 DEF Emitted
  <2>2. Patched(c, p, t) = [c EXCEPT ![p + 1] = e]
    BY DEF Patched
  <2> HIDE DEF e
  <2> QED
    BY <1>2, <2>1, <2>2, ExceptSeq
<1>3. CASE p + 1 \notin 1..Len(c)
  <2>1. Patched(c, p, t) = c
    BY <1>1, <1>3 DEF Patched
  <2> QED
    BY <1>1, <1>3, <2>1
<1> QED
  BY <1>2, <1>3

(***************************************************************************)
(* The code while a construct is closed, between the jumps it appends and  *)
(* the ones it patches.                                                    *)
(***************************************************************************)
Rewritten(c) ==
  /\ c \in Seq(Emitted) /\ Pos <= Len(c)
  /\ \A i \in 1..Len(c) : InRange(c[i], Len(c), Len(pool))
  /\ \A i \in 1..Pos : c[i].op = code[i].op
  /\ \A i \in 1..Len(c) : c[i].op = "CALL" => i <= Pos /\ c[i] = code[i]

LEMMA RewrittenStart ==
  ASSUME CodeOK
  PROVE  Rewritten(code)
BY LenProperties DEF CodeOK, Rewritten, Pos

LEMMA RewrittenAppend ==
  ASSUME CodeOK, NEW c, Rewritten(c), NEW x \in Emitted, x.op # "CALL", x.op # "CONST",
         x.op \in Branches => x.a <= Len(c) + 1
  PROVE  Rewritten(Append(c, x)) /\ Len(Append(c, x)) = Len(c) + 1
<1> DEFINE d == Append(c, x)
<1>1. Pos \in Nat /\ Len(c) \in Nat /\ c \in Seq(Emitted) /\ Pos <= Len(c) /\ Len(pool) \in Nat
  BY LenProperties DEF CodeOK, Rewritten, Pos
<1>2. /\ d \in Seq(Emitted) /\ Len(d) = Len(c) + 1 /\ d[Len(c) + 1] = x
      /\ \A i \in 1..Len(c) : d[i] = c[i]
  BY <1>1, AppendedProperties
<1> HIDE DEF d
<1>3. \A i \in 1..Len(c) : InRange(d[i], Len(c) + 1, Len(pool))
  <2>1. \A i \in Emitted : InRange(i, Len(c), Len(pool)) => InRange(i, Len(c) + 1, Len(pool))
    BY <1>1, InRangeGrows
  <2>2. \A i \in 1..Len(c) : c[i] \in Emitted /\ InRange(c[i], Len(c), Len(pool))
    BY <1>1, ElementOfSeq DEF Rewritten
  <2> QED
    BY <1>2, <2>1, <2>2
<1>4. InRange(x, Len(c) + 1, Len(pool))
  BY DEF InRange
<1>5. \A i \in 1..(Len(c) + 1) : i \in 1..Len(c) \/ i = Len(c) + 1
  BY <1>1
<1>6. \A i \in 1..Pos : i \in 1..Len(c)
  BY <1>1
<1>7. \A i \in 1..Pos : d[i].op = code[i].op
  BY <1>2, <1>6 DEF Rewritten
<1>8. \A i \in 1..Len(d) : d[i].op = "CALL" => i <= Pos /\ d[i] = code[i]
  BY <1>2, <1>5 DEF Rewritten
<1>9. \A i \in 1..Len(d) : InRange(d[i], Len(d), Len(pool))
  BY <1>2, <1>3, <1>4, <1>5
<1>10. Rewritten(d)
  BY <1>1, <1>2, <1>7, <1>8, <1>9 DEF Rewritten
<1> QED
  BY <1>2, <1>10 DEF d

LEMMA RewrittenPatch ==
  ASSUME CodeOK, NEW c, Rewritten(c), NEW p \in Nat, HoleAt(code, p), NEW t \in Nat, t <= Len(c)
  PROVE  Rewritten(Patched(c, p, t)) /\ Len(Patched(c, p, t)) = Len(c)
<1> DEFINE d == Patched(c, p, t)
<1>1. Pos \in Nat /\ Len(c) \in Nat /\ c \in Seq(Emitted) /\ Pos <= Len(c)
  BY LenProperties DEF CodeOK, Rewritten, Pos
<1>2. /\ d \in Seq(Emitted) /\ Len(d) = Len(c)
      /\ \A i \in 1..Len(c) : /\ d[i].op = c[i].op
                              /\ i # p + 1 => d[i] = c[i]
                              /\ i = p + 1 => d[i].a = t
  BY <1>1, Patching
<1> HIDE DEF d
<1>3. p + 1 \in 1..Pos /\ code[p + 1].op \in Jumps
  BY <1>1 DEF HoleAt, Pos
<1>4. c[p + 1].op \in Jumps /\ p + 1 \in 1..Len(c)
  BY <1>1, <1>3 DEF Rewritten
<1>5. d[p + 1].op \in Jumps /\ d[p + 1].a = t
  BY <1>2, <1>4
<1>6. InRange(d[p + 1], Len(c), Len(pool))
  BY <1>5 DEF InRange, Jumps
<1>7. \A i \in 1..Len(c) : InRange(d[i], Len(c), Len(pool))
  BY <1>2, <1>6 DEF Rewritten
<1>8. \A i \in 1..Pos : i \in 1..Len(c)
  BY <1>1
<1>9. \A i \in 1..Pos : d[i].op = code[i].op
  BY <1>2, <1>8 DEF Rewritten
<1>10. \A i \in 1..Len(c) : d[i].op = "CALL" => i <= Pos /\ d[i] = code[i]
  BY <1>2, <1>5 DEF Rewritten, Jumps
<1>11. Rewritten(d)
  BY <1>1, <1>2, <1>7, <1>9, <1>10 DEF Rewritten
<1> QED
  BY <1>2, <1>11 DEF d

LEMMA RewrittenRewrites ==
  ASSUME CodeOK, UNCHANGED pool, Rewritten(code')
  PROVE  Rewrites
<1>1. PoolGrows
  BY PoolKept
<1>2. Pos' = Len(code') /\ Len(pool') = Len(pool)
  BY DEF Pos
<1> QED
  BY <1>1, <1>2 DEF Rewritten, Extends, Rewrites

\* The innermost open statement.
LEMMA InnerIsPlaced ==
  ASSUME OpenOK, open # <<>>
  PROVE  /\ Len(open) \in Nat \ {0}
         /\ Inner = open[Len(open)]
         /\ Inner \in Statements /\ Placed(code, Inner)
<1>1. /\ Len(open) \in Nat \ {0} /\ Inner = open[Len(open)] /\ Inner \in Statements
  BY FrontProperties DEF OpenOK, Inner
<1>2. Len(open) \in 1..Len(open)
  BY <1>1
<1> QED
  BY <1>1, <1>2 DEF OpenOK

\* The jump an entered construct begins with waits for its target.
LEMMA EmitsHole ==
  ASSUME Typed, UNCHANGED pool, NEW op \in Jumps, NEW b \in 0..(Byte - 1),
         Emit(<<Instr(op, 0, b)>>)
  PROVE  Rewrites
<1>1. Pos + 1 \in Nat /\ 0 <= Pos + 1
  BY LenProperties DEF Typed, CodeOK, Pos
<1>2. PoolGrows /\ Fits(Instr(op, 0, b), Pos + 1)
  BY <1>1, JumpFits, PoolKept DEF Typed
<1> QED
  BY <1>2, EmitsOne DEF Typed

LEMMA ConstructRewrites ==
  ASSUME Typed, Construct
  PROVE  Rewrites
<1> USE DEF Typed
<1>1. Pos \in Nat /\ 0 \in 0..(Byte - 1) /\ {"JMP", "JMP_IF", "TRY"} = Jumps
  BY LenProperties, Limits DEF CodeOK, Pos, Jumps
<1>2. ASSUME NEW f \in Funcs, EnterFunc(f)
      PROVE  Rewrites
  BY <1>1, <1>2, EmitsHole DEF EnterFunc, Hole
<1>3. CASE LeaveFunc
  <2>1. Inner.kind = "func" /\ Inner \in Statements /\ Placed(code, Inner)
    BY <1>3, InnerIsPlaced DEF LeaveFunc, Inside
  <2>2. Inner.p \in Nat /\ HoleAt(code, Inner.p)
    BY <2>1 DEF Placed, Statements, Pos
  <2>3. Op("RET") \in Emitted /\ Op("RET").op = "RET"
    BY <1>1 DEF Op, Instr, Emitted, PlainOps
  <2>4. Rewritten(Append(code, Op("RET"))) /\ Len(Append(code, Op("RET"))) = Pos + 1
    BY <2>3, RewrittenStart, RewrittenAppend DEF Branches, Pos
  <2>5. Pos + 1 \in Nat /\ Pos + 1 <= Pos + 1
    BY <1>1
  <2>6. Rewritten(FuncEnd)
    BY <2>2, <2>4, <2>5, RewrittenPatch DEF FuncEnd
  <2> QED
    BY <1>3, <2>6, RewrittenRewrites DEF LeaveFunc
<1>4. CASE BeginIf \/ BeginWhile \/ BeginFor \/ BeginForCondition \/ EnterForPost
  <2>1. code' = code /\ pool' = pool
    BY <1>4 DEF BeginIf, BeginWhile, BeginFor, BeginForCondition, EnterForPost
  <2> QED
    BY <2>1, PoolKept, NothingEmitted
<1>5. CASE EnterThen \/ EnterWhile \/ EnterFor
  BY <1>1, <1>5, EmitsHole DEF EnterThen, EnterWhile, EnterFor, Hole
<1>6. CASE EnterElse
  BY <1>1, <1>6, EmitsHole DEF EnterElse, Hole
<1>7. CASE LeaveIf
  <2>1. Inner.kind \in {"then", "else"} /\ Inner \in Statements /\ Placed(code, Inner)
    BY <1>7, InnerIsPlaced DEF LeaveIf, Inside
  <2>2. /\ Inner.p \in Nat /\ HoleAt(code, Inner.p) /\ Inner.q \in Nat /\ Inner.r \in Nat
        /\ Inner.r <= Pos
        /\ Inner.kind = "else" => HoleAt(code, Inner.q)
    BY <2>1 DEF Placed, Statements, Pos
  <2>3. Rewritten(code) /\ Len(code) = Pos
    BY RewrittenStart DEF Pos
  <2>4. Rewritten(Patched(code, Inner.p, Pos))
    BY <1>1, <2>2, <2>3, RewrittenPatch
  <2>5. /\ Rewritten(Patched(code, Inner.p, Inner.r))
        /\ Len(Patched(code, Inner.p, Inner.r)) = Pos
    BY <1>1, <2>2, <2>3, RewrittenPatch
  <2>6. Inner.kind = "else" => Rewritten(Patched(Patched(code, Inner.p, Inner.r), Inner.q, Pos))
    BY <1>1, <2>2, <2>5, RewrittenPatch
  <2> QED
    BY <1>7, <2>1, <2>4, <2>6, RewrittenRewrites DEF LeaveIf
<1>8. ASSUME Inner \in Statements, Placed(code, Inner), NEW p \in Nat, p <= Pos, HoleAt(code, Inner.q),
             code' = Patched(Append(code, Instr("JMP", p, 0)), Inner.q, Pos + 1),
             UNCHANGED pool
      PROVE  Rewrites
  <2>1. Instr("JMP", p, 0) = [op |-> "JMP", a |-> p, b |-> 0]
    BY DEF Instr
  <2>2. /\ Instr("JMP", p, 0) \in Emitted /\ Instr("JMP", p, 0).op = "JMP"
        /\ Instr("JMP", p, 0).a <= Pos + 1
    BY <1>1, <1>8, <2>1 DEF Emitted, Jumps
  <2>3. Rewritten(Append(code, Instr("JMP", p, 0))) /\ Len(Append(code, Instr("JMP", p, 0))) = Pos + 1
    BY <2>2, RewrittenStart, RewrittenAppend DEF Pos
  <2>4. Pos + 1 \in Nat /\ Pos + 1 <= Pos + 1
    BY <1>1
  <2>5. Inner.q \in Nat
    BY <1>8 DEF Statements
  <2>6. Rewritten(code')
    BY <1>8, <2>3, <2>4, <2>5, RewrittenPatch
  <2> QED
    BY <1>8, <2>6, RewrittenRewrites
<1>9. CASE LeaveWhile
  <2>1. Inner.kind = "while" /\ Inner \in Statements /\ Placed(code, Inner)
    BY <1>9, InnerIsPlaced DEF LeaveWhile, Inside
  <2>2. Inner.p \in Nat /\ Inner.p <= Pos /\ HoleAt(code, Inner.q)
    BY <2>1 DEF Placed, Statements, Pos
  <2> QED
    BY <1>8, <1>9, <2>1, <2>2 DEF LeaveWhile, LoopEnd
<1>10. CASE LeaveFor
  <2>1. Inner.kind = "for_post" /\ Inner \in Statements /\ Placed(code, Inner)
    BY <1>10, InnerIsPlaced DEF LeaveFor, Inside
  <2>2. Inner.r \in Nat /\ Inner.r <= Pos /\ HoleAt(code, Inner.q)
    BY <2>1 DEF Placed, Statements, Pos
  <2> QED
    BY <1>8, <1>10, <2>1, <2>2 DEF LeaveFor
<1>11. CASE EnterTry
  <2>1. nextSlot % Byte \in 0..(Byte - 1)
    BY Limits, Modulo DEF ScopeTyped
  <2> QED
    BY <1>1, <1>11, <2>1, EmitsHole DEF EnterTry
<1>12. ASSUME NEW x \in Names, EnterCatch(x)
       PROVE  Rewrites
  <2>1. Pos + 2 \in Nat /\ 0 <= Pos + 2
    BY <1>1
  <2>2. Fits(Op("END_TRY"), Pos + 2) /\ Fits(Hole("JMP"), Pos + 2)
    BY <1>1, <2>1, PlainFits, JumpFits DEF Op, Hole, PlainOps
  <2> QED
    BY <1>12, <2>2, PoolKept, EmitsTwo DEF EnterCatch, TryEnd
<1>13. CASE LeaveCatch
  <2>1. Inner.kind = "catch" /\ Inner \in Statements /\ Placed(code, Inner)
    BY <1>13, InnerIsPlaced DEF LeaveCatch, Inside
  <2>2. /\ Inner.p \in Nat /\ HoleAt(code, Inner.p) /\ Inner.q \in Nat /\ HoleAt(code, Inner.q)
        /\ Inner.r \in Nat /\ Inner.r <= Pos
    BY <2>1 DEF Placed, Statements, Pos
  <2>3. Rewritten(code) /\ Len(code) = Pos
    BY RewrittenStart DEF Pos
  <2>4. /\ Rewritten(Patched(code, Inner.p, Inner.r))
        /\ Len(Patched(code, Inner.p, Inner.r)) = Pos
    BY <1>1, <2>2, <2>3, RewrittenPatch
  <2>5. Rewritten(CatchEnd)
    BY <1>1, <2>2, <2>4, RewrittenPatch DEF CatchEnd
  <2> QED
    BY <1>13, <2>5, RewrittenRewrites DEF LeaveCatch
<1> QED
  BY <1>2, <1>3, <1>4, <1>5, <1>6, <1>7, <1>9, <1>10, <1>11, <1>12, <1>13 DEF Construct

----------------------------------------------------------------------------
(* Types. *)

\* What stays true of positions while the code grows.
LEMMA PositionsKept ==
  ASSUME CodeOK, Extends
  PROVE  /\ Pos \in Nat /\ Pos' \in Nat /\ Pos <= Pos'
         /\ \A p \in Nat : p <= Pos => p <= Len(code')
         /\ \A p \in Nat : HoleAt(code, p) => HoleAt(code', p)
         /\ \A e \in Statements : Placed(code, e) => Placed(code', e)
<1>1. Pos \in Nat /\ Pos' \in Nat /\ Pos <= Pos'
  BY LenProperties DEF CodeOK, Extends, Pos
<1>0. \A p \in Nat : p <= Pos => p <= Len(code')
  BY <1>1 DEF Pos
<1>2. ASSUME NEW p \in Nat, HoleAt(code, p)
      PROVE  HoleAt(code', p)
  <2>1. p < Pos' /\ p + 1 \in 1..Pos
    BY <1>1, <1>2 DEF HoleAt, Pos
  <2>2. code'[p + 1].op = code[p + 1].op
    BY <2>1 DEF Extends
  <2> QED
    BY <1>2, <2>1, <2>2 DEF HoleAt, Pos
<1>3. ASSUME NEW e \in Statements, Placed(code, e)
      PROVE  Placed(code', e)
  <2>1. e.p \in Nat /\ e.q \in Nat /\ e.r \in Nat
    BY DEF Statements
  <2>2. e.p <= Pos' /\ e.q <= Pos' /\ e.r <= Pos'
    BY <1>1, <1>3, <2>1 DEF Placed, Pos
  <2> QED
    BY <1>2, <1>3, <2>1, <2>2 DEF Placed, Pos
<1> QED
  BY <1>0, <1>1, <1>2, <1>3

LEMMA CodeKept ==
  ASSUME CodeOK, Extends, UNCHANGED functions
  PROVE  CodeOK'
<1>1. Pos \in Nat /\ Pos' \in Nat /\ Pos <= Pos'
  BY PositionsKept
<1>2. \A f \in DOMAIN functions : f \in Funcs /\ functions[f].addr \in 1..Pos
  BY DEF CodeOK
<1>3. \A f \in DOMAIN functions' : f \in Funcs /\ functions'[f].addr \in 1..Pos'
  BY <1>1, <1>2
<1> QED
  BY <1>3 DEF CodeOK, Extends, PoolGrows

\* The four things a step may do to the open statements.
LEMMA OpenKept ==
  ASSUME CodeOK, OpenOK, Extends, UNCHANGED open
  PROVE  OpenOK'
<1>1. \A i \in 1..Len(open) : open[i] \in Statements /\ Placed(code, open[i])
  BY ElementOfSeq DEF OpenOK
<1> QED
  BY <1>1, PositionsKept DEF OpenOK

\* The fields of the record an entered construct is kept in.
\* The body of a for holds what its last clause will bring in (stmt.go:226).
LEMMA ForClause ==
  ASSUME EnterFor
  PROVE  \E post \in SUBSET Names :
           open' = [open EXCEPT ![Len(open)] =
                      [Inner EXCEPT !.kind = "for", !.p = expr.slot, !.q = Pos, !.start = visible,
                                    !.post = post]]
<1>1. PICK post \in {{}} \cup {{x} : x \in Names \ InScope} :
        open' = [open EXCEPT ![Len(open)] =
                   [Inner EXCEPT !.kind = "for", !.p = expr.slot, !.q = Pos, !.start = visible,
                                 !.post = post]]
  BY Zenon DEF EnterFor, Inner, Last
<1>2. post \in SUBSET Names
  OBVIOUS
<1> QED
  BY <1>1, <1>2

LEMMA OpenIsTyped ==
  ASSUME NEW kind \in OpenKinds, NEW p \in Nat
  PROVE  /\ Open(kind, p) \in Statements
         /\ Open(kind, p).kind = kind /\ Open(kind, p).p = p
         /\ Open(kind, p).q = 0 /\ Open(kind, p).r = 0
         /\ Open(kind, p).symbols = NoEntries /\ Open(kind, p).outer = {}
         /\ Open(kind, p).start = {}
<1>1. NoEntries \in Tables /\ {} \in SUBSET Names /\ "" \in NamesOrNone /\ FALSE \in BOOLEAN
  <2>1. NoEntries \in [{} -> Nat] /\ {} \in SUBSET Names
    BY DEF NoEntries
  <2> QED
    BY <2>1 DEF Tables, NamesOrNone
<1> QED
  BY <1>1 DEF Open, Statements

LEMMA OpenPushed ==
  ASSUME CodeOK, OpenOK, Extends, NEW e \in Statements, open' = Append(open, e),
         Placed(code', e)
  PROVE  OpenOK'
<1>1. /\ open' \in Seq(Statements) /\ Len(open) \in Nat /\ Len(open') = Len(open) + 1
      /\ \A i \in 1..Len(open) : open'[i] = open[i]
      /\ open'[Len(open) + 1] = e
  BY AppendedProperties, LenProperties DEF OpenOK
<1>2. \A i \in 1..Len(open) : open[i] \in Statements /\ Placed(code, open[i])
  BY ElementOfSeq DEF OpenOK
<1>3. \A i \in 1..Len(open) : Placed(code', open'[i])
  BY <1>1, <1>2, PositionsKept
<1>4. \A i \in 1..Len(open') : i \in 1..Len(open) \/ i = Len(open) + 1
  BY <1>1
<1> QED
  BY <1>1, <1>3, <1>4 DEF OpenOK

LEMMA OpenChanged ==
  ASSUME CodeOK, OpenOK, Extends, open # <<>>, NEW e \in Statements,
         open' = [open EXCEPT ![Len(open)] = e], Placed(code', e)
  PROVE  OpenOK'
<1>0. Len(open) \in Nat \ {0}
  BY EmptySeq DEF OpenOK
<1>1. /\ open' \in Seq(Statements) /\ Len(open') = Len(open)
      /\ \A i \in 1..(Len(open) - 1) : open'[i] = open[i]
      /\ open'[Len(open)] = e
  BY LastRewritten DEF OpenOK
<1>2. \A i \in 1..Len(open) : open[i] \in Statements /\ Placed(code, open[i])
  BY ElementOfSeq DEF OpenOK
<1>3. \A i \in 1..(Len(open) - 1) : i \in 1..Len(open)
  BY <1>0
<1>4. \A i \in 1..(Len(open) - 1) : Placed(code', open'[i])
  BY <1>1, <1>2, <1>3, PositionsKept
<1>5. \A i \in 1..Len(open') : i \in 1..(Len(open) - 1) \/ i = Len(open)
  BY LastRewritten DEF OpenOK
<1> QED
  BY <1>1, <1>4, <1>5 DEF OpenOK

LEMMA OpenPopped ==
  ASSUME CodeOK, OpenOK, Extends, open # <<>>, open' = Front(open)
  PROVE  OpenOK'
<1>1. /\ open' \in Seq(Statements) /\ Len(open) \in Nat \ {0} /\ Len(open') = Len(open) - 1
      /\ \A i \in 1..(Len(open) - 1) : open'[i] = open[i]
  BY FrontProperties DEF OpenOK
<1>2. \A i \in 1..Len(open) : open[i] \in Statements /\ Placed(code, open[i])
  BY ElementOfSeq DEF OpenOK
<1>3. \A i \in 1..(Len(open) - 1) : i \in 1..Len(open)
  BY <1>1
<1>4. \A i \in 1..(Len(open) - 1) : Placed(code', open'[i])
  BY <1>1, <1>2, <1>3, PositionsKept
<1> QED
  BY <1>1, <1>4 DEF OpenOK

\* What becomes of the expression.
LEMMA ExprIsTyped ==
  ASSUME NEW for \in Contexts, NEW name \in NamesOrNone, NEW slot \in Nat
  PROVE  /\ Expr(for, name, slot) \in Exprs
         /\ Expr(for, name, slot).for = for
         /\ Expr(for, name, slot).name = name
         /\ Expr(for, name, slot).slot = slot
BY DEF Expr, Exprs

LEMMA ExprStarted ==
  ASSUME NEW for \in Contexts, NEW name \in NamesOrNone, NEW slot \in Nat,
         expr' = Expr(for, name, slot),
         for \in {"while", "for"} => slot <= Pos',
         for \in {"variable", "assignment"} => name \in Names,
         for = "for" => Inside("for_init")'
  PROVE  ExprOK'
BY ExprIsTyped DEF ExprOK

LEMMA ExprEnded ==
  ASSUME expr' = NoExpr
  PROVE  ExprOK'
<1>1. NoExpr = Expr("nothing", "", 0) /\ "nothing" \in Contexts /\ "" \in NamesOrNone
  BY DEF NoExpr, Expr, Contexts, NamesOrNone
<1> QED
  BY <1>1, ExprStarted

LEMMA ExprGoesOn ==
  ASSUME CodeOK, Extends, ExprOK, NEW n \in Nat, Built(n) \/ UNCHANGED expr,
         InExpr => UNCHANGED open
  PROVE  ExprOK' /\ expr'.for = expr.for /\ expr'.name = expr.name /\ expr'.slot = expr.slot
<1>1. /\ expr' \in Exprs
      /\ expr'.for = expr.for /\ expr'.name = expr.name /\ expr'.slot = expr.slot
  <2>1. expr \in Exprs
    BY DEF ExprOK
  <2>2. CASE Built(n)
    <3>1. PICK d : d = expr.depth - n + 1
      OBVIOUS
    <3>2. expr' = [expr EXCEPT !.depth = d]
      BY <2>2, <3>1 DEF Built
    <3>3. expr.depth \in Int
      BY <2>1 DEF Exprs
    <3>4. d \in Int
      BY <3>1, <3>3
    <3> QED
      BY <2>1, <3>2, <3>4 DEF Exprs
  <2>3. CASE UNCHANGED expr
    BY <2>1, <2>3
  <2> QED
    BY <2>2, <2>3
<1>2. expr.slot \in Nat /\ Pos \in Nat /\ Pos' \in Nat /\ Pos <= Pos'
  BY PositionsKept DEF ExprOK, Exprs
<1>3. expr.for = "for" => Inside("for_init")'
  BY DEF ExprOK, InExpr, Inside, Inner
<1> QED
  BY <1>1, <1>2, <1>3 DEF ExprOK

LEMMA PutInTables ==
  ASSUME NEW m \in Tables, NEW x \in Names, NEW n \in Nat
  PROVE  Put(m, x, n) \in Tables
<1>1. PICK D \in SUBSET Names : m \in [D -> Nat]
  BY DEF Tables
<1>2. Put(m, x, n) \in [D \cup {x} -> Nat] /\ D \cup {x} \in SUBSET Names
  BY <1>1 DEF Put
<1> QED
  BY <1>2 DEF Tables

\* The compilation of a call, which alone emits a CALL.
LEMMA UserCallExtends ==
  ASSUME Typed, UserCall
  PROVE  /\ Extends
         /\ \E f \in Funcs :
              /\ f \in DOMAIN functions \/ "forward" \in class.exprs
              /\ Pos' = Pos + 1 /\ code'[Pos + 1].op = "CALL"
              /\ code'[Pos + 1].a = IF f \in DOMAIN functions THEN functions[f].addr ELSE 0
              /\ \A i \in 1..Pos : code'[i] = code[i]
<1>1. PICK f \in Funcs :
        /\ f \in DOMAIN functions \/ "forward" \in class.exprs
        /\ Emit(<<Instr("CALL", IF f \in DOMAIN functions THEN functions[f].addr ELSE 0, 0)>>)
  BY DEF UserCall
<1>2. PICK a : a = IF f \in DOMAIN functions THEN functions[f].addr ELSE 0
  OBVIOUS
<1>3. Pos \in Nat
  BY LenProperties DEF Typed, CodeOK, Pos
<1>4. a \in Nat /\ a <= Pos + 1
  BY <1>2, <1>3 DEF Typed, CodeOK
<1>5. PICK x : x = [op |-> "CALL", a |-> a, b |-> 0]
  OBVIOUS
<1>6. x \in Emitted /\ x.op = "CALL" /\ x.a = a
  BY <1>4, <1>5, Limits DEF Emitted
<1>7. code' = code \o <<x>> /\ PoolGrows /\ CodeOK
  BY <1>1, <1>2, <1>5, PoolKept DEF Emit, Instr, UserCall, Typed
<1>8. <<x>> \in Seq(Emitted) /\ Len(<<x>>) = 1 /\ <<x>>[1] = x
  BY <1>6, ShortSequences
<1>9. \A i \in 1..Len(<<x>>) : InRange(<<x>>[i], Pos + Len(<<x>>), Len(pool'))
  BY <1>4, <1>6, <1>8 DEF InRange
<1>10. /\ code' \in Seq(Emitted) /\ Pos' = Pos + Len(<<x>>) /\ Pos <= Pos'
       /\ \A i \in 1..Pos' : InRange(code'[i], Pos', Len(pool'))
       /\ \A i \in 1..Pos : code'[i] = code[i]
       /\ \A i \in 1..Pos' : i > Pos => code'[i] = <<x>>[i - Pos] /\ i - Pos \in 1..Len(<<x>>)
  BY <1>7, <1>8, <1>9, Emission
<1>11. Extends
  BY <1>7, <1>10 DEF Extends
<1>12. code'[Pos + 1] = x
  <2>1. Pos + 1 \in 1..Pos' /\ Pos + 1 > Pos /\ Pos + 1 - Pos = 1
    BY <1>3, <1>8, <1>10
  <2> QED
    BY <1>8, <1>10, <2>1
<1> QED
  BY <1>1, <1>2, <1>6, <1>8, <1>10, <1>11, <1>12

\* What becomes of the scope.
LEMMA NamesBound ==
  ASSUME ScopeTyped, NEW x \in Names
  PROVE  /\ NewName(x) \/ AllocSlot(x) => symbols' \in Tables /\ nextSlot' \in Nat \ {0}
         /\ Declared(x) => visible' \subseteq Names
<1>1. symbols \in Tables /\ nextSlot \in Nat \ {0} /\ visible \subseteq Names
  BY DEF ScopeTyped
<1>2. AllocSlot(x) => symbols' \in Tables /\ nextSlot' \in Nat \ {0}
  BY <1>1, PutInTables DEF AllocSlot
<1>3. NewName(x) => symbols' \in Tables /\ nextSlot' \in Nat \ {0}
  BY <1>1, <1>2 DEF NewName
<1>4. Declared(x) => visible' \subseteq Names
  BY <1>1 DEF Declared
<1> QED
  BY <1>2, <1>3, <1>4

LEMMA ComputesTyped ==
  ASSUME Typed, Computes
  PROVE  Typed'
<1>1. Extends
  BY ComputesRewrites DEF Typed, Rewrites
<1>2. PICK n \in Nat : Built(n)
  BY DEF Computes, Number, LargeNumber, Literal, Symbol, IncDec, Binary, Prefix, PrintCall,
         Operation, WithConstant, ArrayLiteral, ErrorExpr, Leaf
<1>3. UNCHANGED <<scope, decls, isInFunction, open, analysis, stage>>
  BY DEF Computes, Number, LargeNumber, Literal, Symbol, IncDec, Binary, Prefix, PrintCall,
         Operation, WithConstant, ArrayLiteral, ErrorExpr
<1>4. ExprOK'
  BY <1>1, <1>2, <1>3, ExprGoesOn DEF Typed
<1>5. CodeOK' /\ OpenOK'
  BY <1>1, <1>3, CodeKept, OpenKept DEF Typed, decls
<1>6. ScopeTyped'
  BY <1>3 DEF Typed, ScopeTyped, scope, analysis
<1> QED
  BY <1>3, <1>4, <1>5, <1>6 DEF Typed

LEMMA UserCallTyped ==
  ASSUME Typed, UserCall
  PROVE  Typed'
<1>1. Extends
  BY UserCallExtends
<1>2. PICK f \in Funcs : Built(Len(Params[f])) /\ (called' = called \cup {f} \/ called' = called)
  BY DEF UserCall
<1>3. Len(Params[f]) \in Nat
  BY CompilerAssumption, LenProperties
<1>4. UNCHANGED <<scope, decls, isInFunction, open, visible, stage>>
  BY DEF UserCall
<1>5. ExprOK'
  BY <1>1, <1>2, <1>3, <1>4, ExprGoesOn DEF Typed
<1>6. CodeOK' /\ OpenOK'
  BY <1>1, <1>4, CodeKept, OpenKept DEF Typed, decls
<1>7. ScopeTyped'
  BY <1>2, <1>4 DEF Typed, ScopeTyped, scope
<1> QED
  BY <1>4, <1>5, <1>6, <1>7 DEF Typed

LEMMA SimpleStmtTyped ==
  ASSUME Typed, SimpleStmt
  PROVE  Typed'
<1>1. Extends
  BY SimpleStmtRewrites DEF Rewrites
<1>2. UNCHANGED <<decls, isInFunction, called, stage>>
  BY DEF SimpleStmt, BeginExpressionStmt, EndExpressionStmt, BeginVarDecl, EndVarDecl,
         AssignConstant, BeginAssign, BeginObject, EndAssign, BeginMemberAssign, BeginField,
         EndField, EndObject, BeginReturn, EndReturn, EmptyReturn, BeginEmit, EndEmit,
         BeginRequire, EndRequire, analysis
<1>3. CodeOK'
  BY <1>1, <1>2, CodeKept DEF Typed, decls
<1>4. CodeOK /\ OpenOK /\ ScopeTyped /\ ExprOK /\ "" \in NamesOrNone
  BY DEF Typed, NamesOrNone
<1>6. ScopeTyped'
  <2>1. CASE EndVarDecl
    <3>1. expr.name \in Names
      BY <1>4, <2>1 DEF EndVarDecl, Ends, ExprOK
    <3> QED
      BY <1>2, <1>4, <2>1, <3>1, NamesBound DEF EndVarDecl, ScopeTyped
  <2>2. CASE EndAssign
    <3>1. expr.name \in Names
      BY <1>4, <2>2 DEF EndAssign, Ends, ExprOK
    <3> QED
      BY <1>2, <1>4, <2>2, <3>1, NamesBound DEF EndAssign, ScopeTyped, scope
  <2>3. CASE EndObject
    <3>1. Inner.name \in Names
      BY <1>4, <2>3, InnerIsPlaced DEF EndObject, Inside, Placed
    <3> QED
      BY <1>2, <1>4, <2>3, <3>1, NamesBound DEF EndObject, ScopeTyped, scope
  <2>4. ASSUME NEW x \in Names, BeginAssign(x) \/ BeginObject(x)
        PROVE  ScopeTyped'
    BY <1>2, <1>4, <2>4, NamesBound DEF BeginAssign, BeginObject, ScopeTyped, analysis
  <2>5. ASSUME NEW x \in Names, AssignConstant(x)
        PROVE  ScopeTyped'
    BY <1>2, <1>4, <2>5, NamesBound DEF AssignConstant, ScopeTyped, scope
  <2>6. ASSUME NEW x \in Names, NEW isConst \in BOOLEAN, BeginVarDecl(x, isConst)
        PROVE  ScopeTyped'
    BY <1>2, <1>4, <2>6 DEF BeginVarDecl, ScopeTyped, analysis
  <2>7. CASE UNCHANGED <<scope, analysis>>
    BY <1>2, <1>4, <2>7 DEF ScopeTyped, scope, analysis
  <2> QED
    BY <2>1, <2>2, <2>3, <2>4, <2>5, <2>6, <2>7
       DEF SimpleStmt, BeginExpressionStmt, EndExpressionStmt, BeginMemberAssign, BeginField,
           EndField, BeginReturn, EndReturn, EmptyReturn, BeginEmit, EndEmit, BeginRequire,
           EndRequire
<1>7. ExprOK'
  <2>1. ASSUME NEW x \in Names, BeginAssign(x)
        PROVE  ExprOK'
    BY <1>4, <2>1, SlotIsNat, ExprStarted DEF BeginAssign, Contexts, NamesOrNone
  <2>2. ASSUME NEW x \in Names, NEW isConst \in BOOLEAN, BeginVarDecl(x, isConst)
        PROVE  ExprOK'
    BY <2>2, ExprStarted DEF BeginVarDecl, Contexts, NamesOrNone
  <2>3. CASE \E for \in {"statement", "field", "return", "event", "condition"} :
               expr' = Expr(for, "", 0)
    BY <1>4, <2>3, ExprStarted DEF Contexts
  <2>4. CASE expr' = NoExpr
    BY <2>4, ExprEnded
  <2>5. CASE UNCHANGED expr /\ ~InExpr
    BY <1>1, <1>4, <2>5, ExprGoesOn
  <2> QED
    BY <2>1, <2>2, <2>3, <2>4, <2>5
       DEF SimpleStmt, BeginExpressionStmt, EndExpressionStmt, EndVarDecl, AssignConstant,
           BeginObject, EndAssign, BeginMemberAssign, BeginField, EndField, EndObject,
           BeginReturn, EndReturn, EmptyReturn, BeginEmit, EndEmit, BeginRequire, EndRequire,
           Begins
<1>8. OpenOK'
  <2>1. CASE EndObject
    BY <1>1, <1>4, <2>1, OpenPopped DEF EndObject, Inside
  <2>2. ASSUME NEW x \in Names, BeginObject(x)
        PROVE  OpenOK'
    <3>1. PICK o : o = Open("object", Pos)
      OBVIOUS
    <3>2. PICK e : e = [o EXCEPT !.slot = GetSlot(x), !.name = x]
      OBVIOUS
    <3>3. open' = Append(open, e)
      BY <2>2, <3>1, <3>2 DEF BeginObject
    <3>4. GetSlot(x) \in Nat /\ x \in NamesOrNone
      BY <1>4, SlotIsNat DEF NamesOrNone
    <3>5. o \in Statements /\ o.kind = "object" /\ o.p = Pos /\ o.q = 0 /\ o.r = 0
      BY <1>1, <1>4, <3>1, OpenIsTyped, PositionsKept DEF OpenKinds
    <3>6. e \in Statements /\ e.kind = "object" /\ e.name = x /\ e.p = Pos /\ e.q = 0 /\ e.r = 0
      BY <3>2, <3>4, <3>5 DEF Statements
    <3>7. Placed(code', e)
      <4>1. Pos \in Nat /\ \A p \in Nat : p <= Pos => p <= Len(code')
        BY <1>1, <1>4, PositionsKept
      <4>2. e.p <= Len(code') /\ e.q <= Len(code') /\ e.r <= Len(code')
        BY <3>6, <4>1
      <4> QED
        BY <3>6, <4>2 DEF Placed
    <3> QED
      BY <1>1, <1>4, <3>3, <3>6, <3>7, OpenPushed
  <2>3. CASE UNCHANGED open
    BY <1>1, <1>4, <2>3, OpenKept
  <2> QED
    BY <2>1, <2>2, <2>3
       DEF SimpleStmt, BeginExpressionStmt, EndExpressionStmt, BeginVarDecl, EndVarDecl,
           AssignConstant, BeginAssign, EndAssign, BeginMemberAssign, BeginField, EndField,
           BeginReturn, EndReturn, EmptyReturn, BeginEmit, EndEmit, BeginRequire, EndRequire
<1> QED
  BY <1>2, <1>3, <1>6, <1>7, <1>8 DEF Typed

\* The parameters of a function are bound to the slots after nextSlot, in order.
LEMMA ParamsBound ==
  ASSUME ScopeTyped, NEW f \in Funcs
  PROVE  /\ Len(Params[f]) \in Nat
         /\ Range(Params[f]) \subseteq Names
         /\ WithParams(f) \in Tables
         /\ DOMAIN WithParams(f) = DOMAIN symbols \cup Range(Params[f])
         /\ \A x \in DOMAIN symbols \ Range(Params[f]) : WithParams(f)[x] = symbols[x]
         /\ \A x \in Range(Params[f]) :
              \E i \in 1..Len(Params[f]) :
                Params[f][i] = x /\ WithParams(f)[x] = nextSlot - 1 + i
<1>1. Params[f] \in Seq(Names)
  BY CompilerAssumption
<1>2. /\ Len(Params[f]) \in Nat /\ DOMAIN Params[f] = 1..Len(Params[f])
      /\ \A i \in 1..Len(Params[f]) : Params[f][i] \in Names
  BY <1>1, LenProperties, ElementOfSeq
<1>3. Range(Params[f]) \subseteq Names
  BY <1>2 DEF Range
<1>4. symbols \in Tables /\ nextSlot \in Nat \ {0}
  BY DEF ScopeTyped
<1>5. DOMAIN symbols \subseteq Names /\ \A x \in DOMAIN symbols : symbols[x] \in Nat
  BY <1>4 DEF Tables
<1>6. ASSUME NEW x \in Range(Params[f])
      PROVE  \E i \in 1..Len(Params[f]) :
               Params[f][i] = x /\ WithParams(f)[x] = nextSlot - 1 + i
  <2> DEFINE T == {i \in 1..Len(Params[f]) : Params[f][i] = x}
             P(i) == i \in DOMAIN Params[f] /\ Params[f][i] = x
                       /\ \A j \in DOMAIN Params[f] : Params[f][j] = x => j <= i
  <2>1. T \subseteq 1..Len(Params[f]) /\ T # {}
    BY <1>2, <1>6 DEF Range
  <2>2. PICK i \in T : \A j \in T : j <= i
    BY <1>2, <2>1, LastPosition
  <2>3. P(i)
    BY <1>2, <2>2
  <2>4. PICK k : k = CHOOSE j : P(j)
    OBVIOUS
  <2>5. P(k)
    BY <2>3, <2>4
  <2>6. WithParams(f)[x] = nextSlot - 1 + k
    BY <1>6, <2>4 DEF WithParams
  <2> QED
    BY <1>2, <2>5, <2>6
<1>7. \A x \in Range(Params[f]) : WithParams(f)[x] \in Nat
  BY <1>2, <1>4, <1>6
<1>8. /\ DOMAIN WithParams(f) = DOMAIN symbols \cup Range(Params[f])
      /\ \A x \in DOMAIN symbols \ Range(Params[f]) : WithParams(f)[x] = symbols[x]
  BY DEF WithParams
<1>9. \A x \in DOMAIN WithParams(f) : WithParams(f)[x] \in Nat
  BY <1>5, <1>7, <1>8
<1>10. WithParams(f) \in [DOMAIN WithParams(f) -> Nat]
  BY <1>9 DEF WithParams
<1>11. DOMAIN WithParams(f) \in SUBSET Names
  BY <1>3, <1>5, <1>8
<1>12. WithParams(f) \in Tables
  BY <1>10, <1>11 DEF Tables
<1> QED
  BY <1>2, <1>3, <1>6, <1>8, <1>12

\* Where the jump a construct begins with stands.
LEMMA HoleAppended ==
  ASSUME CodeOK, PoolGrows, NEW x \in Emitted, x.op \in Jumps, Emit(<<x>>)
  PROVE  Pos' = Pos + 1 /\ HoleAt(code', Pos) /\ Pos \in Nat
<1>1. code \in Seq(Emitted) /\ <<x>> \in Seq(Emitted) /\ Len(<<x>>) = 1 /\ <<x>>[1] = x
  BY ShortSequences DEF CodeOK
<1>2. Len(code) \in Nat
  BY <1>1, LenProperties
<1>3. code' = code \o <<x>>
  BY DEF Emit
<1>4. /\ Len(code') = Len(code) + 1
      /\ \A i \in 1..Len(code') : i > Len(code) => code'[i] = <<x>>[i - Len(code)]
  BY <1>1, <1>3, ExtendedProperties
<1>5. /\ Len(code) + 1 \in 1..Len(code') /\ Len(code) + 1 > Len(code)
      /\ Len(code) + 1 - Len(code) = 1
  BY <1>2, <1>4
<1>6. code'[Len(code) + 1] = x
  BY <1>1, <1>4, <1>5
<1> QED
  BY <1>2, <1>4, <1>6 DEF HoleAt, Pos

LEMMA HoleIsEmitted ==
  ASSUME NEW op \in Jumps, NEW b \in 0..(Byte - 1)
  PROVE  Instr(op, 0, b) \in Emitted /\ Instr(op, 0, b).op = op
BY DEF Instr, Emitted

\* try: the jump over the handler follows END_TRY.
LEMMA TryClosed ==
  ASSUME CodeOK, PoolGrows, Emit(TryEnd)
  PROVE  /\ Pos' = Pos + 2 /\ HoleAt(code', Pos + 1) /\ Pos \in Nat
         /\ Pos + Len(TryEnd) - 1 = Pos + 1 /\ Pos + Len(TryEnd) = Pos + 2
<1>1. PICK x, y : x = Op("END_TRY") /\ y = Hole("JMP")
  OBVIOUS
<1>2. x \in Emitted /\ y \in Emitted /\ y.op \in Jumps
  BY <1>1, Limits DEF Op, Hole, Instr, Emitted, PlainOps, Jumps
<1>3. code \in Seq(Emitted) /\ <<x, y>> \in Seq(Emitted) /\ Len(<<x, y>>) = 2 /\ <<x, y>>[2] = y
  BY <1>2, ShortSequences DEF CodeOK
<1>4. Len(code) \in Nat
  BY <1>3, LenProperties
<1>5. TryEnd = <<x, y>> /\ code' = code \o <<x, y>>
  BY <1>1 DEF TryEnd, Emit
<1>6. /\ Len(code') = Len(code) + 2
      /\ \A i \in 1..Len(code') : i > Len(code) => code'[i] = <<x, y>>[i - Len(code)]
  BY <1>3, <1>5, ExtendedProperties
<1>7. /\ Len(code) + 1 + 1 \in 1..Len(code') /\ Len(code) + 1 + 1 > Len(code)
      /\ Len(code) + 1 + 1 - Len(code) = 2
  BY <1>4, <1>6
<1>8. code'[Len(code) + 1 + 1] = y
  BY <1>3, <1>6, <1>7
<1> QED
  BY <1>2, <1>3, <1>4, <1>5, <1>6, <1>8 DEF HoleAt, Pos

LEMMA TablesRestored ==
  ASSUME ScopeTyped, OpenOK, open # <<>>
  PROVE  /\ Inner.symbols \in Tables /\ WithoutCatchVar \in Tables
         /\ \A x : [y \in DOMAIN symbols \cap {x} |-> symbols[y]] \in Tables
<1>1. symbols \in Tables /\ Inner.symbols \in Tables
  BY InnerIsPlaced DEF ScopeTyped, Statements
<1>2. /\ DOMAIN symbols \subseteq Names /\ \A y \in DOMAIN symbols : symbols[y] \in Nat
      /\ DOMAIN Inner.symbols \subseteq Names
      /\ \A y \in DOMAIN Inner.symbols : Inner.symbols[y] \in Nat
  BY <1>1 DEF Tables
<1>3. ASSUME NEW x
      PROVE  [y \in DOMAIN symbols \cap {x} |-> symbols[y]] \in Tables
  <2>1. /\ [y \in DOMAIN symbols \cap {x} |-> symbols[y]] \in [DOMAIN symbols \cap {x} -> Nat]
        /\ DOMAIN symbols \cap {x} \in SUBSET Names
    BY <1>2
  <2> QED
    BY <2>1 DEF Tables
<1>4. WithoutCatchVar \in Tables
  <2> DEFINE D == (DOMAIN symbols \ {Inner.name}) \cup DOMAIN Inner.symbols
  <2>1. WithoutCatchVar \in [D -> Nat] /\ D \in SUBSET Names
    BY <1>2 DEF WithoutCatchVar
  <2> QED
    BY <2>1 DEF Tables
<1> QED
  BY <1>1, <1>3, <1>4

\* Entering a construct: its record is pushed, and its jump waits for a target.
LEMMA EnterFuncTyped ==
  ASSUME Typed, NEW f \in Funcs, EnterFunc(f), Extends
  PROVE  Typed'
<1>1. CodeOK /\ OpenOK /\ ScopeTyped /\ ExprOK /\ PoolGrows
  BY DEF Typed, Extends
<1>2. Pos' = Pos + 1 /\ HoleAt(code', Pos) /\ Pos \in Nat
  <2>1. Hole("JMP") \in Emitted /\ Hole("JMP").op \in Jumps /\ Emit(<<Hole("JMP")>>)
    BY HoleIsEmitted, Limits DEF Hole, Jumps, EnterFunc
  <2> QED
    BY <1>1, <2>1, HoleAppended
<1>3. OpenOK'
  <2>1. PICK o : o = Open("func", Pos)
    OBVIOUS
  <2>2. PICK e : e = [o EXCEPT !.symbols = symbols, !.constants = constants,
                               !.inFunction = isInFunction]
    OBVIOUS
  <2>3. o \in Statements /\ o.kind = "func" /\ o.p = Pos /\ o.q = 0 /\ o.r = 0
    BY <1>2, <2>1, OpenIsTyped DEF OpenKinds
  <2>4. symbols \in Tables /\ constants \in SUBSET Names /\ isInFunction \in BOOLEAN
    BY <1>1 DEF ScopeTyped
  <2>5. e \in Statements /\ e.kind = "func" /\ e.p = Pos /\ e.q = 0 /\ e.r = 0
    BY <2>2, <2>3, <2>4 DEF Statements
  <2>6. Pos <= Len(code') /\ 0 <= Len(code')
    BY <1>2 DEF Pos
  <2>7. Placed(code', e)
    BY <1>2, <2>5, <2>6 DEF Placed
  <2> QED
    BY <1>1, <2>1, <2>2, <2>5, <2>7, OpenPushed DEF EnterFunc
<1>4. ScopeTyped'
  <2>1. nextSlot' \in Nat \ {0} /\ symbols' \in Tables
    <3>1. nextSlot \in Nat \ {0} /\ Len(Params[f]) \in Nat
      BY <1>1, ParamsBound DEF ScopeTyped
    <3>2. nextSlot' = nextSlot + Len(Params[f]) /\ symbols' = WithParams(f)
      BY DEF EnterFunc
    <3>3. symbols' \in Tables
      BY <1>1, <3>2, ParamsBound
    <3>4. nextSlot' \in Nat \ {0}
      BY <3>1, <3>2
    <3> QED
      BY <3>3, <3>4
  <2>2. visible' \subseteq Names /\ isInFunction' \in BOOLEAN
    BY <1>1, ParamsBound DEF EnterFunc, ScopeTyped
  <2> QED
    BY <1>1, <2>1, <2>2 DEF EnterFunc, ScopeTyped
<1>5. ExprOK'
  BY <1>1, ExprGoesOn DEF EnterFunc, Begins
<1>6. CodeOK'
  <2>1. \A g \in DOMAIN functions : g \in Funcs /\ functions[g].addr \in 1..Pos
    BY <1>1 DEF CodeOK
  <2>2. functions' = Put(functions, f, FuncMeta(f)) /\ FuncMeta(f).addr = Pos + 1
    BY DEF EnterFunc, FuncMeta
  <2>3. \A g \in DOMAIN functions' :
          g \in Funcs /\ (functions'[g].addr \in 1..Pos \/ functions'[g].addr = Pos + 1)
    BY <2>1, <2>2 DEF Put
  <2>4. \A g \in DOMAIN functions' : g \in Funcs /\ functions'[g].addr \in 1..Pos'
    BY <1>2, <2>3
  <2> QED
    BY <2>4 DEF CodeOK, Extends, PoolGrows
<1> QED
  BY <1>3, <1>4, <1>5, <1>6 DEF Typed, EnterFunc

LEMMA EnterBlockTyped ==
  ASSUME Typed, EnterThen \/ EnterWhile \/ EnterTry \/ BeginFor, Extends
  PROVE  Typed'
<1>1. CodeOK /\ OpenOK /\ ScopeTyped /\ ExprOK /\ PoolGrows /\ 0 \in 0..(Byte - 1)
  BY Limits DEF Typed, Extends
<1>2. /\ Pos \in Nat /\ Pos <= Len(code') /\ 0 <= Len(code')
      /\ \A p \in Nat : p <= Pos => p <= Len(code')
  <2>1. Pos \in Nat /\ \A p \in Nat : p <= Pos => p <= Len(code')
    BY <1>1, PositionsKept
  <2> QED
    BY <2>1
<1>3. visible \in SUBSET Names /\ nextSlot \in Nat
  BY <1>1 DEF ScopeTyped
<1>4. EnterThen \/ EnterWhile \/ EnterTry => HoleAt(code', Pos)
  <2>1. PICK op \in Jumps, b \in 0..(Byte - 1) :
          EnterThen \/ EnterWhile \/ EnterTry => Emit(<<Instr(op, 0, b)>>)
    <3>1. nextSlot % Byte \in 0..(Byte - 1)
      BY <1>3, Limits, Modulo
    <3> QED
      BY <1>1, <3>1 DEF EnterThen, EnterWhile, EnterTry, Hole, Jumps
  <2> QED
    BY <1>1, <2>1, HoleIsEmitted, HoleAppended
<1>5. OpenOK'
  <2>1. CASE EnterThen
    <3>1. PICK o : o = Open("then", Pos)
      OBVIOUS
    <3>2. PICK e : e = [o EXCEPT !.outer = visible]
      OBVIOUS
    <3>3. o \in Statements /\ o.kind = "then" /\ o.p = Pos /\ o.q = 0 /\ o.r = 0
      BY <1>2, <3>1, OpenIsTyped DEF OpenKinds
    <3>4. e \in Statements /\ e.kind = "then" /\ e.p = Pos /\ e.q = 0 /\ e.r = 0
      BY <1>3, <3>2, <3>3 DEF Statements
    <3>5. Placed(code', e)
      BY <1>2, <1>4, <2>1, <3>4 DEF Placed
    <3> QED
      BY <1>1, <2>1, <3>1, <3>2, <3>4, <3>5, OpenPushed DEF EnterThen
  <2>2. CASE EnterWhile
    <3>1. expr.slot \in Nat /\ expr.slot <= Pos
      BY <1>1, <2>2 DEF EnterWhile, Ends, ExprOK, Exprs
    <3>2. PICK o : o = Open("while", expr.slot)
      OBVIOUS
    <3>3. PICK e : e = [o EXCEPT !.q = Pos]
      OBVIOUS
    <3>4. o \in Statements /\ o.kind = "while" /\ o.p = expr.slot /\ o.q = 0 /\ o.r = 0
      BY <3>1, <3>2, OpenIsTyped DEF OpenKinds
    <3>5. e \in Statements /\ e.kind = "while" /\ e.p = expr.slot /\ e.q = Pos /\ e.r = 0
      BY <1>2, <3>3, <3>4 DEF Statements
    <3>6. Placed(code', e)
      BY <1>2, <1>4, <2>2, <3>1, <3>5 DEF Placed
    <3> QED
      BY <1>1, <2>2, <3>2, <3>3, <3>5, <3>6, OpenPushed DEF EnterWhile
  <2>3. CASE EnterTry
    <3>1. PICK o : o = Open("try", Pos)
      OBVIOUS
    <3>2. PICK e : e = [o EXCEPT !.slot = nextSlot]
      OBVIOUS
    <3>3. o \in Statements /\ o.kind = "try" /\ o.p = Pos /\ o.q = 0 /\ o.r = 0
      BY <1>2, <3>1, OpenIsTyped DEF OpenKinds
    <3>4. e \in Statements /\ e.kind = "try" /\ e.p = Pos /\ e.q = 0 /\ e.r = 0
      BY <1>3, <3>2, <3>3 DEF Statements
    <3>5. Placed(code', e)
      BY <1>2, <1>4, <2>3, <3>4 DEF Placed
    <3> QED
      BY <1>1, <2>3, <3>1, <3>2, <3>4, <3>5, OpenPushed DEF EnterTry
  <2>4. CASE BeginFor
    <3>1. PICK o : o = Open("for_init", Pos)
      OBVIOUS
    <3>2. PICK e : e = [o EXCEPT !.outer = visible]
      OBVIOUS
    <3>3. o \in Statements /\ o.kind = "for_init" /\ o.p = Pos /\ o.q = 0 /\ o.r = 0
      BY <1>2, <3>1, OpenIsTyped DEF OpenKinds
    <3>4. e \in Statements /\ e.kind = "for_init" /\ e.p = Pos /\ e.q = 0 /\ e.r = 0
      BY <1>3, <3>2, <3>3 DEF Statements
    <3>5. Placed(code', e)
      BY <1>2, <3>4 DEF Placed
    <3> QED
      BY <1>1, <2>4, <3>1, <3>2, <3>4, <3>5, OpenPushed DEF BeginFor
  <2> QED
    BY <2>1, <2>2, <2>3, <2>4
<1>6. ScopeTyped'
  <2>1. nextSlot' \in Nat \ {0}
    BY <1>1 DEF EnterThen, EnterWhile, EnterTry, BeginFor, ScopeTyped, scope
  <2> QED
    BY <1>1, <2>1 DEF EnterThen, EnterWhile, EnterTry, BeginFor, ScopeTyped, scope, analysis
<1>7. ExprOK'
  BY <1>1, ExprEnded, ExprGoesOn DEF EnterThen, EnterWhile, EnterTry, BeginFor, Begins
<1>8. CodeOK' /\ stage' = stage
  <2>1. UNCHANGED functions /\ stage' = stage
    BY DEF EnterThen, EnterWhile, EnterTry, BeginFor, decls
  <2> QED
    BY <1>1, <2>1, CodeKept
<1> QED
  BY <1>5, <1>6, <1>7, <1>8 DEF Typed

\* Going on to the next part of a construct: its record is rewritten.
LEMMA ContinueTyped ==
  ASSUME Typed, EnterElse \/ EnterFor \/ EnterForPost \/ (\E x \in Names : EnterCatch(x)), Extends
  PROVE  Typed'
<1>1. CodeOK /\ OpenOK /\ ScopeTyped /\ ExprOK /\ PoolGrows /\ 0 \in 0..(Byte - 1)
  BY Limits DEF Typed, Extends
<1>2. open # <<>>
  BY <1>1 DEF EnterElse, EnterFor, EnterForPost, EnterCatch, Inside, Ends, ExprOK
<1>3. Inner = open[Len(open)] /\ Inner \in Statements /\ Placed(code, Inner) /\ Placed(code', Inner)
  BY <1>1, <1>2, InnerIsPlaced, PositionsKept
<1>4. /\ Inner.p \in Nat /\ Inner.q \in Nat /\ Inner.r \in Nat
      /\ Inner.p <= Len(code') /\ Inner.q <= Len(code') /\ Inner.r <= Len(code')
  BY <1>3 DEF Statements, Placed
<1>5. Pos \in Nat /\ \A p \in Nat : p <= Pos => p <= Len(code')
  BY <1>1, PositionsKept
<1>6. Pos <= Len(code')
  BY <1>5
<1>7. EnterElse \/ EnterFor => Pos + 1 = Len(code') /\ HoleAt(code', Pos)
  <2>1. PICK op \in Jumps, b \in 0..(Byte - 1) : EnterElse \/ EnterFor => Emit(<<Instr(op, 0, b)>>)
    BY <1>1 DEF EnterElse, EnterFor, Hole, Jumps
  <2> QED
    BY <1>1, <2>1, HoleIsEmitted, HoleAppended DEF Pos
<1>8. OpenOK'
  <2>1. CASE EnterElse
    <3>1. PICK e : e = [Inner EXCEPT !.kind = "else", !.q = Pos, !.r = Pos + 1]
      OBVIOUS
    <3>2. open' = [open EXCEPT ![Len(open)] = e] /\ Inner.kind = "then"
      BY <1>3, <2>1, <3>1 DEF EnterElse, Inside
    <3>3. "else" \in OpenKinds /\ Pos + 1 \in Nat
      BY <1>5 DEF OpenKinds
    <3>4. e \in Statements /\ e.kind = "else" /\ e.p = Inner.p /\ e.q = Pos /\ e.r = Pos + 1
      BY <1>3, <1>5, <3>1, <3>3 DEF Statements
    <3>5. HoleAt(code', Inner.p)
      BY <1>3, <3>2 DEF Placed
    <3>6. Pos + 1 <= Len(code')
      BY <1>5, <1>7, <2>1
    <3>7. Placed(code', e)
      BY <1>4, <1>6, <1>7, <2>1, <3>4, <3>5, <3>6 DEF Placed
    <3> QED
      BY <1>1, <1>2, <3>2, <3>4, <3>7, OpenChanged
  <2>2. CASE EnterFor
    <3>1. expr.slot \in Nat /\ expr.slot <= Pos
      BY <1>1, <2>2 DEF EnterFor, Ends, ExprOK, Exprs
    <3> PICK post \in SUBSET Names :
          open' = [open EXCEPT ![Len(open)] =
                     [Inner EXCEPT !.kind = "for", !.p = expr.slot, !.q = Pos, !.start = visible,
                                   !.post = post]]
      BY <2>2, ForClause
    <3>2. PICK e : e = [Inner EXCEPT !.kind = "for", !.p = expr.slot, !.q = Pos, !.start = visible,
                                     !.post = post]
      OBVIOUS
    <3>3. open' = [open EXCEPT ![Len(open)] = e]
      BY <3>2
    <3>4. "for" \in OpenKinds /\ visible \in SUBSET Names
      BY <1>1 DEF OpenKinds, ScopeTyped
    <3>5. e \in Statements /\ e.kind = "for" /\ e.p = expr.slot /\ e.q = Pos /\ e.r = Inner.r
      BY <1>3, <1>5, <3>1, <3>2, <3>4 DEF Statements
    <3>6. expr.slot <= Len(code')
      BY <1>5, <3>1
    <3>7. Placed(code', e)
      BY <1>4, <1>6, <1>7, <2>2, <3>5, <3>6 DEF Placed
    <3> QED
      BY <1>1, <1>2, <3>3, <3>5, <3>7, OpenChanged
  <2>3. CASE EnterForPost
    <3>1. PICK e : e = [Inner EXCEPT !.kind = "for_post", !.p = Pos, !.r = Inner.p]
      OBVIOUS
    <3>2. open' = [open EXCEPT ![Len(open)] = e] /\ Inner.kind = "for"
      BY <1>3, <2>3, <3>1 DEF EnterForPost, Inside
    <3>3. "for_post" \in OpenKinds
      BY DEF OpenKinds
    <3>4. e \in Statements /\ e.kind = "for_post" /\ e.p = Pos /\ e.q = Inner.q /\ e.r = Inner.p
      BY <1>3, <1>4, <1>5, <3>1, <3>3 DEF Statements
    <3>5. HoleAt(code', Inner.q)
      BY <1>3, <3>2 DEF Placed
    <3>6. Placed(code', e)
      BY <1>4, <1>6, <3>4, <3>5 DEF Placed
    <3> QED
      BY <1>1, <1>2, <3>2, <3>4, <3>6, OpenChanged
  <2>4. ASSUME NEW x \in Names, EnterCatch(x)
        PROVE  OpenOK'
    <3>1. /\ Len(code') = Pos + 2 /\ HoleAt(code', Pos + 1)
          /\ Pos + Len(TryEnd) - 1 = Pos + 1 /\ Pos + Len(TryEnd) = Pos + 2
      BY <1>1, <2>4, TryClosed DEF EnterCatch, Pos
    <3>2. PICK m : m = [y \in DOMAIN symbols \cap {x} |-> symbols[y]]
      OBVIOUS
    <3>3. m \in Tables
      BY <1>1, <1>2, <3>2, TablesRestored
    <3>4. PICK e : e = [Inner EXCEPT !.kind = "catch", !.q = Pos + 1, !.r = Pos + 2, !.name = x,
                                     !.symbols = m]
      OBVIOUS
    <3>5. open' = [open EXCEPT ![Len(open)] = e] /\ Inner.kind = "try"
      BY <1>3, <2>4, <3>1, <3>2, <3>4 DEF EnterCatch, Inside
    <3>6. "catch" \in OpenKinds /\ x \in NamesOrNone /\ Pos + 1 \in Nat /\ Pos + 2 \in Nat
      <4>1. "catch" \in OpenKinds /\ x \in NamesOrNone
        BY DEF OpenKinds, NamesOrNone
      <4> QED
        BY <1>5, <4>1
    <3>7. e \in Statements /\ e.kind = "catch" /\ e.p = Inner.p /\ e.q = Pos + 1 /\ e.r = Pos + 2
      BY <1>3, <3>3, <3>4, <3>6 DEF Statements
    <3>8. HoleAt(code', Inner.p)
      BY <1>3, <3>5 DEF Placed
    <3>9. Pos + 1 <= Len(code') /\ Pos + 2 <= Len(code')
      BY <1>5, <3>1
    <3>10. Placed(code', e)
      BY <1>4, <3>1, <3>7, <3>8, <3>9 DEF Placed
    <3> QED
      BY <1>1, <1>2, <3>5, <3>7, <3>10, OpenChanged
  <2> QED
    BY <2>1, <2>2, <2>3, <2>4
<1>9. ScopeTyped'
  <2>1. visible' \subseteq Names
    BY <1>1, <1>3 DEF EnterElse, EnterFor, EnterForPost, EnterCatch, ScopeTyped, analysis,
                      Statements
  <2>2. symbols' \in Tables
    <3>1. ASSUME NEW x \in Names, EnterCatch(x)
          PROVE  symbols' \in Tables
      <4>1. symbols \in Tables /\ Inner.slot \in Nat
        BY <1>1, <1>3 DEF ScopeTyped, Statements
      <4> QED
        BY <3>1, <4>1, PutInTables DEF EnterCatch
    <3> QED
      BY <1>1, <3>1 DEF EnterElse, EnterFor, EnterForPost, ScopeTyped, scope
  <2>3. UNCHANGED <<constants, nextSlot, isInFunction, called>>
    BY DEF EnterElse, EnterFor, EnterForPost, EnterCatch, scope, analysis
  <2> QED
    BY <1>1, <2>1, <2>2, <2>3 DEF ScopeTyped
<1>10. ExprOK'
  BY <1>1, ExprEnded, ExprGoesOn DEF EnterElse, EnterFor, EnterForPost, EnterCatch
<1>11. CodeOK' /\ stage' = stage
  <2>1. UNCHANGED functions /\ stage' = stage
    BY DEF EnterElse, EnterFor, EnterForPost, EnterCatch, decls
  <2> QED
    BY <1>1, <2>1, CodeKept
<1> QED
  BY <1>8, <1>9, <1>10, <1>11 DEF Typed

\* Leaving a construct: its record is popped, and what it saved is restored.
LEMMA LeaveTyped ==
  ASSUME Typed, LeaveFunc \/ LeaveIf \/ LeaveWhile \/ LeaveFor \/ LeaveCatch, Extends
  PROVE  Typed'
<1>1. CodeOK /\ OpenOK /\ ScopeTyped /\ ExprOK
  BY DEF Typed
<1>2. /\ open # <<>> /\ open' = Front(open) /\ ~InExpr
      /\ UNCHANGED <<expr, functions, called, nextSlot, stage>>
  BY DEF LeaveFunc, LeaveIf, LeaveWhile, LeaveFor, LeaveCatch, Inside, decls, analysis, scope
<1>3. Inner \in Statements
  BY <1>1, <1>2, InnerIsPlaced
<1>4. /\ Inner.outer \subseteq Names /\ Inner.constants \subseteq Names
      /\ Inner.inFunction \in BOOLEAN
  BY <1>3 DEF Statements
<1>5. symbols' \in Tables
  BY <1>1, <1>2, TablesRestored
     DEF LeaveFunc, LeaveIf, LeaveWhile, LeaveFor, LeaveCatch, scope, ScopeTyped
<1>6. visible' \subseteq Names /\ constants' \subseteq Names /\ isInFunction' \in BOOLEAN
  BY <1>1, <1>4
     DEF LeaveFunc, LeaveIf, LeaveWhile, LeaveFor, LeaveCatch, scope, analysis, ScopeTyped
<1>7. ScopeTyped'
  BY <1>1, <1>2, <1>5, <1>6 DEF ScopeTyped
<1>8. OpenOK' /\ ExprOK' /\ CodeOK'
  BY <1>1, <1>2, OpenPopped, ExprGoesOn, CodeKept
<1> QED
  BY <1>2, <1>7, <1>8 DEF Typed

LEMMA BeginTyped ==
  ASSUME Typed, BeginIf \/ BeginWhile \/ BeginForCondition, Extends
  PROVE  Typed'
<1>1. CodeOK /\ OpenOK /\ ScopeTyped /\ ExprOK
  BY DEF Typed
<1>2. UNCHANGED <<code, scope, decls, isInFunction, open, analysis, stage>>
  BY DEF BeginIf, BeginWhile, BeginForCondition
<1>3. Pos \in Nat /\ 0 \in Nat /\ 0 <= Pos' /\ Pos <= Pos'
  BY <1>1, PositionsKept
<1>4. ExprOK'
  <2>1. PICK for \in {"if", "while", "for"}, n \in {0, Pos} : expr' = Expr(for, "", n)
    BY DEF BeginIf, BeginWhile, BeginForCondition
  <2>2. for \in Contexts /\ "" \in NamesOrNone /\ n \in Nat /\ n <= Pos'
          /\ for \notin {"variable", "assignment"}
    BY <1>3 DEF Contexts, NamesOrNone
  <2>3. for = "for" => Inside("for_init")'
    BY <1>2, <2>1 DEF BeginIf, BeginWhile, BeginForCondition, Expr, Inside, Inner
  <2> QED
    BY <2>1, <2>2, <2>3, ExprStarted
<1>5. OpenOK' /\ CodeOK'
  BY <1>1, <1>2, OpenKept, CodeKept DEF decls
<1>6. ScopeTyped'
  BY <1>1, <1>2 DEF ScopeTyped, scope, analysis
<1> QED
  BY <1>2, <1>4, <1>5, <1>6 DEF Typed

LEMMA InitTyped == Init => Typed
<1> SUFFICES ASSUME Init PROVE Typed
  OBVIOUS
<1>1. NoExpr \in Exprs /\ NoExpr.for = "nothing"
  <2>1. "nothing" \in Contexts /\ "" \in NamesOrNone /\ 0 \in Nat
    BY DEF Contexts, NamesOrNone
  <2>2. PICK for \in Contexts, name \in NamesOrNone, slot \in Nat :
          for = "nothing" /\ name = "" /\ slot = 0
    BY <2>1
  <2>3. Expr(for, name, slot) \in Exprs /\ Expr(for, name, slot).for = for
    BY ExprIsTyped
  <2>4. NoExpr = Expr(for, name, slot)
    BY <2>2 DEF NoExpr, Expr
  <2> QED
    BY <2>2, <2>3, <2>4
<1>2. expr = NoExpr
  BY DEF Init
<1>3. ExprOK
  BY <1>1, <1>2 DEF ExprOK
<1>5. NoEntries \in Tables
  <2>1. NoEntries \in [{} -> Nat] /\ {} \in SUBSET Names
    BY DEF NoEntries
  <2> QED
    BY <2>1 DEF Tables
<1>6. ScopeTyped
  <2>1. symbols = NoEntries /\ constants = {} /\ nextSlot = 1 /\ isInFunction = FALSE
        /\ visible = {} /\ called = {}
    BY DEF Init
  <2>2. symbols \in Tables
    BY <1>5, <2>1
  <2>3. nextSlot \in Nat \ {0}
    BY <2>1
  <2>4. isInFunction \in BOOLEAN
    BY <2>1
  <2>5. constants \subseteq Names /\ visible \subseteq Names /\ called \subseteq Funcs
    BY <2>1
  <2> QED
    BY <2>2, <2>3, <2>4, <2>5 DEF ScopeTyped
<1>7. Len(<<>>) = 0 /\ 0 <= MaxPool
  BY Limits
<1>8. code = <<>> /\ pool = <<>> /\ DOMAIN functions = {} /\ open = <<>>
  BY DEF Init, NoEntries
<1>9. CodeOK
  BY <1>7, <1>8 DEF CodeOK, Pos
<1>10. OpenOK
  BY <1>7, <1>8 DEF OpenOK
<1> QED
  BY <1>3, <1>6, <1>9, <1>10 DEF Typed, Init

LEMMA NextTyped == Typed /\ [Next]_cvars => Typed'
<1> SUFFICES ASSUME Typed, [Next]_cvars PROVE Typed'
  OBVIOUS
<1>1. CASE ExprStep
  BY <1>1, ComputesTyped, UserCallTyped DEF ExprStep, Computes
<1>2. CASE SimpleStmt
  BY <1>2, SimpleStmtTyped
<1>3. CASE Construct
  <2>1. Extends
    BY <1>3, ConstructRewrites DEF Rewrites
  <2> QED
    BY <1>3, <2>1, EnterFuncTyped, EnterBlockTyped, ContinueTyped, LeaveTyped, BeginTyped
       DEF Construct
<1>4. CASE Finish
  <2>1. CodeOK /\ OpenOK /\ ScopeTyped /\ ExprOK
    BY DEF Typed
  <2>2. Extends
    BY <1>4, <2>1, PoolKept, EmitsOp DEF Finish, PlainOps, Op, Rewrites
  <2>3. UNCHANGED <<functions, scope, isInFunction, open, expr, analysis>>
    BY <1>4 DEF Finish, decls
  <2>4. CodeOK' /\ OpenOK' /\ ExprOK'
    BY <2>1, <2>2, <2>3, CodeKept, OpenKept, ExprGoesOn
  <2>5. ScopeTyped'
    BY <2>1, <2>3 DEF ScopeTyped, scope, analysis
  <2> QED
    BY <1>4, <2>4, <2>5 DEF Typed, Finish
<1>5. CASE CompilerPanics \/ UNCHANGED cvars
  <2>1. UNCHANGED <<code, pool, scope, decls, isInFunction, open, expr, analysis>>
    BY <1>5 DEF CompilerPanics, cvars
  <2>2. stage' \in {"compiling", "compiled", "panicked"}
    BY <1>5 DEF CompilerPanics, cvars, Typed
  <2> QED
    BY <2>1, <2>2
       DEF Typed, CodeOK, ScopeTyped, ExprOK, OpenOK, Pos, scope, decls, analysis, Inside, Inner
<1> QED
  BY <1>1, <1>2, <1>3, <1>4, <1>5 DEF Next

----------------------------------------------------------------------------
(* What a step does to the open statements, one case for each kind.        *)

Simple ==
  \/ ExprStep \/ BeginExpressionStmt \/ EndExpressionStmt \/ EndVarDecl \/ EndAssign
  \/ (\E x \in Names, isConst \in BOOLEAN : BeginVarDecl(x, isConst))
  \/ (\E x \in Names : AssignConstant(x) \/ BeginAssign(x))
  \/ BeginMemberAssign \/ BeginField \/ EndField \/ BeginReturn \/ EndReturn \/ EmptyReturn
  \/ BeginEmit \/ EndEmit \/ BeginRequire \/ EndRequire
  \/ BeginIf \/ BeginWhile \/ BeginForCondition \/ Finish \/ CompilerPanics \/ UNCHANGED cvars

Opens == EnterThen \/ EnterWhile \/ BeginFor \/ \E x \in Names : BeginObject(x)
GoesOn == EnterElse \/ EnterFor \/ EnterForPost
Closes == LeaveIf \/ LeaveWhile \/ LeaveFor \/ EndObject

LEMMA Steps ==
  ASSUME [Next]_cvars
  PROVE  \/ Simple \/ Opens \/ GoesOn \/ Closes
         \/ (\E f \in Funcs : EnterFunc(f)) \/ LeaveFunc
         \/ EnterTry \/ (\E x \in Names : EnterCatch(x)) \/ LeaveCatch
BY DEF Next, SimpleStmt, Construct, Simple, Opens, GoesOn, Closes

LEMMA SimpleSteps ==
  ASSUME Simple
  PROVE  UNCHANGED <<open, isInFunction>>
BY DEF Simple, ExprStep, Number, LargeNumber, Literal, Symbol, IncDec, Binary, Prefix, UserCall,
       PrintCall, Operation, WithConstant, ArrayLiteral, ErrorExpr, BeginExpressionStmt,
       EndExpressionStmt, EndVarDecl, EndAssign, BeginVarDecl, AssignConstant, BeginAssign,
       BeginMemberAssign, BeginField, EndField, BeginReturn, EndReturn, EmptyReturn, BeginEmit,
       EndEmit, BeginRequire, EndRequire, BeginIf, BeginWhile, BeginForCondition, Finish,
       CompilerPanics, cvars

LEMMA OpeningSteps ==
  ASSUME Typed, Opens
  PROVE  /\ UNCHANGED <<isInFunction, constants, visible>>
         /\ \E e \in Statements :
              /\ open' = Append(open, e)
              /\ e.kind \in {"then", "while", "for_init", "object"}
              /\ e.symbols = NoEntries /\ e.outer \subseteq visible /\ e.start = {}
              /\ e.kind = "object" => e.name \in DOMAIN symbols'
<1>1. UNCHANGED <<isInFunction, constants, visible>>
  BY DEF Opens, EnterThen, EnterWhile, BeginFor, BeginObject, scope, analysis
<1>2. CodeOK /\ OpenOK /\ ScopeTyped /\ ExprOK
  BY DEF Typed
<1>3. Pos \in Nat
  BY <1>2, LenProperties DEF CodeOK, Pos
<1>4. visible \in SUBSET Names
  BY <1>2 DEF ScopeTyped
<1>5. CASE EnterThen
  <2>1. PICK o : o = Open("then", Pos)
    OBVIOUS
  <2>2. PICK e : e = [o EXCEPT !.outer = visible]
    OBVIOUS
  <2>3. o \in Statements /\ o.kind = "then" /\ o.symbols = NoEntries /\ o.start = {}
    BY <1>3, <2>1, OpenIsTyped DEF OpenKinds
  <2>4. e \in Statements /\ e.kind = "then" /\ e.symbols = NoEntries /\ e.start = {}
        /\ e.outer = visible
    BY <1>4, <2>2, <2>3 DEF Statements
  <2>5. open' = Append(open, e)
    BY <1>5, <2>1, <2>2 DEF EnterThen
  <2> QED
    BY <1>1, <2>4, <2>5
<1>6. CASE EnterWhile
  <2>1. expr.slot \in Nat
    BY <1>2 DEF ExprOK, Exprs
  <2>2. PICK o : o = Open("while", expr.slot)
    OBVIOUS
  <2>3. PICK e : e = [o EXCEPT !.q = Pos]
    OBVIOUS
  <2>4. o \in Statements /\ o.kind = "while" /\ o.symbols = NoEntries /\ o.start = {}
        /\ o.outer = {}
    BY <2>1, <2>2, OpenIsTyped DEF OpenKinds
  <2>5. e \in Statements /\ e.kind = "while" /\ e.symbols = NoEntries /\ e.start = {}
        /\ e.outer = {}
    BY <1>3, <2>3, <2>4 DEF Statements
  <2>6. open' = Append(open, e)
    BY <1>6, <2>2, <2>3 DEF EnterWhile
  <2> QED
    BY <1>1, <2>5, <2>6
<1>7. CASE BeginFor
  <2>1. PICK o : o = Open("for_init", Pos)
    OBVIOUS
  <2>2. PICK e : e = [o EXCEPT !.outer = visible]
    OBVIOUS
  <2>3. o \in Statements /\ o.kind = "for_init" /\ o.symbols = NoEntries /\ o.start = {}
    BY <1>3, <2>1, OpenIsTyped DEF OpenKinds
  <2>4. e \in Statements /\ e.kind = "for_init" /\ e.symbols = NoEntries /\ e.start = {}
        /\ e.outer = visible
    BY <1>4, <2>2, <2>3 DEF Statements
  <2>5. open' = Append(open, e)
    BY <1>7, <2>1, <2>2 DEF BeginFor
  <2> QED
    BY <1>1, <2>4, <2>5
<1>8. ASSUME NEW x \in Names, BeginObject(x)
      PROVE  \E e \in Statements :
               /\ open' = Append(open, e)
               /\ e.kind \in {"then", "while", "for_init", "object"}
               /\ e.symbols = NoEntries /\ e.outer \subseteq visible /\ e.start = {}
               /\ e.kind = "object" => e.name \in DOMAIN symbols'
  <2>1. PICK o : o = Open("object", Pos)
    OBVIOUS
  <2>2. PICK e : e = [o EXCEPT !.slot = GetSlot(x), !.name = x]
    OBVIOUS
  <2>3. GetSlot(x) \in Nat /\ x \in NamesOrNone
    BY <1>2, SlotIsNat DEF NamesOrNone
  <2>4. o \in Statements /\ o.kind = "object" /\ o.symbols = NoEntries /\ o.start = {}
        /\ o.outer = {}
    BY <1>3, <2>1, OpenIsTyped DEF OpenKinds
  <2>5. e \in Statements /\ e.kind = "object" /\ e.symbols = NoEntries /\ e.start = {}
        /\ e.outer = {} /\ e.name = x
    BY <2>2, <2>3, <2>4 DEF Statements
  <2>6. open' = Append(open, e)
    BY <1>8, <2>1, <2>2 DEF BeginObject
  <2>7. x \in DOMAIN symbols'
    BY <1>8 DEF BeginObject, NewName, AllocSlot, Put
  <2> QED
    BY <2>5, <2>6, <2>7
<1> QED
  BY <1>1, <1>5, <1>6, <1>7, <1>8 DEF Opens

LEMMA GoingOnSteps ==
  ASSUME Typed, GoesOn
  PROVE  /\ UNCHANGED <<isInFunction, scope>>
         /\ open # <<>> /\ Inner.kind \in {"then", "for_init", "for"}
         /\ visible' = visible \/ visible' = Inner.outer \/ visible' = Inner.start
         /\ \E e \in Statements :
              /\ open' = [open EXCEPT ![Len(open)] = e]
              /\ e.kind \in {"else", "for", "for_post"}
              /\ e.symbols = Inner.symbols /\ e.outer = Inner.outer
              /\ e.start = Inner.start \/ e.start = visible
<1>1. CodeOK /\ OpenOK /\ ScopeTyped /\ ExprOK
  BY DEF Typed
<1>2. UNCHANGED <<isInFunction, scope>>
  BY DEF GoesOn, EnterElse, EnterFor, EnterForPost
<1>3. open # <<>> /\ Inner.kind \in {"then", "for_init", "for"}
  BY <1>1 DEF GoesOn, EnterElse, EnterFor, EnterForPost, Inside, Ends, ExprOK
<1>4. visible' = visible \/ visible' = Inner.outer \/ visible' = Inner.start
  BY DEF GoesOn, EnterElse, EnterFor, EnterForPost, analysis
<1>5. Pos \in Nat /\ Pos + 1 \in Nat
  BY <1>1, LenProperties DEF CodeOK, Pos
<1>6. Inner \in Statements /\ Inner = open[Len(open)]
  BY <1>1, <1>3, InnerIsPlaced
<1>7. Inner.p \in Nat /\ expr.slot \in Nat /\ visible \in SUBSET Names
  BY <1>1, <1>6 DEF Statements, ExprOK, Exprs, ScopeTyped
<1>8. "else" \in OpenKinds /\ "for" \in OpenKinds /\ "for_post" \in OpenKinds
  BY DEF OpenKinds
<1>9. CASE EnterElse
  <2>1. PICK e : e = [Inner EXCEPT !.kind = "else", !.q = Pos, !.r = Pos + 1]
    OBVIOUS
  <2>2. open' = [open EXCEPT ![Len(open)] = e]
    BY <1>6, <1>9, <2>1 DEF EnterElse
  <2>3. e \in Statements /\ e.kind = "else" /\ e.symbols = Inner.symbols
        /\ e.outer = Inner.outer /\ e.start = Inner.start
    BY <1>5, <1>6, <1>8, <2>1 DEF Statements
  <2> QED
    BY <1>2, <1>3, <1>4, <2>2, <2>3
<1>10. CASE EnterFor
  <2> PICK post \in SUBSET Names :
        open' = [open EXCEPT ![Len(open)] =
                   [Inner EXCEPT !.kind = "for", !.p = expr.slot, !.q = Pos, !.start = visible,
                                 !.post = post]]
    BY <1>10, ForClause
  <2>1. PICK e : e = [Inner EXCEPT !.kind = "for", !.p = expr.slot, !.q = Pos, !.start = visible,
                                   !.post = post]
    OBVIOUS
  <2>2. open' = [open EXCEPT ![Len(open)] = e]
    BY <2>1
  <2>3. e \in Statements /\ e.kind = "for" /\ e.symbols = Inner.symbols
        /\ e.outer = Inner.outer /\ e.start = visible
    BY <1>5, <1>6, <1>7, <1>8, <2>1 DEF Statements
  <2> QED
    BY <1>2, <1>3, <1>4, <2>2, <2>3
<1>11. CASE EnterForPost
  <2>1. PICK e : e = [Inner EXCEPT !.kind = "for_post", !.p = Pos, !.r = Inner.p]
    OBVIOUS
  <2>2. open' = [open EXCEPT ![Len(open)] = e]
    BY <1>6, <1>11, <2>1 DEF EnterForPost
  <2>3. e \in Statements /\ e.kind = "for_post" /\ e.symbols = Inner.symbols
        /\ e.outer = Inner.outer /\ e.start = Inner.start
    BY <1>5, <1>6, <1>7, <1>8, <2>1 DEF Statements
  <2> QED
    BY <1>2, <1>3, <1>4, <2>2, <2>3
<1> QED
  BY <1>9, <1>10, <1>11 DEF GoesOn

LEMMA ClosingSteps ==
  ASSUME Closes
  PROVE  /\ UNCHANGED <<isInFunction, scope>>
         /\ open # <<>> /\ open' = Front(open)
         /\ Inner.kind \in {"then", "else", "while", "for_post", "object"}
BY DEF Closes, LeaveIf, LeaveWhile, LeaveFor, EndObject, Inside

\* The records of function bodies and of try statements.
LEMMA FuncRecord ==
  ASSUME Typed, NEW f \in Funcs, EnterFunc(f)
  PROVE  \E e \in Statements :
           /\ open' = Append(open, e)
           /\ e.kind = "func" /\ e.symbols = symbols /\ e.constants = constants
           /\ e.inFunction = isInFunction /\ e.outer = {} /\ e.start = {}
<1>1. Pos \in Nat
  BY LenProperties DEF Typed, CodeOK, Pos
<1>2. PICK o : o = Open("func", Pos)
  OBVIOUS
<1>3. PICK e : e = [o EXCEPT !.symbols = symbols, !.constants = constants,
                             !.inFunction = isInFunction]
  OBVIOUS
<1>4. o \in Statements /\ o.kind = "func" /\ o.outer = {} /\ o.start = {}
  BY <1>1, <1>2, OpenIsTyped DEF OpenKinds
<1>5. symbols \in Tables /\ constants \in SUBSET Names /\ isInFunction \in BOOLEAN
  BY DEF Typed, ScopeTyped
<1>6. e \in Statements /\ e.kind = "func" /\ e.symbols = symbols /\ e.constants = constants
      /\ e.inFunction = isInFunction /\ e.outer = {} /\ e.start = {}
  BY <1>3, <1>4, <1>5 DEF Statements
<1>7. open' = Append(open, e)
  BY <1>2, <1>3 DEF EnterFunc
<1> QED
  BY <1>6, <1>7

LEMMA TryRecord ==
  ASSUME Typed, EnterTry
  PROVE  \E e \in Statements :
           /\ open' = Append(open, e)
           /\ e.kind = "try" /\ e.slot = nextSlot /\ e.symbols = NoEntries
           /\ e.outer = {} /\ e.start = {}
<1>1. Pos \in Nat /\ nextSlot \in Nat
  BY LenProperties DEF Typed, CodeOK, ScopeTyped, Pos
<1>2. PICK o : o = Open("try", Pos)
  OBVIOUS
<1>3. PICK e : e = [o EXCEPT !.slot = nextSlot]
  OBVIOUS
<1>4. o \in Statements /\ o.kind = "try" /\ o.outer = {} /\ o.start = {} /\ o.symbols = NoEntries
  BY <1>1, <1>2, OpenIsTyped DEF OpenKinds
<1>5. e \in Statements /\ e.kind = "try" /\ e.slot = nextSlot /\ e.symbols = NoEntries
      /\ e.outer = {} /\ e.start = {}
  BY <1>1, <1>3, <1>4 DEF Statements
<1>6. open' = Append(open, e)
  BY <1>2, <1>3 DEF EnterTry
<1> QED
  BY <1>5, <1>6

LEMMA CatchRecord ==
  ASSUME Typed, NEW x \in Names, EnterCatch(x)
  PROVE  /\ open # <<>> /\ Inner.kind = "try"
         /\ \E e \in Statements :
              /\ open' = [open EXCEPT ![Len(open)] = e]
              /\ e.kind = "catch" /\ e.name = x /\ e.slot = Inner.slot
              /\ e.symbols = [y \in DOMAIN symbols \cap {x} |-> symbols[y]]
              /\ e.outer = Inner.outer /\ e.start = Inner.start
<1>1. CodeOK /\ OpenOK /\ ScopeTyped
  BY DEF Typed
<1>2. open # <<>> /\ Inner.kind = "try"
  BY DEF EnterCatch, Inside
<1>3. Inner \in Statements /\ Inner = open[Len(open)]
  BY <1>1, <1>2, InnerIsPlaced
<1>4. PICK m : m = [y \in DOMAIN symbols \cap {x} |-> symbols[y]]
  OBVIOUS
<1>5. m \in Tables
  BY <1>1, <1>2, <1>4, TablesRestored
<1>6. PICK q, r : q = Pos + Len(TryEnd) - 1 /\ r = Pos + Len(TryEnd)
  OBVIOUS
<1>7. q \in Nat /\ r \in Nat
  <2>1. PoolGrows
    BY <1>1, PoolKept DEF EnterCatch
  <2>2. Pos \in Nat /\ q = Pos + 1 /\ r = Pos + 2
    BY <1>1, <1>6, <2>1, TryClosed DEF EnterCatch
  <2> QED
    BY <2>2
<1>8. PICK e : e = [Inner EXCEPT !.kind = "catch", !.q = q, !.r = r, !.name = x, !.symbols = m]
  OBVIOUS
<1>9. open' = [open EXCEPT ![Len(open)] = e]
  BY <1>3, <1>4, <1>6, <1>8 DEF EnterCatch
<1>10. "catch" \in OpenKinds /\ x \in NamesOrNone
  BY DEF OpenKinds, NamesOrNone
<1>11. e \in Statements /\ e.kind = "catch" /\ e.name = x /\ e.slot = Inner.slot /\ e.symbols = m
       /\ e.outer = Inner.outer /\ e.start = Inner.start
  BY <1>3, <1>5, <1>7, <1>8, <1>10 DEF Statements
<1> QED
  BY <1>2, <1>4, <1>9, <1>11

----------------------------------------------------------------------------
(* What is compiled.                                                       *)

\* Types are kept, and what compiling may do ends with the main program.
LEMMA AlwaysTyped == Spec => []Typed
<1>1. Init => Typed
  BY InitTyped
<1>2. Typed /\ [Next]_cvars => Typed'
  BY NextTyped
<1> QED
  BY <1>1, <1>2, PTL DEF Spec

LEMMA Stages ==
  ASSUME [Next]_cvars
  PROVE  \/ UNCHANGED cvars
         \/ stage = "compiling" /\ Finish
         \/ stage = "compiling" /\ stage' # "compiled"
<1>1. CASE ExprStep
  BY <1>1 DEF ExprStep, Number, LargeNumber, Literal, Symbol, IncDec, Binary, Prefix, UserCall,
       PrintCall, Operation, WithConstant, ArrayLiteral, ErrorExpr, Operand
<1>2. CASE SimpleStmt
  BY <1>2 DEF SimpleStmt, BeginExpressionStmt, EndExpressionStmt, BeginVarDecl, EndVarDecl,
       AssignConstant, BeginAssign, BeginObject, EndAssign, BeginMemberAssign, BeginField,
       EndField, EndObject, BeginReturn, EndReturn, EmptyReturn, BeginEmit, EndEmit,
       BeginRequire, EndRequire, Begins, Ends
<1>3. CASE Construct
  BY <1>3 DEF Construct, EnterFunc, LeaveFunc, BeginIf, EnterThen, EnterElse, LeaveIf, BeginWhile,
       EnterWhile, LeaveWhile, BeginFor, BeginForCondition, EnterFor, EnterForPost, LeaveFor,
       EnterTry, EnterCatch, LeaveCatch, Begins, Ends
<1>4. CASE Finish \/ CompilerPanics
  BY <1>4 DEF Finish, CompilerPanics
<1> QED
  BY <1>1, <1>2, <1>3, <1>4 DEF Next

\* The address after the last instruction of the program's own code, which a
\* jump at its end leads to, is that of the HALT.
LEMMA FinishWellFormed ==
  ASSUME Typed, Finish
  PROVE  WellFormed(Compiled)'
<1>1. CodeOK /\ Op("HALT") = [op |-> "HALT", a |-> 0, b |-> 0]
  BY DEF Typed, Op, Instr
<1>2. Op("HALT") \in Emitted /\ Op("HALT").op = "HALT" /\ Op("HALT").op \notin Branches
  BY <1>1, Limits DEF Emitted, PlainOps, Branches
<1>3. code' = code \o <<Op("HALT")>> /\ pool' = pool /\ functions' = functions
      /\ functionName' = functionName
  BY DEF Finish, Emit, decls
<1>4. /\ code' \in Seq(Emitted) /\ Len(code') = Pos + 1 /\ Pos \in Nat
      /\ \A i \in 1..Pos : code'[i] = code[i]
      /\ \A i \in 1..Len(code') : i > Pos => code'[i] = Op("HALT")
  <2>1. PICK s \in Seq(Emitted) : s = <<Op("HALT")>> /\ Len(s) = 1 /\ s[1] = Op("HALT")
    BY <1>2, ShortSequences
  <2>2. Len(code) \in Nat /\ code \in Seq(Emitted)
    BY <1>1, LenProperties DEF CodeOK
  <2>3. /\ code \o s \in Seq(Emitted)
        /\ Len(code \o s) = Len(code) + Len(s)
        /\ \A i \in 1..Len(code) : (code \o s)[i] = code[i]
        /\ \A i \in 1..Len(code \o s) :
             i > Len(code) => i - Len(code) \in 1..Len(s) /\ (code \o s)[i] = s[i - Len(code)]
    BY <2>2, ExtendedProperties
  <2>4. \A i \in 1..Len(code \o s) : i > Len(code) => i - Len(code) = 1
    BY <2>1, <2>2, <2>3
  <2> QED
    BY <1>3, <2>1, <2>2, <2>3, <2>4 DEF Pos
<1>5. \A i \in DOMAIN code' :
        /\ code'[i].op \in Branches => code'[i].a \in 0..Pos
        /\ code'[i].op = "CONST" => code'[i].a \in 0..(Len(pool) - 1)
  <2> SUFFICES ASSUME NEW i \in 1..(Pos + 1)
               PROVE  /\ code'[i].op \in Branches => code'[i].a \in 0..Pos
                      /\ code'[i].op = "CONST" => code'[i].a \in 0..(Len(pool) - 1)
    BY <1>4, LenProperties
  <2>1. CASE i \in 1..Pos
    <3>1. code[i] \in Emitted /\ InRange(code[i], Pos, Len(pool))
      BY <1>1, <2>1, ElementOfSeq DEF CodeOK, Pos
    <3>2. code[i].a \in Nat /\ Len(pool) \in Nat
      BY <1>1, <3>1, LenProperties DEF Emitted, CodeOK
    <3> QED
      BY <1>4, <2>1, <3>1, <3>2 DEF InRange
  <2>2. CASE i = Pos + 1
    BY <1>2, <1>4, <2>2
  <2> QED
    BY <1>4, <2>1, <2>2
<1>6. \A f \in DOMAIN functions' : functions'[f].addr \in 0..Pos
  BY <1>1, <1>3, <1>4 DEF CodeOK
<1>7. Addrs(code') = 0..Pos
  BY <1>4 DEF Addrs
<1>8. Len(code') > 0 /\ code'[Len(code')].op = "HALT"
  BY <1>2, <1>4
<1> QED
  BY <1>3, <1>5, <1>6, <1>7, <1>8 DEF WellFormed, Compiled, Artifact

(***************************************************************************)
(* Whatever constructs a program nests, in whatever order, the compiler    *)
(* leaves an artifact the machine cannot run out of: jumps, handlers,      *)
(* entries and constants are in range and the code ends with HALT          *)
(* (compiler.go:285-320 emit, addConst; :352 CompileBlock; :369 patchJump).*)
(***************************************************************************)
THEOREM CompiledWellFormed == Spec => []CompiledIsWellFormed
<1>1. Init => CompiledIsWellFormed
  BY DEF Init, CompiledIsWellFormed
<1>2. Typed /\ CompiledIsWellFormed /\ [Next]_cvars => CompiledIsWellFormed'
  <2> SUFFICES ASSUME Typed, CompiledIsWellFormed, [Next]_cvars
               PROVE  CompiledIsWellFormed'
    OBVIOUS
  <2>1. CASE UNCHANGED cvars
    <3>1. UNCHANGED <<code, pool, functions, functionName, stage>>
      BY <2>1 DEF cvars, decls
    <3>2. UNCHANGED Compiled
      BY <3>1 DEF Compiled
    <3> QED
      BY <3>1, <3>2 DEF CompiledIsWellFormed, WellFormed
  <2>2. CASE Finish
    BY <2>2, FinishWellFormed DEF CompiledIsWellFormed
  <2>3. CASE stage' # "compiled"
    BY <2>3 DEF CompiledIsWellFormed
  <2> QED
    BY <2>1, <2>2, <2>3, Stages
<1> QED
  BY <1>1, <1>2, AlwaysTyped, PTL DEF Spec

----------------------------------------------------------------------------
(* Calls. Each function is found by the address of its entry, and each     *)
(* CALL holds such an address, if no program declares a function twice or  *)
(* after a call to it.                                                     *)

DeclaredFirst == \A c \in Classes : "forward" \notin c.exprs /\ "redeclare" \notin c.stmts

Calls ==
  /\ class \in Classes
  /\ \A i \in 1..Pos : code[i].op = "CALL" =>
       \E f \in DOMAIN functions : functions[f].addr = code[i].a
  /\ \A f \in DOMAIN functions :
       functions[f].addr \in DOMAIN functionName /\ functionName[functions[f].addr] = f

LEMMA InitCalls == Init => Calls
<1> SUFFICES ASSUME Init PROVE Calls
  OBVIOUS
<1>1. code = <<>> /\ DOMAIN functions = {} /\ class \in Classes
  BY DEF Init, NoEntries
<1>2. Pos = 0
  BY <1>1 DEF Pos
<1> QED
  BY <1>1, <1>2 DEF Calls

\* No new call and no new function.
LEMMA CallsKept ==
  ASSUME Calls, Rewrites, UNCHANGED <<class, decls>>
  PROVE  Calls'
BY DEF Calls, Rewrites, decls

LEMMA EnterFuncCalls ==
  ASSUME Typed, Calls, DeclaredFirst, NEW f \in Funcs, EnterFunc(f)
  PROVE  Calls'
<1>1. Rewrites
  BY ConstructRewrites DEF Construct
<1>2. f \notin DOMAIN functions /\ class' = class
  BY DEF EnterFunc, DeclaredFirst, Calls
<1>3. PICK meta : meta.addr = Pos + 1 /\ functions' = Put(functions, f, meta)
  BY DEF EnterFunc, FuncMeta
<1>4. functionName' = Put(functionName, Pos + 1, f)
  BY DEF EnterFunc
<1>5. /\ \A g \in DOMAIN functions : functions'[g] = functions[g] /\ g \in DOMAIN functions'
      /\ functions'[f] = meta /\ DOMAIN functions' = DOMAIN functions \cup {f}
  BY <1>2, <1>3 DEF Put
<1>6. \A g \in DOMAIN functions : functions[g].addr # Pos + 1
  <2>1. \A g \in DOMAIN functions : functions[g].addr \in 1..Pos
    BY DEF Typed, CodeOK
  <2>2. Pos \in Nat
    BY LenProperties DEF Typed, CodeOK, Pos
  <2> QED
    BY <2>1, <2>2
<1>7. \A g \in DOMAIN functions' :
        functions'[g].addr \in DOMAIN functionName' /\ functionName'[functions'[g].addr] = g
  BY <1>3, <1>4, <1>5, <1>6 DEF Calls, Put
<1>8. \A i \in 1..Pos' : code'[i].op = "CALL" =>
        \E g \in DOMAIN functions' : functions'[g].addr = code'[i].a
  <2> SUFFICES ASSUME NEW i \in 1..Pos', code'[i].op = "CALL"
               PROVE  \E g \in DOMAIN functions' : functions'[g].addr = code'[i].a
    OBVIOUS
  <2>1. i \in 1..Pos /\ code'[i] = code[i]
    BY <1>1 DEF Rewrites
  <2>2. PICK g \in DOMAIN functions : functions[g].addr = code[i].a
    BY <2>1 DEF Calls
  <2> QED
    BY <1>5, <2>1, <2>2
<1> QED
  BY <1>2, <1>7, <1>8 DEF Calls

LEMMA UserCallCalls ==
  ASSUME Typed, Calls, DeclaredFirst, UserCall
  PROVE  Calls'
<1>1. PICK f \in Funcs :
        /\ f \in DOMAIN functions \/ "forward" \in class.exprs
        /\ Pos' = Pos + 1 /\ code'[Pos + 1].op = "CALL"
        /\ code'[Pos + 1].a = IF f \in DOMAIN functions THEN functions[f].addr ELSE 0
        /\ \A i \in 1..Pos : code'[i] = code[i]
  BY UserCallExtends
<1>2. f \in DOMAIN functions
  BY <1>1 DEF DeclaredFirst, Calls
<1>3. UNCHANGED <<class, functions, functionName>>
  BY DEF UserCall, decls
<1>4. Pos \in Nat
  BY LenProperties DEF Typed, CodeOK, Pos
<1>5. \A i \in 1..Pos' : i \in 1..Pos \/ i = Pos + 1
  BY <1>1, <1>4
<1>6. \A i \in 1..Pos' : code'[i].op = "CALL" =>
        \E g \in DOMAIN functions : functions[g].addr = code'[i].a
  BY <1>1, <1>2, <1>5 DEF Calls
<1> QED
  BY <1>3, <1>6 DEF Calls

LEMMA NextCalls ==
  ASSUME Typed, Calls, DeclaredFirst, [Next]_cvars
  PROVE  Calls'
<1>1. CASE Computes
  <2>1. UNCHANGED <<class, decls>>
    BY <1>1 DEF Computes, Number, LargeNumber, Literal, Symbol, IncDec, Binary, Prefix, PrintCall,
         Operation, WithConstant, ArrayLiteral, ErrorExpr
  <2> QED
    BY <1>1, <2>1, ComputesRewrites, CallsKept DEF Typed
<1>2. CASE SimpleStmt
  <2>1. UNCHANGED <<class, decls>>
    BY <1>2 DEF SimpleStmt, BeginExpressionStmt, EndExpressionStmt, BeginVarDecl, EndVarDecl,
         AssignConstant, BeginAssign, BeginObject, EndAssign, BeginMemberAssign, BeginField,
         EndField, EndObject, BeginReturn, EndReturn, EmptyReturn, BeginEmit, EndEmit,
         BeginRequire, EndRequire
  <2> QED
    BY <1>2, <2>1, SimpleStmtRewrites, CallsKept
<1>3. CASE Construct /\ UNCHANGED <<class, decls>>
  BY <1>3, ConstructRewrites, CallsKept
<1>4. CASE Finish
  <2>1. UNCHANGED <<class, decls>> /\ pool' = pool /\ Emit(<<Op("HALT")>>)
    BY <1>4 DEF Finish
  <2>2. Rewrites
    BY <2>1, PoolKept, EmitsOp DEF Typed, PlainOps, Op
  <2> QED
    BY <2>1, <2>2, CallsKept
<1>5. CASE CompilerPanics \/ UNCHANGED cvars
  <2>1. UNCHANGED <<class, code, functions, functionName>>
    BY <1>5 DEF CompilerPanics, cvars, decls
  <2> QED
    BY <2>1 DEF Calls, Pos
<1>6. CASE Construct
  <2>1. UNCHANGED <<class, decls>> \/ \E f \in Funcs : EnterFunc(f)
    BY <1>6 DEF Construct, LeaveFunc, BeginIf, EnterThen, EnterElse, LeaveIf, BeginWhile,
         EnterWhile, LeaveWhile, BeginFor, BeginForCondition, EnterFor, EnterForPost, LeaveFor,
         EnterTry, EnterCatch, LeaveCatch
  <2> QED
    BY <1>3, <1>6, <2>1, EnterFuncCalls
<1>7. Next \/ UNCHANGED cvars
  OBVIOUS
<1> QED
  BY <1>1, <1>2, <1>4, <1>5, <1>6, <1>7, UserCallCalls DEF Next, ExprStep, Computes

(***************************************************************************)
(* If every function is declared once and before its calls, each CALL      *)
(* enters a compiled function, and the metadata the machine finds by its   *)
(* address is that function's own (expr.go:266; compiler.go:338; the       *)
(* assumption is needed: the run forward shows a call without it).         *)
(***************************************************************************)
THEOREM CallsBind ==
  ASSUME DeclaredFirst
  PROVE  Spec => []CallsBindTheirCallee
<1>1. Init => Calls
  BY InitCalls
<1>2. Typed /\ Calls /\ [Next]_cvars => Calls'
  BY NextCalls
<1>3. Typed /\ Calls => CallsBindTheirCallee
  <2> SUFFICES ASSUME Typed, Calls, NEW i \in DOMAIN code, code[i].op = "CALL"
               PROVE  /\ code[i].a \in DOMAIN functionName
                      /\ functions[functionName[code[i].a]].addr = code[i].a
    BY DEF CallsBindTheirCallee
  <2>1. i \in 1..Pos
    BY LenProperties DEF Typed, CodeOK, Pos
  <2> QED
    BY <2>1 DEF Calls
<1> QED
  BY <1>1, <1>2, <1>3, AlwaysTyped, PTL DEF Spec
----------------------------------------------------------------------------
(***************************************************************************)
(* Scopes: the flag isInFunction counts the open functions, a slot never   *)
(* has two names, and a name that the analyzer has accepted has a slot.    *)
(* Each is an invariant over the stack of open statements, whose entries   *)
(* hold what leaving them restores.                                        *)
(***************************************************************************)

----------------------------------------------------------------------------
(* The stack of open statements, position by position.                     *)

LEMMA Pushed ==
  ASSUME OpenOK, NEW e \in Statements, open' = Append(open, e)
  PROVE  /\ Len(open) \in Nat /\ Len(open') = Len(open) + 1
         /\ \A i \in 1..Len(open) : open'[i] = open[i]
         /\ open'[Len(open) + 1] = e
         /\ \A i \in 1..Len(open') : i \in 1..Len(open) \/ i = Len(open) + 1
<1>1. open \in Seq(Statements) /\ Len(open) \in Nat
  BY LenProperties DEF OpenOK
<1> QED
  BY <1>1, AppendedProperties

LEMMA Changed ==
  ASSUME OpenOK, open # <<>>, NEW e \in Statements, open' = [open EXCEPT ![Len(open)] = e]
  PROVE  /\ Len(open) \in Nat \ {0} /\ Len(open') = Len(open)
         /\ \A i \in 1..(Len(open) - 1) : open'[i] = open[i]
         /\ open'[Len(open)] = e
         /\ \A i \in 1..Len(open') : i \in 1..(Len(open) - 1) \/ i = Len(open)
<1>1. open \in Seq(Statements) /\ Len(open) \in Nat \ {0}
  BY EmptySeq DEF OpenOK
<1> QED
  BY <1>1, LastRewritten

LEMMA Popped ==
  ASSUME OpenOK, open # <<>>, open' = Front(open)
  PROVE  /\ Len(open) \in Nat \ {0} /\ Len(open') = Len(open) - 1
         /\ \A i \in 1..(Len(open) - 1) : open'[i] = open[i]
         /\ Inner = open[Len(open)] /\ Inner \in Statements
<1>1. open \in Seq(Statements)
  BY DEF OpenOK
<1> QED
  BY <1>1, FrontProperties DEF Inner

----------------------------------------------------------------------------
(* Functions, open and entered (stmt.go:105 and :131: the flag is saved    *)
(* before a body and restored after it).                                   *)

FuncBelow(o, k) == \E i \in 1..(k - 1) : o[i].kind = "func"

FuncNesting ==
  /\ isInFunction <=> FuncBelow(open, Len(open) + 1)
  /\ \A k \in 1..Len(open) :
       open[k].kind = "func" => (open[k].inFunction <=> FuncBelow(open, k))

\* Opening, continuing or closing another statement disturbs no function.
LEMMA NestedKept ==
  ASSUME Typed, FuncNesting, UNCHANGED isInFunction,
         \/ UNCHANGED open
         \/ \E e \in Statements : open' = Append(open, e) /\ e.kind # "func"
         \/ /\ open # <<>> /\ Inner.kind # "func"
            /\ \/ open' = Front(open)
               \/ \E e \in Statements :
                    open' = [open EXCEPT ![Len(open)] = e] /\ e.kind # "func"
  PROVE  FuncNesting'
<1>1. OpenOK
  BY DEF Typed
<1>2. CASE UNCHANGED open
  BY <1>2 DEF FuncNesting
<1>3. ASSUME NEW e \in Statements, open' = Append(open, e), e.kind # "func"
      PROVE  FuncNesting'
  <2>1. /\ Len(open) \in Nat /\ Len(open') = Len(open) + 1
        /\ \A i \in 1..Len(open) : open'[i] = open[i]
        /\ open'[Len(open) + 1] = e
        /\ \A i \in 1..Len(open') : i \in 1..Len(open) \/ i = Len(open) + 1
    BY <1>1, <1>3, Pushed
  <2>2. ASSUME NEW k \in 1..(Len(open) + 1)
        PROVE  FuncBelow(open', k) <=> FuncBelow(open, k)
    BY <2>1 DEF FuncBelow
  <2>3. FuncBelow(open', Len(open') + 1) <=> FuncBelow(open, Len(open) + 1)
    BY <1>3, <2>1 DEF FuncBelow
  <2> QED
    BY <1>3, <2>1, <2>2, <2>3 DEF FuncNesting
<1>4. CASE open # <<>> /\ Inner.kind # "func" /\ open' = Front(open)
  <2>1. /\ Len(open) \in Nat \ {0} /\ Len(open') = Len(open) - 1
        /\ \A i \in 1..(Len(open) - 1) : open'[i] = open[i]
        /\ Inner = open[Len(open)]
    BY <1>1, <1>4, Popped
  <2>2. ASSUME NEW k \in 1..Len(open)
        PROVE  FuncBelow(open', k) <=> FuncBelow(open, k)
    BY <2>1 DEF FuncBelow
  <2>3. FuncBelow(open', Len(open') + 1) <=> FuncBelow(open, Len(open) + 1)
    <3>1. FuncBelow(open', Len(open)) <=> FuncBelow(open, Len(open))
      BY <2>1, <2>2
    <3>2. FuncBelow(open, Len(open)) <=> FuncBelow(open, Len(open) + 1)
      BY <1>4, <2>1 DEF FuncBelow
    <3> QED
      BY <2>1, <3>1, <3>2
  <2> QED
    BY <2>1, <2>2, <2>3 DEF FuncNesting
<1>5. ASSUME NEW e \in Statements, open # <<>>, Inner.kind # "func",
             open' = [open EXCEPT ![Len(open)] = e], e.kind # "func"
      PROVE  FuncNesting'
  <2>1. /\ Len(open) \in Nat \ {0} /\ Len(open') = Len(open)
        /\ \A i \in 1..(Len(open) - 1) : open'[i] = open[i]
        /\ open'[Len(open)] = e
        /\ \A i \in 1..Len(open') : i \in 1..(Len(open) - 1) \/ i = Len(open)
        /\ Inner = open[Len(open)]
    BY <1>1, <1>5, Changed, InnerIsPlaced
  <2>2. ASSUME NEW k \in 1..Len(open)
        PROVE  FuncBelow(open', k) <=> FuncBelow(open, k)
    BY <2>1 DEF FuncBelow
  <2>3. FuncBelow(open', Len(open') + 1) <=> FuncBelow(open, Len(open) + 1)
    <3>1. \A i \in 1..Len(open) : i \in 1..(Len(open) - 1) \/ i = Len(open)
      BY <2>1
    <3>2. \A i \in 1..Len(open) : open'[i].kind = "func" <=> open[i].kind = "func"
      BY <1>5, <2>1, <3>1
    <3>3. Len(open') + 1 - 1 = Len(open) /\ Len(open) + 1 - 1 = Len(open)
      BY <2>1
    <3> QED
      BY <3>2, <3>3 DEF FuncBelow
  <2> QED
    BY <1>5, <2>1, <2>2, <2>3 DEF FuncNesting
<1> QED
  BY <1>2, <1>3, <1>4, <1>5

LEMMA InitNested == Init => FuncNesting
BY DEF Init, FuncNesting, FuncBelow

LEMMA NextNested == Typed /\ FuncNesting /\ [Next]_cvars => FuncNesting'
<1> SUFFICES ASSUME Typed, FuncNesting, [Next]_cvars PROVE FuncNesting'
  OBVIOUS
<1>1. OpenOK
  BY DEF Typed
<1>2. CASE Simple
  BY <1>2, SimpleSteps, NestedKept
<1>3. CASE Opens
  BY <1>3, OpeningSteps, NestedKept
<1>4. CASE GoesOn
  BY <1>4, GoingOnSteps, NestedKept
<1>5. CASE Closes
  BY <1>5, ClosingSteps, NestedKept
<1>6. CASE EnterTry
  BY <1>6, TryRecord, NestedKept DEF EnterTry
<1>7. ASSUME NEW x \in Names, EnterCatch(x) PROVE FuncNesting'
  <2>1. PICK e \in Statements : open' = [open EXCEPT ![Len(open)] = e] /\ e.kind = "catch"
    BY <1>7, CatchRecord
  <2> QED
    BY <1>7, <2>1, CatchRecord, NestedKept DEF EnterCatch
<1>8. CASE LeaveCatch
  BY <1>8, NestedKept DEF LeaveCatch, Inside
<1>9. ASSUME NEW f \in Funcs, EnterFunc(f) PROVE FuncNesting'
  <2>1. PICK e \in Statements : open' = Append(open, e) /\ e.kind = "func"
                                /\ e.inFunction = isInFunction
    BY <1>9, FuncRecord
  <2>2. /\ Len(open) \in Nat /\ Len(open') = Len(open) + 1
        /\ \A i \in 1..Len(open) : open'[i] = open[i]
        /\ open'[Len(open) + 1] = e
        /\ \A i \in 1..Len(open') : i \in 1..Len(open) \/ i = Len(open) + 1
    BY <1>1, <2>1, Pushed
  <2>3. ASSUME NEW k \in 1..(Len(open) + 1)
        PROVE  FuncBelow(open', k) <=> FuncBelow(open, k)
    BY <2>2 DEF FuncBelow
  <2>4. FuncBelow(open', Len(open') + 1) /\ isInFunction'
    <3>1. Len(open) + 1 \in 1..(Len(open') + 1 - 1)
      BY <2>2
    <3>2. FuncBelow(open', Len(open') + 1)
      BY <2>1, <2>2, <3>1 DEF FuncBelow
    <3> QED
      BY <1>9, <3>2 DEF EnterFunc
  <2>5. e.inFunction <=> FuncBelow(open', Len(open) + 1)
    <3>1. Len(open) + 1 \in 1..(Len(open) + 1)
      BY <2>2
    <3> QED
      BY <2>1, <2>3, <3>1 DEF FuncNesting
  <2> QED
    BY <2>1, <2>2, <2>3, <2>4, <2>5 DEF FuncNesting
<1>10. CASE LeaveFunc
  <2>1. open # <<>> /\ Inner.kind = "func" /\ open' = Front(open)
        /\ isInFunction' = Inner.inFunction
    BY <1>10 DEF LeaveFunc, Inside
  <2>2. /\ Len(open) \in Nat \ {0} /\ Len(open') = Len(open) - 1
        /\ \A i \in 1..(Len(open) - 1) : open'[i] = open[i]
        /\ Inner = open[Len(open)] /\ Len(open) \in 1..Len(open)
    BY <1>1, <2>1, Popped
  <2>3. ASSUME NEW k \in 1..Len(open)
        PROVE  FuncBelow(open', k) <=> FuncBelow(open, k)
    BY <2>2 DEF FuncBelow
  <2>4. isInFunction' <=> FuncBelow(open, Len(open))
    BY <2>1, <2>2 DEF FuncNesting
  <2>5. FuncBelow(open', Len(open') + 1) <=> FuncBelow(open, Len(open))
    BY <2>2, <2>3
  <2> QED
    BY <2>2, <2>3, <2>4, <2>5 DEF FuncNesting
<1> QED
  BY <1>2, <1>3, <1>4, <1>5, <1>6, <1>7, <1>8, <1>9, <1>10, Steps

----------------------------------------------------------------------------
(* Slots. Leaving a function or a catch block brings back names that were  *)
(* bound before it, so a slot must belong to one name in every table that  *)
(* is kept; and an open try statement holds a slot that no name has.       *)

Binds(m, x, s) == x \in DOMAIN m /\ m[x] = s
OpenBinds(o, x, s) == \E i \in 1..Len(o) : Binds(o[i].symbols, x, s)
BindsIn(m, o, x, s) == Binds(m, x, s) \/ OpenBinds(o, x, s)

Slots ==
  /\ \A x, s : BindsIn(symbols, open, x, s) => s \in 1..(nextSlot - 1)
  /\ \A x, y, s : BindsIn(symbols, open, x, s) /\ BindsIn(symbols, open, y, s) => x = y
  /\ \A i \in 1..Len(open) : open[i].kind = "try" =>
       open[i].slot \in 1..(nextSlot - 1) /\ \A x : ~BindsIn(symbols, open, x, open[i].slot)
  /\ \A i, j \in 1..Len(open) :
       open[i].kind = "try" /\ open[j].kind = "try" /\ i # j => open[i].slot # open[j].slot

\* No try statement is entered.
TriesKept ==
  \A i \in 1..Len(open') : open'[i].kind = "try" =>
    i \in 1..Len(open) /\ open[i].kind = "try" /\ open'[i].slot = open[i].slot

LEMMA SlotRanges ==
  ASSUME NEW n \in Nat \ {0}, NEW m \in Nat, n <= m
  PROVE  /\ \A s \in 1..(n - 1) : s \in 1..(m - 1) /\ s \notin n..(m - 1)
         /\ \A s \in n..(m - 1) : s \in 1..(m - 1)
OBVIOUS

\* New bindings take slots never used before, one for each name.
LEMMA FreshBindings ==
  ASSUME Slots, nextSlot \in Nat \ {0}, nextSlot' \in Nat, nextSlot <= nextSlot', TriesKept,
         \A x, s : BindsIn(symbols', open', x, s) =>
                     BindsIn(symbols, open, x, s) \/ s \in nextSlot..(nextSlot' - 1),
         \A x, y, s : /\ s \in nextSlot..(nextSlot' - 1)
                      /\ BindsIn(symbols', open', x, s) /\ BindsIn(symbols', open', y, s)
                      => x = y
  PROVE  Slots'
<1>1. \A x, s : BindsIn(symbols, open, x, s) => s \in 1..(nextSlot - 1)
  BY DEF Slots
<1>2. \A s \in 1..(nextSlot - 1) : s \in 1..(nextSlot' - 1) /\ s \notin nextSlot..(nextSlot' - 1)
  BY SlotRanges
<1>3. \A x, s : BindsIn(symbols', open', x, s) => s \in 1..(nextSlot' - 1)
  <2>1. \A s \in nextSlot..(nextSlot' - 1) : s \in 1..(nextSlot' - 1)
    BY SlotRanges
  <2> QED
    BY <1>1, <1>2, <2>1
<1>4. \A x, y, s : BindsIn(symbols', open', x, s) /\ BindsIn(symbols', open', y, s) => x = y
  <2> SUFFICES ASSUME NEW x, NEW y, NEW s, BindsIn(symbols', open', x, s),
                      BindsIn(symbols', open', y, s), s \notin nextSlot..(nextSlot' - 1)
               PROVE  x = y
    OBVIOUS
  <2>1. BindsIn(symbols, open, x, s) /\ BindsIn(symbols, open, y, s)
    OBVIOUS
  <2> QED
    BY <2>1 DEF Slots
<1>5. ASSUME NEW i \in 1..Len(open'), open'[i].kind = "try"
      PROVE  /\ open'[i].slot \in 1..(nextSlot' - 1)
             /\ \A x : ~BindsIn(symbols', open', x, open'[i].slot)
  <2>1. /\ i \in 1..Len(open) /\ open[i].kind = "try" /\ open'[i].slot = open[i].slot
    BY <1>5 DEF TriesKept
  <2>2. open[i].slot \in 1..(nextSlot - 1) /\ \A x : ~BindsIn(symbols, open, x, open[i].slot)
    BY <2>1 DEF Slots
  <2> QED
    BY <1>2, <2>1, <2>2
<1>6. \A i, j \in 1..Len(open') :
        open'[i].kind = "try" /\ open'[j].kind = "try" /\ i # j => open'[i].slot # open'[j].slot
  BY DEF TriesKept, Slots
<1> QED
  BY <1>3, <1>4, <1>5, <1>6 DEF Slots

\* Most steps bring no new table onto the stack of open statements.
LEMMA OpenBindingsKept ==
  ASSUME OpenOK,
         \/ UNCHANGED open
         \/ \E e \in Statements :
              open' = Append(open, e) /\ e.kind # "try" /\ e.symbols = NoEntries
         \/ /\ open # <<>>
            /\ \/ open' = Front(open)
               \/ \E e \in Statements : /\ open' = [open EXCEPT ![Len(open)] = e]
                                        /\ e.kind # "try" /\ e.symbols = Inner.symbols
  PROVE  /\ TriesKept
         /\ \A x, s : OpenBinds(open', x, s) => OpenBinds(open, x, s)
<1>1. CASE UNCHANGED open
  BY <1>1 DEF TriesKept
<1>2. ASSUME NEW e \in Statements, open' = Append(open, e), e.kind # "try",
             e.symbols = NoEntries
      PROVE  /\ TriesKept
             /\ \A x, s : OpenBinds(open', x, s) => OpenBinds(open, x, s)
  <2>1. /\ Len(open) \in Nat /\ Len(open') = Len(open) + 1
        /\ \A i \in 1..Len(open) : open'[i] = open[i]
        /\ open'[Len(open) + 1] = e
        /\ \A i \in 1..Len(open') : i \in 1..Len(open) \/ i = Len(open) + 1
    BY <1>2, Pushed
  <2>2. \A x, s : ~Binds(e.symbols, x, s)
    BY <1>2 DEF Binds, NoEntries
  <2> QED
    BY <1>2, <2>1, <2>2 DEF TriesKept, OpenBinds
<1>3. CASE open # <<>> /\ open' = Front(open)
  <2>1. /\ Len(open) \in Nat \ {0} /\ Len(open') = Len(open) - 1
        /\ \A i \in 1..(Len(open) - 1) : open'[i] = open[i]
    BY <1>3, Popped
  <2>2. \A i \in 1..Len(open') : i \in 1..Len(open) /\ open'[i] = open[i]
    BY <2>1
  <2> QED
    BY <2>2 DEF TriesKept, OpenBinds
<1>4. ASSUME NEW e \in Statements, open # <<>>, open' = [open EXCEPT ![Len(open)] = e],
             e.kind # "try", e.symbols = Inner.symbols
      PROVE  /\ TriesKept
             /\ \A x, s : OpenBinds(open', x, s) => OpenBinds(open, x, s)
  <2>1. /\ Len(open) \in Nat \ {0} /\ Len(open') = Len(open)
        /\ \A i \in 1..(Len(open) - 1) : open'[i] = open[i]
        /\ open'[Len(open)] = e
        /\ \A i \in 1..Len(open') : i \in 1..(Len(open) - 1) \/ i = Len(open)
        /\ Inner = open[Len(open)]
    BY <1>4, Changed, InnerIsPlaced
  <2>2. \A i \in 1..Len(open') : i \in 1..Len(open) /\ open'[i].symbols = open[i].symbols
    BY <1>4, <2>1
  <2>3. \A i \in 1..Len(open') : open'[i].kind = "try" => open'[i] = open[i]
    BY <1>4, <2>1
  <2> QED
    BY <2>2, <2>3 DEF TriesKept, OpenBinds
<1> QED
  BY <1>1, <1>2, <1>3, <1>4

\* A name without a slot gets the next one, or a declared name a new one.
LEMMA NameBound ==
  ASSUME ScopeTyped, Slots, NEW x, NewName(x) \/ AllocSlot(x), TriesKept,
         \A y, s : OpenBinds(open', y, s) => OpenBinds(open, y, s)
  PROVE  Slots'
<1>1. nextSlot \in Nat \ {0}
  BY DEF ScopeTyped
<1>2. \A y, s : OpenBinds(open, y, s) => s \in 1..(nextSlot - 1)
  BY DEF Slots, BindsIn
<1>3. CASE UNCHANGED <<symbols, nextSlot>>
  <2>1. \A y, s : BindsIn(symbols', open', y, s) => BindsIn(symbols, open, y, s)
    BY <1>3 DEF BindsIn
  <2>2. \A s : s \notin nextSlot..(nextSlot' - 1)
    BY <1>1, <1>3
  <2> QED
    BY <1>1, <1>3, <2>1, <2>2, FreshBindings
<1>4. CASE AllocSlot(x)
  <2>1. symbols' = Put(symbols, x, nextSlot) /\ nextSlot' = nextSlot + 1
    BY <1>4 DEF AllocSlot
  <2>2. \A y, s : Binds(symbols', y, s) => Binds(symbols, y, s) \/ (y = x /\ s = nextSlot)
    BY <2>1 DEF Binds, Put
  <2>3. \A s : s \in nextSlot..(nextSlot' - 1) <=> s = nextSlot
    BY <1>1, <2>1
  <2>4. \A y, s : BindsIn(symbols', open', y, s) =>
                    BindsIn(symbols, open, y, s) \/ (y = x /\ s = nextSlot)
    BY <2>2 DEF BindsIn
  <2>5. \A y : ~BindsIn(symbols, open, y, nextSlot)
    BY <1>1 DEF Slots
  <2>6. nextSlot' \in Nat /\ nextSlot <= nextSlot'
    BY <1>1, <2>1
  <2> QED
    BY <1>1, <2>3, <2>4, <2>5, <2>6, FreshBindings
<1> QED
  BY <1>3, <1>4 DEF NewName

\* Leaving a scope brings back bindings that were kept.
LEMMA NothingBound ==
  ASSUME ScopeTyped, Slots, UNCHANGED nextSlot, TriesKept,
         \A x, s : Binds(symbols', x, s) => BindsIn(symbols, open, x, s),
         \A x, s : OpenBinds(open', x, s) => OpenBinds(open, x, s)
  PROVE  Slots'
<1>1. nextSlot \in Nat \ {0}
  BY DEF ScopeTyped
<1>2. \A x, s : BindsIn(symbols', open', x, s) => BindsIn(symbols, open, x, s)
  BY DEF BindsIn
<1>3. \A s : s \notin nextSlot..(nextSlot' - 1)
  BY <1>1
<1> QED
  BY <1>1, <1>2, <1>3, FreshBindings

\* What statements do to the table of names, apart from functions and catch blocks.
LEMMA SimpleScope ==
  ASSUME Simple
  PROVE  UNCHANGED <<symbols, nextSlot>> \/ \E x : NewName(x) \/ AllocSlot(x)
<1>1. CASE EndVarDecl
  BY <1>1 DEF EndVarDecl
<1>2. CASE \E x \in Names : BeginAssign(x)
  BY <1>2 DEF BeginAssign
<1>3. CASE \E x \in Names, isConst \in BOOLEAN : BeginVarDecl(x, isConst)
  BY <1>3 DEF BeginVarDecl
<1>4. CASE ExprStep
  BY <1>4 DEF ExprStep, Number, LargeNumber, Literal, Symbol, IncDec, Binary, Prefix, UserCall,
       PrintCall, Operation, WithConstant, ArrayLiteral, ErrorExpr, scope
<1>5. CASE BeginExpressionStmt \/ EndExpressionStmt \/ EndAssign \/ BeginMemberAssign
             \/ BeginField \/ EndField \/ BeginReturn \/ EndReturn \/ EmptyReturn
             \/ BeginEmit \/ EndEmit \/ BeginRequire \/ EndRequire
             \/ BeginIf \/ BeginWhile \/ BeginForCondition \/ Finish \/ CompilerPanics
             \/ (\E x \in Names : AssignConstant(x)) \/ UNCHANGED cvars
  BY <1>5 DEF BeginExpressionStmt, EndExpressionStmt, EndAssign, BeginMemberAssign, BeginField,
       EndField, BeginReturn, EndReturn, EmptyReturn, BeginEmit, EndEmit, BeginRequire,
       EndRequire, BeginIf, BeginWhile, BeginForCondition, Finish, CompilerPanics,
       AssignConstant, cvars, scope
<1> QED
  BY <1>1, <1>2, <1>3, <1>4, <1>5 DEF Simple

LEMMA OpeningScope ==
  ASSUME Opens
  PROVE  UNCHANGED <<symbols, nextSlot>> \/ \E x : NewName(x)
BY DEF Opens, EnterThen, EnterWhile, BeginFor, BeginObject, scope

LEMMA EnterFuncSlots ==
  ASSUME Typed, Slots, NEW f \in Funcs, EnterFunc(f)
  PROVE  Slots'
<1>1. OpenOK /\ ScopeTyped /\ nextSlot \in Nat \ {0}
  BY DEF Typed, ScopeTyped
<1>2. PICK e \in Statements : open' = Append(open, e) /\ e.kind = "func" /\ e.symbols = symbols
  BY FuncRecord
<1>3. /\ Len(open) \in Nat /\ Len(open') = Len(open) + 1
      /\ \A i \in 1..Len(open) : open'[i] = open[i]
      /\ open'[Len(open) + 1] = e
      /\ \A i \in 1..Len(open') : i \in 1..Len(open) \/ i = Len(open) + 1
  BY <1>1, <1>2, Pushed
<1>4. TriesKept
  BY <1>2, <1>3 DEF TriesKept
<1>5. \A x, s : OpenBinds(open', x, s) => BindsIn(symbols, open, x, s)
  BY <1>2, <1>3 DEF OpenBinds, BindsIn
<1>6. PICK n \in Nat : n = Len(Params[f])
  BY <1>1, ParamsBound
<1>7. symbols' = WithParams(f) /\ nextSlot' = nextSlot + n
  BY <1>6 DEF EnterFunc
<1>8. \A x \in Range(Params[f]) :
        \E i \in 1..n : Params[f][i] = x /\ symbols'[x] = nextSlot - 1 + i
  BY <1>1, <1>6, <1>7, ParamsBound
<1>9. \A x, s : Binds(symbols', x, s) => Binds(symbols, x, s) \/ x \in Range(Params[f])
  BY <1>1, <1>7, ParamsBound DEF Binds
<1>10. ASSUME NEW x \in Range(Params[f])
       PROVE  symbols'[x] \in nextSlot..(nextSlot' - 1)
  <2>1. PICK i \in 1..n : symbols'[x] = nextSlot - 1 + i
    BY <1>8
  <2>2. nextSlot - 1 + i \in nextSlot..(nextSlot + n - 1)
    BY <1>1
  <2>3. nextSlot' - 1 = nextSlot + n - 1
    BY <1>1, <1>7
  <2> QED
    BY <2>1, <2>2, <2>3
<1>11. \A x, s : BindsIn(symbols', open', x, s) =>
                   BindsIn(symbols, open, x, s)
                   \/ (x \in Range(Params[f]) /\ symbols'[x] = s)
  BY <1>5, <1>9 DEF BindsIn, Binds
<1>12. ASSUME NEW x, NEW y, NEW s \in nextSlot..(nextSlot' - 1),
              BindsIn(symbols', open', x, s), BindsIn(symbols', open', y, s)
       PROVE  x = y
  <2>1. nextSlot' \in Nat /\ nextSlot <= nextSlot'
    BY <1>1, <1>7
  <2>2. s \notin 1..(nextSlot - 1)
    BY <1>1, <2>1, SlotRanges
  <2>3. ~BindsIn(symbols, open, x, s) /\ ~BindsIn(symbols, open, y, s)
    BY <2>2 DEF Slots
  <2>4. x \in Range(Params[f]) /\ symbols'[x] = s /\ y \in Range(Params[f]) /\ symbols'[y] = s
    BY <1>11, <1>12, <2>3
  <2>5. PICK i \in 1..n : Params[f][i] = x /\ s = nextSlot - 1 + i
    BY <1>8, <2>4
  <2>6. PICK j \in 1..n : Params[f][j] = y /\ s = nextSlot - 1 + j
    BY <1>8, <2>4
  <2>7. i = j
    BY <1>1, <2>5, <2>6
  <2> QED
    BY <2>5, <2>6, <2>7
<1>13. nextSlot' \in Nat /\ nextSlot <= nextSlot'
  BY <1>1, <1>7
<1>14. \A x, s : BindsIn(symbols', open', x, s) =>
                   BindsIn(symbols, open, x, s) \/ s \in nextSlot..(nextSlot' - 1)
  BY <1>10, <1>11
<1> QED
  BY <1>1, <1>4, <1>12, <1>13, <1>14, FreshBindings

LEMMA EnterTrySlots ==
  ASSUME Typed, Slots, EnterTry
  PROVE  Slots'
<1>1. OpenOK /\ nextSlot \in Nat \ {0}
  BY DEF Typed, ScopeTyped
<1>2. PICK e \in Statements : open' = Append(open, e) /\ e.kind = "try" /\ e.slot = nextSlot
                              /\ e.symbols = NoEntries
  BY TryRecord
<1>3. /\ Len(open) \in Nat /\ Len(open') = Len(open) + 1
      /\ \A i \in 1..Len(open) : open'[i] = open[i]
      /\ open'[Len(open) + 1] = e
      /\ \A i \in 1..Len(open') : i \in 1..Len(open) \/ i = Len(open) + 1
  BY <1>1, <1>2, Pushed
<1>4. symbols' = symbols /\ nextSlot' = nextSlot + 1
  BY DEF EnterTry
<1>5. \A x, s : ~Binds(e.symbols, x, s)
  BY <1>2 DEF Binds, NoEntries
<1>6. \A x, s : BindsIn(symbols', open', x, s) => BindsIn(symbols, open, x, s)
  BY <1>3, <1>4, <1>5 DEF BindsIn, OpenBinds
<1>7. \A s \in 1..(nextSlot - 1) : s \in 1..(nextSlot' - 1) /\ s # nextSlot
  BY <1>1, <1>4
<1>8. nextSlot \in 1..(nextSlot' - 1)
  BY <1>1, <1>4
<1>9. \A x, s : BindsIn(symbols', open', x, s) => s \in 1..(nextSlot' - 1) /\ s # nextSlot
  BY <1>6, <1>7 DEF Slots
<1>10. ASSUME NEW i \in 1..Len(open'), open'[i].kind = "try"
       PROVE  /\ open'[i].slot \in 1..(nextSlot' - 1)
              /\ \A x : ~BindsIn(symbols', open', x, open'[i].slot)
  <2>1. CASE i \in 1..Len(open)
    <3>1. open[i].slot \in 1..(nextSlot - 1) /\ \A x : ~BindsIn(symbols, open, x, open[i].slot)
      BY <1>3, <1>10, <2>1 DEF Slots
    <3> QED
      BY <1>3, <1>6, <1>7, <2>1, <3>1
  <2>2. CASE i = Len(open) + 1
    BY <1>2, <1>3, <1>8, <1>9, <2>2
  <2> QED
    BY <1>3, <2>1, <2>2
<1>11. ASSUME NEW i \in 1..Len(open'), NEW j \in 1..Len(open'), i # j,
              open'[i].kind = "try", open'[j].kind = "try"
       PROVE  open'[i].slot # open'[j].slot
  <2>1. \A k \in 1..Len(open) : open[k].kind = "try" => open[k].slot # nextSlot
    BY <1>7 DEF Slots
  <2>2. CASE i \in 1..Len(open) /\ j \in 1..Len(open)
    BY <1>3, <1>11, <2>2 DEF Slots
  <2>3. CASE i = Len(open) + 1
    BY <1>2, <1>3, <1>11, <2>1, <2>3
  <2>4. CASE j = Len(open) + 1
    BY <1>2, <1>3, <1>11, <2>1, <2>4
  <2> QED
    BY <1>3, <2>2, <2>3, <2>4
<1>12. \A x, y, s : BindsIn(symbols', open', x, s) /\ BindsIn(symbols', open', y, s) => x = y
  BY <1>6 DEF Slots
<1> QED
  BY <1>9, <1>10, <1>11, <1>12 DEF Slots

\* The variable of a catch block takes the slot of its try statement.
LEMMA EnterCatchSlots ==
  ASSUME Typed, Slots, NEW x \in Names, EnterCatch(x)
  PROVE  Slots'
<1>1. OpenOK /\ nextSlot \in Nat \ {0}
  BY DEF Typed, ScopeTyped
<1>2. open # <<>> /\ Inner.kind = "try"
  BY CatchRecord
<1>3. PICK e \in Statements :
        /\ open' = [open EXCEPT ![Len(open)] = e] /\ e.kind = "catch"
        /\ e.symbols = [y \in DOMAIN symbols \cap {x} |-> symbols[y]]
  BY CatchRecord
<1>4. /\ Len(open) \in Nat \ {0} /\ Len(open') = Len(open)
      /\ \A i \in 1..(Len(open) - 1) : open'[i] = open[i]
      /\ open'[Len(open)] = e
      /\ \A i \in 1..Len(open') : i \in 1..(Len(open) - 1) \/ i = Len(open)
      /\ Inner = open[Len(open)]
  BY <1>1, <1>2, <1>3, Changed, InnerIsPlaced
<1>5. Len(open) \in 1..Len(open) /\ \A i \in 1..(Len(open) - 1) : i \in 1..Len(open) /\ i # Len(open)
  BY <1>4
<1>6. symbols' = Put(symbols, x, Inner.slot) /\ nextSlot' = nextSlot
  BY DEF EnterCatch
<1>7. \A y, s : Binds(e.symbols, y, s) => Binds(symbols, y, s)
  BY <1>3 DEF Binds
<1>8. \A y, s : OpenBinds(open', y, s) => BindsIn(symbols, open, y, s)
  BY <1>4, <1>5, <1>7 DEF OpenBinds, BindsIn
<1>9. \A y, s : Binds(symbols', y, s) => Binds(symbols, y, s) \/ (y = x /\ s = Inner.slot)
  BY <1>6 DEF Binds, Put
<1>10. \A y, s : BindsIn(symbols', open', y, s) =>
                   BindsIn(symbols, open, y, s) \/ (y = x /\ s = Inner.slot)
  BY <1>8, <1>9 DEF BindsIn
<1>11. Inner.slot \in 1..(nextSlot - 1) /\ \A y : ~BindsIn(symbols, open, y, Inner.slot)
  BY <1>2, <1>4, <1>5 DEF Slots
<1>12. \A y, s : BindsIn(symbols', open', y, s) => s \in 1..(nextSlot' - 1)
  BY <1>6, <1>10, <1>11 DEF Slots
<1>13. \A y, z, s : BindsIn(symbols', open', y, s) /\ BindsIn(symbols', open', z, s) => y = z
  BY <1>10, <1>11 DEF Slots
<1>14. \A i \in 1..Len(open') : open'[i].kind = "try" =>
         i \in 1..(Len(open) - 1) /\ open'[i] = open[i]
  BY <1>3, <1>4
<1>15. ASSUME NEW i \in 1..Len(open'), open'[i].kind = "try"
       PROVE  /\ open'[i].slot \in 1..(nextSlot' - 1)
              /\ \A y : ~BindsIn(symbols', open', y, open'[i].slot)
  <2>1. i \in 1..Len(open) /\ i # Len(open) /\ open'[i] = open[i] /\ open[i].kind = "try"
    BY <1>5, <1>14, <1>15
  <2>2. /\ open[i].slot \in 1..(nextSlot - 1) /\ open[i].slot # Inner.slot
        /\ \A y : ~BindsIn(symbols, open, y, open[i].slot)
    BY <1>2, <1>4, <1>5, <2>1 DEF Slots
  <2> QED
    BY <1>6, <1>10, <2>1, <2>2
<1>16. \A i, j \in 1..Len(open') :
         open'[i].kind = "try" /\ open'[j].kind = "try" /\ i # j => open'[i].slot # open'[j].slot
  BY <1>5, <1>14 DEF Slots
<1> QED
  BY <1>12, <1>13, <1>15, <1>16 DEF Slots

LEMMA InitSlots == Init => Slots
BY DEF Init, Slots, BindsIn, Binds, OpenBinds, NoEntries

LEMMA NextSlots == Typed /\ Slots /\ [Next]_cvars => Slots'
<1> SUFFICES ASSUME Typed, Slots, [Next]_cvars PROVE Slots'
  OBVIOUS
<1>1. OpenOK /\ ScopeTyped
  BY DEF Typed
<1>2. \A x, s : Binds(symbols, x, s) => BindsIn(symbols, open, x, s)
  BY DEF BindsIn
<1>3. CASE Simple
  BY <1>1, <1>2, <1>3, SimpleSteps, SimpleScope, OpenBindingsKept, NameBound, NothingBound
<1>4. CASE Opens
  <2>1. \E e \in Statements : open' = Append(open, e) /\ e.kind # "try" /\ e.symbols = NoEntries
    BY <1>4, OpeningSteps
  <2> QED
    BY <1>1, <1>2, <1>4, <2>1, OpeningScope, OpenBindingsKept, NameBound, NothingBound
<1>5. CASE GoesOn
  <2>1. /\ open # <<>> /\ UNCHANGED <<symbols, nextSlot>>
        /\ \E e \in Statements : /\ open' = [open EXCEPT ![Len(open)] = e]
                                 /\ e.kind # "try" /\ e.symbols = Inner.symbols
    BY <1>5, GoingOnSteps DEF scope
  <2> QED
    BY <1>1, <1>2, <2>1, OpenBindingsKept, NothingBound
<1>6. CASE Closes
  <2>1. open # <<>> /\ open' = Front(open) /\ UNCHANGED <<symbols, nextSlot>>
    BY <1>6, ClosingSteps DEF scope
  <2> QED
    BY <1>1, <1>2, <2>1, OpenBindingsKept, NothingBound
<1>7. CASE LeaveFunc \/ LeaveCatch
  <2>1. open # <<>> /\ open' = Front(open) /\ UNCHANGED nextSlot
    BY <1>7 DEF LeaveFunc, LeaveCatch, Inside
  <2>2. Inner = open[Len(open)] /\ Len(open) \in 1..Len(open)
    <3>1. Len(open) \in Nat \ {0} /\ Inner = open[Len(open)]
      BY <1>1, <2>1, Popped
    <3> QED
      BY <3>1
  <2>3. \A x, s : Binds(Inner.symbols, x, s) => BindsIn(symbols, open, x, s)
    BY <2>2 DEF BindsIn, OpenBinds
  <2>4. \A x, s : Binds(symbols', x, s) => Binds(Inner.symbols, x, s) \/ Binds(symbols, x, s)
    BY <1>7 DEF LeaveFunc, LeaveCatch, WithoutCatchVar, Binds
  <2> QED
    BY <1>1, <1>2, <2>1, <2>3, <2>4, OpenBindingsKept, NothingBound
<1> QED
  BY <1>3, <1>4, <1>5, <1>6, <1>7, EnterFuncSlots, EnterTrySlots, EnterCatchSlots, Steps

\* The three parts of the invariant hold together.
LEMMA AlwaysScoped == Spec => [](Typed /\ FuncNesting /\ Slots)
<1>1. Init => Typed /\ FuncNesting /\ Slots
  BY InitTyped, InitNested, InitSlots
<1>2. Typed /\ FuncNesting /\ Slots /\ [Next]_cvars => (Typed /\ FuncNesting /\ Slots)'
  BY NextTyped, NextNested, NextSlots
<1> QED
  BY <1>1, <1>2, PTL DEF Spec

(***************************************************************************)
(* The compiler's state keeps its types and its shape: every name in scope *)
(* has a slot already given out, every function's entry is in the code,    *)
(* and isInFunction, which decides between RET and PRINT for a return, is  *)
(* set just when a function is open (stmt.go:105, :131, :218).             *)
(***************************************************************************)
THEOREM CompilerTypeCorrect == Spec => []TypeOK
<1>1. Typed /\ FuncNesting /\ Slots => TypeOK
  <2> SUFFICES ASSUME Typed, FuncNesting, Slots PROVE TypeOK
    OBVIOUS
  <2>1. /\ stage \in {"compiling", "compiled", "panicked"}
        /\ Len(pool) <= MaxPool /\ nextSlot \in Nat \ {0}
        /\ called \subseteq Funcs /\ visible \subseteq Names
        /\ \A f \in DOMAIN functions : f \in Funcs /\ functions[f].addr \in 1..Pos
    BY DEF Typed, CodeOK, ScopeTyped
  <2>2. \A i \in DOMAIN code : code[i].a \in Nat /\ code[i].b \in 0..(Byte - 1)
    <3>1. \A i \in DOMAIN code : code[i] \in Emitted
      BY ElementOfSeq, LenProperties DEF Typed, CodeOK
    <3> QED
      BY <3>1 DEF Emitted
  <2>3. \A x \in DOMAIN symbols : x \in Names /\ symbols[x] \in 1..(nextSlot - 1)
    <3>1. \A x \in DOMAIN symbols : BindsIn(symbols, open, x, symbols[x])
      BY DEF BindsIn, Binds
    <3>2. DOMAIN symbols \subseteq Names
      BY DEF Typed, ScopeTyped, Tables
    <3> QED
      BY <3>1, <3>2 DEF Slots
  <2>4. isInFunction <=> \E i \in DOMAIN open : open[i].kind = "func"
    <3>1. DOMAIN open = 1..(Len(open) + 1 - 1)
      BY LenProperties DEF Typed, OpenOK
    <3> QED
      BY <3>1 DEF FuncNesting, FuncBelow
  <2> QED
    BY <2>1, <2>2, <2>3, <2>4 DEF TypeOK
<1> QED
  BY <1>1, AlwaysScoped, PTL

(***************************************************************************)
(* Two names in scope never share a slot and none has that of `this`, as   *)
(* long as the slots fit the operand byte, through every function and      *)
(* catch block entered and left (compiler.go:323 allocSlot).               *)
(***************************************************************************)
THEOREM SlotsStayDistinct == Spec => []SlotsDistinct
<1>1. Typed /\ Slots => SlotsDistinct
  <2> SUFFICES ASSUME Typed, Slots, nextSlot <= Byte
               PROVE  /\ \A x, y \in DOMAIN symbols :
                           x # y => symbols[x] % Byte # symbols[y] % Byte
                      /\ \A x \in DOMAIN symbols : symbols[x] % Byte # 0
    BY DEF SlotsDistinct
  <2>1. \A x \in DOMAIN symbols : BindsIn(symbols, open, x, symbols[x])
    BY DEF BindsIn, Binds
  <2>2. ASSUME NEW x \in DOMAIN symbols
        PROVE  symbols[x] \in Nat \ {0} /\ symbols[x] % Byte = symbols[x]
    <3>1. symbols[x] \in 1..(nextSlot - 1)
      BY <2>1 DEF Slots
    <3>2. nextSlot \in Nat \ {0}
      BY DEF Typed, ScopeTyped
    <3>3. symbols[x] \in Nat \ {0} /\ symbols[x] < Byte
      BY <3>1, <3>2, Limits
    <3> QED
      BY <3>3, Limits, Modulo
  <2>3. \A x, y \in DOMAIN symbols : x # y => symbols[x] # symbols[y]
    BY <2>1 DEF Slots
  <2> QED
    BY <2>2, <2>3
<1> QED
  BY <1>1, AlwaysScoped, PTL

----------------------------------------------------------------------------
(* What an assignment and an object under construction wait for: their     *)
(* variable has its slot already. Nothing is compiled inside an object but *)
(* its fields.                                                             *)

Pending ==
  /\ expr.for = "assignment" => expr.name \in DOMAIN symbols
  /\ \A i \in 1..Len(open) : open[i].kind = "object" =>
       i = Len(open) /\ open[i].name \in DOMAIN symbols
  /\ Inside("object") /\ InExpr => expr.for = "field"

LEMMA ExprFields ==
  /\ \A for, name, slot : Expr(for, name, slot).for = for /\ Expr(for, name, slot).name = name
  /\ NoExpr.for = "nothing"
BY DEF Expr, NoExpr

LEMMA Grows ==
  ASSUME NEW x, NewName(x) \/ AllocSlot(x)
  PROVE  DOMAIN symbols \subseteq DOMAIN symbols' /\ x \in DOMAIN symbols'
BY DEF NewName, AllocSlot, Put

LEMMA SimpleGrows ==
  ASSUME Simple
  PROVE  DOMAIN symbols \subseteq DOMAIN symbols'
<1>1. CASE UNCHANGED <<symbols, nextSlot>>
  BY <1>1
<1>2. CASE \E x : NewName(x) \/ AllocSlot(x)
  BY <1>2, Grows
<1> QED
  BY <1>1, <1>2, SimpleScope

\* What the next expression is compiled for.
LEMMA SimpleExpr ==
  ASSUME Typed, Simple
  PROVE  \/ expr'.for = "nothing" \/ expr'.for = "field"
         \/ expr'.for = expr.for /\ expr'.name = expr.name
         \/ ~Inside("object") /\ expr'.for # "assignment"
         \/ ~Inside("object") /\ expr'.name \in DOMAIN symbols'
<1>1. CASE ExprStep
  <2>1. PICK n : Built(n)
    BY <1>1 DEF ExprStep, Number, LargeNumber, Literal, Symbol, IncDec, Binary, Prefix, UserCall,
       PrintCall, Operation, WithConstant, ArrayLiteral, ErrorExpr, Leaf
  <2>2. expr \in Exprs
    BY DEF Typed, ExprOK
  <2>3. PICK d : expr' = [expr EXCEPT !.depth = d]
    BY <2>1 DEF Built
  <2> QED
    BY <2>2, <2>3 DEF Exprs
<1>2. CASE \E x \in Names : BeginAssign(x)
  <2>1. PICK x \in Names : BeginAssign(x)
    BY <1>2
  <2>2. ~Inside("object") /\ x \in DOMAIN symbols' /\ expr' = Expr("assignment", x, GetSlot(x))
    BY <2>1, Grows DEF BeginAssign, Begins
  <2> QED
    BY <2>2, ExprFields
<1>3. CASE \E x \in Names, isConst \in BOOLEAN : BeginVarDecl(x, isConst)
  BY <1>3, ExprFields DEF BeginVarDecl, Begins
<1>4. CASE BeginMemberAssign \/ BeginField
  <2>1. expr' = Expr("field", "", 0)
    BY <1>4 DEF BeginMemberAssign, BeginField
  <2> QED
    BY <2>1, ExprFields
<1>5. CASE BeginExpressionStmt \/ BeginReturn \/ BeginEmit \/ BeginRequire
             \/ BeginIf \/ BeginWhile
  <2>1. PICK for \in {"statement", "return", "event", "condition", "if", "while"},
             slot \in {0, Pos} : expr' = Expr(for, "", slot)
    BY <1>5 DEF BeginExpressionStmt, BeginReturn, BeginEmit, BeginRequire, BeginIf, BeginWhile
  <2>2. ~Inside("object")
    BY <1>5 DEF BeginExpressionStmt, BeginReturn, BeginEmit, BeginRequire, BeginIf, BeginWhile,
         Begins
  <2> QED
    BY <2>1, <2>2 DEF Expr
<1>6. CASE BeginForCondition
  BY <1>6, ExprFields DEF BeginForCondition, Inside
<1>7. CASE EndExpressionStmt \/ EndVarDecl \/ EndAssign \/ EndField \/ EndReturn \/ EndEmit
             \/ EndRequire
  BY <1>7, ExprFields DEF EndExpressionStmt, EndVarDecl, EndAssign, EndField, EndReturn, EndEmit,
       EndRequire
<1>8. CASE (\E x \in Names : AssignConstant(x)) \/ EmptyReturn \/ Finish \/ CompilerPanics
             \/ UNCHANGED cvars
  BY <1>8 DEF AssignConstant, EmptyReturn, Finish, CompilerPanics, cvars
<1> QED
  BY <1>1, <1>2, <1>3, <1>4, <1>5, <1>6, <1>7, <1>8 DEF Simple

\* A statement is opened, continued or closed between expressions.
LEMMA BetweenExpressions ==
  ASSUME \/ Opens \/ GoesOn \/ Closes \/ (\E f \in Funcs : EnterFunc(f)) \/ LeaveFunc
         \/ EnterTry \/ (\E x \in Names : EnterCatch(x)) \/ LeaveCatch
  PROVE  expr'.for = "nothing"
<1>1. CASE Opens
  BY <1>1, ExprFields DEF Opens, EnterThen, EnterWhile, BeginFor, BeginObject, Begins, InExpr
<1>2. CASE GoesOn
  BY <1>2, ExprFields DEF GoesOn, EnterElse, EnterFor, EnterForPost, InExpr
<1>3. CASE Closes
  BY <1>3 DEF Closes, LeaveIf, LeaveWhile, LeaveFor, EndObject, InExpr
<1>4. CASE (\E f \in Funcs : EnterFunc(f)) \/ LeaveFunc
  BY <1>4 DEF EnterFunc, LeaveFunc, Begins, InExpr
<1>5. CASE EnterTry \/ (\E x \in Names : EnterCatch(x)) \/ LeaveCatch
  BY <1>5 DEF EnterTry, EnterCatch, LeaveCatch, Begins, InExpr
<1> QED
  BY <1>1, <1>2, <1>3, <1>4, <1>5

LEMMA PushedOnObject ==
  ASSUME Pending, Opens \/ (\E f \in Funcs : EnterFunc(f)) \/ EnterTry
  PROVE  ~Inside("object")
BY DEF Pending, Opens, EnterThen, EnterWhile, BeginFor, BeginObject, EnterFunc, EnterTry,
       Begins, Ends, InExpr

LEMMA NoObjectBelow ==
  ASSUME OpenOK, Pending, ~Inside("object")
  PROVE  \A i \in 1..Len(open) : open[i].kind # "object"
<1> SUFFICES ASSUME NEW i \in 1..Len(open), open[i].kind = "object" PROVE FALSE
  OBVIOUS
<1>1. i = Len(open)
  BY DEF Pending
<1>2. open # <<>>
  <2>1. Len(open) # 0
    OBVIOUS
  <2> QED
    BY <2>1
<1>3. Inner = open[Len(open)]
  BY <1>2, InnerIsPlaced
<1> QED
  BY <1>1, <1>2, <1>3 DEF Inside

LEMMA InitPending == Init => Pending
<1> SUFFICES ASSUME Init PROVE Pending
  OBVIOUS
<1>1. expr.for = "nothing" /\ open = <<>>
  BY ExprFields DEF Init
<1> QED
  BY <1>1 DEF Pending, Inside

LEMMA PendingPushed ==
  ASSUME OpenOK, Pending, ~Inside("object"), expr'.for = "nothing",
         NEW e \in Statements, open' = Append(open, e),
         e.kind = "object" => e.name \in DOMAIN symbols'
  PROVE  Pending'
<1>1. /\ Len(open) \in Nat /\ Len(open') = Len(open) + 1
      /\ \A i \in 1..Len(open) : open'[i] = open[i]
      /\ open'[Len(open) + 1] = e
      /\ \A i \in 1..Len(open') : i \in 1..Len(open) \/ i = Len(open) + 1
  BY Pushed
<1>2. \A i \in 1..Len(open') : open'[i].kind = "object" =>
        i = Len(open') /\ open'[i].name \in DOMAIN symbols'
  BY <1>1, NoObjectBelow
<1> QED
  BY <1>2 DEF Pending, InExpr

LEMMA PendingChanged ==
  ASSUME OpenOK, Pending, open # <<>>, Inner.kind # "object", expr'.for = "nothing",
         \/ open' = Front(open)
         \/ \E e \in Statements :
              open' = [open EXCEPT ![Len(open)] = e] /\ e.kind # "object"
  PROVE  Pending'
<1>1. \A i \in 1..Len(open) : open[i].kind # "object"
  BY NoObjectBelow DEF Inside
<1>2. CASE open' = Front(open)
  <2>1. /\ Len(open) \in Nat \ {0} /\ Len(open') = Len(open) - 1
        /\ \A i \in 1..(Len(open) - 1) : open'[i] = open[i]
    BY <1>2, Popped
  <2>2. \A i \in 1..Len(open') : i \in 1..Len(open) /\ open'[i] = open[i]
    BY <2>1
  <2> QED
    BY <1>1, <2>2 DEF Pending, InExpr
<1>3. ASSUME NEW e \in Statements, open' = [open EXCEPT ![Len(open)] = e], e.kind # "object"
      PROVE  Pending'
  <2>1. /\ Len(open) \in Nat \ {0} /\ Len(open') = Len(open)
        /\ \A i \in 1..(Len(open) - 1) : open'[i] = open[i]
        /\ open'[Len(open)] = e
        /\ \A i \in 1..Len(open') : i \in 1..(Len(open) - 1) \/ i = Len(open)
    BY <1>3, Changed
  <2>2. \A i \in 1..(Len(open) - 1) : i \in 1..Len(open)
    BY <2>1
  <2>3. \A i \in 1..Len(open') : open'[i].kind # "object"
    BY <1>1, <1>3, <2>1, <2>2
  <2> QED
    BY <2>3 DEF Pending, InExpr
<1> QED
  BY <1>2, <1>3

LEMMA NextPending == Typed /\ Pending /\ [Next]_cvars => Pending'
<1> SUFFICES ASSUME Typed, Pending, [Next]_cvars PROVE Pending'
  OBVIOUS
<1>1. OpenOK
  BY DEF Typed
<1>2. CASE Simple
  <2>1. UNCHANGED open /\ DOMAIN symbols \subseteq DOMAIN symbols'
    BY <1>2, SimpleSteps, SimpleGrows
  <2> QED
    BY <1>2, <2>1, SimpleExpr DEF Pending, Inside, Inner, InExpr
<1>3. CASE Opens
  BY <1>1, <1>3, OpeningSteps, BetweenExpressions, PushedOnObject, PendingPushed
<1>4. CASE GoesOn
  <2>1. /\ open # <<>> /\ Inner.kind # "object"
        /\ \E e \in Statements :
             open' = [open EXCEPT ![Len(open)] = e] /\ e.kind # "object"
    BY <1>4, GoingOnSteps
  <2> QED
    BY <1>1, <1>4, <2>1, BetweenExpressions, PendingChanged
<1>5. CASE Closes \/ LeaveFunc \/ LeaveCatch
  <2>1. open # <<>> /\ open' = Front(open)
    BY <1>5, ClosingSteps DEF LeaveFunc, LeaveCatch, Inside
  <2>2. expr'.for = "nothing"
    BY <1>5, BetweenExpressions
  <2>3. /\ Len(open) \in Nat \ {0} /\ Len(open') = Len(open) - 1
        /\ \A i \in 1..(Len(open) - 1) : open'[i] = open[i]
    BY <1>1, <2>1, Popped
  <2>4. \A i \in 1..Len(open') : i \in 1..Len(open) /\ i # Len(open) /\ open'[i] = open[i]
    BY <2>3
  <2> QED
    BY <2>2, <2>4 DEF Pending, InExpr
<1>6. ASSUME NEW f \in Funcs, EnterFunc(f) PROVE Pending'
  <2>1. PICK e \in Statements : open' = Append(open, e) /\ e.kind = "func"
    BY <1>6, FuncRecord
  <2> QED
    BY <1>1, <1>6, <2>1, BetweenExpressions, PushedOnObject, PendingPushed
<1>7. CASE EnterTry
  <2>1. PICK e \in Statements : open' = Append(open, e) /\ e.kind = "try"
    BY <1>7, TryRecord
  <2> QED
    BY <1>1, <1>7, <2>1, BetweenExpressions, PushedOnObject, PendingPushed
<1>8. ASSUME NEW x \in Names, EnterCatch(x) PROVE Pending'
  <2>1. /\ open # <<>> /\ Inner.kind # "object"
        /\ \E e \in Statements :
             open' = [open EXCEPT ![Len(open)] = e] /\ e.kind # "object"
    BY <1>8, CatchRecord
  <2> QED
    BY <1>1, <1>8, <2>1, BetweenExpressions, PendingChanged
<1> QED
  BY <1>2, <1>3, <1>4, <1>5, <1>6, <1>7, <1>8, Steps

----------------------------------------------------------------------------
(* Accepted names. Inside the body of a function the analyzer knows the    *)
(* names in scope and those a construct left will bring back into scope.   *)
(* Each has a slot or is a constant, also in the tables that leaving a     *)
(* nested function or a catch block brings back.                           *)

Knows(v, o, x) == x \in v \/ \E i \in 1..Len(o) : x \in o[i].outer \/ x \in o[i].start
InBody == open # <<>> /\ open[1].kind = "func"

Accepted ==
  InBody =>
    /\ \A x : Knows(visible, open, x) => x \in DOMAIN symbols \/ x \in constants
    /\ \A i \in 2..Len(open) : open[i].kind = "func" =>
         \A x : Knows(visible, open, x) =>
                  x \in DOMAIN open[i].symbols \/ x \in open[i].constants
    /\ \A i \in 2..Len(open) : open[i].kind = "catch" =>
         \A x : Knows(visible, open, x) /\ x = open[i].name =>
           \/ x \in DOMAIN open[i].symbols
           \/ /\ x \in constants
              /\ \A j \in (i + 1)..Len(open) : open[j].kind = "func" => x \in open[j].constants

\* Most steps bring no name into the analyzer's sight but one that has a slot or
\* is a constant, and that one only where no function or catch block is open.
LEMMA AcceptedKept ==
  ASSUME Typed, Accepted, constants \subseteq constants',
         InBody' => InBody,
         InBody => \A x : Knows(visible, open, x) => x \in DOMAIN symbols' \/ x \in constants',
         \A x : Knows(visible', open', x) =>
                  \/ Knows(visible, open, x)
                  \/ Analyzed /\ (x \in DOMAIN symbols' \/ x \in constants'),
         \A i \in 1..Len(open') : open'[i].kind \in {"func", "catch"} =>
           i \in 1..Len(open) /\ open'[i] = open[i]
  PROVE  Accepted'
<1> SUFFICES ASSUME InBody'
             PROVE  /\ \A x : Knows(visible', open', x) => x \in DOMAIN symbols' \/ x \in constants'
                    /\ \A i \in 2..Len(open') : open'[i].kind = "func" =>
                         \A x : Knows(visible', open', x) =>
                                  x \in DOMAIN open'[i].symbols \/ x \in open'[i].constants
                    /\ \A i \in 2..Len(open') : open'[i].kind = "catch" =>
                         \A x : Knows(visible', open', x) /\ x = open'[i].name =>
                           \/ x \in DOMAIN open'[i].symbols
                           \/ /\ x \in constants'
                              /\ \A j \in (i + 1)..Len(open') :
                                   open'[j].kind = "func" => x \in open'[j].constants
  BY DEF Accepted
<1>1. InBody
  OBVIOUS
<1>2. \A x : Knows(visible', open', x) => x \in DOMAIN symbols' \/ x \in constants'
  BY <1>1
<1>3. ASSUME NEW i \in 2..Len(open'), open'[i].kind \in {"func", "catch"}
      PROVE  /\ i \in 2..Len(open) /\ open'[i] = open[i]
             /\ \A x : Knows(visible', open', x) => Knows(visible, open, x)
  <2>2. i \in Int /\ 2 <= i /\ i \in 1..Len(open')
    OBVIOUS
  <2>3. i \in 1..Len(open) /\ open'[i] = open[i]
    BY <1>3, <2>2
  <2>4. i \in 2..Len(open)
    BY <2>2, <2>3
  <2>5. ~Analyzed
    BY <1>3, <2>3, <2>4 DEF Analyzed
  <2> QED
    BY <2>3, <2>4, <2>5
<1>4. \A i \in 2..Len(open') : open'[i].kind = "func" =>
        \A x : Knows(visible', open', x) =>
                 x \in DOMAIN open'[i].symbols \/ x \in open'[i].constants
  BY <1>1, <1>3 DEF Accepted
<1>5. ASSUME NEW i \in 2..Len(open'), open'[i].kind = "catch",
             NEW x, Knows(visible', open', x), x = open'[i].name,
             x \notin DOMAIN open'[i].symbols
      PROVE  /\ x \in constants'
             /\ \A j \in (i + 1)..Len(open') : open'[j].kind = "func" => x \in open'[j].constants
  <2>1. i \in 2..Len(open) /\ open'[i] = open[i] /\ Knows(visible, open, x)
    BY <1>3, <1>5
  <2>2. /\ x \in constants
        /\ \A j \in (i + 1)..Len(open) : open[j].kind = "func" => x \in open[j].constants
    BY <1>1, <1>5, <2>1 DEF Accepted
  <2>3. ASSUME NEW j \in (i + 1)..Len(open'), open'[j].kind = "func"
        PROVE  x \in open'[j].constants
    <3>1. j \in 2..Len(open') /\ i + 1 <= j
      OBVIOUS
    <3>2. j \in 2..Len(open) /\ open'[j] = open[j]
      BY <1>3, <2>3, <3>1
    <3>3. j \in (i + 1)..Len(open)
      BY <3>1, <3>2
    <3> QED
      BY <2>2, <2>3, <3>2, <3>3
  <2> QED
    BY <2>2, <2>3
<1> QED
  BY <1>2, <1>4, <1>5

LEMMA DeclaredNames ==
  ASSUME NEW x, Declared(x)
  PROVE  \A y \in visible' : y \in visible \/ (Analyzed /\ y = x)
BY DEF Declared

\* The names that come into the analyzer's sight with a simple statement.
LEMMA SimpleVisible ==
  ASSUME Pending, Simple
  PROVE  /\ constants \subseteq constants'
         /\ \A x \in visible' :
              x \in visible \/ (Analyzed /\ (x \in DOMAIN symbols' \/ x \in constants'))
<1>1. CASE EndVarDecl
  <2>1. expr.name \in DOMAIN symbols' /\ Declared(expr.name) /\ constants' = constants
    BY <1>1, Grows DEF EndVarDecl
  <2> QED
    BY <2>1, DeclaredNames
<1>2. CASE EndAssign
  <2>1. Declared(expr.name) /\ expr.for = "assignment" /\ symbols' = symbols
        /\ constants' = constants
    BY <1>2 DEF EndAssign, Ends, scope
  <2>2. expr.name \in DOMAIN symbols
    BY <2>1 DEF Pending
  <2> QED
    BY <2>1, <2>2, DeclaredNames
<1>3. ASSUME NEW y \in Names, AssignConstant(y)
      PROVE  /\ constants \subseteq constants'
             /\ \A x \in visible' :
                  x \in visible \/ (Analyzed /\ (x \in DOMAIN symbols' \/ x \in constants'))
  <2>1. Declared(y) /\ y \in constants /\ constants' = constants
    BY <1>3 DEF AssignConstant, scope
  <2> QED
    BY <2>1, DeclaredNames
<1>4. CASE \E x \in Names, isConst \in BOOLEAN : BeginVarDecl(x, isConst)
  <2>1. visible' = visible /\ constants \subseteq constants'
    BY <1>4 DEF BeginVarDecl, analysis
  <2> QED
    BY <2>1
<1>5. CASE ExprStep
  <2>1. visible' = visible /\ constants' = constants
    BY <1>5 DEF ExprStep, Number, LargeNumber, Literal, Symbol, IncDec, Binary, Prefix, UserCall,
       PrintCall, Operation, WithConstant, ArrayLiteral, ErrorExpr, scope, analysis
  <2> QED
    BY <2>1
<1>6. CASE (\E x \in Names : BeginAssign(x))
             \/ BeginExpressionStmt \/ EndExpressionStmt \/ BeginMemberAssign
             \/ BeginField \/ EndField \/ BeginReturn \/ EndReturn \/ EmptyReturn
             \/ BeginEmit \/ EndEmit \/ BeginRequire \/ EndRequire
             \/ BeginIf \/ BeginWhile \/ BeginForCondition \/ Finish \/ CompilerPanics
             \/ UNCHANGED cvars
  <2>1. visible' = visible /\ constants' = constants
    BY <1>6 DEF BeginAssign, BeginExpressionStmt, EndExpressionStmt, BeginMemberAssign, BeginField,
       EndField, BeginReturn, EndReturn, EmptyReturn, BeginEmit, EndEmit, BeginRequire,
       EndRequire, BeginIf, BeginWhile, BeginForCondition, Finish, CompilerPanics,
       cvars, scope, analysis
  <2> QED
    BY <2>1
<1> QED
  BY <1>1, <1>2, <1>3, <1>4, <1>5, <1>6 DEF Simple

LEMMA ClosingVisible ==
  ASSUME Typed, Pending, Closes
  PROVE  \A x \in visible' :
           x \in visible \/ x \in Inner.outer \/ (Analyzed /\ x \in DOMAIN symbols)
<1>1. CASE LeaveIf \/ LeaveFor \/ LeaveWhile
  <2>1. visible' = visible \/ visible' = Inner.outer
    BY <1>1 DEF LeaveIf, LeaveFor, LeaveWhile, analysis
  <2> QED
    BY <2>1
<1>2. CASE EndObject
  <2>1. open # <<>> /\ Inner.kind = "object" /\ Declared(Inner.name)
    BY <1>2 DEF EndObject, Inside
  <2>2. Len(open) \in 1..Len(open) /\ Inner = open[Len(open)]
    <3>1. Len(open) \in Nat \ {0} /\ Inner = open[Len(open)]
      BY <2>1, InnerIsPlaced DEF Typed
    <3> QED
      BY <3>1
  <2>3. Inner.name \in DOMAIN symbols
    BY <2>1, <2>2 DEF Pending
  <2> QED
    BY <2>1, <2>3, DeclaredNames
<1> QED
  BY <1>1, <1>2 DEF Closes

LEMMA SimpleAccepted ==
  ASSUME Typed, Pending, Accepted, Simple
  PROVE  Accepted'
<1>1. UNCHANGED open /\ DOMAIN symbols \subseteq DOMAIN symbols' /\ constants \subseteq constants'
  BY SimpleSteps, SimpleGrows, SimpleVisible
<1>2. \A x : Knows(visible', open', x) =>
               \/ Knows(visible, open, x)
               \/ Analyzed /\ (x \in DOMAIN symbols' \/ x \in constants')
  BY <1>1, SimpleVisible DEF Knows
<1>3. InBody => \A x : Knows(visible, open, x) => x \in DOMAIN symbols' \/ x \in constants'
  BY <1>1 DEF Accepted
<1>4. InBody' => InBody
  BY <1>1 DEF InBody
<1> QED
  BY <1>1, <1>2, <1>3, <1>4, AcceptedKept

\* A statement that is neither a function nor a catch block is opened.
LEMMA OpenedAccepted ==
  ASSUME Typed, Accepted, UNCHANGED <<constants, visible>>, DOMAIN symbols \subseteq DOMAIN symbols',
         NEW e \in Statements, open' = Append(open, e), e.kind \notin {"func", "catch"},
         e.outer \subseteq visible, e.start = {}
  PROVE  Accepted'
<1>1. /\ Len(open) \in Nat /\ Len(open') = Len(open) + 1
      /\ \A i \in 1..Len(open) : open'[i] = open[i]
      /\ open'[Len(open) + 1] = e
      /\ \A i \in 1..Len(open') : i \in 1..Len(open) \/ i = Len(open) + 1
  BY Pushed DEF Typed
<1>2. \A x : Knows(visible', open', x) => Knows(visible, open, x)
  BY <1>1 DEF Knows
<1>3. InBody' => InBody
  <2>1. CASE open = <<>>
    BY <1>1, <2>1 DEF InBody
  <2>2. CASE open # <<>>
    <3>1. 1 \in 1..Len(open)
      BY <2>2, EmptySeq DEF Typed, OpenOK
    <3> QED
      BY <1>1, <2>2, <3>1 DEF InBody
  <2> QED
    BY <2>1, <2>2
<1>4. InBody => \A x : Knows(visible, open, x) => x \in DOMAIN symbols' \/ x \in constants'
  BY DEF Accepted
<1>5. \A i \in 1..Len(open') : open'[i].kind \in {"func", "catch"} =>
        i \in 1..Len(open) /\ open'[i] = open[i]
  BY <1>1
<1> QED
  BY <1>2, <1>3, <1>4, <1>5, AcceptedKept

LEMMA GoneOnAccepted ==
  ASSUME Typed, Accepted, GoesOn
  PROVE  Accepted'
<1>1. /\ UNCHANGED <<symbols, constants>>
      /\ open # <<>>
      /\ visible' = visible \/ visible' = Inner.outer \/ visible' = Inner.start
  BY GoingOnSteps DEF scope
<1>2. PICK e \in Statements :
        /\ open' = [open EXCEPT ![Len(open)] = e]
        /\ e.kind \in {"else", "for", "for_post"}
        /\ e.outer = Inner.outer
        /\ e.start = Inner.start \/ e.start = visible
  BY GoingOnSteps
<1>3. /\ Len(open) \in Nat \ {0} /\ Len(open') = Len(open)
      /\ \A i \in 1..(Len(open) - 1) : open'[i] = open[i]
      /\ open'[Len(open)] = e
      /\ \A i \in 1..Len(open') : i \in 1..(Len(open) - 1) \/ i = Len(open)
      /\ Inner = open[Len(open)]
  BY <1>1, <1>2, Changed, InnerIsPlaced DEF Typed
<1>4. Len(open) \in 1..Len(open) /\ \A i \in 1..(Len(open) - 1) : i \in 1..Len(open)
  BY <1>3
<1>5. \A x : Knows(visible', open', x) => Knows(visible, open, x)
  <2>1. \A x \in visible' : Knows(visible, open, x)
    BY <1>1, <1>3, <1>4 DEF Knows
  <2>2. ASSUME NEW i \in 1..Len(open'), NEW x, x \in open'[i].outer \/ x \in open'[i].start
        PROVE  Knows(visible, open, x)
    BY <1>2, <1>3, <1>4, <2>2 DEF Knows
  <2> QED
    BY <2>1, <2>2 DEF Knows
<1>6. InBody' => InBody
  <2>1. CASE Len(open) = 1
    BY <1>2, <1>3, <2>1 DEF InBody
  <2>2. CASE Len(open) # 1
    <3>1. 1 \in 1..(Len(open) - 1)
      BY <1>3, <2>2
    <3> QED
      BY <1>1, <1>3, <3>1 DEF InBody
  <2> QED
    BY <2>1, <2>2
<1>7. InBody => \A x : Knows(visible, open, x) => x \in DOMAIN symbols' \/ x \in constants'
  BY <1>1 DEF Accepted
<1>8. \A i \in 1..Len(open') : open'[i].kind \in {"func", "catch"} =>
        i \in 1..Len(open) /\ open'[i] = open[i]
  BY <1>2, <1>3, <1>4
<1> QED
  BY <1>1, <1>5, <1>6, <1>7, <1>8, AcceptedKept

\* A statement is closed that leaves the table of names a superset of the known ones.
LEMMA ClosedAccepted ==
  ASSUME Typed, Accepted, UNCHANGED constants, open # <<>>, open' = Front(open),
         InBody => \A x : Knows(visible, open, x) => x \in DOMAIN symbols' \/ x \in constants',
         \A x \in visible' : x \in visible \/ x \in Inner.outer
                             \/ (Analyzed /\ x \in DOMAIN symbols')
  PROVE  Accepted'
<1>1. /\ Len(open) \in Nat \ {0} /\ Len(open') = Len(open) - 1
      /\ \A i \in 1..(Len(open) - 1) : open'[i] = open[i]
      /\ Inner = open[Len(open)]
  BY Popped DEF Typed
<1>2. /\ Len(open) \in 1..Len(open)
      /\ \A i \in 1..Len(open') : i \in 1..Len(open) /\ open'[i] = open[i]
  BY <1>1
<1>3. \A x : Knows(visible', open', x) =>
               \/ Knows(visible, open, x)
               \/ Analyzed /\ (x \in DOMAIN symbols' \/ x \in constants')
  BY <1>1, <1>2 DEF Knows
<1>4. InBody' => InBody
  <2> SUFFICES ASSUME InBody' PROVE InBody
    OBVIOUS
  <2>1. Len(open') # 0
    <3>1. open' # <<>> /\ open' \in Seq(Statements)
      BY FrontProperties DEF InBody, Typed, OpenOK
    <3> QED
      BY <3>1, EmptySeq
  <2>2. 1 \in 1..Len(open')
    BY <1>1, <2>1
  <2> QED
    BY <1>2, <2>2 DEF InBody
<1>5. \A i \in 1..Len(open') : open'[i].kind \in {"func", "catch"} =>
        i \in 1..Len(open) /\ open'[i] = open[i]
  BY <1>2
<1> QED
  BY <1>3, <1>4, <1>5, AcceptedKept

\* What a catch block brings back: the symbol its variable hid, if there was one.
LEMMA LeaveCatchAccepted ==
  ASSUME Typed, Accepted, LeaveCatch
  PROVE  Accepted'
<1>1. /\ open # <<>> /\ Inner.kind = "catch" /\ open' = Front(open)
      /\ symbols' = WithoutCatchVar /\ UNCHANGED <<constants, visible>>
  BY DEF LeaveCatch, Inside, analysis
<1>2. Len(open) \in Nat \ {0} /\ Inner = open[Len(open)]
  BY <1>1, Popped DEF Typed
<1>3. ASSUME InBody, NEW x, Knows(visible, open, x)
      PROVE  x \in DOMAIN symbols' \/ x \in constants'
  <2>1. Len(open) # 1
    BY <1>1, <1>2, <1>3 DEF InBody
  <2>2. Len(open) \in 2..Len(open)
    <3>1. PICK n \in Nat \ {0} : n = Len(open) /\ n # 1
      BY <1>2, <2>1
    <3>2. n \in 2..n
      BY <3>1
    <3> QED
      BY <3>1, <3>2
  <2>3. x \in DOMAIN symbols \/ x \in constants
    BY <1>3 DEF Accepted
  <2>4. DOMAIN symbols' = (DOMAIN symbols \ {Inner.name}) \cup DOMAIN Inner.symbols
    BY <1>1 DEF WithoutCatchVar
  <2>5. x = Inner.name => x \in DOMAIN Inner.symbols \/ x \in constants
    BY <1>1, <1>2, <1>3, <2>2 DEF Accepted
  <2> QED
    BY <1>1, <2>3, <2>4, <2>5
<1> QED
  BY <1>1, <1>3, ClosedAccepted

LEMMA EnterCatchAccepted ==
  ASSUME Typed, Accepted, NEW y \in Names, EnterCatch(y)
  PROVE  Accepted'
<1>1. open # <<>> /\ Inner.kind = "try"
  BY CatchRecord
<1>2. PICK e \in Statements :
        /\ open' = [open EXCEPT ![Len(open)] = e]
        /\ e.kind = "catch" /\ e.name = y
        /\ e.symbols = [z \in DOMAIN symbols \cap {y} |-> symbols[z]]
        /\ e.outer = Inner.outer /\ e.start = Inner.start
  BY CatchRecord
<1>3. /\ Len(open) \in Nat \ {0} /\ Len(open') = Len(open)
      /\ \A i \in 1..(Len(open) - 1) : open'[i] = open[i]
      /\ open'[Len(open)] = e
      /\ \A i \in 1..Len(open') : i \in 1..(Len(open) - 1) \/ i = Len(open)
      /\ Inner = open[Len(open)]
  BY <1>1, <1>2, Changed, InnerIsPlaced DEF Typed
<1>4. Len(open) \in 1..Len(open) /\ \A i \in 1..(Len(open) - 1) : i \in 1..Len(open)
  BY <1>3
<1>5. UNCHANGED <<constants, visible>> /\ DOMAIN symbols' = DOMAIN symbols \cup {y}
  BY DEF EnterCatch, analysis, Put
<1>6. \A x : Knows(visible', open', x) => Knows(visible, open, x)
  BY <1>2, <1>3, <1>4, <1>5 DEF Knows
<1> SUFFICES ASSUME InBody' PROVE Accepted'
  BY DEF Accepted
<1>7. InBody
  <2>1. CASE Len(open) = 1
    BY <1>2, <1>3, <2>1 DEF InBody
  <2>2. CASE Len(open) # 1
    <3>1. 1 \in 1..(Len(open) - 1)
      BY <1>3, <2>2
    <3> QED
      BY <1>1, <1>3, <3>1 DEF InBody
  <2> QED
    BY <2>1, <2>2
<1>8. \A x : Knows(visible, open, x) => x \in DOMAIN symbols \/ x \in constants
  BY <1>7 DEF Accepted
<1>9. \A i \in 2..Len(open') : open'[i].kind = "func" =>
        i \in 2..Len(open) /\ open'[i] = open[i]
  <2>1. \A i \in 2..Len(open') : i \in 1..Len(open')
    BY <1>3
  <2> QED
    BY <1>2, <1>3, <2>1
<1>10. \A i \in 2..Len(open') : open'[i].kind = "func" =>
         \A x : Knows(visible', open', x) =>
                  x \in DOMAIN open'[i].symbols \/ x \in open'[i].constants
  BY <1>6, <1>7, <1>9 DEF Accepted
<1>11. ASSUME NEW i \in 2..Len(open'), open'[i].kind = "catch",
              NEW x, Knows(visible', open', x), x = open'[i].name,
              x \notin DOMAIN open'[i].symbols
       PROVE  /\ x \in constants'
              /\ \A j \in (i + 1)..Len(open') : open'[j].kind = "func" => x \in open'[j].constants
  <2>1. CASE i = Len(open)
    <3>1. x = y /\ x \notin DOMAIN symbols
      <4>1. open'[i] = e /\ e.name = y
        BY <1>2, <1>3, <2>1
      <4>2. DOMAIN e.symbols = DOMAIN symbols \cap {y}
        BY <1>2
      <4>3. x = y /\ x \notin DOMAIN symbols \cap {y}
        BY <1>11, <4>1, <4>2
      <4> QED
        BY <4>3
    <3>2. x \in constants'
      BY <1>5, <1>6, <1>8, <1>11, <3>1
    <3>3. \A j \in (i + 1)..Len(open') : FALSE
      BY <1>3, <2>1
    <3> QED
      BY <3>2, <3>3
  <2>2. CASE i # Len(open)
    <3>1. i \in 1..Len(open')
      BY <1>3
    <3>2. i \in 2..Len(open) /\ open'[i] = open[i]
      BY <1>3, <2>2, <3>1
    <3>3. /\ x \in constants
          /\ \A j \in (i + 1)..Len(open) : open[j].kind = "func" => x \in open[j].constants
      BY <1>6, <1>7, <1>11, <3>2 DEF Accepted
    <3>4. \A j \in (i + 1)..Len(open') : j \in 2..Len(open') /\ j \in (i + 1)..Len(open)
      BY <1>3
    <3> QED
      BY <1>5, <1>9, <3>3, <3>4
  <2> QED
    BY <2>1, <2>2
<1>12. \A x : Knows(visible', open', x) => x \in DOMAIN symbols' \/ x \in constants'
  BY <1>5, <1>6, <1>8
<1> QED
  BY <1>10, <1>11, <1>12 DEF Accepted

\* A function keeps the tables of its surroundings, for when it is left.
LEMMA EnterFuncAccepted ==
  ASSUME Typed, Accepted, NEW f \in Funcs, EnterFunc(f)
  PROVE  Accepted'
<1>1. PICK e \in Statements :
        /\ open' = Append(open, e)
        /\ e.kind = "func" /\ e.symbols = symbols /\ e.constants = constants
        /\ e.outer = {} /\ e.start = {}
  BY FuncRecord
<1>2. /\ Len(open) \in Nat /\ Len(open') = Len(open) + 1
      /\ \A i \in 1..Len(open) : open'[i] = open[i]
      /\ open'[Len(open) + 1] = e
      /\ \A i \in 1..Len(open') : i \in 1..Len(open) \/ i = Len(open) + 1
  BY <1>1, Pushed DEF Typed
<1>3. /\ DOMAIN symbols' = DOMAIN symbols \cup Range(Params[f])
      /\ constants' = constants
  BY ParamsBound DEF EnterFunc, Typed
<1>4. CASE open = <<>>
  <2>1. visible' = Range(Params[f]) /\ Len(open) = 0
    BY <1>4, EmptySeq DEF EnterFunc
  <2>2. \A i \in 1..Len(open') : open'[i] = e
    BY <1>2, <2>1
  <2>3. \A x : Knows(visible', open', x) => x \in Range(Params[f])
    BY <1>1, <2>1, <2>2 DEF Knows
  <2>4. \A i \in 2..Len(open') : FALSE
    BY <1>2, <2>1
  <2> QED
    BY <1>3, <2>3, <2>4 DEF Accepted
<1>5. CASE open # <<>>
  <2> SUFFICES ASSUME InBody' PROVE Accepted'
    BY DEF Accepted
  <2>1. Len(open) \in Nat \ {0}
    BY <1>5, EmptySeq DEF Typed, OpenOK
  <2>2. 1 \in 1..Len(open)
    BY <2>1
  <2>3. InBody
    BY <1>2, <1>5, <2>2 DEF InBody
  <2>4. visible' = visible
    BY <1>5 DEF EnterFunc
  <2>5. \A x : Knows(visible', open', x) => Knows(visible, open, x)
    BY <1>1, <1>2, <2>4 DEF Knows
  <2>6. \A x : Knows(visible, open, x) => x \in DOMAIN symbols \/ x \in constants
    BY <2>3 DEF Accepted
  <2>7. \A i \in 2..Len(open') : (i \in 2..Len(open) /\ open'[i] = open[i]) \/ open'[i] = e
    <3>1. \A i \in 2..Len(open') : i \in 1..Len(open') /\ (i \in 1..Len(open) => i \in 2..Len(open))
      BY <1>2
    <3> QED
      BY <1>2, <3>1
  <2>8. \A i \in 2..Len(open') : open'[i].kind = "func" =>
          \A x : Knows(visible', open', x) =>
                   x \in DOMAIN open'[i].symbols \/ x \in open'[i].constants
    BY <1>1, <2>3, <2>5, <2>6, <2>7 DEF Accepted
  <2>9. ASSUME NEW i \in 2..Len(open'), open'[i].kind = "catch",
               NEW x, Knows(visible', open', x), x = open'[i].name,
               x \notin DOMAIN open'[i].symbols
        PROVE  /\ x \in constants'
               /\ \A j \in (i + 1)..Len(open') :
                    open'[j].kind = "func" => x \in open'[j].constants
    <3>1. i \in 2..Len(open) /\ open'[i] = open[i]
      BY <1>1, <2>7, <2>9
    <3>2. /\ x \in constants
          /\ \A j \in (i + 1)..Len(open) : open[j].kind = "func" => x \in open[j].constants
      BY <2>3, <2>5, <2>9, <3>1 DEF Accepted
    <3>3. \A j \in (i + 1)..Len(open') : j \in (i + 1)..Len(open) \/ j = Len(open) + 1
      BY <1>2
    <3>4. \A j \in (i + 1)..Len(open) : j \in 1..Len(open)
      BY <1>2
    <3> QED
      BY <1>1, <1>2, <1>3, <3>2, <3>3, <3>4
  <2>10. \A x : Knows(visible', open', x) => x \in DOMAIN symbols' \/ x \in constants'
    BY <1>3, <2>5, <2>6
  <2> QED
    BY <2>8, <2>9, <2>10 DEF Accepted
<1> QED
  BY <1>4, <1>5

LEMMA LeaveFuncAccepted ==
  ASSUME Typed, Accepted, LeaveFunc
  PROVE  Accepted'
<1>1. /\ open # <<>> /\ Inner.kind = "func" /\ open' = Front(open)
      /\ symbols' = Inner.symbols /\ constants' = Inner.constants
      /\ visible' = IF Len(open) = 1 THEN {} ELSE visible
  BY DEF LeaveFunc, Inside
<1>2. /\ Len(open) \in Nat \ {0} /\ Len(open') = Len(open) - 1
      /\ \A i \in 1..(Len(open) - 1) : open'[i] = open[i]
      /\ Inner = open[Len(open)]
  BY <1>1, Popped DEF Typed
<1> SUFFICES ASSUME InBody' PROVE Accepted'
  BY DEF Accepted
<1>3. Len(open') # 0
  <2>1. open' # <<>> /\ open' \in Seq(Statements)
    BY <1>1, FrontProperties DEF InBody, Typed, OpenOK
  <2> QED
    BY <2>1, EmptySeq
<1>4. PICK n \in Nat : n = Len(open) /\ 2 <= n
  BY <1>2, <1>3
<1>5. /\ n \in 2..n /\ 1 \in 1..(n - 1) /\ n # 1
      /\ \A i \in 1..(n - 1) : i \in 1..n
      /\ \A i \in 2..(n - 1) : i \in 1..(n - 1) /\ i \in 2..n /\ n \in (i + 1)..n
      /\ \A i \in 2..(n - 1) : \A j \in (i + 1)..(n - 1) : j \in (i + 1)..n /\ j \in 1..(n - 1)
  BY <1>4
<1>6. InBody /\ visible' = visible
  BY <1>1, <1>2, <1>4, <1>5 DEF InBody
<1>7. \A x : Knows(visible', open', x) => Knows(visible, open, x)
  BY <1>2, <1>4, <1>5, <1>6 DEF Knows
<1>8. \A x : Knows(visible', open', x) => x \in DOMAIN symbols' \/ x \in constants'
  BY <1>1, <1>2, <1>4, <1>5, <1>6, <1>7 DEF Accepted
<1>9. \A i \in 2..Len(open') : open'[i].kind = "func" =>
        \A x : Knows(visible', open', x) =>
                 x \in DOMAIN open'[i].symbols \/ x \in open'[i].constants
  BY <1>2, <1>4, <1>5, <1>6, <1>7 DEF Accepted
<1>10. ASSUME NEW i \in 2..Len(open'), open'[i].kind = "catch",
              NEW x, Knows(visible', open', x), x = open'[i].name,
              x \notin DOMAIN open'[i].symbols
       PROVE  /\ x \in constants'
              /\ \A j \in (i + 1)..Len(open') : open'[j].kind = "func" => x \in open'[j].constants
  <2>1. i \in 2..(n - 1) /\ open'[i] = open[i]
    BY <1>2, <1>4, <1>5
  <2>2. \A j \in (i + 1)..n : open[j].kind = "func" => x \in open[j].constants
    BY <1>4, <1>5, <1>6, <1>7, <1>10, <2>1 DEF Accepted
  <2>3. x \in constants'
    BY <1>1, <1>2, <1>4, <1>5, <2>1, <2>2
  <2>4. \A j \in (i + 1)..(n - 1) : open'[j] = open[j] /\ j \in (i + 1)..n
    BY <1>2, <1>4, <1>5, <2>1
  <2> QED
    BY <1>2, <1>4, <2>2, <2>3, <2>4
<1> QED
  BY <1>8, <1>9, <1>10 DEF Accepted

LEMMA InitAccepted == Init => Accepted
BY DEF Init, Accepted, InBody

LEMMA NextAccepted == Typed /\ Pending /\ Accepted /\ [Next]_cvars => Accepted'
<1> SUFFICES ASSUME Typed, Pending, Accepted, [Next]_cvars PROVE Accepted'
  OBVIOUS
<1>1. CASE Simple
  BY <1>1, SimpleAccepted
<1>2. CASE Opens
  <2>1. UNCHANGED <<constants, visible>> /\ DOMAIN symbols \subseteq DOMAIN symbols'
    BY <1>2, OpeningSteps, OpeningScope, Grows
  <2> QED
    BY <1>2, <2>1, OpeningSteps, OpenedAccepted
<1>3. CASE GoesOn
  BY <1>3, GoneOnAccepted
<1>4. CASE Closes
  <2>1. open # <<>> /\ open' = Front(open) /\ UNCHANGED <<symbols, constants>>
    BY <1>4, ClosingSteps DEF scope
  <2>2. InBody => \A x : Knows(visible, open, x) => x \in DOMAIN symbols' \/ x \in constants'
    BY <2>1 DEF Accepted
  <2> QED
    BY <1>4, <2>1, <2>2, ClosingVisible, ClosedAccepted
<1>5. CASE EnterTry
  <2>1. UNCHANGED <<constants, visible, symbols>>
    BY <1>5 DEF EnterTry, analysis
  <2>2. PICK e \in Statements : open' = Append(open, e) /\ e.kind = "try" /\ e.outer = {}
                                /\ e.start = {}
    BY <1>5, TryRecord
  <2> QED
    BY <2>1, <2>2, OpenedAccepted
<1> QED
  BY <1>1, <1>2, <1>3, <1>4, <1>5, EnterCatchAccepted, LeaveCatchAccepted, EnterFuncAccepted,
     LeaveFuncAccepted, Steps

(***************************************************************************)
(* What the analyzer has let into scope in a function has a slot, or is a  *)
(* constant, wherever the function may use it, whatever functions, try     *)
(* statements, branches and loops stand around it, unless so far only the  *)
(* last clause of a loop under way brings it in: the analyzer's copies of  *)
(* its scope and the compiler's one table with what it restores agree on   *)
(* all other names (analyzer.go:379, :506; stmt.go:109, :583-593).         *)
(***************************************************************************)
THEOREM AcceptedNames == Spec => []AcceptedNamesHaveSlots
<1>1. Init => Typed /\ Pending /\ Accepted
  BY InitTyped, InitPending, InitAccepted
<1>2. Typed /\ Pending /\ Accepted /\ [Next]_cvars => (Typed /\ Pending /\ Accepted)'
  BY NextTyped, NextPending, NextAccepted
<1>3. Accepted => AcceptedNamesHaveSlots
  <2> SUFFICES ASSUME Accepted, Analyzed, NEW x \in visible
               PROVE  x \in DOMAIN symbols \/ x \in constants
    BY DEF AcceptedNamesHaveSlots, InScope
  <2>1. InBody /\ Knows(visible, open, x)
    BY DEF Analyzed, InBody, Knows
  <2> QED
    BY <2>1 DEF Accepted
<1> QED
  BY <1>1, <1>2, <1>3, PTL DEF Spec
=============================================================================
